SPECIFICATION Spec
CONSTANTS
  op1 = op1
  op2 = op2
  reset1 = reset1
  reset2 = reset2
  NoClient = NoClient
  Ops <- MCOps
  Resets <- MCResets
PROPERTIES
  FailedResetKeepsOperationsOut
