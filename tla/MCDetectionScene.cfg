SPECIFICATION Spec
CONSTANTS
  b1 = b1
  b2 = b2
  Boxes = {b1, b2}
  NoBox = NoBox
  Poses = 2
  MaxContinues = 1
SYMMETRY BoxSymmetry
INVARIANTS TypeOK SceneIsSnapshot ScenePostdatesRequest
PROPERTY TaskBoxUndisturbed
