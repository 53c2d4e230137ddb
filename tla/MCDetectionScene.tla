--------------------------- MODULE MCDetectionScene ---------------------------
(* Two boxes seen in two poses; a Continue in any phase of any task. *)
EXTENDS DetectionScene, TLC

CONSTANTS b1, b2

BoxSymmetry == Permutations({b1, b2})
=============================================================================
