--------------------------- MODULE MCIssuePipeline ---------------------------
(* Two issues of one repository for TLC; they differ in nothing, so their    *)
(* states are taken up to symmetry where no liveness is checked.             *)
EXTENDS IssuePipeline, TLC

CONSTANTS i1, i2

Symmetry == Permutations(Issues)
=============================================================================
