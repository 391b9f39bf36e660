------------------------- MODULE MCGenerationWorkers -------------------------
(* Two workers are enough for every takeover: one holds the old claim, the *)
(* other the new one, and each may work for any queue.                     *)
EXTENDS GenerationWorkers, TLC

Symmetry == Permutations(Workers)
=============================================================================
