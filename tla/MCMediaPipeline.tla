--------------------------- MODULE MCMediaPipeline ---------------------------
(* One asset and one or two worker processes; the faults are chosen in each  *)
(* .cfg.                                                                     *)
EXTENDS MediaPipeline, TLC

CONSTANTS m1, p1, p2

OneAsset     == {m1}
OneProcess   == {p1}
TwoProcesses == {p1, p2}
MixedKinds   == {<<"wardrobe", "normalized.png">>, <<"personal", "normalized.jpg">>}
PhotoKind    == {<<"wardrobe", "normalized.jpg">>}
PlainKind    == {<<"plain", "normalized.jpg">>}
AnyProcess   == Permutations(TwoProcesses)
=============================================================================
