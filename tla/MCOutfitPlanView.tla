-------------------------- MODULE MCOutfitPlanView --------------------------
(* A top and, on the second page, a dress that is not wearable at first.     *)
EXTENDS OutfitPlanView

CONSTANTS shirt, dress

Wardrobe   == {shirt, dress}
Category   == [g \in Wardrobe |-> IF g = dress THEN "one_piece" ELSE "top"]
PageOne    == {shirt}
Laundry    == {dress}
=============================================================================
