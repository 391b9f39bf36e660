---------------------------- MODULE MCWearEventView ----------------------------
(* A shirt and, on the second page, a coat that is not wearable at first.     *)
EXTENDS WearEventView

CONSTANTS shirt, coat

Wardrobe == {shirt, coat}
PageOne  == {shirt}
Laundry  == {coat}
=============================================================================
