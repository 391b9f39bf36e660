----------------------------- MODULE MCWardrobeView -----------------------------
(* An instance of the wardrobe page; cfg files give the values.              *)
EXTENDS WardrobeView
=============================================================================
