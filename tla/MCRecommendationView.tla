------------------------ MODULE MCRecommendationView ------------------------
(* An outfit of two items and one of a single item; each toggle has two      *)
(* positions.                                                                *)
EXTENDS RecommendationView

CONSTANTS shirt, skirt, dress

TwoOutfits   == {{shirt, skirt}, {dress}}
TwoLevels    == {"any", "casual"}
OneExtra     == {"packed"}
DailyDefault == [formality |-> "any", warmth |-> "any", extras |-> {}]
=============================================================================
