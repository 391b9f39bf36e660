SPECIFICATION Spec
CONSTANTS
  shirt = shirt
  skirt = skirt
  dress = dress
  None = None
  Outfits <- TwoOutfits
  Formalities <- TwoLevels
  Warmths <- TwoLevels
  Extras <- OneExtra
  Packed = "packed"
  SceneDefault <- DailyDefault
  MaxVersion = 3
  MaxPlans = 2
  Disturbances = 3
INVARIANTS
  ShownAnswersConditions
  WaitsForCurrentRequest
  OnePlanPerCard
CHECK_DEADLOCK FALSE
