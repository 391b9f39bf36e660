SPECIFICATION Spec
CONSTANTS
  shirt = shirt
  dress = dress
  None = None
  Garments <- Wardrobe
  CategoryOf <- Category
  FirstPage <- PageOne
  InLaundry <- Laundry
  MaxSelected = 3
  Dates = {1, 2}
  Today = 2
  MaxPlans = 3
  MaxRequests = 3
  Disturbances = 1
INVARIANTS
  OnePlanPerDraft
  LoadedIsOneOutfit
PROPERTIES
  NothingIsOverwrittenUnseen
CHECK_DEADLOCK FALSE
