SPECIFICATION Spec
CONSTANTS
  shirt = shirt
  coat = coat
  None = None
  Garments <- Wardrobe
  FirstPage <- PageOne
  InLaundry <- Laundry
  Washable <- PageOne
  MaxSelected = 2
  Dates = {1, 2}
  Today = 2
  Recorded = {"followed_plan"}
  WithPlan = {TRUE, FALSE}
  MaxChanges = 2
  MaxEvents = 3
  MaxRequests = 2
  Disturbances = 1
INVARIANTS
  OneEventPerDraft
  FollowedIsTheListedPlan
  PlanFollowsEvents
PROPERTIES
  ConfirmsWhatWasReported
  NothingIsOverwrittenUnseen
CHECK_DEADLOCK FALSE
