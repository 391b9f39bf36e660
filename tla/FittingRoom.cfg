SPECIFICATION Spec
CONSTANTS
  t1 = t1
  t2 = t2
  Tabs <- TwoTabs
  Here = t1
  Drafts <- TwoDrafts
  Default = "blue"
  Blank = Blank
  Broken = Broken
  None = None
  MaxSteps = 10
INVARIANTS
  ConfirmedIsTheLastChosen
  PhotosAreHeldWhileShown
  NewestDraftIsShown
CHECK_DEADLOCK FALSE
