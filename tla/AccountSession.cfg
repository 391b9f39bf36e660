SPECIFICATION FairSpec
CONSTANTS
  Users = {"alice", "bob"}
  Registered = {"alice"}
  Contents = {"old", "new"}
  None = None
  MaxVisits = 1
  MaxRequests = 3
  Disturbances = 1
INVARIANTS
  ListsAreOfTheSession
PROPERTIES
  DraftIsOfTheRowReplaced
  NavigationSettles
CHECK_DEADLOCK FALSE
