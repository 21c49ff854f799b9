SPECIFICATION Spec
CONSTANTS
  ana = ana
  bia = bia
  r1 = r1
  r2 = r2
  None = None
  People = {ana, bia}
  MaxRows = 3
  MaxLinks = 2
  Requests = {r1, r2}
  Setups <- Programme
  MaxAsked = 6
  MaxFailures = 1
SYMMETRY SameRequests
INVARIANTS
  FriendsAreCounted
  LinksOpen
PROPERTIES
  OnlyOldImportsBringBack
CHECK_DEADLOCK FALSE
