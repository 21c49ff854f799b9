SPECIFICATION FairSpec
CONSTANTS
  Blank = Blank
  t1 = t1
  t2 = t2
  s1 = s1
  s2 = s2
  r1 = r1
  r2 = r2
  Texts = {Blank, t1, t2}
  Edits <- OwnersEdits
  Graces = {0}
  Setups <- DefaultSettings
  Patience = 1
  Sweeps = {s1, s2}
  Requests = {r1, r2}
  MaxChanges = 2
  MaxCrashes = 1
INVARIANTS
  RecordIsTold
  AcceptedIsShown
PROPERTIES
  TurnstileCatchesUp
