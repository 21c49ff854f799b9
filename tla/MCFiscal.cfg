SPECIFICATION FairSpec
CONSTANTS
  r1 = r1
  r2 = r2
  None = None
  MaxNotes = 2
  Requests = {r1, r2}
  Setups <- MCSetups
  MaxChanges = 1
  MaxFailures = 1
INVARIANTS
  NotesAreKnown
  DocumentIsTrue
PROPERTIES
  TerminalLeftOnlyByStaleWriter
  ProcessingEnds
CHECK_DEADLOCK FALSE
