SPECIFICATION Spec
CONSTANTS
  Procs = {p1, p2}
  ChatIds = {c1}
  NoOne = none
  Kinds = {"start.message", "send"}
  Imported = {}
  Eager = FALSE
  MaxRequests = 3
  MaxFailures = 0
  MaxCrashes = 0
  SdkForks = FALSE
  Managed = FALSE
  OutputScripts = TRUE
SYMMETRY Symmetry
INVARIANTS
  MessagesWin
CHECK_DEADLOCK FALSE
