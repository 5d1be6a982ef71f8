SPECIFICATION Spec
CONSTANTS
  Procs = {p1}
  ChatIds = {c1}
  NoOne = none
  Kinds = {"start.greeting", "swipe"}
  Imported = {}
  Eager = FALSE
  MaxRequests = 2
  MaxFailures = 0
  MaxCrashes = 0
  SdkForks = FALSE
  Managed = FALSE
  OutputScripts = TRUE
SYMMETRY Symmetry
INVARIANTS
  SessionsStartUserFirst
CHECK_DEADLOCK FALSE
