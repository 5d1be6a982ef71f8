SPECIFICATION Spec
CONSTANTS
  Procs = {p1, p2}
  ChatIds = {c1}
  NoOne = none
  Kinds = {"start.opening", "send"}
  Imported = {}
  Eager = TRUE
  MaxRequests = 2
  MaxFailures = 0
  MaxCrashes = 0
  SdkForks = FALSE
  Managed = FALSE
  OutputScripts = TRUE
SYMMETRY Symmetry
INVARIANTS
  OneGenerationInFlight
CHECK_DEADLOCK FALSE
