SPECIFICATION Spec
CONSTANTS
  Procs = {p1, p2}
  ChatIds = {c1, c2}
  NoOne = none
  Kinds = {"start.opening", "start.greeting", "send", "delete", "fork"}
  Imported = {}
  Eager = TRUE
  MaxRequests = 3
  MaxFailures = 1
  MaxCrashes = 1
  SdkForks = TRUE
  Managed = FALSE
  OutputScripts = TRUE
SYMMETRY SymmetryOfBoth
INVARIANTS
  CanonContiguous
  RepliesFollowTurns
CHECK_DEADLOCK FALSE
