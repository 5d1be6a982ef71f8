SPECIFICATION Spec
CONSTANTS
  Procs = {p1}
  ChatIds = {c1}
  NoOne = none
  Kinds = {"send"}
  Imported = {c1}
  Eager = FALSE
  MaxRequests = 1
  MaxFailures = 0
  MaxCrashes = 0
  SdkForks = FALSE
  Managed = FALSE
  OutputScripts = TRUE
SYMMETRY Symmetry
INVARIANTS
  TurnSeesCanon
CHECK_DEADLOCK FALSE
