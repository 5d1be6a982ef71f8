SPECIFICATION Spec
CONSTANTS
  Procs = {p1, p2}
  ChatIds = {c1}
  NoOne = none
  Kinds = {"start.greeting", "start.message", "send", "swipe", "edit", "select"}
  Imported = {}
  Eager = FALSE
  MaxRequests = 5
  MaxFailures = 0
  MaxCrashes = 0
  SdkForks = FALSE
  Managed = FALSE
  OutputScripts = TRUE
SYMMETRY Symmetry
INVARIANTS
  OneGenerationInFlight
  TurnSeesCanon
  SessionMirrorsCanon
  OnlyScriptsDiffer
  TotalsCoverGenerations
  VariantsCoherent
CHECK_DEADLOCK FALSE
