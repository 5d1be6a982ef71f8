SPECIFICATION FairSpec
CONSTANTS
  Procs = {p1, p2}
  ChatIds = {c1}
  NoOne = none
  Kinds = {"start.opening", "send", "swipe", "edit", "delete", "patch", "compact", "provider"}
  Imported = {}
  Eager = TRUE
  MaxRequests = 3
  MaxFailures = 1
  MaxCrashes = 1
  SdkForks = FALSE
  Managed = TRUE
  OutputScripts = TRUE
INVARIANTS
  TypeOK
PROPERTIES
  ImplementsLog
  RequestsFinish
CHECK_DEADLOCK FALSE
