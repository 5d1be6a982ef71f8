SPECIFICATION Spec
CONSTANTS
  Procs = {p1, p2}
  ChatIds = {c1, c2}
  NoOne = none
  Kinds = {"start.message", "send", "fork", "provider"}
  Imported = {}
  Eager = FALSE
  MaxRequests = 4
  MaxFailures = 0
  MaxCrashes = 0
  SdkForks = FALSE
  Managed = TRUE
  OutputScripts = TRUE
SYMMETRY SymmetryOfBoth
INVARIANTS
  SummaryCoversCanon
  SessionMirrorsCanon
  TurnSeesCanon
  AcceptedTurnIsCoherent
  CountMatches
CHECK_DEADLOCK FALSE
