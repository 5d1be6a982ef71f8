SPECIFICATION Pipeline
CONSTANTS
  c1 = c1
  c2 = c2
  boot = boot
  Callers = {c1, c2}
  Boot = boot
  MaxLoads = 2
  IdleTicks = 1
  CslsFactor = 1
  OwnerOverfetch = 2
  DiscoverFactor = 2
  DiscoverCap = 4
  DiscoverSegments = 1
  Unit = 3
  Owners <- MCOwners
  Chats = {1, 2, 3, 4}
  Cards = {11, 12, 13}
  OwnerOf <- MCOwnerOf
  CardOf <- MCCardOf
  ParentOf <- MCParentOf
  Material <- MCMaterial
  Given <- MCGiven
  Vector <- MCVector
  Reach = 1
  HubK = 1
  ThemeK = 1
  MaxChanges = 2
  Settings <- ThreeSettings
  Deployments <- OneOfTwo
  GivenSeqs = 2
  MaxSeqs = 6
  MaxEdits = 1
  MaxFailures = 1
  MaxCrashes = 1
INVARIANTS
  RebuiltFromCanon
  BridgeTellsOnce
  SegmentsVerbatim
  ModelsHold
  RollupsHold
  PromptHolds
  StreamHolds
  SearchHolds
CHECK_DEADLOCK FALSE
