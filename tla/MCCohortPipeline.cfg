SPECIFICATION Spec
CONSTANTS
  Artists = {1, 2, 3, 4, 5}
  Performer <- MCPerformer
  NonCollaborative <- MCNonCollaborative
  Quotations <- MCQuotations
  BareQuotations <- MCBareQuotations
  NonPerformer <- MCNonPerformer
  Excluded = {5}
  FlaggedIds = {3}
  Hubs = {5}
  NonStudio = {}
  NonStudioTracks = {}
  CompilationAt = 4
  MaxPerRelease = 4
  MaxPerTrack = 3
  MaxHops = 3
  Snapshots = {"june", "july"}
  Dumps <- MCDumps
  Credits <- MCCredits
  Seeds <- MCSeeds
  Pages <- MCPages
  Caps = {1, 4}
  MaxPairs = 3
  MaxFailed = 1
  MaxCommands = 5
  OneHopRoutes = 2
  TwoHopRoutes = 2
  EndpointShare = 70
  BridgeShare = 50
  MaxBridgeAttempts = 2
  MaxRouteDistractors = 1
  Families = {}
  RefusedReleases = {35}
  MasterOf <- MCMasterOf
  MainReleaseOf <- MCMainReleaseOf
  Year <- MCYear
  NonStudioMasters = {}
  MasterExclusions = {}
  Collections <- MCCollections
  PoolOverlap = 2
  RosterBand = {2, 3}
  OverlapMinimum = 2
  SelectCount = 3
  CatalogTarget = 3
INVARIANTS
  RoutesAreTrue
  FrontierIsWhole
  VerdictsAreHonest
  SelectionIsReal
PROPERTIES
  PublishedIsEvidenced
CHECK_DEADLOCK FALSE
