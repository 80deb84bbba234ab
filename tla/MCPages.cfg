\* Rounds of both kinds, generated from six catalogues; two tabs over three dates, so
\* that a streak can be built, broken and built again; a Connect page of three records,
\* two entries of history, and up to three searches and callbacks waiting.
CONSTANTS
  Contributors <- MCContributors
  Albums <- MCAlbums
  Catalogs <- MCCatalogs
  Rounds <- Published
  OneHopTarget = 3
  TwoHopTarget = 3
  MaxEndpointShare = 60
  MaxBridgeShare = 60
  Tabs = {t1, t2}
  LastDay = 3
  x = x
  y = y
  z = z
  Records <- MCRecords
  Gone = Gone
  None = None
  Filters <- MCFilters
  Connected <- MCConnected
  Links <- MCLinks
  MaxHistory = 2
  MaxPending = 3
SPECIFICATION PagesSpec
SYMMETRY TabSymmetry
\* A revealed round is over.
CHECK_DEADLOCK FALSE
INVARIANTS
  RatingEarned Winnable OnlyFamilyIsStruck
  StreakNeverInflated StreakExact NoLostResult
  ShownIsSelected BackLeavesPair
PROPERTIES ContractHolds
