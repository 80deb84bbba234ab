\* The evidence of a generated round against the release it names.
CONSTANTS
  Contributors <- MCContributors
  Albums <- MCAlbums
  Catalogs <- MCCatalogs
  Rounds <- Published
  OneHopTarget = 3
  TwoHopTarget = 3
  MaxEndpointShare = 60
  MaxBridgeShare = 60
SPECIFICATION Spec
\* A revealed round is over.
CHECK_DEADLOCK FALSE
INVARIANTS EvidenceIsOfItsRelease
