SPECIFICATION Spec
CONSTANTS
  Albums = {1, 2, 3, 4, 5, 6, 7}
  ArtistOf <- MCArtistOf
  FamilyPairs = {}
  FirstCatalog = {1, 2, 3, 4, 5}
  Backbone <- MCBackbone
  Corpora <- MCCorpora
  Bridged <- MCBridged
  GivenMaxPaths = {7}
  MaxSlips = 1
  MaxRounds = 1
INVARIANTS
  AlbumsDocumented
  RoutesFollowTheCatalog
  PairsArePublishedWhole
PROPERTIES
  PublishedPairsStay
  PublishedAlbumsStay
  FullPassIsConsistent
CHECK_DEADLOCK FALSE
