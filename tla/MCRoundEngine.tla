--------------------------- MODULE MCRoundEngine ---------------------------
(* RoundPlay for TLC: the rounds of pools generated from small catalogues,   *)
(* albums 1 to 4 and performers 11 to 17.                                    *)
EXTENDS RoundPlay

MCContributors == 11 .. 17
MCAlbums == 1 .. 5

Catalog(performs, family) ==
  [albums |-> DOMAIN performs, performs |-> performs, family |-> family]

MCCatalogs == {
  \* two albums and one shared performer
  Catalog(<<{11, 12, 13}, {11, 14}>>, {}),
  \* a chain whose middle comes last, and one whose middle comes first
  Catalog(<<{11, 12, 13}, {14, 15}, {12, 14, 16, 17}>>, {}),
  Catalog(<<{12, 14, 16}, {11, 12, 13}, {14, 15}, {17}>>, {}),
  \* several answers, and two albums of one artist
  Catalog(<<{11, 12, 13}, {11, 12, 14}, {14, 15, 16}, {11, 14, 17}>>, {{1, 4}}),
  \* a square: every pair that shares nobody has two middles
  Catalog(<<{11, 13, 15}, {11, 12}, {13, 14}, {12, 14, 16}>>, {}),
  \* a middle the exclusions leave alone in its place
  Catalog(<<{11, 12}, {11, 14, 15}, {14, 16}, {12, 16, 17}, {13}>>, {{1, 4}})}

(* Every pool passes both validators, whatever the catalogue.                *)
SmallCatalogs ==
  LET lineup == {s \in SUBSET (11 .. 15) : Cardinality(s) \in 2 .. 3}
  IN {Catalog(<<x, y, z>>, family) :
        x \in lineup, y \in lineup, z \in lineup, family \in {{}, {{1, 2}}, {{2, 3}}}}

ASSUME PoolsAreValid ==
  \A cat \in SmallCatalogs \cup MCCatalogs :
    LET published == build_connection_universe_and_rounds(cat, generate_connection_round_pool(cat))
    IN /\ validate_connection_rounds_artifact(published)
       /\ connection_rounds_failures(published) = {}

(* What is selected was a candidate.                                         *)
ASSUME PoolsAreCandidates ==
  \A cat \in SmallCatalogs \cup MCCatalogs :
    generate_connection_round_pool(cat) \subseteq one_hop_candidates(cat) \cup two_hop_candidates(cat)
=============================================================================
