--------------------------- MODULE ChallengeWalk ---------------------------
(***************************************************************************)
(* Which connections the challenge documents: challenge.py's candidate     *)
(* walk over the catalog, the reordering that carries published pairs      *)
(* forward, the budget of paths and the loop that spends it.               *)
(*                                                                         *)
(* A path search is abstracted to its answer: the pairs of artists that a  *)
(* corpus connects within max_hops.  The frontier cap is off, as the       *)
(* runbook runs it, so a search never ends inconclusive.                   *)
(***************************************************************************)
EXTENDS Naturals, Sequences, FiniteSets, SequencesExt

CONSTANTS Albums,       \* the numbers of albums, in the order of their ids
          ArtistOf,     \* whose album it is
          FamilyPairs   \* artist pairs no path is looked for

ASSUME WalkFits ==
  /\ Albums \subseteq Nat /\ IsFiniteSet(Albums)
  /\ Albums = DOMAIN ArtistOf

Pair(i, j) == {ArtistOf[i], ArtistOf[j]}
Pairs(path_albums) == {Pair(p[1], p[2]) : p \in path_albums}
Ordered(catalog) ==
  [i \in 1 .. Cardinality(catalog) |->
     CHOOSE a \in catalog : Cardinality({b \in catalog : b < a}) = i - 1]
Gap(i, j) == IF i < j THEN j - i ELSE i - j

(* Partners are walked nearest first, the later one first at a tie.         *)
Nearer(i, j, k) == Gap(i, j) < Gap(i, k) \/ (Gap(i, j) = Gap(i, k) /\ j >= k)

(* The places in the order an album at place i can still be paired with.    *)
Partners(order, i, used) ==
  {j \in DOMAIN order :
     LET pair == Pair(order[i], order[j])
     IN Cardinality(pair) = 2 /\ pair \notin used \cup FamilyPairs}

(* One turn: the album at place i claims its nearest unused pair.           *)
Claim(order, i, used, claims) ==
  LET free == Partners(order, i, used \cup Pairs(Range(claims)))
      j == CHOOSE n \in free : \A m \in free : Nearer(i, n, m)
  IN IF free = {} THEN claims ELSE Append(claims, <<order[i], order[j]>>)

(* A round of the walk gives every album a turn.                            *)
WalkRound(order, used) ==
  LET claims[i \in 0 .. Len(order)] ==
        IF i = 0 THEN <<>> ELSE Claim(order, i, used, claims[i - 1])
  IN claims[Len(order)]

WithRound(order, walk) == walk \o WalkRound(order, Pairs(Range(walk)))

(* Rounds until one claims nothing; an album claims at most once for each   *)
(* other album, which bounds them.                                          *)
WalkRounds(order) ==
  LET walk[n \in 0 .. Len(order)] ==
        IF n = 0 THEN <<>> ELSE WithRound(order, walk[n - 1])
  IN walk[Len(order)]

(* A table of the walks, each with the length of its first round.           *)
Walks ==
  {[catalog |-> c, pairs |-> WalkRounds(Ordered(c)),
    first_round |-> Len(WalkRound(Ordered(c), {}))] : c \in SUBSET Albums}

WalkOf(catalog) == CHOOSE walk \in Walks : walk.catalog = catalog

(* The places of a walk whose pairs are among some.                         *)
PlacesOf(walk, pairs) == {k \in DOMAIN walk : Pair(walk[k][1], walk[k][2]) \in pairs}

\* MUTANT of _candidate_album_pairs: carried pairs ahead of the first round.
CarriedFirst(catalog, carried) ==
  LET walk == WalkOf(catalog)
  IN [pairs |-> walk.pairs, ahead |-> PlacesOf(walk.pairs, carried)]

(* The walk and the places moved ahead in it: those of the first round,     *)
(* which it begins with, and of the carried pairs.                          *)
_candidate_album_pairs(catalog, carried) ==
  LET walk == WalkOf(catalog)
  IN [pairs |-> walk.pairs,
      ahead |-> 1 .. walk.first_round \cup PlacesOf(walk.pairs, carried)]

(* Whether the candidate at place l is searched before the one at place k:  *)
(* those ahead and the others both keep the order of the walk.              *)
Before(ahead, l, k) ==
  \/ l \in ahead /\ k \notin ahead
  \/ (l \in ahead <=> k \in ahead) /\ l < k

(* The candidates that have a path; a batch of searches keeps their order.  *)
Searched(candidates, connected) == PlacesOf(candidates.pairs, connected)

(* The first max_paths pairs that have a path.                              *)
FirstPaths(candidates, found, max_paths) ==
  {candidates.pairs[k] :
     k \in {m \in found :
            Cardinality({l \in found : Before(candidates.ahead, l, m)}) < max_paths}}

build_challenge_v2(catalog, carried, max_paths, connected) ==
  LET candidates == _candidate_album_pairs(catalog, carried)
  IN FirstPaths(candidates, Searched(candidates, connected), max_paths)

(* What the budget must cover: every album's first pair and the carried.    *)
MaxPathsFloor(catalog, carried) ==
  LET n == Cardinality(catalog)
  IN IF 2 * n >= n + Cardinality(carried) THEN 2 * n ELSE n + Cardinality(carried)

\* MUTANT of ResolvedMaxPaths: an inherited value replaces the floor.
InheritedAsIs(given, inherited, floor) ==
  IF given > 0 THEN given ELSE IF inherited > 0 THEN inherited ELSE floor

(* --max-paths as given (0 stands for not given); without it an inherited   *)
(* value is raised to the floor.                                            *)
ResolvedMaxPaths(given, inherited, floor) ==
  IF given > 0 THEN given ELSE IF inherited > floor THEN inherited ELSE floor
=============================================================================
