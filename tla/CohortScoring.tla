--------------------------- MODULE CohortScoring ---------------------------
(***************************************************************************)
(* Scoring the connections of a cohort (graph-core, cohort_connectivity):  *)
(* every cohort artist is a seed, its reach is expanded ceil(max_hops / 2) *)
(* hops deep, and two seeds are connected where their reaches meet.  The   *)
(* search inside one pair is CreditGraph.find_path, a plain breadth-first  *)
(* search that the project's tests compare it with.                        *)
(*                                                                         *)
(* A corpus is its CreditGraph.  A frontier cap no degree exceeds stands   *)
(* for None.                                                               *)
(***************************************************************************)
EXTENDS OneHop, Sequences

CONSTANTS Artists, \* artist ids
          MaxHops  \* bound: --max-hops

ASSUME ArtistsAreIds == Artists \subseteq Nat
ASSUME HopsFit == MaxHops \in 1 .. 4

Lowest(ids) == CHOOSE a \in ids : \A b \in ids : a <= b

----------------------------------------------------------------------------
(* A seed's reach: the artists first met at each distance, and those whose  *)
(* edges the frontier cap left out.  The cap never applies to the seed.     *)

expansion_depth == IF MaxHops <= 2 THEN 1 ELSE 2

Capped(corpus, frontier, cap) == {a \in frontier : degree(corpus, a) > cap}

_expand_hop(corpus, frontier, capped, reached) ==
  (UNION {neighbors(corpus, a) : a \in frontier \ capped}) \ reached

expand_seed(corpus, seed, cap) ==
  LET first  == _expand_hop(corpus, {seed}, {}, {seed})
      deeper == expansion_depth = 2
      capped == IF deeper THEN Capped(corpus, first, cap) ELSE {}
      second == IF deeper
                THEN _expand_hop(corpus, first, capped, {seed} \cup first) ELSE {}
  IN [seed |-> seed, level |-> <<{seed}, first, second>>, capped |-> capped]

(* The artist an artist at this level was reached from: the lowest release, *)
(* then the lowest artist.                                                  *)
Parent(corpus, reach, d, a) ==
  LET from == {p \in reach.level[d - 1] \ reach.capped : a \in neighbors(corpus, p)}
      release(p) == corpus.edges[{p, a}]
  IN CHOOSE p \in from : \A q \in from :
       release(p) < release(q) \/ (release(p) = release(q) /\ p <= q)

_chain(corpus, reach, a) ==
  CASE a \in reach.level[1] -> <<a>>
    [] a \in reach.level[2] -> <<reach.seed, a>>
    [] OTHER -> <<reach.seed, Parent(corpus, reach, 3, a), a>>

----------------------------------------------------------------------------
(* Two reaches meet at an artist both contain.                              *)

Reached(r) == UNION {r.level[d] : d \in 1 .. 3}
HopsTo(r, a) == CHOOSE d \in 0 .. 2 : a \in r.level[d + 1]
Distance(r, s, a) == HopsTo(r, a) + HopsTo(s, a)

Meetings(r, s) == Reached(r) \cap Reached(s)
pair_distances(r, s) == {Distance(r, s, a) : a \in Meetings(r, s)}

BestMeeting(r, s) ==
  CHOOSE m \in Meetings(r, s) : \A a \in Meetings(r, s) :
    \/ Distance(r, s, m) < Distance(r, s, a)
    \/ Distance(r, s, m) = Distance(r, s, a) /\ m <= a

Backwards(path) == [i \in 1 .. Len(path) |-> path[Len(path) + 1 - i]]

pair_path(corpus, r, s) ==
  LET meet == BestMeeting(r, s)
  IN _chain(corpus, r, meet) \o Tail(Backwards(_chain(corpus, s, meet)))

Hops(path) == {{path[i], path[i + 1]} : i \in 1 .. Len(path) - 1}

(* A hop that draws a warning: on its evidence release nobody performs, or  *)
(* one of the two is a placeholder.                                         *)
HopQuality(corpus, e) ==
  classify_hop_quality({c \in corpus.credits : c.release = corpus.edges[e]}, e)
_pair_warnings(corpus, path) ==
  {e \in Hops(path) :
     HopQuality(corpus, e) \cap {"non_performer_only", "placeholder_artist_hop"} # {}}

(* A pair's record: found with its path, skipped because a seed's expansion *)
(* timed out or grew too large, or because an artist was capped, or a       *)
(* confirmed absence.                                                       *)
Found(corpus, path) ==
  [status |-> "found", path |-> path, warnings |-> _pair_warnings(corpus, path)]
Skipped(reason) == [status |-> "skipped", reason |-> reason]
NoPath == [status |-> "no_path"]

\* MUTANT of Verdict: two reaches that do not meet are a confirmed absence.
VerdictIgnoringCaps(corpus, a, b, cap, failed) ==
  LET r == expand_seed(corpus, a, cap)
      s == expand_seed(corpus, b, cap)
  IN IF {a, b} \cap failed # {} THEN Skipped("seed_failed")
     ELSE IF \E d \in pair_distances(r, s) : d <= MaxHops
     THEN Found(corpus, pair_path(corpus, r, s)) ELSE NoPath

Verdict(corpus, a, b, cap, failed) ==
  LET r == expand_seed(corpus, a, cap)
      s == expand_seed(corpus, b, cap)
  IN IF {a, b} \cap failed # {} THEN Skipped("seed_failed")
     ELSE IF \E d \in pair_distances(r, s) : d <= MaxHops
     THEN Found(corpus, pair_path(corpus, r, s))
     ELSE IF r.capped \cup s.capped # {} THEN Skipped("frontier_too_large") ELSE NoPath

----------------------------------------------------------------------------
(* CreditGraph.find_path: from one side only, the cap on the seed as well.  *)

find_path(corpus, a, b, cap) ==
  LET visited[d \in 0 .. MaxHops] ==
        IF d = 0 THEN {a}
        ELSE visited[d - 1] \cup
             UNION {neighbors(corpus, v) : v \in visited[d - 1]
                                             \ Capped(corpus, visited[d - 1], cap)}
      at == {d \in 0 .. MaxHops : b \in visited[d]}
  IN CASE at # {} -> [status |-> "found", hops |-> CHOOSE d \in at : \A k \in at : d <= k]
       [] OTHER   -> IF Capped(corpus, visited[MaxHops - 1], cap) # {}
                     THEN Skipped("frontier_too_large") ELSE NoPath

----------------------------------------------------------------------------
(* What a verdict should mean.  Walks of a corpus, with n hops.             *)

Via(a, m, b, n) == [i \in 0 .. n |-> IF i = 0 THEN a ELSE IF i = n THEN b ELSE m[i]]

Walks(corpus, a, b, n) ==
  {w \in {Via(a, m, b, n) : m \in [1 .. n - 1 -> Artists]} :
     \A i \in 0 .. n - 1 : w[i + 1] \in neighbors(corpus, w[i])}

Connected(corpus, a, b, hops) == \E n \in 1 .. hops : Walks(corpus, a, b, n) # {}

(* What a cap can hide: three hops over two artists above it, or four hops  *)
(* with such an artist next to an end.                                      *)
HiddenByCap(corpus, w, n, cap) ==
  LET over == Capped(corpus, {w[i] : i \in 1 .. n - 1}, cap)
  IN \/ n = 3 /\ {w[1], w[2]} \subseteq over
     \/ n = 4 /\ {w[1], w[3]} \cap over # {}
=============================================================================
