---------------------------- MODULE RecordRoutes ----------------------------
(***************************************************************************)
(* Record Routes (graph-core: rounds_generator, rounds, record_routes, and *)
(* the contract they are published under): the player guesses how many     *)
(* credits apart two records are, one hop or two.                          *)
(*                                                                         *)
(* albums maps the artist of every catalogued record to the record; no     *)
(* artist has two.  A route is the walk between its two artists and the    *)
(* evidence of every hop.                                                  *)
(***************************************************************************)
EXTENDS CohortScoring, SequencesExt

CONSTANTS OneHopRoutes, TwoHopRoutes,  \* --one-hop-target, --two-hop-target
          EndpointShare, BridgeShare,  \* percent of the records
          MaxBridgeAttempts, MaxRouteDistractors,
          Families,                    \* pairs of artists never joined
          RefusedReleases              \* releases the format policy refuses

ASSUME RouteTargetsFit ==
  {OneHopRoutes, TwoHopRoutes, EndpointShare, BridgeShare,
   MaxBridgeAttempts, MaxRouteDistractors} \subseteq Nat

LowestOf(ids, n) == {i \in ids : Cardinality({j \in ids : j < i}) < n}

----------------------------------------------------------------------------
(* The evidence of a hop: the credits of the two on the release of their    *)
(* edge.  A hop is shown only if both have a performing role there.         *)

HopRows(corpus, a, b) ==
  {c \in corpus.credits : c.release = corpus.edges[{a, b}] /\ c.artist \in {a, b}}

_first_performer_role(rows, a) == \E c \in rows : c.artist = a /\ is_performer_role(c.role)

Presentable(corpus, a, b) ==
  \A x \in {a, b} : _first_performer_role(HopRows(corpus, a, b), x)

build_round_hop(corpus, a, b) ==
  [release |-> corpus.edges[{a, b}], artists |-> {a, b},
   flags |-> classify_hop_quality(HopRows(corpus, a, b), {a, b})]

build_round_from_path(corpus, walk) ==
  IF \A i \in 1 .. Len(walk) - 1 : Presentable(corpus, walk[i], walk[i + 1])
  THEN {[walk |-> walk,
         hops |-> [i \in 1 .. Len(walk) - 1 |-> build_round_hop(corpus, walk[i], walk[i + 1])]]}
  ELSE {}

----------------------------------------------------------------------------
(* Discovery.                                                               *)

ArtistPairs(albums) == {p \in (DOMAIN albums) \X (DOMAIN albums) : p[1] < p[2]}
Playable(albums) == {p \in ArtistPairs(albums) : {p[1], p[2]} \notin Families}

(* Every pair of neighbours, shown or not: none of them is a two-hop pair.  *)
NeighborPairs(corpus, albums) ==
  {p \in ArtistPairs(albums) : {p[1], p[2]} \in DOMAIN corpus.edges}

_one_hop_candidates(corpus, albums) ==
  UNION {build_round_from_path(corpus, p) : p \in NeighborPairs(corpus, albums) \cap Playable(albums)}

BridgeAllowed(corpus, a, b) == corpus.edges[{a, b}] \notin RefusedReleases

WorkingBridges(corpus, a, c) ==
  {b \in LowestOf(neighbors(corpus, a) \cap neighbors(corpus, c), MaxBridgeAttempts) :
     \A x \in {a, c} : BridgeAllowed(corpus, x, b) /\ Presentable(corpus, x, b)}

ThroughFirstBridge(corpus, p) ==
  UNION {build_round_from_path(corpus, <<p[1], b, p[2]>>) :
           b \in LowestOf(WorkingBridges(corpus, p[1], p[2]), 1)}

\* MUTANT of _two_hop_candidates: only pairs that made a one-hop route are left out.
TwoHopsWhereNoOneHop(corpus, albums) ==
  LET shown == {r.walk : r \in _one_hop_candidates(corpus, albums)}
  IN UNION {ThroughFirstBridge(corpus, p) : p \in Playable(albums) \ shown}

_two_hop_candidates(corpus, albums) ==
  UNION {ThroughFirstBridge(corpus, p) :
           p \in Playable(albums) \ NeighborPairs(corpus, albums)}

----------------------------------------------------------------------------
(* Selection, one kind at a time: the best candidate by the uses of its     *)
(* artists so far, dropped if one of them has been used enough.             *)

Ends(route) == {route.walk[1], Last(route.walk)}
Bridge(route) == {route.walk[i] : i \in 2 .. Len(route.walk) - 1}

EndpointUses(selected, x) == Cardinality({r \in selected : x \in Ends(r)})
BridgeUses(selected, x) == Cardinality({r \in selected : x \in Bridge(r)})

(* A score is the quality of the evidence, in tenths, over this penalty.    *)
Quality(r) ==
  IF \E i \in DOMAIN r.hops : "co_billed_release_artists" \in r.hops[i].flags THEN 10 ELSE 7
UsePenalty(selected, r) ==
  (1 + EndpointUses(selected, r.walk[1]) + EndpointUses(selected, Last(r.walk)))
    * (1 + Cardinality({q \in selected : Bridge(q) \cap Bridge(r) # {}}))

LowerArtists(r, q) ==
  \/ r.walk[1] < q.walk[1]
  \/ r.walk[1] = q.walk[1] /\ Last(r.walk) <= Last(q.walk)

NoWorse(selected, r, q) ==
  LET mine   == Quality(r) * UsePenalty(selected, q)
      theirs == Quality(q) * UsePenalty(selected, r)
  IN mine > theirs \/ (mine = theirs /\ LowerArtists(r, q))

BestRoute(remaining, selected) ==
  CHOOSE r \in remaining : \A q \in remaining : NoWorse(selected, r, q)

MaxRouteUses(albums, share) ==
  LET uses == (Cardinality(DOMAIN albums) * share) \div 100 IN IF uses < 1 THEN 1 ELSE uses

UsedUp(selected, r, albums) ==
  \/ \E x \in Ends(r) : EndpointUses(selected, x) >= MaxRouteUses(albums, EndpointShare)
  \/ \E x \in Bridge(r) : BridgeUses(selected, x) >= MaxRouteUses(albums, BridgeShare)

TakeBest(sel, target, albums) ==
  LET best == BestRoute(sel.remaining, sel.selected)
  IN IF sel.remaining = {} \/ Cardinality(sel.selected) >= target THEN sel
     ELSE [remaining |-> sel.remaining \ {best},
           selected |-> sel.selected \cup
                          (IF UsedUp(sel.selected, best, albums) THEN {} ELSE {best})]

_select_diversified(candidates, target, albums) ==
  LET after[n \in 0 .. Cardinality(candidates)] ==
        IF n = 0 THEN [remaining |-> candidates, selected |-> {}]
        ELSE TakeBest(after[n - 1], target, albums)
  IN after[Cardinality(candidates)].selected

(* Up to three other records, by their ids, not known to be connected with  *)
(* the first one; the second is not looked at.                              *)
_distractors(albums, route, connected) ==
  LET first == route.walk[1]
      free  == {x \in (DOMAIN albums) \ Ends(route) :
                  <<first, x>> \notin connected /\ <<x, first>> \notin connected}
  IN LowestOf({albums[x] : x \in free}, MaxRouteDistractors)

generate_round_pool(corpus, albums) ==
  LET one_hop   == _one_hop_candidates(corpus, albums)
      two_hop   == _two_hop_candidates(corpus, albums)
      connected == NeighborPairs(corpus, albums) \cup {<<r.walk[1], r.walk[3]>> : r \in two_hop}
      selected  == _select_diversified(one_hop, OneHopRoutes, albums)
                     \cup _select_diversified(two_hop, TwoHopRoutes, albums)
  IN {[walk |-> r.walk, hops |-> r.hops,
       albums |-> <<albums[r.walk[1]], albums[Last(r.walk)]>>,
       distractors |-> _distractors(albums, r, connected)] : r \in selected}

----------------------------------------------------------------------------
(* The published pair.  An id is the content a route is recognised by.      *)

stable_route_id(r) ==
  [albums |-> {r.albums[1], r.albums[2]},
   hops |-> [i \in DOMAIN r.hops |-> <<r.hops[i].release, r.hops[i].artists>>]]

UsedAlbums(r) == ToSet(r.albums) \cup r.distractors
HopsOf(r) == {r.hops[i] : i \in DOMAIN r.hops}

(* Of the catalogue, the records that are an end or a distractor.           *)
build_rounds_v1(albums, routes) ==
  LET used == UNION {UsedAlbums(r) : r \in routes}
  IN [routes |-> routes,
      albums |-> [x \in {y \in DOMAIN albums : albums[y] \in used} |-> albums[x]],
      releases |-> UNION {{h.release : h \in HopsOf(r)} : r \in routes},
      artists |-> UNION {Ends(r) \cup Bridge(r) : r \in routes}]

InUniverse(pool, r) == UsedAlbums(r) \subseteq {pool.albums[x] : x \in DOMAIN pool.albums}

(* A plain pair of rounds (build-rounds, without ids of their own): what it *)
(* refers to is there.                                                      *)
validate_rounds_artifact(pool) ==
  \A r \in pool.routes :
    /\ Len(r.hops) \in 1 .. 2 /\ InUniverse(pool, r)
    /\ \A h \in HopsOf(r) : h.release \in pool.releases /\ h.artists \subseteq pool.artists

_STRENGTH_FLAGS == {"co_billed_release_artists", "performer_credit", "non_performer_only"}
_SCOPE_FLAGS == {"same_recording", "release_scope_credit"}

_bridge_failures(r) ==
  IF Len(r.hops) = 1 THEN r.hops[1].artists # Ends(r)
  ELSE \/ r.walk[1] \notin r.hops[1].artists \/ Last(r.walk) \notin r.hops[2].artists
       \/ Cardinality((r.hops[1].artists \cap r.hops[2].artists) \ Ends(r)) # 1

_hop_failures(hop) ==
  \/ Cardinality(hop.flags \cap _STRENGTH_FLAGS) # 1
  \/ Cardinality(hop.flags \cap _SCOPE_FLAGS) # 1

rounds_failures(pool) == {r \in pool.routes : \E h \in HopsOf(r) : _hop_failures(h)}

(* A pair of routes: the hops lead from one end to the other by one hidden  *)
(* artist, and no two routes have one id.                                   *)
record_routes_failures(pool) ==
  rounds_failures(pool) \cup
  {r \in pool.routes :
     \/ _bridge_failures(r) \/ r.albums[1] = r.albums[2] \/ ToSet(r.albums) \cap r.distractors # {}
     \/ \E q \in pool.routes \ {r} : stable_route_id(q) = stable_route_id(r)
     \/ ~InUniverse(pool, r)
     \/ \E h \in HopsOf(r) : h.release \notin pool.releases \/ ~(h.artists \subseteq pool.artists)}

DuplicateAlbums(pool) ==
  \E x, y \in DOMAIN pool.albums : x # y /\ pool.albums[x] = pool.albums[y]

(* No file is written when there are not two records or there is no route,  *)
(* or when the pair breaks its contract.                                    *)
NoRoutes == [routes |-> {}]

build_record_routes_pool(corpus, albums) ==
  LET matched == [x \in {y \in DOMAIN albums : albums[y] \notin RefusedReleases} |-> albums[x]]
      pool    == build_rounds_v1(matched, generate_round_pool(corpus, matched))
  IN IF \/ Cardinality(DOMAIN matched) < 2 \/ pool.routes = {}
        \/ record_routes_failures(pool) # {} \/ DuplicateAlbums(pool)
     THEN NoRoutes ELSE pool
=============================================================================
