---------------------------- MODULE CohortProofs ----------------------------
(***************************************************************************)
(* Machine-checked proofs about the cohort pipeline, and the record routes *)
(* and catalogue expansion built on it, for any dumps, seeds, pages,       *)
(* frontier caps and route length, and for any number and order of         *)
(* commands: what a one-hop corpus keeps of its dump, what a scored pair   *)
(* says of the dump, what a promotion may publish, that a published route  *)
(* is true, and that an expansion's selection is what becomes of it.       *)
(***************************************************************************)
EXTENDS CohortExpansion, FiniteSetTheorems, SequenceTheorems,
        WellFoundedInduction, TLAPS

----------------------------------------------------------------------------
(* Numbers.                                                                 *)

\* Some number of a set of natural numbers is its least.
LEMMA LeastExists ==
  ASSUME NEW S \in SUBSET Nat, S # {}
  PROVE  \E m \in S : \A k \in S : m <= k
<1> DEFINE R == OpToRel(<, Nat)
<1>1. IsWellFoundedOn(R, Nat)
  BY NatLessThanWellFounded
<1>2. \A x, y \in Nat : x < y => <<x, y>> \in R
  BY DEF OpToRel
<1> HIDE DEF R
<1>3. PICK m \in S : \A k \in S : ~(<<k, m>> \in R)
  BY <1>1, WFMin
<1>4. \A k \in S : k \in Nat /\ m \in Nat /\ ~(k < m)
  BY <1>2, <1>3
<1> QED
  BY <1>4

\* A set that holds 0 and, up to a bound, with every number the next one holds
\* all numbers up to the bound.
LEMMA CountingUp ==
  ASSUME NEW n \in Nat, NEW S, 0 \in S, \A k \in 0 .. n : k \in S /\ k < n => k + 1 \in S
  PROVE  0 .. n \subseteq S
<1> DEFINE Missing == {k \in 0 .. n : k \notin S}
<1> SUFFICES ASSUME Missing # {} PROVE FALSE
  OBVIOUS
<1>1. Missing \in SUBSET Nat
  OBVIOUS
<1> HIDE DEF Missing
<1>2. PICK k \in Missing : \A j \in Missing : k <= j
  BY <1>1, LeastExists
<1>3. k \in 0 .. n /\ k \notin S /\ k # 0
  BY <1>2 DEF Missing
<1>4. k - 1 \in 0 .. n /\ k - 1 \notin Missing
  BY <1>2, <1>3
<1> QED
  BY <1>3, <1>4 DEF Missing

----------------------------------------------------------------------------
(* The credits of a corpus and the edges they make.                         *)

\* What every dump's credits are.
Regular(credits) ==
  \A c \in credits :
    /\ c.artist \in Artists /\ c.release \in Nat
    /\ c.scope \in {"release_artist", "track_artist"} => c.role = {}

\* Whoever an edge joins performs on the release that justifies it: the edge rules
\* admit nobody the expansion would not follow.
LEMMA JoinedPerform ==
  ASSUME NEW credits, Regular(credits), NEW r, NEW e \in EdgesOn(RowsOf(credits, r)), NEW a \in e
  PROVE  \E c \in Performing(credits) : c.release = r /\ c.artist = a
<1> DEFINE rows == RowsOf(credits, r)
           Performs(x) == \E c \in rows : c.artist = x /\ performer_credit(c.role)
<1>1. \A c \in rows : c \in credits /\ c.release = r
  BY DEF RowsOf, edge_credits
<1>2. \A role : is_performer_role(role) => performer_credit(role)
  BY RolesAgree DEF is_performer_role, performer_credit
<1>3. \A c \in rows : c.scope \in {"release_artist", "track_artist"} => performer_credit(c.role)
  BY <1>1 DEF Regular, performer_credit
<1> HIDE DEF rows
<1>4. \A x \in billed_artists(rows) : Performs(x)
  BY <1>3 DEF billed_artists, ArtistsOf, Scoped
<1>5. \A t : \A x \in track_performers(rows, t) : Performs(x)
  <2> TAKE t
  <2>1. \A x \in ArtistsOf(Scoped(OnTrack(rows, t), "track_artist")) : Performs(x)
    BY <1>3 DEF ArtistsOf, Scoped, OnTrack
  <2> QED
    BY <1>4, <2>1 DEF track_performers
<1>6. ASSUME e \in same_recording(rows) PROVE Performs(a)
  <2>1. PICK t \in TracksOf(rows) :
          \E p \in track_performers(rows, t), c \in OnTrack(rows, t) :
            is_performer_role(c.role) /\ e = {p, c.artist}
    BY <1>6 DEF same_recording
  <2>2. OnTrack(rows, t) \subseteq rows
    BY DEF OnTrack
  <2> QED
    BY <1>2, <1>5, <2>1, <2>2
<1>7. ASSUME e \in co_performers(rows) PROVE Performs(a)
  <2>1. PICK t \in TracksOf(rows) : \E p, q \in track_performers(rows, t) : e = {p, q}
    BY <1>7 DEF co_performers
  <2> QED
    BY <1>5, <2>1
<1>8. ASSUME e \in release_scope(rows) PROVE Performs(a)
  <2>1. PICK p \in billed_artists(rows), c \in rows : is_performer_role(c.role) /\ e = {p, c.artist}
    BY <1>8 DEF release_scope, Scoped
  <2> QED
    BY <1>2, <1>4, <2>1
<1>9. Performs(a)
  BY <1>6, <1>7, <1>8 DEF EdgesOn, rows
<1> QED
  BY <1>1, <1>9 DEF Performing

\* An edge joins two artists, both credited.
LEMMA EdgeEnds ==
  ASSUME NEW credits, Regular(credits), NEW r, NEW e \in EdgesOn(RowsOf(credits, r))
  PROVE  e \subseteq ArtistsOf(credits)
<1>1. \A a \in e : a \in ArtistsOf(credits)
  BY JoinedPerform DEF Performing, ArtistsOf
<1> QED
  BY <1>1

\* A release that is retained is kept with all its credits.
LEMMA RetainedWhole ==
  ASSUME NEW credits, NEW seed, NEW r \in retained_releases(credits, seed)
  PROVE  RowsOf(OneHopCredits(credits, seed), r) = RowsOf(credits, r)
BY DEF RowsOf, edge_credits, OneHopCredits

\* The releases of a corpus are those retained.
LEMMA CorpusReleases ==
  ASSUME NEW credits, NEW seed
  PROVE  ReleasesOf(OneHopCredits(credits, seed)) = retained_releases(credits, seed)
BY DEF ReleasesOf, OneHopCredits, retained_releases, Performing, ArtistsOf

\* Whatever evidence a corpus has, its dump has; and of an edge at an artist of the
\* frontier the corpus has all the evidence.
LEMMA EvidenceKept ==
  ASSUME NEW credits, Regular(credits), NEW seed, NEW e
  PROVE  /\ Evidence(OneHopCredits(credits, seed), e) \subseteq Evidence(credits, e)
         /\ e \cap frontier_artists(credits, seed) # {} =>
              Evidence(OneHopCredits(credits, seed), e) = Evidence(credits, e)
<1> DEFINE corpus == OneHopCredits(credits, seed)
<1>1. \A r \in ReleasesOf(corpus) : r \in ReleasesOf(credits) /\ RowsOf(corpus, r) = RowsOf(credits, r)
  BY CorpusReleases, RetainedWhole DEF ReleasesOf, OneHopCredits
<1>2. Evidence(corpus, e) \subseteq Evidence(credits, e)
  BY <1>1 DEF Evidence
<1>3. ASSUME e \cap frontier_artists(credits, seed) # {}, NEW r \in Evidence(credits, e)
      PROVE  r \in Evidence(corpus, e)
  <2>1. PICK a \in e : a \in frontier_artists(credits, seed)
    BY <1>3
  <2>2. e \in EdgesOn(RowsOf(credits, r))
    BY DEF Evidence
  <2>3. PICK c \in Performing(credits) : c.release = r /\ c.artist = a
    BY <2>2, JoinedPerform
  <2>4. r \in retained_releases(credits, seed)
    BY <2>1, <2>3 DEF retained_releases, ReleasesOf
  <2>5. r \in ReleasesOf(corpus) /\ RowsOf(corpus, r) = RowsOf(credits, r)
    BY <2>4, CorpusReleases, RetainedWhole
  <2> QED
    BY <2>2, <2>5 DEF Evidence
<1> QED
  BY <1>2, <1>3

\* An edge has evidence.
LEMMA LinkedByEvidence ==
  ASSUME NEW credits, NEW e
  PROVE  e \in Linked(credits) <=> Evidence(credits, e) # {}
BY DEF Linked, Evidence

\* A one-hop corpus has every edge of its frontier's artists, on the same release.
LEMMA FrontierEdges ==
  ASSUME NEW credits, Regular(credits), NEW seed,
         NEW e \in DOMAIN credit_edges(credits), e \cap frontier_artists(credits, seed) # {}
  PROVE  /\ e \in DOMAIN credit_edges(OneHopCredits(credits, seed))
         /\ credit_edges(OneHopCredits(credits, seed))[e] = credit_edges(credits)[e]
<1> DEFINE corpus == OneHopCredits(credits, seed)
<1>1. Evidence(corpus, e) = Evidence(credits, e)
  BY EvidenceKept
<1>2. e \in Linked(credits) /\ e \in Linked(corpus)
  BY <1>1, LinkedByEvidence DEF credit_edges
<1>3. EvidenceRelease(corpus, e) = EvidenceRelease(credits, e)
  BY <1>1 DEF EvidenceRelease
<1> QED
  BY <1>2, <1>3 DEF credit_edges

----------------------------------------------------------------------------
(* The graph of a corpus.                                                   *)

\* Neighbours are artists, of each other, and what joins them has a release.
Linking(g) ==
  \A a : \A b \in neighbors(g, a) :
    /\ a # b /\ a \in Artists /\ b \in Artists
    /\ a \in neighbors(g, b) /\ g.edges[{a, b}] \in Nat

\* Two artists are neighbours when an edge joins them.
LEMMA NeighborsAreLinked ==
  ASSUME NEW credits, Regular(credits), NEW a, NEW b
  PROVE  b \in neighbors(CreditGraph(credits), a) <=> a # b /\ {a, b} \in Linked(credits)
<1> DEFINE g == CreditGraph(credits)
           artists == ArtistsOf(credits)
<1>1. /\ DOMAIN g.near = artists /\ DOMAIN g.edges = Linked(credits)
      /\ \A x \in artists : g.near[x] = {y \in artists \ {x} : {x, y} \in DOMAIN g.edges}
  BY DEF CreditGraph, credit_edges
<1>2. {a, b} \in Linked(credits) => a \in artists /\ b \in artists
  <2> SUFFICES ASSUME {a, b} \in Linked(credits) PROVE {a, b} \subseteq artists
    OBVIOUS
  <2>1. PICK r : {a, b} \in EdgesOn(RowsOf(credits, r))
    BY DEF Linked
  <2> QED
    BY <2>1, EdgeEnds
<1> HIDE DEF g, artists
<1>3. b \in neighbors(g, a) <=>
        a \in artists /\ b \in artists /\ a # b /\ {a, b} \in Linked(credits)
  BY <1>1 DEF neighbors
<1> QED
  BY <1>2, <1>3 DEF g

\* The lowest release that justifies an edge is one.
LEMMA EvidenceIsNat ==
  ASSUME NEW credits, Regular(credits), NEW e \in Linked(credits)
  PROVE  EvidenceRelease(credits, e) \in Evidence(credits, e) /\ EvidenceRelease(credits, e) \in Nat
<1>1. Evidence(credits, e) # {} /\ Evidence(credits, e) \subseteq Nat
  BY LinkedByEvidence DEF Evidence, ReleasesOf, Regular
<1>2. \E r \in Evidence(credits, e) : \A q \in Evidence(credits, e) : r <= q
  BY <1>1, LeastExists
<1> QED
  BY <1>1, <1>2 DEF EvidenceRelease

\* The graph of a corpus links its artists.
LEMMA GraphsLink ==
  ASSUME NEW credits, Regular(credits)
  PROVE  Linking(CreditGraph(credits))
<1> DEFINE g == CreditGraph(credits)
<1> SUFFICES ASSUME NEW a, NEW b \in neighbors(g, a)
             PROVE  /\ a # b /\ a \in Artists /\ b \in Artists
                    /\ a \in neighbors(g, b) /\ g.edges[{a, b}] \in Nat
  BY DEF Linking
<1>1. a # b /\ {a, b} \in Linked(credits) /\ {b, a} = {a, b}
  BY NeighborsAreLinked
<1>2. a \in neighbors(g, b)
  BY <1>1, NeighborsAreLinked
<1>3. a \in Artists /\ b \in Artists
  <2>1. PICK r : {a, b} \in EdgesOn(RowsOf(credits, r))
    BY <1>1 DEF Linked
  <2>2. {a, b} \subseteq ArtistsOf(credits)
    BY <2>1, EdgeEnds
  <2> QED
    BY <2>2 DEF ArtistsOf, Regular
<1>4. g.edges[{a, b}] = EvidenceRelease(credits, {a, b})
  BY <1>1 DEF CreditGraph, credit_edges
<1> QED
  BY <1>1, <1>2, <1>3, <1>4, EvidenceIsNat

\* What is regular of a dump is so of a corpus of it.
LEMMA CorpusRegular ==
  ASSUME NEW credits, Regular(credits), NEW seed
  PROVE  Regular(OneHopCredits(credits, seed))
BY DEF Regular, OneHopCredits

\* Neighbours in a corpus are neighbours in its dump; and one of an artist of the
\* frontier in the dump is one in the corpus.
LEMMA CorpusNeighbors ==
  ASSUME NEW credits, Regular(credits), NEW seed, NEW a, NEW b
  PROVE  LET corpus == CreditGraph(OneHopCredits(credits, seed))
             whole  == CreditGraph(credits)
         IN  /\ b \in neighbors(corpus, a) => b \in neighbors(whole, a)
             /\ {a, b} \cap frontier_artists(credits, seed) # {} =>
                  (b \in neighbors(whole, a) => b \in neighbors(corpus, a))
<1> DEFINE kept == OneHopCredits(credits, seed)
<1>1. /\ {a, b} \in Linked(kept) => {a, b} \in Linked(credits)
      /\ {a, b} \cap frontier_artists(credits, seed) # {} /\ {a, b} \in Linked(credits) =>
           {a, b} \in Linked(kept)
  BY EvidenceKept, LinkedByEvidence
<1>2. Regular(kept)
  BY CorpusRegular
<1> QED
  BY <1>1, <1>2, NeighborsAreLinked

----------------------------------------------------------------------------
(* A seed's reach.                                                          *)

Near(g, a) == neighbors(g, a) \ {a}

\* The levels of a reach, and whom the cap left out.
LEMMA ReachLevels ==
  ASSUME NEW g, NEW a, NEW cap
  PROVE  LET r == expand_seed(g, a, cap)
         IN  /\ r.seed = a /\ r.level[1] = {a} /\ r.level[2] = Near(g, a)
             /\ MaxHops <= 2 => r.capped = {} /\ r.level[3] = {}
             /\ ~(MaxHops <= 2) =>
                  /\ r.capped = Capped(g, Near(g, a), cap)
                  /\ \A y : y \in r.level[3] <=>
                            /\ y # a /\ y \notin Near(g, a)
                            /\ \E x \in Near(g, a) \ r.capped : y \in neighbors(g, x)
<1>1. _expand_hop(g, {a}, {}, {a}) = Near(g, a)
  BY DEF _expand_hop, Near
<1>2. CASE MaxHops <= 2
  <2>1. expansion_depth = 1
    BY <1>2 DEF expansion_depth
  <2>2. expand_seed(g, a, cap) = [seed |-> a, level |-> <<{a}, Near(g, a), {}>>, capped |-> {}]
    BY <1>1, <2>1 DEF expand_seed
  <2> QED
    BY <1>2, <2>2
<1>3. CASE ~(MaxHops <= 2)
  <2> DEFINE capped == Capped(g, Near(g, a), cap)
             second == _expand_hop(g, Near(g, a), capped, {a} \cup Near(g, a))
  <2>1. expansion_depth = 2
    BY <1>3 DEF expansion_depth
  <2>2. expand_seed(g, a, cap) =
          [seed |-> a, level |-> <<{a}, Near(g, a), second>>, capped |-> capped]
    BY <1>1, <2>1 DEF expand_seed
  <2>3. \A y : y \in second <=>
                /\ y # a /\ y \notin Near(g, a)
                /\ \E x \in Near(g, a) \ capped : y \in neighbors(g, x)
    BY DEF _expand_hop
  <2> HIDE DEF capped, second
  <2> QED
    BY <1>3, <2>2, <2>3 DEF capped
<1> QED
  BY <1>2, <1>3

\* An artist is on one level of a reach at most, which its distance tells.
LEMMA OneLevel ==
  ASSUME NEW g, NEW a, NEW cap, NEW x
  PROVE  LET r == expand_seed(g, a, cap)
         IN  /\ \A d \in 0 .. 2 : x \in r.level[d + 1] => x \in Reached(r) /\ HopsTo(r, x) = d
             /\ x \in Reached(r) => HopsTo(r, x) \in 0 .. 2 /\ x \in r.level[HopsTo(r, x) + 1]
<1> DEFINE r == expand_seed(g, a, cap)
<1>1. /\ r.level[1] \cap r.level[2] = {} /\ r.level[1] \cap r.level[3] = {}
      /\ r.level[2] \cap r.level[3] = {}
  <2>1. r.level[1] = {a} /\ r.level[2] = Near(g, a)
    BY ReachLevels
  <2>2. \A y : y \in r.level[3] => y # a /\ y \notin Near(g, a)
    BY ReachLevels
  <2>3. a \notin Near(g, a)
    BY DEF Near
  <2> HIDE DEF r
  <2> QED
    BY <2>1, <2>2, <2>3
<1> HIDE DEF r
<1>2. \A d, e \in 0 .. 2 : x \in r.level[d + 1] /\ x \in r.level[e + 1] => d = e
  <2>1. \A d \in 0 .. 2 : d = 0 \/ d = 1 \/ d = 2
    OBVIOUS
  <2>2. 0 + 1 = 1 /\ 1 + 1 = 2 /\ 2 + 1 = 3
    OBVIOUS
  <2> QED
    BY <1>1, <2>1, <2>2
<1>3. x \in Reached(r) => \E d \in 0 .. 2 : x \in r.level[d + 1]
  <2> SUFFICES ASSUME x \in Reached(r) PROVE \E d \in 0 .. 2 : x \in r.level[d + 1]
    OBVIOUS
  <2>1. PICK e \in 1 .. 3 : x \in r.level[e]
    BY DEF Reached
  <2>2. e - 1 \in 0 .. 2 /\ (e - 1) + 1 = e
    OBVIOUS
  <2> QED
    BY <2>1, <2>2
<1>4. \A d \in 0 .. 2 : x \in r.level[d + 1] => x \in Reached(r)
  <2>1. \A d \in 0 .. 2 : d + 1 \in 1 .. 3
    OBVIOUS
  <2> QED
    BY <2>1 DEF Reached
<1> QED
  BY <1>2, <1>3, <1>4 DEF HopsTo, r

\* The artist a distant one was reached from: on the level before, its neighbour,
\* and not over the cap.
LEMMA ParentIsNear ==
  ASSUME NEW g, Linking(g), NEW a, NEW cap, NEW x \in expand_seed(g, a, cap).level[3]
  PROVE  LET p == Parent(g, expand_seed(g, a, cap), 3, x)
         IN  p \in neighbors(g, a) /\ x \in neighbors(g, p)
<1> DEFINE r == expand_seed(g, a, cap)
           from == {p \in r.level[3 - 1] \ r.capped : x \in neighbors(g, p)}
           release(p) == g.edges[{p, x}]
           Least(p) == \A q \in from : release(p) < release(q) \/ (release(p) = release(q) /\ p <= q)
<1>1. from # {} /\ from \subseteq Near(g, a)
  <2>1. r.level[3 - 1] = Near(g, a)
    BY ReachLevels
  <2>2. \E p \in Near(g, a) \ r.capped : x \in neighbors(g, p)
    BY ReachLevels
  <2>3. a \notin Near(g, a)
    BY DEF Near
  <2> HIDE DEF r
  <2> QED
    BY <2>1, <2>2, <2>3
<1>2. \A p \in from : p \in Nat /\ release(p) \in Nat
  BY ArtistsAreIds DEF Linking
<1>3. \E p \in from : Least(p)
  <2> HIDE DEF from, release
  <2> DEFINE releases == {release(p) : p \in from}
  <2>1. PICK l \in releases : \A k \in releases : l <= k
    <3>1. releases # {} /\ releases \subseteq Nat
      BY <1>1, <1>2
    <3> HIDE DEF releases
    <3> QED
      BY <3>1, LeastExists
  <2> DEFINE lowest == {p \in from : release(p) = l}
  <2>2. PICK p \in lowest : \A q \in lowest : p <= q
    <3>1. lowest # {} /\ lowest \subseteq Nat
      BY <1>2, <2>1
    <3> HIDE DEF lowest
    <3> QED
      BY <3>1, LeastExists
  <2>3. \A q \in from : l <= release(q) /\ l \in Nat /\ release(q) \in Nat
    BY <1>2, <2>1
  <2> QED
    BY <2>2, <2>3
<1>4. Parent(g, r, 3, x) = CHOOSE p \in from : Least(p)
  BY DEF Parent
<1>5. Parent(g, r, 3, x) \in from
  <2> HIDE DEF from, Least, r
  <2> QED
    BY <1>3, <1>4
<1> QED
  BY <1>1, <1>5 DEF Near

\* A path in a graph from one artist to another, over so many hops.
Leads(g, path, a, b, hops) ==
  /\ path \in Seq(Artists) /\ Len(path) = hops + 1 /\ path[1] = a /\ path[hops + 1] = b
  /\ \A i \in 1 .. hops : path[i + 1] \in neighbors(g, path[i])

\* The chain of parents of an artist leads to it, over its distance.
LEMMA ChainLeads ==
  ASSUME NEW g, Linking(g), NEW a \in Artists, NEW cap, NEW x \in Reached(expand_seed(g, a, cap))
  PROVE  LET r == expand_seed(g, a, cap)
         IN  Leads(g, _chain(g, r, x), a, x, HopsTo(r, x))
<1> DEFINE r == expand_seed(g, a, cap)
           p == Parent(g, r, 3, x)
<1> SUFFICES Leads(g, _chain(g, r, x), a, x, HopsTo(r, x))
  OBVIOUS
<1>1. /\ HopsTo(r, x) \in 0 .. 2 /\ x \in r.level[HopsTo(r, x) + 1]
      /\ \A d \in 0 .. 2 : x \in r.level[d + 1] => HopsTo(r, x) = d
  BY OneLevel
<1>2. r.seed = a /\ r.level[1] = {a} /\ r.level[2] = Near(g, a)
  BY ReachLevels
<1>3. x \in r.level[3] => p \in neighbors(g, a) /\ x \in neighbors(g, p)
  BY ParentIsNear
<1> HIDE DEF r, p
<1>4. CASE HopsTo(r, x) = 0
  <2>1. x = a /\ _chain(g, r, x) = <<a>>
    BY <1>1, <1>2, <1>4 DEF _chain
  <2>2. Leads(g, <<a>>, a, a, 0)
    BY DEF Leads
  <2> QED
    BY <1>4, <2>1, <2>2
<1>5. CASE HopsTo(r, x) = 1
  <2>1. x \in r.level[2] /\ x \notin r.level[1]
    BY <1>1, <1>2, <1>5 DEF Near
  <2>2. x \in neighbors(g, a) /\ x \in Artists /\ _chain(g, r, x) = <<a, x>>
    BY <1>2, <2>1 DEF _chain, Near, Linking
  <2>3. Leads(g, <<a, x>>, a, x, 1)
    BY <2>2 DEF Leads
  <2> QED
    BY <1>5, <2>2, <2>3
<1>6. CASE HopsTo(r, x) = 2
  <2>1. x \in r.level[3] /\ x \notin r.level[1] /\ x \notin r.level[2]
    <3>1. x \in r.level[2 + 1] /\ 2 + 1 = 3
      BY <1>1, <1>6
    <3>2. x \in r.level[0 + 1] => FALSE
      BY <1>1, <1>6
    <3>3. x \in r.level[1 + 1] => FALSE
      BY <1>1, <1>6
    <3> QED
      BY <3>1, <3>2, <3>3
  <2>2. p \in neighbors(g, a) /\ x \in neighbors(g, p)
    BY <1>3, <2>1
  <2>3. p \in Artists /\ x \in Artists
    BY <2>2 DEF Linking
  <2>4. _chain(g, r, x) = <<a, p, x>>
    BY <1>2, <2>1 DEF _chain, p
  <2>5. Leads(g, <<a, p, x>>, a, x, 2)
    <3> DEFINE path == <<a, p, x>>
    <3>1. path \in Seq(Artists) /\ Len(path) = 2 + 1 /\ path[1] = a /\ path[2 + 1] = x
      BY <2>3
    <3>2. path[1 + 1] \in neighbors(g, path[1]) /\ path[2 + 1] \in neighbors(g, path[2])
      BY <2>2
    <3>3. \A i \in 1 .. 2 : i = 1 \/ i = 2
      OBVIOUS
    <3> HIDE DEF path
    <3> QED
      BY <3>1, <3>2, <3>3 DEF Leads, path
  <2> QED
    BY <1>6, <2>4, <2>5
<1> QED
  BY <1>1, <1>4, <1>5, <1>6 DEF r

\* Two paths that end at one artist make one from start to start.
LEMMA PathsJoin ==
  ASSUME NEW g, Linking(g), NEW a, NEW b, NEW m, NEW h \in Nat, NEW k \in Nat,
         NEW P, Leads(g, P, a, m, h), NEW Q, Leads(g, Q, b, m, k)
  PROVE  Leads(g, P \o Tail(Backwards(Q)), a, b, h + k)
<1> DEFINE back == Backwards(Q)
           tail == Tail(back)
           path == P \o tail
<1>1. /\ P \in Seq(Artists) /\ Len(P) = h + 1 /\ P[1] = a /\ P[h + 1] = m
      /\ \A i \in 1 .. h : P[i + 1] \in neighbors(g, P[i])
  BY DEF Leads
<1>2. /\ Q \in Seq(Artists) /\ Len(Q) = k + 1 /\ Q[1] = b /\ Q[k + 1] = m
      /\ \A i \in 1 .. k : Q[i + 1] \in neighbors(g, Q[i])
  BY DEF Leads
<1>3. /\ back \in Seq(Artists) /\ Len(back) = k + 1
      /\ \A i \in 1 .. k + 1 : back[i] = Q[k + 2 - i]
  <2>1. back = [i \in 1 .. k + 1 |-> Q[k + 1 + 1 - i]]
    BY <1>2 DEF Backwards
  <2>2. \A i \in 1 .. k + 1 : k + 1 + 1 - i \in 1 .. k + 1 /\ k + 1 + 1 - i = k + 2 - i
    OBVIOUS
  <2>3. \A i \in 1 .. k + 1 : Q[i] \in Artists
    BY <1>2
  <2>4. back \in [1 .. k + 1 -> Artists]
    BY <2>1, <2>2, <2>3
  <2>5. k + 1 \in Nat
    OBVIOUS
  <2> HIDE DEF back
  <2>6. back \in Seq(Artists) /\ Len(back) = k + 1
    BY <2>4, <2>5
  <2> QED
    BY <2>1, <2>2, <2>6
<1> HIDE DEF back
<1>4. /\ tail \in Seq(Artists) /\ Len(tail) = k
      /\ \A i \in 1 .. k : tail[i] = Q[k + 1 - i]
  <2>1. back # <<>>
    BY <1>3
  <2>2. tail \in Seq(Artists) /\ Len(tail) = k /\ \A i \in 1 .. k : tail[i] = back[i + 1]
    BY <1>3, <2>1
  <2>3. \A i \in 1 .. k : back[i + 1] = Q[k + 1 - i]
    <3> SUFFICES ASSUME NEW i \in 1 .. k PROVE back[i + 1] = Q[k + 1 - i]
      OBVIOUS
    <3>1. i + 1 \in 1 .. k + 1 /\ k + 2 - (i + 1) = k + 1 - i
      OBVIOUS
    <3> QED
      BY <1>3, <3>1
  <2> QED
    BY <2>2, <2>3
<1> HIDE DEF tail
<1>5. /\ path \in Seq(Artists) /\ Len(path) = h + k + 1
      /\ \A i \in 1 .. h + 1 : path[i] = P[i]
      /\ \A i \in h + 2 .. h + k + 1 : path[i] = tail[i - (h + 1)]
  <2>1. /\ path \in Seq(Artists) /\ Len(path) = Len(P) + Len(tail)
        /\ \A i \in 1 .. Len(P) + Len(tail) :
             path[i] = IF i <= Len(P) THEN P[i] ELSE tail[i - Len(P)]
    BY <1>1, <1>4, ConcatProperties
  <2> HIDE DEF path
  <2>2. Len(P) + Len(tail) = h + k + 1
    BY <1>1, <1>4
  <2>3. \A i \in h + 2 .. h + k + 1 : ~(i <= h + 1)
    OBVIOUS
  <2> QED
    BY <1>1, <2>1, <2>2, <2>3
<1> HIDE DEF path
\* From the artist they share on, the path is the second one backwards.
<1>6. \A i \in h + 1 .. h + k + 1 : path[i] = Q[h + k + 2 - i]
  <2> SUFFICES ASSUME NEW i \in h + 1 .. h + k + 1 PROVE path[i] = Q[h + k + 2 - i]
    OBVIOUS
  <2>1. CASE i = h + 1
    <3>1. path[i] = m /\ h + k + 2 - i = k + 1
      BY <1>1, <1>5, <2>1
    <3> QED
      BY <1>2, <3>1
  <2>2. CASE i # h + 1
    <3>1. i - (h + 1) \in 1 .. k /\ k + 1 - (i - (h + 1)) = h + k + 2 - i /\ i \in h + 2 .. h + k + 1
      BY <2>2
    <3> QED
      BY <1>4, <1>5, <3>1
  <2> QED
    BY <2>1, <2>2
<1>7. path[1] = a
  BY <1>1, <1>5
<1>8. path[h + k + 1] = b
  <2>1. h + k + 1 \in h + 1 .. h + k + 1 /\ h + k + 2 - (h + k + 1) = 1
    OBVIOUS
  <2> QED
    BY <1>2, <1>6, <2>1
<1>9. ASSUME NEW i \in 1 .. h + k PROVE path[i + 1] \in neighbors(g, path[i])
  <2>1. CASE i <= h
    <3>1. i \in 1 .. h /\ i \in 1 .. h + 1 /\ i + 1 \in 1 .. h + 1
      BY <2>1
    <3> QED
      BY <1>1, <1>5, <3>1
  <2>2. CASE i > h
    <3> DEFINE j == h + k + 1 - i
    <3>1. /\ i \in h + 1 .. h + k + 1 /\ i + 1 \in h + 1 .. h + k + 1 /\ j \in 1 .. k
          /\ h + k + 2 - i = j + 1 /\ h + k + 2 - (i + 1) = j
      BY <2>2
    <3> HIDE DEF j
    <3>2. path[i] = Q[j + 1] /\ path[i + 1] = Q[j]
      BY <1>6, <3>1
    <3>3. Q[j + 1] \in neighbors(g, Q[j])
      BY <1>2, <3>1
    <3> QED
      BY <3>2, <3>3 DEF Linking
  <2> QED
    BY <2>1, <2>2
<1>10. Leads(g, path, a, b, h + k)
  BY <1>5, <1>7, <1>8, <1>9 DEF Leads
<1> QED
  BY <1>10 DEF path, tail, back

----------------------------------------------------------------------------
(* The verdict on a pair.                                                   *)

\* Where two reaches meet best, no meeting is nearer, and the path leads over it.
LEMMA BestPath ==
  ASSUME NEW g, Linking(g), NEW a \in Artists, NEW b \in Artists, NEW cap,
         Meetings(expand_seed(g, a, cap), expand_seed(g, b, cap)) # {}
  PROVE  LET r == expand_seed(g, a, cap)
             s == expand_seed(g, b, cap)
         IN  \E hops \in Nat :
               /\ Leads(g, pair_path(g, r, s), a, b, hops)
               /\ \E x \in Meetings(r, s) : hops = Distance(r, s, x)
               /\ \A x \in Meetings(r, s) : hops <= Distance(r, s, x)
<1> DEFINE r == expand_seed(g, a, cap)
           s == expand_seed(g, b, cap)
           m == BestMeeting(r, s)
           Best(x) == \A y \in Meetings(r, s) :
                        \/ Distance(r, s, x) < Distance(r, s, y)
                        \/ Distance(r, s, x) = Distance(r, s, y) /\ x <= y
<1>1. ASSUME NEW x \in Meetings(r, s)
      PROVE  /\ Leads(g, _chain(g, r, x), a, x, HopsTo(r, x)) /\ HopsTo(r, x) \in Nat
             /\ Leads(g, _chain(g, s, x), b, x, HopsTo(s, x)) /\ HopsTo(s, x) \in Nat
             /\ x \in Nat
  <2>1. x \in Reached(r) /\ x \in Reached(s)
    BY DEF Meetings
  <2>2. /\ Leads(g, _chain(g, r, x), a, x, HopsTo(r, x)) /\ HopsTo(r, x) \in 0 .. 2
        /\ Leads(g, _chain(g, s, x), b, x, HopsTo(s, x)) /\ HopsTo(s, x) \in 0 .. 2
    BY <2>1, ChainLeads, OneLevel
  <2> HIDE DEF r, s
  <2>3. x \in Artists
    <3>1. Len(_chain(g, r, x)) = HopsTo(r, x) + 1 /\ _chain(g, r, x) \in Seq(Artists)
      BY <2>2 DEF Leads
    <3>2. _chain(g, r, x)[HopsTo(r, x) + 1] = x
      BY <2>2 DEF Leads
    <3>3. HopsTo(r, x) + 1 \in 1 .. Len(_chain(g, r, x))
      BY <2>2, <3>1
    <3> QED
      BY <3>1, <3>2, <3>3
  <2> QED
    BY <2>2, <2>3, ArtistsAreIds
<1> HIDE DEF r, s
<1>2. \A x \in Meetings(r, s) : Distance(r, s, x) \in Nat /\ x \in Nat
  BY <1>1 DEF Distance
<1>3. \E x \in Meetings(r, s) : Best(x)
  <2> DEFINE distances == {Distance(r, s, x) : x \in Meetings(r, s)}
  <2>1. PICK l \in distances : \A k \in distances : l <= k
    <3>1. distances # {} /\ distances \subseteq Nat
      BY <1>2 DEF r, s
    <3> HIDE DEF distances
    <3> QED
      BY <3>1, LeastExists
  <2> DEFINE nearest == {x \in Meetings(r, s) : Distance(r, s, x) = l}
  <2>2. PICK x \in nearest : \A y \in nearest : x <= y
    <3>1. nearest # {} /\ nearest \subseteq Nat
      BY <1>2, <2>1
    <3> HIDE DEF nearest
    <3> QED
      BY <3>1, LeastExists
  <2>3. \A y \in Meetings(r, s) : l <= Distance(r, s, y) /\ l \in Nat /\ Distance(r, s, y) \in Nat
    BY <1>2, <2>1
  <2> QED
    BY <2>2, <2>3
<1>4. m \in Meetings(r, s) /\ Best(m)
  <2>1. m = CHOOSE x \in Meetings(r, s) : Best(x)
    BY DEF BestMeeting
  <2> HIDE DEF Best, m
  <2> QED
    BY <1>3, <2>1
<1> DEFINE hops == HopsTo(r, m) + HopsTo(s, m)
<1>5. hops \in Nat /\ hops = Distance(r, s, m)
  BY <1>1, <1>4 DEF Distance
<1>6. Leads(g, pair_path(g, r, s), a, b, hops)
  <2>1. pair_path(g, r, s) = _chain(g, r, m) \o Tail(Backwards(_chain(g, s, m)))
    BY DEF pair_path
  <2> HIDE DEF m
  <2> QED
    BY <1>1, <1>4, <2>1, PathsJoin
<1>7. \A x \in Meetings(r, s) : hops <= Distance(r, s, x)
  <2> HIDE DEF m, hops
  <2> QED
    BY <1>2, <1>4, <1>5
<1> QED
  <2> HIDE DEF hops, m
  <2>1. \E n \in Nat : /\ Leads(g, pair_path(g, r, s), a, b, n)
                       /\ \E x \in Meetings(r, s) : n = Distance(r, s, x)
                       /\ \A x \in Meetings(r, s) : n <= Distance(r, s, x)
    BY <1>4, <1>5, <1>6, <1>7
  <2> QED
    BY <2>1 DEF r, s

Meet(g, a, b, cap, hops) ==
  \E x \in Meetings(expand_seed(g, a, cap), expand_seed(g, b, cap)) :
    Distance(expand_seed(g, a, cap), expand_seed(g, b, cap), x) <= hops

\* Reaches that meet over so many hops meet over more.
LEMMA MeetFurther ==
  ASSUME NEW g, NEW a, NEW b, NEW cap, NEW n \in Nat, NEW m \in Nat, n <= m, Meet(g, a, b, cap, n)
  PROVE  Meet(g, a, b, cap, m)
<1> DEFINE r == expand_seed(g, a, cap)
           s == expand_seed(g, b, cap)
<1>1. PICK x \in Meetings(r, s) : Distance(r, s, x) <= n
  BY DEF Meet
<1>2. HopsTo(r, x) \in 0 .. 2 /\ HopsTo(s, x) \in 0 .. 2
  BY OneLevel DEF Meetings
<1>3. Distance(r, s, x) <= m
  <2> HIDE DEF r, s
  <2> QED
    BY <1>1, <1>2 DEF Distance
<1> QED
  BY <1>3 DEF Meet

\* What each verdict says of the two reaches.
LEMMA VerdictMeans ==
  ASSUME NEW g, Linking(g), NEW a \in Artists, NEW b \in Artists, NEW cap, NEW failed
  PROVE  LET v == Verdict(g, a, b, cap, failed)
         IN  /\ v.status = "found" =>
                  \E hops \in Nat : /\ hops <= MaxHops /\ Leads(g, v.path, a, b, hops)
                                    /\ \A n \in Nat : Meet(g, a, b, cap, n) => hops <= n
                                    /\ v.warnings = _pair_warnings(g, v.path)
             /\ v = NoPath => expand_seed(g, a, cap).capped = {} /\ expand_seed(g, b, cap).capped = {}
             /\ v = NoPath \/ v = Skipped("frontier_too_large") => ~Meet(g, a, b, cap, MaxHops)
             /\ v # Skipped("seed_failed") /\ Meet(g, a, b, cap, MaxHops) => v.status = "found"
<1> DEFINE r == expand_seed(g, a, cap)
           s == expand_seed(g, b, cap)
           v == Verdict(g, a, b, cap, failed)
           best == pair_path(g, r, s)
<1>1. (\E d \in pair_distances(r, s) : d <= MaxHops) <=> Meet(g, a, b, cap, MaxHops)
  BY DEF pair_distances, Meet
<1>2. v = IF {a, b} \cap failed # {} THEN Skipped("seed_failed")
          ELSE IF Meet(g, a, b, cap, MaxHops) THEN Found(g, best)
          ELSE IF r.capped \cup s.capped # {} THEN Skipped("frontier_too_large") ELSE NoPath
  BY <1>1 DEF Verdict
<1>3. Meet(g, a, b, cap, MaxHops) =>
        \E hops \in Nat : /\ hops <= MaxHops /\ Leads(g, best, a, b, hops)
                          /\ \A n \in Nat : Meet(g, a, b, cap, n) => hops <= n
  <2> SUFFICES ASSUME Meet(g, a, b, cap, MaxHops)
               PROVE  \E hops \in Nat : /\ hops <= MaxHops /\ Leads(g, best, a, b, hops)
                                        /\ \A n \in Nat : Meet(g, a, b, cap, n) => hops <= n
    OBVIOUS
  <2>1. Meetings(r, s) # {}
    BY DEF Meet
  <2>2. PICK hops \in Nat :
          /\ Leads(g, best, a, b, hops)
          /\ \E x \in Meetings(r, s) : hops = Distance(r, s, x)
          /\ \A x \in Meetings(r, s) : hops <= Distance(r, s, x)
    BY <2>1, BestPath
  <2>3. \A x \in Meetings(r, s) : hops <= Distance(r, s, x) /\ Distance(r, s, x) \in Nat
    <3>1. \A x \in Meetings(r, s) : HopsTo(r, x) \in 0 .. 2 /\ HopsTo(s, x) \in 0 .. 2
      BY OneLevel DEF Meetings
    <3> HIDE DEF r, s
    <3> QED
      BY <2>2, <3>1 DEF Distance
  <2>4. \A n \in Nat : Meet(g, a, b, cap, n) => hops <= n
    <3> SUFFICES ASSUME NEW n \in Nat, Meet(g, a, b, cap, n) PROVE hops <= n
      OBVIOUS
    <3>1. PICK x \in Meetings(r, s) : Distance(r, s, x) <= n
      BY DEF Meet
    <3> HIDE DEF r, s
    <3> QED
      BY <2>3, <3>1
  <2>5. MaxHops \in Nat
    BY HopsFit
  <2> QED
    BY <2>2, <2>4, <2>5
<1> HIDE DEF r, s, v, best
<1>4. /\ Found(g, best).status = "found" /\ Found(g, best).path = best
      /\ Found(g, best).warnings = _pair_warnings(g, best)
      /\ \A why : Skipped(why).status = "skipped"
      /\ NoPath.status = "no_path"
      /\ Skipped("seed_failed") # Skipped("frontier_too_large")
  <2>1. Skipped("seed_failed").reason # Skipped("frontier_too_large").reason
    BY DEF Skipped
  <2> QED
    BY <2>1 DEF Found, Skipped, NoPath
<1>5. v.status = "found" => v = Found(g, best) /\ Meet(g, a, b, cap, MaxHops)
  BY <1>2, <1>4
<1>6. v = NoPath => r.capped \cup s.capped = {} /\ ~Meet(g, a, b, cap, MaxHops)
  BY <1>2, <1>4
<1>7. v = Skipped("frontier_too_large") => ~Meet(g, a, b, cap, MaxHops)
  BY <1>2, <1>4
<1>8. v # Skipped("seed_failed") /\ Meet(g, a, b, cap, MaxHops) => v.status = "found"
  BY <1>2, <1>4
<1> QED
  BY <1>3, <1>4, <1>5, <1>6, <1>7, <1>8 DEF r, s, v

----------------------------------------------------------------------------
(* What the search does not find.                                           *)

\* A walk of a graph: from one artist to another, step by step.
LEMMA WalkSteps ==
  ASSUME NEW g, NEW a, NEW b, NEW n \in Nat \ {0}, NEW w \in Walks(g, a, b, n)
  PROVE  /\ w[0] = a /\ w[n] = b
         /\ \A i \in 0 .. n - 1 : w[i + 1] \in neighbors(g, w[i])
<1>1. PICK m \in [1 .. n - 1 -> Artists] : w = Via(a, m, b, n)
  BY DEF Walks
<1>2. w[0] = a /\ w[n] = b
  BY <1>1 DEF Via
<1>3. \A i \in 0 .. n - 1 : w[i + 1] \in neighbors(g, w[i])
  BY DEF Walks
<1> QED
  BY <1>2, <1>3

\* A function that steps from one artist to another is a walk.
LEMMA StepsWalk ==
  ASSUME NEW g, Linking(g), NEW a, NEW b, NEW n \in Nat \ {0}, NEW w, w = [i \in 0 .. n |-> w[i]],
         w[0] = a, w[n] = b, \A i \in 0 .. n - 1 : w[i + 1] \in neighbors(g, w[i])
  PROVE  w \in Walks(g, a, b, n)
<1> DEFINE m == [i \in 1 .. n - 1 |-> w[i]]
<1>1. m \in [1 .. n - 1 -> Artists]
  <2>1. \A i \in 1 .. n - 1 : i \in 0 .. n - 1
    OBVIOUS
  <2> QED
    BY <2>1 DEF Linking
<1>2. w = Via(a, m, b, n)
  <2>1. \A i \in 0 .. n : i = 0 \/ i = n \/ i \in 1 .. n - 1
    OBVIOUS
  <2>2. \A i \in 0 .. n : w[i] = IF i = 0 THEN a ELSE IF i = n THEN b ELSE m[i]
    BY <2>1
  <2> HIDE DEF m
  <2> QED
    BY <2>2 DEF Via
<1> HIDE DEF m
<1> QED
  BY <1>1, <1>2 DEF Walks

\* A path that leads somewhere is a walk, and a walk backwards is one.
LEMMA PathWalks ==
  ASSUME NEW g, Linking(g), NEW a, NEW b, NEW n \in Nat \ {0}, NEW path, Leads(g, path, a, b, n)
  PROVE  [i \in 0 .. n |-> path[i + 1]] \in Walks(g, a, b, n)
<1> DEFINE w == [i \in 0 .. n |-> path[i + 1]]
<1>1. w[0] = a /\ w[n] = b
  BY DEF Leads
<1>2. ASSUME NEW i \in 0 .. n - 1 PROVE w[i + 1] \in neighbors(g, w[i])
  <2>1. i + 1 \in 1 .. n /\ i \in 0 .. n /\ i + 1 \in 0 .. n
    OBVIOUS
  <2> QED
    BY <2>1 DEF Leads
<1>3. w = [i \in 0 .. n |-> w[i]]
  OBVIOUS
<1> HIDE DEF w
<1>4. w \in Walks(g, a, b, n)
  BY <1>1, <1>2, <1>3, StepsWalk
<1> QED
  BY <1>4 DEF w

Over(g, x, cap) == degree(g, x) > cap

\* A reach has its seed, the seed's neighbours, and theirs where the cap allows.
LEMMA ReachesFar ==
  ASSUME NEW g, Linking(g), NEW a, NEW cap, NEW x, NEW y
  PROVE  LET r == expand_seed(g, a, cap)
         IN  /\ a \in Reached(r) /\ HopsTo(r, a) = 0
             /\ x \in neighbors(g, a) => x \in Reached(r) /\ HopsTo(r, x) = 1
             /\ x \in neighbors(g, a) /\ y \in neighbors(g, x) /\ MaxHops > 2 /\ ~Over(g, x, cap) =>
                  y \in Reached(r) /\ HopsTo(r, y) \in 0 .. 2
             /\ x \in neighbors(g, a) /\ MaxHops > 2 /\ Over(g, x, cap) => x \in r.capped
<1> DEFINE r == expand_seed(g, a, cap)
<1>1. r.level[1] = {a} /\ r.level[2] = Near(g, a)
  BY ReachLevels
<1>2. MaxHops > 2 =>
        /\ \A z : z \in r.capped <=> z \in Near(g, a) /\ Over(g, z, cap)
        /\ \A z : z \in r.level[3] <=>
             /\ z # a /\ z \notin Near(g, a)
             /\ \E v \in Near(g, a) \ r.capped : z \in neighbors(g, v)
  <2>1. MaxHops > 2 => ~(MaxHops <= 2)
    BY HopsFit
  <2>2. ~(MaxHops <= 2) => r.capped = Capped(g, Near(g, a), cap)
    BY ReachLevels
  <2>3. ~(MaxHops <= 2) =>
          \A z : z \in r.level[3] <=>
             /\ z # a /\ z \notin Near(g, a)
             /\ \E v \in Near(g, a) \ r.capped : z \in neighbors(g, v)
    BY ReachLevels
  <2> HIDE DEF r
  <2> QED
    BY <2>1, <2>2, <2>3 DEF Capped, Over
<1>3. x \in neighbors(g, a) => x \in Near(g, a)
  BY DEF Near, Linking
<1>4. \A z : \A d \in 0 .. 2 : z \in r.level[d + 1] => z \in Reached(r) /\ HopsTo(r, z) = d
  BY OneLevel
<1> HIDE DEF r
<1>5. \A z : /\ z \in r.level[1] => z \in Reached(r) /\ HopsTo(r, z) = 0
             /\ z \in r.level[2] => z \in Reached(r) /\ HopsTo(r, z) = 1
             /\ z \in r.level[3] => z \in Reached(r) /\ HopsTo(r, z) = 2
  <2>1. 0 \in 0 .. 2 /\ 1 \in 0 .. 2 /\ 2 \in 0 .. 2 /\ 0 + 1 = 1 /\ 1 + 1 = 2 /\ 2 + 1 = 3
    OBVIOUS
  <2> QED
    BY <1>4, <2>1
<1>6. /\ a \in Reached(r) /\ HopsTo(r, a) = 0
      /\ x \in neighbors(g, a) => x \in Reached(r) /\ HopsTo(r, x) = 1
  BY <1>1, <1>3, <1>5
<1>7. ASSUME x \in neighbors(g, a), y \in neighbors(g, x), MaxHops > 2, ~Over(g, x, cap)
      PROVE  y \in Reached(r) /\ HopsTo(r, y) \in 0 .. 2
  <2>1. x \in Near(g, a) \ r.capped
    BY <1>2, <1>3, <1>7
  <2>2. y \in r.level[1] \/ y \in r.level[2] \/ y \in r.level[3]
    BY <1>1, <1>2, <1>7, <2>1
  <2> QED
    BY <1>5, <2>2
<1>8. x \in neighbors(g, a) /\ MaxHops > 2 /\ Over(g, x, cap) => x \in r.capped
  BY <1>2, <1>3
<1> QED
  BY <1>6, <1>7, <1>8 DEF r

Within(g, a, cap, x, d) ==
  x \in Reached(expand_seed(g, a, cap)) /\ HopsTo(expand_seed(g, a, cap), x) \in 0 .. d

\* The same as distances at most.
LEMMA ReachesWithin ==
  ASSUME NEW g, Linking(g), NEW a, NEW cap, NEW x, NEW y
  PROVE  /\ Within(g, a, cap, a, 0)
         /\ x \in neighbors(g, a) => Within(g, a, cap, x, 1)
         /\ x \in neighbors(g, a) /\ y \in neighbors(g, x) /\ MaxHops > 2 /\ ~Over(g, x, cap) =>
              Within(g, a, cap, y, 2)
<1>1. Within(g, a, cap, a, 0)
  BY ReachesFar DEF Within
<1>2. x \in neighbors(g, a) => Within(g, a, cap, x, 1)
  <2>1. 1 \in 0 .. 1
    OBVIOUS
  <2> QED
    BY <2>1, ReachesFar DEF Within
<1>3. x \in neighbors(g, a) /\ y \in neighbors(g, x) /\ MaxHops > 2 /\ ~Over(g, x, cap) =>
        Within(g, a, cap, y, 2)
  BY ReachesFar DEF Within
<1> QED
  BY <1>1, <1>2, <1>3

\* Two reaches meet on every walk the cap does not hide, and over no more hops.
LEMMA WalksMeet ==
  ASSUME NEW g, Linking(g), NEW a, NEW b, NEW cap, NEW n \in 1 .. MaxHops,
         NEW w \in Walks(g, a, b, n), ~HiddenByCap(g, w, n, cap)
  PROVE  Meet(g, a, b, cap, n)
<1> DEFINE r == expand_seed(g, a, cap)
           s == expand_seed(g, b, cap)
<1>1. n \in Nat \ {0} /\ MaxHops \in 1 .. 4 /\ n \in 1 .. 4
  BY HopsFit
<1>2. /\ w[0] = a /\ w[n] = b
      /\ \A i \in 0 .. n - 1 : w[i + 1] \in neighbors(g, w[i]) /\ w[i] \in neighbors(g, w[i + 1])
  <2>1. w[0] = a /\ w[n] = b /\ \A i \in 0 .. n - 1 : w[i + 1] \in neighbors(g, w[i])
    BY <1>1, WalkSteps
  <2> QED
    BY <2>1 DEF Linking
<1>3. \A c, x, y : /\ Within(g, c, cap, c, 0)
                   /\ x \in neighbors(g, c) => Within(g, c, cap, x, 1)
                   /\ x \in neighbors(g, c) /\ y \in neighbors(g, x) /\ MaxHops > 2 /\ ~Over(g, x, cap) =>
                        Within(g, c, cap, y, 2)
  BY ReachesWithin
<1>5. ASSUME NEW x, NEW d \in Nat, NEW e \in Nat, Within(g, a, cap, x, d), Within(g, b, cap, x, e), d + e = n
      PROVE  Meet(g, a, b, cap, n)
  <2>1. x \in Meetings(r, s)
    BY <1>5 DEF Meetings, Within
  <2>2. Distance(r, s, x) <= n
    <3>1. HopsTo(r, x) \in 0 .. d /\ HopsTo(s, x) \in 0 .. e
      BY <1>5 DEF Within
    <3> HIDE DEF r, s
    <3> QED
      BY <1>5, <3>1 DEF Distance
  <2> QED
    BY <2>1, <2>2 DEF Meet
<1>6. CASE n = 1
  <2>1. w[1] = b /\ w[1] \in neighbors(g, a)
    <3>1. 0 \in 0 .. n - 1 /\ 0 + 1 = 1
      BY <1>6
    <3> QED
      BY <1>2, <1>6, <3>1
  <2> QED
    BY <1>3, <1>5, <1>6, <2>1
<1>7. CASE n = 2
  <2>1. w[1] \in neighbors(g, a) /\ w[1] \in neighbors(g, b)
    <3>1. 0 \in 0 .. n - 1 /\ 0 + 1 = 1 /\ 1 \in 0 .. n - 1 /\ 1 + 1 = 2
      BY <1>7
    <3> QED
      BY <1>2, <1>7, <3>1
  <2> QED
    BY <1>3, <1>5, <1>7, <2>1
<1>8. CASE n = 3
  <2>1. /\ w[1] \in neighbors(g, a) /\ w[2] \in neighbors(g, w[1])
        /\ w[2] \in neighbors(g, b) /\ w[1] \in neighbors(g, w[2])
    <3>1. /\ 0 \in 0 .. n - 1 /\ 1 \in 0 .. n - 1 /\ 2 \in 0 .. n - 1
          /\ 0 + 1 = 1 /\ 1 + 1 = 2 /\ 2 + 1 = 3
      BY <1>8
    <3> QED
      BY <1>2, <1>8, <3>1
  <2>2. MaxHops > 2
    BY <1>1, <1>8
  <2>3. ~Over(g, w[1], cap) \/ ~Over(g, w[2], cap)
    <3>1. w[1] \in {w[i] : i \in 1 .. n - 1} /\ w[2] \in {w[i] : i \in 1 .. n - 1}
      BY <1>8
    <3> QED
      BY <1>8, <3>1 DEF HiddenByCap, Capped, Over
  <2>4. Within(g, a, cap, w[1], 1) /\ Within(g, b, cap, w[2], 1)
    BY <1>3, <2>1
  <2>5. Within(g, a, cap, w[2], 2) \/ Within(g, b, cap, w[1], 2)
    BY <1>3, <2>1, <2>2, <2>3
  <2> QED
    BY <1>5, <1>8, <2>4, <2>5
<1>9. CASE n = 4
  <2>1. /\ w[1] \in neighbors(g, a) /\ w[2] \in neighbors(g, w[1])
        /\ w[3] \in neighbors(g, b) /\ w[2] \in neighbors(g, w[3])
    <3>1. /\ 0 \in 0 .. n - 1 /\ 1 \in 0 .. n - 1 /\ 2 \in 0 .. n - 1 /\ 3 \in 0 .. n - 1
          /\ 0 + 1 = 1 /\ 1 + 1 = 2 /\ 2 + 1 = 3 /\ 3 + 1 = 4
      BY <1>9
    <3> QED
      BY <1>2, <1>9, <3>1
  <2>2. MaxHops > 2
    BY <1>1, <1>9
  <2>3. ~Over(g, w[1], cap) /\ ~Over(g, w[3], cap)
    <3>1. w[1] \in {w[i] : i \in 1 .. n - 1} /\ w[3] \in {w[i] : i \in 1 .. n - 1}
      BY <1>9
    <3> QED
      BY <1>9, <3>1 DEF HiddenByCap, Capped, Over
  <2>4. Within(g, a, cap, w[2], 2) /\ Within(g, b, cap, w[2], 2)
    BY <1>3, <2>1, <2>2, <2>3
  <2> QED
    BY <1>5, <1>9, <2>4
<1> QED
  BY <1>1, <1>6, <1>7, <1>8, <1>9

\* A cap that left out nobody hides no walk.
LEMMA NothingHidden ==
  ASSUME NEW g, Linking(g), NEW a, NEW b, NEW cap, NEW n \in 1 .. MaxHops,
         NEW w \in Walks(g, a, b, n),
         expand_seed(g, a, cap).capped = {}, expand_seed(g, b, cap).capped = {}
  PROVE  ~HiddenByCap(g, w, n, cap)
<1>1. n \in Nat \ {0} /\ MaxHops \in 1 .. 4 /\ n \in 1 .. 4
  BY HopsFit
<1>2. /\ w[0] = a /\ w[n] = b
      /\ \A i \in 0 .. n - 1 : w[i + 1] \in neighbors(g, w[i]) /\ w[i] \in neighbors(g, w[i + 1])
  <2>1. w[0] = a /\ w[n] = b /\ \A i \in 0 .. n - 1 : w[i + 1] \in neighbors(g, w[i])
    BY <1>1, WalkSteps
  <2> QED
    BY <2>1 DEF Linking
<1>3. MaxHops > 2 => \A x \in neighbors(g, a) \cup neighbors(g, b) : ~Over(g, x, cap)
  BY ReachesFar
<1>4. n = 3 => ~Over(g, w[1], cap)
  <2> SUFFICES ASSUME n = 3 PROVE w[1] \in neighbors(g, a) /\ MaxHops > 2
    BY <1>3
  <2>1. 0 \in 0 .. n - 1 /\ 0 + 1 = 1
    OBVIOUS
  <2> QED
    BY <1>1, <1>2, <2>1
<1>5. n = 4 => ~Over(g, w[1], cap) /\ ~Over(g, w[3], cap)
  <2> SUFFICES ASSUME n = 4 PROVE w[1] \in neighbors(g, a) /\ w[3] \in neighbors(g, b) /\ MaxHops > 2
    BY <1>3
  <2>1. 0 \in 0 .. n - 1 /\ 0 + 1 = 1 /\ 3 \in 0 .. n - 1 /\ 3 + 1 = 4
    OBVIOUS
  <2> QED
    BY <1>1, <1>2, <2>1
<1> QED
  BY <1>4, <1>5 DEF HiddenByCap, Capped, Over

----------------------------------------------------------------------------
(* The search from one side.                                                *)

Further(g, cap, known) == known \cup UNION {neighbors(g, v) : v \in known \ Capped(g, known, cap)}

\* Whom the search has visited after so many hops.
Visits(g, a, cap, n, p) ==
  p = [d \in 0 .. n |-> IF d = 0 THEN {a} ELSE Further(g, cap, p[d - 1])]

\* The visits, one after the other.
LEMMA VisitsFurther ==
  ASSUME NEW g, NEW a, NEW cap, NEW n \in Nat, NEW p, Visits(g, a, cap, n, p)
  PROVE  p[0] = {a} /\ \A d \in 1 .. n : p[d] = Further(g, cap, p[d - 1])
<1>1. p = [e \in 0 .. n |-> IF e = 0 THEN {a} ELSE Further(g, cap, p[e - 1])]
  BY DEF Visits
<1>2. p[0] = {a}
  BY <1>1
<1>3. ASSUME NEW d \in 1 .. n PROVE p[d] = Further(g, cap, p[d - 1])
  <2>1. d \in 0 .. n /\ d # 0
    OBVIOUS
  <2> QED
    BY <1>1, <2>1, Zenon
<1> QED
  BY <1>2, <1>3

\* The same of one hop.
LEMMA VisitsNext ==
  ASSUME NEW g, NEW a, NEW cap, NEW n \in Nat, NEW p, Visits(g, a, cap, n, p), NEW d \in 1 .. n
  PROVE  p[d] = Further(g, cap, p[d - 1])
<1>1. p = [e \in 0 .. n |-> IF e = 0 THEN {a} ELSE Further(g, cap, p[e - 1])]
  BY DEF Visits
<1>2. d \in 0 .. n /\ d # 0
  OBVIOUS
<1> QED
  BY <1>1, <1>2, Zenon

\* The visits are defined: their recursion has a solution.
LEMMA VisitsDefined ==
  ASSUME NEW g, NEW a, NEW cap, NEW N \in Nat
  PROVE  \E p : Visits(g, a, cap, N, p)
<1> DEFINE Solved == {k \in 0 .. N : \E p : Visits(g, a, cap, k, p)}
<1>1. 0 \in Solved
  <2> DEFINE p == [d \in 0 .. 0 |-> {a}]
  <2>1. p = [d \in 0 .. 0 |-> IF d = 0 THEN {a} ELSE Further(g, cap, p[d - 1])]
    OBVIOUS
  <2> HIDE DEF p
  <2> QED
    BY <2>1 DEF Visits
<1>2. ASSUME NEW k \in 0 .. N, k \in Solved, k < N
      PROVE  k + 1 \in Solved
  <2>1. PICK p : Visits(g, a, cap, k, p)
    BY <1>2
  <2> DEFINE q == [d \in 0 .. k + 1 |-> IF d = k + 1 THEN Further(g, cap, p[k]) ELSE p[d]]
  <2>2. p[0] = {a} /\ \A d \in 1 .. k : p[d] = Further(g, cap, p[d - 1])
    BY <2>1, VisitsFurther
  <2>3. q[k + 1] = Further(g, cap, p[k]) /\ \A d \in 0 .. k : q[d] = p[d]
    OBVIOUS
  <2>4. ASSUME NEW d \in 0 .. k + 1
        PROVE  q[d] = IF d = 0 THEN {a} ELSE Further(g, cap, q[d - 1])
    <3> HIDE DEF q
    <3>1. CASE d = k + 1
      BY <2>3, <3>1
    <3>2. CASE d = 0
      BY <2>2, <2>3, <3>2
    <3>3. CASE d # k + 1 /\ d # 0
      <4>1. d \in 1 .. k /\ d \in 0 .. k /\ d - 1 \in 0 .. k
        BY <3>3
      <4> QED
        BY <2>2, <2>3, <3>3, <4>1
    <3> QED
      BY <3>1, <3>2, <3>3
  <2>5. Visits(g, a, cap, k + 1, q)
    BY <2>4 DEF Visits
  <2> HIDE DEF q
  <2> QED
    BY <1>2, <2>5
<1> HIDE DEF Solved
<1>3. 0 .. N \subseteq Solved
  BY <1>1, <1>2, CountingUp
<1> QED
  BY <1>3 DEF Solved

\* What the one-sided search answers, from its visits.
LEMMA SearchVisits ==
  ASSUME NEW g, NEW a, NEW b, NEW cap
  PROVE  LET path == find_path(g, a, b, cap)
         IN  \E p : /\ Visits(g, a, cap, MaxHops, p)
                    /\ path.status = "found" => path.hops \in 0 .. MaxHops /\ b \in p[path.hops]
                    /\ path.status = "no_path" =>
                         /\ \A d \in 0 .. MaxHops : b \notin p[d]
                         /\ Capped(g, p[MaxHops - 1], cap) = {}
<1> DEFINE path == find_path(g, a, b, cap)
           p == CHOOSE q : Visits(g, a, cap, MaxHops, q)
           at == {d \in 0 .. MaxHops : b \in p[d]}
<1>1. Visits(g, a, cap, MaxHops, p)
  BY HopsFit, VisitsDefined
<1>2. path = CASE at # {} -> [status |-> "found", hops |-> CHOOSE d \in at : \A k \in at : d <= k]
               [] OTHER   -> IF Capped(g, p[MaxHops - 1], cap) # {}
                             THEN Skipped("frontier_too_large") ELSE NoPath
  BY DEF find_path, Visits, Further
<1> HIDE DEF path, p
<1>3. CASE at # {}
  <2>1. path = [status |-> "found", hops |-> CHOOSE d \in at : \A k \in at : d <= k]
    BY <1>2, <1>3
  <2>2. \E d \in at : \A k \in at : d <= k
    <3>1. at \subseteq Nat
      OBVIOUS
    <3> HIDE DEF at
    <3> QED
      BY <1>3, <3>1, LeastExists
  <2>3. path.status = "found" /\ path.hops \in at
    <3> HIDE DEF at
    <3> QED
      BY <2>1, <2>2
  <2> QED
    BY <1>1, <2>3 DEF path
<1>4. CASE at = {}
  <2>1. path = IF Capped(g, p[MaxHops - 1], cap) # {} THEN Skipped("frontier_too_large") ELSE NoPath
    BY <1>2, <1>4
  <2>2. /\ path.status # "found"
        /\ path.status = "no_path" => Capped(g, p[MaxHops - 1], cap) = {}
    BY <2>1 DEF Skipped, NoPath
  <2>3. \A d \in 0 .. MaxHops : b \notin p[d]
    BY <1>4
  <2> QED
    BY <1>1, <2>2, <2>3 DEF path
<1> QED
  BY <1>3, <1>4

\* Steps from one artist to another, no artist before the last one over the cap.
Strides(g, w, a, b, n, cap) ==
  /\ w = [i \in 0 .. n |-> w[i]] /\ w[0] = a /\ w[n] = b
  /\ \A i \in 0 .. n - 1 : w[i + 1] \in neighbors(g, w[i]) /\ ~Over(g, w[i], cap)

\* Whoever is visited is met by a walk, over so many hops at most and over nobody
\* above the cap.
LEMMA VisitedByWalk ==
  ASSUME NEW g, NEW a, NEW cap, NEW p, NEW N \in Nat, Visits(g, a, cap, N, p),
         NEW d \in 0 .. N, NEW x \in p[d]
  PROVE  \E n \in 0 .. d : \E w : Strides(g, w, a, x, n, cap)
<1> DEFINE Met(k) == \A y \in p[k] : \E n \in 0 .. k : \E w : Strides(g, w, a, y, n, cap)
           Done == {k \in 0 .. N : Met(k)}
<1>0. /\ p[0] = {a}
      /\ \A k \in 0 .. N : k # 0 => p[k] = Further(g, cap, p[k - 1])
  <2>1. p[0] = {a}
    BY VisitsFurther
  <2>2. ASSUME NEW k \in 1 .. N PROVE p[k] = Further(g, cap, p[k - 1])
    BY VisitsNext
  <2> QED
    BY <2>1, <2>2
<1>1. 0 \in Done
  <2> SUFFICES ASSUME NEW y \in p[0] PROVE \E n \in 0 .. 0 : \E w : Strides(g, w, a, y, n, cap)
    OBVIOUS
  <2> DEFINE v == [i \in 0 .. 0 |-> a]
  <2>1. Strides(g, v, a, y, 0, cap)
    BY <1>0 DEF Strides
  <2> HIDE DEF v
  <2> QED
    BY <2>1
<1>2. ASSUME NEW k \in 0 .. N, k \in Done, k < N
      PROVE  k + 1 \in Done
  <2> SUFFICES ASSUME NEW y \in p[k + 1]
               PROVE  \E n \in 0 .. k + 1 : \E w : Strides(g, w, a, y, n, cap)
    BY <1>2
  <2>1. p[k + 1] = Further(g, cap, p[k])
    <3>1. k + 1 \in 0 .. N /\ k + 1 # 0 /\ (k + 1) - 1 = k
      BY <1>2
    <3> QED
      BY <1>0, <3>1
  <2>2. CASE y \in p[k]
    <3>1. PICK n \in 0 .. k : \E w : Strides(g, w, a, y, n, cap)
      BY <1>2, <2>2
    <3>2. n \in 0 .. k + 1
      OBVIOUS
    <3> QED
      BY <3>1, <3>2
  <2>3. CASE y \notin p[k]
    <3>1. PICK x2 \in p[k] : x2 \notin Capped(g, p[k], cap) /\ y \in neighbors(g, x2)
      BY <2>1, <2>3 DEF Further
    <3>0. PICK n \in 0 .. k : \E w : Strides(g, w, a, x2, n, cap)
      BY <1>2
    <3>2. PICK w : Strides(g, w, a, x2, n, cap)
      BY <3>0
    <3> DEFINE v == [i \in 0 .. n + 1 |-> IF i = n + 1 THEN y ELSE w[i]]
    <3>3. /\ v[0] = a /\ v[n + 1] = y /\ v[n] = x2 /\ v = [i \in 0 .. n + 1 |-> v[i]]
          /\ \A i \in 0 .. n : v[i] = w[i]
      BY <3>2 DEF Strides
    <3> HIDE DEF v
    <3>4. ASSUME NEW i \in 0 .. (n + 1) - 1
          PROVE  v[i + 1] \in neighbors(g, v[i]) /\ ~Over(g, v[i], cap)
      <4>1. CASE i = n
        BY <3>1, <3>3, <4>1 DEF Capped, Over
      <4>2. CASE i # n
        <5>1. i \in 0 .. n - 1 /\ i \in 0 .. n /\ i + 1 \in 0 .. n
          BY <4>2
        <5> QED
          BY <3>2, <3>3, <5>1 DEF Strides
      <4> QED
        BY <4>1, <4>2
    <3>5. Strides(g, v, a, y, n + 1, cap) /\ n + 1 \in 0 .. k + 1
      <4>1. v[0] = a /\ v[n + 1] = y /\ v = [i \in 0 .. n + 1 |-> v[i]] /\ n + 1 \in 0 .. k + 1
        BY <3>3
      <4> QED
        BY <3>4, <4>1 DEF Strides
    <3> QED
      BY <3>5
  <2> QED
    BY <2>2, <2>3
<1> HIDE DEF Done
<1>3. 0 .. N \subseteq Done
  BY <1>1, <1>2, CountingUp
<1> QED
  BY <1>3 DEF Done

\* Where the cap left out nobody, a path is followed to its end.
LEMMA PathIsVisited ==
  ASSUME NEW g, NEW a, NEW b, NEW cap, NEW p, NEW N \in Nat \ {0}, Visits(g, a, cap, N, p),
         Capped(g, p[N - 1], cap) = {},
         NEW path, NEW n \in 0 .. N, Leads(g, path, a, b, n)
  PROVE  b \in p[n]
<1>0. /\ p[0] = {a}
      /\ \A k \in 0 .. N : k # 0 => p[k] = Further(g, cap, p[k - 1])
  <2>1. p[0] = {a}
    BY VisitsFurther
  <2>2. ASSUME NEW k \in 1 .. N PROVE p[k] = Further(g, cap, p[k - 1])
    BY VisitsNext
  <2> QED
    BY <2>1, <2>2
<1>1. \A k \in 0 .. N - 1 : p[k] \subseteq p[N - 1]
  <2> DEFINE Kept == {j \in 0 .. N - 1 : p[N - 1 - j] \subseteq p[N - 1]}
  <2>1. 0 \in Kept
    OBVIOUS
  <2>2. ASSUME NEW j \in 0 .. N - 1, j \in Kept, j < N - 1
        PROVE  j + 1 \in Kept
    <3>1. N - 1 - j \in 0 .. N /\ N - 1 - j # 0 /\ (N - 1 - j) - 1 = N - 1 - (j + 1)
      BY <2>2
    <3>2. p[N - 1 - j] = Further(g, cap, p[N - 1 - (j + 1)])
      BY <1>0, <3>1
    <3> QED
      BY <2>2, <3>2 DEF Further
  <2>3. 0 .. N - 1 \subseteq Kept
    <3>1. N - 1 \in Nat
      OBVIOUS
    <3> HIDE DEF Kept
    <3> QED
      BY <2>1, <2>2, <3>1, CountingUp
  <2> SUFFICES ASSUME NEW k \in 0 .. N - 1 PROVE p[k] \subseteq p[N - 1]
    OBVIOUS
  <2>4. N - 1 - k \in 0 .. N - 1 /\ N - 1 - (N - 1 - k) = k
    OBVIOUS
  <2> QED
    BY <2>3, <2>4
<1> DEFINE Followed == {i \in 0 .. n : path[i + 1] \in p[i]}
<1>2. 0 \in Followed
  BY <1>0 DEF Leads
<1>3. ASSUME NEW i \in 0 .. n, i \in Followed, i < n
      PROVE  i + 1 \in Followed
  <2>1. i + 1 \in 1 .. n /\ i + 1 \in 0 .. N /\ i + 1 # 0 /\ (i + 1) - 1 = i /\ i \in 0 .. N - 1
    BY <1>3
  <2>2. p[i + 1] = Further(g, cap, p[i])
    BY <1>0, <2>1
  <2>3. path[i + 1] \in p[i] /\ path[i + 1] \notin Capped(g, p[i], cap)
    BY <1>1, <1>3, <2>1 DEF Capped
  <2>4. path[(i + 1) + 1] \in neighbors(g, path[i + 1])
    BY <2>1 DEF Leads
  <2> QED
    BY <2>1, <2>2, <2>3, <2>4 DEF Further
<1>4. 0 .. n \subseteq Followed
  <2> HIDE DEF Followed
  <2>1. n \in Nat
    OBVIOUS
  <2> QED
    BY <1>2, <1>3, <2>1, CountingUp
<1>5. path[n + 1] \in p[n] /\ path[n + 1] = b
  BY <1>4 DEF Leads
<1> QED
  BY <1>5

\* What the one-sided search finds is found from both sides, with no more hops; what
\* it rules out is not found.
LEMMA SearchesAgree ==
  ASSUME NEW g, Linking(g), NEW a \in Artists, NEW b \in Artists, a # b, NEW cap, NEW failed
  PROVE  LET v == Verdict(g, a, b, cap, failed)
             path == find_path(g, a, b, cap)
         IN  v # Skipped("seed_failed") =>
               /\ path.status = "found" => v.status = "found" /\ Len(v.path) <= path.hops + 1
               /\ path.status = "no_path" => v.status # "found"
<1> DEFINE v == Verdict(g, a, b, cap, failed)
           path == find_path(g, a, b, cap)
<1> SUFFICES ASSUME v # Skipped("seed_failed")
             PROVE  /\ path.status = "found" => v.status = "found" /\ Len(v.path) <= path.hops + 1
                    /\ path.status = "no_path" => v.status # "found"
  OBVIOUS
<1>0. MaxHops \in 1 .. 4
  BY HopsFit
<1>1. PICK p : /\ Visits(g, a, cap, MaxHops, p)
               /\ path.status = "found" => path.hops \in 0 .. MaxHops /\ b \in p[path.hops]
               /\ path.status = "no_path" =>
                    /\ \A d \in 0 .. MaxHops : b \notin p[d]
                    /\ Capped(g, p[MaxHops - 1], cap) = {}
  BY SearchVisits
<1>2. /\ v.status = "found" =>
           \E hops \in Nat : /\ hops <= MaxHops /\ Leads(g, v.path, a, b, hops)
                             /\ \A n \in Nat : Meet(g, a, b, cap, n) => hops <= n
      /\ Meet(g, a, b, cap, MaxHops) => v.status = "found"
  BY VerdictMeans
<1> HIDE DEF v, path
<1>3. ASSUME path.status = "found"
      PROVE  v.status = "found" /\ Len(v.path) <= path.hops + 1
  <2>0. PICK n \in 0 .. path.hops : \E w : Strides(g, w, a, b, n, cap)
    BY <1>0, <1>1, <1>3, VisitedByWalk
  <2>1. PICK w : Strides(g, w, a, b, n, cap)
    BY <2>0
  <2>2. n # 0
    BY <2>1 DEF Strides
  <2>3. n \in 1 .. MaxHops /\ n \in Nat \ {0} /\ n \in 1 .. 4
    BY <1>0, <1>1, <1>3, <2>2
  <2>4. w \in Walks(g, a, b, n)
    BY <2>1, <2>3, StepsWalk DEF Strides
  <2>5. ~HiddenByCap(g, w, n, cap)
    <3>1. \A i \in 1 .. n - 1 : ~Over(g, w[i], cap)
      <4>1. \A i \in 1 .. n - 1 : i \in 0 .. n - 1
        BY <2>3
      <4> QED
        BY <2>1, <4>1 DEF Strides
    <3>2. n = 3 => ~Over(g, w[1], cap)
      BY <3>1
    <3>3. n = 4 => ~Over(g, w[1], cap) /\ ~Over(g, w[3], cap)
      BY <3>1
    <3> QED
      BY <3>2, <3>3 DEF HiddenByCap, Capped, Over
  <2>6. Meet(g, a, b, cap, n)
    BY <2>3, <2>4, <2>5, WalksMeet
  <2>7. Meet(g, a, b, cap, MaxHops)
    BY <1>0, <2>3, <2>6, MeetFurther
  <2>8. PICK hops \in Nat : Leads(g, v.path, a, b, hops) /\ hops <= n
    BY <1>2, <2>3, <2>6, <2>7
  <2>9. Len(v.path) = hops + 1
    BY <2>8 DEF Leads
  <2> QED
    BY <1>1, <1>2, <1>3, <2>1, <2>7, <2>8, <2>9
<1>4. ASSUME path.status = "no_path", v.status = "found" PROVE FALSE
  <2>1. PICK hops \in Nat : hops <= MaxHops /\ Leads(g, v.path, a, b, hops)
    BY <1>2, <1>4
  <2>2. MaxHops \in Nat \ {0} /\ hops \in 0 .. MaxHops
    BY <1>0, <2>1
  <2>3. b \in p[hops]
    BY <1>1, <1>4, <2>1, <2>2, PathIsVisited
  <2> QED
    BY <1>1, <1>4, <2>2, <2>3
<1> QED
  BY <1>3, <1>4

----------------------------------------------------------------------------
(* Resolving.                                                               *)

\* One album an artist.
OnePerArtist(albums) ==
  /\ albums \in Seq(Entries)
  /\ \A i, j \in DOMAIN albums : albums[i].artist = albums[j].artist => i = j

\* A candidate resolves to one album, billed to an artist of the corpus, or to none.
LEMMA LookupFinds ==
  ASSUME NEW corpus, Regular(corpus.credits), NEW c
  PROVE  \/ _lookup_candidate(corpus, c) = <<>>
         \/ \E x \in Entries : _lookup_candidate(corpus, c) = <<x>>
<1>1. \A r : BilledOn(corpus, r) \subseteq Artists /\ (BilledOn(corpus, r) # {} => r \in Nat)
  BY DEF BilledOn, billed_artists, ArtistsOf, Scoped, Regular
<1>2. \A ids \in SUBSET Artists : ids # {} => Lowest(ids) \in ids
  <2> SUFFICES ASSUME NEW ids \in SUBSET Artists, ids # {} PROVE Lowest(ids) \in ids
    OBVIOUS
  <2>1. \E m \in ids : \A k \in ids : m <= k
    BY ArtistsAreIds, LeastExists
  <2> QED
    BY <2>1 DEF Lowest
<1> DEFINE hinted == find_release_by_id_hint(corpus, c.hint)
           r == Lowest(hinted)
<1>3. CASE hinted # {}
  <2> DEFINE x == [album |-> r, artist |-> _release_with_artist(corpus, r, c.artist)]
  <2>1. \E q : hinted = {q} /\ BilledOn(corpus, q) # {}
    <3>1. hinted \subseteq {PressingOf(corpus, c.hint)}
      BY DEF find_release_by_id_hint
    <3>2. \A q \in hinted : BilledOn(corpus, q) # {}
      BY DEF find_release_by_id_hint
    <3> QED
      BY <1>3, <3>1, <3>2
  <2>2. PICK q : hinted = {q} /\ BilledOn(corpus, q) # {}
    BY <2>1
  <2>3. q \in Nat
    BY <1>1, <2>2
  <2> HIDE DEF hinted
  <2>4. r = q
    BY <2>2, <2>3 DEF Lowest
  <2>5. _release_with_artist(corpus, r, c.artist) \in Artists
    BY <1>1, <1>2, <2>2, <2>4 DEF _release_with_artist
  <2>6. x \in Entries
    BY <2>3, <2>4, <2>5 DEF Entries
  <2>7. _lookup_candidate(corpus, c) = <<x>>
    BY <1>3 DEF _lookup_candidate, hinted
  <2> QED
    BY <2>6, <2>7
<1>4. CASE hinted = {} /\ c.artist \in BilledOn(corpus, c.title)
  <2> DEFINE x == [album |-> c.title, artist |-> c.artist]
  <2>1. x \in Entries
    BY <1>1, <1>4 DEF Entries
  <2>2. _lookup_candidate(corpus, c) = <<x>>
    BY <1>4 DEF _lookup_candidate
  <2> QED
    BY <2>1, <2>2
<1>5. CASE hinted = {} /\ c.artist \notin BilledOn(corpus, c.title)
  BY <1>5 DEF _lookup_candidate
<1> QED
  BY <1>3, <1>4, <1>5

\* Keeping what is found keeps one album an artist.
LEMMA KeepingOne ==
  ASSUME NEW kept, OnePerArtist(kept), NEW found, found = <<>> \/ \E x \in Entries : found = <<x>>
  PROVE  OnePerArtist(Keeping(kept, found))
<1>1. CASE found = <<>> \/ \E i \in DOMAIN kept : kept[i].artist = found[1].artist
  BY <1>1 DEF Keeping
<1>2. CASE ~(found = <<>> \/ \E i \in DOMAIN kept : kept[i].artist = found[1].artist)
  <2>1. PICK x \in Entries : found = <<x>>
    BY <1>2
  <2>2. kept \in Seq(Entries) /\ \A i, j \in DOMAIN kept : kept[i].artist = kept[j].artist => i = j
    BY DEF OnePerArtist
  <2>3. \A i \in DOMAIN kept : kept[i].artist # x.artist
    BY <1>2, <2>1
  <2> DEFINE all == kept \o <<x>>
             n == Len(kept)
  <2>4. n \in Nat /\ DOMAIN kept = 1 .. n
    BY <2>2
  <2>5. /\ all \in Seq(Entries) /\ Len(all) = n + 1
        /\ \A i \in 1 .. n + 1 : all[i] = IF i <= n THEN kept[i] ELSE x
    <3>1. <<x>> \in Seq(Entries) /\ Len(<<x>>) = 1
      OBVIOUS
    <3>2. /\ all \in Seq(Entries) /\ Len(all) = n + 1
          /\ \A i \in 1 .. n + 1 : all[i] = IF i <= n THEN kept[i] ELSE <<x>>[i - n]
      BY <2>2, <3>1, ConcatProperties
    <3>3. \A i \in 1 .. n + 1 : ~(i <= n) => i - n = 1
      BY <2>4
    <3> HIDE DEF all, n
    <3> QED
      BY <3>2, <3>3
  <2> HIDE DEF all, n
  <2>6. \A i, j \in 1 .. n + 1 : all[i].artist = all[j].artist => i = j
    <3> SUFFICES ASSUME NEW i \in 1 .. n + 1, NEW j \in 1 .. n + 1, all[i].artist = all[j].artist
                 PROVE  i = j
      OBVIOUS
    <3>1. CASE i \in 1 .. n /\ j \in 1 .. n
      BY <2>2, <2>4, <2>5, <3>1
    <3>2. CASE i \in 1 .. n /\ j = n + 1
      BY <2>3, <2>4, <2>5, <3>2
    <3>3. CASE i = n + 1 /\ j \in 1 .. n
      BY <2>3, <2>4, <2>5, <3>3
    <3> QED
      BY <2>4, <3>1, <3>2, <3>3
  <2>7. Keeping(kept, found) = all
    BY <1>2, <2>1 DEF Keeping, all
  <2>8. DOMAIN all = 1 .. n + 1
    BY <2>5
  <2> QED
    BY <2>5, <2>6, <2>7, <2>8 DEF OnePerArtist
<1> QED
  BY <1>1, <1>2

\* What is kept after so many candidates.
Keeps(corpus, candidates, n, p) ==
  p = [i \in 0 .. n |->
         IF i = 0 THEN <<>> ELSE Keeping(p[i - 1], _lookup_candidate(corpus, candidates[i]))]

\* One candidate after the other.
LEMMA KeepsOn ==
  ASSUME NEW corpus, NEW candidates, NEW n \in Nat, NEW p, Keeps(corpus, candidates, n, p),
         NEW i \in 0 .. n
  PROVE  p[i] = IF i = 0 THEN <<>>
                ELSE Keeping(p[i - 1], _lookup_candidate(corpus, candidates[i]))
<1>1. p = [j \in 0 .. n |->
             IF j = 0 THEN <<>> ELSE Keeping(p[j - 1], _lookup_candidate(corpus, candidates[j]))]
  BY DEF Keeps
<1> QED
  BY <1>1, Zenon

\* A candidate after the first is kept or not, over what was kept before it.
LEMMA KeepsNext ==
  ASSUME NEW corpus, NEW candidates, NEW n \in Nat, NEW p, Keeps(corpus, candidates, n, p),
         NEW i \in 0 .. n, i # 0
  PROVE  p[i] = Keeping(p[i - 1], _lookup_candidate(corpus, candidates[i]))
<1>1. p[i] = IF i = 0 THEN <<>>
             ELSE Keeping(p[i - 1], _lookup_candidate(corpus, candidates[i]))
  BY KeepsOn
<1> QED
  BY <1>1

\* Nothing is kept at first.
LEMMA KeepsFrom ==
  ASSUME NEW corpus, NEW candidates, NEW n \in Nat, NEW p, Keeps(corpus, candidates, n, p)
  PROVE  p[0] = <<>>
<1>1. 0 \in 0 .. n
  OBVIOUS
<1> QED
  BY <1>1, KeepsOn

\* The resolution is defined: its recursion has a solution.
LEMMA KeepsDefined ==
  ASSUME NEW corpus, NEW candidates, NEW N \in Nat
  PROVE  \E p : Keeps(corpus, candidates, N, p)
<1> DEFINE Solved == {k \in 0 .. N : \E p : Keeps(corpus, candidates, k, p)}
<1>1. 0 \in Solved
  <2> DEFINE p == [i \in 0 .. 0 |-> <<>>]
  <2>1. p = [i \in 0 .. 0 |->
               IF i = 0 THEN <<>>
               ELSE Keeping(p[i - 1], _lookup_candidate(corpus, candidates[i]))]
    OBVIOUS
  <2> HIDE DEF p
  <2> QED
    BY <2>1 DEF Keeps
<1>2. ASSUME NEW k \in 0 .. N, k \in Solved, k < N
      PROVE  k + 1 \in Solved
  <2>1. PICK p : Keeps(corpus, candidates, k, p)
    BY <1>2
  <2> DEFINE q == [i \in 0 .. k + 1 |->
                    IF i = k + 1
                    THEN Keeping(p[k], _lookup_candidate(corpus, candidates[k + 1])) ELSE p[i]]
  <2>0. k \in Nat
    BY <1>2
  <2>2. /\ p[0] = <<>>
        /\ \A i \in 1 .. k : p[i] = Keeping(p[i - 1], _lookup_candidate(corpus, candidates[i]))
    <3>1. p[0] = <<>>
      BY <2>1, <2>0, KeepsFrom
    <3>2. ASSUME NEW i \in 1 .. k
          PROVE  p[i] = Keeping(p[i - 1], _lookup_candidate(corpus, candidates[i]))
      <4>1. i \in 0 .. k /\ i # 0
        BY <2>0
      <4> QED
        BY <2>1, <2>0, <4>1, KeepsNext
    <3> QED
      BY <3>1, <3>2
  <2>3. /\ q[k + 1] = Keeping(p[k], _lookup_candidate(corpus, candidates[k + 1]))
        /\ \A i \in 0 .. k : q[i] = p[i]
    OBVIOUS
  <2>4. ASSUME NEW i \in 0 .. k + 1
        PROVE  q[i] = IF i = 0 THEN <<>>
                     ELSE Keeping(q[i - 1], _lookup_candidate(corpus, candidates[i]))
    <3> HIDE DEF q
    <3>1. CASE i = k + 1
      BY <2>3, <3>1
    <3>2. CASE i = 0
      BY <2>2, <2>3, <3>2
    <3>3. CASE i # k + 1 /\ i # 0
      <4>1. i \in 1 .. k /\ i \in 0 .. k /\ i - 1 \in 0 .. k
        BY <3>3
      <4> QED
        BY <2>2, <2>3, <3>3, <4>1
    <3> QED
      BY <3>1, <3>2, <3>3
  <2>5. Keeps(corpus, candidates, k + 1, q)
    BY <2>4 DEF Keeps
  <2> HIDE DEF q
  <2> QED
    BY <1>2, <2>5
<1> HIDE DEF Solved
<1>3. 0 .. N \subseteq Solved
  BY <1>1, <1>2, CountingUp
<1> QED
  BY <1>3 DEF Solved

\* A resolution has one album an artist.
LEMMA ResolvesOne ==
  ASSUME NEW corpus, Regular(corpus.credits), NEW candidates, Len(candidates) \in Nat
  PROVE  OnePerArtist(resolve_candidates(corpus, candidates))
<1> DEFINE N == Len(candidates)
           p == CHOOSE q : Keeps(corpus, candidates, N, q)
<1>1. Keeps(corpus, candidates, N, p)
  BY KeepsDefined
<1>2. resolve_candidates(corpus, candidates) = p[N]
  BY DEF resolve_candidates, Keeps
<1> HIDE DEF p, N
<1>3. N \in Nat
  BY DEF N
<1>4. p[0] = <<>>
  BY <1>1, <1>3, KeepsFrom
<1>8. ASSUME NEW i \in 1 .. N
      PROVE  p[i] = Keeping(p[i - 1], _lookup_candidate(corpus, candidates[i]))
  <2>1. i \in 0 .. N /\ i # 0
    BY <1>3
  <2> QED
    BY <1>1, <1>3, <2>1, KeepsNext
<1> DEFINE Done == {i \in 0 .. N : OnePerArtist(p[i])}
<1>5. 0 \in Done
  <2>1. <<>> \in Seq(Entries) /\ DOMAIN <<>> = {}
    OBVIOUS
  <2>2. OnePerArtist(<<>>)
    BY <2>1 DEF OnePerArtist
  <2> QED
    BY <1>3, <1>4, <2>2
<1>6. ASSUME NEW i \in 0 .. N, i \in Done, i < N
      PROVE  i + 1 \in Done
  <2>1. i + 1 \in 1 .. N /\ (i + 1) - 1 = i /\ i + 1 \in 0 .. N
    BY <1>3, <1>6
  <2>2. p[i + 1] = Keeping(p[i], _lookup_candidate(corpus, candidates[i + 1]))
    BY <1>8, <2>1
  <2>3. OnePerArtist(p[i + 1])
    BY <1>6, <2>2, LookupFinds, KeepingOne
  <2> QED
    BY <2>1, <2>3
<1>7. N \in Done
  <2> HIDE DEF Done
  <2>1. 0 .. N \subseteq Done
    BY <1>3, <1>5, <1>6, CountingUp
  <2> QED
    BY <1>3, <2>1
<1> QED
  BY <1>2, <1>7

----------------------------------------------------------------------------
(* The pairs to score.                                                      *)

\* The albums are ranked: every place in the order is some album's.
LEMMA EveryRank ==
  ASSUME NEW albums \in Seq(Entries)
  PROVE  \A k \in DOMAIN albums : \E i \in DOMAIN albums : Cardinality(Before(albums, i)) = k - 1
<1> DEFINE n == Len(albums)
           S == 1 .. n
           B(i) == Before(albums, i)
           Less(i, j) == \/ albums[i].album < albums[j].album
                         \/ albums[i].album = albums[j].album /\ i < j
           rank == [i \in S |-> Cardinality(B(i)) + 1]
<1>1. n \in Nat /\ DOMAIN albums = S /\ \A i \in S : albums[i].album \in Nat
  <2>1. n \in Nat /\ DOMAIN albums = S
    OBVIOUS
  <2>2. \A i \in S : albums[i] \in Entries
    BY ElementOfSeq
  <2> QED
    BY <2>1, <2>2 DEF Entries
<1>2. IsFiniteSet(S) /\ Cardinality(S) = n
  BY <1>1, FS_Interval
<1>3. \A i, j \in S : i \in B(j) <=> Less(i, j)
  BY <1>1 DEF Before
<1>4. \A i \in S : B(i) \subseteq S
  BY <1>1 DEF Before
<1>5. /\ \A i \in S : ~Less(i, i)
      /\ \A i, j \in S : Less(i, j) \/ Less(j, i) \/ i = j
      /\ \A i, j, k \in S : Less(i, j) /\ Less(j, k) => Less(i, k)
  <2>1. \A i \in S : ~Less(i, i)
    BY <1>1
  <2>2. \A i, j \in S : Less(i, j) \/ Less(j, i) \/ i = j
    BY <1>1
  <2>3. \A i, j, k \in S : Less(i, j) /\ Less(j, k) => Less(i, k)
    BY <1>1
  <2> QED
    BY <2>1, <2>2, <2>3
<1> HIDE DEF n, S, B, Less
<1>6. ASSUME NEW i \in S
      PROVE  IsFiniteSet(B(i)) /\ Cardinality(B(i)) \in 0 .. n - 1
  <2>1. IsFiniteSet(S \ {i}) /\ Cardinality(S \ {i}) = n - 1
    BY <1>2, FS_RemoveElement
  <2>2. B(i) \in SUBSET (S \ {i})
    BY <1>3, <1>4, <1>5
  <2>3. IsFiniteSet(B(i)) /\ Cardinality(B(i)) <= n - 1
    BY <2>1, <2>2, FS_Subset
  <2>4. Cardinality(B(i)) \in Nat
    BY <2>3, FS_CardinalityType
  <2> QED
    BY <1>1, <2>3, <2>4
<1>7. ASSUME NEW i \in S, NEW j \in S, Less(i, j)
      PROVE  rank[i] < rank[j]
  <2>1. B(i) \cup {i} \in SUBSET B(j) /\ i \notin B(i)
    BY <1>3, <1>4, <1>5, <1>7
  <2>2. Cardinality(B(i) \cup {i}) = Cardinality(B(i)) + 1
    BY <1>6, <2>1, FS_AddElement
  <2>3. Cardinality(B(i) \cup {i}) <= Cardinality(B(j))
    BY <1>6, <2>1, FS_Subset
  <2> QED
    BY <1>6, <2>2, <2>3
<1>8. rank \in [S -> 1 .. n]
  BY <1>1, <1>6
<1>9. \A i, j \in S : rank[i] = rank[j] => i = j
  <2>1. \A i \in S : rank[i] \in Nat
    BY <1>1, <1>8
  <2> HIDE DEF rank
  <2> QED
    BY <1>5, <1>7, <2>1
<1>10. rank \in Surjection(S, 1 .. n)
  <2>1. rank \in Injection(S, 1 .. n)
    BY <1>8, <1>9 DEF Injection, IsInjective
  <2>2. IsFiniteSet(1 .. n) /\ Cardinality(1 .. n) = n
    BY <1>1, FS_Interval
  <2> QED
    BY <1>2, <2>1, <2>2, FS_Injection
<1>11. ASSUME NEW k \in S
       PROVE  \E i \in S : Cardinality(B(i)) = k - 1
  <2>1. PICK i \in S : rank[i] = k
    BY <1>10 DEF Surjection, S
  <2>2. Cardinality(B(i)) + 1 = k /\ Cardinality(B(i)) \in Nat
    BY <1>1, <1>6, <2>1
  <2> QED
    BY <2>2
<1> QED
  BY <1>1, <1>11 DEF B

\* Put in order, the albums are as many and have one artist each.
LEMMA OrderedOne ==
  ASSUME NEW albums, OnePerArtist(albums)
  PROVE  LET order == Ordered(albums)
         IN  /\ DOMAIN order = 1 .. Len(albums)
             /\ \A k \in 1 .. Len(albums) : order[k] \in Entries
             /\ \A k, l \in 1 .. Len(albums) : order[k].artist = order[l].artist => k = l
<1> DEFINE S == 1 .. Len(albums)
           at(k) == CHOOSE i \in S : Cardinality(Before(albums, i)) = k - 1
<1>1. albums \in Seq(Entries) /\ DOMAIN albums = S /\ Len(albums) \in Nat
  BY DEF OnePerArtist
<1>2. \A k \in S : at(k) \in S /\ Cardinality(Before(albums, at(k))) = k - 1
  BY <1>1, EveryRank
<1>3. \A k \in S : Ordered(albums)[k] = albums[at(k)]
  BY <1>1 DEF Ordered
<1>4. DOMAIN Ordered(albums) = S
  BY <1>1 DEF Ordered
<1>5. \A k \in S : k \in Int
  OBVIOUS
<1> HIDE DEF S, at
<1>6. ASSUME NEW k \in S, NEW l \in S, Ordered(albums)[k].artist = Ordered(albums)[l].artist
      PROVE  k = l
  <2>1. at(k) = at(l)
    BY <1>1, <1>2, <1>3, <1>6 DEF OnePerArtist
  <2>2. k - 1 = l - 1
    BY <1>2, <2>1
  <2> QED
    BY <1>5, <2>2
<1>7. \A k \in S : Ordered(albums)[k] \in Entries
  <2>1. \A i \in S : albums[i] \in Entries
    BY <1>1, ElementOfSeq
  <2> QED
    BY <1>2, <1>3, <2>1
<1> QED
  BY <1>4, <1>6, <1>7 DEF S

\* The pairs of the first so many albums with those after them.
Rows(n, m, p) ==
  p = [i \in 0 .. m |-> IF i = 0 THEN <<>> ELSE p[i - 1] \o [j \in 1 .. n - i |-> <<i, i + j>>]]

\* Every row follows those before it.
LEMMA RowsOn ==
  ASSUME NEW n, NEW m \in Nat, NEW p, Rows(n, m, p), NEW i \in 0 .. m
  PROVE  p[i] = IF i = 0 THEN <<>> ELSE p[i - 1] \o [j \in 1 .. n - i |-> <<i, i + j>>]
<1>1. p = [k \in 0 .. m |->
             IF k = 0 THEN <<>> ELSE p[k - 1] \o [j \in 1 .. n - k |-> <<k, k + j>>]]
  BY DEF Rows
<1> QED
  BY <1>1, Zenon

\* At first there is none.
LEMMA RowsFrom ==
  ASSUME NEW n, NEW m \in Nat, NEW p, Rows(n, m, p)
  PROVE  p[0] = <<>>
<1>1. 0 \in 0 .. m
  OBVIOUS
<1> QED
  BY <1>1, RowsOn

\* The pairs are defined: their recursion has a solution.
LEMMA RowsDefined ==
  ASSUME NEW n, NEW N \in Nat
  PROVE  \E p : Rows(n, N, p)
<1> DEFINE Row(i) == [j \in 1 .. n - i |-> <<i, i + j>>]
           Solved == {k \in 0 .. N : \E p : Rows(n, k, p)}
<1>1. 0 \in Solved
  <2> DEFINE p == [i \in 0 .. 0 |-> <<>>]
  <2>1. p = [i \in 0 .. 0 |-> IF i = 0 THEN <<>> ELSE p[i - 1] \o Row(i)]
    OBVIOUS
  <2> HIDE DEF p
  <2> QED
    BY <2>1 DEF Rows
<1>2. ASSUME NEW k \in 0 .. N, k \in Solved, k < N
      PROVE  k + 1 \in Solved
  <2>0. k \in Nat
    BY <1>2
  <2>1. PICK p : Rows(n, k, p)
    BY <1>2
  <2>2. \A i \in 1 .. k : p[i] = p[i - 1] \o Row(i)
    <3> SUFFICES ASSUME NEW i \in 1 .. k PROVE p[i] = p[i - 1] \o Row(i)
      OBVIOUS
    <3>1. i \in 0 .. k /\ i # 0
      BY <2>0
    <3>2. p[i] = IF i = 0 THEN <<>> ELSE p[i - 1] \o [j \in 1 .. n - i |-> <<i, i + j>>]
      BY <2>1, <3>1, Zenon DEF Rows
    <3> QED
      BY <3>1, <3>2
  <2>3. p[0] = <<>>
    BY <2>0, <2>1, RowsFrom
  <2> HIDE DEF Row
  <2> DEFINE q == [i \in 0 .. k + 1 |-> IF i = k + 1 THEN p[k] \o Row(k + 1) ELSE p[i]]
  <2>4. q[k + 1] = p[k] \o Row(k + 1) /\ \A i \in 0 .. k : q[i] = p[i]
    OBVIOUS
  <2>5. ASSUME NEW i \in 0 .. k + 1
        PROVE  q[i] = IF i = 0 THEN <<>> ELSE q[i - 1] \o Row(i)
    <3> HIDE DEF q
    <3>1. CASE i = k + 1
      <4>1. i # 0 /\ i - 1 = k /\ k \in 0 .. k
        BY <2>0, <3>1
      <4> QED
        BY <2>4, <3>1, <4>1
    <3>2. CASE i = 0
      BY <2>3, <2>4, <3>2
    <3>3. CASE i # k + 1 /\ i # 0
      <4>1. i \in 1 .. k /\ i \in 0 .. k /\ i - 1 \in 0 .. k
        BY <3>3
      <4> QED
        BY <2>2, <2>4, <3>3, <4>1
    <3> QED
      BY <3>1, <3>2, <3>3
  <2>6. Rows(n, k + 1, q)
    BY <2>5 DEF Rows, Row
  <2> HIDE DEF q
  <2> QED
    BY <1>2, <2>6
<1> HIDE DEF Solved
<1>3. 0 .. N \subseteq Solved
  BY <1>1, <1>2, CountingUp
<1> QED
  BY <1>3 DEF Solved

\* Every pair is of two places, the first before the second.
LEMMA PairsOfPlaces ==
  ASSUME NEW n \in Nat
  PROVE  PairsUpTo(n) \in Seq({x \in (1 .. n) \X (1 .. n) : x[1] < x[2]})
<1> DEFINE P == {x \in (1 .. n) \X (1 .. n) : x[1] < x[2]}
           Row(i) == [j \in 1 .. n - i |-> <<i, i + j>>]
           p == CHOOSE q : Rows(n, n, q)
<1>1. Rows(n, n, p)
  BY RowsDefined
<1>2. PairsUpTo(n) = p[n]
  BY DEF PairsUpTo, Rows
<1> HIDE DEF p
<1>3. p[0] = <<>>
  BY <1>1, RowsFrom
<1>4. ASSUME NEW i \in 1 .. n PROVE p[i] = p[i - 1] \o Row(i)
  <2>1. i \in 0 .. n /\ i # 0
    OBVIOUS
  <2> QED
    BY <1>1, <2>1, RowsOn
<1>5. ASSUME NEW i \in 1 .. n PROVE Row(i) \in Seq(P)
  <2>1. \A j \in 1 .. n - i : <<i, i + j>> \in P
    OBVIOUS
  <2>2. n - i \in Nat
    OBVIOUS
  <2> HIDE DEF P
  <2> QED
    BY <2>1, <2>2
<1> HIDE DEF Row, P
<1> DEFINE Done == {i \in 0 .. n : p[i] \in Seq(P)}
<1>6. 0 \in Done
  <2>1. <<>> \in Seq(P) /\ 0 \in 0 .. n
    OBVIOUS
  <2> QED
    BY <1>3, <2>1
<1>7. ASSUME NEW i \in 0 .. n, i \in Done, i < n
      PROVE  i + 1 \in Done
  <2>1. i + 1 \in 1 .. n /\ (i + 1) - 1 = i /\ i + 1 \in 0 .. n
    BY <1>7
  <2>2. p[i + 1] = p[i] \o Row(i + 1) /\ Row(i + 1) \in Seq(P)
    BY <1>4, <1>5, <2>1
  <2>3. p[i + 1] \in Seq(P)
    BY <1>7, <2>2, ConcatProperties
  <2> QED
    BY <2>1, <2>3
<1>8. n \in Done
  <2> HIDE DEF Done
  <2>1. 0 .. n \subseteq Done
    BY <1>6, <1>7, CountingUp
  <2> QED
    BY <2>1
<1> QED
  BY <1>2, <1>8 DEF P

\* A scoring has, for some pairs of albums of two artists, their verdict.
LEMMA ScoredPairs ==
  ASSUME NEW corpus, NEW albums, OnePerArtist(albums), NEW cap, NEW failed
  PROVE  LET pairs == score_pairs(corpus, albums, cap, failed)
         IN  \E m \in Nat :
               /\ DOMAIN pairs = 1 .. m
               /\ \A k \in 1 .. m : \E x, y \in Entries :
                    x.artist # y.artist /\ pairs[k] = _pair_record(corpus, x, y, cap, failed)
<1> DEFINE n == Len(albums)
           order == Ordered(albums)
           places == PairsUpTo(n)
           pairs == score_pairs(corpus, albums, cap, failed)
<1>1. n \in Nat
  BY DEF OnePerArtist
<1>2. /\ \A k \in 1 .. n : order[k] \in Entries
      /\ \A k, l \in 1 .. n : order[k].artist = order[l].artist => k = l
  BY OrderedOne
<1> HIDE DEF n
<1>3. places \in Seq({x \in (1 .. n) \X (1 .. n) : x[1] < x[2]})
  BY <1>1, PairsOfPlaces
<1>4. /\ DOMAIN pairs = DOMAIN places
      /\ \A k \in DOMAIN places :
           pairs[k] = _pair_record(corpus, order[places[k][1]], order[places[k][2]], cap, failed)
  BY DEF score_pairs, n
<1> HIDE DEF order, places, pairs
<1>5. /\ Len(places) \in Nat /\ DOMAIN places = 1 .. Len(places)
      /\ \A k \in 1 .. Len(places) :
           /\ places[k][1] \in 1 .. n /\ places[k][2] \in 1 .. n
           /\ places[k][1] < places[k][2]
  <2>1. Len(places) \in Nat /\ DOMAIN places = 1 .. Len(places)
    BY <1>3
  <2>2. \A k \in 1 .. Len(places) :
          places[k] \in {x \in (1 .. n) \X (1 .. n) : x[1] < x[2]}
    BY <1>3, ElementOfSeq
  <2> QED
    BY <2>1, <2>2
<1>6. ASSUME NEW k \in 1 .. Len(places)
      PROVE  \E x, y \in Entries :
               x.artist # y.artist /\ pairs[k] = _pair_record(corpus, x, y, cap, failed)
  <2>1. order[places[k][1]] \in Entries /\ order[places[k][2]] \in Entries
    BY <1>2, <1>5
  <2>2. places[k][1] # places[k][2]
    BY <1>1, <1>5
  <2>3. order[places[k][1]].artist # order[places[k][2]].artist
    BY <1>2, <1>5, <2>2
  <2> QED
    BY <1>4, <1>5, <2>1, <2>3
<1> QED
  BY <1>4, <1>5, <1>6 DEF pairs

----------------------------------------------------------------------------
(* The corpora.                                                             *)

\* Every dump has credits of the kind the rules expect.
LEMMA DumpsRegular ==
  ASSUME NEW d \in AllDumps
  PROVE  Regular(Credits[d])
BY DumpsFit DEF Regular

\* A corpus is the graph of the one-hop credits of a dump.
LEMMA CorporaAre ==
  ASSUME NEW d \in AllDumps, NEW seed \in Seeds
  PROVE  /\ Corpora[d][seed] = CreditGraph(OneHopCredits(Credits[d], seed))
         /\ Whole[d] = CreditGraph(Credits[d])
         /\ Frontiers[d][seed] = frontier_artists(Credits[d], seed)
<1>1. Corpora[d][seed] = CreditGraph(OneHopCredits(Credits[d], seed))
  BY DEF Corpora
<1>2. Whole[d] = CreditGraph(Credits[d])
  BY DEF Whole
<1>3. Frontiers[d][seed] = frontier_artists(Credits[d], seed)
  BY DEF Frontiers
<1> QED
  BY <1>1, <1>2, <1>3

\* Its edges join artists, and are edges of the dump; an edge of the dump at an artist
\* of the frontier is one of the corpus.
LEMMA CorporaLink ==
  ASSUME NEW d \in AllDumps, NEW seed \in Seeds
  PROVE  /\ Linking(Corpora[d][seed]) /\ Linking(Whole[d])
         /\ Regular(Corpora[d][seed].credits)
         /\ \A a, b : b \in neighbors(Corpora[d][seed], a) => b \in neighbors(Whole[d], a)
         /\ \A a, b : {a, b} \cap Frontiers[d][seed] # {} =>
              (b \in neighbors(Whole[d], a) => b \in neighbors(Corpora[d][seed], a))
<1> DEFINE corpus == CreditGraph(OneHopCredits(Credits[d], seed))
           whole == CreditGraph(Credits[d])
<1>1. Regular(Credits[d]) /\ Regular(OneHopCredits(Credits[d], seed))
  BY DumpsRegular, CorpusRegular
<1>2. Linking(corpus) /\ Linking(whole)
  BY <1>1, GraphsLink
<1>3. Regular(corpus.credits)
  BY <1>1 DEF CreditGraph
<1>4. \A a, b : b \in neighbors(corpus, a) => b \in neighbors(whole, a)
  BY <1>1, CorpusNeighbors
<1>5. \A a, b : {a, b} \cap frontier_artists(Credits[d], seed) # {} =>
        (b \in neighbors(whole, a) => b \in neighbors(corpus, a))
  BY <1>1, CorpusNeighbors
<1> HIDE DEF corpus, whole
<1>6. /\ Corpora[d][seed] = corpus /\ Whole[d] = whole
      /\ Frontiers[d][seed] = frontier_artists(Credits[d], seed)
  BY CorporaAre DEF corpus, whole
<1> QED
  BY <1>2, <1>3, <1>4, <1>5, <1>6

----------------------------------------------------------------------------
(* The invariant of the files.                                              *)

DatasetsOK ==
  /\ dump \in [Snapshots -> AllDumps]
  /\ seeds \in [Snapshots -> Seeds \cup {NoCorpus}]

\* What any resolution holds, the one in place or the copy of a run: what some page's
\* candidates resolved to on some corpus.
ResolvedOK(file) ==
  Readable(file) => /\ file.snapshot \in Snapshots /\ OnePerArtist(file.albums)
                    /\ AlbumByArtist(file.albums) \in Catalogued

\* Every pair of a scoring has the verdict of a corpus its snapshot had.
Judged(conn, pair) ==
  /\ pair.artists[1] \in Artists /\ pair.artists[2] \in Artists
  /\ pair.artists[1] # pair.artists[2]
  /\ \E failed \in SUBSET Artists :
       pair.verdict = Verdict(Corpora[dump[conn.snapshot]][conn.seed],
                              pair.artists[1], pair.artists[2], conn.cap, failed)

ScoredOK(conn) ==
  Readable(conn) =>
    /\ conn.snapshot \in Snapshots /\ conn.seed \in Seeds
    /\ \E m \in Nat : /\ DOMAIN conn.pairs = 1 .. m
                      /\ \A k \in 1 .. m : Judged(conn, conn.pairs[k])

FilesOK ==
  /\ Readable(extracted) => \E page \in Pages : extracted.candidates = page.candidates
  /\ ResolvedOK(resolved)
  /\ dispatched # Absent => ResolvedOK(dispatched.input)
  /\ ScoredOK(connectivity)

IInv == DatasetsOK /\ FilesOK /\ commands \in 0 .. MaxCommands

\* The corpus in place is one of a seed.
LEMMA InPlaceCorpus ==
  ASSUME DatasetsOK, NEW s \in Snapshots, InPlace(s)
  PROVE  dump[s] \in AllDumps /\ seeds[s] \in Seeds /\ Corpus(s) = Corpora[dump[s]][seeds[s]]
BY DEF DatasetsOK, InPlace, Corpus

\* Whatever is scored is judged by the corpus in place.
LEMMA ScoringJudges ==
  ASSUME DatasetsOK, NEW res, ResolvedOK(res), NEW s \in Snapshots, Scorable(res, s), NEW cap,
         NEW failed \in Failures(res)
  PROVE  ScoredOK(build_connectivity_cohort(res, cap, failed))
<1> DEFINE conn == build_connectivity_cohort(res, cap, failed)
           corpus == Corpora[dump[s]][seeds[s]]
<1>1. Readable(res) /\ res.snapshot = s /\ InPlace(s) /\ OnePerArtist(res.albums)
  BY DEF Scorable, ResolvedOK
<1>2. seeds[s] \in Seeds /\ Corpus(s) = corpus
  BY <1>1, InPlaceCorpus
<1>3. failed \in SUBSET Artists
  <2>1. res.albums \in Seq(Entries)
    BY <1>1 DEF OnePerArtist
  <2>2. \A i \in DOMAIN res.albums : res.albums[i] \in Entries
    BY <2>1, ElementOfSeq
  <2>3. \A x \in Entries : x.artist \in Artists
    BY DEF Entries
  <2> QED
    BY <2>2, <2>3 DEF Failures, SeedsOf
<1>4. /\ conn.snapshot = s /\ conn.seed = seeds[s] /\ conn.cap = cap
      /\ conn.pairs = score_pairs(corpus, res.albums, cap, failed)
  BY <1>1, <1>2 DEF build_connectivity_cohort
<1> HIDE DEF conn, corpus
<1>5. PICK m \in Nat :
        /\ DOMAIN conn.pairs = 1 .. m
        /\ \A k \in 1 .. m : \E x, y \in Entries :
             x.artist # y.artist /\ conn.pairs[k] = _pair_record(corpus, x, y, cap, failed)
  BY <1>1, <1>4, ScoredPairs
<1>6. ASSUME NEW k \in 1 .. m
      PROVE  Judged(conn, conn.pairs[k])
  <2>1. PICK x \in Entries, y \in Entries :
          x.artist # y.artist /\ conn.pairs[k] = _pair_record(corpus, x, y, cap, failed)
    BY <1>5
  <2>2. /\ conn.pairs[k].artists[1] = x.artist /\ conn.pairs[k].artists[2] = y.artist
        /\ conn.pairs[k].verdict = Verdict(corpus, x.artist, y.artist, cap, failed)
    BY <2>1 DEF _pair_record
  <2>3. x.artist \in Artists /\ y.artist \in Artists
    BY DEF Entries
  <2> QED
    BY <1>3, <1>4, <2>1, <2>2, <2>3 DEF Judged, corpus
<1> QED
  BY <1>2, <1>4, <1>5, <1>6 DEF ScoredOK, conn

\* What Init and each command do to the files: the invariant starts true.
LEMMA InitIInv == Init => IInv
<1> SUFFICES ASSUME Init PROVE IInv
  OBVIOUS
<1>1. MaxCommands \in Nat
  BY PipelineFits
<1>2. DatasetsOK
  BY DEF Init, DatasetsOK
<1>3. FilesOK
  BY DEF Init, FilesOK, ResolvedOK, ScoredOK, Readable, Absent
<1> QED
  BY <1>1, <1>2, <1>3 DEF Init, IInv

\* A command counts within its bound.
LEMMA CommandCounts ==
  ASSUME commands \in 0 .. MaxCommands, Command
  PROVE  commands' \in 0 .. MaxCommands
BY PipelineFits DEF Command

\* The datasets keep their shape when a corpus is made anew.
LEMMA ExpandIInv ==
  ASSUME IInv, expand_one_hop
  PROVE  IInv'
<1>1. commands' \in 0 .. MaxCommands
  BY CommandCounts DEF IInv, expand_one_hop
<1>2. UNCHANGED <<dump, files>>
  BY DEF expand_one_hop
<1>0. PICK s \in Snapshots : \E seed \in Expansions[dump[s]] :
        seeds' \in {[seeds EXCEPT ![s] = seed], [seeds EXCEPT ![s] = NoCorpus]}
  BY DEF expand_one_hop
<1>3. PICK seed \in Expansions[dump[s]] :
        seeds' \in {[seeds EXCEPT ![s] = seed], [seeds EXCEPT ![s] = NoCorpus]}
  BY <1>0
<1>4. dump[s] \in AllDumps
  BY DEF IInv, DatasetsOK
<1>5. seed \in Seeds
  BY <1>3, <1>4 DEF Expansions
<1>6. DatasetsOK'
  BY <1>2, <1>3, <1>5 DEF IInv, DatasetsOK
<1>7. FilesOK'
  BY <1>2 DEF IInv, FilesOK, ResolvedOK, ScoredOK, Judged, files
<1> QED
  BY <1>1, <1>6, <1>7 DEF IInv

\* An import extracts candidates.
LEMMA ImportIInv ==
  ASSUME IInv, import_cohort_source
  PROVE  IInv'
<1>1. commands' \in 0 .. MaxCommands
  BY CommandCounts DEF IInv, import_cohort_source
<1>2. UNCHANGED <<dump, seeds, resolved, connectivity, dispatched>>
  BY DEF import_cohort_source, datasets
<1>3. PICK page \in Pages :
        extracted' = [is |-> "file", url |-> page.url, candidates |-> page.candidates]
  BY DEF import_cohort_source
<1>4. \E p \in Pages : extracted'.candidates = p.candidates
  BY <1>3
<1> QED
  BY <1>1, <1>2, <1>4 DEF IInv, DatasetsOK, FilesOK, ResolvedOK, ScoredOK, Judged

\* A resolution is one of a corpus in place.
LEMMA ResolveIInv ==
  ASSUME IInv, resolve_cohort
  PROVE  IInv'
<1>1. commands' \in 0 .. MaxCommands
  BY CommandCounts DEF IInv, resolve_cohort
<1>2. UNCHANGED <<dump, seeds, extracted, connectivity, dispatched>> /\ Readable(extracted)
  BY DEF resolve_cohort, datasets
<1>3. PICK s \in Snapshots :
        /\ InPlace(s)
        /\ resolved' \in Written([is |-> "file", url |-> extracted.url, snapshot |-> s,
                                  albums |-> resolve_candidates(Corpus(s), extracted.candidates)])
  BY DEF resolve_cohort
<1>4. Regular(Corpus(s).credits)
  BY <1>3, InPlaceCorpus, CorporaLink DEF IInv
<1>0. PICK page \in Pages : extracted.candidates = page.candidates
  BY <1>2 DEF IInv, FilesOK
<1>5. OnePerArtist(resolve_candidates(Corpus(s), extracted.candidates))
  BY <1>0, <1>4, ResolvesOne, PipelineFits
<1>7. AlbumByArtist(resolve_candidates(Corpus(s), extracted.candidates)) \in Catalogued
  BY <1>0, <1>3, InPlaceCorpus DEF IInv, Catalogued
<1>6. ResolvedOK(resolved)'
  <2>1. CASE resolved' = Torn
    BY <2>1 DEF ResolvedOK, Readable, Torn
  <2>2. CASE resolved' = [is |-> "file", url |-> extracted.url, snapshot |-> s,
                          albums |-> resolve_candidates(Corpus(s), extracted.candidates)]
    <3>1. /\ resolved'.snapshot = s
          /\ resolved'.albums = resolve_candidates(Corpus(s), extracted.candidates)
      BY <2>2
    <3> QED
      BY <1>5, <1>7, <3>1 DEF ResolvedOK
  <2> QED
    BY <1>3, <2>1, <2>2 DEF Written
<1> QED
  BY <1>1, <1>2, <1>6 DEF IInv, DatasetsOK, FilesOK, ResolvedOK, ScoredOK, Judged

\* A scoring is one by the corpus in place.
LEMMA ScoreIInv ==
  ASSUME IInv, score_cohort_to_directory
  PROVE  IInv'
<1>1. commands' \in 0 .. MaxCommands
  BY CommandCounts DEF IInv, score_cohort_to_directory
<1>2. UNCHANGED <<dump, seeds, extracted, resolved, dispatched>>
  BY DEF score_cohort_to_directory, datasets
<1>3. PICK s \in Snapshots, cap \in Caps :
        /\ Scorable(resolved, s)
        /\ \E failed \in Failures(resolved) :
             LET scored == build_connectivity_cohort(resolved, cap, failed)
             IN \/ connectivity' \in Written(scored) /\ UNCHANGED report
                \/ connectivity' = scored /\ report' = FoundPairs(scored)
  BY DEF score_cohort_to_directory
<1>4. PICK failed \in Failures(resolved) :
        \/ connectivity' = Torn
        \/ connectivity' = build_connectivity_cohort(resolved, cap, failed)
  BY <1>3 DEF Written
<1>5. ScoredOK(build_connectivity_cohort(resolved, cap, failed))
  BY <1>3, ScoringJudges DEF IInv, FilesOK
<1>6. ScoredOK(connectivity')
  <2>1. CASE connectivity' = Torn
    BY <2>1 DEF ScoredOK, Readable, Torn
  <2> QED
    BY <1>4, <1>5, <2>1
<1>7. ScoredOK(connectivity)'
  BY <1>2, <1>6 DEF ScoredOK, Judged
<1> QED
  BY <1>1, <1>2, <1>7 DEF IInv, DatasetsOK, FilesOK, ResolvedOK

\* A submission takes a copy of the resolution.
LEMMA SubmitIInv ==
  ASSUME IInv, submit_cohort_score
  PROVE  IInv'
<1>1. commands' \in 0 .. MaxCommands
  BY CommandCounts DEF IInv, submit_cohort_score
<1>2. UNCHANGED <<dump, seeds, extracted, resolved, connectivity>> /\ dispatched'.input = resolved
  BY DEF submit_cohort_score, datasets
<1> QED
  BY <1>1, <1>2 DEF IInv, DatasetsOK, FilesOK, ResolvedOK, ScoredOK, Judged

\* The outputs of a run are a scoring of the copy it took, by the corpus in place.
LEMMA PromoteOutputsIInv ==
  ASSUME IInv, _promote_outputs
  PROVE  IInv'
<1>1. /\ UNCHANGED <<dump, seeds, extracted, resolved, commands>>
      /\ dispatched # Absent /\ dispatched' = Absent
  BY DEF _promote_outputs, datasets
<1>2. ScoredOK(connectivity)'
  <2>1. CASE UNCHANGED connectivity
    BY <1>1, <2>1 DEF IInv, FilesOK, ScoredOK, Judged
  <2>2. CASE /\ Scorable(dispatched.input, dispatched.snapshot)
             /\ \E failed \in Failures(dispatched.input) :
                  connectivity' =
                    build_connectivity_cohort(dispatched.input, dispatched.cap, failed)
    <3>1. PICK failed \in Failures(dispatched.input) :
            connectivity' = build_connectivity_cohort(dispatched.input, dispatched.cap, failed)
      BY <2>2
    <3>2. ResolvedOK(dispatched.input)
      BY <1>1 DEF IInv, FilesOK
    <3>3. dispatched.snapshot \in Snapshots
      BY <2>2, <3>2 DEF Scorable, ResolvedOK
    <3>4. ScoredOK(connectivity')
      BY <2>2, <3>1, <3>2, <3>3, ScoringJudges DEF IInv
    <3> QED
      BY <1>1, <3>4 DEF ScoredOK, Judged
  <2> QED
    BY <2>1, <2>2 DEF _promote_outputs
<1> QED
  BY <1>1, <1>2 DEF IInv, DatasetsOK, FilesOK, ResolvedOK

\* Every step keeps the invariant.
LEMMA NextIInv ==
  ASSUME IInv, [Next]_vars
  PROVE  IInv'
<1>1. CASE expand_one_hop
  BY <1>1, ExpandIInv
<1>2. CASE import_cohort_source
  BY <1>2, ImportIInv
<1>3. CASE resolve_cohort
  BY <1>3, ResolveIInv
<1>4. CASE score_cohort_to_directory
  BY <1>4, ScoreIInv
<1>5. CASE submit_cohort_score
  BY <1>5, SubmitIInv
<1>6. CASE _promote_outputs
  BY <1>6, PromoteOutputsIInv
<1>7. CASE review \/ promote \/ UNCHANGED vars
  <2>1. UNCHANGED <<dump, seeds, extracted, resolved, connectivity, dispatched, commands>>
    BY <1>7 DEF review, promote, vars, datasets, files
  <2> QED
    BY <2>1 DEF IInv, DatasetsOK, FilesOK, ResolvedOK, ScoredOK, Judged
<1> QED
  BY <1>1, <1>2, <1>3, <1>4, <1>5, <1>6, <1>7 DEF Next

\* The files always hold what the commands before them made.
THEOREM Invariance == Spec => []IInv
<1>1. Init => IInv
  BY InitIInv
<1>2. IInv /\ [Next]_vars => IInv'
  BY NextIInv
<1> QED
  BY <1>1, <1>2, PTL DEF Spec

\* The types: whatever is resolved is a sequence of albums of artists, and the
\* commands stay within their bound.
THEOREM TypeCorrect == Spec => []TypeOK
<1>1. IInv => TypeOK
  BY DEF IInv, DatasetsOK, FilesOK, ResolvedOK, OnePerArtist, TypeOK
<1> QED
  BY <1>1, Invariance, PTL

----------------------------------------------------------------------------
(* What a corpus and its verdicts are worth.                                *)

\* A corpus has every connection of its frontier's artists that the dump has, on the
\* same evidence release, whichever dumps and seeds were expanded.
THEOREM FrontiersAreWhole == Spec => []FrontierIsWhole
<1>1. ASSUME IInv PROVE FrontierIsWhole
  <2> SUFFICES ASSUME NEW s \in Snapshots, InPlace(s),
                      NEW e \in DOMAIN Whole[dump[s]].edges,
                      e \cap Frontiers[dump[s]][seeds[s]] # {}
               PROVE  e \in DOMAIN Corpus(s).edges /\ Corpus(s).edges[e] = Whole[dump[s]].edges[e]
    BY DEF FrontierIsWhole
  <2> DEFINE credits == Credits[dump[s]]
             corpus == OneHopCredits(credits, seeds[s])
  <2>1. /\ dump[s] \in AllDumps /\ seeds[s] \in Seeds
        /\ Corpus(s) = Corpora[dump[s]][seeds[s]]
    BY <1>1, InPlaceCorpus DEF IInv
  <2>2. /\ Corpus(s) = CreditGraph(corpus) /\ Whole[dump[s]] = CreditGraph(credits)
        /\ Frontiers[dump[s]][seeds[s]] = frontier_artists(credits, seeds[s])
    BY <2>1, CorporaAre
  <2>3. Regular(credits)
    BY <2>1, DumpsRegular
  <2> HIDE DEF credits, corpus
  <2>4. Corpus(s).edges = credit_edges(corpus) /\ Whole[dump[s]].edges = credit_edges(credits)
    BY <2>2 DEF CreditGraph
  <2>5. e \in DOMAIN credit_edges(credits) /\ e \cap frontier_artists(credits, seeds[s]) # {}
    BY <2>2, <2>4
  <2>6. e \in DOMAIN credit_edges(corpus) /\ credit_edges(corpus)[e] = credit_edges(credits)[e]
    BY <2>3, <2>5, FrontierEdges DEF corpus
  <2> QED
    BY <2>4, <2>6
<1> QED
  BY <1>1, Invariance, PTL

\* Of a dump, a corpus has every walk of at most two hops between two artists of the
\* frontier.
LEMMA ShortWalksKept ==
  ASSUME NEW d \in AllDumps, NEW seed \in Seeds, NEW a, NEW b,
         {a, b} \subseteq Frontiers[d][seed], NEW n \in 1 .. 2, NEW w \in Walks(Whole[d], a, b, n)
  PROVE  \E v : v \in Walks(Corpora[d][seed], a, b, n)
<1> DEFINE whole == Whole[d]
           corpus == Corpora[d][seed]
           v == [i \in 0 .. n |-> w[i]]
<1>1. /\ Linking(corpus)
      /\ \A x, y : {x, y} \cap Frontiers[d][seed] # {} =>
           (y \in neighbors(whole, x) => y \in neighbors(corpus, x))
  BY CorporaLink
<1>2. /\ w[0] = a /\ w[n] = b
      /\ \A i \in 0 .. n - 1 : w[i + 1] \in neighbors(whole, w[i])
  BY WalkSteps
<1>3. \A i \in 0 .. n - 1 : {w[i], w[i + 1]} \cap Frontiers[d][seed] # {}
  <2> SUFFICES ASSUME NEW i \in 0 .. n - 1
               PROVE  {w[i], w[i + 1]} \cap Frontiers[d][seed] # {}
    OBVIOUS
  <2>1. i = 0 \/ i + 1 = n
    OBVIOUS
  <2> QED
    BY <1>2, <2>1
<1> HIDE DEF whole, corpus
<1>4. \A i \in 0 .. n - 1 : w[i + 1] \in neighbors(corpus, w[i])
  BY <1>1, <1>2, <1>3
<1>5. \A i \in 0 .. n : v[i] = w[i]
  OBVIOUS
<1>6. v = [i \in 0 .. n |-> v[i]]
  OBVIOUS
<1> HIDE DEF v
<1>7. v[0] = a /\ v[n] = b /\ \A i \in 0 .. n - 1 : v[i + 1] \in neighbors(corpus, v[i])
  <2>1. \A i \in 0 .. n - 1 : i \in 0 .. n /\ i + 1 \in 0 .. n
    OBVIOUS
  <2>2. 0 \in 0 .. n /\ n \in 0 .. n
    OBVIOUS
  <2> QED
    BY <1>2, <1>4, <1>5, <2>1, <2>2
<1>8. v \in Walks(corpus, a, b, n)
  <2>1. n \in Nat \ {0}
    OBVIOUS
  <2> QED
    BY <1>1, <1>6, <1>7, <2>1, StepsWalk
<1> QED
  BY <1>8 DEF corpus

\* What a confirmed absence means.
LEMMA AbsenceIsConclusive ==
  ASSUME NEW d \in AllDumps, NEW seed \in Seeds, NEW a \in Artists, NEW b \in Artists,
         NEW cap, NEW failed, Verdict(Corpora[d][seed], a, b, cap, failed) = NoPath
  PROVE  /\ ~Connected(Corpora[d][seed], a, b, MaxHops)
         /\ {a, b} \subseteq Frontiers[d][seed] =>
              ~Connected(Whole[d], a, b, IF MaxHops < 2 THEN MaxHops ELSE 2)
<1> DEFINE corpus == Corpora[d][seed]
<1>1. Linking(corpus)
  BY CorporaLink
<1> HIDE DEF corpus
<1>2. /\ expand_seed(corpus, a, cap).capped = {} /\ expand_seed(corpus, b, cap).capped = {}
      /\ ~Meet(corpus, a, b, cap, MaxHops)
  BY <1>1, VerdictMeans DEF corpus
<1>3. ASSUME NEW n \in 1 .. MaxHops, NEW w \in Walks(corpus, a, b, n)
      PROVE  FALSE
  <2>1. ~HiddenByCap(corpus, w, n, cap)
    BY <1>1, <1>2, NothingHidden
  <2>2. Meet(corpus, a, b, cap, n)
    BY <1>1, <2>1, WalksMeet
  <2>3. n \in Nat /\ MaxHops \in Nat /\ n <= MaxHops
    BY HopsFit
  <2> QED
    BY <1>2, <2>2, <2>3, MeetFurther
<1>4. ~Connected(corpus, a, b, MaxHops)
  BY <1>3 DEF Connected
<1>5. ASSUME {a, b} \subseteq Frontiers[d][seed],
             Connected(Whole[d], a, b, IF MaxHops < 2 THEN MaxHops ELSE 2)
      PROVE  FALSE
  <2>1. PICK n \in 1 .. (IF MaxHops < 2 THEN MaxHops ELSE 2) : Walks(Whole[d], a, b, n) # {}
    BY <1>5 DEF Connected
  <2>2. n \in 1 .. 2 /\ n \in 1 .. MaxHops
    BY HopsFit
  <2>3. PICK w \in Walks(Whole[d], a, b, n) : TRUE
    BY <2>1
  <2>4. \E v : v \in Walks(corpus, a, b, n)
    BY <1>5, <2>2, <2>3, ShortWalksKept DEF corpus
  <2> QED
    BY <1>3, <2>2, <2>4
<1> QED
  BY <1>4, <1>5 DEF corpus

\* What a cap hides.
LEMMA CapsHideLittle ==
  ASSUME NEW g, Linking(g), NEW a \in Artists, NEW b \in Artists, a # b, NEW cap, NEW failed
  PROVE  LET v == Verdict(g, a, b, cap, failed)
             path == find_path(g, a, b, cap)
         IN  /\ v = Skipped("frontier_too_large") =>
                  \A n \in 1 .. MaxHops : \A w \in Walks(g, a, b, n) : HiddenByCap(g, w, n, cap)
             /\ v # Skipped("seed_failed") =>
                  /\ path.status = "found" => v.status = "found" /\ Len(v.path) <= path.hops + 1
                  /\ path.status = "no_path" => v.status # "found"
<1> DEFINE v == Verdict(g, a, b, cap, failed)
<1>1. ASSUME v = Skipped("frontier_too_large"), NEW n \in 1 .. MaxHops, NEW w \in Walks(g, a, b, n)
      PROVE  HiddenByCap(g, w, n, cap)
  <2>1. ~Meet(g, a, b, cap, MaxHops)
    BY <1>1, VerdictMeans
  <2>2. n \in Nat /\ MaxHops \in Nat /\ n <= MaxHops
    BY HopsFit
  <2>3. ~Meet(g, a, b, cap, n)
    BY <2>1, <2>2, MeetFurther
  <2> QED
    BY <2>3, WalksMeet
<1> QED
  BY <1>1, SearchesAgree

\* A pair reported as not connected is not, and what a cap hides is no more than it
\* must, whichever scoring is in place, of whichever corpus and under whichever cap.
THEOREM VerdictsHonest == Spec => []VerdictsAreHonest
<1>1. ASSUME IInv, Readable(connectivity), NEW k \in DOMAIN connectivity.pairs
      PROVE  LET pair == connectivity.pairs[k]
                 a == pair.artists[1]
                 b == pair.artists[2]
             IN  /\ dump[connectivity.snapshot] \in AllDumps /\ connectivity.seed \in Seeds
                 /\ a \in Artists /\ b \in Artists /\ a # b
                 /\ \E failed \in SUBSET Artists :
                      pair.verdict = Verdict(ScoredCorpus, a, b, connectivity.cap, failed)
  BY <1>1 DEF IInv, DatasetsOK, FilesOK, ScoredOK, Judged, ScoredCorpus
<1>2. ASSUME IInv PROVE NoPathIsConclusive
  <2> SUFFICES ASSUME Readable(connectivity), NEW k \in DOMAIN connectivity.pairs,
                      connectivity.pairs[k].verdict = NoPath
               PROVE  LET a == connectivity.pairs[k].artists[1]
                          b == connectivity.pairs[k].artists[2]
                          d == dump[connectivity.snapshot]
                      IN  /\ ~Connected(ScoredCorpus, a, b, MaxHops)
                          /\ {a, b} \subseteq Frontiers[d][connectivity.seed] =>
                               ~Connected(Whole[d], a, b, IF MaxHops < 2 THEN MaxHops ELSE 2)
    BY DEF NoPathIsConclusive
  <2> DEFINE a == connectivity.pairs[k].artists[1]
             b == connectivity.pairs[k].artists[2]
             d == dump[connectivity.snapshot]
  <2>1. /\ d \in AllDumps /\ connectivity.seed \in Seeds /\ a \in Artists /\ b \in Artists
        /\ \E failed \in SUBSET Artists :
             NoPath = Verdict(ScoredCorpus, a, b, connectivity.cap, failed)
    BY <1>1, <1>2
  <2> HIDE DEF a, b, d
  <2>2. ScoredCorpus = Corpora[d][connectivity.seed]
    BY DEF ScoredCorpus, d
  <2>3. /\ ~Connected(ScoredCorpus, a, b, MaxHops)
        /\ {a, b} \subseteq Frontiers[d][connectivity.seed] =>
             ~Connected(Whole[d], a, b, IF MaxHops < 2 THEN MaxHops ELSE 2)
    BY <2>1, <2>2, AbsenceIsConclusive
  <2> QED
    BY <2>3 DEF a, b, d
<1>3. ASSUME IInv PROVE CapHidesLittle
  <2> SUFFICES ASSUME Readable(connectivity), NEW k \in DOMAIN connectivity.pairs
               PROVE  LET pair == connectivity.pairs[k]
                          a == pair.artists[1]
                          b == pair.artists[2]
                          path == find_path(ScoredCorpus, a, b, connectivity.cap)
                      IN /\ pair.verdict = Skipped("frontier_too_large") =>
                              \A n \in 1 .. MaxHops : \A w \in Walks(ScoredCorpus, a, b, n) :
                                HiddenByCap(ScoredCorpus, w, n, connectivity.cap)
                         /\ pair.verdict # Skipped("seed_failed") =>
                              /\ path.status = "found" =>
                                   /\ pair.verdict.status = "found"
                                   /\ Len(pair.verdict.path) <= path.hops + 1
                              /\ path.status = "no_path" => pair.verdict.status # "found"
    BY DEF CapHidesLittle
  <2> DEFINE a == connectivity.pairs[k].artists[1]
             b == connectivity.pairs[k].artists[2]
             g == ScoredCorpus
  <2>1. /\ dump[connectivity.snapshot] \in AllDumps /\ connectivity.seed \in Seeds
        /\ a \in Artists /\ b \in Artists /\ a # b
    BY <1>1, <1>3
  <2>2. PICK failed \in SUBSET Artists :
          connectivity.pairs[k].verdict = Verdict(g, a, b, connectivity.cap, failed)
    BY <1>1, <1>3
  <2>3. Linking(g)
    BY <2>1, CorporaLink DEF ScoredCorpus
  <2> HIDE DEF a, b, g
  <2> QED
    BY <2>1, <2>2, <2>3, CapsHideLittle DEF a, b, g
<1>4. IInv => VerdictsAreHonest
  BY <1>2, <1>3 DEF VerdictsAreHonest
<1> QED
  BY <1>4, Invariance, PTL

----------------------------------------------------------------------------
(* What a promotion publishes.                                              *)

\* Some number of a set of numbers up to a bound is its greatest.
LEMMA GreatestExists ==
  ASSUME NEW m \in Nat, NEW S \in SUBSET (1 .. m), S # {}
  PROVE  \E x \in S : \A y \in S : y <= x
<1> DEFINE Above == {k \in 0 .. m : \A y \in S : y <= k}
<1>1. m \in Above
  OBVIOUS
<1>2. Above \in SUBSET Nat
  OBVIOUS
<1> HIDE DEF Above
<1>3. PICK k \in Above : \A j \in Above : k <= j
  BY <1>1, <1>2, LeastExists
<1>4. k \in 0 .. m /\ \A y \in S : y <= k
  BY <1>3 DEF Above
<1>5. k \in S
  <2> SUFFICES ASSUME k \notin S PROVE FALSE
    OBVIOUS
  <2>1. \A y \in S : y \in 1 .. m /\ y <= k - 1
    BY <1>4
  <2>2. PICK z \in S : TRUE
    OBVIOUS
  <2>3. k - 1 \in 0 .. m
    BY <1>4, <2>1, <2>2
  <2>4. k - 1 \in Above
    BY <2>1, <2>3 DEF Above
  <2> QED
    BY <1>3, <1>4, <2>4
<1> QED
  BY <1>4, <1>5

\* The pair that counts for its albums is one of the scoring, and is theirs.
LEMMA LookupIsScored ==
  ASSUME NEW conn, Readable(conn), ScoredOK(conn), NEW key, PairIndices(conn, key) # {}
  PROVE  \E k \in DOMAIN conn.pairs :
           _pair_lookup(conn, key) = conn.pairs[k] /\ conn.pairs[k].albums = key
                                   /\ Judged(conn, conn.pairs[k])
<1> DEFINE S == PairIndices(conn, key)
           k == CHOOSE x \in S : \A y \in S : y <= x
<1>1. PICK m \in Nat : DOMAIN conn.pairs = 1 .. m /\ \A x \in 1 .. m : Judged(conn, conn.pairs[x])
  BY DEF ScoredOK
<1>2. S \in SUBSET (1 .. m)
  BY <1>1 DEF PairIndices
<1>3. k \in S
  <2> HIDE DEF S
  <2>1. \E x \in S : \A y \in S : y <= x
    BY <1>2, GreatestExists DEF S
  <2> QED
    BY <2>1
<1>4. _pair_lookup(conn, key) = conn.pairs[k]
  BY DEF _pair_lookup
<1> HIDE DEF k
<1>5. k \in DOMAIN conn.pairs /\ conn.pairs[k].albums = key
  BY <1>3 DEF PairIndices
<1> QED
  BY <1>1, <1>4, <1>5

\* The path of a pair found in a corpus is a walk of its dump.
LEMMA FoundWalks ==
  ASSUME NEW d \in AllDumps, NEW seed \in Seeds, NEW a \in Artists, NEW b \in Artists, a # b,
         NEW cap, NEW failed, Verdict(Corpora[d][seed], a, b, cap, failed).status = "found"
  PROVE  LET path == Verdict(Corpora[d][seed], a, b, cap, failed).path
             n == Len(path) - 1
         IN  /\ n \in 1 .. MaxHops
             /\ [i \in 0 .. n |-> path[i + 1]] \in Walks(Whole[d], a, b, n)
<1> DEFINE corpus == Corpora[d][seed]
           whole == Whole[d]
           path == Verdict(corpus, a, b, cap, failed).path
<1>1. /\ Linking(corpus) /\ Linking(whole)
      /\ \A x, y : y \in neighbors(corpus, x) => y \in neighbors(whole, x)
  BY CorporaLink
<1>2. PICK hops \in Nat : hops <= MaxHops /\ Leads(corpus, path, a, b, hops)
  BY <1>1, VerdictMeans
<1> HIDE DEF corpus, whole, path
<1>3. Len(path) - 1 = hops /\ hops # 0
  BY <1>2 DEF Leads
<1>4. hops \in Nat \ {0} /\ hops \in 1 .. MaxHops
  BY <1>2, <1>3, HopsFit
<1>5. Leads(whole, path, a, b, hops)
  BY <1>1, <1>2 DEF Leads
<1>6. [i \in 0 .. hops |-> path[i + 1]] \in Walks(whole, a, b, hops)
  BY <1>1, <1>4, <1>5, PathWalks
<1>7. Len(path) - 1 \in 1 .. MaxHops
  BY <1>3, <1>4
<1>8. [i \in 0 .. Len(path) - 1 |-> path[i + 1]] \in Walks(whole, a, b, Len(path) - 1)
  BY <1>3, <1>6
<1> QED
  BY <1>7, <1>8 DEF corpus, whole, path

\* What a promotion publishes was approved, allowed where it is flagged, and documented
\* by the dump of the recorded date, whatever was expanded, resolved or scored since.
THEOREM PublishedEvidenced == Spec => PublishedIsEvidenced
<1> DEFINE Step ==
      artifact' # artifact /\ Readable(artifact') =>
        \A pair \in artifact'.pairs :
          LET path == pair.verdict.path
              n == Len(path) - 1
          IN /\ pair.albums \in selection.approved /\ pair.albums \subseteq artifact'.albums
             /\ n \in 1 .. MaxHops
             /\ [i \in 0 .. n |-> path[i + 1]]
                  \in Walks(Whole[dump[resolved.snapshot]], pair.artists[1], pair.artists[2], n)
             /\ pair.verdict.warnings # {} => pair.albums \in selection.allowed
<1>1. ASSUME IInv, Next PROVE Step
  <2> SUFFICES ASSUME artifact' # artifact, Readable(artifact'), NEW pair \in artifact'.pairs
               PROVE  LET path == pair.verdict.path
                          n == Len(path) - 1
                      IN /\ pair.albums \in selection.approved
                         /\ pair.albums \subseteq artifact'.albums
                         /\ n \in 1 .. MaxHops
                         /\ [i \in 0 .. n |-> path[i + 1]]
                              \in Walks(Whole[dump[resolved.snapshot]],
                                        pair.artists[1], pair.artists[2], n)
                         /\ pair.verdict.warnings # {} => pair.albums \in selection.allowed
    OBVIOUS
  <2>1. promote
    BY <1>1 DEF Next, expand_one_hop, import_cohort_source, resolve_cohort,
             score_cohort_to_directory, submit_cohort_score, _promote_outputs, review, files
  <2>2. artifact' = promote_playable_cohort(resolved, connectivity, selection)
    BY <2>1 DEF promote, Written, Readable, Torn
  <2>3. /\ artifact'.albums = UNION selection.approved
        /\ artifact'.pairs = {_pair_lookup(connectivity, key) : key \in selection.approved}
    BY <2>2 DEF promote_playable_cohort
  <2>4. PICK key \in selection.approved : pair = _pair_lookup(connectivity, key)
    BY <2>3
  <2>5. /\ Readable(connectivity) /\ resolved.snapshot = connectivity.snapshot
        /\ Approvable(connectivity, selection, key)
    BY <2>1 DEF promote, SamePipelineRun
  <2>6. /\ PairIndices(connectivity, key) # {} /\ pair.verdict.status = "found"
        /\ pair.verdict.warnings # {} => key \in selection.allowed
    BY <2>4, <2>5 DEF Approvable
  <2>7. ScoredOK(connectivity)
    BY <1>1 DEF IInv, FilesOK
  <2>8. pair.albums = key /\ Judged(connectivity, pair)
    BY <2>4, <2>5, <2>6, <2>7, LookupIsScored
  <2> DEFINE a == pair.artists[1]
             b == pair.artists[2]
             d == dump[connectivity.snapshot]
             seed == connectivity.seed
  <2>9. d \in AllDumps /\ seed \in Seeds
    BY <1>1, <2>5, <2>7 DEF IInv, DatasetsOK, ScoredOK
  <2>10. /\ a \in Artists /\ b \in Artists /\ a # b
         /\ \E failed \in SUBSET Artists :
              pair.verdict = Verdict(Corpora[d][seed], a, b, connectivity.cap, failed)
    BY <2>8 DEF Judged
  <2> HIDE DEF a, b, d, seed
  <2> DEFINE path == pair.verdict.path
             n == Len(path) - 1
  <2>11. n \in 1 .. MaxHops /\ [i \in 0 .. n |-> path[i + 1]] \in Walks(Whole[d], a, b, n)
    <3>1. PICK failed \in SUBSET Artists :
            pair.verdict = Verdict(Corpora[d][seed], a, b, connectivity.cap, failed)
      BY <2>10
    <3> QED
      BY <2>6, <2>9, <2>10, <3>1, FoundWalks
  <2>12. pair.albums \in selection.approved /\ pair.albums \subseteq artifact'.albums
    BY <2>3, <2>4, <2>8
  <2> QED
    BY <2>5, <2>6, <2>8, <2>11, <2>12 DEF a, b, d
<1>2. UNCHANGED vars => Step
  BY DEF vars, files
<1>3. IInv /\ [Next]_vars => [Step]_vars
  BY <1>1, <1>2
<1> QED
  BY <1>3, Invariance, PTL DEF Spec, PublishedIsEvidenced

----------------------------------------------------------------------------
(* Record routes over a corpus.                                             *)

\* The lowest of some numbers is one number.
LEMMA LowestAlone ==
  ASSUME NEW S \in SUBSET Nat, NEW i \in LowestOf(S, 1), NEW j \in LowestOf(S, 1)
  PROVE  i = j
<1>1. ASSUME NEW k \in LowestOf(S, 1), NEW l \in S PROVE k <= l
  <2> DEFINE below == {m \in S : m < k}
  <2>1. k \in Nat /\ l \in Nat /\ Cardinality(below) < 1
    BY DEF LowestOf
  <2>3. \A m \in below : m \in S /\ m < k
    OBVIOUS
  <2> HIDE DEF below
  <2>2. below \in SUBSET Nat
    BY <2>3
  <2>7. \A m \in below : m <= k
    BY <2>1, <2>2, <2>3
  <2>4. IsFiniteSet(below)
    BY <2>1, <2>2, <2>7, FS_BoundedSetOfNaturals
  <2>5. Cardinality(below) = 0
    BY <2>1, <2>4, FS_CardinalityType
  <2>6. below = {}
    BY <2>4, <2>5, FS_EmptySet
  <2> QED
    BY <2>1, <2>6 DEF below
<1>2. i \in S /\ j \in S
  BY DEF LowestOf
<1> QED
  BY <1>1, <1>2

\* A route goes along a walk: its hops are the edges along it.
Along(corpus, walk, r) ==
  /\ r.walk = walk /\ DOMAIN r.hops = 1 .. Len(walk) - 1
  /\ \A i \in 1 .. Len(walk) - 1 :
       /\ r.hops[i].artists = {walk[i], walk[i + 1]}
       /\ r.hops[i].release = corpus.edges[{walk[i], walk[i + 1]}]

\* A walk makes one route or none.
LEMMA RouteOfWalk ==
  ASSUME NEW corpus, NEW walk, NEW r \in build_round_from_path(corpus, walk)
  PROVE  /\ Along(corpus, walk, r)
         /\ \A q \in build_round_from_path(corpus, walk) : q = r
<1> DEFINE one == [walk |-> walk,
                   hops |-> [i \in 1 .. Len(walk) - 1 |->
                               build_round_hop(corpus, walk[i], walk[i + 1])]]
<1>1. build_round_from_path(corpus, walk) = {} \/ build_round_from_path(corpus, walk) = {one}
  BY DEF build_round_from_path
<1>2. r = one /\ \A q \in build_round_from_path(corpus, walk) : q = r
  BY <1>1
<1>3. \A i \in 1 .. Len(walk) - 1 :
        /\ one.hops[i].artists = {walk[i], walk[i + 1]}
        /\ one.hops[i].release = corpus.edges[{walk[i], walk[i + 1]}]
  BY DEF build_round_hop
<1>4. one.walk = walk /\ DOMAIN one.hops = 1 .. Len(walk) - 1
  OBVIOUS
<1> HIDE DEF one
<1>5. Along(corpus, walk, one)
  BY <1>3, <1>4 DEF Along
<1> QED
  BY <1>2, <1>5

\* The graph of credits, as far as routes read it: neighbours have an edge.
Edged(corpus) ==
  \A a, b : b \in neighbors(corpus, a) =>
    b \in Artists /\ {a, b} \in DOMAIN corpus.edges /\ {b, a} = {a, b}

\* The records of a catalogue: finitely many, of artists.
CatalogueOK(albums) == DOMAIN albums \in SUBSET Artists /\ IsFiniteSet(DOMAIN albums)

\* What makes a route true of its corpus: it leads between two records, every hop is an
\* edge on its evidence release, and two hops are never taken where one would do.
TrueOf(corpus, albums, r) ==
  /\ r.walk[1] \in DOMAIN albums /\ Last(r.walk) \in DOMAIN albums
  /\ \A i \in DOMAIN r.hops : /\ r.hops[i].artists \in DOMAIN corpus.edges
                              /\ r.hops[i].release = corpus.edges[r.hops[i].artists]
  /\ Len(r.walk) = 3 => {r.walk[1], r.walk[3]} \notin DOMAIN corpus.edges

\* A one-hop candidate is a pair of neighbours.
LEMMA OneHopsTrue ==
  ASSUME NEW corpus, NEW albums, NEW r \in _one_hop_candidates(corpus, albums)
  PROVE  TrueOf(corpus, albums, r)
<1>1. PICK p \in NeighborPairs(corpus, albums) : r \in build_round_from_path(corpus, p)
  BY DEF _one_hop_candidates
<1>2. /\ p[1] \in DOMAIN albums /\ p[2] \in DOMAIN albums /\ p = <<p[1], p[2]>>
      /\ {p[1], p[2]} \in DOMAIN corpus.edges
  BY DEF NeighborPairs, ArtistPairs
<1>3. Len(p) = 2
  BY <1>2
<1>4. Along(corpus, p, r)
  BY <1>1, RouteOfWalk
<1>6. /\ r.walk = p /\ DOMAIN r.hops = 1 .. 1
      /\ r.hops[1].artists = {p[1], p[2]} /\ r.hops[1].release = corpus.edges[{p[1], p[2]}]
  BY <1>3, <1>4 DEF Along
<1>5. Last(p) = p[2]
  BY <1>3 DEF Last
<1>7. \A i \in DOMAIN r.hops : /\ r.hops[i].artists \in DOMAIN corpus.edges
                               /\ r.hops[i].release = corpus.edges[r.hops[i].artists]
  <2>1. \A i \in DOMAIN r.hops : i = 1
    BY <1>6
  <2> QED
    BY <1>2, <1>6, <2>1
<1> QED
  BY <1>2, <1>3, <1>5, <1>6, <1>7 DEF TrueOf

\* A two-hop candidate leads over a common neighbour, and its ends are no neighbours.
LEMMA TwoHopsTrue ==
  ASSUME NEW corpus, Edged(corpus), NEW albums, NEW r \in _two_hop_candidates(corpus, albums)
  PROVE  TrueOf(corpus, albums, r)
<1>1. PICK p \in Playable(albums) \ NeighborPairs(corpus, albums) :
        r \in ThroughFirstBridge(corpus, p)
  BY DEF _two_hop_candidates
<1>2. PICK b \in LowestOf(WorkingBridges(corpus, p[1], p[2]), 1) :
        r \in build_round_from_path(corpus, <<p[1], b, p[2]>>)
  BY <1>1 DEF ThroughFirstBridge
<1>3. b \in neighbors(corpus, p[1]) /\ b \in neighbors(corpus, p[2])
  BY <1>2 DEF LowestOf, WorkingBridges
<1>4. /\ p[1] \in DOMAIN albums /\ p[2] \in DOMAIN albums
      /\ {p[1], p[2]} \notin DOMAIN corpus.edges
  BY <1>1 DEF Playable, NeighborPairs, ArtistPairs
<1>5. {p[1], b} \in DOMAIN corpus.edges /\ {b, p[2]} \in DOMAIN corpus.edges
  BY <1>3 DEF Edged
<1> DEFINE w == <<p[1], b, p[2]>>
<1>6. Len(w) = 3 /\ w[1] = p[1] /\ w[2] = b /\ w[3] = p[2] /\ Last(w) = p[2]
  BY DEF Last
<1> HIDE DEF w
<1>7. Along(corpus, w, r)
  BY <1>2, RouteOfWalk DEF w
<1>8. /\ r.walk = w /\ DOMAIN r.hops = 1 .. 2
      /\ r.hops[1].artists = {p[1], b} /\ r.hops[1].release = corpus.edges[{p[1], b}]
      /\ r.hops[2].artists = {b, p[2]} /\ r.hops[2].release = corpus.edges[{b, p[2]}]
  BY <1>6, <1>7 DEF Along
<1>9. \A i \in DOMAIN r.hops : /\ r.hops[i].artists \in DOMAIN corpus.edges
                               /\ r.hops[i].release = corpus.edges[r.hops[i].artists]
  <2>1. \A i \in DOMAIN r.hops : i = 1 \/ i = 2
    BY <1>8
  <2> QED
    BY <1>5, <1>8, <2>1
<1> QED
  BY <1>4, <1>6, <1>8, <1>9 DEF TrueOf

\* Two candidates between the same artists are one.
LEMMA OneRoute ==
  ASSUME NEW corpus, Edged(corpus), NEW p,
         NEW x \in ThroughFirstBridge(corpus, p), NEW y \in ThroughFirstBridge(corpus, p)
  PROVE  x = y /\ x.walk[1] = p[1] /\ x.walk[3] = p[2]
<1>1. WorkingBridges(corpus, p[1], p[2]) \in SUBSET Nat
  BY ArtistsAreIds DEF WorkingBridges, LowestOf, Edged
<1>2. PICK b \in LowestOf(WorkingBridges(corpus, p[1], p[2]), 1) :
        x \in build_round_from_path(corpus, <<p[1], b, p[2]>>)
  BY DEF ThroughFirstBridge
<1>3. PICK c \in LowestOf(WorkingBridges(corpus, p[1], p[2]), 1) :
        y \in build_round_from_path(corpus, <<p[1], c, p[2]>>)
  BY DEF ThroughFirstBridge
<1>4. b = c
  BY <1>1, LowestAlone
<1>5. x = y
  BY <1>2, <1>3, <1>4, RouteOfWalk
<1>6. Along(corpus, <<p[1], b, p[2]>>, x)
  BY <1>2, RouteOfWalk
<1> QED
  BY <1>5, <1>6 DEF Along

\* There are finitely many candidates.
LEMMA CandidatesFinite ==
  ASSUME NEW corpus, Edged(corpus), NEW albums, CatalogueOK(albums)
  PROVE  /\ IsFiniteSet(_one_hop_candidates(corpus, albums))
         /\ IsFiniteSet(_two_hop_candidates(corpus, albums))
<1> DEFINE pairs == ArtistPairs(albums)
<1>1. IsFiniteSet(pairs)
  <2>1. IsFiniteSet((DOMAIN albums) \X (DOMAIN albums))
    BY FS_Product DEF CatalogueOK
  <2> QED
    BY <2>1, FS_Subset DEF ArtistPairs
<1>2. IsFiniteSet(_one_hop_candidates(corpus, albums))
  <2> DEFINE C == _one_hop_candidates(corpus, albums)
             f == [r \in C |-> r.walk]
  <2>1. ASSUME NEW r \in C
        PROVE  r.walk \in pairs /\ r \in build_round_from_path(corpus, r.walk)
    <3>1. PICK p \in NeighborPairs(corpus, albums) : r \in build_round_from_path(corpus, p)
      BY DEF _one_hop_candidates
    <3>2. r.walk = p
      BY <3>1, RouteOfWalk DEF Along
    <3> QED
      BY <3>1, <3>2 DEF NeighborPairs
  <2>2. \A r, q \in C : r.walk = q.walk => r = q
    BY <2>1, RouteOfWalk
  <2> HIDE DEF C, pairs
  <2>3. f \in Injection(C, pairs)
    BY <2>1, <2>2 DEF Injection, IsInjective
  <2> HIDE DEF f
  <2> QED
    BY <1>1, <2>3, FS_Injection DEF C
<1>3. IsFiniteSet(_two_hop_candidates(corpus, albums))
  <2> DEFINE C == _two_hop_candidates(corpus, albums)
             f == [r \in C |-> <<r.walk[1], r.walk[3]>>]
  <2>1. ASSUME NEW r \in C
        PROVE  f[r] \in pairs /\ r \in ThroughFirstBridge(corpus, f[r])
    <3>1. PICK p \in Playable(albums) : r \in ThroughFirstBridge(corpus, p)
      BY DEF _two_hop_candidates
    <3>2. r.walk[1] = p[1] /\ r.walk[3] = p[2]
      BY <3>1, OneRoute
    <3>3. p \in pairs /\ p = <<p[1], p[2]>>
      BY DEF Playable, ArtistPairs
    <3>4. f[r] = <<r.walk[1], r.walk[3]>>
      OBVIOUS
    <3> QED
      BY <3>1, <3>2, <3>3, <3>4
  <2>2. \A r, q \in C : f[r] = f[q] => r = q
    <3> HIDE DEF f, C
    <3> QED
      BY <2>1, OneRoute
  <2>3. f = [r \in C |-> f[r]]
    OBVIOUS
  <2> HIDE DEF C, pairs, f
  <2>4. f \in Injection(C, pairs)
    BY <2>1, <2>2, <2>3 DEF Injection, IsInjective
  <2> QED
    BY <1>1, <2>4, FS_Injection DEF C
<1> QED
  BY <1>2, <1>3

\* What a selection compares: the routes between artists, over routes so far.
Comparable(remaining, selected) ==
  /\ IsFiniteSet(selected) /\ IsFiniteSet(remaining)
  /\ \A r \in remaining : r.walk[1] \in Nat /\ Last(r.walk) \in Nat

\* The comparison of two routes is by numbers.
LEMMA ScoresAreNumbers ==
  ASSUME NEW selected, IsFiniteSet(selected), NEW r
  PROVE  UsePenalty(selected, r) \in Nat /\ UsePenalty(selected, r) > 0 /\ Quality(r) \in {7, 10}
<1>1. \A x : EndpointUses(selected, x) \in Nat
  BY FS_Subset, FS_CardinalityType DEF EndpointUses
<1>2. Cardinality({q \in selected : Bridge(q) \cap Bridge(r) # {}}) \in Nat
  BY FS_Subset, FS_CardinalityType
<1>3. ASSUME NEW a \in Nat, NEW b \in Nat, NEW c \in Nat
      PROVE  (1 + a + b) * (1 + c) \in Nat /\ (1 + a + b) * (1 + c) > 0
  <2>1. 1 + a + b \in Nat /\ 1 + a + b > 0 /\ 1 + c \in Nat /\ 1 + c > 0
    OBVIOUS
  <2>2. ASSUME NEW u \in Nat, NEW v \in Nat, u > 0, v > 0 PROVE u * v \in Nat /\ u * v > 0
    BY <2>2
  <2> QED
    BY <2>1, <2>2
<1>4. UsePenalty(selected, r) \in Nat /\ UsePenalty(selected, r) > 0
  BY <1>1, <1>2, <1>3 DEF UsePenalty
<1> QED
  BY <1>4 DEF Quality

\* Of two routes one is no worse than the other.
LEMMA NoWorseTotal ==
  ASSUME NEW remaining, NEW selected, Comparable(remaining, selected),
         NEW r \in remaining, NEW q \in remaining
  PROVE  NoWorse(selected, r, q) \/ NoWorse(selected, q, r)
<1>1. /\ UsePenalty(selected, r) \in Nat /\ Quality(r) \in {7, 10}
      /\ UsePenalty(selected, q) \in Nat /\ Quality(q) \in {7, 10}
  BY ScoresAreNumbers DEF Comparable
<1>2. LowerArtists(r, q) \/ LowerArtists(q, r)
  BY DEF LowerArtists, Comparable
<1>3. Quality(r) * UsePenalty(selected, q) \in Nat /\ Quality(q) * UsePenalty(selected, r) \in Nat
  BY <1>1
<1> QED
  BY <1>2, <1>3 DEF NoWorse

\* What is no worse than a route is no worse than what that one is no worse than.
LEMMA NoWorseTransitive ==
  ASSUME NEW remaining, NEW selected, Comparable(remaining, selected),
         NEW r \in remaining, NEW q \in remaining, NEW s \in remaining,
         NoWorse(selected, r, q), NoWorse(selected, q, s)
  PROVE  NoWorse(selected, r, s)
<1> DEFINE pr == UsePenalty(selected, r)
           pq == UsePenalty(selected, q)
           ps == UsePenalty(selected, s)
<1>1. /\ pr \in Nat /\ Quality(r) \in {7, 10}
      /\ pq \in Nat /\ Quality(q) \in {7, 10}
      /\ ps \in Nat /\ Quality(s) \in {7, 10}
  BY ScoresAreNumbers DEF Comparable
<1>2. /\ Quality(r) * pq > Quality(q) * pr \/ (Quality(r) * pq = Quality(q) * pr /\ LowerArtists(r, q))
      /\ Quality(q) * ps > Quality(s) * pq \/ (Quality(q) * ps = Quality(s) * pq /\ LowerArtists(q, s))
  BY DEF NoWorse
<1>3. LowerArtists(r, q) /\ LowerArtists(q, s) => LowerArtists(r, s)
  BY DEF LowerArtists, Comparable
<1> HIDE DEF pr, pq, ps
<1>4. \/ Quality(r) * ps > Quality(s) * pr
      \/ Quality(r) * ps = Quality(s) * pr /\ LowerArtists(r, q) /\ LowerArtists(q, s)
  <2>1. CASE Quality(r) = 7 /\ Quality(q) = 7 /\ Quality(s) = 7
    BY <1>1, <1>2, <2>1
  <2>2. CASE Quality(r) = 7 /\ Quality(q) = 7 /\ Quality(s) = 10
    BY <1>1, <1>2, <2>2
  <2>3. CASE Quality(r) = 7 /\ Quality(q) = 10 /\ Quality(s) = 7
    BY <1>1, <1>2, <2>3
  <2>4. CASE Quality(r) = 7 /\ Quality(q) = 10 /\ Quality(s) = 10
    BY <1>1, <1>2, <2>4
  <2>5. CASE Quality(r) = 10 /\ Quality(q) = 7 /\ Quality(s) = 7
    BY <1>1, <1>2, <2>5
  <2>6. CASE Quality(r) = 10 /\ Quality(q) = 7 /\ Quality(s) = 10
    BY <1>1, <1>2, <2>6
  <2>7. CASE Quality(r) = 10 /\ Quality(q) = 10 /\ Quality(s) = 7
    BY <1>1, <1>2, <2>7
  <2>8. CASE Quality(r) = 10 /\ Quality(q) = 10 /\ Quality(s) = 10
    BY <1>1, <1>2, <2>8
  <2> QED
    BY <1>1, <2>1, <2>2, <2>3, <2>4, <2>5, <2>6, <2>7, <2>8
<1> QED
  BY <1>3, <1>4 DEF NoWorse, pr, ps

\* Some remaining route is the best one: it has the fewest that it is worse than.
LEMMA BestExists ==
  ASSUME NEW remaining, NEW selected, Comparable(remaining, selected), remaining # {}
  PROVE  BestRoute(remaining, selected) \in remaining
<1> DEFINE Above(r) == {q \in remaining : ~NoWorse(selected, r, q)}
           counts == {n \in Nat : \E r \in remaining : n = Cardinality(Above(r))}
<1>1. \A r \in remaining : IsFiniteSet(Above(r)) /\ Cardinality(Above(r)) \in Nat
  BY FS_Subset, FS_CardinalityType DEF Comparable
<1>2. \E n \in counts : TRUE
  BY <1>1
<1>3. counts \in SUBSET Nat /\ counts # {}
  BY <1>2
<1>4. PICK n \in counts : \A k \in counts : n <= k
  <2> HIDE DEF counts
  <2> QED
    BY <1>3, LeastExists
<1>5. PICK r \in remaining : n = Cardinality(Above(r))
  BY <1>4
<1>6. ASSUME NEW q \in remaining, ~NoWorse(selected, r, q)
      PROVE  FALSE
  <2>1. NoWorse(selected, q, r) /\ NoWorse(selected, q, q)
    BY <1>6, NoWorseTotal
  <2>2. Above(q) \subseteq Above(r)
    BY <2>1, NoWorseTransitive
  <2>3. q \in Above(r) /\ q \notin Above(q)
    BY <1>6, <2>1
  <2> HIDE DEF Above
  <2>4. Cardinality(Above(q)) <= Cardinality(Above(r)) /\ Cardinality(Above(q)) # Cardinality(Above(r))
    BY <1>1, <2>2, <2>3, FS_Subset
  <2>5. Cardinality(Above(q)) \in counts
    BY <1>1
  <2> QED
    BY <1>1, <1>4, <1>5, <2>4, <2>5
<1> QED
  BY <1>6 DEF BestRoute

----------------------------------------------------------------------------
(* The selection.                                                           *)

\* What a selection has left and taken is of its candidates.
Selecting(candidates, sel) ==
  sel.remaining \subseteq candidates /\ sel.selected \subseteq candidates

\* Candidates a selection can compare.
Selectable(candidates) ==
  /\ IsFiniteSet(candidates)
  /\ \A r \in candidates : r.walk[1] \in Nat /\ Last(r.walk) \in Nat

\* A turn of the selection takes one of the candidates, or none.
LEMMA TakeAmong ==
  ASSUME NEW candidates, Selectable(candidates), NEW sel, Selecting(candidates, sel),
         NEW target, NEW albums
  PROVE  Selecting(candidates, TakeBest(sel, target, albums))
<1> DEFINE best == BestRoute(sel.remaining, sel.selected)
<1>1. CASE sel.remaining = {} \/ Cardinality(sel.selected) >= target
  BY <1>1 DEF TakeBest
<1>2. CASE ~(sel.remaining = {} \/ Cardinality(sel.selected) >= target)
  <2>1. IsFiniteSet(sel.remaining) /\ IsFiniteSet(sel.selected)
    BY FS_Subset DEF Selecting, Selectable
  <2>2. Comparable(sel.remaining, sel.selected)
    BY <2>1 DEF Comparable, Selecting, Selectable
  <2>3. best \in sel.remaining
    BY <1>2, <2>2, BestExists
  <2> HIDE DEF best
  <2>4. TakeBest(sel, target, albums) =
          [remaining |-> sel.remaining \ {best},
           selected |-> sel.selected \cup
                          (IF UsedUp(sel.selected, best, albums) THEN {} ELSE {best})]
    BY <1>2 DEF TakeBest, best
  <2> QED
    BY <2>3, <2>4 DEF Selecting
<1> QED
  BY <1>1, <1>2

\* A selection before its first turn.
Untaken(candidates) == [remaining |-> candidates, selected |-> {}]

\* What is selected after so many turns.
Turns(candidates, target, albums, n, p) ==
  p = [i \in 0 .. n |-> IF i = 0 THEN Untaken(candidates)
                        ELSE TakeBest(p[i - 1], target, albums)]

\* One turn after the other.
LEMMA TurnsOn ==
  ASSUME NEW candidates, NEW target, NEW albums, NEW n \in Nat, NEW p,
         Turns(candidates, target, albums, n, p), NEW i \in 0 .. n
  PROVE  p[i] = IF i = 0 THEN Untaken(candidates)
                ELSE TakeBest(p[i - 1], target, albums)
<1>1. p = [j \in 0 .. n |-> IF j = 0 THEN Untaken(candidates)
                            ELSE TakeBest(p[j - 1], target, albums)]
  BY DEF Turns
<1> QED
  BY <1>1, Zenon

\* A turn after the first goes on from the one before it.
LEMMA TurnsNext ==
  ASSUME NEW candidates, NEW target, NEW albums, NEW n \in Nat, NEW p,
         Turns(candidates, target, albums, n, p), NEW i \in 0 .. n, i # 0
  PROVE  p[i] = TakeBest(p[i - 1], target, albums)
<1>1. p[i] = IF i = 0 THEN Untaken(candidates)
             ELSE TakeBest(p[i - 1], target, albums)
  BY TurnsOn
<1> QED
  BY <1>1

\* At first everything remains.
LEMMA TurnsFrom ==
  ASSUME NEW candidates, NEW target, NEW albums, NEW n \in Nat, NEW p,
         Turns(candidates, target, albums, n, p)
  PROVE  p[0] = Untaken(candidates)
<1>1. 0 \in 0 .. n
  OBVIOUS
<1>2. p = [j \in 0 .. n |-> IF j = 0 THEN Untaken(candidates)
                            ELSE TakeBest(p[j - 1], target, albums)]
  BY DEF Turns
<1>3. p[0] = IF 0 = 0 THEN Untaken(candidates) ELSE TakeBest(p[0 - 1], target, albums)
  BY <1>1, <1>2, Zenon
<1> QED
  BY <1>3

\* The selection is defined: its recursion has a solution.
LEMMA TurnsDefined ==
  ASSUME NEW candidates, NEW target, NEW albums, NEW N \in Nat
  PROVE  \E p : Turns(candidates, target, albums, N, p)
<1> DEFINE start == Untaken(candidates)
           Solved == {k \in 0 .. N : \E p : Turns(candidates, target, albums, k, p)}
<1>1. 0 \in Solved
  <2> DEFINE p == [i \in 0 .. 0 |-> start]
  <2>1. p = [i \in 0 .. 0 |-> IF i = 0 THEN start ELSE TakeBest(p[i - 1], target, albums)]
    OBVIOUS
  <2> HIDE DEF p
  <2> QED
    BY <2>1 DEF Turns
<1>2. ASSUME NEW k \in 0 .. N, k \in Solved, k < N
      PROVE  k + 1 \in Solved
  <2>1. PICK p : Turns(candidates, target, albums, k, p)
    BY <1>2
  <2> DEFINE q == [i \in 0 .. k + 1 |->
                     IF i = k + 1 THEN TakeBest(p[k], target, albums) ELSE p[i]]
  <2>0. k \in Nat
    BY <1>2
  <2>2. /\ p[0] = start
        /\ \A i \in 1 .. k : p[i] = TakeBest(p[i - 1], target, albums)
    <3>1. p[0] = start
      BY <2>1, <2>0, TurnsFrom
    <3>2. ASSUME NEW i \in 1 .. k
          PROVE  p[i] = TakeBest(p[i - 1], target, albums)
      <4>1. i \in 0 .. k /\ i # 0
        BY <2>0
      <4> QED
        BY <2>1, <2>0, <4>1, TurnsNext
    <3> QED
      BY <3>1, <3>2
  <2>3. /\ q[k + 1] = TakeBest(p[k], target, albums)
        /\ \A i \in 0 .. k : q[i] = p[i]
    OBVIOUS
  <2>4. ASSUME NEW i \in 0 .. k + 1
        PROVE  q[i] = IF i = 0 THEN start ELSE TakeBest(q[i - 1], target, albums)
    <3> HIDE DEF q, start
    <3>1. CASE i = k + 1
      BY <2>3, <3>1
    <3>2. CASE i = 0
      BY <2>2, <2>3, <3>2
    <3>3. CASE i # k + 1 /\ i # 0
      <4>1. i \in 1 .. k /\ i \in 0 .. k /\ i - 1 \in 0 .. k
        BY <3>3
      <4> QED
        BY <2>2, <2>3, <3>3, <4>1
    <3> QED
      BY <3>1, <3>2, <3>3
  <2>5. Turns(candidates, target, albums, k + 1, q)
    BY <2>4 DEF Turns
  <2> HIDE DEF q
  <2> QED
    BY <1>2, <2>5
<1> HIDE DEF Solved
<1>3. 0 .. N \subseteq Solved
  BY <1>1, <1>2, CountingUp
<1> QED
  BY <1>3 DEF Solved

\* What is selected is of the candidates.
LEMMA SelectedAmong ==
  ASSUME NEW candidates, Selectable(candidates), NEW target, NEW albums
  PROVE  _select_diversified(candidates, target, albums) \subseteq candidates
<1> DEFINE N == Cardinality(candidates)
           p == CHOOSE q : Turns(candidates, target, albums, N, q)
<1>1. N \in Nat
  BY FS_CardinalityType DEF Selectable
<1>2. Turns(candidates, target, albums, N, p)
  <2> HIDE DEF N
  <2> QED
    BY <1>1, TurnsDefined
<1>3. _select_diversified(candidates, target, albums) = p[N].selected
  BY DEF _select_diversified, Turns, Untaken
<1> HIDE DEF p, N
<1> DEFINE Done == {i \in 0 .. N : Selecting(candidates, p[i])}
<1>4. 0 \in Done
  <2>1. p[0] = Untaken(candidates)
    BY <1>1, <1>2, TurnsFrom
  <2>2. Selecting(candidates, p[0])
    BY <2>1 DEF Selecting, Untaken
  <2> QED
    BY <1>1, <2>2
<1>5. ASSUME NEW i \in 0 .. N, i \in Done, i < N
      PROVE  i + 1 \in Done
  <2>1. i + 1 \in 0 .. N /\ i + 1 # 0 /\ (i + 1) - 1 = i
    BY <1>1, <1>5
  <2>2. p[i + 1] = TakeBest(p[(i + 1) - 1], target, albums)
    <3> DEFINE j == i + 1
    <3>1. j \in 0 .. N /\ j # 0
      BY <2>1
    <3> HIDE DEF Done, j
    <3>2. p[j] = TakeBest(p[j - 1], target, albums)
      BY <1>1, <1>2, <3>1, TurnsNext
    <3> QED
      BY <3>2 DEF j
  <2>3. Selecting(candidates, p[i + 1])
    BY <1>5, <2>1, <2>2, TakeAmong
  <2> QED
    BY <2>1, <2>3
<1>6. N \in Done
  <2> HIDE DEF Done
  <2>1. 0 .. N \subseteq Done
    BY <1>1, <1>4, <1>5, CountingUp
  <2> QED
    BY <1>1, <2>1
<1> QED
  BY <1>3, <1>6 DEF Selecting

----------------------------------------------------------------------------
(* The pool.                                                                *)

\* Candidates can be selected from: they are finitely many, between artists.
LEMMA CandidatesSelectable ==
  ASSUME NEW corpus, Edged(corpus), NEW albums, CatalogueOK(albums)
  PROVE  /\ Selectable(_one_hop_candidates(corpus, albums))
         /\ Selectable(_two_hop_candidates(corpus, albums))
<1>1. ASSUME NEW r, TrueOf(corpus, albums, r) PROVE r.walk[1] \in Nat /\ Last(r.walk) \in Nat
  BY <1>1, ArtistsAreIds DEF TrueOf, CatalogueOK
<1>2. /\ \A r \in _one_hop_candidates(corpus, albums) : TrueOf(corpus, albums, r)
      /\ \A r \in _two_hop_candidates(corpus, albums) : TrueOf(corpus, albums, r)
  BY OneHopsTrue, TwoHopsTrue
<1> QED
  BY <1>1, <1>2, CandidatesFinite DEF Selectable

\* A route of the pool is one of the candidates, with distractors.
LEMMA PooledCandidate ==
  ASSUME NEW corpus, Edged(corpus), NEW albums, CatalogueOK(albums),
         NEW r \in generate_round_pool(corpus, albums)
  PROVE  \E c, connected :
           /\ TrueOf(corpus, albums, c) /\ r.walk = c.walk /\ r.hops = c.hops
           /\ NeighborPairs(corpus, albums) \subseteq connected
           /\ r.distractors = _distractors(albums, c, connected)
<1> DEFINE one_hop == _one_hop_candidates(corpus, albums)
           two_hop == _two_hop_candidates(corpus, albums)
           connected == NeighborPairs(corpus, albums)
                          \cup {<<q.walk[1], q.walk[3]>> : q \in two_hop}
           selected == _select_diversified(one_hop, OneHopRoutes, albums)
                         \cup _select_diversified(two_hop, TwoHopRoutes, albums)
           Pooled(c) == [walk |-> c.walk, hops |-> c.hops,
                         albums |-> <<albums[c.walk[1]], albums[Last(c.walk)]>>,
                         distractors |-> _distractors(albums, c, connected)]
<1>1. generate_round_pool(corpus, albums) = {Pooled(c) : c \in selected}
  BY DEF generate_round_pool
<1>2. NeighborPairs(corpus, albums) \subseteq connected
  OBVIOUS
<1>3. selected \subseteq one_hop \cup two_hop
  BY CandidatesSelectable, SelectedAmong
<1>4. \A c \in one_hop \cup two_hop : TrueOf(corpus, albums, c)
  BY OneHopsTrue, TwoHopsTrue
<1> HIDE DEF one_hop, two_hop, connected, selected
<1>5. PICK c \in selected : r = Pooled(c)
  BY <1>1
<1>6. /\ r.walk = c.walk /\ r.hops = c.hops
      /\ r.distractors = _distractors(albums, c, connected)
  BY <1>5
<1>7. TrueOf(corpus, albums, c)
  BY <1>3, <1>4
<1> QED
  BY <1>2, <1>6, <1>7

\* A published route is true of its corpus, and a record that is a distractor of it is by
\* an artist who is no neighbour of the first one.
LEMMA PublishedRoute ==
  ASSUME NEW corpus, Edged(corpus), NEW albums, CatalogueOK(albums),
         NEW r \in build_record_routes_pool(corpus, albums).routes
  PROVE  /\ r.walk[1] \in DOMAIN albums
         /\ \A i \in DOMAIN r.hops : /\ r.hops[i].artists \in DOMAIN corpus.edges
                                     /\ r.hops[i].release = corpus.edges[r.hops[i].artists]
         /\ Len(r.walk) = 3 => {r.walk[1], r.walk[3]} \notin DOMAIN corpus.edges
         /\ \A x \in DOMAIN albums :
              albums[x] \in r.distractors => {r.walk[1], x} \notin DOMAIN corpus.edges
<1> DEFINE matched == [x \in {y \in DOMAIN albums : albums[y] \notin RefusedReleases} |-> albums[x]]
           pool == build_rounds_v1(matched, generate_round_pool(corpus, matched))
<1>1. build_record_routes_pool(corpus, albums) = pool /\ ~DuplicateAlbums(pool)
  <2>1. r \notin NoRoutes.routes
    BY DEF NoRoutes
  <2>2. build_record_routes_pool(corpus, albums) # NoRoutes
    BY <2>1
  <2> QED
    BY <2>2 DEF build_record_routes_pool
<1>2. \A x : x \in DOMAIN matched <=> x \in DOMAIN albums /\ albums[x] \notin RefusedReleases
  OBVIOUS
<1>3. \A x \in DOMAIN matched : matched[x] = albums[x]
  OBVIOUS
<1> HIDE DEF matched
<1>4. CatalogueOK(matched)
  BY <1>2, FS_Subset DEF CatalogueOK
<1>5. r \in generate_round_pool(corpus, matched)
  BY <1>1 DEF build_rounds_v1
<1>6. PICK c, connected :
        /\ TrueOf(corpus, matched, c) /\ r.walk = c.walk /\ r.hops = c.hops
        /\ NeighborPairs(corpus, matched) \subseteq connected
        /\ r.distractors = _distractors(matched, c, connected)
  BY <1>4, <1>5, PooledCandidate
<1>7. ASSUME NEW x \in DOMAIN albums, albums[x] \in r.distractors
      PROVE  {r.walk[1], x} \notin DOMAIN corpus.edges
  <2> DEFINE first == c.walk[1]
             free == {y \in (DOMAIN matched) \ Ends(c) :
                        <<first, y>> \notin connected /\ <<y, first>> \notin connected}
  <2>1. r.distractors \subseteq {matched[y] : y \in free}
    BY <1>6 DEF _distractors, LowestOf
  <2>2. PICK y \in free : albums[x] = matched[y]
    BY <1>7, <2>1
  <2>3. x \in DOMAIN matched /\ y \in DOMAIN matched /\ matched[x] = matched[y]
    BY <1>2, <1>3, <2>2
  <2>4. x = y
    <3> DEFINE used == UNION {UsedAlbums(q) : q \in generate_round_pool(corpus, matched)}
    <3>1. matched[x] \in used
      BY <1>3, <1>5, <1>7, <2>3 DEF UsedAlbums
    <3>2. /\ pool.albums = [z \in {w \in DOMAIN matched : matched[w] \in used} |-> matched[z]]
      BY DEF build_rounds_v1
    <3> HIDE DEF used, pool
    <3>3. /\ x \in DOMAIN pool.albums /\ y \in DOMAIN pool.albums
          /\ pool.albums[x] = pool.albums[y]
      BY <2>3, <3>1, <3>2
    <3> QED
      BY <1>1, <3>3 DEF DuplicateAlbums
  <2>5. /\ first \in DOMAIN matched /\ y # first
        /\ <<first, y>> \notin NeighborPairs(corpus, matched)
        /\ <<y, first>> \notin NeighborPairs(corpus, matched)
    BY <1>6, <2>2 DEF TrueOf, Ends
  <2>6. first \in Nat /\ y \in Nat
    BY <1>4, <2>3, <2>5, ArtistsAreIds DEF CatalogueOK
  <2> HIDE DEF first
  <2>7. <<first, y>> \in ArtistPairs(matched) \/ <<y, first>> \in ArtistPairs(matched)
    <3>1. first < y \/ y < first
      BY <2>5, <2>6
    <3> QED
      BY <2>3, <2>5, <3>1 DEF ArtistPairs
  <2>8. {first, y} \notin DOMAIN corpus.edges
    <3>1. {y, first} = {first, y}
      OBVIOUS
    <3> QED
      BY <2>5, <2>7, <3>1 DEF NeighborPairs
  <2> QED
    BY <1>6, <2>4, <2>8 DEF first
<1> QED
  BY <1>2, <1>6, <1>7 DEF TrueOf

\* The neighbours of a corpus are joined by its edges, and its edges are those of its dump
\* on the same releases; what is no edge of the corpus is none of the dump at the frontier.
LEMMA CorpusEdges ==
  ASSUME NEW d \in AllDumps, NEW seed \in Seeds
  PROVE  /\ Edged(Corpora[d][seed])
         /\ \A e \in DOMAIN Corpora[d][seed].edges :
              e \in EdgesOn(RowsOf(Credits[d], Corpora[d][seed].edges[e]))
         /\ \A e \in DOMAIN Whole[d].edges :
              e \cap Frontiers[d][seed] # {} => e \in DOMAIN Corpora[d][seed].edges
<1> DEFINE credits == Credits[d]
           kept == OneHopCredits(credits, seed)
           corpus == Corpora[d][seed]
<1>1. /\ corpus = CreditGraph(kept) /\ Whole[d] = CreditGraph(credits)
      /\ Frontiers[d][seed] = frontier_artists(credits, seed)
  BY CorporaAre
<1>2. Regular(credits) /\ Regular(kept)
  BY DumpsRegular, CorpusRegular
<1>3. Linking(corpus)
  BY CorporaLink
<1> HIDE DEF credits, kept, corpus
<1>4. /\ corpus.edges = credit_edges(kept) /\ DOMAIN credit_edges(kept) = Linked(kept)
      /\ Whole[d].edges = credit_edges(credits)
  BY <1>1 DEF CreditGraph, credit_edges
<1>5. Edged(corpus)
  <2> SUFFICES ASSUME NEW a, NEW b \in neighbors(corpus, a)
               PROVE  b \in Artists /\ {a, b} \in DOMAIN corpus.edges
    BY DEF Edged
  <2>1. {a, b} \in Linked(kept)
    BY <1>1, <1>2, NeighborsAreLinked
  <2> QED
    BY <1>3, <1>4, <2>1 DEF Linking
<1>6. ASSUME NEW e \in DOMAIN corpus.edges
      PROVE  e \in EdgesOn(RowsOf(credits, corpus.edges[e]))
  <2>1. corpus.edges[e] = EvidenceRelease(kept, e) /\ e \in Linked(kept)
    BY <1>4 DEF credit_edges
  <2>2. EvidenceRelease(kept, e) \in Evidence(kept, e)
    BY <1>2, <2>1, EvidenceIsNat
  <2>3. Evidence(kept, e) \subseteq Evidence(credits, e)
    BY <1>2, EvidenceKept DEF kept
  <2> QED
    BY <2>1, <2>2, <2>3 DEF Evidence
<1>7. ASSUME NEW e \in DOMAIN Whole[d].edges, e \cap Frontiers[d][seed] # {}
      PROVE  e \in DOMAIN corpus.edges
  <2>1. e \in DOMAIN credit_edges(OneHopCredits(credits, seed))
    BY <1>1, <1>2, <1>4, <1>7, FrontierEdges
  <2> QED
    BY <1>4, <2>1 DEF kept
<1> QED
  BY <1>5, <1>6, <1>7 DEF credits, corpus

\* The records resolved are of finitely many artists.
LEMMA RecordsOK ==
  ASSUME NEW entries, OnePerArtist(entries)
  PROVE  CatalogueOK(AlbumByArtist(entries))
<1> DEFINE n == Len(entries)
           artists == {entries[i].artist : i \in DOMAIN entries}
           f == [i \in 1 .. n |-> entries[i].artist]
<1>1. entries \in Seq(Entries) /\ n \in Nat /\ DOMAIN entries = 1 .. n
  BY DEF OnePerArtist
<1>2. \A i \in 1 .. n : entries[i] \in Entries
  BY <1>1, ElementOfSeq
<1>3. artists \subseteq Artists
  BY <1>1, <1>2 DEF Entries
<1>4. DOMAIN AlbumByArtist(entries) = artists
  BY DEF AlbumByArtist
<1>5. f \in Surjection(1 .. n, artists)
  BY <1>1 DEF Surjection
<1> HIDE DEF n, artists, f
<1>6. IsFiniteSet(1 .. n)
  BY <1>1, FS_Interval
<1>7. IsFiniteSet(artists)
  BY <1>5, <1>6, FS_Surjection
<1> QED
  BY <1>3, <1>4, <1>7 DEF CatalogueOK

\* Whatever was resolved, and whichever corpus is in place when the routes are built, the
\* length a player guesses is the true one, every hop is documented by the release it
\* names, and no distractor is one hop from the first record.
THEOREM RoutesTrue == Spec => []RoutesAreTrue
<1>1. ASSUME IInv PROVE RoutesAreTrue
  <2> DEFINE whole(s)    == Whole[dump[s]]
             frontier(s) == Frontiers[dump[s]][seeds[s]]
             albums      == AlbumByArtist(resolved.albums)
             Apart(s, a, b) == {a, b} \cap frontier(s) # {} => {a, b} \notin DOMAIN whole(s).edges
  <2> SUFFICES ASSUME Readable(resolved), NEW s \in Snapshots, InPlace(s),
                      NEW r \in RoutePools[dump[s]][seeds[s]][albums].routes
               PROVE  /\ Len(r.walk) = 3 => Apart(s, r.walk[1], r.walk[3])
                      /\ \A i \in DOMAIN r.hops :
                           LET rows == RowsOf(Credits[dump[s]], r.hops[i].release)
                           IN r.hops[i].artists \in EdgesOn(rows)
                      /\ \A x \in DOMAIN albums :
                           albums[x] \in r.distractors => Apart(s, r.walk[1], x)
    BY DEF RoutesAreTrue
  <2> DEFINE corpus == Corpora[dump[s]][seeds[s]]
  <2>1. dump[s] \in AllDumps /\ seeds[s] \in Seeds
    BY <1>1, InPlaceCorpus DEF IInv
  <2>2. OnePerArtist(resolved.albums) /\ albums \in Catalogued
    BY <1>1 DEF IInv, FilesOK, ResolvedOK
  <2>3. CatalogueOK(albums)
    BY <2>2, RecordsOK
  <2>4. RoutePools[dump[s]][seeds[s]][albums] = build_record_routes_pool(corpus, albums)
    BY <2>1, <2>2 DEF RoutePools
  <2>5. /\ Edged(corpus)
        /\ \A e \in DOMAIN corpus.edges : e \in EdgesOn(RowsOf(Credits[dump[s]], corpus.edges[e]))
        /\ \A e \in DOMAIN whole(s).edges : e \cap frontier(s) # {} => e \in DOMAIN corpus.edges
    BY <2>1, CorpusEdges
  <2> HIDE DEF corpus, albums, whole, frontier
  <2>6. /\ \A i \in DOMAIN r.hops : /\ r.hops[i].artists \in DOMAIN corpus.edges
                                     /\ r.hops[i].release = corpus.edges[r.hops[i].artists]
        /\ Len(r.walk) = 3 => {r.walk[1], r.walk[3]} \notin DOMAIN corpus.edges
        /\ \A x \in DOMAIN albums :
             albums[x] \in r.distractors => {r.walk[1], x} \notin DOMAIN corpus.edges
    BY <2>3, <2>4, <2>5, PublishedRoute
  <2> QED
    BY <2>5, <2>6
<1> QED
  BY <1>1, Invariance, PTL

----------------------------------------------------------------------------
(* Iteration, and lists that grow by one album at a time.                   *)

\* A function whose values follow one another by some steps, each within a set of its own.
Iterated(p, N, S, step, start) ==
  /\ DOMAIN p = 0 .. N /\ p = [n \in 0 .. N |-> p[n]]
  /\ p[0] = start
  /\ \A n \in 1 .. N : p[n] = step[n][p[n - 1]]
  /\ \A n \in 0 .. N : p[n] \in S[n]

\* Such a recursion has a solution, if the steps stay within the sets.
LEMMA Iterates ==
  ASSUME NEW N \in Nat, NEW S, NEW step, NEW start, start \in S[0],
         \A n \in 1 .. N : \A x \in S[n - 1] : step[n][x] \in S[n]
  PROVE  \E p : Iterated(p, N, S, step, start)
<1> DEFINE Solved == {k \in 0 .. N : \E p : Iterated(p, k, S, step, start)}
<1>1. 0 \in Solved
  <2> DEFINE p == [n \in 0 .. 0 |-> start]
  <2>1. Iterated(p, 0, S, step, start)
    BY DEF Iterated
  <2> HIDE DEF p
  <2> QED
    BY <2>1
<1>2. ASSUME NEW k \in 0 .. N, k \in Solved, k < N
      PROVE  k + 1 \in Solved
  <2>0. PICK p : Iterated(p, k, S, step, start)
    BY <1>2
  <2>1. /\ p[0] = start
        /\ \A n \in 1 .. k : p[n] = step[n][p[n - 1]]
        /\ \A n \in 0 .. k : p[n] \in S[n]
    BY <2>0 DEF Iterated
  <2> DEFINE q == [n \in 0 .. k + 1 |-> IF n = k + 1 THEN step[n][p[k]] ELSE p[n]]
  <2>2. /\ q[k + 1] = step[k + 1][p[k]]
        /\ \A n \in 0 .. k : q[n] = p[n]
    OBVIOUS
  <2>3. DOMAIN q = 0 .. k + 1 /\ q = [n \in 0 .. k + 1 |-> q[n]]
    OBVIOUS
  <2> HIDE DEF q
  <2>4. ASSUME NEW n \in 1 .. k + 1
        PROVE  q[n] = step[n][q[n - 1]]
    <3>1. CASE n = k + 1
      BY <2>2, <3>1
    <3>2. CASE n # k + 1
      <4>1. n \in 1 .. k /\ n \in 0 .. k /\ n - 1 \in 0 .. k
        BY <3>2
      <4> QED
        BY <2>1, <2>2, <4>1
    <3> QED
      BY <3>1, <3>2
  <2>5. ASSUME NEW n \in 0 .. k + 1
        PROVE  q[n] \in S[n]
    <3>1. CASE n = k + 1
      <4>1. p[k] \in S[k] /\ k + 1 \in 1 .. N /\ (k + 1) - 1 = k
        BY <1>2, <2>1
      <4>2. step[k + 1][p[k]] \in S[k + 1]
        BY <4>1
      <4> QED
        BY <2>2, <3>1, <4>2
    <3>2. CASE n # k + 1
      BY <2>1, <2>2, <3>2
    <3> QED
      BY <3>1, <3>2
  <2>6. q[0] = start
    BY <2>1, <2>2
  <2>7. Iterated(q, k + 1, S, step, start)
    BY <2>3, <2>4, <2>5, <2>6 DEF Iterated
  <2> QED
    BY <1>2, <2>7
<1> HIDE DEF Solved
<1>3. 0 .. N \subseteq Solved
  BY <1>1, <1>2, CountingUp
<1> QED
  BY <1>3 DEF Solved

\* What starts within and stays within ends within.
LEMMA StaysWithin ==
  ASSUME NEW N \in Nat, NEW S, NEW f, f[0] \in S[0],
         \A n \in 1 .. N : f[n - 1] \in S[n - 1] => f[n] \in S[n]
  PROVE  \A n \in 0 .. N : f[n] \in S[n]
<1> DEFINE Done == {n \in 0 .. N : f[n] \in S[n]}
<1>1. ASSUME NEW n \in 0 .. N, n \in Done, n < N
      PROVE  n + 1 \in Done
  <2>1. n + 1 \in 1 .. N /\ (n + 1) - 1 = n
    BY <1>1
  <2> QED
    BY <1>1, <2>1
<1>2. 0 \in Done
  OBVIOUS
<1> HIDE DEF Done
<1>3. 0 .. N \subseteq Done
  BY <1>1, <1>2, CountingUp
<1> QED
  BY <1>3 DEF Done

\* No two albums of a list have one master.
Distinct(albums) ==
  \A i, j \in DOMAIN albums : albums[i].master = albums[j].master => i = j

\* A list with one more album.
LEMMA OneMore ==
  ASSUME NEW U, NEW albums \in Seq(U), NEW x \in U
  PROVE  /\ Append(albums, x) \in Seq(U) /\ Append(albums, x) # <<>>
         /\ ToSet(Append(albums, x)) = ToSet(albums) \cup {x}
         /\ Distinct(albums) /\ x.master \notin MastersIn(albums) => Distinct(Append(albums, x))
<1> DEFINE more == Append(albums, x)
           n == Len(albums)
<1>1. /\ more \in Seq(U) /\ Len(more) = n + 1 /\ n \in Nat /\ more # <<>>
      /\ DOMAIN albums = 1 .. n /\ DOMAIN more = 1 .. n + 1
      /\ more[n + 1] = x
      /\ \A i \in 1 .. n : more[i] = albums[i]
  BY AppendProperties, LenProperties
<1> HIDE DEF more, n
<1>2. ToSet(more) = ToSet(albums) \cup {x}
  BY <1>1 DEF ToSet
<1>3. ASSUME Distinct(albums), x.master \notin MastersIn(albums)
      PROVE  Distinct(more)
  <2>1. \A i \in 1 .. n : albums[i].master # x.master
    BY <1>1, <1>3 DEF MastersIn, ToSet
  <2> SUFFICES ASSUME NEW i \in 1 .. n + 1, NEW j \in 1 .. n + 1,
                      more[i].master = more[j].master
               PROVE  i = j
    BY <1>1 DEF Distinct
  <2>2. CASE i \in 1 .. n /\ j \in 1 .. n
    BY <1>1, <1>3, <2>2 DEF Distinct
  <2>3. CASE i = n + 1 \/ j = n + 1
    <3>1. i \in 1 .. n \/ i = n + 1
      BY <1>1
    <3>2. j \in 1 .. n \/ j = n + 1
      BY <1>1
    <3> QED
      BY <1>1, <2>1, <2>3, <3>1, <3>2
  <2> QED
    BY <1>1, <2>2, <2>3
<1> QED
  BY <1>1, <1>2, <1>3 DEF more

\* What so many entries of a group leave of a list: it keeps what it had, gains eligible
\* ones of the group, and has the master, or the artist, of each that it did not gain.
Grown(kept, group, unique, n, albums) ==
  /\ Distinct(albums) /\ (kept # <<>> => albums # <<>>)
  /\ ToSet(kept) \subseteq ToSet(albums)
  /\ \A x \in ToSet(albums) :
       x \in ToSet(kept) \/ (x \in ToSet(group) /\ release_eligible(x.release, x.master))
  /\ \A i \in 1 .. n :
       \/ ~release_eligible(group[i].release, group[i].master)
       \/ \E y \in ToSet(albums) :
            y.master = group[i].master \/ (unique /\ y.artist = group[i].artist)

\* The next entry of a group is kept, unless it is there.
LEMMA GrowsOn ==
  ASSUME NEW kept, NEW U, NEW group \in Seq(U), NEW unique \in BOOLEAN, NEW n \in 1 .. Len(group),
         NEW albums \in Seq(U), Grown(kept, group, unique, n - 1, albums)
  PROVE  /\ WithResolved(albums, group[n], unique) \in Seq(U)
         /\ Grown(kept, group, unique, n, WithResolved(albums, group[n], unique))
<1> DEFINE x == group[n]
           more == WithResolved(albums, x, unique)
<1>1. x \in U /\ x \in ToSet(group)
  <2>1. x \in U /\ n \in DOMAIN group
    BY ElementOfSeq, LenProperties
  <2> QED
    BY <2>1 DEF ToSet
<1>2. Len(group) \in Nat /\ (\A i \in 1 .. n : i \in 1 .. n - 1 \/ i = n)
  BY LenProperties
<1> HIDE DEF x, more
<1>3. CASE \/ x.master \in MastersIn(albums) \/ ~release_eligible(x.release, x.master)
           \/ unique /\ x.artist \in ArtistsIn(albums)
  <2>1. more = albums
    BY <1>3 DEF WithResolved, more
  <2>2. \/ ~release_eligible(x.release, x.master)
        \/ \E y \in ToSet(albums) : y.master = x.master \/ (unique /\ y.artist = x.artist)
    BY <1>3 DEF MastersIn, ArtistsIn
  <2>3. Grown(kept, group, unique, n, albums)
    BY <1>2, <2>2 DEF Grown, x
  <2> QED
    BY <2>1, <2>3 DEF more, x
<1>4. CASE ~(\/ x.master \in MastersIn(albums) \/ ~release_eligible(x.release, x.master)
             \/ unique /\ x.artist \in ArtistsIn(albums))
  <2>1. more = Append(albums, x)
    BY <1>4 DEF WithResolved, more
  <2>2. /\ more \in Seq(U) /\ more # <<>> /\ ToSet(more) = ToSet(albums) \cup {x}
        /\ Distinct(more)
    BY <1>1, <1>4, <2>1, OneMore DEF Grown
  <2>3. \A i \in 1 .. n :
          \/ ~release_eligible(group[i].release, group[i].master)
          \/ \E y \in ToSet(more) :
               y.master = group[i].master \/ (unique /\ y.artist = group[i].artist)
    <3> SUFFICES ASSUME NEW i \in 1 .. n, release_eligible(group[i].release, group[i].master)
                 PROVE  \E y \in ToSet(more) :
                          y.master = group[i].master \/ (unique /\ y.artist = group[i].artist)
      OBVIOUS
    <3>1. CASE i = n
      BY <2>2, <3>1 DEF x
    <3>2. CASE i \in 1 .. n - 1
      BY <2>2, <3>2 DEF Grown
    <3> QED
      BY <1>2, <3>1, <3>2
  <2>4. Grown(kept, group, unique, n, more)
    BY <1>1, <1>4, <2>2, <2>3 DEF Grown
  <2> QED
    BY <2>2, <2>4 DEF more, x
<1> QED
  BY <1>3, <1>4

\* A group is processed: a list grows by it.
LEMMA GroupGrows ==
  ASSUME NEW U, NEW kept \in Seq(U), NEW group \in Seq(U), NEW unique \in BOOLEAN, Distinct(kept)
  PROVE  /\ _process_pre_resolved_group(kept, group, unique) \in Seq(U)
         /\ Grown(kept, group, unique, Len(group),
                  _process_pre_resolved_group(kept, group, unique))
<1> DEFINE N == Len(group)
           S == [n \in 0 .. N |-> {d \in Seq(U) : Grown(kept, group, unique, n, d)}]
           step == [n \in 1 .. N |-> [d \in S[n - 1] |-> WithResolved(d, group[n], unique)]]
           Solves(p) == p = [n \in 0 .. N |->
                               IF n = 0 THEN kept ELSE WithResolved(p[n - 1], group[n], unique)]
           f == CHOOSE p : Solves(p)
<1>1. N \in Nat
  BY LenProperties
<1>2. kept \in S[0]
  <2>1. Grown(kept, group, unique, 0, kept)
    BY DEF Grown
  <2> QED
    BY <1>1, <2>1
<1>3. ASSUME NEW n \in 1 .. N, NEW d \in S[n - 1]
      PROVE  WithResolved(d, group[n], unique) \in S[n]
  <2>1. n - 1 \in 0 .. N /\ n \in 0 .. N
    BY <1>1
  <2>2. d \in Seq(U) /\ Grown(kept, group, unique, n - 1, d)
    BY <2>1
  <2>3. /\ WithResolved(d, group[n], unique) \in Seq(U)
        /\ Grown(kept, group, unique, n, WithResolved(d, group[n], unique))
    BY <2>2, GrowsOn
  <2> QED
    BY <2>1, <2>3
<1>4. \E p : Solves(p)
  <2>1. \A n \in 1 .. N : \A d \in S[n - 1] : step[n][d] = WithResolved(d, group[n], unique)
    OBVIOUS
  <2>2. \A n \in 1 .. N : \A d \in S[n - 1] : step[n][d] \in S[n]
    <3> HIDE DEF S, step, N
    <3> QED
      BY <1>3, <2>1
  <2> HIDE DEF S, step, Solves, N
  <2>0. PICK p : Iterated(p, N, S, step, kept)
    BY <1>1, <1>2, <2>2, Iterates
  <2>3. /\ p[0] = kept /\ p = [n \in 0 .. N |-> p[n]]
        /\ \A n \in 1 .. N : p[n] = step[n][p[n - 1]]
        /\ \A n \in 0 .. N : p[n] \in S[n]
    BY <2>0 DEF Iterated
  <2>4. ASSUME NEW n \in 0 .. N
        PROVE  p[n] = IF n = 0 THEN kept ELSE WithResolved(p[n - 1], group[n], unique)
    <3>1. CASE n = 0
      BY <2>3, <3>1
    <3>2. CASE n # 0
      <4>1. n \in 1 .. N /\ n - 1 \in 0 .. N
        BY <1>1, <3>2
      <4>2. p[n] = WithResolved(p[n - 1], group[n], unique)
        BY <2>1, <2>3, <4>1
      <4> QED
        BY <3>2, <4>2
    <3> QED
      BY <3>1, <3>2
  <2>5. Solves(p)
    BY <2>3, <2>4 DEF Solves
  <2> QED
    BY <2>5
<1>5. Solves(f)
  <2> HIDE DEF Solves
  <2> QED
    BY <1>4
<1>6. _process_pre_resolved_group(kept, group, unique) = f[N]
  BY DEF _process_pre_resolved_group
<1> HIDE DEF f, S, N, step
<1>7. f[0] = kept
  BY <1>1, <1>5
<1>8. ASSUME NEW n \in 1 .. N PROVE f[n] = WithResolved(f[n - 1], group[n], unique)
  <2>1. n \in 0 .. N /\ n # 0
    BY <1>1
  <2>2. f[n] = IF n = 0 THEN kept ELSE WithResolved(f[n - 1], group[n], unique)
    BY <1>5, <2>1, Zenon
  <2> QED
    BY <2>1, <2>2
<1> HIDE DEF Solves
<1>9. f[N] \in S[N]
  <2>1. \A n \in 1 .. N : f[n - 1] \in S[n - 1] => f[n] \in S[n]
    BY <1>3, <1>8
  <2>2. \A n \in 0 .. N : f[n] \in S[n]
    BY <1>1, <1>2, <1>7, <2>1, StaysWithin
  <2> QED
    BY <1>1, <2>2
<1> QED
  BY <1>1, <1>6, <1>9 DEF S, N

\* What ranked candidates leave of a list: it keeps what it had.
Filled(kept, candidates, albums) ==
  /\ Distinct(albums) /\ (kept # <<>> => albums # <<>>)
  /\ ToSet(kept) \subseteq ToSet(albums)
  /\ candidates = {} => albums = kept

\* A ranked candidate is added, or nothing is.
LEMMA FillsOn ==
  ASSUME NEW V, NEW kept, NEW candidates, candidates # {}, NEW albums \in Seq(V),
         Filled(kept, candidates, albums), NEW x \in V, NEW target
  PROVE  /\ WithCandidate(albums, x, target) \in Seq(V)
         /\ Filled(kept, candidates, WithCandidate(albums, x, target))
<1>1. CASE \/ Len(albums) >= target \/ x.artist \in ArtistsIn(albums)
           \/ x.master \in MasterExclusions \cup MastersIn(albums)
  <2>1. WithCandidate(albums, x, target) = albums
    BY <1>1 DEF WithCandidate
  <2> QED
    BY <2>1
<1>2. CASE ~(\/ Len(albums) >= target \/ x.artist \in ArtistsIn(albums)
             \/ x.master \in MasterExclusions \cup MastersIn(albums))
  <2>1. WithCandidate(albums, x, target) = Append(albums, x)
    BY <1>2 DEF WithCandidate
  <2>2. x.master \notin MastersIn(albums)
    BY <1>2
  <2>3. /\ Append(albums, x) \in Seq(V) /\ Append(albums, x) # <<>>
        /\ ToSet(Append(albums, x)) = ToSet(albums) \cup {x}
        /\ Distinct(Append(albums, x))
    BY <2>2, OneMore DEF Filled
  <2> QED
    BY <2>1, <2>3 DEF Filled
<1> QED
  BY <1>1, <1>2

\* A list is filled up.
LEMMA FillKeeps ==
  ASSUME NEW U, NEW kept \in Seq(U), Distinct(kept), NEW candidates, IsFiniteSet(candidates),
         NEW target
  PROVE  Filled(kept, candidates, _fill_with_candidates(kept, candidates, target))
<1> DEFINE N == Cardinality(candidates)
           ranked == Ranked(candidates)
           V == U \cup {ranked[n] : n \in 1 .. N}
           S == [n \in 0 .. N |-> {d \in Seq(V) : Filled(kept, candidates, d)}]
           step == [n \in 1 .. N |-> [d \in S[n - 1] |-> WithCandidate(d, ranked[n], target)]]
           Solves(p) == p = [n \in 0 .. N |->
                               IF n = 0 THEN kept ELSE WithCandidate(p[n - 1], ranked[n], target)]
           f == CHOOSE p : Solves(p)
<1>1. N \in Nat /\ (N = 0 <=> candidates = {})
  BY FS_CardinalityType, FS_EmptySet
<1>2. kept \in S[0]
  <2>1. kept \in Seq(V)
    <3>1. U \subseteq V
      OBVIOUS
    <3> HIDE DEF V
    <3> QED
      BY <3>1, SeqMonotonic
  <2>2. Filled(kept, candidates, kept)
    BY DEF Filled
  <2> HIDE DEF V
  <2> QED
    BY <1>1, <2>1, <2>2
<1>3. ASSUME NEW n \in 1 .. N, NEW d \in S[n - 1]
      PROVE  WithCandidate(d, ranked[n], target) \in S[n]
  <2>1. n - 1 \in 0 .. N /\ n \in 0 .. N /\ candidates # {}
    BY <1>1
  <2>2. ranked[n] \in V
    OBVIOUS
  <2> HIDE DEF V, ranked
  <2>3. d \in Seq(V) /\ Filled(kept, candidates, d)
    BY <2>1
  <2>4. /\ WithCandidate(d, ranked[n], target) \in Seq(V)
        /\ Filled(kept, candidates, WithCandidate(d, ranked[n], target))
    BY <2>1, <2>2, <2>3, FillsOn
  <2> QED
    BY <2>1, <2>4
<1> HIDE DEF V, ranked
<1>4. \E p : Solves(p)
  <2>1. \A n \in 1 .. N : \A d \in S[n - 1] : step[n][d] = WithCandidate(d, ranked[n], target)
    OBVIOUS
  <2>2. \A n \in 1 .. N : \A d \in S[n - 1] : step[n][d] \in S[n]
    <3> HIDE DEF S, step, N
    <3> QED
      BY <1>3, <2>1
  <2> HIDE DEF S, step, Solves, N
  <2>3. PICK p : Iterated(p, N, S, step, kept)
    BY <1>1, <1>2, <2>2, Iterates
  <2>4. /\ p[0] = kept /\ p = [n \in 0 .. N |-> p[n]]
        /\ \A n \in 1 .. N : p[n] = step[n][p[n - 1]]
        /\ \A n \in 0 .. N : p[n] \in S[n]
    BY <2>3 DEF Iterated
  <2>5. ASSUME NEW n \in 0 .. N
        PROVE  p[n] = IF n = 0 THEN kept ELSE WithCandidate(p[n - 1], ranked[n], target)
    <3>1. CASE n = 0
      BY <2>4, <3>1
    <3>2. CASE n # 0
      <4>1. n \in 1 .. N /\ n - 1 \in 0 .. N
        BY <1>1, <3>2
      <4>2. p[n] = WithCandidate(p[n - 1], ranked[n], target)
        BY <2>1, <2>4, <4>1
      <4> QED
        BY <3>2, <4>2
    <3> QED
      BY <3>1, <3>2
  <2>6. Solves(p)
    BY <2>4, <2>5 DEF Solves
  <2> QED
    BY <2>6
<1>5. Solves(f)
  <2> HIDE DEF Solves
  <2> QED
    BY <1>4
<1>6. _fill_with_candidates(kept, candidates, target) = f[N]
  BY DEF _fill_with_candidates, ranked
<1> HIDE DEF f, S, N, step
<1>7. f[0] = kept
  BY <1>1, <1>5
<1>8. ASSUME NEW n \in 1 .. N PROVE f[n] = WithCandidate(f[n - 1], ranked[n], target)
  <2>1. n \in 0 .. N /\ n # 0
    BY <1>1
  <2>2. f[n] = IF n = 0 THEN kept ELSE WithCandidate(f[n - 1], ranked[n], target)
    BY <1>5, <2>1, Zenon
  <2> QED
    BY <2>1, <2>2
<1> HIDE DEF Solves
<1>9. f[N] \in S[N]
  <2>1. \A n \in 1 .. N : f[n - 1] \in S[n - 1] => f[n] \in S[n]
    BY <1>3, <1>8
  <2>2. \A n \in 0 .. N : f[n] \in S[n]
    BY <1>1, <1>2, <1>7, <2>1, StaysWithin
  <2> QED
    BY <1>1, <2>2
<1> QED
  BY <1>1, <1>6, <1>9 DEF S

\* No query has no match.
LEMMA NothingMatched ==
  ASSUME NEW corpus
  PROVE  match_albums(corpus, <<>>) = <<>>
<1> DEFINE Solves(p) == p = [n \in 0 .. 0 |->
                               IF n = 0 THEN <<>> ELSE WithMatch(corpus, p[n - 1], <<>>[n])]
           f == CHOOSE p : Solves(p)
           q == [n \in 0 .. 0 |-> <<>>]
<1>1. q = [n \in 0 .. 0 |-> IF n = 0 THEN <<>> ELSE WithMatch(corpus, q[n - 1], <<>>[n])]
  OBVIOUS
<1>2. Solves(q)
  <2> HIDE DEF q
  <2> QED
    BY <1>1
<1>3. Solves(f)
  <2> HIDE DEF Solves, q
  <2> QED
    BY <1>2
<1>4. Len(<<>>) = 0
  OBVIOUS
<1>5. match_albums(corpus, <<>>) = f[0]
  BY <1>4 DEF match_albums
<1> HIDE DEF f
<1>6. f[0] = IF 0 = 0 THEN <<>> ELSE WithMatch(corpus, f[0 - 1], <<>>[0])
  <2>1. 0 \in 0 .. 0
    OBVIOUS
  <2> QED
    BY <1>3, <2>1, Zenon
<1> QED
  BY <1>5, <1>6

\* How a catalogue is assembled without editorial and coverage lanes: lane by lane.
LEMMA Assembled ==
  ASSUME NEW corpus, NEW U, NEW personal \in Seq(U), NEW published \in Seq(U), NEW rich \in Seq(U),
         NEW candidates, IsFiniteSet(candidates), NEW target
  PROVE  \E a, b, c \in Seq(U) :
           /\ Grown(<<>>, personal, FALSE, Len(personal), a)
           /\ Grown(a, published, FALSE, Len(published), b)
           /\ Grown(b, rich, TRUE, Len(rich), c)
           /\ Filled(c, candidates,
                assemble_album_catalog(corpus, Lanes(<<>>, personal, published, rich, <<>>),
                                       candidates, target))
<1> DEFINE a == AsGiven(<<>>, personal)
           b == AsGiven(a, published)
           c == Automatic(Automatic(b, rich), <<>>)
           d == Automatic(b, rich)
<1>1. <<>> \in Seq(U) /\ Distinct(<<>>) /\ Len(<<>>) = 0 /\ ToSet(<<>>) = {}
  BY EmptySeq DEF Distinct, ToSet
<1>2. a \in Seq(U) /\ Grown(<<>>, personal, FALSE, Len(personal), a)
  BY <1>1, GroupGrows DEF AsGiven
<1> HIDE DEF a
<1>3. b \in Seq(U) /\ Grown(a, published, FALSE, Len(published), b)
  BY <1>2, GroupGrows DEF AsGiven, Grown
<1> HIDE DEF b
<1>4. d \in Seq(U) /\ Grown(b, rich, TRUE, Len(rich), d)
  <2>1. Distinct(b)
    BY <1>3 DEF Grown
  <2> QED
    BY <1>3, <2>1, GroupGrows DEF Automatic
<1>5. c \in Seq(U) /\ Grown(d, <<>>, TRUE, 0, c)
  <2>1. Distinct(d)
    BY <1>4 DEF Grown
  <2> HIDE DEF d
  <2>2. Automatic(d, <<>>) \in Seq(U) /\ Grown(d, <<>>, TRUE, 0, Automatic(d, <<>>))
    BY <1>1, <1>4, <2>1, GroupGrows DEF Automatic
  <2> QED
    BY <2>2 DEF d
<1>6. assemble_album_catalog(corpus, Lanes(<<>>, personal, published, rich, <<>>),
                             candidates, target) = _fill_with_candidates(c, candidates, target)
  BY NothingMatched DEF assemble_album_catalog, Lanes, a, b
<1> HIDE DEF c, d
<1>7. ToSet(c) = ToSet(d)
  BY <1>1, <1>5 DEF Grown
<1>8. Grown(b, rich, TRUE, Len(rich), c)
  BY <1>4, <1>5, <1>7 DEF Grown
<1>9. Distinct(c)
  BY <1>5 DEF Grown
<1>10. Filled(c, candidates, _fill_with_candidates(c, candidates, target))
  BY <1>5, <1>9, FillKeeps
<1> QED
  BY <1>2, <1>3, <1>5, <1>6, <1>8, <1>10

\* A corpus with finitely many credits, on releases that have a master, and edges that join
\* the artists credited.
Bounded(corpus) ==
  /\ Regular(corpus.credits) /\ IsFiniteSet(corpus.credits)
  /\ ReleasesOf(corpus.credits) \subseteq DOMAIN MasterOf
  /\ DOMAIN corpus.edges \subseteq SUBSET ArtistsOf(corpus.credits)

\* Its artists, and the edges there could be between them, are finitely many.
LEMMA ArtistsFinite ==
  ASSUME NEW corpus, Bounded(corpus)
  PROVE  /\ IsFiniteSet(ArtistsOf(corpus.credits))
         /\ IsFiniteSet(SUBSET ArtistsOf(corpus.credits))
<1> DEFINE credits == corpus.credits
           f == [c \in credits |-> c.artist]
<1>1. f \in Surjection(credits, ArtistsOf(credits))
  BY DEF Surjection, ArtistsOf
<1> HIDE DEF f
<1>2. IsFiniteSet(ArtistsOf(credits))
  BY <1>1, FS_Surjection DEF Bounded
<1> QED
  BY <1>2, FS_SUBSET

\* The edges of a scope are those of its releases, each by itself.
LEMMA ScopeEdges ==
  ASSUME NEW corpus, NEW releases, NEW e
  PROVE  e \in edges_for_release_scope(corpus, releases) <=>
           \E r \in releases \cap ReleasesOf(corpus.credits) : e \in EdgesOn(RowsOf(corpus.credits, r))
<1> DEFINE credits == corpus.credits
           scoped == {c \in credits : c.release \in releases}
<1>1. \A r \in releases : RowsOf(scoped, r) = RowsOf(credits, r)
  BY DEF RowsOf, edge_credits
<1>2. \A r : r \in ReleasesOf(scoped) <=> r \in releases \cap ReleasesOf(credits)
  BY DEF ReleasesOf
<1> HIDE DEF scoped, credits
<1>3. e \in Linked(scoped) <=> \E r \in ReleasesOf(scoped) : e \in EdgesOn(RowsOf(scoped, r))
  BY DEF Linked
<1>4. edges_for_release_scope(corpus, releases) = Linked(scoped)
  BY DEF edges_for_release_scope, scoped, credits
<1> QED
  BY <1>1, <1>2, <1>3, <1>4 DEF credits

\* Scopes join, and widen.
LEMMA ScopesJoin ==
  ASSUME NEW corpus, NEW A, NEW B
  PROVE  /\ edges_for_release_scope(corpus, A \cup B) =
              edges_for_release_scope(corpus, A) \cup edges_for_release_scope(corpus, B)
         /\ A \subseteq B =>
              edges_for_release_scope(corpus, A) \subseteq edges_for_release_scope(corpus, B)
BY ScopeEdges

\* The edges of a scope join artists of the corpus.
LEMMA ScopeWithin ==
  ASSUME NEW corpus, Bounded(corpus), NEW releases
  PROVE  /\ edges_for_release_scope(corpus, releases) \in SUBSET SUBSET ArtistsOf(corpus.credits)
         /\ IsFiniteSet(edges_for_release_scope(corpus, releases))
<1>1. ASSUME NEW e \in edges_for_release_scope(corpus, releases)
      PROVE  e \subseteq ArtistsOf(corpus.credits)
  <2>1. PICK r : e \in EdgesOn(RowsOf(corpus.credits, r))
    BY ScopeEdges
  <2> QED
    BY <2>1, EdgeEnds DEF Bounded
<1>2. edges_for_release_scope(corpus, releases) \in SUBSET SUBSET ArtistsOf(corpus.credits)
  BY <1>1
<1> QED
  BY <1>2, ArtistsFinite, FS_Subset

\* The edges that are new to a scope are finitely many, and fewer the wider it is.
LEMMA NewEdgesCount ==
  ASSUME NEW corpus, Bounded(corpus), NEW scope, NEW wider, scope \subseteq wider, NEW f
  PROVE  /\ Cardinality(NewEdges(corpus, scope, f)) \in Nat
         /\ Cardinality(NewEdges(corpus, wider, f)) \in Nat
         /\ Cardinality(NewEdges(corpus, wider, f)) <= Cardinality(NewEdges(corpus, scope, f))
<1> DEFINE E == edges_for_release_scope(corpus, {f.release})
<1>1. IsFiniteSet(E)
  BY ScopeWithin
<1>2. NewEdges(corpus, scope, f) \in SUBSET E /\ NewEdges(corpus, wider, f) \in SUBSET E
  BY DEF NewEdges
<1>3. NewEdges(corpus, wider, f) \in SUBSET NewEdges(corpus, scope, f)
  BY DEF NewEdges
<1> HIDE DEF E
<1>4. IsFiniteSet(NewEdges(corpus, scope, f)) /\ IsFiniteSet(NewEdges(corpus, wider, f))
  BY <1>1, <1>2, FS_Subset
<1> QED
  BY <1>3, <1>4, FS_Subset, FS_CardinalityType

----------------------------------------------------------------------------
(* The best finalist.                                                       *)

\* Keys are compared by their first difference.
LEMMA KeysCompare ==
  ASSUME NEW k, NEW l
  PROVE  KeyBefore(k, l) <=>
           \/ k[1] < l[1]
           \/ k[1] = l[1] /\ k[2] < l[2]
           \/ k[1] = l[1] /\ k[2] = l[2] /\ k[3] < l[3]
           \/ k[1] = l[1] /\ k[2] = l[2] /\ k[3] = l[3] /\ k[4] < l[4]
<1> DEFINE Differ(i) == k[i] < l[i] /\ \A j \in 1 .. i - 1 : k[j] = l[j]
<1>1. KeyBefore(k, l) <=> \E i \in 1 .. 4 : Differ(i)
  BY DEF KeyBefore
<1>2. /\ 1 .. 0 = {} /\ 1 .. 1 = {1} /\ 1 .. 2 = {1, 2} /\ 1 .. 3 = {1, 2, 3}
      /\ 1 .. 4 = {1, 2, 3, 4}
  OBVIOUS
<1>3. Differ(1) <=> k[1] < l[1]
  BY <1>2
<1>4. Differ(2) <=> k[2] < l[2] /\ k[1] = l[1]
  BY <1>2
<1>5. Differ(3) <=> k[3] < l[3] /\ k[1] = l[1] /\ k[2] = l[2]
  BY <1>2
<1>6. Differ(4) <=> k[4] < l[4] /\ k[1] = l[1] /\ k[2] = l[2] /\ k[3] = l[3]
  BY <1>2
<1>7. (\E i \in 1 .. 4 : Differ(i)) <=> Differ(1) \/ Differ(2) \/ Differ(3) \/ Differ(4)
  <2> HIDE DEF Differ
  <2> QED
    BY <1>2
<1> HIDE DEF Differ
<1> QED
  BY <1>1, <1>3, <1>4, <1>5, <1>6, <1>7

\* Finalists that can be compared: finitely many, with a master and a score of their own.
Rated(finalists) ==
  /\ IsFiniteSet(finalists)
  /\ \A f \in finalists : f.master \in Nat /\ f.score \in Nat
  /\ \A f, g \in finalists : f.master = g.master => f = g

\* One finalist comes before another.
Ahead(corpus, scope, f, g) ==
  KeyBefore(SelectionKey(corpus, scope, f), SelectionKey(corpus, scope, g))

\* What the key of a finalist counts.
LEMMA KeyCounts ==
  ASSUME NEW corpus, Bounded(corpus), NEW scope, NEW f
  PROVE  /\ Cardinality(NewEdges(corpus, scope, f)) \in Nat
         /\ Cardinality(NewContributors(corpus, scope, f)) \in Nat
<1> DEFINE E == edges_for_release_scope(corpus, {f.release})
           people == NewContributors(corpus, scope, f)
<1>1. E \in SUBSET SUBSET ArtistsOf(corpus.credits)
  BY ScopeWithin
<1>2. people \in SUBSET ArtistsOf(corpus.credits)
  BY <1>1 DEF NewContributors
<1> HIDE DEF E, people
<1>3. IsFiniteSet(people)
  BY <1>2, ArtistsFinite, FS_Subset
<1>4. Cardinality(people) \in Nat
  BY <1>3, FS_CardinalityType
<1> QED
  BY <1>4, NewEdgesCount DEF people

\* The order of finalists: who is ahead adds at least as many edges.
LEMMA AheadMeans ==
  ASSUME NEW corpus, Bounded(corpus), NEW scope, NEW finalists, Rated(finalists),
         NEW f \in finalists, NEW g \in finalists
  PROVE  LET a(x) == Cardinality(NewEdges(corpus, scope, x))
             b(x) == Cardinality(NewContributors(corpus, scope, x))
         IN  /\ a(f) \in Nat /\ b(f) \in Nat /\ a(g) \in Nat /\ b(g) \in Nat
             /\ Ahead(corpus, scope, f, g) <=>
                  \/ a(f) > a(g)
                  \/ a(f) = a(g) /\ b(f) > b(g)
                  \/ a(f) = a(g) /\ b(f) = b(g) /\ f.score > g.score
                  \/ a(f) = a(g) /\ b(f) = b(g) /\ f.score = g.score /\ f.master < g.master
<1> DEFINE af == Cardinality(NewEdges(corpus, scope, f))
           ag == Cardinality(NewEdges(corpus, scope, g))
           bf == Cardinality(NewContributors(corpus, scope, f))
           bg == Cardinality(NewContributors(corpus, scope, g))
           sf == f.score
           sg == g.score
           mf == f.master
           mg == g.master
<1>1. af \in Nat /\ ag \in Nat /\ bf \in Nat /\ bg \in Nat
  BY KeyCounts
<1>2. sf \in Nat /\ sg \in Nat /\ mf \in Nat /\ mg \in Nat
  BY DEF Rated
<1> DEFINE k == SelectionKey(corpus, scope, f)
           l == SelectionKey(corpus, scope, g)
<1>3. /\ k[1] = -af /\ k[2] = -bf /\ k[3] = -sf /\ k[4] = mf
      /\ l[1] = -ag /\ l[2] = -bg /\ l[3] = -sg /\ l[4] = mg
  BY DEF SelectionKey
<1>4. Ahead(corpus, scope, f, g) <=> KeyBefore(k, l)
  BY DEF Ahead
<1> HIDE DEF af, ag, bf, bg, sf, sg, mf, mg, k, l
<1>5. KeyBefore(k, l) <=>
           \/ -af < -ag
           \/ -af = -ag /\ -bf < -bg
           \/ -af = -ag /\ -bf = -bg /\ -sf < -sg
           \/ -af = -ag /\ -bf = -bg /\ -sf = -sg /\ mf < mg
  BY <1>3, KeysCompare
<1>6. /\ (-af < -ag <=> af > ag) /\ (-af = -ag <=> af = ag)
      /\ (-bf < -bg <=> bf > bg) /\ (-bf = -bg <=> bf = bg)
      /\ (-sf < -sg <=> sf > sg) /\ (-sf = -sg <=> sf = sg)
  BY <1>1, <1>2
<1>7. Ahead(corpus, scope, f, g) <=>
                  \/ af > ag
                  \/ af = ag /\ bf > bg
                  \/ af = ag /\ bf = bg /\ sf > sg
                  \/ af = ag /\ bf = bg /\ sf = sg /\ mf < mg
  BY <1>4, <1>5, <1>6
<1> QED
  BY <1>1, <1>7 DEF af, ag, bf, bg, sf, sg, mf, mg

\* It is a strict order, in which any two can be compared.
LEMMA AheadOrders ==
  ASSUME NEW corpus, Bounded(corpus), NEW scope, NEW finalists, Rated(finalists),
         NEW f \in finalists, NEW g \in finalists, NEW h \in finalists
  PROVE  /\ ~Ahead(corpus, scope, f, f)
         /\ f # g => Ahead(corpus, scope, f, g) \/ Ahead(corpus, scope, g, f)
         /\ Ahead(corpus, scope, f, g) /\ Ahead(corpus, scope, g, h) => Ahead(corpus, scope, f, h)
<1> DEFINE a(x) == Cardinality(NewEdges(corpus, scope, x))
           b(x) == Cardinality(NewContributors(corpus, scope, x))
           Wins(x, y) == \/ a(x) > a(y)
                         \/ a(x) = a(y) /\ b(x) > b(y)
                         \/ a(x) = a(y) /\ b(x) = b(y) /\ x.score > y.score
                         \/ a(x) = a(y) /\ b(x) = b(y) /\ x.score = y.score /\ x.master < y.master
<1>1. \A x, y \in finalists : Ahead(corpus, scope, x, y) <=> Wins(x, y)
  BY AheadMeans
<1>2. \A x \in finalists : a(x) \in Nat /\ b(x) \in Nat /\ x.score \in Nat /\ x.master \in Nat
  BY KeyCounts DEF Rated
<1>3. f # g => f.master # g.master
  BY DEF Rated
<1> HIDE DEF a, b
<1>4. ~Wins(f, f)
  BY <1>2
<1>5. f # g => Wins(f, g) \/ Wins(g, f)
  BY <1>2, <1>3
<1>6. Wins(f, g) /\ Wins(g, h) => Wins(f, h)
  BY <1>2
<1> HIDE DEF Wins
<1> QED
  BY <1>1, <1>4, <1>5, <1>6

\* Of some finalists one is the best: it is ahead of the others, and adds the most edges.
LEMMA BestFinalistIs ==
  ASSUME NEW corpus, Bounded(corpus), NEW scope, NEW open, Rated(open), open # {}
  PROVE  /\ BestFinalist(corpus, scope, open) \in open
         /\ \A g \in open : Cardinality(NewEdges(corpus, scope, g)) <=
              Cardinality(NewEdges(corpus, scope, BestFinalist(corpus, scope, open)))
<1> DEFINE Better(f) == {g \in open : Ahead(corpus, scope, g, f)}
           counts == {n \in Nat : \E f \in open : n = Cardinality(Better(f))}
           best == BestFinalist(corpus, scope, open)
<1>1. \A f \in open : IsFiniteSet(Better(f)) /\ Cardinality(Better(f)) \in Nat
  BY FS_Subset, FS_CardinalityType DEF Rated
<1>2. \E n \in counts : TRUE
  BY <1>1
<1>3. counts \in SUBSET Nat /\ counts # {}
  BY <1>2
<1>4. PICK n \in counts : \A k \in counts : n <= k
  <2> HIDE DEF counts
  <2> QED
    BY <1>3, LeastExists
<1>5. PICK f \in open : n = Cardinality(Better(f))
  BY <1>4
<1>6. ASSUME NEW g \in open \ {f}, ~Ahead(corpus, scope, f, g)
      PROVE  FALSE
  <2>1. Ahead(corpus, scope, g, f) /\ ~Ahead(corpus, scope, g, g)
    BY <1>6, AheadOrders
  <2>2. Better(g) \subseteq Better(f)
    BY <2>1, AheadOrders
  <2>3. g \in Better(f) /\ g \notin Better(g)
    BY <1>6, <2>1
  <2> HIDE DEF Better
  <2>4. Cardinality(Better(g)) <= Cardinality(Better(f)) /\ Cardinality(Better(g)) # Cardinality(Better(f))
    BY <1>1, <2>2, <2>3, FS_Subset
  <2>5. Cardinality(Better(g)) \in counts
    BY <1>1
  <2> QED
    BY <1>1, <1>4, <1>5, <2>4, <2>5
<1>7. \A g \in open \ {f} : Ahead(corpus, scope, f, g)
  BY <1>6
<1>8. best \in open /\ \A g \in open \ {best} : Ahead(corpus, scope, best, g)
  <2>1. best = CHOOSE x \in open : \A g \in open \ {x} : Ahead(corpus, scope, x, g)
    BY DEF BestFinalist, Ahead
  <2> HIDE DEF best
  <2> QED
    BY <1>7, <2>1
<1> HIDE DEF best
<1>9. ASSUME NEW g \in open
      PROVE  Cardinality(NewEdges(corpus, scope, g)) <= Cardinality(NewEdges(corpus, scope, best))
  <2>1. /\ Cardinality(NewEdges(corpus, scope, g)) \in Nat
        /\ Cardinality(NewEdges(corpus, scope, best)) \in Nat
    BY KeyCounts
  <2>2. CASE g = best
    BY <2>1, <2>2
  <2>3. CASE g # best
    <3>1. Ahead(corpus, scope, best, g)
      BY <1>8, <2>3
    <3>2. \/ Cardinality(NewEdges(corpus, scope, best)) > Cardinality(NewEdges(corpus, scope, g))
          \/ Cardinality(NewEdges(corpus, scope, best)) = Cardinality(NewEdges(corpus, scope, g))
      BY <1>8, <3>1, AheadMeans
    <3> QED
      BY <2>1, <3>2
  <2> QED
    BY <2>2, <2>3
<1> QED
  BY <1>8, <1>9 DEF best

\* The edges in scope after so many picks.
ScopeAt(corpus, baseline, picks, k) ==
  edges_for_release_scope(corpus, CitedBy(baseline) \cup {picks[j].album.release : j \in 1 .. k})

\* An album picked is a finalist, of an artist not picked before, that adds the edges told
\* and no fewer than any other that could have been picked.
WellPicked(corpus, baseline, fresh, picks, k) ==
  LET scope == ScopeAt(corpus, baseline, picks, k - 1)
      Free(f) == \A j \in 1 .. k - 1 : picks[j].album.artist # f.artist
  IN /\ picks[k].album \in fresh /\ Free(picks[k].album)
     /\ picks[k].new_edges = Cardinality(NewEdges(corpus, scope, picks[k].album))
     /\ \A f \in fresh : Free(f) => Cardinality(NewEdges(corpus, scope, f)) <= picks[k].new_edges

\* A selection made so, and the edges then in scope.
WellSelected(corpus, baseline, fresh, sel) ==
  /\ sel.selected \in Seq([album : fresh, new_edges : Nat])
  /\ sel.scope = ScopeAt(corpus, baseline, sel.selected, Len(sel.selected))
  /\ \A k \in 1 .. Len(sel.selected) : WellPicked(corpus, baseline, fresh, sel.selected, k)

\* What is in scope depends on the picks so far.
LEMMA ScopeSoFar ==
  ASSUME NEW corpus, NEW baseline, NEW picks, NEW more, NEW k \in Int,
         \A j \in 1 .. k : more[j] = picks[j]
  PROVE  ScopeAt(corpus, baseline, more, k) = ScopeAt(corpus, baseline, picks, k)
<1>1. {more[j].album.release : j \in 1 .. k} = {picks[j].album.release : j \in 1 .. k}
  OBVIOUS
<1> QED
  BY <1>1 DEF ScopeAt

\* One more pick widens the scope by its edges.
LEMMA ScopeNext ==
  ASSUME NEW corpus, NEW baseline, NEW picks, NEW k \in Nat, NEW m \in Nat, m = k + 1
  PROVE  ScopeAt(corpus, baseline, picks, m) =
           ScopeAt(corpus, baseline, picks, k)
             \cup edges_for_release_scope(corpus, {picks[m].album.release})
<1> DEFINE cited(n) == {picks[j].album.release : j \in 1 .. n}
<1>1. cited(k + 1) = cited(k) \cup {picks[k + 1].album.release}
  OBVIOUS
<1> HIDE DEF cited
<1>2. CitedBy(baseline) \cup cited(k + 1)
        = (CitedBy(baseline) \cup cited(k)) \cup {picks[k + 1].album.release}
  BY <1>1
<1> DEFINE A == CitedBy(baseline) \cup cited(k)
           B == {picks[k + 1].album.release}
<1> HIDE DEF A, B
<1>3. edges_for_release_scope(corpus, A \cup B) =
        edges_for_release_scope(corpus, A) \cup edges_for_release_scope(corpus, B)
  BY ScopesJoin
<1> QED
  BY <1>2, <1>3 DEF ScopeAt, cited, A, B

\* A pick stays well picked when others follow.
LEMMA PickStays ==
  ASSUME NEW corpus, NEW baseline, NEW fresh, NEW picks, NEW more, NEW k \in Nat \ {0},
         \A j \in 1 .. k : more[j] = picks[j], WellPicked(corpus, baseline, fresh, picks, k)
  PROVE  WellPicked(corpus, baseline, fresh, more, k)
<1>1. more[k] = picks[k] /\ \A j \in 1 .. k - 1 : more[j] = picks[j]
  OBVIOUS
<1>2. ScopeAt(corpus, baseline, more, k - 1) = ScopeAt(corpus, baseline, picks, k - 1)
  BY <1>1, ScopeSoFar
<1> QED
  BY <1>1, <1>2 DEF WellPicked

\* A turn of the selection.
LEMMA SelectsWell ==
  ASSUME NEW corpus, Bounded(corpus), NEW baseline, NEW fresh, Rated(fresh), NEW sel,
         WellSelected(corpus, baseline, fresh, sel)
  PROVE  WellSelected(corpus, baseline, fresh, SelectNext(corpus, fresh, sel))
<1> DEFINE picks == sel.selected
           n == Len(picks)
           open == OpenFinalists(fresh, picks)
           best == BestFinalist(corpus, sel.scope, open)
           pick == [album |-> best, new_edges |-> Cardinality(NewEdges(corpus, sel.scope, best))]
           more == Append(picks, pick)
           edges == edges_for_release_scope(corpus, {best.release})
<1>1. CASE open = {}
  BY <1>1 DEF SelectNext
<1>2. CASE open # {}
  <2>1. SelectNext(corpus, fresh, sel) = [selected |-> more, scope |-> sel.scope \cup edges]
    BY <1>2 DEF SelectNext
  <2>2. picks \in Seq([album : fresh, new_edges : Nat]) /\ n \in Nat /\ DOMAIN picks = 1 .. n
    BY LenProperties DEF WellSelected
  <2>3. \A f : f \in open <=> f \in fresh /\ \A j \in 1 .. n : picks[j].album.artist # f.artist
    BY <2>2 DEF OpenFinalists, ToSet
  <2>4. Rated(open)
    <3>1. open \in SUBSET fresh
      BY <2>3
    <3> QED
      BY <3>1, FS_Subset DEF Rated
  <2> HIDE DEF open
  <2>5. /\ best \in open
        /\ \A g \in open : Cardinality(NewEdges(corpus, sel.scope, g)) <=
             Cardinality(NewEdges(corpus, sel.scope, best))
    BY <1>2, <2>4, BestFinalistIs
  <2>6. Cardinality(NewEdges(corpus, sel.scope, best)) \in Nat
    BY KeyCounts
  <2> HIDE DEF best
  <2>7. pick \in [album : fresh, new_edges : Nat]
    BY <2>3, <2>5, <2>6
  <2>8. /\ more \in Seq([album : fresh, new_edges : Nat]) /\ Len(more) = n + 1
        /\ more[n + 1] = pick /\ \A j \in 1 .. n : more[j] = picks[j]
    BY <2>2, <2>7, AppendProperties
  <2> HIDE DEF pick, more, n
  <2>9. pick.album = best /\ pick.new_edges = Cardinality(NewEdges(corpus, sel.scope, best))
    BY DEF pick
  <2>10. sel.scope = ScopeAt(corpus, baseline, more, n)
    <3>1. sel.scope = ScopeAt(corpus, baseline, picks, n)
      BY DEF WellSelected, n
    <3>2. n \in Int /\ \A j \in 1 .. n : more[j] = picks[j]
      BY <2>2, <2>8
    <3> HIDE DEF picks
    <3>3. ScopeAt(corpus, baseline, more, n) = ScopeAt(corpus, baseline, picks, n)
      BY <3>2, ScopeSoFar
    <3> QED
      BY <3>1, <3>3
  <2>11. ScopeAt(corpus, baseline, more, n + 1) = sel.scope \cup edges
    <3> DEFINE m == n + 1
    <3>1. more[m].album.release = best.release
      BY <2>8, <2>9
    <3>2. n \in Nat /\ m \in Nat /\ m = n + 1
      BY <2>2
    <3> HIDE DEF m, picks
    <3>3. ScopeAt(corpus, baseline, more, m) =
            ScopeAt(corpus, baseline, more, n)
              \cup edges_for_release_scope(corpus, {more[m].album.release})
      BY <3>2, ScopeNext
    <3> QED
      BY <2>10, <3>1, <3>3 DEF m
  <2>12. ASSUME NEW k \in 1 .. n + 1
         PROVE  WellPicked(corpus, baseline, fresh, more, k)
    <3>1. CASE k \in 1 .. n
      <4>1. WellPicked(corpus, baseline, fresh, picks, k)
        BY <3>1 DEF WellSelected, n
      <4>2. k \in Nat \ {0} /\ \A j \in 1 .. k : more[j] = picks[j]
        BY <2>2, <2>8, <3>1
      <4> QED
        BY <4>1, <4>2, PickStays
    <3>2. CASE k = n + 1
      <4>1. k - 1 = n /\ more[k] = pick
        BY <2>2, <2>8, <3>2
      <4>2. \A f : f \in open <=> f \in fresh /\ \A j \in 1 .. n : more[j].album.artist # f.artist
        BY <2>3, <2>8
      <4> QED
        BY <2>5, <2>9, <2>10, <4>1, <4>2 DEF WellPicked
    <3> QED
      BY <2>2, <3>1, <3>2
  <2> DEFINE next == SelectNext(corpus, fresh, sel)
  <2>13. next.selected = more /\ next.scope = sel.scope \cup edges
    BY <2>1
  <2> HIDE DEF next, edges
  <2>14. WellSelected(corpus, baseline, fresh, next)
    BY <2>8, <2>11, <2>12, <2>13 DEF WellSelected
  <2> QED
    BY <2>14 DEF next
<1> QED
  BY <1>1, <1>2

\* The greedy selection is made so.
LEMMA SelectionIsWell ==
  ASSUME NEW corpus, Bounded(corpus), NEW baseline, NEW finalists, Rated(Fresh(baseline, finalists))
  PROVE  LET picks == greedy_marginal_selection(corpus, baseline, finalists)
             fresh == Fresh(baseline, finalists)
         IN  /\ picks \in Seq([album : fresh, new_edges : Nat])
             /\ \A k \in 1 .. Len(picks) : WellPicked(corpus, baseline, fresh, picks, k)
<1> DEFINE N == SelectCount
           fresh == Fresh(baseline, finalists)
           none == NothingSelected(corpus, baseline)
           all == {x \in [selected : Seq([album : fresh, new_edges : Nat]),
                          scope : SUBSET SUBSET ArtistsOf(corpus.credits)] :
                     WellSelected(corpus, baseline, fresh, x)}
           S == [n \in 0 .. N |-> all]
           step == [n \in 1 .. N |-> [x \in all |-> SelectNext(corpus, fresh, x)]]
           Solves(p) == p = [n \in 0 .. N |->
                               IF n = 0 THEN none ELSE SelectNext(corpus, fresh, p[n - 1])]
           f == CHOOSE p : Solves(p)
<1>1. N \in Nat
  BY ExpansionFits
<1>2. none \in all
  <2>1. /\ none.selected = <<>> /\ none.scope = edges_for_release_scope(corpus, CitedBy(baseline))
        /\ none = [selected |-> none.selected, scope |-> none.scope]
    BY DEF NothingSelected
  <2> HIDE DEF none, fresh
  <2>2. <<>> \in Seq([album : fresh, new_edges : Nat]) /\ Len(<<>>) = 0
    BY EmptySeq
  <2>3. none.scope = ScopeAt(corpus, baseline, none.selected, 0)
    <3>1. {none.selected[j].album.release : j \in 1 .. 0} = {}
      OBVIOUS
    <3> QED
      BY <2>1, <3>1 DEF ScopeAt
  <2>4. none.scope \in SUBSET SUBSET ArtistsOf(corpus.credits)
    BY <2>1, ScopeWithin
  <2>5. WellSelected(corpus, baseline, fresh, none)
    BY <2>1, <2>2, <2>3 DEF WellSelected
  <2> QED
    BY <2>1, <2>2, <2>4, <2>5
<1>3. ASSUME NEW x \in all
      PROVE  SelectNext(corpus, fresh, x) \in all
  <2> DEFINE y == SelectNext(corpus, fresh, x)
  <2>1. WellSelected(corpus, baseline, fresh, y)
    <3> HIDE DEF fresh
    <3>1. Rated(fresh)
      BY DEF fresh
    <3> QED
      BY <3>1, SelectsWell
  <2>2. y = [selected |-> y.selected, scope |-> y.scope]
    <3> HIDE DEF fresh
    <3> QED
      BY DEF SelectNext
  <2> HIDE DEF y, fresh
  <2>3. y.scope \in SUBSET SUBSET ArtistsOf(corpus.credits)
    BY <2>1, ScopeWithin DEF WellSelected, ScopeAt
  <2>4. y.selected \in Seq([album : fresh, new_edges : Nat])
    BY <2>1 DEF WellSelected
  <2> QED
    BY <2>1, <2>2, <2>3, <2>4 DEF y
<1> HIDE DEF all, none, fresh
<1>4. \E p : Solves(p)
  <2>1. \A n \in 1 .. N : \A x \in all : step[n][x] = SelectNext(corpus, fresh, x)
    OBVIOUS
  <2>2. \A n \in 0 .. N : S[n] = all
    OBVIOUS
  <2>3. \A n \in 1 .. N : \A x \in S[n - 1] : step[n][x] \in S[n]
    <3>1. \A n \in 1 .. N : n \in 0 .. N /\ n - 1 \in 0 .. N
      BY <1>1
    <3> HIDE DEF S, step
    <3> QED
      BY <1>3, <2>1, <2>2, <3>1
  <2>4. none \in S[0]
    BY <1>1, <1>2
  <2> HIDE DEF S, step, Solves
  <2>5. PICK p : Iterated(p, N, S, step, none)
    BY <1>1, <2>3, <2>4, Iterates
  <2>6. /\ p[0] = none /\ p = [n \in 0 .. N |-> p[n]]
        /\ \A n \in 1 .. N : p[n] = step[n][p[n - 1]]
        /\ \A n \in 0 .. N : p[n] \in all
    BY <2>2, <2>5 DEF Iterated
  <2>7. ASSUME NEW n \in 0 .. N
        PROVE  p[n] = IF n = 0 THEN none ELSE SelectNext(corpus, fresh, p[n - 1])
    <3>1. CASE n = 0
      BY <2>6, <3>1
    <3>2. CASE n # 0
      <4>1. n \in 1 .. N /\ n - 1 \in 0 .. N
        BY <1>1, <3>2
      <4>2. p[n] = SelectNext(corpus, fresh, p[n - 1])
        BY <2>1, <2>6, <4>1
      <4> QED
        BY <3>2, <4>2
    <3> QED
      BY <3>1, <3>2
  <2>8. Solves(p)
    BY <2>6, <2>7 DEF Solves
  <2> QED
    BY <2>8
<1>5. Solves(f)
  <2> HIDE DEF Solves
  <2> QED
    BY <1>4
<1>6. greedy_marginal_selection(corpus, baseline, finalists) = f[N].selected
  BY DEF greedy_marginal_selection, none, fresh
<1> HIDE DEF f, N
<1>7. f[0] = none
  BY <1>1, <1>5
<1>8. ASSUME NEW n \in 1 .. N PROVE f[n] = SelectNext(corpus, fresh, f[n - 1])
  <2>1. n \in 0 .. N /\ n # 0
    BY <1>1
  <2>2. f[n] = IF n = 0 THEN none ELSE SelectNext(corpus, fresh, f[n - 1])
    BY <1>5, <2>1, Zenon
  <2> QED
    BY <2>1, <2>2
<1> HIDE DEF Solves
<1>9. f[N] \in all
  <2>1. \A n \in 0 .. N : S[n] = all
    OBVIOUS
  <2>2. \A n \in 1 .. N : n \in 0 .. N /\ n - 1 \in 0 .. N
    BY <1>1
  <2>3. \A n \in 1 .. N : f[n - 1] \in S[n - 1] => f[n] \in S[n]
    BY <1>3, <1>8, <2>1, <2>2
  <2>4. f[0] \in S[0]
    BY <1>1, <1>2, <1>7
  <2> HIDE DEF S
  <2>5. \A n \in 0 .. N : f[n] \in S[n]
    BY <1>1, <2>3, <2>4, StaysWithin
  <2> QED
    BY <1>1, <2>1, <2>5
<1> QED
  BY <1>6, <1>9 DEF all, WellSelected, fresh

----------------------------------------------------------------------------
(* The three lists of finalists.                                            *)

\* Finalists of a round: each of another master, none of a published one, on the release
\* the catalogue cites for it.
Listed(corpus, published, finalists) ==
  /\ Rated(finalists)
  /\ \A f \in finalists :
       /\ f.master \notin published /\ release_eligible(f.release, f.master)
       /\ f.release = select_master_main_release_id(corpus, f.master)

\* Of some releases that have a year one is the earliest.
LEMMA EarliestIs ==
  ASSUME NEW releases \in SUBSET Nat, releases \subseteq DOMAIN MasterOf, releases # {}
  PROVE  Earliest(releases) \in releases
<1> DEFINE years == {y \in Nat : \E r \in releases : Year[r] = y}
<1>1. \A r \in releases : Year[r] \in Nat
  BY ExpansionFits
<1>2. years \in SUBSET Nat /\ years # {}
  BY <1>1
<1>3. PICK y \in years : \A z \in years : y <= z
  <2> HIDE DEF years
  <2> QED
    BY <1>2, LeastExists
<1> DEFINE first == {r \in releases : Year[r] = y}
<1>4. first \in SUBSET Nat /\ first # {}
  BY <1>3
<1>5. PICK r \in first : \A q \in first : r <= q
  <2> HIDE DEF first
  <2> QED
    BY <1>4, LeastExists
<1>6. \A q \in releases : Year[r] < Year[q] \/ (Year[r] = Year[q] /\ r <= q)
  <2> SUFFICES ASSUME NEW q \in releases
               PROVE  Year[r] < Year[q] \/ (Year[r] = Year[q] /\ r <= q)
    OBVIOUS
  <2>1. Year[q] \in years /\ Year[r] = y /\ Year[q] \in Nat /\ y \in Nat
    BY <1>1, <1>3, <1>5
  <2>2. y <= Year[q]
    BY <1>3, <2>1
  <2>3. Year[q] = y => r <= q
    BY <1>5
  <2> QED
    BY <2>1, <2>2, <2>3
<1>7. r \in releases
  BY <1>5
<1> QED
  BY <1>6, <1>7 DEF Earliest

\* What a master's album cites may be shown: any release of an eligible master, and the
\* main release whenever that one may be.
LEMMA CitedIsAllowed ==
  ASSUME NEW corpus, Bounded(corpus), NEW m, Allowed(MainReleaseOf[m]) \/ AllowedUnder(corpus, m) # {}
  PROVE  /\ Allowed(select_master_main_release_id(corpus, m))
         /\ Allowed(MainReleaseOf[m]) => select_master_main_release_id(corpus, m) = MainReleaseOf[m]
<1>1. CASE Allowed(MainReleaseOf[m])
  BY <1>1 DEF select_master_main_release_id
<1>2. CASE ~Allowed(MainReleaseOf[m])
  <2> DEFINE shown == AllowedUnder(corpus, m)
  <2>1. \A r \in shown : r \in ReleasesOf(corpus.credits) /\ Allowed(r)
    BY DEF AllowedUnder, release_ids_for_master
  <2>2. ReleasesOf(corpus.credits) \subseteq Nat /\ ReleasesOf(corpus.credits) \subseteq DOMAIN MasterOf
    BY DEF ReleasesOf, Bounded, Regular
  <2>3. shown # {} /\ select_master_main_release_id(corpus, m) = Earliest(shown)
    BY <1>2 DEF select_master_main_release_id
  <2> HIDE DEF shown
  <2>4. Earliest(shown) \in shown
    BY <2>1, <2>2, <2>3, EarliestIs
  <2> QED
    BY <1>2, <2>1, <2>3, <2>4
<1> QED
  BY <1>1, <1>2

\* Albums made of the masters there are, one of each, are finitely many and have masters of
\* their own.
LEMMA OneOfEach ==
  ASSUME NEW masters \in SUBSET DOMAIN MainReleaseOf, NEW f,
         \A m \in masters : f[m].master = m /\ f[m].score \in Nat,
         NEW albums, DOMAIN f = masters, \A x : x \in albums <=> \E m \in masters : x = f[m]
  PROVE  Rated(albums)
<1>1. DOMAIN MainReleaseOf \in SUBSET Nat /\ IsFiniteSet(DOMAIN MainReleaseOf)
  BY ExpansionFits
<1>2. IsFiniteSet(masters) /\ masters \subseteq Nat
  BY <1>1, FS_Subset
<1> DEFINE g == [m \in masters |-> f[m]]
<1>3. g \in Surjection(masters, albums)
  BY DEF Surjection
<1> HIDE DEF g
<1>4. IsFiniteSet(albums)
  BY <1>2, <1>3, FS_Surjection
<1>5. \A x \in albums : x.master \in masters /\ x.score \in Nat /\ x = f[x.master]
  OBVIOUS
<1>6. \A x, y \in albums : x.master = y.master => x = y
  BY <1>5
<1> QED
  BY <1>2, <1>4, <1>5, <1>6 DEF Rated

\* The list by size.
LEMMA RankListed ==
  ASSUME NEW corpus, Bounded(corpus), NEW published
  PROVE  Listed(corpus, published, rank_album_candidates(corpus, published))
<1> DEFINE masters == {n \in DOMAIN MainReleaseOf \ published :
                         /\ release_eligible(MainReleaseOf[n], n)
                         /\ release_artists(corpus, MainReleaseOf[n]) # {}}
           size(m) == Cardinality(release_ids_for_master(corpus, m))
                        * Cardinality(CreditsUnder(corpus, m))
           f == [m \in masters |->
                   Album(m, MainReleaseOf[m], Lowest(release_artists(corpus, MainReleaseOf[m])),
                         size(m))]
           albums == rank_album_candidates(corpus, published)
<1>1. \A m : size(m) \in Nat
  <2> TAKE m
  <2> DEFINE credits == corpus.credits
             g == [c \in credits |-> c.release]
  <2>1. g \in Surjection(credits, ReleasesOf(credits))
    BY DEF Surjection, ReleasesOf
  <2> HIDE DEF g
  <2>2. IsFiniteSet(credits) /\ IsFiniteSet(ReleasesOf(credits))
    BY <2>1, FS_Surjection DEF Bounded
  <2>3. /\ release_ids_for_master(corpus, m) \in SUBSET ReleasesOf(credits)
        /\ CreditsUnder(corpus, m) \in SUBSET credits
    BY DEF release_ids_for_master, CreditsUnder
  <2> HIDE DEF credits
  <2>4. /\ Cardinality(release_ids_for_master(corpus, m)) \in Nat
        /\ Cardinality(CreditsUnder(corpus, m)) \in Nat
    BY <2>2, <2>3, FS_Subset, FS_CardinalityType
  <2> QED
    BY <2>4
<1>2. \A x : x \in albums <=> \E m \in masters : x = f[m]
  BY DEF rank_album_candidates
<1>3. \A m \in masters : f[m].master = m /\ f[m].score = size(m) /\ f[m].release = MainReleaseOf[m]
  BY DEF Album
<1>4. DOMAIN f = masters /\ masters \in SUBSET DOMAIN MainReleaseOf
  OBVIOUS
<1>5. \A m \in masters : m \notin published /\ release_eligible(MainReleaseOf[m], m)
  OBVIOUS
<1> HIDE DEF masters, size, f, albums
<1>6. Rated(albums)
  BY <1>1, <1>2, <1>3, <1>4, OneOfEach
<1>7. \A m \in masters : MainReleaseOf[m] = select_master_main_release_id(corpus, m)
  BY <1>5, CitedIsAllowed DEF release_eligible
<1>8. \A x \in albums : /\ x.master \notin published /\ release_eligible(x.release, x.master)
                        /\ x.release = select_master_main_release_id(corpus, x.master)
  BY <1>2, <1>3, <1>5, <1>7
<1>9. Listed(corpus, published, albums)
  BY <1>6, <1>8 DEF Listed
<1> QED
  BY <1>9 DEF albums

\* The list by performers.
LEMMA PoolListed ==
  ASSUME NEW corpus, Bounded(corpus), NEW performers, NEW published, NEW billing
  PROVE  Listed(corpus, published, build_relationship_pool(corpus, performers, published, billing))
<1> DEFINE masters == {n \in DOMAIN MainReleaseOf \ published :
                         /\ Cardinality(PoolOverlapOf(corpus, n, performers)) >= PoolOverlap
                         /\ release_eligible(MainReleaseOf[n], n)
                         /\ MainReleaseOf[n] \in DOMAIN billing}
           f == [m \in masters |-> Album(m, MainReleaseOf[m], billing[MainReleaseOf[m]], 0)]
           albums == build_relationship_pool(corpus, performers, published, billing)
<1>2. \A x : x \in albums <=> \E m \in masters : x = f[m]
  BY DEF build_relationship_pool
<1>3. \A m \in masters : f[m].master = m /\ f[m].score \in Nat /\ f[m].release = MainReleaseOf[m]
  BY DEF Album
<1>4. DOMAIN f = masters /\ masters \in SUBSET DOMAIN MainReleaseOf
  OBVIOUS
<1>5. \A m \in masters : m \notin published /\ release_eligible(MainReleaseOf[m], m)
  OBVIOUS
<1> HIDE DEF masters, f, albums
<1>6. Rated(albums)
  BY <1>2, <1>3, <1>4, OneOfEach
<1>7. \A m \in masters : MainReleaseOf[m] = select_master_main_release_id(corpus, m)
  BY <1>5, CitedIsAllowed DEF release_eligible
<1>8. \A x \in albums : /\ x.master \notin published /\ release_eligible(x.release, x.master)
                        /\ x.release = select_master_main_release_id(corpus, x.master)
  BY <1>2, <1>3, <1>5, <1>7
<1>9. Listed(corpus, published, albums)
  BY <1>6, <1>8 DEF Listed
<1> QED
  BY <1>9 DEF albums

\* The list from the collection.
LEMMA CollectionListed ==
  ASSUME NEW corpus, Bounded(corpus), NEW collection, NEW published
  PROVE  Listed(corpus, published, derive_collection_candidates(corpus, collection, published))
<1> DEFINE owned == {MasterOf[r] : r \in collection \cap ReleasesOf(corpus.credits)} \ published
           cited(m) == select_master_main_release_id(corpus, m)
           masters == {n \in owned : /\ master_studio_eligible(corpus, n)
                                     /\ release_artists(corpus, cited(n)) # {}}
           f == [m \in masters |-> Album(m, cited(m), Lowest(release_artists(corpus, cited(m))), 0)]
           albums == derive_collection_candidates(corpus, collection, published)
<1>1. owned \in SUBSET DOMAIN MainReleaseOf /\ owned \cap published = {}
  <2>1. \A r \in ReleasesOf(corpus.credits) : MasterOf[r] \in DOMAIN MainReleaseOf
    BY ExpansionFits DEF Bounded
  <2> QED
    BY <2>1
<1>2. \A x : x \in albums <=> \E m \in masters : x = f[m]
  BY DEF derive_collection_candidates
<1>3. \A m \in masters : f[m].master = m /\ f[m].score \in Nat /\ f[m].release = cited(m)
  BY DEF Album
<1>4. DOMAIN f = masters /\ masters \in SUBSET DOMAIN MainReleaseOf
  BY <1>1
<1>5. \A m \in masters : m \notin published /\ master_studio_eligible(corpus, m)
  BY <1>1
<1> HIDE DEF masters, owned, f, albums
<1>6. Rated(albums)
  BY <1>2, <1>3, <1>4, OneOfEach
<1>7. \A m \in masters : release_eligible(cited(m), m)
  BY <1>5, CitedIsAllowed DEF release_eligible, master_studio_eligible
<1>8. \A x \in albums : /\ x.master \notin published /\ release_eligible(x.release, x.master)
                        /\ x.release = select_master_main_release_id(corpus, x.master)
  BY <1>2, <1>3, <1>5, <1>7
<1>9. Listed(corpus, published, albums)
  BY <1>6, <1>8 DEF Listed
<1> QED
  BY <1>9 DEF albums

----------------------------------------------------------------------------
(* The catalogue of a round and the one it makes.                           *)

\* Lists that are joined hold what each held.
LEMMA JoinedHold ==
  ASSUME NEW U, NEW s \in Seq(U), NEW t \in Seq(U)
  PROVE  /\ s \o t \in Seq(U)
         /\ ToSet(s \o t) = ToSet(s) \cup ToSet(t)
<1> DEFINE all == s \o t
           m == Len(s)
           n == Len(t)
<1>1. /\ m \in Nat /\ n \in Nat /\ DOMAIN s = 1 .. m /\ DOMAIN t = 1 .. n
      /\ all \in Seq(U) /\ Len(all) = m + n
      /\ \A i \in 1 .. m + n : all[i] = IF i <= m THEN s[i] ELSE t[i - m]
  BY ConcatProperties, LenProperties
<1> HIDE DEF all, m, n
<1>2. DOMAIN all = 1 .. m + n
  BY <1>1, LenProperties
<1>3. \A i \in 1 .. m : i \in DOMAIN all /\ all[i] = s[i]
  BY <1>1, <1>2
<1>4. \A j \in 1 .. n : m + j \in DOMAIN all /\ all[m + j] = t[j]
  <2> SUFFICES ASSUME NEW j \in 1 .. n
               PROVE  m + j \in DOMAIN all /\ all[m + j] = t[j]
    OBVIOUS
  <2>1. m + j \in 1 .. m + n /\ ~(m + j <= m) /\ (m + j) - m = j
    BY <1>1
  <2>2. all[m + j] = IF m + j <= m THEN s[m + j] ELSE t[(m + j) - m]
    BY <1>1, <2>1
  <2> QED
    BY <1>2, <2>1, <2>2
<1>5. \A i \in DOMAIN all : all[i] \in ToSet(s) \/ all[i] \in ToSet(t)
  <2> SUFFICES ASSUME NEW i \in 1 .. m + n PROVE all[i] \in ToSet(s) \/ all[i] \in ToSet(t)
    BY <1>2
  <2>1. CASE i <= m
    <3>1. i \in DOMAIN s /\ all[i] = s[i]
      BY <1>1, <2>1
    <3> QED
      BY <3>1 DEF ToSet
  <2>2. CASE ~(i <= m)
    <3>1. i - m \in DOMAIN t /\ all[i] = t[i - m]
      BY <1>1, <2>2
    <3> QED
      BY <3>1 DEF ToSet
  <2> QED
    BY <2>1, <2>2
<1>6. ToSet(all) = ToSet(s) \cup ToSet(t)
  <2>1. \A i \in 1 .. m : s[i] \in ToSet(all)
    BY <1>3 DEF ToSet
  <2>2. \A j \in 1 .. n : t[j] \in ToSet(all)
    BY <1>4 DEF ToSet
  <2>3. \A x \in ToSet(s) : x \in ToSet(all)
    BY <1>1, <2>1 DEF ToSet
  <2>4. \A x \in ToSet(t) : x \in ToSet(all)
    BY <1>1, <2>2 DEF ToSet
  <2>5. \A x \in ToSet(all) : x \in ToSet(s) \/ x \in ToSet(t)
    BY <1>5 DEF ToSet
  <2> QED
    BY <2>3, <2>4, <2>5
<1> QED
  BY <1>1, <1>6 DEF all

\* A finite set can be put in some order.
LEMMA InSomeOrder ==
  ASSUME NEW S, IsFiniteSet(S)
  PROVE  SetToSeq(S) \in Seq(S)
<1> DEFINE n == Cardinality(S)
<1>1. n \in Nat /\ ExistsBijection(1 .. n, S)
  BY FS_CardinalityType
<1> HIDE DEF n
<1>2. \E f \in [1 .. n -> S] : IsInjective(f)
  BY <1>1 DEF ExistsBijection, Bijection, Injection
<1>3. SetToSeq(S) \in [1 .. n -> S]
  BY <1>2 DEF SetToSeq, n
<1> DEFINE s == SetToSeq(S)
<1>4. s = [i \in 1 .. n |-> s[i]] /\ \A i \in 1 .. n : s[i] \in S
  BY <1>3
<1> HIDE DEF s
<1>5. s \in Seq(S)
  BY <1>1, <1>4
<1> QED
  BY <1>5 DEF s

\* A catalogue as the build leaves it.
Kept(U, catalog) ==
  /\ catalog \in Seq(U) /\ Distinct(catalog)
  /\ \A x \in ToSet(catalog) : release_eligible(x.release, x.master)

\* The catalogue of the resolved records is one.
LEMMA CatalogKept ==
  ASSUME NEW corpus, NEW entries \in Seq(Entries)
  PROVE  \E U : Kept(U, CatalogOf(corpus, entries))
<1> DEFINE picked(x) == Album(MasterOf[x.album], x.album, x.artist, 0)
           listed == [i \in DOMAIN entries |-> picked(entries[i])]
           U == {listed[i] : i \in DOMAIN entries}
           catalog == CatalogOf(corpus, entries)
<1>1. listed \in Seq(U)
  <2>1. Len(entries) \in Nat /\ DOMAIN entries = 1 .. Len(entries)
    BY LenProperties
  <2>2. \A i \in DOMAIN entries : listed[i] \in U
    OBVIOUS
  <2>3. DOMAIN listed = DOMAIN entries /\ listed = [i \in DOMAIN entries |-> listed[i]]
    OBVIOUS
  <2> HIDE DEF listed, U
  <2> QED
    BY <2>1, <2>2, <2>3
<1>2. catalog = assemble_album_catalog(corpus, Lanes(<<>>, listed, <<>>, <<>>, <<>>), {}, 0)
  BY DEF CatalogOf
<1> HIDE DEF listed, U, catalog
<1>3. <<>> \in Seq(U) /\ ToSet(<<>>) = {} /\ IsFiniteSet({})
  BY EmptySeq, FS_EmptySet DEF ToSet
<1>4. PICK a, b, c \in Seq(U) :
        /\ Grown(<<>>, listed, FALSE, Len(listed), a)
        /\ Grown(a, <<>>, FALSE, Len(<<>>), b)
        /\ Grown(b, <<>>, TRUE, Len(<<>>), c)
        /\ Filled(c, {}, catalog)
  BY <1>1, <1>2, <1>3, Assembled
<1>5. catalog = c /\ Distinct(catalog)
  BY <1>4 DEF Filled
<1>6. \A x \in ToSet(a) : release_eligible(x.release, x.master)
  BY <1>3, <1>4 DEF Grown
<1>7. \A x \in ToSet(b) : release_eligible(x.release, x.master)
  BY <1>3, <1>4, <1>6 DEF Grown
<1>8. \A x \in ToSet(c) : release_eligible(x.release, x.master)
  BY <1>3, <1>4, <1>7 DEF Grown
<1>9. Kept(U, catalog)
  BY <1>4, <1>5, <1>8 DEF Kept
<1> QED
  BY <1>9 DEF catalog

\* The owner's picks have masters of their own, may be published, and are of the release a
\* finalist of that master would be.
OfTheOwner(corpus, catalog, x) ==
  /\ x.master \notin MastersIn(catalog) /\ release_eligible(x.release, x.master)
  /\ x.release = select_master_main_release_id(corpus, x.master)

\* They are so in whatever list they come.
LEMMA PicksAreNew ==
  ASSUME NEW corpus, Bounded(corpus), NEW collection, NEW catalog,
         NEW personal \in PersonalPicks(corpus, collection, catalog)
  PROVE  \E U : personal \in Seq(U) /\ \A x \in U : OfTheOwner(corpus, catalog, x)
<1> DEFINE owned == derive_collection_candidates(corpus, collection, MastersIn(catalog))
<1>1. Listed(corpus, MastersIn(catalog), owned)
  BY CollectionListed
<1>2. personal = <<>> \/ personal = SetToSeq(owned)
  BY DEF PersonalPicks
<1> HIDE DEF owned
<1>3. IsFiniteSet(owned) /\ \A x \in owned : OfTheOwner(corpus, catalog, x)
  BY <1>1 DEF Listed, Rated, OfTheOwner
<1>4. personal \in Seq(owned)
  BY <1>2, <1>3, InSomeOrder, EmptySeq
<1> QED
  BY <1>3, <1>4

\* The picks of a selection, each well picked.
Picked(corpus, baseline, fresh, picks) ==
  /\ picks \in Seq([album : fresh, new_edges : Nat])
  /\ \A k \in 1 .. Len(picks) : WellPicked(corpus, baseline, fresh, picks, k)

\* Their albums, in a list.
LEMMA AlbumsPicked ==
  ASSUME NEW corpus, NEW baseline, NEW fresh, NEW picks, Picked(corpus, baseline, fresh, picks)
  PROVE  /\ AlbumsOf(picks) \in Seq(fresh) /\ Len(AlbumsOf(picks)) = Len(picks)
         /\ Len(picks) \in Nat /\ DOMAIN picks = 1 .. Len(picks)
         /\ DOMAIN AlbumsOf(picks) = 1 .. Len(picks)
         /\ \A k \in 1 .. Len(picks) : AlbumsOf(picks)[k] = picks[k].album /\ picks[k].album \in fresh
<1> DEFINE n == Len(picks)
           s == AlbumsOf(picks)
<1>1. n \in Nat /\ DOMAIN picks = 1 .. n /\ \A k \in 1 .. n : picks[k] \in [album : fresh, new_edges : Nat]
  BY LenProperties, ElementOfSeq DEF Picked
<1>2. DOMAIN s = DOMAIN picks /\ \A k \in DOMAIN picks : s[k] = picks[k].album
  BY DEF AlbumsOf
<1>3. s = [k \in DOMAIN picks |-> s[k]]
  BY DEF AlbumsOf
<1> HIDE DEF n, s
<1>4. \A k \in 1 .. n : picks[k].album \in fresh /\ s[k] = picks[k].album
  BY <1>1, <1>2
<1>5. s = [k \in 1 .. n |-> s[k]] /\ \A k \in 1 .. n : s[k] \in fresh
  BY <1>1, <1>3, <1>4
<1>6. s \in Seq(fresh) /\ Len(s) = n
  BY <1>1, <1>5
<1> QED
  BY <1>1, <1>2, <1>4, <1>6 DEF n, s

\* No two picks are of one artist.
LEMMA PickedOnce ==
  ASSUME NEW corpus, NEW baseline, NEW fresh, NEW picks, Picked(corpus, baseline, fresh, picks),
         NEW k \in 1 .. Len(picks), NEW l \in 1 .. Len(picks),
         picks[k].album.artist = picks[l].album.artist
  PROVE  k = l
<1>1. Len(picks) \in Nat
  BY AlbumsPicked
<1>2. \A i \in 1 .. Len(picks) : \A j \in 1 .. i - 1 : picks[j].album.artist # picks[i].album.artist
  BY DEF Picked, WellPicked
<1>3. k < l => k \in 1 .. l - 1
  BY <1>1
<1>4. l < k => l \in 1 .. k - 1
  BY <1>1
<1>5. k < l \/ l < k \/ k = l
  BY <1>1
<1> QED
  BY <1>2, <1>3, <1>4, <1>5

\* The next catalogue lists no album twice, loses none, and has every pick but those whose
\* master the owner picked: of these it has the owner's.
LEMMA NextKeeps ==
  ASSUME NEW corpus, Bounded(corpus), NEW U, NEW catalog, Kept(U, catalog), catalog # <<>>,
         NEW V, NEW personal \in Seq(V), \A x \in V : OfTheOwner(corpus, catalog, x),
         NEW fresh, Listed(corpus, MastersIn(catalog), fresh),
         \A f \in fresh : f.artist \notin ArtistsIn(catalog \o personal),
         NEW picks, Picked(corpus, catalog \o personal, fresh, picks)
  PROVE  LET next == NextCatalog(corpus, catalog, personal, picks)
         IN  /\ validate_album_catalog(next) /\ ToSet(catalog) \subseteq ToSet(next)
             /\ \A k \in DOMAIN picks :
                  picks[k].album.master \notin MastersIn(personal) => picks[k].album \in ToSet(next)
             /\ \A k \in DOMAIN picks : picks[k].album.master \in MastersIn(personal) =>
                  /\ picks[k].album \notin ToSet(next)
                  /\ \E y \in ToSet(personal) : y \in ToSet(next) /\ y.master = picks[k].album.master
<1> DEFINE W == U \cup V \cup fresh
           rich == AlbumsOf(picks)
           ranked == rank_album_candidates(corpus, MastersIn(catalog))
           next == NextCatalog(corpus, catalog, personal, picks)
<1>1. catalog \in Seq(W) /\ personal \in Seq(W) /\ rich \in Seq(W)
  <2>1. U \subseteq W /\ V \subseteq W /\ fresh \subseteq W
    OBVIOUS
  <2> HIDE DEF W
  <2> QED
    BY <2>1, AlbumsPicked, SeqMonotonic DEF Kept
<1>2. Listed(corpus, MastersIn(catalog), ranked)
  BY RankListed
<1>3. IsFiniteSet(ranked)
  BY <1>2 DEF Listed, Rated
<1>4. next = assemble_album_catalog(corpus, Lanes(<<>>, personal, catalog, rich, <<>>), ranked,
                                    CatalogTarget)
  BY DEF NextCatalog
<1>5. /\ ToSet(catalog \o personal) = ToSet(catalog) \cup ToSet(personal)
  <2> HIDE DEF W
  <2> QED
    BY <1>1, JoinedHold
<1>6. \A x \in ToSet(personal) :
        x.master \notin MastersIn(catalog) /\ release_eligible(x.release, x.master)
  BY LenProperties, ElementOfSeq DEF ToSet, OfTheOwner
<1> HIDE DEF W, rich, ranked, next
<1>7. PICK a, b, c \in Seq(W) :
        /\ Grown(<<>>, personal, FALSE, Len(personal), a)
        /\ Grown(a, catalog, FALSE, Len(catalog), b)
        /\ Grown(b, rich, TRUE, Len(rich), c)
        /\ Filled(c, ranked, next)
  BY <1>1, <1>3, <1>4, Assembled
<1>8. \A x \in ToSet(a) : x \in ToSet(personal)
  <2>1. ToSet(<<>>) = {}
    BY DEF ToSet
  <2> QED
    BY <1>7, <2>1 DEF Grown
<1>9. DOMAIN catalog = 1 .. Len(catalog) /\ DOMAIN personal = 1 .. Len(personal)
  BY LenProperties DEF Kept
<1>10. ASSUME NEW i \in 1 .. Len(catalog)
       PROVE  catalog[i] \in ToSet(b)
  <2>1. catalog[i] \in ToSet(catalog)
    BY <1>9 DEF ToSet
  <2>2. PICK y \in ToSet(b) : y.master = catalog[i].master
    BY <1>7, <2>1 DEF Grown, Kept
  <2>3. y.master \in MastersIn(catalog)
    BY <2>1, <2>2 DEF MastersIn
  <2>4. y \in ToSet(catalog)
    BY <1>6, <1>7, <1>8, <2>3 DEF Grown
  <2>5. PICK j \in DOMAIN catalog : y = catalog[j]
    BY <2>4 DEF ToSet
  <2>6. i = j
    BY <1>9, <2>2, <2>5 DEF Kept, Distinct
  <2> QED
    BY <2>5, <2>6
<1>11. ToSet(catalog) \subseteq ToSet(b)
  BY <1>9, <1>10 DEF ToSet
<1>12. ToSet(b) \subseteq ToSet(c) /\ ToSet(c) \subseteq ToSet(next)
  BY <1>7 DEF Grown, Filled
<1>13. \A y \in ToSet(b) : y \in ToSet(catalog) \/ y \in ToSet(personal)
  BY <1>7, <1>8 DEF Grown
<1>14. /\ Len(picks) \in Nat /\ Len(rich) = Len(picks) /\ DOMAIN picks = 1 .. Len(picks)
       /\ DOMAIN rich = 1 .. Len(picks)
       /\ \A k \in 1 .. Len(picks) : rich[k] = picks[k].album /\ picks[k].album \in fresh
  BY AlbumsPicked DEF rich
<1>15. ASSUME NEW k \in 1 .. Len(picks), picks[k].album.master \notin MastersIn(personal)
       PROVE  picks[k].album \in ToSet(next)
  <2> DEFINE x == picks[k].album
  <2>1. /\ x \in fresh /\ rich[k] = x /\ release_eligible(x.release, x.master)
        /\ x.master \notin MastersIn(catalog) /\ x.artist \notin ArtistsIn(catalog \o personal)
        /\ \A f \in fresh : f.master = x.master => f = x
    BY <1>14 DEF Listed, Rated
  <2> HIDE DEF x
  <2>2. PICK y \in ToSet(c) : y.master = x.master \/ y.artist = x.artist
    BY <1>7, <1>14, <2>1 DEF Grown
  <2>3. y \notin ToSet(b)
    BY <1>5, <1>13, <1>15, <2>1, <2>2 DEF MastersIn, ArtistsIn, x
  <2>4. y \in ToSet(rich)
    BY <1>7, <2>3 DEF Grown
  <2>5. PICK j \in 1 .. Len(picks) : y = picks[j].album
    BY <1>14, <2>4 DEF ToSet
  <2>6. y = x
    <3>1. CASE y.master = x.master
      BY <1>14, <2>1, <2>5, <3>1
    <3>2. CASE y.artist = x.artist
      BY <2>5, <3>2, PickedOnce DEF x
    <3> QED
      BY <2>2, <3>1, <3>2
  <2> QED
    BY <1>12, <2>2, <2>6 DEF x
<1>16. validate_album_catalog(next)
  <2>1. \E x : x \in ToSet(catalog)
    <3>1. Len(catalog) \in Nat \ {0}
      BY EmptySeq DEF Kept
    <3>2. 1 \in DOMAIN catalog
      BY <1>9, <3>1
    <3> QED
      BY <3>2 DEF ToSet
  <2>2. ToSet(<<>>) = {}
    BY DEF ToSet
  <2>3. c # <<>>
    BY <1>11, <1>12, <2>1, <2>2
  <2> QED
    BY <1>7, <2>3 DEF Filled, Distinct, validate_album_catalog
<1>17. ASSUME NEW k \in 1 .. Len(picks), picks[k].album.master \in MastersIn(personal)
       PROVE  /\ picks[k].album \notin ToSet(next)
              /\ \E y \in ToSet(personal) : y \in ToSet(next) /\ y.master = picks[k].album.master
  <2> DEFINE x == picks[k].album
  <2>1. x.artist \notin ArtistsIn(catalog \o personal)
    BY <1>14 DEF x
  <2> HIDE DEF x
  <2>2. PICK i \in 1 .. Len(personal) : personal[i].master = x.master
    BY <1>9, <1>17 DEF MastersIn, ToSet, x
  <2>3. personal[i] \in ToSet(personal)
    BY <1>9, <2>2 DEF ToSet
  <2>4. PICK y \in ToSet(a) : y.master = x.master
    BY <1>6, <1>7, <2>2, <2>3 DEF Grown
  <2>5. y \in ToSet(personal)
    BY <1>8, <2>4
  <2>6. y \in ToSet(next)
    BY <1>7, <1>12, <2>4 DEF Grown
  <2>7. y # x
    BY <1>5, <2>1, <2>5 DEF ArtistsIn
  <2>8. Distinct(next)
    BY <1>7 DEF Filled
  <2>9. x \notin ToSet(next)
    BY <2>4, <2>6, <2>7, <2>8 DEF Distinct, ToSet
  <2> QED
    BY <2>4, <2>5, <2>6, <2>9 DEF x
<1>18. /\ \A k \in DOMAIN picks :
            picks[k].album.master \notin MastersIn(personal) => picks[k].album \in ToSet(next)
       /\ \A k \in DOMAIN picks : picks[k].album.master \in MastersIn(personal) =>
            /\ picks[k].album \notin ToSet(next)
            /\ \E y \in ToSet(personal) : y \in ToSet(next) /\ y.master = picks[k].album.master
  BY <1>14, <1>15, <1>17
<1> QED
  BY <1>11, <1>12, <1>16, <1>18 DEF next

----------------------------------------------------------------------------
(* The published graph, before and after.                                   *)

\* The nodes of a graph are finitely many.
LEMMA NodesFinite ==
  ASSUME NEW corpus, Bounded(corpus), NEW catalog
  PROVE  IsFiniteSet(build_pathfinding_graph(corpus, catalog).nodes)
<1> DEFINE nodes == build_pathfinding_graph(corpus, catalog).nodes
<1>1. nodes = UNION ego_edges(corpus, ArtistsIn(catalog))
  BY DEF build_pathfinding_graph
<1> HIDE DEF nodes
<1>2. nodes \in SUBSET ArtistsOf(corpus.credits)
  BY <1>1 DEF ego_edges, Bounded
<1>3. IsFiniteSet(nodes)
  BY <1>2, ArtistsFinite, FS_Subset
<1> QED
  BY <1>3 DEF nodes

\* The graph of a catalogue that holds another has its nodes, and every album of it anchors
\* those of them that perform on it.
LEMMA GraphGrows ==
  ASSUME NEW corpus, NEW catalog, NEW next, ToSet(catalog) \subseteq ToSet(next)
  PROVE  LET before == build_pathfinding_graph(corpus, catalog)
             after == build_pathfinding_graph(corpus, next)
         IN  /\ before.nodes \subseteq after.nodes
             /\ \A x \in ToSet(next) :
                  Roster(corpus, x.release) \cap before.nodes
                    \subseteq after.anchors[x.master] \cap before.nodes
<1> DEFINE before == build_pathfinding_graph(corpus, catalog)
           after == build_pathfinding_graph(corpus, next)
           released(m) == {y \in ToSet(next) : y.master = m}
           performs(m) == UNION {Roster(corpus, x.release) : x \in released(m)}
<1>1. ArtistsIn(catalog) \subseteq ArtistsIn(next)
  BY DEF ArtistsIn
<1>2. ego_edges(corpus, ArtistsIn(catalog)) \subseteq ego_edges(corpus, ArtistsIn(next))
  BY <1>1 DEF ego_edges
<1>3. /\ before.nodes = UNION ego_edges(corpus, ArtistsIn(catalog))
      /\ after.nodes = UNION ego_edges(corpus, ArtistsIn(next))
  BY DEF build_pathfinding_graph
<1>4. \A m \in MastersIn(next) : after.anchors[m] = after.nodes \cap performs(m)
  BY DEF build_pathfinding_graph
<1> HIDE DEF before, after
<1>5. before.nodes \subseteq after.nodes
  BY <1>2, <1>3
<1>6. \A x \in ToSet(next) :
        x.master \in MastersIn(next) /\ Roster(corpus, x.release) \subseteq performs(x.master)
  BY DEF MastersIn
<1> HIDE DEF performs
<1>7. \A x \in ToSet(next) :
        Roster(corpus, x.release) \cap before.nodes \subseteq after.anchors[x.master] \cap before.nodes
  BY <1>4, <1>5, <1>6
<1> QED
  BY <1>5, <1>7 DEF before, after

\* A list of finalists and what the policy of the automatic lanes leaves of it.
LEMMA FilteredJoins ==
  ASSUME NEW corpus, Bounded(corpus), NEW catalog, NEW published,
         NEW finalists, Listed(corpus, published, finalists)
  PROVE  LET filtered == filter_to_automatic_lane(finalists, Scored(corpus, catalog, finalists))
             nodes == build_pathfinding_graph(corpus, catalog).nodes
         IN  \A f \in filtered :
               f \in finalists /\ Cardinality(Roster(corpus, f.release) \cap nodes) >= OverlapMinimum
<1> DEFINE scored == Scored(corpus, catalog, finalists)
           filtered == filter_to_automatic_lane(finalists, scored)
           nodes == build_pathfinding_graph(corpus, catalog).nodes
<1> SUFFICES ASSUME NEW f \in filtered
             PROVE  f \in finalists /\ Cardinality(Roster(corpus, f.release) \cap nodes) >= OverlapMinimum
  OBVIOUS
<1> DEFINE m == f.master
           roster == Roster(corpus, select_master_main_release_id(corpus, m))
           shared == Cardinality(roster \cap nodes)
<1>1. f \in finalists /\ ~automatic_lane_rejection(scored[m])
  BY DEF filter_to_automatic_lane
<1>2. m \in {x.master : x \in finalists}
  BY <1>1
<1>3. scored[m] = IF master_studio_eligible(corpus, m)
                  THEN [eligible |-> TRUE, roster_size |-> Cardinality(roster),
                        overlap_existing |-> shared]
                  ELSE [eligible |-> FALSE]
  BY <1>2 DEF Scored, score_expansion_candidates
<1>4. f.release = select_master_main_release_id(corpus, m)
  BY <1>1 DEF Listed
<1> HIDE DEF scored, shared, roster
<1>5. scored[m].eligible /\ ~(scored[m].overlap_existing < OverlapMinimum)
  BY <1>1 DEF automatic_lane_rejection
<1>6. master_studio_eligible(corpus, m)
  BY <1>3, <1>5
<1>7. scored[m].overlap_existing = shared
  BY <1>3, <1>6
<1>8. shared \in Nat /\ OverlapMinimum \in Nat
  <2>1. IsFiniteSet(nodes)
    BY NodesFinite
  <2>2. IsFiniteSet(roster \cap nodes)
    BY <2>1, FS_Intersection
  <2> QED
    BY <2>2, FS_CardinalityType, ExpansionFits DEF shared
<1>9. shared >= OverlapMinimum
  BY <1>5, <1>7, <1>8
<1> QED
  BY <1>1, <1>4, <1>9 DEF shared, roster

----------------------------------------------------------------------------
(* The edges reported.                                                      *)

\* What a pick tells is a number.
LEMMA PicksCount ==
  ASSUME NEW corpus, NEW baseline, NEW fresh, NEW picks, Picked(corpus, baseline, fresh, picks)
  PROVE  \A k \in 1 .. Len(picks) : picks[k].new_edges \in Nat
<1>1. picks \in Seq([album : fresh, new_edges : Nat])
  BY DEF Picked
<1>2. \A k \in 1 .. Len(picks) : picks[k] \in [album : fresh, new_edges : Nat]
  BY <1>1, ElementOfSeq
<1> QED
  BY <1>2

\* Each pick adds the edges told to what was in scope before it.
LEMMA PickAdds ==
  ASSUME NEW corpus, Bounded(corpus), NEW baseline, NEW fresh, NEW picks,
         Picked(corpus, baseline, fresh, picks), NEW k \in 1 .. Len(picks)
  PROVE  /\ Cardinality(ScopeAt(corpus, baseline, picks, k - 1)) \in Nat
         /\ Cardinality(ScopeAt(corpus, baseline, picks, k)) =
              Cardinality(ScopeAt(corpus, baseline, picks, k - 1)) + picks[k].new_edges
         /\ ScopeAt(corpus, baseline, picks, k - 1) \subseteq ScopeAt(corpus, baseline, picks, k)
<1> DEFINE n == k - 1
           r == picks[k].album.release
           was == ScopeAt(corpus, baseline, picks, n)
           is == ScopeAt(corpus, baseline, picks, k)
           added == edges_for_release_scope(corpus, {r})
<1>1. n \in Nat /\ k \in Nat /\ k = n + 1
  BY AlbumsPicked
<1>2. picks[k].new_edges = Cardinality(NewEdges(corpus, was, picks[k].album))
  BY DEF Picked, WellPicked
<1>3. NewEdges(corpus, was, picks[k].album) = added \ was
  BY DEF NewEdges
<1>4. is = was \cup added
  <2> HIDE DEF n
  <2> QED
    BY <1>1, ScopeNext
<1>5. IsFiniteSet(was) /\ IsFiniteSet(added)
  BY ScopeWithin DEF ScopeAt
<1> HIDE DEF n, r, was, is, added
<1>6. IsFiniteSet(added \ was)
  BY <1>5, FS_Difference
<1>7. was \cup (added \ was) = is /\ was \cap (added \ was) = {}
  BY <1>4
<1>8. Cardinality(is) = Cardinality(was) + Cardinality(added \ was) - Cardinality(was \cap (added \ was))
  BY <1>5, <1>6, <1>7, FS_Union
<1>9. Cardinality(was) \in Nat /\ Cardinality(added \ was) \in Nat
  BY <1>5, <1>6, FS_CardinalityType
<1>10. Cardinality(is) = Cardinality(was) + Cardinality(added \ was)
  <2>1. Cardinality(was \cap (added \ was)) = 0
    BY <1>7, FS_EmptySet
  <2> QED
    BY <1>8, <1>9, <2>1
<1> QED
  BY <1>2, <1>3, <1>4, <1>9, <1>10 DEF n, r, was, is, added

\* Together the picks tell of the edges by which the scope has grown.
LEMMA ReportedInAll ==
  ASSUME NEW corpus, Bounded(corpus), NEW baseline, NEW fresh, NEW picks,
         Picked(corpus, baseline, fresh, picks)
  PROVE  EdgesReported(picks) = Cardinality(ScopeAt(corpus, baseline, picks, Len(picks)))
                                  - Cardinality(ScopeAt(corpus, baseline, picks, 0))
<1> DEFINE N == Len(picks)
           size(n) == Cardinality(ScopeAt(corpus, baseline, picks, n))
           S == [n \in 0 .. N |-> {size(n) - size(0)}]
           step == [n \in 1 .. N |-> [x \in {size(n - 1) - size(0)} |-> x + picks[n].new_edges]]
           Solves(p) == p = [n \in 0 .. N |-> IF n = 0 THEN 0 ELSE p[n - 1] + picks[n].new_edges]
           f == CHOOSE p : Solves(p)
<1>1. N \in Nat
  BY AlbumsPicked
<1>2. \A n \in 1 .. N : picks[n].new_edges \in Nat
  BY PicksCount
<1>3. \A n \in 0 .. N : size(n) \in Nat
  BY ScopeWithin, FS_CardinalityType DEF ScopeAt
<1>4. \A n \in 1 .. N : size(n) = size(n - 1) + picks[n].new_edges
  BY PickAdds
<1> HIDE DEF size, N
<1>5. ASSUME NEW n \in 1 .. N
      PROVE  size(n) - size(0) = (size(n - 1) - size(0)) + picks[n].new_edges
  <2>1. n \in 0 .. N /\ n - 1 \in 0 .. N /\ 0 \in 0 .. N
    BY <1>1
  <2>2. size(n) \in Nat /\ size(n - 1) \in Nat /\ size(0) \in Nat
    BY <1>3, <2>1
  <2> QED
    BY <1>2, <1>4, <2>2
<1>6. 0 \in S[0]
  <2>1. 0 \in 0 .. N
    BY <1>1
  <2>2. size(0) - size(0) = 0
    BY <1>3, <2>1
  <2> QED
    BY <2>1, <2>2
<1>7. \E p : Solves(p)
  <2>1. \A n \in 1 .. N : \A x \in S[n - 1] : step[n][x] = x + picks[n].new_edges
    <3>1. \A n \in 1 .. N : n - 1 \in 0 .. N
      BY <1>1
    <3> QED
      BY <3>1
  <2>2. \A n \in 1 .. N : \A x \in S[n - 1] : step[n][x] \in S[n]
    <3>1. \A n \in 1 .. N : n \in 0 .. N /\ n - 1 \in 0 .. N
      BY <1>1
    <3>2. \A n \in 0 .. N : S[n] = {size(n) - size(0)}
      OBVIOUS
    <3> HIDE DEF S, step
    <3> QED
      BY <1>5, <2>1, <3>1, <3>2
  <2> HIDE DEF S, step, Solves
  <2>3. PICK p : Iterated(p, N, S, step, 0)
    BY <1>1, <1>6, <2>2, Iterates
  <2>4. /\ p[0] = 0 /\ p = [n \in 0 .. N |-> p[n]]
        /\ \A n \in 1 .. N : p[n] = step[n][p[n - 1]]
        /\ \A n \in 0 .. N : p[n] \in S[n]
    BY <2>3 DEF Iterated
  <2>5. ASSUME NEW n \in 0 .. N
        PROVE  p[n] = IF n = 0 THEN 0 ELSE p[n - 1] + picks[n].new_edges
    <3>1. CASE n = 0
      BY <2>4, <3>1
    <3>2. CASE n # 0
      <4>1. n \in 1 .. N /\ n - 1 \in 0 .. N
        BY <1>1, <3>2
      <4>2. p[n] = p[n - 1] + picks[n].new_edges
        BY <2>1, <2>4, <4>1
      <4> QED
        BY <3>2, <4>2
    <3> QED
      BY <3>1, <3>2
  <2>6. Solves(p)
    BY <2>4, <2>5 DEF Solves
  <2> QED
    BY <2>6
<1>8. Solves(f)
  <2> HIDE DEF Solves
  <2> QED
    BY <1>7
<1>9. EdgesReported(picks) = f[N]
  BY DEF EdgesReported, N
<1> HIDE DEF f, step
<1>10. f[0] = 0
  BY <1>1, <1>8
<1>11. ASSUME NEW n \in 1 .. N PROVE f[n] = f[n - 1] + picks[n].new_edges
  <2>1. n \in 0 .. N /\ n # 0
    BY <1>1
  <2>2. f[n] = IF n = 0 THEN 0 ELSE f[n - 1] + picks[n].new_edges
    BY <1>8, <2>1, Zenon
  <2> QED
    BY <2>1, <2>2
<1> HIDE DEF Solves
<1>12. f[N] \in S[N]
  <2>1. \A n \in 0 .. N : S[n] = {size(n) - size(0)}
    OBVIOUS
  <2>2. \A n \in 1 .. N : n \in 0 .. N /\ n - 1 \in 0 .. N
    BY <1>1
  <2>3. \A n \in 1 .. N : f[n - 1] \in S[n - 1] => f[n] \in S[n]
    BY <1>5, <1>11, <2>1, <2>2
  <2>4. f[0] \in S[0]
    BY <1>6, <1>10
  <2> HIDE DEF S
  <2>5. \A n \in 0 .. N : f[n] \in S[n]
    BY <1>1, <2>3, <2>4, StaysWithin
  <2> QED
    BY <1>1, <2>5
<1>13. N \in 0 .. N
  BY <1>1
<1> QED
  BY <1>9, <1>12, <1>13 DEF S, size, N

\* The scope after all picks is that of the baseline with their albums.
LEMMA ScopesOfLists ==
  ASSUME NEW corpus, NEW U, NEW baseline \in Seq(U), NEW fresh, NEW picks,
         Picked(corpus, baseline, fresh, picks)
  PROVE  /\ ScopeAt(corpus, baseline, picks, 0) = edges_for_release_scope(corpus, CitedBy(baseline))
         /\ ScopeAt(corpus, baseline, picks, Len(picks)) =
              edges_for_release_scope(corpus, CitedBy(baseline \o AlbumsOf(picks)))
<1> DEFINE W == U \cup fresh
           rich == AlbumsOf(picks)
           N == Len(picks)
<1>1. baseline \in Seq(W) /\ rich \in Seq(W)
  <2>1. U \subseteq W /\ fresh \subseteq W
    OBVIOUS
  <2> HIDE DEF W
  <2> QED
    BY <2>1, AlbumsPicked, SeqMonotonic
<1> HIDE DEF W
<1>2. ToSet(baseline \o rich) = ToSet(baseline) \cup ToSet(rich)
  BY <1>1, JoinedHold
<1>3. DOMAIN rich = 1 .. N /\ \A k \in 1 .. N : rich[k] = picks[k].album
  BY AlbumsPicked
<1> HIDE DEF rich
<1>4. ToSet(rich) = {picks[j].album : j \in 1 .. N}
  BY <1>3 DEF ToSet
<1>5. CitedBy(baseline \o rich) = CitedBy(baseline) \cup {picks[j].album.release : j \in 1 .. N}
  BY <1>2, <1>4 DEF CitedBy
<1>6. {picks[j].album.release : j \in 1 .. 0} = {}
  OBVIOUS
<1> QED
  BY <1>5, <1>6 DEF ScopeAt, rich, N

\* The picks that add the most come first.
LEMMA MostFirst ==
  ASSUME NEW corpus, Bounded(corpus), NEW baseline, NEW fresh, NEW picks,
         Picked(corpus, baseline, fresh, picks), NEW k \in 1 .. Len(picks) - 1
  PROVE  picks[k].new_edges >= picks[k + 1].new_edges
<1> DEFINE l == k + 1
           was == ScopeAt(corpus, baseline, picks, k - 1)
           is == ScopeAt(corpus, baseline, picks, l - 1)
           next == picks[l].album
<1>1. k \in 1 .. Len(picks) /\ l \in 1 .. Len(picks) /\ k \in Nat /\ l - 1 = k
  BY AlbumsPicked
<1>2. was \subseteq is
  BY <1>1, PickAdds
<1>3. /\ next \in fresh /\ \A j \in 1 .. k : picks[j].album.artist # next.artist
      /\ picks[l].new_edges = Cardinality(NewEdges(corpus, is, next))
  BY <1>1 DEF Picked, WellPicked
<1>4. \A j \in 1 .. k - 1 : picks[j].album.artist # next.artist
  BY <1>1, <1>3
<1>5. Cardinality(NewEdges(corpus, was, next)) <= picks[k].new_edges
  BY <1>1, <1>3, <1>4 DEF Picked, WellPicked
<1>6. picks[k].new_edges \in Nat
  BY <1>1, PicksCount
<1> HIDE DEF was, is, next, l
<1>7. /\ Cardinality(NewEdges(corpus, was, next)) \in Nat
      /\ Cardinality(NewEdges(corpus, is, next)) \in Nat
      /\ Cardinality(NewEdges(corpus, is, next)) <= Cardinality(NewEdges(corpus, was, next))
  BY <1>2, NewEdgesCount
<1>8. picks[k].new_edges >= picks[l].new_edges
  BY <1>3, <1>5, <1>6, <1>7
<1> QED
  BY <1>8 DEF l

----------------------------------------------------------------------------
(* A round.                                                                 *)

\* The corpora of the pipeline have finitely many credits, all on releases with a master.
LEMMA CorporaBounded ==
  ASSUME NEW d \in AllDumps, NEW seed \in Seeds
  PROVE  Bounded(Corpora[d][seed])
<1> DEFINE credits == OneHopCredits(Credits[d], seed)
           corpus == CreditGraph(credits)
<1>1. Regular(credits)
  BY DumpsRegular, CorpusRegular
<1>2. credits \in SUBSET Credits[d]
  BY DEF OneHopCredits
<1>3. IsFiniteSet(credits)
  BY <1>2, MastersFit, FS_Subset
<1>4. ReleasesOf(credits) \subseteq DOMAIN MasterOf
  BY <1>2, MastersFit DEF ReleasesOf
<1>5. corpus.credits = credits /\ DOMAIN corpus.edges = Linked(credits)
  BY DEF CreditGraph, credit_edges
<1> HIDE DEF credits, corpus
<1>6. \A e \in Linked(credits) : e \subseteq ArtistsOf(credits)
  BY <1>1, EdgeEnds DEF Linked
<1>7. Bounded(corpus)
  BY <1>1, <1>3, <1>4, <1>5, <1>6 DEF Bounded
<1> QED
  BY <1>7, CorporaAre DEF corpus, credits

\* Part of a list of finalists is one.
LEMMA PartListed ==
  ASSUME NEW corpus, NEW published, NEW finalists, Listed(corpus, published, finalists),
         NEW part \in SUBSET finalists
  PROVE  Listed(corpus, published, part)
<1>1. IsFiniteSet(part)
  BY FS_Subset DEF Listed, Rated
<1> QED
  BY <1>1 DEF Listed, Rated

\* Each of the three lists is one of finalists.
LEMMA FinalistsListed ==
  ASSUME NEW corpus, Bounded(corpus), NEW collection, NEW catalog,
         NEW finalists \in FinalistLists(corpus, collection, catalog)
  PROVE  Listed(corpus, MastersIn(catalog), finalists)
<1> DEFINE published == MastersIn(catalog)
           performers == catalog_performer_ids(corpus, catalog)
           pool(billing) == build_relationship_pool(corpus, performers, published, billing)
<1>1. \/ finalists = rank_album_candidates(corpus, published)
      \/ finalists = derive_collection_candidates(corpus, collection, published)
      \/ \E billing : finalists = pool(billing)
  BY DEF FinalistLists
<1>2. Listed(corpus, published, rank_album_candidates(corpus, published))
  BY RankListed
<1>3. Listed(corpus, published, derive_collection_candidates(corpus, collection, published))
  BY CollectionListed
<1>4. \A billing : Listed(corpus, published, pool(billing))
  BY PoolListed
<1> HIDE DEF published, pool
<1>5. Listed(corpus, published, finalists)
  BY <1>1, <1>2, <1>3, <1>4
<1> QED
  BY <1>5 DEF published

\* What one round reports is real.
LEMMA OneRound ==
  ASSUME NEW corpus, Bounded(corpus), NEW U, NEW catalog, Kept(U, catalog), catalog # <<>>,
         NEW collection, NEW personal \in PersonalPicks(corpus, collection, catalog),
         NEW finalists \in FinalistLists(corpus, collection, catalog)
  PROVE  RoundIsReal(corpus, ExpansionRound(corpus, catalog, personal,
                                            Selected(corpus, catalog, personal, finalists)))
<1> DEFINE baseline == catalog \o personal
           filtered == filter_to_automatic_lane(finalists, Scored(corpus, catalog, finalists))
           fresh == Fresh(baseline, filtered)
           picks == Selected(corpus, catalog, personal, finalists)
           next == NextCatalog(corpus, catalog, personal, picks)
           before == build_pathfinding_graph(corpus, catalog)
           after == build_pathfinding_graph(corpus, next)
           round == ExpansionRound(corpus, catalog, personal, picks)
<1>1. Listed(corpus, MastersIn(catalog), finalists)
  BY FinalistsListed
<1>2. PICK V : personal \in Seq(V) /\ \A x \in V : OfTheOwner(corpus, catalog, x)
  BY PicksAreNew
<1>3. \A f \in filtered :
        f \in finalists /\ Cardinality(Roster(corpus, f.release) \cap before.nodes) >= OverlapMinimum
  BY <1>1, FilteredJoins
<1>4. picks = greedy_marginal_selection(corpus, baseline, filtered)
  BY DEF Selected
<1>5. \A f \in fresh : f \in filtered /\ f.artist \notin ArtistsIn(baseline)
  BY DEF Fresh
<1>6. /\ round.catalog = catalog /\ round.personal = personal /\ round.selected = picks
      /\ round.next = next /\ round.before = before /\ round.after = after
  BY DEF ExpansionRound
<1> HIDE DEF filtered, picks, next, before, after, round
<1>7. Listed(corpus, MastersIn(catalog), fresh)
  <2>1. fresh \in SUBSET finalists
    BY <1>3, <1>5
  <2> HIDE DEF fresh
  <2> QED
    BY <1>1, <2>1, PartListed
<1>8. Picked(corpus, baseline, fresh, picks)
  <2>1. Rated(Fresh(baseline, filtered))
    BY <1>7 DEF Listed
  <2> HIDE DEF baseline
  <2> QED
    BY <1>4, <2>1, SelectionIsWell DEF Picked
<1> HIDE DEF fresh
<1>9. /\ validate_album_catalog(next) /\ ToSet(catalog) \subseteq ToSet(next)
      /\ \A k \in DOMAIN picks :
           picks[k].album.master \notin MastersIn(personal) => picks[k].album \in ToSet(next)
      /\ \A k \in DOMAIN picks : picks[k].album.master \in MastersIn(personal) =>
           /\ picks[k].album \notin ToSet(next)
           /\ \E y \in ToSet(personal) : y \in ToSet(next) /\ y.master = picks[k].album.master
  BY <1>2, <1>5, <1>7, <1>8, NextKeeps DEF next
<1>10. MastersIn(catalog) \subseteq MastersIn(next)
  BY <1>9 DEF MastersIn
<1>11. /\ DOMAIN picks = 1 .. Len(picks) /\ Len(picks) \in Nat
       /\ \A k \in 1 .. Len(picks) : picks[k].album \in fresh
  BY <1>8, AlbumsPicked
<1>12. \A y \in ToSet(personal) : y.release = select_master_main_release_id(corpus, y.master)
  BY <1>2, LenProperties, ElementOfSeq DEF ToSet, OfTheOwner
<1>13. ASSUME NEW k \in DOMAIN picks, picks[k].album.master \in MastersIn(personal)
       PROVE  picks[k].new_edges = 0
  <2> DEFINE x == picks[k].album
             scope == ScopeAt(corpus, baseline, picks, k - 1)
             own == edges_for_release_scope(corpus, {x.release})
  <2>1. PICK y \in ToSet(personal) : y.master = x.master
    BY <1>13 DEF MastersIn
  <2>2. y.release = x.release
    BY <1>7, <1>11, <1>12, <2>1 DEF Listed
  <2>3. y \in ToSet(baseline)
    <3> DEFINE W == U \cup V
    <3>1. U \subseteq W /\ V \subseteq W
      OBVIOUS
    <3> HIDE DEF W
    <3>2. catalog \in Seq(W) /\ personal \in Seq(W)
      BY <1>2, <3>1, SeqMonotonic DEF Kept
    <3>3. ToSet(baseline) = ToSet(catalog) \cup ToSet(personal)
      BY <3>2, JoinedHold
    <3> QED
      BY <3>3
  <2>4. x.release \in CitedBy(baseline)
    BY <2>2, <2>3 DEF CitedBy
  <2> HIDE DEF baseline
  <2>5. own \subseteq scope
    <3>1. {x.release} \subseteq CitedBy(baseline) \cup {picks[j].album.release : j \in 1 .. k - 1}
      BY <2>4
    <3> HIDE DEF x
    <3> QED
      BY <3>1, ScopesJoin DEF ScopeAt
  <2>6. NewEdges(corpus, scope, x) = {}
    BY <2>5 DEF NewEdges
  <2>7. picks[k].new_edges = Cardinality(NewEdges(corpus, scope, x))
    BY <1>8, <1>11 DEF Picked, WellPicked
  <2> QED
    BY <2>6, <2>7, FS_EmptySet
<1>14. ASSUME NEW k \in DOMAIN picks
       PROVE  Cardinality(after.anchors[picks[k].album.master] \cap before.nodes) >= OverlapMinimum
  <2> DEFINE x == picks[k].album
             joined == Roster(corpus, x.release) \cap before.nodes
             anchored == after.anchors[x.master] \cap before.nodes
  <2>1. Cardinality(joined) >= OverlapMinimum
    BY <1>3, <1>5, <1>11
  <2>2. joined \subseteq anchored
    <3>1. PICK y \in ToSet(next) : y.master = x.master /\ y.release = x.release
      <4>1. CASE x.master \notin MastersIn(personal)
        BY <1>9, <4>1
      <4>2. CASE x.master \in MastersIn(personal)
        <5>1. PICK y \in ToSet(personal) : y \in ToSet(next) /\ y.master = x.master
          BY <1>9, <4>2
        <5>2. y.release = select_master_main_release_id(corpus, y.master)
          BY <1>12, <5>1
        <5>3. x.release = select_master_main_release_id(corpus, x.master)
          BY <1>7, <1>11 DEF Listed
        <5> QED
          BY <5>1, <5>2, <5>3
      <4> QED
        BY <4>1, <4>2
    <3>2. Roster(corpus, y.release) \cap before.nodes \subseteq after.anchors[y.master] \cap before.nodes
      BY <1>9, GraphGrows DEF before, after
    <3> QED
      BY <3>1, <3>2
  <2>3. IsFiniteSet(before.nodes)
    BY NodesFinite DEF before
  <2>4. IsFiniteSet(anchored)
    BY <2>3, FS_Intersection
  <2> HIDE DEF joined, anchored
  <2>5. joined \in SUBSET anchored
    BY <2>2
  <2>6. IsFiniteSet(joined) /\ Cardinality(joined) <= Cardinality(anchored)
    BY <2>4, <2>5, FS_Subset
  <2>7. Cardinality(joined) \in Nat /\ Cardinality(anchored) \in Nat /\ OverlapMinimum \in Nat
    BY <2>4, <2>6, FS_CardinalityType, ExpansionFits
  <2>8. Cardinality(anchored) >= OverlapMinimum
    BY <2>1, <2>6, <2>7
  <2> QED
    BY <2>8 DEF anchored
<1>15. \A k \in 1 .. Len(picks) - 1 : picks[k].new_edges >= picks[k + 1].new_edges
  <2> HIDE DEF baseline
  <2> QED
    BY <1>8, MostFirst
<1>16. EdgesReported(picks) = GainOf(corpus, round)
  <2> DEFINE W == U \cup V
  <2>1. baseline \in Seq(W)
    <3>1. U \subseteq W /\ V \subseteq W
      OBVIOUS
    <3> HIDE DEF W
    <3>2. catalog \in Seq(W) /\ personal \in Seq(W)
      BY <1>2, <3>1, SeqMonotonic DEF Kept
    <3> QED
      BY <3>2, JoinedHold
  <2>2. GainOf(corpus, round) =
          Cardinality(edges_for_release_scope(corpus, CitedBy(baseline \o AlbumsOf(picks))))
            - Cardinality(edges_for_release_scope(corpus, CitedBy(baseline)))
    BY <1>6 DEF GainOf
  <2> HIDE DEF baseline, W
  <2>3. EdgesReported(picks) = Cardinality(ScopeAt(corpus, baseline, picks, Len(picks)))
                                 - Cardinality(ScopeAt(corpus, baseline, picks, 0))
    BY <1>8, ReportedInAll
  <2>4. /\ ScopeAt(corpus, baseline, picks, 0) = edges_for_release_scope(corpus, CitedBy(baseline))
        /\ ScopeAt(corpus, baseline, picks, Len(picks)) =
             edges_for_release_scope(corpus, CitedBy(baseline \o AlbumsOf(picks)))
    BY <1>8, <2>1, ScopesOfLists
  <2> QED
    BY <2>2, <2>3, <2>4
<1>17. \A k \in DOMAIN picks :
         /\ picks[k].album \notin ToSet(next) <=> PickedByTheOwner(round, picks[k].album)
         /\ PickedByTheOwner(round, picks[k].album) => picks[k].new_edges = 0
         /\ Cardinality(after.anchors[picks[k].album.master] \cap before.nodes) >= OverlapMinimum
  BY <1>6, <1>9, <1>14, <1>13 DEF PickedByTheOwner
<1>18. RoundIsReal(corpus, round)
  BY <1>6, <1>9, <1>10, <1>15, <1>16, <1>17 DEF RoundIsReal
<1> QED
  BY <1>18 DEF round, picks

\* Whatever was resolved, and whichever corpus is in place, what a selection reports is what
\* the catalogue build and the published graph make of it: exactly the picks whose record
\* the owner picked are dropped, each of which reported no edge; every record selected is
\* joined to the artists the policy asked for, nothing that was published is lost, and the
\* edges reported are those the scope gains, the most first.
THEOREM SelectionsAreReal == Spec => []SelectionIsReal
<1>1. ASSUME IInv PROVE SelectionIsReal
  <2> SUFFICES ASSUME Readable(resolved), NEW s \in Snapshots, InPlace(s),
                      NEW round \in RoundsFrom(Corpus(s), resolved.albums)
               PROVE  RoundIsReal(Corpus(s), round)
    BY DEF SelectionIsReal
  <2> DEFINE corpus == Corpus(s)
             catalog == CatalogOf(corpus, resolved.albums)
  <2>1. Bounded(corpus)
    BY <1>1, InPlaceCorpus, CorporaBounded DEF IInv
  <2>2. resolved.albums \in Seq(Entries)
    BY <1>1 DEF IInv, FilesOK, ResolvedOK, OnePerArtist
  <2>3. PICK U : Kept(U, catalog)
    BY <2>2, CatalogKept
  <2>4. catalog # <<>> /\ \E collection \in Collections :
                             round \in ExpansionRounds(corpus, collection, catalog)
    BY DEF RoundsFrom
  <2> HIDE DEF corpus
  <2>5. PICK collection \in Collections : round \in ExpansionRounds(corpus, collection, catalog)
    BY <2>4
  <2>6. PICK personal \in PersonalPicks(corpus, collection, catalog),
             finalists \in FinalistLists(corpus, collection, catalog) :
          round = ExpansionRound(corpus, catalog, personal,
                                 Selected(corpus, catalog, personal, finalists))
    BY <2>5 DEF ExpansionRounds
  <2> HIDE DEF catalog
  <2>7. catalog # <<>>
    BY <2>4
  <2>8. RoundIsReal(corpus, round)
    BY <2>1, <2>3, <2>6, <2>7, OneRound
  <2> QED
    BY <2>8 DEF corpus
<1> QED
  BY <1>1, Invariance, PTL
=============================================================================
