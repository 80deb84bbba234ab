--------------------------- MODULE PublicationSet ---------------------------
(***************************************************************************)
(* The public artifacts: the builders that derive them from the one-hop    *)
(* corpus and from each other, the gate (validate-public-artifacts) and    *)
(* the continuity check a publication passes, and what is published.       *)
(*                                                                         *)
(* An artifact is what the others and the gate can tell of it.  A version  *)
(* string is a hash of content, so it is that content: catalog_version is  *)
(* the set of albums, a graph's version the whole graph record.  A corpus  *)
(* is the number of times expand-one-hop has widened it; every generation  *)
(* stays on disk, and each command is given the root it reads.             *)
(***************************************************************************)
EXTENDS ChallengeWalk

CONSTANTS FirstCatalog,  \* the published albums to begin with
          Backbone,      \* the editorial list
          Corpora,       \* per generation: the artist pairs it connects
          Bridged,       \* per generation: those Record Routes finds
          GivenMaxPaths, \* values an operator passes as --max-paths
          MaxSlips,      \* bound: steps left out, or passes begun again, in a round
          MaxRounds      \* bound: publications

ASSUME PublicationFits ==
  /\ Backbone \subseteq FirstCatalog /\ FirstCatalog \subseteq Albums
  /\ Len(Corpora) = Len(Bridged) /\ Len(Corpora) \in Nat \ {0}
  /\ \A g \in 1 .. Len(Corpora) : Bridged[g] \subseteq Corpora[g]
  /\ \A g \in 2 .. Len(Corpora) :
       Corpora[g - 1] \subseteq Corpora[g] /\ Bridged[g - 1] \subseteq Bridged[g]
  /\ \E a, b \in FirstCatalog : ArtistOf[a] # ArtistOf[b]
  /\ GivenMaxPaths \cup {MaxSlips, MaxRounds} \subseteq Nat

VARIABLES files,    \* the operator's working tree
          site,     \* what is published
          corpus,   \* the newest corpus
          writing,  \* the second file of a pair, not written yet
          step,     \* the next step of the runbook
          slips, round  \* bounds

vars == <<files, site, corpus, writing, step, slips, round>>

Roots == 1 .. corpus
Generations == 1 .. Len(Corpora)
ArtistsOf(catalog) == {ArtistOf[a] : a \in catalog}
Nothing == [name |-> "none"]

----------------------------------------------------------------------------
(* Releases: the ones around an artist that a corpus holds, and the one     *)
(* that documents a pair.                                                   *)

EgoReleases(artists, g) == {[of |-> {a}, since |-> k] : a \in artists, k \in 1 .. g}

FirstSeen(pair) ==
  CHOOSE g \in Generations : pair \in Corpora[g] /\ \A k \in 1 .. g - 1 : pair \notin Corpora[k]

HopReleases(pairs) == {[of |-> p, since |-> FirstSeen(p)] : p \in pairs}
Among(catalog, pairs) == {p \in pairs : p \subseteq ArtistsOf(catalog)}

----------------------------------------------------------------------------
(* The catalog.                                                             *)

\* MUTANT of InLane: the preservation lane holds one album per artist too.
OnePerArtist(kept, lane, a) ==
  IF a \in kept \/ ArtistOf[a] \in ArtistsOf(kept) THEN kept ELSE kept \cup {a}

(* A lane keeps an album that is not kept yet; the later lanes, one for     *)
(* every artist no kept album is by.                                        *)
InLane(kept, lane, a) ==
  IF a \in kept \/ (lane = "unique" /\ ArtistOf[a] \in ArtistsOf(kept))
  THEN kept ELSE kept \cup {a}

Lane(kept, lane, albums) ==
  LET order == Ordered(albums)
      after[n \in 0 .. Len(order)] ==
        IF n = 0 THEN kept ELSE InLane(after[n - 1], lane, order[n])
  IN after[Len(order)]

(* Backbone, personal seed, already-published, then graph-rich, coverage    *)
(* gap and generic candidates.                                              *)
assemble_album_catalog(personal, published, candidates) ==
  Lane(Lane(Lane(Backbone, "personal", personal), "published", published),
       "unique", candidates)

----------------------------------------------------------------------------
(* The builders.                                                            *)

build_album_credit_membership(catalog) == [catalog |-> catalog]

(* The membership's own catalog_version is not read: an album it lacks is   *)
(* an isolated anchor.                                                      *)
build_pathfinding_graph(catalog, membership, g) ==
  [catalog |-> catalog, corpus |-> g, anchors |-> catalog,
   linked |-> catalog \cap membership.catalog]   \* anchors that have edges

GraphReleases(graph) == EgoReleases(ArtistsOf(graph.anchors), graph.corpus)

build_challenge(catalog, g, carried, given, max_paths) ==
  [catalog |-> catalog, corpus |-> g,
   paths |-> build_challenge_v2(catalog, carried, max_paths, Corpora[g]),
   max_paths |-> max_paths, given |-> given, carried |-> carried # {}]

build_record_routes(catalog, g) ==
  [catalog |-> catalog, pairs |-> Among(catalog, Bridged[g])]

build_connection_rounds(catalog, g) ==
  [catalog |-> catalog, pairs |-> Among(catalog, Bridged[g])]

DocumentedReleases(f) ==
  HopReleases(Pairs(f.challenge.paths) \cup f.routes_rounds.pairs)

\* MUTANT of build_evidence_release_registry: the graph's releases are left out.
RegistryOfDocumented(f) == [catalog |-> f.catalog, releases |-> DocumentedReleases(f)]

build_evidence_release_registry(f) ==
  [catalog |-> f.catalog,
   releases |-> DocumentedReleases(f) \cup GraphReleases(f.graph)]

build_prominence(f) == [graph |-> f.graph]

Contributors(f) == (UNION Pairs(f.challenge.paths)) \cup (UNION f.routes_rounds.pairs)

\* MUTANT of OfThisCatalog: the routes' catalog_version is not compared.
ChallengeOfThisCatalog(f, names) == f.challenge.catalog = f.catalog

(* The inputs of the index and of the distances belong to one catalog.      *)
OfThisCatalog(f, names) == {f[n].catalog : n \in names} = {f.catalog}

build_contributor_index(f) == [catalog |-> f.catalog, ids |-> Contributors(f)]
build_album_hop_distances(f) == [catalog |-> f.catalog, ids |-> Contributors(f)]
build_search_index(f) == [catalog |-> f.catalog, index |-> f.index]

----------------------------------------------------------------------------
(* The gate: public_artifacts_failures is empty.                            *)

challenge_valid(f) == f.challenge.catalog = f.catalog
album_art_valid(f) == f.art = f.catalog
membership_valid(f) == f.membership.catalog = f.catalog
graph_valid(f) == f.graph.catalog = f.catalog /\ f.graph.anchors = f.catalog
prominence_valid(f) == f.prominence.graph = f.graph
registry_valid(f) == f.registry.catalog = f.catalog
index_valid(f) == f.index.catalog = f.catalog
hops_valid(f) == f.hops.catalog = f.catalog /\ f.hops.ids \subseteq f.index.ids
search_valid(f) == f.search.catalog = f.catalog /\ f.search.index = f.index

\* MUTANT of record_routes_valid: each file is checked on its own.
RoutesAlone(f) == f.routes_rounds.pairs # {} /\ f.routes_universe.pairs # {}

record_routes_valid(f) == f.routes_universe = f.routes_rounds
connection_rounds_valid(f) == f.game_universe = f.game_rounds

public_artifacts_valid(f) ==
  /\ challenge_valid(f) /\ album_art_valid(f) /\ membership_valid(f)
  /\ graph_valid(f) /\ prominence_valid(f) /\ registry_valid(f)
  /\ index_valid(f) /\ hops_valid(f) /\ search_valid(f)
  /\ record_routes_valid(f) /\ connection_rounds_valid(f)

Endpoints(f) == UNION Pairs(f.challenge.paths)

contributor_continuity_ok(before, after) == Endpoints(before) \subseteq Endpoints(after)

----------------------------------------------------------------------------
(* The first publication, each artifact built from the ones before it.      *)

FirstSources(c) ==
  [catalog |-> c, membership |-> build_album_credit_membership(c), art |-> c,
   graph |-> build_pathfinding_graph(c, build_album_credit_membership(c), 1),
   challenge |-> build_challenge(c, 1, {}, 0, MaxPathsFloor(c, {})),
   routes_universe |-> build_record_routes(c, 1),
   routes_rounds |-> build_record_routes(c, 1),
   game_universe |-> build_connection_rounds(c, 1),
   game_rounds |-> build_connection_rounds(c, 1)]

Derived(f) ==
  [catalog |-> f.catalog, membership |-> f.membership, art |-> f.art, graph |-> f.graph,
   challenge |-> f.challenge,
   routes_universe |-> f.routes_universe, routes_rounds |-> f.routes_rounds,
   game_universe |-> f.game_universe, game_rounds |-> f.game_rounds,
   registry |-> build_evidence_release_registry(f), prominence |-> build_prominence(f),
   index |-> build_contributor_index(f), hops |-> build_album_hop_distances(f),
   search |-> [catalog |-> f.catalog, index |-> build_contributor_index(f)]]

Init ==
  /\ files = Derived(FirstSources(FirstCatalog)) /\ site = files
  /\ corpus = 1 /\ writing = Nothing
  /\ step = 1 /\ slips = 0 /\ round = 0

----------------------------------------------------------------------------
(* Commands.  The runbook lists them in an order; an operator can leave a   *)
(* step out, begin again and publish at any point of it, so every sequence  *)
(* of commands is some number of passes.  One runs at a time: a builder     *)
(* reads the working tree, refuses what does not fit and writes its         *)
(* artifact.                                                                *)

Runbook == <<"catalog", "corpus", "membership", "graph", "challenge", "routes", "game",
             "art", "registry", "prominence", "index", "search", "hops">>
Optional == {"catalog", "corpus"}

Run(name) ==
  /\ round < MaxRounds /\ writing = Nothing /\ step <= Len(Runbook) /\ Runbook[step] = name
  /\ step' = step + 1
  /\ UNCHANGED <<slips, round, site>>

leave_out ==
  /\ round < MaxRounds /\ writing = Nothing /\ step <= Len(Runbook) /\ step' = step + 1
  /\ IF Runbook[step] \in Optional THEN UNCHANGED slips
     ELSE slips < MaxSlips /\ slips' = slips + 1
  /\ UNCHANGED <<files, site, corpus, writing, round>>

begin_again ==
  /\ round < MaxRounds /\ writing = Nothing /\ step > 1 /\ step' = 1
  /\ slips < MaxSlips /\ slips' = slips + 1
  /\ UNCHANGED <<files, site, corpus, writing, round>>

Write(name, artifact) ==
  Run(name) /\ files' = [files EXCEPT ![name] = artifact] /\ UNCHANGED <<corpus, writing>>

(* expand-one-hop writes the next, wider corpus.                            *)
expand_one_hop ==
  /\ Run("corpus") /\ corpus < Len(Corpora) /\ corpus' = corpus + 1
  /\ UNCHANGED <<files, writing>>

build_catalog ==
  \E personal, candidates \in SUBSET (Albums \ files.catalog) :
    personal \cup candidates # {} /\
    Write("catalog", assemble_album_catalog(personal, files.catalog, candidates))

build_membership == Write("membership", build_album_credit_membership(files.catalog))

build_graph ==
  \E g \in Roots :
    Write("graph", build_pathfinding_graph(files.catalog, files.membership, g))

(* --carry-forward-challenge names the published artifact.                  *)
build_challenge_from_dump ==
  \E g \in Roots, carry \in BOOLEAN, given \in GivenMaxPaths \cup {0} :
    LET carried == IF carry THEN Pairs(site.challenge.paths) ELSE {}
        inherited == IF carry THEN site.challenge.max_paths ELSE 0
        max_paths ==
          ResolvedMaxPaths(given, inherited, MaxPathsFloor(files.catalog, carried))
        challenge == build_challenge(files.catalog, g, carried, given, max_paths)
    IN Write("challenge", challenge) /\ challenge.paths # {}

(* Two files, one after the other: the command can die in between.          *)
WritePair(name, universe, rounds_file, artifact) ==
  /\ Run(name)
  /\ files' = [files EXCEPT ![universe] = artifact]
  /\ writing' = [name |-> rounds_file, artifact |-> artifact]
  /\ UNCHANGED corpus

build_routes ==
  \E g \in Roots :
    LET routes == build_record_routes(files.catalog, g)
    IN routes.pairs # {} /\ WritePair("routes", "routes_universe", "routes_rounds", routes)

build_game ==
  LET game == build_connection_rounds(files.catalog, corpus)
  IN game.pairs # {} /\ WritePair("game", "game_universe", "game_rounds", game)

WriteSecond ==
  /\ writing # Nothing
  /\ files' = [files EXCEPT ![writing.name] = writing.artifact]
  /\ writing' = Nothing
  /\ UNCHANGED <<site, corpus, step, slips, round>>

die ==
  /\ writing # Nothing /\ writing' = Nothing
  /\ UNCHANGED <<files, site, corpus, step, slips, round>>

build_art == Write("art", files.catalog)

(* A release of the graph that neither the others nor the corpus hold is    *)
(* refused.                                                                 *)
build_registry ==
  \E g \in Roots :
    /\ \A r \in GraphReleases(files.graph) \ DocumentedReleases(files) : r.since <= g
    /\ Write("registry", build_evidence_release_registry(files))

build_prominence_sidecar ==
  /\ files.registry.catalog = files.graph.catalog
  /\ Write("prominence", build_prominence(files))

build_index ==
  /\ OfThisCatalog(files, {"challenge", "routes_universe", "routes_rounds"})
  /\ Write("index", build_contributor_index(files))

build_hops ==
  /\ OfThisCatalog(files, {"challenge", "routes_rounds"})
  /\ LET hops == build_album_hop_distances(files)
     IN hops_valid([files EXCEPT !.hops = hops]) /\ Write("hops", hops)

build_search ==
  /\ files.index.catalog = files.catalog
  /\ Write("search", build_search_index(files))

(* A round ends when make check and the continuity check pass.              *)
publish ==
  /\ files # site /\ writing = Nothing
  /\ public_artifacts_valid(files)
  /\ contributor_continuity_ok(site, files)
  /\ site' = files /\ step' = 1 /\ slips' = 0
  /\ round < MaxRounds /\ round' = round + 1
  /\ UNCHANGED <<files, corpus, writing>>

Next ==
  \/ expand_one_hop \/ build_catalog \/ build_membership \/ build_graph
  \/ build_challenge_from_dump \/ build_routes \/ build_game \/ WriteSecond \/ die
  \/ build_art \/ build_registry \/ build_prominence_sidecar \/ build_index
  \/ build_hops \/ build_search \/ leave_out \/ begin_again \/ publish

Spec == Init /\ [][Next]_vars

----------------------------------------------------------------------------
(* Properties.                                                              *)

TypeOK ==
  /\ files.catalog \subseteq Albums /\ DOMAIN files = DOMAIN site
  /\ corpus \in Generations /\ step \in 1 .. Len(Runbook) + 1
  /\ slips \in 0 .. MaxSlips /\ round \in 0 .. MaxRounds

(* A challenge rebuilt with the published one carried forward and no        *)
(* --max-paths of its own documents every pair the published one does: the  *)
(* catalog may have grown and the corpus widened, but the first round of    *)
(* the walk and the carried pairs fit the budget together                   *)
(* (cli.py: derived_max_paths_floor; challenge.py: carry-forward ordering). *)
PublishedPairsStay ==
  [][/\ files'.challenge # files.challenge
     /\ files'.challenge.carried /\ files'.challenge.given = 0
     /\ files'.challenge.corpus >= site.challenge.corpus
     => Pairs(site.challenge.paths) \subseteq Pairs(files'.challenge.paths)]_vars

(* Carrying pairs forward never leaves a new album undocumented: with a     *)
(* budget of at least one path an album, an album that is its artist's only *)
(* one and is connected to every other artist is in a path.                 *)
AlbumsDocumented ==
  LET ch == files.challenge
      Others(a) == {b \in ch.catalog : ArtistOf[b] # ArtistOf[a]}
  IN ch.max_paths >= Cardinality(ch.catalog) =>
       \A a \in ch.catalog :
         /\ Cardinality(Others(a)) = Cardinality(ch.catalog) - 1
         /\ \A b \in Others(a) : Pair(a, b) \in Corpora[ch.corpus] \ FamilyPairs
         => \E p \in ch.paths : a \in {p[1], p[2]}

(* A working tree the gate accepts has Record Routes of its own catalog.    *)
(* The routes' contract never looks at the catalog; the contributor index   *)
(* does, when it is built, and the catalog has only grown since.            *)
RoutesFollowTheCatalog ==
  public_artifacts_valid(files) => files.routes_rounds.catalog = files.catalog

(* What is published holds both files of one generation of each pool,       *)
(* though the files are written one after the other and a build can die     *)
(* in between.                                                              *)
PairsArePublishedWhole ==
  /\ site.routes_universe = site.routes_rounds
  /\ site.game_universe = site.game_rounds

(* No later publication drops an album: the preservation lane keeps what is *)
(* live even next to a personal pick by the same artist.                    *)
PublishedAlbumsStay == [][site.catalog \subseteq site'.catalog]_vars

(* A round that leaves no step out is consistent throughout, in what the    *)
(* gate compares and in what it does not: each builder comes after all that *)
(* it reads.  Every anchor has its edges, every release a page can name is  *)
(* in the registry, the contributor pages are those of this challenge and   *)
(* these routes, and so are the distances they show.                        *)
FullPassIsConsistent ==
  [][round' # round /\ slips = 0 /\ step = Len(Runbook) + 1
     => /\ site'.graph.linked = site'.catalog
        /\ GraphReleases(site'.graph) \cup DocumentedReleases(site')
             \subseteq site'.registry.releases
        /\ site'.index.ids = Contributors(site') /\ site'.hops.ids = Contributors(site')
        /\ site'.routes_rounds.catalog = site'.game_rounds.catalog]_vars
=============================================================================
