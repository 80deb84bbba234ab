-------------------------- MODULE CohortExpansion --------------------------
(***************************************************************************)
(* A round of catalogue expansion over the corpora of the cohort pipeline: *)
(* the catalogue is that of the records resolved so far, the collection is *)
(* whatever seed file is given, and every step reads the corpus in place.  *)
(***************************************************************************)
EXTENDS CohortRoutes, Expansion

CONSTANT Collections \* sets of releases: what a seed file may hold

ASSUME MastersFit ==
  \A d \in AllDumps : IsFiniteSet(Credits[d]) /\ ReleasesOf(Credits[d]) \subseteq DOMAIN MasterOf

CatalogOf(corpus, entries) ==
  LET picked(x) == Album(MasterOf[x.album], x.album, x.artist, 0)
  IN assemble_album_catalog(corpus,
       Lanes(<<>>, [i \in DOMAIN entries |-> picked(entries[i])], <<>>, <<>>, <<>>), {}, 0)

(* The choices any_value has: for every main release, one of those billed.  *)
Billings(corpus) ==
  LET billed == {r \in ReleasesOf(corpus.credits) :
                   MainReleaseOf[MasterOf[r]] = r /\ release_artists(corpus, r) # {}}
      shared == {r \in billed : Cardinality(release_artists(corpus, r)) > 1}
      artists == UNION {release_artists(corpus, r) : r \in shared}
  IN {[r \in billed |-> IF r \in shared THEN pick[r] ELSE Lowest(release_artists(corpus, r))] :
        pick \in {f \in [shared -> artists] : \A r \in shared : f[r] \in release_artists(corpus, r)}}

(* A round's finalists come from one of the three lists.                    *)
FinalistLists(corpus, collection, catalog) ==
  {rank_album_candidates(corpus, MastersIn(catalog)),
   derive_collection_candidates(corpus, collection, MastersIn(catalog))}
  \cup {build_relationship_pool(corpus, catalog_performer_ids(corpus, catalog),
                                MastersIn(catalog), billing) : billing \in Billings(corpus)}

(* The owner's own picks: nothing, or all of the collection that is         *)
(* eligible.  They are part of the baseline (--additional-baseline).        *)
PersonalPicks(corpus, collection, catalog) ==
  {<<>>, SetToSeq(derive_collection_candidates(corpus, collection, MastersIn(catalog)))}

Scored(corpus, catalog, finalists) ==
  score_expansion_candidates(corpus, finalists, build_pathfinding_graph(corpus, catalog).nodes)

Selected(corpus, catalog, personal, finalists) ==
  greedy_marginal_selection(corpus, catalog \o personal,
    filter_to_automatic_lane(finalists, Scored(corpus, catalog, finalists)))

NextCatalog(corpus, catalog, personal, selected) ==
  assemble_album_catalog(corpus,
    Lanes(<<>>, personal, catalog, AlbumsOf(selected), <<>>),
    rank_album_candidates(corpus, MastersIn(catalog)), CatalogTarget)

ExpansionRound(corpus, catalog, personal, selected) ==
  [catalog |-> catalog, personal |-> personal, selected |-> selected,
   next |-> NextCatalog(corpus, catalog, personal, selected),
   before |-> build_pathfinding_graph(corpus, catalog),
   after |-> build_pathfinding_graph(corpus, NextCatalog(corpus, catalog, personal, selected))]

ExpansionRounds(corpus, collection, catalog) ==
  UNION {{ExpansionRound(corpus, catalog, personal,
                         Selected(corpus, catalog, personal, finalists)) :
            finalists \in FinalistLists(corpus, collection, catalog)} :
         personal \in PersonalPicks(corpus, collection, catalog)}

----------------------------------------------------------------------------
(* An album of the same master was picked by the owner, under another of    *)
(* its billed artists: the selection knows the artists of its baseline, not *)
(* the masters.                                                             *)
PickedByTheOwner(round, album) == album.master \in MastersIn(round.personal)

EdgesReported(picks) ==
  LET sum[n \in 0 .. Len(picks)] == IF n = 0 THEN 0 ELSE sum[n - 1] + picks[n].new_edges
  IN sum[Len(picks)]

GainOf(corpus, round) ==
  Cardinality(edges_for_release_scope(corpus,
                CitedBy(round.catalog \o round.personal \o AlbumsOf(round.selected))))
  - Cardinality(edges_for_release_scope(corpus, CitedBy(round.catalog \o round.personal)))

(* The catalogue build loses nothing that is published, and drops a         *)
(* selected album exactly when the owner picked its record: a selection     *)
(* that reported no edge.  The graph built anew joins every selected record *)
(* to OverlapMinimum artists that were there before; the edges reported,    *)
(* the most first, are together those the widened scope really gains.       *)
RoundIsReal(corpus, round) ==
  LET picks == round.selected
  IN /\ validate_album_catalog(round.next)
     /\ MastersIn(round.catalog) \subseteq MastersIn(round.next)
     /\ \A k \in DOMAIN picks :
          /\ picks[k].album \notin ToSet(round.next) <=> PickedByTheOwner(round, picks[k].album)
          /\ PickedByTheOwner(round, picks[k].album) => picks[k].new_edges = 0
          /\ Cardinality(round.after.anchors[picks[k].album.master] \cap round.before.nodes) >= OverlapMinimum
     /\ \A k \in 1 .. Len(picks) - 1 : picks[k].new_edges >= picks[k + 1].new_edges
     /\ EdgesReported(picks) = GainOf(corpus, round)

RoundsFrom(corpus, entries) ==
  LET catalog == CatalogOf(corpus, entries)
  IN IF catalog = <<>> THEN {}
     ELSE UNION {ExpansionRounds(corpus, collection, catalog) : collection \in Collections}

(* What a selection reports is what the catalogue build and the published   *)
(* graph make of it, whichever corpus a round is run on once the records    *)
(* are resolved: a candidate "connects to what we already have"             *)
(* (relationship_pool.py), every edge reported is gained, and no selection  *)
(* that adds an edge is dropped by the build.                               *)
(* Scoring pairs changes nothing a round reads: it is asked before one.     *)
SelectionIsReal ==
  Readable(resolved) /\ connectivity = Absent =>
    \A s \in {t \in Snapshots : InPlace(t)} :
      \A round \in RoundsFrom(Corpus(s), resolved.albums) : RoundIsReal(Corpus(s), round)

(* A claim of the documentation that the code does not keep: "an honest     *)
(* evaluator's output must match what the catalog build will actually keep" *)
(* (greedy_marginal_selection in marginal_evaluation.py), so that every     *)
(* album selected is in the next catalogue.  The artists of the baseline    *)
(* are compared and the masters are not.                                    *)
PicksAreKept ==
  Readable(resolved) /\ connectivity = Absent =>
    \A s \in {t \in Snapshots : InPlace(t)} :
      \A round \in RoundsFrom(Corpus(s), resolved.albums) :
        ToSet(AlbumsOf(round.selected)) \subseteq ToSet(round.next)
=============================================================================
