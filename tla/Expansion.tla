----------------------------- MODULE Expansion -----------------------------
(***************************************************************************)
(* Growing the album catalogue (graph-core: analysis, master_eligibility,  *)
(* relationship_pool, collection_candidates, score_expansion_candidates,   *)
(* expansion_policy, marginal_evaluation, album_credit_membership,         *)
(* pathfinding_graph; and the commands of the catalog package that run     *)
(* them): candidates are found, scored against the published pathfinding   *)
(* graph, filtered by the expansion policy, selected for the edges they    *)
(* add, and assembled with the lanes that were there before.               *)
(*                                                                         *)
(* An album is a record [master, release, artist, score]; all albums have  *)
(* a master, and the catalogue lists them in the order they were kept.     *)
(* The format policy is that of RecordRoutes.                              *)
(***************************************************************************)
EXTENDS RecordRoutes

CONSTANTS Year,             \* Year[release]
          NonStudioMasters, \* masters of a soundtrack or musical genre or style
          MasterExclusions, \* the curated deny-list
          PoolOverlap,      \* --minimum-overlap
          RosterBand,       \* automatic_lanes.roster_band, as a set of sizes
          OverlapMinimum,   \* automatic_lanes.overlap_existing_minimum
          SelectCount,      \* --count
          CatalogTarget     \* --target-count

ASSUME ExpansionFits ==
  /\ {PoolOverlap, OverlapMinimum, SelectCount, CatalogTarget} \cup RosterBand \subseteq Nat
  /\ DOMAIN MainReleaseOf \in SUBSET Nat /\ IsFiniteSet(DOMAIN MainReleaseOf)
  /\ \A r \in DOMAIN MasterOf : MasterOf[r] \in DOMAIN MainReleaseOf /\ Year[r] \in Nat
  /\ \A m \in DOMAIN MainReleaseOf : MasterOf[MainReleaseOf[m]] = m

Album(m, r, a, score) == [master |-> m, release |-> r, artist |-> a, score |-> score]
MastersIn(albums) == {x.master : x \in ToSet(albums)}
ArtistsIn(albums) == {x.artist : x \in ToSet(albums)}
CitedBy(albums) == {x.release : x \in ToSet(albums)}

----------------------------------------------------------------------------
(* Eligibility, by release and by master.                                   *)

Allowed(r) == r \notin RefusedReleases
master_non_studio(m) == m \in NonStudioMasters

release_eligible(r, m) == Allowed(r) /\ ~master_non_studio(m) /\ m \notin MasterExclusions

release_ids_for_master(corpus, m) == {r \in ReleasesOf(corpus.credits) : MasterOf[r] = m}
AllowedUnder(corpus, m) == {r \in release_ids_for_master(corpus, m) : Allowed(r)}

master_studio_eligible(corpus, m) ==
  m \notin MasterExclusions /\ ~master_non_studio(m) /\ AllowedUnder(corpus, m) # {}

Earliest(releases) ==
  CHOOSE r \in releases : \A q \in releases :
    Year[r] < Year[q] \/ (Year[r] = Year[q] /\ r <= q)

(* The main release need not be in the working set to be cited.             *)
select_master_main_release_id(corpus, m) ==
  IF Allowed(MainReleaseOf[m]) THEN MainReleaseOf[m] ELSE Earliest(AllowedUnder(corpus, m))

----------------------------------------------------------------------------
(* Who is credited on an album, and whose credit justifies a hop.           *)

credit_rows_for_release(corpus, r) ==
  {c \in corpus.credits : c.release = r /\ c.artist \notin Excluded}

performer_qualifying_credit(c) ==
  /\ ~edge_ineligible_role(c.role)
  /\ c.scope \in {"release_artist", "track_artist"} \/ is_performer_role(c.role)

edge_eligible_membership_artist_ids(rows) == ArtistsOf({c \in rows : performer_qualifying_credit(c)})
Roster(corpus, r) == edge_eligible_membership_artist_ids(credit_rows_for_release(corpus, r))

release_artists(corpus, r) == billed_artists(credit_rows_for_release(corpus, r))

(* The published graph: the edges of the catalogue's artists, and for every *)
(* album an anchor joined to the nodes that perform on it.                  *)
ego_edges(corpus, artists) == {e \in DOMAIN corpus.edges : e \cap artists # {}}

build_pathfinding_graph(corpus, catalog) ==
  LET edges == ego_edges(corpus, ArtistsIn(catalog))
      nodes == UNION edges
  IN [nodes |-> nodes, edges |-> edges,
      anchors |-> [m \in MastersIn(catalog) |->
                     nodes \cap UNION {Roster(corpus, x.release) :
                                         x \in {y \in ToSet(catalog) : y.master = m}}]]

catalog_performer_ids(corpus, catalog) == UNION {Roster(corpus, r) : r \in CitedBy(catalog)}

----------------------------------------------------------------------------
(* Three ways to find candidates: by their size in the corpus, by the       *)
(* performers of the catalogue on any of their releases, and from the       *)
(* owner's collection.                                                      *)

CreditsUnder(corpus, m) == {c \in corpus.credits : MasterOf[c.release] = m}

rank_album_candidates(corpus, published) ==
  {Album(m, MainReleaseOf[m], Lowest(release_artists(corpus, MainReleaseOf[m])),
         Cardinality(release_ids_for_master(corpus, m)) * Cardinality(CreditsUnder(corpus, m))) :
     m \in {n \in DOMAIN MainReleaseOf \ published :
              /\ release_eligible(MainReleaseOf[n], n)
              /\ release_artists(corpus, MainReleaseOf[n]) # {}}}

PoolOverlapOf(corpus, m, performers) ==
  performers \cap UNION {Roster(corpus, r) : r \in release_ids_for_master(corpus, m)}

(* Any of the billed artists of a main release may head its album           *)
(* (any_value): billing says which.                                         *)
build_relationship_pool(corpus, performers, published, billing) ==
  {Album(m, MainReleaseOf[m], billing[MainReleaseOf[m]], 0) :
     m \in {n \in DOMAIN MainReleaseOf \ published :
              /\ Cardinality(PoolOverlapOf(corpus, n, performers)) >= PoolOverlap
              /\ release_eligible(MainReleaseOf[n], n)
              /\ MainReleaseOf[n] \in DOMAIN billing}}

derive_collection_candidates(corpus, collection, published) ==
  LET owned == {MasterOf[r] : r \in collection \cap ReleasesOf(corpus.credits)} \ published
      cited(m) == select_master_main_release_id(corpus, m)
  IN {Album(m, cited(m), Lowest(release_artists(corpus, cited(m))), 0) :
        m \in {n \in owned : /\ master_studio_eligible(corpus, n)
                             /\ release_artists(corpus, cited(n)) # {}}}

----------------------------------------------------------------------------
(* Scoring, and the policy of the automatic lanes: a roster within the band *)
(* that shares enough performers with the published graph.                  *)

score_expansion_candidates(corpus, candidates, nodes) ==
  [m \in {x.master : x \in candidates} |->
     IF master_studio_eligible(corpus, m)
     THEN LET roster == Roster(corpus, select_master_main_release_id(corpus, m))
          IN [eligible |-> TRUE, roster_size |-> Cardinality(roster),
              overlap_existing |-> Cardinality(roster \cap nodes)]
     ELSE [eligible |-> FALSE]]

automatic_lane_rejection(row) ==
  \/ ~row.eligible
  \/ row.roster_size \notin RosterBand
  \/ row.overlap_existing < OverlapMinimum

filter_to_automatic_lane(finalists, scored) ==
  {f \in finalists : ~automatic_lane_rejection(scored[f.master])}

----------------------------------------------------------------------------
(* Selecting, one at a time, the finalist whose release adds the most edges *)
(* to the releases in scope; never two of one artist.                       *)

edges_for_release_scope(corpus, releases) ==
  Linked({c \in corpus.credits : c.release \in releases})

NewEdges(corpus, scope, f) == edges_for_release_scope(corpus, {f.release}) \ scope
NewContributors(corpus, scope, f) ==
  (UNION edges_for_release_scope(corpus, {f.release})) \ UNION scope

SelectionKey(corpus, scope, f) ==
  <<- Cardinality(NewEdges(corpus, scope, f)), - Cardinality(NewContributors(corpus, scope, f)),
    - f.score, f.master>>

KeyBefore(k, l) ==
  \E i \in 1 .. 4 : k[i] < l[i] /\ \A j \in 1 .. i - 1 : k[j] = l[j]

BestFinalist(corpus, scope, open) ==
  CHOOSE f \in open : \A g \in open \ {f} :
    KeyBefore(SelectionKey(corpus, scope, f), SelectionKey(corpus, scope, g))

\* MUTANT of OpenFinalists: an artist can be selected twice.
OpenWhateverArtist(finalists, selected) == finalists \ {s.album : s \in ToSet(selected)}

OpenFinalists(finalists, selected) ==
  {f \in finalists : \A s \in ToSet(selected) : s.album.artist # f.artist}

SelectNext(corpus, fresh, sel) ==
  LET open == OpenFinalists(fresh, sel.selected)
      best == BestFinalist(corpus, sel.scope, open)
  IN IF open = {} THEN sel
     ELSE [selected |-> Append(sel.selected,
                          [album |-> best,
                           new_edges |-> Cardinality(NewEdges(corpus, sel.scope, best))]),
           scope |-> sel.scope \cup edges_for_release_scope(corpus, {best.release})]

Fresh(baseline, finalists) == {f \in finalists : f.artist \notin ArtistsIn(baseline)}

NothingSelected(corpus, baseline) ==
  [selected |-> <<>>, scope |-> edges_for_release_scope(corpus, CitedBy(baseline))]

greedy_marginal_selection(corpus, baseline, finalists) ==
  LET fresh == Fresh(baseline, finalists)
      after[n \in 0 .. SelectCount] ==
        IF n = 0 THEN NothingSelected(corpus, baseline)
        ELSE SelectNext(corpus, fresh, after[n - 1])
  IN after[SelectCount].selected

AlbumsOf(selection) == [i \in DOMAIN selection |-> selection[i].album]

----------------------------------------------------------------------------
(* Assembling.  The lanes, in this order: the editorial queries, the        *)
(* owner's resolved picks, what is published, the graph-rich selection, the *)
(* coverage picks; then ranked candidates up to the target.                 *)

find_release_by_title_artist(corpus, query) ==
  LET found == {r \in query.titled : query.artist \in billed_artists({c \in corpus.credits : c.release = r})}
      main  == {r \in found : MainReleaseOf[MasterOf[r]] = r}
  IN LowestOf(IF main # {} THEN main ELSE found, 1)

WithMatch(corpus, matched, q) ==
  matched \o SetToSeq({Album(MasterOf[r], r, q.artist, 0) :
    r \in {s \in find_release_by_title_artist(corpus, q) :
             q.artist \notin ArtistsIn(matched) /\ release_eligible(s, MasterOf[s])}})

match_albums(corpus, queries) ==
  LET matched[n \in 0 .. Len(queries)] ==
        IF n = 0 THEN <<>> ELSE WithMatch(corpus, matched[n - 1], queries[n])
  IN matched[Len(queries)]

WithResolved(done, x, enforce_artist_uniqueness) ==
  IF \/ x.master \in MastersIn(done) \/ ~release_eligible(x.release, x.master)
     \/ enforce_artist_uniqueness /\ x.artist \in ArtistsIn(done)
  THEN done ELSE Append(done, x)

_process_pre_resolved_group(kept, group, enforce_artist_uniqueness) ==
  LET done[n \in 0 .. Len(group)] ==
        IF n = 0 THEN kept
        ELSE WithResolved(done[n - 1], group[n], enforce_artist_uniqueness)
  IN done[Len(group)]

(* The candidates by their scores, the highest first, then by master.       *)
ByScore(x, y) == x.score > y.score \/ (x.score = y.score /\ x.master < y.master)
Ranked(candidates) ==
  [k \in 1 .. Cardinality(candidates) |->
     CHOOSE x \in candidates : Cardinality({y \in candidates : ByScore(y, x)}) = k - 1]

WithCandidate(done, x, target) ==
  IF \/ Len(done) >= target \/ x.artist \in ArtistsIn(done)
     \/ x.master \in MasterExclusions \cup MastersIn(done)
  THEN done ELSE Append(done, x)

_fill_with_candidates(kept, candidates, target) ==
  LET ranked == Ranked(candidates)
      done[n \in 0 .. Cardinality(candidates)] ==
        IF n = 0 THEN kept ELSE WithCandidate(done[n - 1], ranked[n], target)
  IN done[Cardinality(candidates)]

Automatic(kept, group) == _process_pre_resolved_group(kept, group, TRUE)
AsGiven(kept, group) == _process_pre_resolved_group(kept, group, FALSE)

assemble_album_catalog(corpus, lanes, candidates, target) ==
  _fill_with_candidates(
    Automatic(Automatic(AsGiven(AsGiven(match_albums(corpus, lanes.editorial), lanes.personal),
                                lanes.published), lanes.graph_rich), lanes.coverage),
    candidates, target)

Lanes(editorial, personal, published, graph_rich, coverage) ==
  [editorial |-> editorial, personal |-> personal, published |-> published,
   graph_rich |-> graph_rich, coverage |-> coverage]

(* The command writes nothing else: an empty catalogue, or one that lists   *)
(* an album twice, is refused.                                              *)
validate_album_catalog(catalog) ==
  catalog # <<>> /\ \A i, j \in DOMAIN catalog : catalog[i].master = catalog[j].master => i = j
=============================================================================
