---------------------------- MODULE CohortRoutes ----------------------------
(***************************************************************************)
(* Record Routes over the corpora of the cohort pipeline: what a build     *)
(* would publish, whenever it is run, for the records resolved so far and  *)
(* on whichever corpus is in place (build-record-routes reads both from    *)
(* the files it is given and does not compare their dates).                *)
(***************************************************************************)
EXTENDS CohortPipeline, RecordRoutes

AlbumByArtist(entries) ==
  [x \in {entries[i].artist : i \in DOMAIN entries} |->
     entries[CHOOSE i \in DOMAIN entries : entries[i].artist = x].album]

Catalogued ==
  {AlbumByArtist(resolve_candidates(Corpora[d][seed], page.candidates)) :
     d \in AllDumps, seed \in Seeds, page \in Pages}

RoutePools ==
  [d \in AllDumps |-> [seed \in Seeds |-> [albums \in Catalogued |->
     build_record_routes_pool(Corpora[d][seed], albums)]]]

(* The length a player is asked to guess is the true one: a one-hop route   *)
(* is a collaboration the dump of the corpus documents, and between the     *)
(* ends of a two-hop route there is none in the whole dump, when one of     *)
(* them is of the corpus's frontier, whether or not that collaboration      *)
(* could have been shown.  Every hop is documented by the release it names, *)
(* and no distractor is one hop from the first record.                      *)
RoutesAreTrue ==
  Readable(resolved) =>
    \A s \in {t \in Snapshots : InPlace(t)} :
      LET whole    == Whole[dump[s]]
          frontier == Frontiers[dump[s]][seeds[s]]
          albums   == AlbumByArtist(resolved.albums)
          Apart(a, b) == {a, b} \cap frontier # {} => {a, b} \notin DOMAIN whole.edges
      IN \A r \in RoutePools[dump[s]][seeds[s]][albums].routes :
           /\ Len(r.walk) = 3 => Apart(r.walk[1], r.walk[3])
           /\ \A i \in DOMAIN r.hops :
                LET rows == RowsOf(Credits[dump[s]], r.hops[i].release)
                IN r.hops[i].artists \in EdgesOn(rows)
           /\ \A x \in DOMAIN albums : albums[x] \in r.distractors => Apart(r.walk[1], x)
=============================================================================
