-------------------------- MODULE MCCohortPipeline --------------------------
(* Artists 1 to 4, and 5, the "Various" placeholder; 3 is a placeholder the *)
(* graph only flags.  Album 10 is billed to 1 and 2, album 20 to 4.  In     *)
(* june 1 and 4 are joined by a path through two middle artists (and in one *)
(* dump by a duet, 50, that not every corpus has), or by nothing; july has  *)
(* other billings, and 1 and 4 both play on 60; 70 and 71 are two records   *)
(* of 3, and 72 one of 2 and 3.                                             *)
EXTENDS CohortExpansion

K(release, track, scope, artist, role) ==
  [release |-> release, track |-> track, scope |-> scope, artist |-> artist, role |-> role]

MCPerformer == {"vocals", "drums", "vocals [sampled]"}
MCNonCollaborative == {"written-by", "artwork"}
MCQuotations == {"vocals [sampled]"}
MCBareQuotations == {"samples"}
MCNonPerformer == {"written-by", "producer"}

Albums == {K(10, 0, "release_artist", 1, {}), K(10, 0, "release_artist", 2, {}),
           K(10, 1, "track_artist", 1, {}), K(10, 1, "track_credit", 2, {"vocals", "producer"}),
           K(10, 2, "track_credit", 4, {"written-by"}),
           K(20, 0, "release_artist", 4, {}), K(20, 1, "track_credit", 3, {"vocals"}),
           K(20, 0, "release_credit", 2, {"producer"}), K(20, 0, "release_credit", 4, {"drums"})}
Middle == {K(30, 0, "release_artist", 2, {}), K(30, 0, "release_credit", 3, {"drums"}),
           K(30, 1, "track_credit", 2, {"vocals"}),
           K(35, 0, "release_artist", 2, {}), K(35, 0, "release_credit", 3, {"drums"}),
           K(35, 0, "release_credit", 4, {"vocals [sampled]"})}
Duet == {K(50, 0, "release_artist", 1, {}), K(50, 0, "release_artist", 4, {}),
         K(50, 1, "track_artist", 1, {}), K(50, 1, "track_artist", 4, {})}
Compilation == {K(40, 0, "release_artist", 5, {}), K(40, 1, "track_artist", 1, {}),
                K(40, 1, "track_credit", 4, {"vocals"})}
July == {K(10, 0, "release_artist", 1, {}), K(10, 1, "track_credit", 4, {"vocals"}),
         K(20, 0, "release_artist", 3, {}), K(20, 0, "release_artist", 4, {}),
         K(20, 1, "track_credit", 1, {"drums"}),
         K(60, 0, "release_artist", 2, {}), K(60, 0, "release_credit", 2, {"vocals"}),
         K(60, 0, "release_credit", 1, {"drums"}), K(60, 0, "release_credit", 4, {"drums"})}

ThirdArtist == {K(70, 0, "release_artist", 3, {}), K(70, 0, "release_credit", 2, {"drums"}),
                K(70, 0, "release_credit", 4, {"vocals"}),
                K(71, 0, "release_artist", 3, {}), K(71, 0, "release_credit", 2, {"drums"}),
                K(71, 0, "release_credit", 4, {"samples"}),
                K(72, 0, "release_artist", 2, {}), K(72, 0, "release_artist", 3, {}),
                K(72, 0, "release_credit", 2, {"drums"}), K(72, 0, "release_credit", 3, {"vocals"})}

MCDumps == [june |-> {"path", "duet", "apart"}, july |-> {"july"}]
MCCredits == [path  |-> Albums \cup Middle \cup Compilation,
              duet  |-> Albums \cup Middle \cup Duet \cup ThirdArtist,
              apart |-> Albums \cup Compilation,
              july  |-> July]
MCSeeds == {{10, 20}, {30}}
MCCollections == {{30, 72}}

(* 35 is the main pressing of 30's master, and refused.                     *)
MCMasterOf ==
  10 :> 1 @@ 20 :> 2 @@ 30 :> 3 @@ 35 :> 3 @@ 40 :> 4 @@ 50 :> 5 @@ 60 :> 6 @@ 72 :> 7 @@ 71 :> 8 @@ 70 :> 9
MCMainReleaseOf == <<10, 20, 35, 40, 50, 60, 72, 71, 70>>
MCYear == [r \in DOMAIN MCMasterOf |-> r]

C(hint, title, artist) == [hint |-> hint, title |-> title, artist |-> artist]
MCPages == {[url |-> "a", candidates |-> <<C(10, 0, 1), C(0, 20, 4), C(10, 0, 2)>>],
            [url |-> "a", candidates |-> <<C(30, 0, 2), C(20, 0, 0)>>],
            [url |-> "b", candidates |-> <<C(10, 0, 0), C(20, 0, 0)>>]}

(* Three more records, so that each of four artists can have its own: no    *)
(* build of theirs breaks the contract, and all keep the true distance.     *)
OwnAlbums == [1 .. 4 -> {10, 20, 30, 50, 60}]
ASSUME PoolsKeepTheirContract ==
  \A d \in AllDumps, seed \in Seeds :
    \A own \in {f \in OwnAlbums : \A x, y \in 1 .. 4 : f[x] = f[y] => x = y} :
      LET pool == build_rounds_v1(own, generate_round_pool(Corpora[d][seed], own))
      IN /\ validate_rounds_artifact(pool) /\ record_routes_failures(pool) = {}
         /\ ~DuplicateAlbums(pool)
         /\ \A x \in 1 .. 4 : EndpointUses(pool.routes, x) <= 2 * MaxRouteUses(own, EndpointShare)

(* Whoever is joined performed on the release that evidences it, or is the  *)
(* artist it is billed to: no hop is "non-performer only".                  *)
ASSUME \A d \in AllDumps : \A e \in DOMAIN Whole[d].edges :
         "non_performer_only" \notin HopQuality(Whole[d], e)
=============================================================================
