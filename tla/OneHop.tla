------------------------------- MODULE OneHop -------------------------------
(***************************************************************************)
(* The one-hop corpus of a seed (catalog, discogs/onehop.py): every        *)
(* release on which somebody performs who performs on a release of the     *)
(* seed.  A release is kept with all its credits.                          *)
(***************************************************************************)
EXTENDS CreditEdges

CONSTANTS Hubs,        \* _NON_PLAYABLE_HUB_ARTIST_IDS
          NonPerformer \* role components: writing, production, business

(* The two role lists agree: no performing component counts as production,  *)
(* and what is no hub to the graph is none here.                            *)
ASSUME RolesAgree == Performer \cap NonPerformer = {} /\ Hubs \subseteq Excluded

performer_credit(role) == role = {} \/ ~(role \subseteq NonPerformer)

Performing(credits) == {c \in credits : performer_credit(c.role)}

frontier_artists(credits, seed) ==
  ArtistsOf({c \in Performing(credits) : c.release \in seed}) \ Hubs

retained_releases(credits, seed) ==
  LET frontier == frontier_artists(credits, seed)
  IN ReleasesOf({c \in Performing(credits) : c.artist \in frontier})

(* The self-check refuses a corpus without a release of the seed that the   *)
(* dump has; the command refuses an empty frontier.                         *)
Expandable(credits, seed) ==
  /\ frontier_artists(credits, seed) # {}
  /\ seed \cap ReleasesOf(credits) \subseteq retained_releases(credits, seed)

\* MUTANT of OneHopCredits: of a retained release only the frontier's credits are kept.
OneHopOfFrontier(credits, seed) ==
  {c \in credits : c.release \in retained_releases(credits, seed)
                /\ c.artist \in frontier_artists(credits, seed)}

OneHopCredits(credits, seed) ==
  LET retained == retained_releases(credits, seed)
  IN {c \in credits : c.release \in retained}
=============================================================================
