---------------------------- MODULE CreditEdges ----------------------------
(***************************************************************************)
(* Which credits make two artists neighbours (graph-core, credit_edges_sql *)
(* and the role rules it rests on), and what a hop's evidence is worth     *)
(* (cohort_connectivity, classify_hop_quality).                            *)
(*                                                                         *)
(* A credit is a record [release, track, scope, artist, role] of an artist *)
(* with an id.  track is 0 at release scope.  role is the set of its       *)
(* comma-separated components; a main artist's credit has none.            *)
(***************************************************************************)
EXTENDS Integers, FiniteSets

CONSTANTS Performer,        \* role components: sings or plays (eligibility.py)
          NonCollaborative, \* role components of no collaboration (graph.py)
          Quotations,       \* role components that quote: sampled, interpolated
          BareQuotations,   \* roles that quote, but only as the whole role text
          Excluded,         \* placeholder artists of policy "exclude"
          FlaggedIds,       \* placeholder artists of policy "flag"
          NonStudio,        \* releases with a compilation-like title
          NonStudioTracks,  \* <<release, track>> of live, remixed ... variants
          MasterOf,         \* MasterOf[release]
          MainReleaseOf,    \* MainReleaseOf[master], for every master of the dump
          CompilationAt,    \* COMPILATION_TRACK_ARTIST_THRESHOLD
          MaxPerRelease,    \* max_artists_per_release
          MaxPerTrack       \* MAX_ARTISTS_PER_TRACK

ASSUME CreditCapsFit == {CompilationAt, MaxPerRelease, MaxPerTrack} \subseteq Nat

is_performer_role(role) == role \cap Performer # {}

edge_ineligible_role(role) ==
  /\ role # {}
  /\ \/ role \cap Quotations # {}
     \/ \E quotation \in BareQuotations : role = {quotation}
     \/ role \subseteq NonCollaborative

edge_credits(credits) ==
  {c \in credits : /\ c.artist \notin Excluded
                   /\ ~edge_ineligible_role(c.role)
                   /\ c.release \notin NonStudio}

----------------------------------------------------------------------------
(* The rows of one release.                                                 *)

ArtistsOf(rows) == {c.artist : c \in rows}
Scoped(rows, scope) == {c \in rows : c.scope = scope}
OnTrack(rows, t) == {c \in rows : c.track = t}
TracksOf(rows) == {c.track : c \in rows} \ {0}

billed_artists(rows) == ArtistsOf(Scoped(rows, "release_artist"))
single_billed(rows) == Cardinality(billed_artists(rows)) = 1

album_shaped(rows) ==
  /\ Cardinality(ArtistsOf(Scoped(rows, "track_artist"))) < CompilationAt
  /\ Cardinality(ArtistsOf(rows)) \in 2 .. MaxPerRelease

track_group(rows, t) == Cardinality(ArtistsOf(OnTrack(rows, t))) <= MaxPerTrack

(* Who performs a track: its artists; the billed artist where it has none.  *)
track_performers(rows, t) ==
  LET own == ArtistsOf(Scoped(OnTrack(rows, t), "track_artist"))
  IN IF own = {} /\ track_group(rows, t) /\ single_billed(rows) /\ album_shaped(rows)
     THEN billed_artists(rows) ELSE own

studio_track(rows, t) ==
  track_group(rows, t) /\ \A c \in rows : <<c.release, t>> \notin NonStudioTracks

(* A track's performers and its other performing credits, one of them billed. *)
same_recording(rows) ==
  (UNION {{{p, c.artist} : p \in track_performers(rows, t),
                          c \in {d \in OnTrack(rows, t) : /\ d.scope # "track_artist"
                                                          /\ is_performer_role(d.role)}}
         : t \in {t \in TracksOf(rows) : studio_track(rows, t)}})
  \cap {{p, q} : p \in billed_artists(rows), q \in ArtistsOf(rows)}

(* Billed artists who perform a track together.                             *)
co_performers(rows) ==
  IF album_shaped(rows)
  THEN UNION {{{p, q} : p, q \in track_performers(rows, t) \cap billed_artists(rows)}
              : t \in {t \in TracksOf(rows) : studio_track(rows, t)}}
  ELSE {}

(* A billed artist and those who perform on the release as a whole.         *)
release_scope(rows) ==
  IF album_shaped(rows)
  THEN {{p, c.artist} : p \in billed_artists(rows),
                        c \in {d \in Scoped(rows, "release_credit") : is_performer_role(d.role)}}
  ELSE {}

EdgesOn(rows) ==
  (same_recording(rows) \cup co_performers(rows) \cup release_scope(rows))
    \ {{p} : p \in ArtistsOf(rows)}

----------------------------------------------------------------------------
(* The graph of a corpus: its edges, and of each the lowest release that    *)
(* justifies it.                                                            *)

ReleasesOf(credits) == {c.release : c \in credits}
RowsOf(credits, r) == {c \in edge_credits(credits) : c.release = r}

Evidence(credits, e) == {r \in ReleasesOf(credits) : e \in EdgesOn(RowsOf(credits, r))}
EvidenceRelease(credits, e) ==
  CHOOSE r \in Evidence(credits, e) : \A q \in Evidence(credits, e) : r <= q

Linked(credits) == UNION {EdgesOn(RowsOf(credits, r)) : r \in ReleasesOf(credits)}
credit_edges(credits) == [e \in Linked(credits) |-> EvidenceRelease(credits, e)]

(* An open graph: its credits, its edges, and its edges by artist.          *)
CreditGraph(credits) ==
  LET edges == credit_edges(credits)
      artists == ArtistsOf(credits)
  IN [credits |-> credits, edges |-> edges,
      near |-> [a \in artists |-> {b \in artists \ {a} : {a, b} \in DOMAIN edges}]]

neighbors(graph, a) == IF a \in DOMAIN graph.near THEN graph.near[a] ELSE {}
degree(graph, a) == Cardinality(neighbors(graph, a))

----------------------------------------------------------------------------
(* What a hop's evidence is worth.  rows: all the credits of its release.   *)

_artist_credit_tier(rows, a) ==
  LET own == {c \in rows : c.artist = a}
  IN IF Scoped(own, "release_artist") # {} THEN "release_artist"
     ELSE IF \E c \in own : c.scope = "track_artist" \/ is_performer_role(c.role)
     THEN "performer" ELSE "non_performer"

StrengthOf(rows, e) ==
  LET tiers == {_artist_credit_tier(rows, a) : a \in e}
  IN IF tiers = {"release_artist"} THEN "co_billed_release_artists"
     ELSE IF tiers = {"non_performer"} THEN "non_performer_only" ELSE "performer_credit"

TracksOfArtist(rows, a) == TracksOf({c \in rows : c.artist = a})
IsBilled(rows, a) == a \in billed_artists(rows)

(* The two hold credits on one track, whatever the credits are.             *)
_shares_a_track(rows, e) ==
  \E t \in TracksOf(rows) : \A a \in e : t \in TracksOfArtist(rows, a)

(* One is billed, the other has a credit on some track.                     *)
_billed_artist_inherits_track(rows, e) ==
  \E a \in e : IsBilled(rows, a) /\ \E b \in e \ {a} : TracksOfArtist(rows, b) # {}

ScopeFlag(rows, e) ==
  IF _shares_a_track(rows, e) \/ _billed_artist_inherits_track(rows, e)
  THEN "same_recording" ELSE "release_scope_credit"

classify_hop_quality(rows, e) ==
  {StrengthOf(rows, e), ScopeFlag(rows, e)} \cup
  (IF e \cap (Excluded \cup FlaggedIds) # {} THEN {"placeholder_artist_hop"} ELSE {})
=============================================================================
