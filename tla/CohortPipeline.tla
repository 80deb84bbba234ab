--------------------------- MODULE CohortPipeline ---------------------------
(***************************************************************************)
(* A cohort from a saved page to the public playable-cohort artifact: the  *)
(* commands an operator runs over the files of one analysis directory, a   *)
(* scoring dispatched to the home-lab platform (PlatformRun has its        *)
(* protocol; here it takes a copy of resolved.json and ends later), the    *)
(* human review, and promotion.                                            *)
(*                                                                         *)
(* A file is absent, torn (its writer was killed: every reader fails to    *)
(* parse it) or holds its content.  Commands may be repeated in any order  *)
(* and on either dataset snapshot, so any file can be older than another.  *)
(***************************************************************************)
EXTENDS CohortScoring

CONSTANTS Snapshots,  \* dates of dataset snapshots
          Dumps,      \* Dumps[snapshot]: the full dumps it may be
          Credits,    \* Credits[dump]
          Seeds,      \* seed manifests: sets of releases
          Pages,      \* saved pages: source_url and candidates
          Caps,       \* values of --max-frontier-expansion
          MaxPairs,   \* --max-pairs
          MaxFailed,  \* bound: seeds of one scoring that fail
          MaxCommands \* bound: expansions, imports, resolutions and scorings

AllDumps == UNION {Dumps[s] : s \in Snapshots}

ASSUME PipelineFits ==
  /\ Caps \cup {MaxPairs, MaxFailed, MaxCommands} \subseteq Nat
  /\ \A page \in Pages : Len(page.candidates) \in Nat

(* A credit of a main artist has no role (onehop.py, on role_text).         *)
ASSUME DumpsFit ==
  \A d \in AllDumps : \A c \in Credits[d] :
    /\ c.artist \in Artists /\ c.release \in Nat
    /\ c.scope \in {"release_artist", "track_artist"} => c.role = {}

VARIABLES dump,         \* of every snapshot: the full dump
          seeds,        \* of every snapshot: the seed of the corpus in place
          extracted,    \* extracted.json
          resolved,     \* resolved.json
          connectivity, \* connectivity.json
          report,       \* playable-pairs.json and review-report.md
          dispatched,   \* a run of the platform: its input, and its outputs
          selection,    \* the private selection file
          artifact,     \* the playable cohort
          commands      \* bound

datasets == <<dump, seeds>>
files == <<extracted, resolved, connectivity, report, dispatched, selection, artifact>>
vars == <<datasets, files, commands>>

Absent == [is |-> "absent"]
Torn == [is |-> "torn"]
Written(content) == {content, Torn}
Readable(file) == file.is = "file"

Command == commands < MaxCommands /\ commands' = commands + 1

----------------------------------------------------------------------------
(* The corpora.  One directory for each date; expanding again replaces it,  *)
(* and an expansion killed between removing it and renaming leaves none.    *)

NoCorpus == {}
Corpora ==
  [d \in AllDumps |-> [seed \in Seeds |-> CreditGraph(OneHopCredits(Credits[d], seed))]]
Whole == [d \in AllDumps |-> CreditGraph(Credits[d])]
Frontiers == [d \in AllDumps |-> [seed \in Seeds |-> frontier_artists(Credits[d], seed)]]
Expansions == [d \in AllDumps |-> {seed \in Seeds : Expandable(Credits[d], seed)}]
Corpus(s) == Corpora[dump[s]][seeds[s]]
InPlace(s) == seeds[s] # NoCorpus

expand_one_hop ==
  /\ Command
  /\ \E s \in Snapshots : \E seed \in Expansions[dump[s]] :
       seeds' \in {[seeds EXCEPT ![s] = seed], [seeds EXCEPT ![s] = NoCorpus]}
  /\ UNCHANGED <<dump, files>>

----------------------------------------------------------------------------
(* Resolving.  A candidate has an id hint, a title, an artist's name, or    *)
(* some of them; an album carries its id.  A hint is a release: that of a   *)
(* master, or of any pressing, is redirected to the same main one.          *)

BilledOn(corpus, r) == billed_artists({c \in corpus.credits : c.release = r})

_release_with_artist(corpus, r, artist) ==
  IF artist \in BilledOn(corpus, r) THEN artist ELSE Lowest(BilledOn(corpus, r))

PressingOf(corpus, r) ==
  LET pressed == {q \in ReleasesOf(corpus.credits) : MasterOf[q] = MasterOf[r]}
  IN IF MainReleaseOf[MasterOf[r]] \in pressed THEN MainReleaseOf[MasterOf[r]]
     ELSE Lowest(pressed)

(* The releases a hint leads to: one, or none.                              *)
find_release_by_id_hint(corpus, hint) ==
  {r \in {PressingOf(corpus, h) : h \in {hint} \cap ReleasesOf(corpus.credits)} :
     BilledOn(corpus, r) # {}}

(* The albums a candidate resolves to: one, or none.                        *)
_lookup_candidate(corpus, c) ==
  LET hinted == find_release_by_id_hint(corpus, c.hint)
      r == Lowest(hinted)
  IN
  IF hinted # {}
  THEN <<[album |-> r, artist |-> _release_with_artist(corpus, r, c.artist)]>>
  ELSE IF c.artist \in BilledOn(corpus, c.title)
  THEN <<[album |-> c.title, artist |-> c.artist]>>
  ELSE <<>>

Keeping(kept, found) ==
  IF found = <<>> \/ \E i \in DOMAIN kept : kept[i].artist = found[1].artist
  THEN kept ELSE kept \o found

(* The first candidate of an artist wins: find_path needs one artist an     *)
(* album.  One album can be resolved twice, for two of its artists.         *)
resolve_candidates(corpus, candidates) ==
  LET kept[n \in 0 .. Len(candidates)] ==
        IF n = 0 THEN <<>>
        ELSE Keeping(kept[n - 1], _lookup_candidate(corpus, candidates[n]))
  IN kept[Len(candidates)]

----------------------------------------------------------------------------
(* Scoring: every pair of resolved albums, in the order of their ids.  (The *)
(* code orders them as strings; only the order of the pairs is of it.)      *)

Before(albums, i) ==
  {j \in DOMAIN albums : \/ albums[j].album < albums[i].album
                         \/ albums[j].album = albums[i].album /\ j < i}

Ordered(albums) ==
  [k \in DOMAIN albums |->
     albums[CHOOSE i \in DOMAIN albums : Cardinality(Before(albums, i)) = k - 1]]

PairsUpTo(n) ==
  LET done[i \in 0 .. n] ==
        IF i = 0 THEN <<>> ELSE done[i - 1] \o [j \in 1 .. n - i |-> <<i, i + j>>]
  IN done[n]

_pair_record(corpus, x, y, cap, failed) ==
  [albums |-> {x.album, y.album}, artists |-> <<x.artist, y.artist>>,
   verdict |-> Verdict(corpus, x.artist, y.artist, cap, failed)]

score_pairs(corpus, albums, cap, failed) ==
  LET order == Ordered(albums)
      pairs == PairsUpTo(Len(albums))
  IN [k \in DOMAIN pairs |->
        _pair_record(corpus, order[pairs[k][1]], order[pairs[k][2]], cap, failed)]

build_connectivity_cohort(res, cap, failed) ==
  [is |-> "file", url |-> res.url, snapshot |-> res.snapshot, cap |-> cap,
   seed |-> seeds[res.snapshot], \* history: the file records the date alone
   pairs |-> score_pairs(Corpus(res.snapshot), res.albums, cap, failed)]

Scorable(res, s) ==
  /\ Readable(res) /\ res.snapshot = s /\ InPlace(s)
  /\ (Len(res.albums) * (Len(res.albums) - 1)) \div 2 <= MaxPairs

SeedsOf(res) == {res.albums[i].artist : i \in DOMAIN res.albums}
Failures(res) == {f \in SUBSET SeedsOf(res) : Cardinality(f) <= MaxFailed}

FoundPairs(conn) ==
  {conn.pairs[k].albums : k \in {j \in DOMAIN conn.pairs :
                                   conn.pairs[j].verdict.status = "found"}}

----------------------------------------------------------------------------
(* Promotion.                                                               *)

PairIndices(conn, key) == {k \in DOMAIN conn.pairs : conn.pairs[k].albums = key}

\* The last of several pairs of the same albums is the one that counts.
_pair_lookup(conn, key) ==
  conn.pairs[CHOOSE k \in PairIndices(conn, key) : \A j \in PairIndices(conn, key) : j <= k]

Approvable(conn, sel, key) ==
  /\ PairIndices(conn, key) # {}
  /\ LET pair == _pair_lookup(conn, key)
     IN /\ pair.verdict.status = "found"
        /\ pair.verdict.warnings # {} => key \in sel.allowed

\* MUTANT of SamePipelineRun: only the source is compared.
SameSource(res, conn) == res.url = conn.url

SamePipelineRun(res, conn) == res.snapshot = conn.snapshot /\ res.url = conn.url

promote_playable_cohort(res, conn, sel) ==
  [is |-> "file", url |-> res.url, albums |-> UNION sel.approved,
   pairs |-> {_pair_lookup(conn, key) : key \in sel.approved}]

----------------------------------------------------------------------------
Init ==
  /\ dump \in [Snapshots -> AllDumps] /\ seeds \in [Snapshots -> Seeds]
  /\ \A s \in Snapshots : dump[s] \in Dumps[s] /\ seeds[s] \in Expansions[dump[s]]
  /\ extracted = Absent /\ resolved = Absent /\ connectivity = Absent
  /\ report = {} /\ dispatched = Absent /\ selection = Absent /\ artifact = Absent
  /\ commands = 0

import_cohort_source ==
  /\ Command
  /\ \E page \in Pages :
       extracted' = [is |-> "file", url |-> page.url, candidates |-> page.candidates]
  /\ UNCHANGED <<datasets, resolved, connectivity, report, dispatched, selection, artifact>>

resolve_cohort ==
  /\ Command /\ Readable(extracted)
  /\ \E s \in Snapshots :
       /\ InPlace(s)
       /\ resolved' \in Written([is |-> "file", url |-> extracted.url, snapshot |-> s,
                                 albums |-> resolve_candidates(Corpus(s), extracted.candidates)])
  /\ UNCHANGED <<datasets, extracted, connectivity, report, dispatched, selection, artifact>>

(* connectivity.json is written first, then its summaries; the command can  *)
(* be killed at any write.                                                  *)
score_cohort_to_directory ==
  /\ Command
  /\ \E s \in Snapshots, cap \in Caps :
       /\ Scorable(resolved, s)
       /\ \E failed \in Failures(resolved) :
            LET scored == build_connectivity_cohort(resolved, cap, failed)
            IN \/ connectivity' \in Written(scored) /\ UNCHANGED report
               \/ connectivity' = scored /\ report' = FoundPairs(scored)
  /\ UNCHANGED <<datasets, extracted, resolved, dispatched, selection, artifact>>

(* submit_cohort_score stages a copy of resolved.json.                      *)
submit_cohort_score ==
  /\ Command /\ dispatched = Absent /\ resolved # Absent
  /\ \E s \in Snapshots, cap \in Caps :
       dispatched' = [is |-> "running", input |-> resolved, snapshot |-> s, cap |-> cap]
  /\ UNCHANGED <<datasets, extracted, resolved, connectivity, report, selection, artifact>>

(* The run failed, or its verified outputs replace the ones that are there, *)
(* one by one and only if the operator said so.                             *)
_promote_outputs ==
  /\ dispatched # Absent /\ dispatched' = Absent
  /\ \/ UNCHANGED <<connectivity, report>>
     \/ /\ Scorable(dispatched.input, dispatched.snapshot)
        /\ \E replace \in BOOLEAN, failed \in Failures(dispatched.input) :
             LET scored == build_connectivity_cohort(dispatched.input, dispatched.cap, failed)
             IN /\ connectivity = Absent \/ replace
                /\ connectivity' = scored
                /\ report' \in {report, FoundPairs(scored)}
  /\ UNCHANGED <<datasets, extracted, resolved, selection, artifact, commands>>

(* A person approves pairs, from the drafted candidates or the report, and  *)
(* allows flagged ones, one by one or for the whole cohort.                 *)
review ==
  /\ LET offered == report \cup
                    (IF Readable(connectivity) THEN FoundPairs(connectivity) ELSE {})
     IN \E approved \in SUBSET offered : \E allowed \in SUBSET approved :
          selection' = [is |-> "file", approved |-> approved, allowed |-> allowed]
  /\ UNCHANGED <<datasets, commands, extracted, resolved, connectivity, report, dispatched, artifact>>

promote ==
  /\ Readable(resolved) /\ Readable(connectivity) /\ Readable(selection)
  /\ SamePipelineRun(resolved, connectivity)
  /\ \A key \in selection.approved : Approvable(connectivity, selection, key)
  /\ selection.approved # {}
  /\ UNION selection.approved \subseteq {resolved.albums[i].album : i \in DOMAIN resolved.albums}
  /\ artifact' \in Written(promote_playable_cohort(resolved, connectivity, selection))
  /\ UNCHANGED <<datasets, commands, extracted, resolved, connectivity, report, dispatched, selection>>

Next ==
  \/ expand_one_hop \/ import_cohort_source \/ resolve_cohort \/ score_cohort_to_directory
  \/ submit_cohort_score \/ _promote_outputs \/ review \/ promote

Spec == Init /\ [][Next]_vars

----------------------------------------------------------------------------
(* Properties.                                                              *)

Entries == [album : Nat, artist : Artists]

TypeOK ==
  /\ dump \in [Snapshots -> AllDumps]
  /\ seeds \in [Snapshots -> Seeds \cup {NoCorpus}]
  /\ Readable(resolved) => resolved.snapshot \in Snapshots /\ resolved.albums \in Seq(Entries)
  /\ commands \in 0 .. MaxCommands

(* A corpus has every connection of its frontier's artists that the full    *)
(* dump has, on the same evidence release (onehop.py keeps by a denylist    *)
(* what credit_edges_sql admits by an allowlist).                           *)
FrontierIsWhole ==
  \A s \in {t \in Snapshots : InPlace(t)} :
    LET whole == Whole[dump[s]]
        corpus == Corpus(s)
        frontier == Frontiers[dump[s]][seeds[s]]
    IN \A e \in {x \in DOMAIN whole.edges : x \cap frontier # {}} :
         e \in DOMAIN corpus.edges /\ corpus.edges[e] = whole.edges[e]

ScoredCorpus == Corpora[dump[connectivity.snapshot]][connectivity.seed]

(* A pair reported as no_path is not connected within MaxHops in the corpus *)
(* it was scored on: the report calls it "no documented path found", and    *)
(* only timeouts and caps are "not a documented no-path"                    *)
(* (cohort_connectivity.py).  Up to two hops it is so of the whole dump,    *)
(* when both artists are of the frontier.                                   *)
NoPathIsConclusive ==
  Readable(connectivity) =>
    \A k \in DOMAIN connectivity.pairs :
      LET pair == connectivity.pairs[k]
          a == pair.artists[1]
          b == pair.artists[2]
          d == dump[connectivity.snapshot]
      IN pair.verdict = NoPath =>
           /\ ~Connected(ScoredCorpus, a, b, MaxHops)
           /\ {a, b} \subseteq Frontiers[d][connectivity.seed] =>
                ~Connected(Whole[d], a, b, IF MaxHops < 2 THEN MaxHops ELSE 2)

(* What the frontier cap hides: a pair skipped for it is connected at most  *)
(* by three hops over two artists in a row above the cap, or by four with   *)
(* one next to an end; and whatever the one-sided search finds under the    *)
(* same cap is found here, with no more hops.                               *)
CapHidesLittle ==
  Readable(connectivity) =>
    \A k \in DOMAIN connectivity.pairs :
      LET pair == connectivity.pairs[k]
          a == pair.artists[1]
          b == pair.artists[2]
          path == find_path(ScoredCorpus, a, b, connectivity.cap)
      IN /\ pair.verdict = Skipped("frontier_too_large") =>
              \A n \in 1 .. MaxHops : \A w \in Walks(ScoredCorpus, a, b, n) :
                HiddenByCap(ScoredCorpus, w, n, connectivity.cap)
         /\ pair.verdict # Skipped("seed_failed") =>
              /\ path.status = "found" => /\ pair.verdict.status = "found"
                                         /\ Len(pair.verdict.path) <= path.hops + 1
              /\ path.status = "no_path" => pair.verdict.status # "found"

(* The two together: what a report says of a pair it did not connect is     *)
(* neither more nor less than what was established.                         *)
VerdictsAreHonest == NoPathIsConclusive /\ CapHidesLittle

(* What a promotion publishes was approved, and pairs with a warning were   *)
(* allowed, under whatever scoring is there now; every path is a walk, of   *)
(* MaxHops hops at most, through collaborations the dump of the recorded    *)
(* date documents, whichever files and corpora were made anew since.        *)
PublishedIsEvidenced ==
  [][artifact' # artifact /\ Readable(artifact') =>
       \A pair \in artifact'.pairs :
         LET path == pair.verdict.path
             n == Len(path) - 1
         IN /\ pair.albums \in selection.approved /\ pair.albums \subseteq artifact'.albums
            /\ n \in 1 .. MaxHops
            /\ [i \in 0 .. n |-> path[i + 1]]
                 \in Walks(Whole[dump[resolved.snapshot]], pair.artists[1], pair.artists[2], n)
            /\ pair.verdict.warnings # {} => pair.albums \in selection.allowed]_vars
=============================================================================
