---------------------------- MODULE DatasetFetch ----------------------------
(***************************************************************************)
(* The worker-local dataset cache: dataset_fetch.py fills a directory from  *)
(* the catalog-data HTTP server by way of a staging directory that outlives *)
(* a failed run, and dataset_locator.resolve_dataset lets jobs read it once *)
(* it holds a manifest and a .verified.json marker.                        *)
(*                                                                         *)
(* One fetch runs at a time; it dies anywhere, a download fails anywhere,   *)
(* the server may publish another manifest under the same URL, and the disk *)
(* may lose or damage cached files.  A file is what it contains; what is    *)
(* downloaded goes to a .part file that replaces the staged file only when  *)
(* it matches the manifest, so it is either there whole or not.            *)
(***************************************************************************)
EXTENDS Naturals, FiniteSets

CONSTANTS Paths,     \* the relative paths of a manifest's files
          Versions,  \* the manifests the server ever serves
          Contents,  \* what a file may contain
          Of,        \* per version, the content of each path it lists
          NoFile, BadFile, NoManifest,  \* no such file, a damaged one, no manifest
          MaxDamage, MaxPublish  \* bounds: damaged files, newly served manifests

Listed(v) == DOMAIN Of[v]

ASSUME DatasetAssumption ==
  /\ IsFiniteSet(Paths) /\ Contents \cap {NoFile, BadFile} = {} /\ NoManifest \notin Versions
  /\ Of \in [Versions -> UNION {[P -> Contents] : P \in (SUBSET Paths) \ {{}}}]
  /\ {MaxDamage, MaxPublish} \subseteq Nat

VARIABLES
  served,   \* the manifest at the base URL
  cache,    \* dest_root
  partial,  \* .<dest name>.partial, where a fetch stages
  pc,       \* the fetch: idle, download, marker, remove or rename
  wanted,   \* its manifest
  todo,     \* the files of it not yet looked at
  damages, publishes, \* counts, for the bounds
  damaged   \* history: dest_root was damaged since it was put there

NoneCached == [p \in Paths |-> NoFile]
NoDirectory ==
  [exists |-> FALSE, files |-> NoneCached, manifest |-> NoManifest, marker |-> NoManifest]

environment == <<served, damages, publishes>>
fetchVars == <<environment, cache, partial, pc, wanted, todo, damaged>>

\* Every file the manifest v lists is there and has its size and sha256.
Whole(d, v) == v # NoManifest /\ \A p \in Listed(v) : d.files[p] = Of[v][p]

\* resolve_dataset: a validated local cache.
Validated(d) == d.exists /\ d.manifest # NoManifest /\ d.marker # NoManifest

FetchInit ==
  /\ served \in Versions
  /\ cache = NoDirectory /\ partial = NoDirectory
  /\ pc = "idle" /\ wanted = NoManifest /\ todo = {}
  /\ damages = 0 /\ publishes = 0 /\ damaged = FALSE

-----------------------------------------------------------------------------
\* verify_dataset, by itself (--verify-only) or at the start of a fetch: the
\* marker is written, and the fetch has nothing to do.
VerifySucceeds ==
  /\ pc = "idle" /\ cache.exists /\ Whole(cache, cache.manifest)
  /\ cache' = [cache EXCEPT !.marker = cache.manifest]
  /\ UNCHANGED <<environment, partial, pc, wanted, todo, damaged>>

\* MUTANT of FetchBegins: overwrite=True skips the verification.
FetchBeginsAnyway ==
  /\ pc = "idle"
  /\ pc' = "download" /\ wanted' = served /\ todo' = Listed(served)
  /\ partial' = [partial EXCEPT !.exists = TRUE]
  /\ UNCHANGED <<environment, cache, damaged>>

\* fetch_dataset: there is no cache, or one that failed verification and
\* overwrite=True; the manifest is fetched, and there is room for its files.
\* (Without overwrite, over the cap or short of space it refuses: a stutter.)
FetchBegins ==
  /\ pc = "idle" /\ ~(cache.exists /\ Whole(cache, cache.manifest))
  /\ pc' = "download" /\ wanted' = served /\ todo' = Listed(served)
  /\ partial' = [partial EXCEPT !.exists = TRUE]
  /\ UNCHANGED <<environment, cache, damaged>>

\* MUTANT of Reuse: a staged file of the right name and size is kept.
ReuseBySize(p) ==
  /\ pc = "download" /\ p \in todo /\ partial.files[p] # NoFile
  /\ todo' = todo \ {p}
  /\ UNCHANGED <<environment, cache, partial, pc, wanted, damaged>>

\* A file staged by an earlier run is kept if it is the manifest's.
Reuse(p) ==
  /\ pc = "download" /\ p \in todo /\ partial.files[p] = Of[wanted][p]
  /\ todo' = todo \ {p}
  /\ UNCHANGED <<environment, cache, partial, pc, wanted, damaged>>

\* Any other is downloaded, and is what the manifest says.
Download(p) ==
  /\ pc = "download" /\ p \in todo /\ partial.files[p] # Of[wanted][p]
  /\ p \in Listed(served) /\ Of[served][p] = Of[wanted][p]
  /\ partial' = [partial EXCEPT !.files[p] = Of[wanted][p]]
  /\ todo' = todo \ {p}
  /\ UNCHANGED <<environment, cache, pc, wanted, damaged>>

\* A download fails or is not what the manifest says, or the process dies:
\* what is staged stays.
Fails ==
  /\ pc # "idle" /\ pc' = "idle" /\ wanted' = NoManifest /\ todo' = {}
  /\ UNCHANGED <<environment, cache, partial, damaged>>

WriteManifest ==
  /\ pc = "download" /\ todo = {} /\ pc' = "marker"
  /\ partial' = [partial EXCEPT !.manifest = wanted]
  /\ UNCHANGED <<environment, cache, wanted, todo, damaged>>

WriteMarker ==
  /\ pc = "marker" /\ pc' = "remove"
  /\ partial' = [partial EXCEPT !.marker = wanted]
  /\ UNCHANGED <<environment, cache, wanted, todo, damaged>>

\* shutil.rmtree(dest_root), an entry at a time in the order the disk lists them.
RemoveEntry ==
  /\ pc = "remove" /\ cache.exists /\ cache # [NoDirectory EXCEPT !.exists = TRUE]
  /\ \/ \E p \in Paths : cache.files[p] # NoFile /\ cache' = [cache EXCEPT !.files[p] = NoFile]
     \/ cache.manifest # NoManifest /\ cache' = [cache EXCEPT !.manifest = NoManifest]
     \/ cache.marker # NoManifest /\ cache' = [cache EXCEPT !.marker = NoManifest]
  /\ UNCHANGED <<environment, partial, pc, wanted, todo, damaged>>

RemoveDirectory ==
  /\ pc = "remove"
  /\ cache.exists => cache = [NoDirectory EXCEPT !.exists = TRUE]
  /\ cache' = NoDirectory /\ pc' = "rename"
  /\ UNCHANGED <<environment, partial, wanted, todo, damaged>>

\* staging_root.replace(dest_root)
Rename ==
  /\ pc = "rename" /\ pc' = "idle"
  /\ cache' = partial /\ partial' = NoDirectory
  /\ wanted' = NoManifest /\ damaged' = FALSE
  /\ UNCHANGED <<environment, todo>>

-----------------------------------------------------------------------------
\* The server's: another manifest under the same URL.
ServeNew(v) ==
  /\ v # served /\ publishes < MaxPublish
  /\ served' = v /\ publishes' = publishes + 1
  /\ UNCHANGED <<damages, cache, partial, pc, wanted, todo, damaged>>

\* The disk's: a cached file is lost, or not what was written.
Damage(p) ==
  /\ cache.exists /\ damages < MaxDamage /\ cache.files[p] # NoFile
  /\ \E c \in {NoFile, BadFile} : cache' = [cache EXCEPT !.files[p] = c]
  /\ damages' = damages + 1 /\ damaged' = TRUE
  /\ UNCHANGED <<served, publishes, partial, pc, wanted, todo>>

FetchNext ==
  \/ VerifySucceeds \/ FetchBegins \/ Fails
  \/ \E p \in Paths : Reuse(p) \/ Download(p) \/ Damage(p)
  \/ WriteManifest \/ WriteMarker \/ RemoveEntry \/ RemoveDirectory \/ Rename
  \/ \E v \in Versions : ServeNew(v)

FetchSpec == FetchInit /\ [][FetchNext]_fetchVars

-----------------------------------------------------------------------------
(***************************************************************************)
(* Properties.                                                             *)
(***************************************************************************)

\* Every variable stays in its type; nothing is in a directory that is not there.
FetchTypeOK ==
  /\ served \in Versions
  /\ \A d \in {cache, partial} :
       /\ d \in [exists : BOOLEAN, files : [Paths -> Contents \cup {NoFile, BadFile}],
                 manifest : Versions \cup {NoManifest}, marker : Versions \cup {NoManifest}]
       /\ ~d.exists => d = NoDirectory
  /\ pc \in {"idle", "download", "marker", "remove", "rename"}
  /\ wanted \in Versions \cup {NoManifest} /\ todo \subseteq Paths
  /\ damages \in 0..MaxDamage /\ publishes \in 0..MaxPublish /\ damaged \in BOOLEAN

\* What jobs are given as a validated cache is whole, unless the disk damaged it
\* after the fetch: not a crash half way through a fetch or through the removal
\* of an old cache, nor what runs that fetched another manifest left staged.
ValidatedIsWhole == Validated(cache) /\ ~damaged => Whole(cache, cache.manifest)

\* A cache that is whole is never taken away or changed by a fetch, overwrite or
\* not: only the disk can undo it.
WholeIsKept ==
  [][cache.exists /\ Whole(cache, cache.manifest) =>
       cache'.files = cache.files \/ damages' # damages]_fetchVars

=============================================================================
