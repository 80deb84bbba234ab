------------------------- MODULE DatasetFetchProofs -------------------------
(***************************************************************************)
(* Machine-checked proofs about DatasetFetch, for any manifests, contents  *)
(* and bounds.                                                             *)
(***************************************************************************)
EXTENDS DatasetFetch, TLAPS

\* What a fetch knows of its staging directory: a file it has looked at is the
\* manifest's, and the manifest and the marker come after all of them.
Staged ==
  pc # "idle" =>
    /\ wanted \in Versions /\ todo \subseteq Listed(wanted) /\ partial.exists
    /\ \A p \in Listed(wanted) \ todo : partial.files[p] = Of[wanted][p]
    /\ pc # "download" => todo = {} /\ partial.manifest = wanted

\* A fetch runs only over a cache that is not whole and that, when the disk is not
\* to blame, no job takes for validated either.
NothingToLose ==
  pc # "idle" =>
    /\ ~(cache.exists /\ Whole(cache, cache.manifest))
    /\ Validated(cache) => damaged

\* The type of a directory.
Directories == [exists : BOOLEAN, files : [Paths -> Contents \cup {NoFile, BadFile}],
                manifest : Versions \cup {NoManifest}, marker : Versions \cup {NoManifest}]

IInv == FetchTypeOK /\ Staged /\ NothingToLose /\ ValidatedIsWhole

\* What a manifest lists are paths, and what it wants of them are contents.
LEMMA ManifestContents ==
  ASSUME NEW v \in Versions
  PROVE  /\ v # NoManifest
         /\ Listed(v) \subseteq Paths
         /\ \A p \in Listed(v) : Of[v][p] \in Contents /\ Of[v][p] \notin {NoFile, BadFile}
<1>1. PICK P \in (SUBSET Paths) \ {{}} : Of[v] \in [P -> Contents]
  BY DatasetAssumption
<1>2. Listed(v) = P
  BY <1>1 DEF Listed
<1> QED
  BY <1>1, <1>2, DatasetAssumption

\* An empty cache and an idle fetch satisfy the invariant.
THEOREM InitIInv == FetchInit => IInv
<1> SUFFICES ASSUME FetchInit PROVE IInv
  OBVIOUS
<1>1. damages \in 0..MaxDamage /\ publishes \in 0..MaxPublish
  BY DatasetAssumption DEF FetchInit
<1>2. NoDirectory \in Directories
  BY DEF Directories, NoDirectory, NoneCached
<1>3. FetchTypeOK
  BY <1>1, <1>2 DEF FetchInit, FetchTypeOK, Directories
<1> QED
  BY <1>3 DEF FetchInit, IInv, Staged, NothingToLose, ValidatedIsWhole, Validated, NoDirectory

\* A verification marks a cache that is whole; a fetch begins over one that is not.
LEMMA BeginIInv ==
  ASSUME IInv, VerifySucceeds \/ FetchBegins
  PROVE  IInv'
<1> USE DEF IInv
<1>1. CASE VerifySucceeds
  <2>1. /\ cache'.exists /\ cache'.files = cache.files /\ cache'.manifest = cache.manifest
        /\ UNCHANGED <<served, damages, publishes, partial, pc, wanted, todo, damaged>>
    BY <1>1 DEF VerifySucceeds, FetchTypeOK, environment
  <2>2. FetchTypeOK'
    BY <1>1, <2>1 DEF VerifySucceeds, FetchTypeOK
  <2>3. Whole(cache', cache'.manifest)
    BY <1>1, <2>1 DEF VerifySucceeds, Whole
  <2> QED
    BY <1>1, <2>1, <2>2, <2>3
    DEF VerifySucceeds, Staged, NothingToLose, ValidatedIsWhole
<1>2. CASE FetchBegins
  <2>1. /\ cache' = cache /\ damaged' = damaged /\ served' = served
        /\ damages' = damages /\ publishes' = publishes
        /\ wanted' = served /\ todo' = Listed(served) /\ pc' = "download"
        /\ partial'.exists /\ partial'.files = partial.files
        /\ partial' = [partial EXCEPT !.exists = TRUE]
    BY <1>2 DEF FetchBegins, FetchTypeOK, environment
  <2>2. FetchTypeOK'
    BY <2>1, ManifestContents DEF FetchTypeOK
  <2>3. Staged'
    BY <2>1 DEF Staged, FetchTypeOK
  <2>4. NothingToLose' /\ ValidatedIsWhole'
    BY <1>2, <2>1 DEF FetchBegins, NothingToLose, ValidatedIsWhole, Validated, Whole
  <2> QED
    BY <2>2, <2>3, <2>4
<1> QED
  BY <1>1, <1>2

\* Steps that leave the cache alone keep what is said of it.
LEMMA SameCache ==
  ASSUME IInv, UNCHANGED <<cache, damaged>>, pc # "idle" \/ pc' = "idle"
  PROVE  NothingToLose' /\ ValidatedIsWhole'
BY DEF IInv, NothingToLose, ValidatedIsWhole, Validated, Whole

\* A fetch looks at its files, one at a time.
LEMMA StageIInv ==
  ASSUME IInv, NEW p \in Paths, Reuse(p) \/ Download(p)
  PROVE  IInv'
<1>1. /\ UNCHANGED <<served, damages, publishes, cache, pc, wanted, damaged>>
      /\ pc = "download" /\ p \in todo /\ todo' = todo \ {p}
  BY DEF Reuse, Download, environment
<1>2. wanted \in Versions /\ p \in Listed(wanted)
  BY <1>1 DEF IInv, Staged
<1>3. /\ partial' \in Directories
      /\ partial'.files[p] = Of[wanted][p]
      /\ \A q \in Paths \ {p} : partial'.files[q] = partial.files[q]
      /\ UNCHANGED <<partial.exists, partial.manifest, partial.marker>>
  <2>1. CASE Reuse(p)
    BY <2>1 DEF IInv, FetchTypeOK, Directories, Reuse
  <2>2. CASE Download(p)
    BY <2>2, <1>2, ManifestContents DEF IInv, FetchTypeOK, Directories, Download
  <2> QED
    BY <2>1, <2>2
<1>4. Staged'
  <2>1. /\ todo \subseteq Listed(wanted) /\ partial.exists /\ Listed(wanted) \subseteq Paths
        /\ \A q \in Listed(wanted) \ todo : partial.files[q] = Of[wanted][q]
    BY <1>1, <1>2, ManifestContents DEF IInv, Staged
  <2>2. Listed(wanted)' = Listed(wanted) /\ Of[wanted]' = Of[wanted]
    BY <1>1 DEF Listed
  <2>3. ASSUME NEW q \in Listed(wanted) \ todo' PROVE partial'.files[q] = Of[wanted][q]
    BY <1>1, <1>3, <2>1, <2>3
  <2> QED
    BY <1>1, <1>2, <1>3, <2>1, <2>2, <2>3 DEF Staged
<1>5. partial'.exists
  BY <1>1, <1>4 DEF Staged
<1> QED
  BY <1>1, <1>3, <1>4, <1>5, SameCache DEF IInv, FetchTypeOK, Directories

\* A fetch that fails leaves what it staged; one that is through with its files
\* writes the manifest, then the marker.
LEMMA SealIInv ==
  ASSUME IInv, Fails \/ WriteManifest \/ WriteMarker
  PROVE  IInv'
<1>1. UNCHANGED <<served, damages, publishes, cache, damaged>>
  BY DEF Fails, WriteManifest, WriteMarker, environment
<1>2. NothingToLose' /\ ValidatedIsWhole'
  BY <1>1, SameCache DEF Fails, WriteManifest, WriteMarker
<1>3. CASE Fails
  BY <1>1, <1>2, <1>3 DEF IInv, FetchTypeOK, Directories, Staged, Fails
<1>4. CASE WriteManifest
  <2>1. /\ partial'.files = partial.files /\ partial'.manifest = wanted /\ partial'.exists
        /\ partial' \in Directories
    BY <1>4 DEF IInv, FetchTypeOK, Directories, Staged, WriteManifest
  <2> QED
    BY <1>1, <1>2, <1>4, <2>1 DEF IInv, FetchTypeOK, Directories, Staged, WriteManifest
<1>5. CASE WriteMarker
  <2>1. /\ partial'.files = partial.files /\ partial'.manifest = partial.manifest
        /\ partial'.exists
        /\ partial' \in Directories
    BY <1>5 DEF IInv, FetchTypeOK, Directories, Staged, WriteMarker
  <2> QED
    BY <1>1, <1>2, <1>5, <2>1 DEF IInv, FetchTypeOK, Directories, Staged, WriteMarker
<1> QED
  BY <1>3, <1>4, <1>5

\* The old cache is emptied and taken away: it was not whole and does not become so.
LEMMA RemoveIInv ==
  ASSUME IInv, RemoveEntry \/ RemoveDirectory
  PROVE  IInv'
<1>1. /\ UNCHANGED <<served, damages, publishes, partial, wanted, todo, damaged>>
      /\ pc = "remove" /\ pc' \in {"remove", "rename"}
  BY DEF RemoveEntry, RemoveDirectory, environment
<1>2. Staged'
  BY <1>1 DEF IInv, Staged
<1>3. CASE RemoveEntry
  <2>1. /\ cache' \in Directories
        /\ cache'.exists /\ cache.exists
        /\ cache'.manifest \in {cache.manifest, NoManifest}
        /\ cache'.marker \in {cache.marker, NoManifest}
        /\ \A p \in Paths : cache'.files[p] \in {cache.files[p], NoFile}
    BY <1>3 DEF IInv, FetchTypeOK, Directories, RemoveEntry
  <2>2. ~Whole(cache', cache'.manifest)
    <3> SUFFICES ASSUME Whole(cache', cache'.manifest) PROVE Whole(cache, cache.manifest)
      BY <1>1, <2>1 DEF IInv, NothingToLose
    <3>1. cache.manifest \in Versions /\ cache'.manifest = cache.manifest
      BY <2>1 DEF Whole, Directories
    <3> QED
      BY <2>1, <3>1, ManifestContents DEF Whole
  <2> QED
    BY <1>1, <1>2, <1>3, <2>1, <2>2
    DEF IInv, FetchTypeOK, Directories, NothingToLose, ValidatedIsWhole, Validated, RemoveEntry
<1>4. CASE RemoveDirectory
  <2>1. cache' = NoDirectory /\ ~cache'.exists
    BY <1>4 DEF RemoveDirectory, NoDirectory
  <2>2. NoDirectory \in Directories
    BY DEF Directories, NoDirectory, NoneCached
  <2> QED
    BY <1>1, <1>2, <1>4, <2>1, <2>2
    DEF IInv, FetchTypeOK, Directories, NothingToLose, ValidatedIsWhole, Validated, RemoveDirectory
<1> QED
  BY <1>3, <1>4

\* What is put in its place is whole.
LEMMA RenameIInv ==
  ASSUME IInv, Rename
  PROVE  IInv'
<1>1. /\ UNCHANGED <<served, damages, publishes, todo>> /\ pc = "rename" /\ pc' = "idle"
      /\ cache' = partial /\ partial' = NoDirectory /\ wanted' = NoManifest /\ ~damaged'
      /\ damaged' \in BOOLEAN
  BY DEF Rename, environment
<1>2. Whole(partial, partial.manifest)
  BY <1>1, ManifestContents DEF IInv, Staged, Whole
<1>3. NoDirectory \in Directories
  BY DEF Directories, NoDirectory, NoneCached
<1> QED
  BY <1>1, <1>2, <1>3
  DEF IInv, FetchTypeOK, Directories, Staged, NothingToLose, ValidatedIsWhole, Whole

\* The server and the disk.
LEMMA OutsideIInv ==
  ASSUME IInv, (\E v \in Versions : ServeNew(v)) \/ (\E p \in Paths : Damage(p))
  PROVE  IInv'
<1>1. ASSUME NEW v \in Versions, ServeNew(v) PROVE IInv'
  <2>1. publishes' \in 0..MaxPublish
    BY <1>1, DatasetAssumption DEF IInv, FetchTypeOK, Directories, ServeNew
  <2> QED
    BY <1>1, <2>1
    DEF IInv, FetchTypeOK, Staged, NothingToLose, ValidatedIsWhole, Validated, Whole, ServeNew
<1>2. ASSUME NEW p \in Paths, Damage(p) PROVE IInv'
  <2>1. damages' \in 0..MaxDamage
    BY <1>2, DatasetAssumption DEF IInv, FetchTypeOK, Directories, Damage
  <2>2. /\ cache' \in Directories
        /\ cache'.exists /\ cache.exists /\ cache'.manifest = cache.manifest
        /\ \A q \in Paths : cache'.files[q] \in {cache.files[q], NoFile, BadFile}
    BY <1>2 DEF IInv, FetchTypeOK, Directories, Damage
  <2>3. Whole(cache', cache'.manifest) => Whole(cache, cache.manifest)
    <3> SUFFICES ASSUME Whole(cache', cache'.manifest) PROVE Whole(cache, cache.manifest)
      OBVIOUS
    <3>1. cache.manifest \in Versions
      BY <2>2 DEF Whole, Directories
    <3> QED
      BY <2>2, <3>1, ManifestContents DEF Whole
  <2> QED
    BY <1>2, <2>1, <2>2, <2>3
    DEF IInv, FetchTypeOK, Directories, Staged, NothingToLose, ValidatedIsWhole, Damage
<1> QED
  BY <1>1, <1>2

\* No step leaves the invariant, and none takes away a cache that is whole.
THEOREM NextIInv == IInv /\ [FetchNext]_fetchVars => IInv'
<1> SUFFICES ASSUME IInv, [FetchNext]_fetchVars PROVE IInv'
  OBVIOUS
<1>1. CASE UNCHANGED fetchVars
  BY <1>1 DEF IInv, FetchTypeOK, Staged, NothingToLose, ValidatedIsWhole, Validated, Whole,
              fetchVars, environment
<1>2. CASE FetchNext
  BY <1>2, BeginIInv, StageIInv, SealIInv, RemoveIInv, RenameIInv, OutsideIInv DEF FetchNext
<1> QED
  BY <1>1, <1>2

\* The invariant holds throughout.
THEOREM Invariance == FetchSpec => []IInv
<1> QED
  BY InitIInv, NextIInv, PTL DEF FetchSpec

\* The variables stay in their types.
THEOREM TypeCorrect == FetchSpec => []FetchTypeOK
<1>1. IInv => FetchTypeOK
  BY DEF IInv
<1> QED
  BY <1>1, Invariance, PTL

\* A cache jobs take for validated is whole, unless the disk damaged it since:
\* whatever failed or died before, and whatever other runs left staged.
THEOREM ValidatedCachesAreWhole == FetchSpec => []ValidatedIsWhole
<1>1. IInv => ValidatedIsWhole
  BY DEF IInv
<1> QED
  BY <1>1, Invariance, PTL

\* A fetch, overwrite or not, never takes a whole cache away.
THEOREM WholeCachesAreKept == FetchSpec => WholeIsKept
<1>1. ASSUME IInv, [FetchNext]_fetchVars, cache.exists, Whole(cache, cache.manifest)
      PROVE  cache'.files = cache.files \/ damages' # damages
  <2>1. pc = "idle"
    BY <1>1 DEF IInv, NothingToLose
  <2>2. CASE VerifySucceeds
    BY <2>2, <1>1 DEF VerifySucceeds, IInv, FetchTypeOK
  <2>3. ASSUME NEW p \in Paths, Damage(p) PROVE damages' # damages
    BY <2>3, <1>1, DatasetAssumption DEF Damage, IInv, FetchTypeOK
  <2>4. CASE UNCHANGED fetchVars
    BY <2>4 DEF fetchVars
  <2>5. CASE \E v \in Versions : ServeNew(v)
    BY <2>5 DEF ServeNew
  <2> QED
    BY <1>1, <2>1, <2>2, <2>3, <2>4, <2>5
    DEF FetchNext, FetchBegins, Fails, Reuse, Download, WriteManifest, WriteMarker, RemoveEntry,
        RemoveDirectory, Rename
<1> QED
  BY <1>1, Invariance, PTL DEF FetchSpec, WholeIsKept
=============================================================================
