------------------------ MODULE WorkbenchCacheProofs ------------------------
(***************************************************************************)
(* Machine-checked proofs about WorkbenchCache, for any number of request  *)
(* threads, roots, keys, cache bounds and rebuilds.                        *)
(***************************************************************************)
EXTENDS WorkbenchCache, FiniteSetTheorems, TLAPS

Early == {"new", "lock", "decide", "open"}
Built == {"cursor", "using", "done"}

\* A reference count is the number of checkouts holding the entry.
RefsCounted == \A g \in Threads : refcount[g] = Cardinality(Holders(g))

\* A cached graph was inserted under its own key and has not been replaced.
CachedBuilt ==
  \A k \in Keys : cached[k] # NoThread =>
    req[cached[k]] = k /\ pc[cached[k]] \in Built /\ cached[k] \notin stale

\* A graph is its builder's alone until it is inserted.
BuildPrivate ==
  \A t \in Threads :
    /\ pc[t] \in Early => t \notin opened
    /\ pc[t] \in Early \cup {"opening"} => refcount[t] = 0
    /\ pc[t] \in {"opening", "insert"} => entry[t] = t /\ t \notin stale

\* The entry a miss found is an inserted one of the same key.
ExistingOld ==
  \A t \in Threads : existing[t] # NoThread =>
    /\ pc[t] \in {"open", "opening", "insert"}
    /\ pc[existing[t]] \in Built /\ req[existing[t]] = req[t]

\* What is cached, being built or held has not been closed, and a checkout holds a graph.
OpenWhileUsed ==
  /\ \A t \in Threads : pc[t] \in InFlight => entry[t] \in Threads
  /\ serving # "closed" =>
       /\ \A k \in Keys : cached[k] \notin closed
       /\ \A t \in Threads : pc[t] \in {"opening"} \cup InFlight => entry[t] \notin closed

\* The inductive invariant.
IInv ==
  TypeOK /\ RefsCounted /\ CachedBuilt /\ BuildPrivate /\ ExistingOld /\ OpenWhileUsed

-----------------------------------------------------------------------------
(* Counting holders. *)

\* The holders of a graph are finitely many, so their number is zero only when
\* there are none.
LEMMA HoldersFinite ==
  \A g : /\ IsFiniteSet(Holders(g)) /\ Cardinality(Holders(g)) \in Nat
         /\ Cardinality(Holders(g)) = 0 <=> Holders(g) = {}
<1> TAKE g
<1>1. IsFiniteSet(Holders(g))
  BY CacheAssumption, FS_Subset DEF Holders
<1>2. QED
  BY <1>1, FS_CardinalityType, FS_EmptySet

\* One thread more is one more holder.
LEMMA HolderAdded ==
  ASSUME NEW g, NEW t, t \notin Holders(g), Holders(g)' = Holders(g) \cup {t}
  PROVE  Cardinality(Holders(g)') = Cardinality(Holders(g)) + 1
BY HoldersFinite, FS_AddElement

\* One thread less is one holder less, and there was one to lose.
LEMMA HolderRemoved ==
  ASSUME NEW g, NEW t \in Holders(g), Holders(g)' = Holders(g) \ {t}
  PROVE  /\ Cardinality(Holders(g)') = Cardinality(Holders(g)) - 1
         /\ Cardinality(Holders(g)) > 0
BY HoldersFinite, FS_RemoveElement

\* Before the first request the invariant holds.
THEOREM InitIInv == Init => IInv
<1> SUFFICES ASSUME Init PROVE IInv
  OBVIOUS
<1> DEFINE k0 == CHOOSE k \in Keys : TRUE
<1>1. k0 \in Keys
  BY CacheAssumption
<1>2. TypeOK
  BY <1>1, CacheAssumption DEF Init, TypeOK, PCs
<1>3. \A g \in Threads : Holders(g) = {}
  BY DEF Init, Holders, InFlight
<1>4. RefsCounted
  BY <1>3, FS_EmptySet DEF RefsCounted, Init
<1>5. CachedBuilt /\ ExistingOld
  BY CacheAssumption DEF CachedBuilt, ExistingOld, Init
<1>6. BuildPrivate
  BY DEF BuildPrivate, Early, Init
<1>7. OpenWhileUsed
  BY CacheAssumption DEF OpenWhileUsed, InFlight, Init
<1> QED
  BY <1>2, <1>4, <1>5, <1>6, <1>7 DEF IInv

-----------------------------------------------------------------------------
(* The steps of a request, one lemma each. *)

\* Request preserves the invariant.
LEMMA RequestIInv ==
  ASSUME IInv, NEW t \in Threads, NEW k \in Keys, Request(t, k)
  PROVE  IInv'
<1> USE DEF Goto, IInv, corpusVars, graphVars, cacheVars
<1>1. \A g \in Threads : Holders(g)' = Holders(g)
  BY DEF Request, Holders, InFlight, TypeOK
<1>2. TypeOK'
  BY DEF Request, TypeOK, PCs
<1>3. RefsCounted'
  BY <1>1 DEF Request, RefsCounted
<1>4. CachedBuilt' /\ ExistingOld'
  BY DEF Request, CachedBuilt, ExistingOld, TypeOK, Built
<1>5. BuildPrivate'
  BY DEF Request, BuildPrivate, TypeOK, Early
<1>6. OpenWhileUsed'
  BY DEF Request, OpenWhileUsed, TypeOK, InFlight
<1> QED
  BY <1>2, <1>3, <1>4, <1>5, <1>6

\* Acquire preserves the invariant.
LEMMA AcquireIInv ==
  ASSUME IInv, NEW t \in Threads, Acquire(t)
  PROVE  IInv'
<1> USE DEF Goto, IInv, corpusVars, graphVars, cacheVars
<1>1. \A g \in Threads : Holders(g)' = Holders(g)
  BY DEF Acquire, Holders, InFlight, TypeOK
<1>2. TypeOK'
  BY CacheAssumption DEF Acquire, TypeOK, PCs
<1>3. RefsCounted'
  BY <1>1 DEF Acquire, RefsCounted
<1>4. CachedBuilt' /\ ExistingOld'
  BY DEF Acquire, CachedBuilt, ExistingOld, TypeOK, Built
<1>5. BuildPrivate'
  BY DEF Acquire, BuildPrivate, TypeOK, Early
<1>6. OpenWhileUsed'
  BY DEF Acquire, OpenWhileUsed, TypeOK, InFlight
<1> QED
  BY <1>2, <1>3, <1>4, <1>5, <1>6

\* IdentityFails preserves the invariant.
LEMMA IdentityFailsIInv ==
  ASSUME IInv, NEW t \in Threads, IdentityFails(t)
  PROVE  IInv'
<1> USE DEF Goto, IInv, corpusVars, graphVars, cacheVars
<1>1. \A g \in Threads : Holders(g)' = Holders(g)
  BY DEF IdentityFails, Holders, InFlight, TypeOK
<1>2. TypeOK'
  BY CacheAssumption DEF IdentityFails, TypeOK, PCs
<1>3. RefsCounted'
  BY <1>1 DEF IdentityFails, RefsCounted
<1>4. CachedBuilt' /\ ExistingOld'
  BY DEF IdentityFails, CachedBuilt, ExistingOld, TypeOK, Built
<1>5. BuildPrivate'
  BY DEF IdentityFails, BuildPrivate, TypeOK, Early
<1>6. OpenWhileUsed'
  BY DEF IdentityFails, OpenWhileUsed, TypeOK, InFlight
<1> QED
  BY <1>2, <1>3, <1>4, <1>5, <1>6

\* Reuse preserves the invariant.
LEMMA ReuseIInv ==
  ASSUME IInv, NEW t \in Threads, Reuse(t)
  PROVE  IInv'
<1> USE DEF Goto, IInv, corpusVars, graphVars, cacheVars
<1>1. PICK h \in Threads : h = cached[req[t]] /\ h # t
  BY DEF Reuse, TypeOK, CachedBuilt, Built
<1>2. t \notin Holders(h) /\ Holders(h)' = Holders(h) \cup {t}
  BY <1>1 DEF Reuse, Holders, InFlight, TypeOK
<1>3. \A g \in Threads \ {h} : Holders(g)' = Holders(g)
  BY <1>1 DEF Reuse, Holders, InFlight, TypeOK
<1>4. MoveToEnd(req[t], CachedKeys(cached)) \in SUBSET (Keys \X Keys)
  BY DEF MoveToEnd, CachedKeys, TypeOK
<1>5. TypeOK'
  BY <1>1, <1>4, CacheAssumption DEF Reuse, TypeOK, PCs
<1>6. RefsCounted'
  <2>1. /\ refcount' = [refcount EXCEPT ![h] = @ + 1]
        /\ refcount \in [Threads -> Nat]
    BY <1>1 DEF Reuse, TypeOK
  <2>2. Cardinality(Holders(h)') = Cardinality(Holders(h)) + 1
    BY <1>2, HolderAdded
  <2>3. refcount'[h] = Cardinality(Holders(h)')
    BY <1>1, <2>1, <2>2 DEF RefsCounted
  <2>4. \A g \in Threads \ {h} : refcount'[g] = Cardinality(Holders(g)')
    BY <1>3, <2>1 DEF RefsCounted
  <2> QED
    BY <2>3, <2>4 DEF RefsCounted
<1>7. CachedBuilt' /\ ExistingOld'
  BY <1>1 DEF Reuse, CachedBuilt, ExistingOld, TypeOK, Built
<1>8. BuildPrivate'
  BY <1>1 DEF Reuse, BuildPrivate, CachedBuilt, TypeOK, Early, Built
<1>9. OpenWhileUsed'
  BY <1>1 DEF Reuse, OpenWhileUsed, TypeOK, InFlight
<1> QED
  BY <1>5, <1>6, <1>7, <1>8, <1>9

\* Miss preserves the invariant.
LEMMA MissIInv ==
  ASSUME IInv, NEW t \in Threads, Miss(t)
  PROVE  IInv'
<1> USE DEF Goto, IInv, corpusVars, graphVars, cacheVars
<1>1. \A g \in Threads : Holders(g)' = Holders(g)
  BY DEF Miss, Holders, InFlight, TypeOK
<1>2. TypeOK'
  BY DEF Miss, TypeOK, PCs
<1>3. RefsCounted'
  BY <1>1 DEF Miss, RefsCounted
<1>4. CachedBuilt'
  BY DEF Miss, CachedBuilt, TypeOK, Built
<1>5. ExistingOld'
  BY DEF Miss, CachedBuilt, ExistingOld, TypeOK, Built
<1>6. BuildPrivate'
  BY DEF Miss, BuildPrivate, TypeOK, Early
<1>7. OpenWhileUsed'
  BY DEF Miss, OpenWhileUsed, TypeOK, InFlight
<1> QED
  BY <1>2, <1>3, <1>4, <1>5, <1>6, <1>7

\* OpenGraph preserves the invariant.
LEMMA OpenGraphIInv ==
  ASSUME IInv, NEW t \in Threads, OpenGraph(t)
  PROVE  IInv'
<1> USE DEF Goto, IInv, corpusVars, graphVars, cacheVars
<1>1. \A g \in Threads : Holders(g)' = Holders(g)
  BY DEF OpenGraph, Holders, InFlight, TypeOK
<1>2. TypeOK'
  BY CacheAssumption DEF OpenGraph, TypeOK, PCs
<1>3. RefsCounted'
  BY <1>1 DEF OpenGraph, RefsCounted
<1>4. CachedBuilt' /\ ExistingOld'
  BY DEF OpenGraph, CachedBuilt, ExistingOld, TypeOK, Built
<1>5. BuildPrivate'
  BY DEF OpenGraph, BuildPrivate, TypeOK, Early
<1>6. OpenWhileUsed'
  BY DEF OpenGraph, OpenWhileUsed, BuildPrivate, TypeOK, InFlight, Early
<1> QED
  BY <1>2, <1>3, <1>4, <1>5, <1>6

\* OpenRefused preserves the invariant.
LEMMA OpenRefusedIInv ==
  ASSUME IInv, NEW t \in Threads, OpenRefused(t)
  PROVE  IInv'
<1> USE DEF Goto, IInv, corpusVars, graphVars, cacheVars
<1>1. \A g \in Threads : Holders(g)' = Holders(g)
  BY DEF OpenRefused, Holders, InFlight, TypeOK
<1>2. TypeOK'
  BY CacheAssumption DEF OpenRefused, TypeOK, PCs
<1>3. RefsCounted'
  BY <1>1 DEF OpenRefused, RefsCounted
<1>4. CachedBuilt' /\ ExistingOld'
  BY DEF OpenRefused, CachedBuilt, ExistingOld, TypeOK, Built
<1>5. BuildPrivate'
  BY DEF OpenRefused, BuildPrivate, TypeOK, Early
<1>6. OpenWhileUsed'
  BY DEF OpenRefused, OpenWhileUsed, TypeOK, InFlight
<1> QED
  BY <1>2, <1>3, <1>4, <1>5, <1>6

\* FinishOpen preserves the invariant.
LEMMA FinishOpenIInv ==
  ASSUME IInv, NEW t \in Threads, FinishOpen(t)
  PROVE  IInv'
<1> USE DEF Goto, IInv, corpusVars, graphVars, cacheVars
<1>1. Holders(t) = {}
  BY HoldersFinite DEF FinishOpen, BuildPrivate, RefsCounted
<1>2. Holders(t)' = {t}
  BY <1>1 DEF FinishOpen, BuildPrivate, Holders, InFlight, TypeOK
<1>3. \A g \in Threads \ {t} : Holders(g)' = Holders(g)
  BY DEF FinishOpen, BuildPrivate, Holders, InFlight, TypeOK
<1>4. TypeOK'
  BY CacheAssumption DEF FinishOpen, TypeOK, PCs
<1>5. RefsCounted'
  BY <1>2, <1>3, FS_Singleton DEF FinishOpen, RefsCounted, TypeOK
<1>6. CachedBuilt' /\ ExistingOld'
  BY DEF FinishOpen, CachedBuilt, ExistingOld, TypeOK, Built
<1>7. BuildPrivate'
  BY DEF FinishOpen, BuildPrivate, TypeOK, Early
<1>8. OpenWhileUsed'
  BY DEF FinishOpen, OpenWhileUsed, BuildPrivate, TypeOK, InFlight
<1> QED
  BY <1>4, <1>5, <1>6, <1>7, <1>8

\* OpenFails preserves the invariant.
LEMMA OpenFailsIInv ==
  ASSUME IInv, NEW t \in Threads, OpenFails(t)
  PROVE  IInv'
<1> USE DEF Goto, IInv, corpusVars, graphVars, cacheVars
<1>1. \A g \in Threads : Holders(g)' = Holders(g)
  BY DEF OpenFails, Holders, InFlight, TypeOK
<1>2. Holders(t) = {}
  BY HoldersFinite DEF OpenFails, BuildPrivate, RefsCounted
<1>3. TypeOK'
  BY CacheAssumption DEF OpenFails, TypeOK, PCs, BuildPrivate
<1>4. RefsCounted'
  BY <1>1 DEF OpenFails, RefsCounted
<1>5. CachedBuilt' /\ ExistingOld'
  BY DEF OpenFails, CachedBuilt, ExistingOld, TypeOK, Built
<1>6. BuildPrivate'
  BY DEF OpenFails, BuildPrivate, TypeOK, Early
<1>7. OpenWhileUsed'
  <2>1. \A k \in Keys : cached[k] # t
    BY CacheAssumption DEF CachedBuilt, OpenFails, Built
  <2>2. \A u \in Threads \ {t} : pc[u] \in {"opening"} \cup InFlight => entry[u] # t
    BY <1>2 DEF BuildPrivate, Holders, InFlight
  <2> QED
    BY <2>1, <2>2 DEF OpenFails, OpenWhileUsed, BuildPrivate, TypeOK, InFlight
<1> QED
  BY <1>3, <1>4, <1>5, <1>6, <1>7

\* Insert preserves the invariant.
LEMMA InsertIInv ==
  ASSUME IInv, NEW t \in Threads, Insert(t)
  PROVE  IInv'
<1> USE DEF Goto, IInv, corpusVars, graphVars, cacheVars
<1> DEFINE k0 == req[t]
           old == existing[t]
           c == [cached EXCEPT ![k0] = t]
           ord == MoveToEnd(k0, CachedKeys(c))
           gone == Victims(c, ord, refcount)
           also == {x \in {old} \ {NoThread} : refcount[x] = 0}
<1>1. pc[t] = "insert" /\ entry[t] = t /\ k0 \in Keys /\ t \in opened /\ t # NoThread
  BY CacheAssumption DEF Insert, BuildPrivate, TypeOK
<1>2. /\ cached' = [k \in Keys |-> IF k \in gone THEN NoThread ELSE c[k]]
      /\ older' = {p \in ord : gone \cap {p[1], p[2]} = {}}
      /\ closed' = closed \cup {c[k] : k \in gone} \cup also
  BY <1>1 DEF Insert, EvictExcess
<1>3. \A k \in gone : k \in Keys /\ c[k] # NoThread /\ refcount[c[k]] = 0
  BY DEF Victims, CachedKeys
<1>4. \A g \in Threads : Holders(g)' = Holders(g)
  BY DEF Insert, Holders, InFlight, TypeOK
<1>5. \A g \in Threads : refcount[g] = 0 => Holders(g) = {}
  BY HoldersFinite DEF RefsCounted
<1>6. t \in Holders(t) /\ refcount[t] # 0
  BY <1>1, <1>5 DEF Holders, InFlight
<1>7. old # NoThread => old \in opened /\ pc[old] \in Built /\ req[old] = k0 /\ old # t
  BY <1>1 DEF ExistingOld, TypeOK, Built
<1>8. \A k \in Keys : c[k] \in opened \cup {NoThread} /\ (k # k0 => c[k] = cached[k]) /\ c[k0] = t
  BY <1>1 DEF TypeOK
<1>9. ASSUME NEW g \in closed' \ closed
      PROVE  g \in opened /\ g # NoThread /\ refcount[g] = 0
  <2> HIDE DEF c, gone
  <2>1. CASE g \in {c[k] : k \in gone}
    BY <1>3, <1>8, <2>1
  <2>2. CASE g \in also
    BY <1>7, <2>2
  <2> QED
    BY <1>2, <2>1, <2>2
<1>10. TypeOK'
  <2>1. ord \in SUBSET (Keys \X Keys)
    BY <1>1 DEF MoveToEnd, CachedKeys, TypeOK
  <2>2. cached' \in [Keys -> opened \cup {NoThread}] /\ older' \in SUBSET (Keys \X Keys)
    BY <1>2, <1>8, <2>1
  <2>3. closed' \in SUBSET opened
    BY <1>9 DEF TypeOK
  <2> QED
    BY <1>1, <1>7, <2>2, <2>3 DEF Insert, TypeOK, PCs
<1>11. RefsCounted'
  BY <1>4 DEF Insert, RefsCounted
<1>12. CachedBuilt'
  <2> SUFFICES ASSUME NEW k \in Keys, cached'[k] # NoThread
               PROVE  req[cached'[k]] = k /\ pc'[cached'[k]] \in Built /\ cached'[k] \notin stale'
    BY DEF CachedBuilt, Insert
  <2>1. k \notin gone /\ cached'[k] = c[k]
    BY <1>2
  <2>2. CASE k = k0
    BY <1>1, <1>7, <1>8, <2>1, <2>2 DEF Insert, BuildPrivate, TypeOK, Built
  <2>3. CASE k # k0
    BY <1>1, <1>7, <1>8, <2>1, <2>3 DEF Insert, CachedBuilt, TypeOK, Built
  <2> QED
    BY <2>2, <2>3
<1>13. BuildPrivate'
  BY <1>1, <1>7 DEF Insert, BuildPrivate, TypeOK, Early, Built
<1>14. ExistingOld'
  BY DEF Insert, ExistingOld, TypeOK, Built
<1>15. OpenWhileUsed'
  <2>1. \A u \in Threads : pc'[u] \in InFlight => entry'[u] \in Threads
    BY DEF Insert, OpenWhileUsed, TypeOK, InFlight
  <2>2. ASSUME serving # "closed", NEW k \in Keys
        PROVE  cached'[k] \notin closed'
    <3>1. CASE cached'[k] = NoThread
      BY <1>9, <3>1, CacheAssumption DEF TypeOK
    <3>2. CASE cached'[k] # NoThread
      <4>1. k \notin gone /\ cached'[k] = c[k] /\ c[k] # NoThread
        BY <1>2, <3>2
      <4>2. c[k] \notin closed
        BY <1>1, <1>8, <2>2 DEF OpenWhileUsed, InFlight
      <4>3. \A j \in gone : c[j] # c[k]
        <5> SUFFICES ASSUME NEW j \in gone, c[j] = c[k] PROVE FALSE
          OBVIOUS
        <5>1. j # k /\ j \in Keys
          BY <1>3, <4>1
        <5> QED
          BY <1>1, <1>8, <4>1, <5>1 DEF CachedBuilt, Built
      <4>4. old # NoThread => c[k] # old
        BY <1>7, <1>8, <4>1 DEF CachedBuilt
      <4>5. c[k] \notin {c[j] : j \in gone} /\ c[k] \notin also
        BY <4>1, <4>3, <4>4
      <4> HIDE DEF c, gone, also
      <4> QED
        BY <1>2, <4>1, <4>2, <4>5
    <3> QED
      BY <3>1, <3>2
  <2>3. ASSUME serving # "closed", NEW u \in Threads, pc'[u] \in {"opening"} \cup InFlight
        PROVE  entry[u] \notin closed'
    <3>1. pc[u] \in {"opening"} \cup InFlight
      BY <2>3 DEF Insert, TypeOK, InFlight
    <3>2. entry[u] \notin closed
      BY <2>3, <3>1 DEF OpenWhileUsed
    <3>3. CASE pc[u] = "opening"
      <4>1. entry[u] = u
        BY <3>3 DEF BuildPrivate
      <4>2. \A j \in gone : c[j] # u
        BY <1>1, <1>3, <1>8, <3>3 DEF CachedBuilt, Built
      <4>3. u # old
        BY <1>7, <3>3, CacheAssumption DEF Built
      <4> QED
        BY <1>2, <3>2, <4>1, <4>2, <4>3
    <3>4. CASE pc[u] \in InFlight
      <4>1. entry[u] \in Threads /\ u \in Holders(entry[u])
        BY <3>4 DEF OpenWhileUsed, Holders
      <4> QED
        BY <1>5, <1>9, <3>2, <4>1
    <3> QED
      BY <3>1, <3>3, <3>4
  <2> QED
    BY <2>1, <2>2, <2>3 DEF Insert, OpenWhileUsed
<1> QED
  BY <1>10, <1>11, <1>12, <1>13, <1>14, <1>15

\* OpenCursor preserves the invariant.
LEMMA OpenCursorIInv ==
  ASSUME IInv, NEW t \in Threads, OpenCursor(t)
  PROVE  IInv'
<1> USE DEF Goto, IInv, corpusVars, graphVars, cacheVars
<1>1. \A g \in Threads : Holders(g)' = Holders(g)
  BY DEF OpenCursor, Holders, InFlight, TypeOK
<1>2. TypeOK'
  BY DEF OpenCursor, TypeOK, PCs
<1>3. RefsCounted'
  BY <1>1 DEF OpenCursor, RefsCounted
<1>4. CachedBuilt' /\ ExistingOld'
  BY DEF OpenCursor, CachedBuilt, ExistingOld, TypeOK, Built
<1>5. BuildPrivate'
  BY DEF OpenCursor, BuildPrivate, TypeOK, Early
<1>6. OpenWhileUsed'
  BY DEF OpenCursor, OpenWhileUsed, TypeOK, InFlight
<1> QED
  BY <1>2, <1>3, <1>4, <1>5, <1>6

\* Release preserves the invariant.
LEMMA ReleaseIInv ==
  ASSUME IInv, NEW t \in Threads, Release(t)
  PROVE  IInv'
<1> USE DEF Goto, IInv, corpusVars, graphVars, cacheVars
<1> PICK h : h = entry[t]
  OBVIOUS
<1> DEFINE refs == [refcount EXCEPT ![h] = @ - 1]
           gone == Victims(cached, older, refs)
<1>1. pc[t] \in {"cursor", "using"} /\ h \in Threads
  BY DEF Release, OpenWhileUsed, InFlight
<1>2. t \in Holders(h) /\ Holders(h)' = Holders(h) \ {t}
  BY <1>1, CacheAssumption DEF Release, Holders, InFlight, TypeOK
<1>3. \A g \in Threads \ {h} : Holders(g)' = Holders(g)
  BY <1>1, CacheAssumption DEF Release, Holders, InFlight, TypeOK
<1>4. refcount[h] > 0 /\ Cardinality(Holders(h)') = refcount[h] - 1
  BY <1>1, <1>2, HolderRemoved DEF RefsCounted
<1>5. refcount' = refs /\ refs \in [Threads -> Nat]
  BY <1>1, <1>4 DEF Release, TypeOK
<1>6. RefsCounted'
  BY <1>1, <1>3, <1>4, <1>5 DEF RefsCounted, TypeOK
<1>7. \A g \in Threads : refs[g] = 0 => Holders(g)' = {}
  <2> SUFFICES ASSUME NEW g \in Threads, refs[g] = 0 PROVE Holders(g)' = {}
    OBVIOUS
  <2>1. Cardinality(Holders(g)') = 0
    BY <1>5, <1>6 DEF RefsCounted
  <2>2. IsFiniteSet(Holders(g)')
    BY <1>2, <1>3, HoldersFinite, FS_Subset
  <2> QED
    BY <2>1, <2>2, FS_EmptySet
<1>8. \A k \in gone : k \in Keys /\ cached[k] # NoThread /\ refs[cached[k]] = 0
  BY DEF Victims, CachedKeys
<1>9. /\ \A k \in Keys : cached'[k] # NoThread => cached'[k] = cached[k]
      /\ \A k \in Keys : cached[k] \in closed' \ closed => cached'[k] = NoThread
      /\ \A g \in closed' \ closed : g \in opened /\ refs[g] = 0
      /\ \A g \in closed' \ closed : g = h \/ \E k \in Keys : g = cached[k]
      /\ cached' \in [Keys -> opened \cup {NoThread}]
      /\ older' \in SUBSET (Keys \X Keys)
  <2>1. CASE refs[h] = 0 /\ h \notin stale /\ EvictExcess(cached, older, refs, {})
    <3>1. \A j \in gone, k \in Keys : cached[j] = cached[k] => j = k
      BY <1>8 DEF CachedBuilt
    <3>2. /\ cached' = [k \in Keys |-> IF k \in gone THEN NoThread ELSE cached[k]]
          /\ older' \subseteq older
          /\ closed' = closed \cup {cached[k] : k \in gone}
      BY <2>1 DEF EvictExcess
    <3> HIDE DEF gone, refs
    <3>3. \A g \in closed' \ closed : \E j \in gone : g = cached[j]
      BY <3>2
    <3>4. \A k \in Keys : cached[k] \in closed' \ closed => cached'[k] = NoThread
      BY <3>1, <3>2, <3>3
    <3>5. \A g \in closed' \ closed : g \in opened /\ refs[g] = 0
      BY <1>8, <3>3 DEF TypeOK
    <3>6. cached' \in [Keys -> opened \cup {NoThread}]
      BY <3>2 DEF TypeOK
    <3>7. older' \in SUBSET (Keys \X Keys)
      BY <3>2 DEF TypeOK
    <3>8. \A g \in closed' \ closed : \E k \in Keys : g = cached[k]
      BY <1>8, <3>3
    <3> QED
      BY <3>2, <3>4, <3>5, <3>6, <3>7, <3>8
  <2>2. CASE refs[h] = 0 /\ h \in stale /\ closed' = closed \cup {h} /\ UNCHANGED <<cached, older>>
    <3>1. \A k \in Keys : cached[k] # h
      BY <1>1, <2>2, CacheAssumption DEF CachedBuilt
    <3> QED
      BY <1>1, <2>2, <3>1, CacheAssumption DEF TypeOK
  <2>3. CASE UNCHANGED <<cached, older, closed>>
    BY <2>3 DEF TypeOK
  <2> QED
    BY <2>1, <2>2, <2>3 DEF Release
<1>10. closed \subseteq closed'
  BY DEF Release, EvictExcess
<1>11. TypeOK'
  <2>1. closed' \in SUBSET opened
    BY <1>9 DEF TypeOK
  <2> QED
    BY <1>5, <1>9, <2>1 DEF Release, TypeOK, PCs
<1>12. CachedBuilt'
  BY <1>1, <1>9 DEF Release, CachedBuilt, TypeOK, Built
<1>13. BuildPrivate'
  BY <1>1, <1>4, <1>5 DEF Release, BuildPrivate, TypeOK, Early
<1>14. ExistingOld'
  BY <1>1 DEF Release, ExistingOld, TypeOK, Built
<1>15. OpenWhileUsed'
  <2>1. ASSUME NEW u \in Threads, pc'[u] \in {"opening"} \cup InFlight
        PROVE  u # t /\ entry'[u] = entry[u] /\ pc'[u] = pc[u]
    BY <1>1, <2>1 DEF Release, TypeOK, InFlight
  <2>2. ASSUME serving # "closed", NEW u \in Threads, pc'[u] \in {"opening"} \cup InFlight
        PROVE  entry'[u] \notin closed'
    <3>1. entry[u] \notin closed /\ u # t /\ pc'[u] = pc[u] /\ entry'[u] = entry[u]
      BY <2>1, <2>2 DEF OpenWhileUsed
    <3>2. CASE pc[u] = "opening"
      <4>1. entry[u] = u /\ refcount[u] = 0 /\ u # h
        BY <1>4, <3>2 DEF BuildPrivate
      <4>2. \A k \in Keys : cached[k] # u
        BY <3>2, CacheAssumption DEF CachedBuilt, Built
      <4> QED
        BY <1>9, <3>1, <4>1, <4>2
    <3>3. CASE pc[u] \in InFlight
      BY <1>7, <1>9, <2>1, <2>2, <3>1, <3>3 DEF OpenWhileUsed, Holders
    <3> QED
      BY <2>2, <3>1, <3>2, <3>3
  <2>3. ASSUME serving # "closed", NEW k \in Keys
        PROVE  cached'[k] \notin closed'
    BY <1>9, <1>11, <2>3, CacheAssumption DEF OpenWhileUsed, TypeOK
  <2>4. \A u \in Threads : pc'[u] \in InFlight => entry'[u] \in Threads
    BY <2>1 DEF OpenWhileUsed, Release, InFlight, TypeOK
  <2> QED
    BY <2>2, <2>3, <2>4 DEF Release, OpenWhileUsed
<1> QED
  BY <1>6, <1>11, <1>12, <1>13, <1>14, <1>15

-----------------------------------------------------------------------------
(* The corpora, the shutdown, and the theorems. *)

\* Rebuilding a corpus, stopping the server and close_all preserve the invariant.
LEMMA EnvironmentIInv ==
  ASSUME IInv, Rebuild \/ ServerClose \/ CloseAll
  PROVE  IInv'
<1> USE DEF IInv, graphVars, cacheVars, threadVars
<1>1. CASE Rebuild
  <2>1. /\ UNCHANGED <<serving, graphVars, cacheVars, threadVars, buildLock>>
        /\ manifest' \in [Roots -> Contents \cup {Missing}]
        /\ tables' \in [Roots -> Contents \cup {Missing}]
        /\ rebuilds' \in [Roots -> 0..MaxRebuilds] /\ overtaken' \in SUBSET Threads
    <3>1. PICK r \in Roots :
            UnlinkManifest(r) \/ UnlinkTables(r) \/ \E c \in Contents : PutInPlace(r, c)
      BY <1>1 DEF Rebuild
    <3>2. CASE UnlinkManifest(r) \/ UnlinkTables(r)
      BY <3>2 DEF UnlinkManifest, UnlinkTables, Reading, TypeOK
    <3>3. CASE \E c \in Contents : PutInPlace(r, c)
      <4>1. PICK c \in Contents : PutInPlace(r, c)
        BY <3>3
      <4>2. rebuilds' \in [Roots -> 0..MaxRebuilds]
        BY <4>1, CacheAssumption DEF PutInPlace, TypeOK
      <4>3. UNCHANGED <<serving, graphVars, cacheVars, threadVars, buildLock>>
        BY <4>1 DEF PutInPlace
      <4> QED
        BY <4>1, <4>2, <4>3 DEF PutInPlace, Reading, TypeOK
    <3> QED
      BY <3>1, <3>2, <3>3
  <2>2. TypeOK'
    BY <2>1 DEF TypeOK
  <2>3. \A g \in Threads : Holders(g)' = Holders(g)
    BY <2>1 DEF Holders
  <2> QED
    BY <2>1, <2>2, <2>3
    DEF RefsCounted, CachedBuilt, BuildPrivate, ExistingOld, OpenWhileUsed
<1>2. ASSUME ServerClose \/ CloseAll, NEW g \in Threads PROVE Holders(g)' = Holders(g)
  BY <1>2 DEF ServerClose, CloseAll, Holders
<1>3. CASE ServerClose
  <2>1. TypeOK'
    BY <1>3 DEF ServerClose, TypeOK
  <2> QED
    BY <1>2, <1>3, <2>1
    DEF ServerClose, RefsCounted, CachedBuilt, BuildPrivate, ExistingOld, OpenWhileUsed
<1>4. CASE CloseAll
  <2>1. TypeOK'
    BY <1>4 DEF CloseAll, TypeOK, CachedKeys
  <2> QED
    BY <1>2, <1>4, <2>1
    DEF CloseAll, RefsCounted, CachedBuilt, BuildPrivate, ExistingOld, OpenWhileUsed
<1> QED
  BY <1>1, <1>3, <1>4

\* Stuttering preserves the invariant.
LEMMA StutterIInv == ASSUME IInv, UNCHANGED vars PROVE IInv'
<1> USE DEF IInv, vars, corpusVars, graphVars, cacheVars, threadVars
<1>1. \A g \in Threads : Holders(g)' = Holders(g)
  BY DEF Holders
<1>2. TypeOK'
  BY DEF TypeOK
<1> QED
  BY <1>1, <1>2 DEF RefsCounted, CachedBuilt, BuildPrivate, ExistingOld, OpenWhileUsed

\* The invariant is inductive: no step of a request, of a rebuild or of the
\* shutdown leaves it.
THEOREM NextIInv == IInv /\ [Next]_vars => IInv'
<1> SUFFICES ASSUME IInv, [Next]_vars PROVE IInv'
  OBVIOUS
<1>1. CASE UNCHANGED vars
  BY <1>1, StutterIInv
<1>2. ASSUME NEW t \in Threads, Step(t) PROVE IInv'
  BY <1>2, AcquireIInv, IdentityFailsIInv, ReuseIInv, MissIInv, OpenGraphIInv,
     OpenRefusedIInv, FinishOpenIInv, OpenFailsIInv,
     InsertIInv, OpenCursorIInv, ReleaseIInv DEF Step
<1>3. ASSUME NEW t \in Threads, NEW k \in Keys, Request(t, k) PROVE IInv'
  BY <1>3, RequestIInv
<1>4. CASE Rebuild \/ ServerClose \/ CloseAll
  BY <1>4, EnvironmentIInv
<1> QED
  BY <1>1, <1>2, <1>3, <1>4 DEF Next

\* Hence it holds in every reachable state.
THEOREM Invariance == Spec => []IInv
BY InitIInv, NextIInv, PTL DEF Spec

\* The variables of the cache stay in their types, whatever the requests do;
\* in particular no reference count falls below zero.
THEOREM TypeCorrect == Spec => []TypeOK
<1>1. IInv => TypeOK
  BY DEF IInv
<1> QED
  BY <1>1, Invariance, PTL

\* No graph is closed under a checkout that holds it, for any number of
\* concurrent requests, keys and cache sizes, until the server shuts down.
THEOREM CheckoutsSafe == Spec => []NoUseAfterClose
<1>1. IInv => NoUseAfterClose
  BY DEF IInv, OpenWhileUsed, NoUseAfterClose
<1> QED
  BY <1>1, Invariance, PTL

-----------------------------------------------------------------------------
(***************************************************************************)
(* What the build lock is for: which graphs of one key are open, and what  *)
(* they hold.                                                              *)
(***************************************************************************)

Building == {"decide", "open", "opening", "insert"}

\* A builder holds its key's lock, and what it found is still cached or evicted.
Exclusive ==
  \A t \in Threads :
    /\ pc[t] \in Building => buildLock[req[t]] = t
    /\ pc[t] \in {"open", "opening", "insert"} => cached[req[t]] \in {existing[t], NoThread}

\* An open graph that was inserted is cached, or was replaced while it was held.
Reachable ==
  serving # "closed" =>
    /\ \A g \in opened \ closed : pc[g] \in Built => g \in stale \/ cached[req[g]] = g
    /\ \A g \in stale \ closed : refcount[g] # 0

\* What a miss found in the cache has another identity than the one it read.
Differs == \A t \in Threads : existing[t] # NoThread => ident[existing[t]] # ident[t]

\* A request that met no rebuild finds its corpus as its identity says, a graph
\* whose build met none holds just that, and a hit is on the identity read.
Clean ==
  /\ \A r \in Roots : UnderRebuild(r) \/ manifest[r] = tables[r]
  /\ \A t \in Threads \ overtaken : pc[t] \in {"decide", "open", "opening"} =>
       manifest[RootOf[req[t]]] = ident[t] /\ tables[RootOf[req[t]]] = ident[t]
  /\ \A g \in opened \ overtaken : content[g] = {ident[g]}
  /\ \A t \in Hits :
       entry[t] \in opened /\ pc[entry[t]] \in Built /\ ident[entry[t]] = ident[t]

\* The second inductive invariant.
LockInv == Exclusive /\ Reachable /\ Differs /\ Clean

\* Request preserves the second invariant.
LEMMA RequestLock ==
  ASSUME IInv, LockInv, NEW t \in Threads, NEW k \in Keys, Request(t, k)
  PROVE  LockInv'
<1> USE DEF Goto, IInv, LockInv, corpusVars, graphVars, cacheVars
<1>1. Exclusive'
  BY CacheAssumption DEF Request, Exclusive, Building, ExistingOld, TypeOK
<1>2. Reachable'
  BY CacheAssumption
  DEF Request, Reachable, BuildPrivate, CachedBuilt, TypeOK, Early, Built
<1>3. Differs'
  BY CacheAssumption
  DEF Request, Differs, ExistingOld, BuildPrivate, CachedBuilt, TypeOK, Early, Built
<1>4. Clean'
  BY CacheAssumption
  DEF Request, Clean, Hits, UnderRebuild, BuildPrivate, CachedBuilt, TypeOK, Early, Built
<1> QED
  BY <1>1, <1>2, <1>3, <1>4

\* Acquire preserves the second invariant.
LEMMA AcquireLock ==
  ASSUME IInv, LockInv, NEW t \in Threads, Acquire(t)
  PROVE  LockInv'
<1> USE DEF Goto, IInv, LockInv, corpusVars, graphVars, cacheVars
<1>1. Exclusive'
  BY CacheAssumption DEF Acquire, Exclusive, Building, ExistingOld, TypeOK
<1>2. Reachable'
  BY CacheAssumption
  DEF Acquire, Reachable, BuildPrivate, CachedBuilt, TypeOK, Early, Built
<1>3. Differs'
  BY CacheAssumption
  DEF Acquire, Differs, ExistingOld, BuildPrivate, CachedBuilt, TypeOK, Early, Built
<1>4. Clean'
  <2>1. /\ UNCHANGED <<manifest, tables, opened, content, entry, req>>
        /\ \A u \in Threads \ {t} : ident'[u] = ident[u] /\ pc'[u] = pc[u]
        /\ pc[t] = "lock" /\ pc'[t] = "decide" /\ ident'[t] = manifest[RootOf[req[t]]]
        /\ overtaken \subseteq overtaken' /\ overtaken' \subseteq overtaken \cup {t}
        /\ UnderRebuild(RootOf[req[t]]) => t \in overtaken'
    BY DEF Acquire, TypeOK
  <2>2. t \notin opened /\ \A u \in Hits' : u \in Hits /\ u # t /\ entry[u] # t
    BY <2>1 DEF BuildPrivate, Early, Hits, Clean, Built
  <2>3. RootOf[req[t]] \in Roots
    BY CacheAssumption DEF TypeOK
  <2>4. \A g \in opened : g \in Threads
    BY DEF TypeOK
  <2>5. \A u \in Hits : entry[u] \in Threads
    BY <2>4 DEF Clean
  <2>6. \A u \in Hits' : /\ entry'[u] \in opened' /\ pc'[entry'[u]] \in Built
                         /\ ident'[entry'[u]] = ident'[u]
    BY <2>1, <2>2, <2>5 DEF Clean, Hits
  <2>7. \A u \in Threads \ overtaken' : pc'[u] \in {"decide", "open", "opening"} =>
          /\ manifest'[RootOf[req'[u]]] = ident'[u] /\ tables'[RootOf[req'[u]]] = ident'[u]
    BY <2>1, <2>3 DEF Clean
  <2> QED
    BY <2>1, <2>2, <2>4, <2>6, <2>7 DEF Clean, UnderRebuild
<1> QED
  BY <1>1, <1>2, <1>3, <1>4

\* IdentityFails preserves the second invariant.
LEMMA IdentityFailsLock ==
  ASSUME IInv, LockInv, NEW t \in Threads, IdentityFails(t)
  PROVE  LockInv'
<1> USE DEF Goto, IInv, LockInv, corpusVars, graphVars, cacheVars
<1>1. Exclusive'
  BY CacheAssumption DEF IdentityFails, Exclusive, Building, ExistingOld, TypeOK
<1>2. Reachable'
  BY CacheAssumption
  DEF IdentityFails, Reachable, BuildPrivate, CachedBuilt, TypeOK, Early, Built
<1>3. Differs'
  BY CacheAssumption
  DEF IdentityFails, Differs, ExistingOld, BuildPrivate, CachedBuilt, TypeOK, Early, Built
<1>4. Clean'
  BY CacheAssumption
  DEF IdentityFails, Clean, Hits, UnderRebuild, BuildPrivate, CachedBuilt, TypeOK, Early, Built
<1> QED
  BY <1>1, <1>2, <1>3, <1>4

\* Reuse preserves the second invariant.
LEMMA ReuseLock ==
  ASSUME IInv, LockInv, NEW t \in Threads, Reuse(t)
  PROVE  LockInv'
<1> USE DEF Goto, IInv, LockInv, corpusVars, graphVars, cacheVars
<1>1. Exclusive'
  BY CacheAssumption DEF Reuse, Exclusive, Building, ExistingOld, TypeOK
<1>2. Reachable'
  BY CacheAssumption
  DEF Reuse, Reachable, BuildPrivate, CachedBuilt, TypeOK, Early, Built
<1>3. Differs'
  BY CacheAssumption
  DEF Reuse, Differs, ExistingOld, BuildPrivate, CachedBuilt, TypeOK, Early, Built
<1>4. Clean'
  BY CacheAssumption
  DEF Reuse, Clean, Hits, UnderRebuild, BuildPrivate, CachedBuilt, TypeOK, Early, Built
<1> QED
  BY <1>1, <1>2, <1>3, <1>4

\* Miss preserves the second invariant.
LEMMA MissLock ==
  ASSUME IInv, LockInv, NEW t \in Threads, Miss(t)
  PROVE  LockInv'
<1> USE DEF Goto, IInv, LockInv, corpusVars, graphVars, cacheVars
<1>1. Exclusive'
  BY CacheAssumption DEF Miss, Exclusive, Building, ExistingOld, TypeOK
<1>2. Reachable'
  BY CacheAssumption
  DEF Miss, Reachable, BuildPrivate, CachedBuilt, TypeOK, Early, Built
<1>3. Differs'
  BY CacheAssumption
  DEF Miss, Differs, ExistingOld, BuildPrivate, CachedBuilt, TypeOK, Early, Built
<1>4. Clean'
  BY CacheAssumption
  DEF Miss, Clean, Hits, UnderRebuild, BuildPrivate, CachedBuilt, TypeOK, Early, Built
<1> QED
  BY <1>1, <1>2, <1>3, <1>4

\* OpenGraph preserves the second invariant.
LEMMA OpenGraphLock ==
  ASSUME IInv, LockInv, NEW t \in Threads, OpenGraph(t)
  PROVE  LockInv'
<1> USE DEF Goto, IInv, LockInv, corpusVars, graphVars, cacheVars
<1>1. Exclusive'
  BY CacheAssumption DEF OpenGraph, Exclusive, Building, ExistingOld, TypeOK
<1>2. Reachable'
  BY CacheAssumption
  DEF OpenGraph, Reachable, BuildPrivate, CachedBuilt, TypeOK, Early, Built
<1>3. Differs'
  BY CacheAssumption
  DEF OpenGraph, Differs, ExistingOld, BuildPrivate, CachedBuilt, TypeOK, Early, Built
<1>4. Clean'
  BY CacheAssumption
  DEF OpenGraph, Clean, Hits, UnderRebuild, BuildPrivate, CachedBuilt, TypeOK, Early, Built
<1> QED
  BY <1>1, <1>2, <1>3, <1>4

\* OpenRefused preserves the second invariant.
LEMMA OpenRefusedLock ==
  ASSUME IInv, LockInv, NEW t \in Threads, OpenRefused(t)
  PROVE  LockInv'
<1> USE DEF Goto, IInv, LockInv, corpusVars, graphVars, cacheVars
<1>1. Exclusive'
  BY CacheAssumption DEF OpenRefused, Exclusive, Building, ExistingOld, TypeOK
<1>2. Reachable'
  BY CacheAssumption
  DEF OpenRefused, Reachable, BuildPrivate, CachedBuilt, TypeOK, Early, Built
<1>3. Differs'
  BY CacheAssumption
  DEF OpenRefused, Differs, ExistingOld, BuildPrivate, CachedBuilt, TypeOK, Early, Built
<1>4. Clean'
  BY CacheAssumption
  DEF OpenRefused, Clean, Hits, UnderRebuild, BuildPrivate, CachedBuilt, TypeOK, Early, Built
<1> QED
  BY <1>1, <1>2, <1>3, <1>4

\* FinishOpen preserves the second invariant.
LEMMA FinishOpenLock ==
  ASSUME IInv, LockInv, NEW t \in Threads, FinishOpen(t)
  PROVE  LockInv'
<1> USE DEF Goto, IInv, LockInv, corpusVars, graphVars, cacheVars
<1>1. Exclusive'
  BY CacheAssumption DEF FinishOpen, Exclusive, Building, ExistingOld, TypeOK
<1>2. Reachable'
  BY CacheAssumption
  DEF FinishOpen, Reachable, BuildPrivate, CachedBuilt, TypeOK, Early, Built
<1>3. Differs'
  BY CacheAssumption
  DEF FinishOpen, Differs, ExistingOld, BuildPrivate, CachedBuilt, TypeOK, Early, Built
<1>4. Clean'
  BY CacheAssumption
  DEF FinishOpen, Clean, Hits, UnderRebuild, BuildPrivate, CachedBuilt, TypeOK, Early, Built
<1> QED
  BY <1>1, <1>2, <1>3, <1>4

\* OpenFails preserves the second invariant.
LEMMA OpenFailsLock ==
  ASSUME IInv, LockInv, NEW t \in Threads, OpenFails(t)
  PROVE  LockInv'
<1> USE DEF Goto, IInv, LockInv, corpusVars, graphVars, cacheVars
<1>1. Exclusive'
  BY CacheAssumption DEF OpenFails, Exclusive, Building, ExistingOld, TypeOK
<1>2. Reachable'
  BY CacheAssumption
  DEF OpenFails, Reachable, BuildPrivate, CachedBuilt, TypeOK, Early, Built
<1>3. Differs'
  BY CacheAssumption
  DEF OpenFails, Differs, ExistingOld, BuildPrivate, CachedBuilt, TypeOK, Early, Built
<1>4. Clean'
  BY CacheAssumption
  DEF OpenFails, Clean, Hits, UnderRebuild, BuildPrivate, CachedBuilt, TypeOK, Early, Built
<1> QED
  BY <1>1, <1>2, <1>3, <1>4

\* OpenCursor preserves the second invariant.
LEMMA OpenCursorLock ==
  ASSUME IInv, LockInv, NEW t \in Threads, OpenCursor(t)
  PROVE  LockInv'
<1> USE DEF Goto, IInv, LockInv, corpusVars, graphVars, cacheVars
<1>1. Exclusive'
  BY CacheAssumption DEF OpenCursor, Exclusive, Building, ExistingOld, TypeOK
<1>2. Reachable'
  BY CacheAssumption
  DEF OpenCursor, Reachable, BuildPrivate, CachedBuilt, TypeOK, Early, Built
<1>3. Differs'
  BY CacheAssumption
  DEF OpenCursor, Differs, ExistingOld, BuildPrivate, CachedBuilt, TypeOK, Early, Built
<1>4. Clean'
  BY CacheAssumption
  DEF OpenCursor, Clean, Hits, UnderRebuild, BuildPrivate, CachedBuilt, TypeOK, Early, Built
<1> QED
  BY <1>1, <1>2, <1>3, <1>4

\* What Insert does to the cache: the new graph is in, and what went is closed.
LEMMA InsertEffect ==
  ASSUME IInv, NEW t \in Threads, Insert(t)
  PROVE  /\ pc[t] = "insert" /\ entry[t] = t /\ t \in opened /\ t \notin stale
         /\ cached'[req[t]] = t
         /\ \A k \in Keys \ {req[t]} :
              cached'[k] = cached[k] \/ (cached'[k] = NoThread /\ cached[k] \in closed')
         /\ closed \subseteq closed' /\ stale' = stale \cup ({existing[t]} \ {NoThread})
         /\ existing[t] # NoThread =>
              /\ existing[t] \in opened /\ pc[existing[t]] \in Built
              /\ req[existing[t]] = req[t]
              /\ refcount[existing[t]] # 0 \/ existing[t] \in closed'
<1> USE DEF IInv
<1> DEFINE c == [cached EXCEPT ![req[t]] = t]
           ord == MoveToEnd(req[t], CachedKeys(c))
           gone == Victims(c, ord, refcount)
<1>1. pc[t] = "insert" /\ entry[t] = t /\ t \in opened /\ t \notin stale /\ req[t] \in Keys
  BY CacheAssumption DEF Insert, Goto, BuildPrivate, TypeOK
<1>2. refcount[t] # 0
  BY <1>1, HoldersFinite DEF RefsCounted, Holders, InFlight
<1>3. /\ cached' = [k \in Keys |-> IF k \in gone THEN NoThread ELSE c[k]]
      /\ closed' = closed \cup {c[k] : k \in gone}
                          \cup {x \in {existing[t]} \ {NoThread} : refcount[x] = 0}
      /\ stale' = stale \cup ({existing[t]} \ {NoThread})
  BY <1>1 DEF Insert, EvictExcess
<1>4. \A k \in gone : refcount[c[k]] = 0
  BY DEF Victims, CachedKeys
<1>5. c[req[t]] = t /\ \A k \in Keys \ {req[t]} : c[k] = cached[k]
  BY <1>1 DEF TypeOK
<1>6. req[t] \notin gone
  BY <1>2, <1>4, <1>5
<1>7. existing[t] # NoThread =>
        /\ existing[t] \in opened /\ pc[existing[t]] \in Built /\ req[existing[t]] = req[t]
        /\ refcount[existing[t]] # 0 \/ existing[t] \in closed'
  BY <1>3 DEF ExistingOld, TypeOK
<1> HIDE DEF c, ord, gone
<1>8. cached'[req[t]] = t /\ closed \subseteq closed'
  BY <1>1, <1>3, <1>5, <1>6
<1>9. ASSUME NEW k \in Keys \ {req[t]}
      PROVE  cached'[k] = cached[k] \/ (cached'[k] = NoThread /\ cached[k] \in closed')
  BY <1>3, <1>5
<1> QED
  BY <1>1, <1>3, <1>7, <1>8, <1>9

\* What Release does to the cache: the reference is dropped and what went is closed.
LEMMA ReleaseEffect ==
  ASSUME IInv, NEW t \in Threads, Release(t)
  PROVE  /\ pc[t] \in {"cursor", "using"} /\ entry[t] \in Threads
         /\ refcount' = [refcount EXCEPT ![entry[t]] = @ - 1]
         /\ \A k \in Keys :
              cached'[k] = cached[k] \/ (cached'[k] = NoThread /\ cached[k] \in closed')
         /\ closed \subseteq closed'
         /\ entry[t] \in stale => refcount'[entry[t]] # 0 \/ entry[t] \in closed'
<1> USE DEF IInv
<1>1. /\ pc[t] \in {"cursor", "using"} /\ entry[t] \in Threads
      /\ refcount' = [refcount EXCEPT ![entry[t]] = @ - 1]
  BY DEF Release, OpenWhileUsed, InFlight
<1> DEFINE gone == Victims(cached, older, refcount')
<1>2. CASE EvictExcess(cached, older, refcount', {}) /\ entry[t] \notin stale
  <2>1. /\ cached' = [k \in Keys |-> IF k \in gone THEN NoThread ELSE cached[k]]
        /\ closed' = closed \cup {cached[k] : k \in gone}
    BY <1>2 DEF EvictExcess
  <2> HIDE DEF gone
  <2> QED
    BY <1>1, <1>2, <2>1
<1>3. CASE entry[t] \in stale /\ closed' = closed \cup {entry[t]} /\ UNCHANGED cached
  BY <1>1, <1>3
<1>4. CASE refcount'[entry[t]] # 0 /\ UNCHANGED <<cached, closed>>
  BY <1>1, <1>4
<1> QED
  BY <1>1, <1>2, <1>3, <1>4 DEF Release

\* Insert preserves it, too: the graph that is replaced is marked and the new one cached.
LEMMA InsertLock ==
  ASSUME IInv, LockInv, NEW t \in Threads, Insert(t)
  PROVE  LockInv'
<1> USE DEF IInv, LockInv
<1> DEFINE old == existing[t]
<1>1. /\ pc[t] = "insert" /\ entry[t] = t /\ t \in opened /\ t \notin stale
      /\ cached'[req[t]] = t
      /\ \A k \in Keys \ {req[t]} :
           cached'[k] = cached[k] \/ (cached'[k] = NoThread /\ cached[k] \in closed')
      /\ closed \subseteq closed' /\ stale' = stale \cup ({old} \ {NoThread})
      /\ old # NoThread =>
           /\ old \in opened /\ pc[old] \in Built /\ req[old] = req[t]
           /\ refcount[old] # 0 \/ old \in closed'
  BY InsertEffect
<1>2. /\ pc'[t] = "cursor" /\ existing'[t] = NoThread
      /\ buildLock' = [buildLock EXCEPT ![req[t]] = NoThread]
      /\ \A u \in Threads \ {t} : pc'[u] = pc[u] /\ existing'[u] = existing[u]
      /\ UNCHANGED <<corpusVars, graphVars, refcount, req, ident, entry>>
  BY DEF Insert, Goto, TypeOK
<1>3. /\ \A u \in Threads \ {t} : pc[u] \in Building => req[u] # req[t]
      /\ \A u \in Threads : req[u] \in Keys
      /\ cached[req[t]] \in {old, NoThread}
  BY <1>1, CacheAssumption DEF Exclusive, Building, TypeOK
<1>4. Exclusive'
  BY <1>1, <1>2, <1>3 DEF Exclusive, Building, TypeOK
<1>5. Reachable'
  <2> SUFFICES ASSUME serving # "closed"
               PROVE  /\ \A g \in opened \ closed' : pc'[g] \in Built =>
                           g \in stale' \/ cached'[req[g]] = g
                      /\ \A g \in stale' \ closed' : refcount[g] # 0
    BY <1>2 DEF Reachable, corpusVars, graphVars
  <2>1. ASSUME NEW g \in opened \ closed', pc'[g] \in Built
        PROVE  g \in stale' \/ cached'[req[g]] = g
    <3>1. CASE g = t
      BY <1>1, <3>1
    <3>2. CASE g # t
      <4>1. g \in stale \/ cached[req[g]] = g
        BY <1>1, <1>2, <2>1, <3>2 DEF Reachable, TypeOK
      <4> QED
        BY <1>1, <1>3, <2>1, <4>1, CacheAssumption DEF TypeOK
    <3> QED
      BY <3>1, <3>2
  <2>2. \A g \in stale' \ closed' : refcount[g] # 0
    BY <1>1 DEF Reachable
  <2> QED
    BY <2>1, <2>2
<1>6. Differs'
  BY <1>2 DEF Differs
<1>7. Clean'
  <2>1. \A u \in Threads : pc'[u] \in {"decide", "open", "opening"} => pc[u] = pc'[u]
    BY <1>2
  <2>2. Hits' = Hits
    BY <1>1, <1>2 DEF Hits
  <2>3. \A u \in Threads : pc[u] \in Built => pc'[u] \in Built
    BY <1>2 DEF Built
  <2> QED
    BY <1>2, <2>1, <2>2, <2>3 DEF Clean, UnderRebuild, corpusVars, graphVars, Hits, TypeOK
<1> QED
  BY <1>4, <1>5, <1>6, <1>7

\* Release preserves it, too: a graph that leaves the cache, or that was replaced and
\* is let go, is closed.
LEMMA ReleaseLock ==
  ASSUME IInv, LockInv, NEW t \in Threads, Release(t)
  PROVE  LockInv'
<1> USE DEF IInv, LockInv
<1>1. /\ pc[t] \in {"cursor", "using"} /\ entry[t] \in Threads
      /\ refcount' = [refcount EXCEPT ![entry[t]] = @ - 1]
      /\ \A k \in Keys :
           cached'[k] = cached[k] \/ (cached'[k] = NoThread /\ cached[k] \in closed')
      /\ closed \subseteq closed'
      /\ entry[t] \in stale => refcount'[entry[t]] # 0 \/ entry[t] \in closed'
  BY ReleaseEffect
<1>2. /\ pc'[t] = "done" /\ \A u \in Threads \ {t} : pc'[u] = pc[u] /\ entry'[u] = entry[u]
      /\ UNCHANGED <<corpusVars, graphVars, stale, buildLock, req, ident, existing>>
  BY DEF Release, TypeOK
<1>3. \A u \in Threads : req[u] \in Keys
  BY DEF TypeOK
<1>4. Exclusive'
  BY <1>1, <1>2, <1>3 DEF Exclusive, Building
<1>5. Reachable'
  <2>1. \A g \in Threads \ {entry[t]} : refcount'[g] = refcount[g]
    BY <1>1 DEF TypeOK
  <2>2. \A g \in opened : pc'[g] \in Built => pc[g] \in Built
    BY <1>1, <1>2 DEF TypeOK, Built
  <2> QED
    BY <1>1, <1>2, <1>3, <2>1, <2>2 DEF Reachable, TypeOK, corpusVars, graphVars
<1>6. Differs'
  BY <1>2 DEF Differs
<1>7. Clean'
  <2>1. \A u \in Threads : pc'[u] \in {"decide", "open", "opening"} => pc[u] = pc'[u]
    BY <1>2
  <2>2. \A u \in Hits' : u \in Hits /\ entry'[u] = entry[u]
    BY <1>2 DEF Hits
  <2>3. \A u \in Threads : pc[u] \in Built => pc'[u] \in Built
    BY <1>2 DEF Built
  <2> QED
    BY <1>2, <2>1, <2>2, <2>3 DEF Clean, UnderRebuild, corpusVars, graphVars, Hits, TypeOK
<1> QED
  BY <1>4, <1>5, <1>6, <1>7

\* A rebuild marks who is reading its corpus; the shutdown touches no corpus.
LEMMA EnvironmentLock ==
  ASSUME IInv, LockInv, Rebuild \/ ServerClose \/ CloseAll
  PROVE  LockInv'
<1> USE DEF IInv, LockInv, graphVars, cacheVars, threadVars
<1>1. CASE Rebuild
  <2>1. PICK r \in Roots :
          /\ UNCHANGED <<serving, graphVars, cacheVars, threadVars, buildLock>>
          /\ overtaken' = overtaken \cup Reading(r)
          /\ \A q \in Roots \ {r} : manifest'[q] = manifest[q] /\ tables'[q] = tables[q]
          /\ Missing \in {manifest'[r], tables'[r]} \/ manifest'[r] = tables'[r]
    BY <1>1 DEF Rebuild, UnlinkManifest, UnlinkTables, PutInPlace, TypeOK
  <2>2. Exclusive' /\ Reachable' /\ Differs'
    BY <2>1 DEF Exclusive, Reachable, Differs
  <2>3. \A u \in Threads : RootOf[req[u]] \in Roots
    BY CacheAssumption DEF TypeOK
  <2>4. Clean'
    BY <2>1, <2>3 DEF Clean, UnderRebuild, Reading, Hits
  <2> QED
    BY <2>2, <2>4
<1>2. CASE ServerClose
  BY <1>2 DEF ServerClose, Exclusive, Reachable, Differs, Clean, UnderRebuild, Hits
<1>3. CASE CloseAll
  <2>1. /\ serving' = "closed" /\ cached' = [k \in Keys |-> NoThread]
        /\ UNCHANGED <<manifest, tables, rebuilds, overtaken, graphVars, refcount, stale,
                       threadVars, buildLock>>
    BY <1>3 DEF CloseAll
  <2>2. \A u \in Threads : req[u] \in Keys
    BY DEF TypeOK
  <2> QED
    BY <2>1, <2>2, CacheAssumption
    DEF Exclusive, Reachable, Differs, Clean, UnderRebuild, Hits
<1> QED
  BY <1>1, <1>2, <1>3

\* Together the two invariants are inductive.
THEOREM NextLockInv == IInv /\ LockInv /\ [Next]_vars => LockInv'
<1> SUFFICES ASSUME IInv, LockInv, [Next]_vars PROVE LockInv'
  OBVIOUS
<1>1. CASE UNCHANGED vars
  BY <1>1 DEF LockInv, Exclusive, Reachable, Differs, Clean, UnderRebuild, Hits,
     vars, corpusVars, graphVars, cacheVars, threadVars
<1>2. ASSUME NEW t \in Threads, Step(t) PROVE LockInv'
  BY <1>2, AcquireLock, IdentityFailsLock, ReuseLock, MissLock, OpenGraphLock,
     OpenRefusedLock, FinishOpenLock, OpenFailsLock, InsertLock, OpenCursorLock, ReleaseLock DEF Step
<1>3. CASE Rebuild \/ ServerClose \/ CloseAll
  BY <1>3, EnvironmentLock
<1> QED
  BY <1>1, <1>2, <1>3, RequestLock DEF Next

\* Hence the second one holds in every reachable state, too.
THEOREM LockInvariance == Spec => []LockInv
<1>1. Init => LockInv
  <2> SUFFICES ASSUME Init PROVE LockInv
    OBVIOUS
  <2>1. \A r \in Roots : manifest[r] = tables[r]
    BY DEF Init
  <2> QED
    BY <2>1 DEF Init, LockInv, Exclusive, Reachable, Differs, Clean, Hits, Building
<1> QED
  BY <1>1, NextLockInv, Invariance, PTL DEF Spec

\* A request served from the cache gets a graph of exactly the corpus whose identity
\* it read, unless that graph's own build met a rebuild.
THEOREM HitsAreFresh == Spec => []HitIsFresh
<1>1. LockInv => HitIsFresh
  BY DEF LockInv, Clean, HitIsFresh
<1> QED
  BY <1>1, LockInvariance, PTL

\* A graph nobody can reach any more has been closed.
THEOREM NothingLeaks == Spec => []NoLeakedConnection
<1>1. IInv /\ LockInv => NoLeakedConnection
  <2> SUFFICES ASSUME IInv, LockInv, serving # "closed", NEW g \in opened \ closed
               PROVE  \/ \E k \in Keys : cached[k] = g
                      \/ \E t \in Threads : entry[t] = g /\ pc[t] \in InFlight \cup {"opening"}
    BY DEF NoLeakedConnection
  <2> USE DEF IInv, LockInv
  <2>1. g \in Threads /\ req[g] \in Keys /\ pc[g] \in {"opening", "insert"} \cup Built
    BY DEF TypeOK, PCs, BuildPrivate, Early, Built
  <2>2. CASE pc[g] \in {"opening", "insert"}
    BY <2>1, <2>2 DEF BuildPrivate, InFlight
  <2>3. CASE pc[g] \in Built /\ g \in stale
    BY <2>1, <2>3, HoldersFinite DEF Reachable, RefsCounted, Holders
  <2>4. CASE cached[req[g]] = g
    BY <2>1, <2>4
  <2> QED
    BY <2>1, <2>2, <2>3, <2>4 DEF Reachable
<1> QED
  BY <1>1, Invariance, LockInvariance, PTL

\* Two graphs of one key and one identity are open at the same time only when one
\* was replaced by another corpus's in between.
THEOREM BuildsAreShared == Spec => []OneGraphPerIdentity
<1>1. IInv /\ LockInv => OneGraphPerIdentity
  <2> SUFFICES ASSUME IInv, LockInv, serving # "closed",
                      NEW g \in (opened \ closed) \ stale, NEW h \in (opened \ closed) \ stale,
                      g # h, req[g] = req[h]
               PROVE  ident[g] # ident[h]
    BY DEF OneGraphPerIdentity
  <2> USE DEF IInv, LockInv
  <2>1. \A x \in (opened \ closed) \ stale :
          x \in Threads /\ (cached[req[x]] = x \/ pc[x] \in {"opening", "insert"})
    BY DEF Reachable, TypeOK, PCs, BuildPrivate, Early, Built
  <2>2. \A x, y \in (opened \ closed) \ stale :
          req[x] = req[y] /\ cached[req[x]] = x /\ pc[y] \in {"opening", "insert"}
            => ident[x] # ident[y]
    BY <2>1, CacheAssumption DEF Exclusive, Differs
  <2>3. pc[g] \in {"opening", "insert"} => pc[h] \notin {"opening", "insert"}
    BY <2>1 DEF Exclusive, Building
  <2> QED
    BY <2>1, <2>2, <2>3
<1> QED
  BY <1>1, Invariance, LockInvariance, PTL

-----------------------------------------------------------------------------
(***************************************************************************)
(* The bound of the cache.                                                 *)
(***************************************************************************)

\* An OrderedDict's order: no key before itself, and transitive.
StrictOrder(ord) ==
  /\ \A k \in Keys : <<k, k>> \notin ord
  /\ \A i, j, k \in Keys : <<i, j>> \in ord /\ <<j, k>> \in ord => <<i, k>> \in ord

\* Moving a key to the end, or dropping keys, leaves an order.
LEMMA MovedOrder ==
  ASSUME NEW k \in Keys, NEW S \in SUBSET Keys, StrictOrder(older), older \subseteq S \X S
  PROVE  StrictOrder(MoveToEnd(k, S))
<1> DEFINE ord == MoveToEnd(k, S)
<1>1. \A i, j \in Keys : <<i, j>> \in ord <=>
        \/ i # k /\ j # k /\ <<i, j>> \in older
        \/ j = k /\ i # k /\ i \in S
  BY DEF MoveToEnd
<1>2. \A i, j \in Keys : <<i, j>> \in older => i \in S
  OBVIOUS
<1> HIDE DEF ord
<1>3. \A i \in Keys : <<i, i>> \notin ord
  BY <1>1 DEF StrictOrder
<1>4. ASSUME NEW i \in Keys, NEW j \in Keys, NEW l \in Keys,
             <<i, j>> \in ord, <<j, l>> \in ord
      PROVE  <<i, l>> \in ord
  <2>1. j # k /\ i # k /\ <<i, j>> \in older /\ i \in S
    BY <1>1, <1>2, <1>4
  <2>2. l # k => <<j, l>> \in older
    BY <1>1, <1>4
  <2>3. l # k => <<i, l>> \in older
    BY <2>1, <2>2 DEF StrictOrder
  <2> QED
    BY <1>1, <2>1, <2>3
<1> QED
  BY <1>3, <1>4 DEF StrictOrder, ord

\* A cache trimmed by _evict_excess_locked is within its bound, or holds no idle
\* entry any more: when an idle entry is spared, as many as the excess went
\* before it.
LEMMA EvictionSettles ==
  ASSUME NEW c \in [Keys -> Threads \cup {NoThread}], NEW ord, StrictOrder(ord),
         NEW refs, NEW k0 \in CachedKeys(c) \ Victims(c, ord, refs), refs[c[k0]] = 0
  PROVE  Cardinality(CachedKeys(c) \ Victims(c, ord, refs)) <= MaxEntries
<1> DEFINE idle == {k \in CachedKeys(c) : refs[c[k]] = 0}
           before(k) == {j \in idle : <<j, k>> \in ord}
           gone == Victims(c, ord, refs)
           all == CachedKeys(c)
<1>1. gone = {k \in idle : Cardinality(before(k)) + MaxEntries < Cardinality(all)}
  BY DEF Victims
<1>2. idle \subseteq Keys /\ gone \subseteq all /\ IsFiniteSet(all) /\ IsFiniteSet(idle)
  BY CacheAssumption, FS_Subset, <1>1 DEF CachedKeys
<1>3. \A k : before(k) \in FiniteSubsetsOf(Keys)
  BY <1>2, FS_Subset DEF FiniteSubsetsOf
<1>4. PICK k \in idle \ gone : \A j \in idle \ gone :
        ~(before(j) \subseteq before(k) /\ before(j) # before(k))
  <2> DEFINE T == {before(j) : j \in idle \ gone}
  <2>1. k0 \in idle \ gone
    OBVIOUS
  <2> HIDE DEF idle, gone, before
  <2>2. T \subseteq FiniteSubsetsOf(Keys) /\ T # {}
    BY <1>3, <2>1
  <2>3. PICK x \in T : \A y \in T : <<y, x>> \notin StrictSubsetOrdering(Keys)
    <3> HIDE DEF T
    <3> QED
      BY <2>2, FS_StrictSubsetOrderingWellFounded, WFMin
  <2>4. PICK k \in idle \ gone : x = before(k)
    OBVIOUS
  <2>5. \A j : before(j) \in SUBSET Keys
    BY <1>3 DEF FiniteSubsetsOf
  <2>6. \A j \in idle \ gone : <<before(j), before(k)>> \notin StrictSubsetOrdering(Keys)
    BY <2>3, <2>4
  <2> QED
    BY <2>5, <2>6 DEF StrictSubsetOrdering
<1>5. before(k) \subseteq gone
  <2> SUFFICES ASSUME NEW j \in before(k), j \notin gone PROVE FALSE
    OBVIOUS
  <2>1. before(j) \subseteq before(k) /\ j \notin before(j)
    BY <1>2 DEF StrictOrder
  <2> QED
    BY <1>4, <2>1
<1>6. ~(Cardinality(before(k)) + MaxEntries < Cardinality(all))
  BY <1>1, <1>4
<1>7. /\ IsFiniteSet(gone) /\ Cardinality(before(k)) <= Cardinality(gone)
      /\ Cardinality(all) \in Nat /\ Cardinality(gone) \in Nat
      /\ Cardinality(before(k)) \in Nat
  <2>1. IsFiniteSet(gone)
    BY <1>2, FS_Subset
  <2>2. IsFiniteSet(before(k)) /\ Cardinality(before(k)) <= Cardinality(gone)
    BY <1>5, <2>1, FS_Subset
  <2> QED
    BY <1>2, <2>1, <2>2, FS_CardinalityType
<1>8. Cardinality(all \ gone) = Cardinality(all) - Cardinality(gone)
  <2>1. all \cap gone = gone
    BY <1>2
  <2> QED
    BY <1>2, <2>1, FS_Difference
<1> QED
  BY <1>6, <1>7, <1>8, CacheAssumption

\* The third inductive invariant: the order of the cached keys, and the bound.
BoundInv == StrictOrder(older) /\ older \subseteq CachedKeys(cached) \X CachedKeys(cached)
            /\ OverflowIsPinned

\* An eviction establishes the bound over any cache and order.
LEMMA EvictionBounds ==
  ASSUME NEW c \in [Keys -> Threads \cup {NoThread}], NEW ord, NEW also,
         StrictOrder(ord), ord \subseteq CachedKeys(c) \X CachedKeys(c),
         EvictExcess(c, ord, refcount', also),
         \A k \in Keys :
           c[k] # NoThread /\ refcount'[c[k]] # 0 => Holders(c[k])' # {}
  PROVE  BoundInv'
<1> DEFINE gone == Victims(c, ord, refcount')
<1>1. /\ cached' = [k \in Keys |-> IF k \in gone THEN NoThread ELSE c[k]]
      /\ older' = {p \in ord : gone \cap {p[1], p[2]} = {}}
  BY DEF EvictExcess
<1>2. CachedKeys(cached)' = CachedKeys(c) \ gone
  BY <1>1 DEF CachedKeys
<1>3. StrictOrder(older)'
  <2> HIDE DEF gone
  <2>1. older' = {p \in ord : gone \cap {p[1], p[2]} = {}}
    BY <1>1
  <2>2. \A i, j \in Keys :
          <<i, j>> \in older' <=> <<i, j>> \in ord /\ i \notin gone /\ j \notin gone
    BY <2>1
  <2> QED
    BY <2>2 DEF StrictOrder
<1>4. older' \subseteq CachedKeys(cached)' \X CachedKeys(cached)'
  BY <1>1, <1>2
<1>5. OverflowIsPinned'
  <2> SUFFICES ASSUME NEW k \in CachedKeys(c) \ gone, Holders(cached[k])' = {}
               PROVE  ~(Cardinality(CachedKeys(c) \ gone) > MaxEntries)
    BY <1>2 DEF OverflowIsPinned
  <2>1. k \in Keys /\ c[k] # NoThread /\ cached'[k] = c[k]
    BY <1>1 DEF CachedKeys
  <2>2. Holders(cached[k])' = Holders(c[k])'
    BY <2>1 DEF Holders
  <2>3. refcount'[c[k]] = 0
    BY <2>1, <2>2
  <2>4. Cardinality(CachedKeys(c) \ gone) <= MaxEntries
    BY <2>3, EvictionSettles
  <2>5. Cardinality(CachedKeys(c) \ gone) \in Nat
    BY CacheAssumption, FS_Subset, FS_CardinalityType DEF CachedKeys
  <2> QED
    BY <2>4, <2>5, CacheAssumption
<1> QED
  BY <1>3, <1>4, <1>5 DEF BoundInv

\* A step that leaves the cache and its order alone, and takes no holder away
\* from a cached graph, keeps it.
LEMMA BoundKept ==
  ASSUME IInv, BoundInv, UNCHANGED <<cached, older>>,
         \A k \in CachedKeys(cached) : Holders(cached[k]) # {} => Holders(cached[k])' # {}
  PROVE  BoundInv'
<1>1. CachedKeys(cached)' = CachedKeys(cached)
  BY DEF CachedKeys
<1>2. OverflowIsPinned'
  BY <1>1 DEF BoundInv, OverflowIsPinned
<1>3. StrictOrder(older)' /\ older' \subseteq CachedKeys(cached)' \X CachedKeys(cached)'
  BY <1>1 DEF BoundInv, StrictOrder
<1> QED
  BY <1>2, <1>3 DEF BoundInv

\* A referenced graph has a holder.
LEMMA ReferencedIsHeld ==
  ASSUME RefsCounted, NEW g \in Threads, refcount[g] # 0
  PROVE  Holders(g) # {}
BY FS_EmptySet DEF RefsCounted

\* Neither a request on its way to a graph nor the environment lets a cached one go.
LEMMA QuietBound ==
  ASSUME IInv, BoundInv,
         \/ \E t \in Threads :
              \/ \E k \in Keys : Request(t, k)
              \/ Acquire(t) \/ IdentityFails(t) \/ Miss(t) \/ OpenGraph(t)
              \/ OpenRefused(t) \/ FinishOpen(t) \/ OpenFails(t) \/ OpenCursor(t)
         \/ Rebuild
         \/ ServerClose \/ UNCHANGED vars
  PROVE  BoundInv'
<1>1. UNCHANGED <<cached, older>>
  BY DEF Request, Acquire, IdentityFails, Miss, OpenGraph, OpenRefused, FinishOpen,
     OpenFails, OpenCursor, Rebuild, UnlinkManifest, UnlinkTables, PutInPlace, ServerClose, vars, cacheVars
<1>2. \A t \in Threads : pc[t] \in InFlight => pc'[t] \in InFlight /\ entry'[t] = entry[t]
  BY DEF Request, Acquire, IdentityFails, Miss, OpenGraph, OpenRefused, FinishOpen,
     OpenFails, OpenCursor, Rebuild, UnlinkManifest, UnlinkTables, PutInPlace, ServerClose, vars, threadVars, Goto, IInv, TypeOK, InFlight
<1>3. \A k \in CachedKeys(cached) : Holders(cached[k]) # {} => Holders(cached[k])' # {}
  BY <1>1, <1>2 DEF Holders
<1> QED
  BY <1>1, <1>3, BoundKept

\* A reuse moves its key to the end and pins it.
LEMMA ReuseBound ==
  ASSUME IInv, BoundInv, NEW t \in Threads, Reuse(t)
  PROVE  BoundInv'
<1>1. /\ cached' = cached /\ req[t] \in CachedKeys(cached)
      /\ older' = MoveToEnd(req[t], CachedKeys(cached))
  BY DEF Reuse, CachedKeys, IInv, TypeOK
<1>2. CachedKeys(cached)' = CachedKeys(cached) /\ CachedKeys(cached) \in SUBSET Keys
  BY <1>1 DEF CachedKeys
<1>3. StrictOrder(older)'
  <2>1. StrictOrder(MoveToEnd(req[t], CachedKeys(cached)))
    BY <1>1, <1>2, MovedOrder DEF BoundInv
  <2> QED
    BY <1>1, <2>1 DEF StrictOrder
<1>4. older' \subseteq CachedKeys(cached)' \X CachedKeys(cached)'
  BY <1>1, <1>2 DEF MoveToEnd, BoundInv
<1>5. OverflowIsPinned'
  <2>1. \A u \in Threads : pc[u] \in InFlight => pc'[u] \in InFlight /\ entry'[u] = entry[u]
    BY DEF Reuse, Goto, IInv, TypeOK, InFlight
  <2>2. \A k \in Keys : Holders(cached[k]) # {} => Holders(cached[k])' # {}
    BY <1>1, <2>1 DEF Holders
  <2> QED
    BY <1>2, <2>2 DEF BoundInv, OverflowIsPinned
<1> QED
  BY <1>3, <1>4, <1>5 DEF BoundInv

\* An insert trims the cache it has extended.
LEMMA InsertBound ==
  ASSUME IInv, BoundInv, NEW t \in Threads, Insert(t)
  PROVE  BoundInv'
<1>1. entry[t] = t /\ req[t] \in Keys /\ t # NoThread
  BY CacheAssumption DEF Insert, Goto, IInv, BuildPrivate, TypeOK
<1>2. PICK c \in [Keys -> Threads \cup {NoThread}] : c = [cached EXCEPT ![req[t]] = t]
  BY DEF IInv, TypeOK
<1>3. PICK ord : ord = MoveToEnd(req[t], CachedKeys(c))
  OBVIOUS
<1>4. PICK also : EvictExcess(c, ord, refcount', also) /\ refcount' = refcount
  BY <1>1, <1>2, <1>3 DEF Insert
<1>5. /\ CachedKeys(cached) \subseteq CachedKeys(c) /\ req[t] \in CachedKeys(c)
      /\ CachedKeys(c) \subseteq Keys
  BY <1>1, <1>2 DEF CachedKeys, IInv, TypeOK
<1>6. older \subseteq CachedKeys(c) \X CachedKeys(c)
  BY <1>5 DEF BoundInv
<1>7. StrictOrder(ord)
  BY <1>1, <1>3, <1>5, <1>6, MovedOrder DEF BoundInv
<1>8. ord \subseteq CachedKeys(c) \X CachedKeys(c)
  BY <1>3, <1>5, <1>6 DEF MoveToEnd
<1>9. \A g \in Threads : refcount'[g] # 0 => Holders(g)' # {}
  <2>1. \A g \in Threads : Holders(g)' = Holders(g)
    BY DEF Insert, Goto, Holders, InFlight, IInv, TypeOK
  <2> QED
    BY <1>4, <2>1, ReferencedIsHeld DEF IInv
<1> QED
  BY <1>4, <1>7, <1>8, <1>9, EvictionBounds

\* A release trims the cache, lets go of a graph that is not cached, or leaves
\* other holders behind.
LEMMA ReleaseBound ==
  ASSUME IInv, BoundInv, NEW t \in Threads, Release(t)
  PROVE  BoundInv'
<1>0. RefsCounted'
  BY ReleaseIInv DEF IInv
<1>1. /\ pc[t] \in {"cursor", "using"} /\ entry[t] \in Threads
      /\ refcount' = [refcount EXCEPT ![entry[t]] = @ - 1]
  BY ReleaseEffect
<1>2. \A g \in Threads : refcount'[g] # 0 => Holders(g)' # {}
  BY <1>0, FS_EmptySet DEF RefsCounted
<1>3. \A u \in Threads \ {t} : pc'[u] = pc[u] /\ entry'[u] = entry[u]
  BY DEF Release, IInv, TypeOK
<1>4. CASE EvictExcess(cached, older, refcount', {})
  <2>1. PICK c \in [Keys -> Threads \cup {NoThread}] : c = cached
    BY DEF IInv, TypeOK
  <2>2. PICK ord : ord = older
    OBVIOUS
  <2> QED
    BY <1>2, <1>4, <2>1, <2>2, EvictionBounds DEF BoundInv
<1>5. CASE entry[t] \in stale /\ UNCHANGED <<cached, older>>
  <2>1. \A k \in CachedKeys(cached) : cached[k] # entry[t]
    BY <1>5 DEF CachedKeys, IInv, CachedBuilt
  <2>2. \A k \in CachedKeys(cached) : Holders(cached[k]) # {} => Holders(cached[k])' # {}
    BY <1>3, <1>5, <2>1 DEF Holders
  <2> QED
    BY <1>5, <2>2, BoundKept
<1>6. CASE refcount'[entry[t]] # 0 /\ UNCHANGED <<cached, older>>
  <2>1. ASSUME NEW k \in CachedKeys(cached), Holders(cached[k]) # {}
        PROVE  Holders(cached[k])' # {}
    <3>1. CASE cached[k] = entry[t]
      <4>1. PICK g \in Threads : g = entry[t]
        BY <1>1
      <4>2. Holders(g)' # {}
        BY <1>2, <1>6, <4>1
      <4> QED
        BY <1>6, <3>1, <4>1, <4>2 DEF Holders
    <3>2. CASE cached[k] # entry[t]
      BY <1>3, <1>6, <2>1, <3>2 DEF Holders
    <3> QED
      BY <3>1, <3>2
  <2> QED
    BY <1>6, <2>1, BoundKept
<1> QED
  BY <1>1, <1>4, <1>5, <1>6 DEF Release

\* The cache holds more than max_entries graphs only while every one of them is
\* in use, for any number of requests, keys and entries.
THEOREM OverflowIsInUse == Spec => []OverflowIsPinned
<1>1. Init => BoundInv
  <2> SUFFICES ASSUME Init PROVE BoundInv
    OBVIOUS
  <2>1. CachedKeys(cached) = {} /\ older = {}
    BY DEF Init, CachedKeys
  <2> QED
    BY <2>1 DEF BoundInv, StrictOrder, OverflowIsPinned
<1>2. IInv /\ BoundInv /\ [Next]_vars => BoundInv'
  <2> SUFFICES ASSUME IInv, BoundInv, [Next]_vars PROVE BoundInv'
    OBVIOUS
  <2>1. CASE CloseAll
    <3>1. CachedKeys(cached)' = {} /\ older' = {}
      BY <2>1 DEF CloseAll, CachedKeys
    <3> QED
      BY <3>1 DEF BoundInv, StrictOrder, OverflowIsPinned
  <2> QED
    BY <2>1, QuietBound, ReuseBound, InsertBound, ReleaseBound DEF Next, Step
<1>3. BoundInv => OverflowIsPinned
  BY DEF BoundInv
<1> QED
  BY <1>1, <1>2, <1>3, Invariance, PTL DEF Spec
=============================================================================
