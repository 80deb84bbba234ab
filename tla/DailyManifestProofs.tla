------------------------- MODULE DailyManifestProofs -------------------------
(***************************************************************************)
(* Proofs about the daily calendar.  The schedules are computed by a pass  *)
(* that is a recursive function; what it does is proved by induction, from *)
(* the fact that a set of natural numbers has a least member.              *)
(***************************************************************************)
EXTENDS DailyManifest, FiniteSetTheorems, WellFoundedInduction, TLAPS

----------------------------------------------------------------------------
(* Induction.                                                               *)

\* A set of natural numbers that is not empty has a least member.
LEMMA LeastNatural ==
  ASSUME NEW T \in SUBSET Nat, T # {}
  PROVE  \E n \in T : \A m \in T : n <= m
<1> DEFINE R == OpToRel(<, Nat)
<1>1. IsWellFoundedOn(R, Nat)
  BY NatLessThanWellFounded
<1>2. \A x, y \in Nat : x < y => <<x, y>> \in R
  BY DEF OpToRel
<1> HIDE DEF R
<1>3. PICK n \in T : \A m \in T : ~(<<m, n>> \in R)
  BY <1>1, WFMin
<1>4. \A m \in T : m \in Nat /\ n \in Nat /\ ~(m < n)
  BY <1>2, <1>3
<1> QED
  BY <1>4

\* A set that holds 0 and, up to a bound, with every number the next one holds
\* all numbers up to the bound.
LEMMA InductionUpTo ==
  ASSUME NEW n \in Nat, NEW S, 0 \in S, \A k \in 0 .. n : k \in S /\ k < n => k + 1 \in S
  PROVE  0 .. n \subseteq S
<1> DEFINE Bad == {k \in 0 .. n : k \notin S}
<1> SUFFICES ASSUME Bad # {} PROVE FALSE
  OBVIOUS
<1>1. Bad \in SUBSET Nat
  OBVIOUS
<1> HIDE DEF Bad
<1>2. PICK k \in Bad : \A j \in Bad : k <= j
  BY <1>1, LeastNatural
<1>3. k \in 0 .. n /\ k \notin S /\ k # 0
  BY <1>2 DEF Bad
<1>4. k - 1 \in 0 .. n /\ k - 1 \notin Bad
  BY <1>2, <1>3
<1> QED
  BY <1>3, <1>4 DEF Bad

----------------------------------------------------------------------------
(* The order of the days.                                                   *)

\* The orders of a set: what a shuffle, or any swap in one, can give.
Orders(n, ids) == {s \in [1 .. n -> ids] : \A i, j \in 1 .. n : s[i] = s[j] => i = j}

\* A round that repeats its predecessor moves behind one that does not, if there
\* is one; what comes before it stays, and what comes from it on are the same rounds.
LEMMA UnrepeatOrders ==
  ASSUME NEW n \in Nat, NEW ids, NEW s \in Orders(n, ids), NEW i \in 1 .. n, NEW previous
  PROVE  /\ Unrepeat(s, i, previous) \in Orders(n, ids)
         /\ \A k \in 1 .. i - 1 : Unrepeat(s, i, previous)[k] = s[k]
         /\ \A k \in i .. n : \E l \in i .. n : Unrepeat(s, i, previous)[k] = s[l]
         /\ Conflict(Unrepeat(s, i, previous)[i], previous) =>
              \A k \in i + 1 .. n : Conflict(Unrepeat(s, i, previous)[k], previous)
<1>1. s \in Seq(ids) /\ Len(s) = n
  BY DEF Orders
<1> DEFINE later == {j \in i + 1 .. n : ~Conflict(s[j], previous)}
<1>2. CASE ~Conflict(s[i], previous) \/ later = {}
  <2>1. Unrepeat(s, i, previous) = s
    BY <1>1, <1>2 DEF Unrepeat
  <2>2. Conflict(s[i], previous) => \A k \in i + 1 .. n : Conflict(s[k], previous)
    BY <1>2
  <2> HIDE DEF later
  <2> QED
    BY <2>1, <2>2
<1>3. CASE Conflict(s[i], previous) /\ later # {}
  <2>1. later \in SUBSET Nat
    OBVIOUS
  <2> DEFINE least == CHOOSE j \in later : \A k \in later : j <= k
  <2>2. Unrepeat(s, i, previous) = Swapped(s, i, least)
    BY <1>1, <1>3 DEF Unrepeat
  <2>3. least \in later
    <3> HIDE DEF later
    <3> QED
      BY <1>3, <2>1, LeastNatural
  <2> HIDE DEF least
  <2>4. least \in i + 1 .. n /\ ~Conflict(s[least], previous)
    BY <2>3
  <2> DEFINE u == [s EXCEPT ![i] = s[least], ![least] = s[i]]
  <2>5. Unrepeat(s, i, previous) = u
    BY <2>2 DEF Swapped
  <2>6. s \in [1 .. n -> ids] /\ i \in 1 .. n /\ least \in 1 .. n /\ least # i
    BY <2>4 DEF Orders
  <2>7. /\ u \in [1 .. n -> ids] /\ u[i] = s[least] /\ u[least] = s[i]
        /\ \A k \in 1 .. n : k # i /\ k # least => u[k] = s[k]
    BY <2>6
  <2> HIDE DEF u, later
  <2>8. u \in Orders(n, ids)
    BY <2>6, <2>7 DEF Orders
  <2>9. \A k \in 1 .. i - 1 : u[k] = s[k]
    BY <2>4, <2>7
  <2>10. ASSUME NEW k \in i .. n PROVE \E l \in i .. n : u[k] = s[l]
    <3>1. CASE k = i
      BY <2>4, <2>7, <3>1
    <3>2. CASE k = least
      BY <2>7, <3>2
    <3>3. CASE k # i /\ k # least
      BY <2>7, <3>3
    <3> QED
      BY <3>1, <3>2, <3>3
  <2> QED
    BY <2>4, <2>5, <2>7, <2>8, <2>9, <2>10
<1> QED
  BY <1>2, <1>3

\* What each stage of the pass holds.
Stages(s, p) ==
  p = [i \in 0 .. Len(s) |-> IF i < 2 THEN s ELSE Unrepeat(p[i - 1], i, p[i - 1][i - 1])]

\* The pass is defined: its recursion has a solution.
LEMMA PassDefined ==
  ASSUME NEW s, Len(s) \in Nat
  PROVE  \E p : Stages(s, p) /\ ForwardPass(s) = p[Len(s)]
<1> DEFINE n == Len(s)
           UpTo(k, p) == p = [i \in 0 .. k |->
                                IF i < 2 THEN s ELSE Unrepeat(p[i - 1], i, p[i - 1][i - 1])]
           Solved == {k \in 0 .. n : \E p : UpTo(k, p)}
<1>1. 0 \in Solved
  <2> DEFINE p == [i \in 0 .. 0 |-> s]
  <2>1. UpTo(0, p)
    OBVIOUS
  <2> HIDE DEF p, UpTo
  <2> QED
    BY <2>1
<1>2. ASSUME NEW k \in 0 .. n, k \in Solved, k < n
      PROVE  k + 1 \in Solved
  <2>1. PICK p : UpTo(k, p)
    BY <1>2
  <2> DEFINE next == IF k + 1 < 2 THEN s ELSE Unrepeat(p[k], k + 1, p[k][k])
             q == [i \in 0 .. k + 1 |-> IF i = k + 1 THEN next ELSE p[i]]
  <2>2. \A i \in 0 .. k : q[i] = p[i] /\ (i < 2 => p[i] = s)
                          /\ (i >= 2 => p[i] = Unrepeat(p[i - 1], i, p[i - 1][i - 1]))
    BY <2>1
  <2>3. q[k + 1] = next
    OBVIOUS
  <2>4. ASSUME NEW i \in 0 .. k + 1
        PROVE  q[i] = IF i < 2 THEN s ELSE Unrepeat(q[i - 1], i, q[i - 1][i - 1])
    <3> HIDE DEF q
    <3>1. CASE i = k + 1
      <4>1. k + 1 >= 2 => q[k] = p[k]
        BY <2>2
      <4> QED
        BY <2>3, <3>1, <4>1
    <3>2. CASE i # k + 1 /\ i < 2
      BY <2>2, <3>2
    <3>3. CASE i # k + 1 /\ ~(i < 2)
      <4>1. i \in 0 .. k /\ i - 1 \in 0 .. k
        BY <3>3
      <4> QED
        BY <2>2, <3>3, <4>1
    <3> QED
      BY <3>1, <3>2, <3>3
  <2>5. UpTo(k + 1, q)
    BY <2>4
  <2> HIDE DEF q, UpTo
  <2> QED
    BY <1>2, <2>5
<1>3. n \in Solved
  <2> HIDE DEF Solved
  <2>1. 0 .. n \subseteq Solved
    BY <1>1, <1>2, InductionUpTo
  <2> QED
    BY <2>1
<1>4. \E p : Stages(s, p)
  BY <1>3 DEF Stages
<1>5. Stages(s, CHOOSE p : Stages(s, p))
  BY <1>4
<1>6. ForwardPass(s) = (CHOOSE p : Stages(s, p))[n]
  BY DEF ForwardPass, Stages
<1> QED
  BY <1>5, <1>6

\* The round at k repeats previous only if every later one would.
ForcedAt(n, s, k, previous) ==
  Conflict(s[k], previous) => \A j \in k + 1 .. n : Conflict(s[j], previous)

\* A turn of the pass settles one more place, and unsettles none before it.
LEMMA UnrepeatForces ==
  ASSUME NEW n \in Nat, NEW ids, NEW s \in Orders(n, ids), NEW i \in 2 .. n,
         \A k \in 2 .. i - 1 : ForcedAt(n, s, k, s[k - 1])
  PROVE  LET u == Unrepeat(s, i, s[i - 1])
         IN  /\ u \in Orders(n, ids)
             /\ \A k \in 2 .. i : ForcedAt(n, u, k, u[k - 1])
             /\ \A b : ForcedAt(n, s, 1, b) => ForcedAt(n, u, 1, b)
<1> DEFINE u == Unrepeat(s, i, s[i - 1])
<1>1. /\ u \in Orders(n, ids)
      /\ \A k \in 1 .. i - 1 : u[k] = s[k]
      /\ \A k \in i .. n : \E l \in i .. n : u[k] = s[l]
      /\ Conflict(u[i], s[i - 1]) => \A k \in i + 1 .. n : Conflict(u[k], s[i - 1])
  BY UnrepeatOrders
<1> HIDE DEF u
<1>2. ASSUME NEW k \in 1 .. i - 1, NEW b, ForcedAt(n, s, k, b)
      PROVE  ForcedAt(n, u, k, b)
  <2> SUFFICES ASSUME Conflict(u[k], b), NEW j \in k + 1 .. n PROVE Conflict(u[j], b)
    BY DEF ForcedAt
  <2>1. \A l \in k + 1 .. n : Conflict(s[l], b)
    BY <1>1, <1>2 DEF ForcedAt
  <2>2. \E l \in k + 1 .. n : u[j] = s[l]
    <3>1. CASE j \in 1 .. i - 1
      BY <1>1, <3>1
    <3>2. CASE j \in i .. n
      <4>1. i .. n \subseteq k + 1 .. n
        OBVIOUS
      <4> QED
        BY <1>1, <3>2, <4>1
    <3> QED
      BY <3>1, <3>2
  <2> QED
    BY <2>1, <2>2
<1>3. ForcedAt(n, u, i, u[i - 1])
  BY <1>1 DEF ForcedAt
<1>4. ASSUME NEW k \in 2 .. i - 1
      PROVE  ForcedAt(n, u, k, u[k - 1])
  <2>1. u[k - 1] = s[k - 1] /\ k \in 1 .. i - 1
    BY <1>1
  <2> QED
    BY <1>2, <2>1
<1>5. \A k \in 2 .. i : ForcedAt(n, u, k, u[k - 1])
  BY <1>3, <1>4
<1>6. \A b : ForcedAt(n, s, 1, b) => ForcedAt(n, u, 1, b)
  BY <1>2
<1> QED
  BY <1>1, <1>5, <1>6 DEF u

\* The whole pass: the same rounds, and every repeat that is left is forced.
LEMMA PassForces ==
  ASSUME NEW n \in Nat, NEW ids, NEW s \in Orders(n, ids)
  PROVE  /\ ForwardPass(s) \in Orders(n, ids)
         /\ \A k \in 2 .. n : ForcedAt(n, ForwardPass(s), k, ForwardPass(s)[k - 1])
         /\ \A b : ForcedAt(n, s, 1, b) => ForcedAt(n, ForwardPass(s), 1, b)
<1>1. Len(s) = n
  BY DEF Orders
<1>2. PICK p : Stages(s, p) /\ ForwardPass(s) = p[n]
  BY <1>1, PassDefined
<1>3. \A i \in 0 .. n : /\ i < 2 => p[i] = s
                        /\ i >= 2 => p[i] = Unrepeat(p[i - 1], i, p[i - 1][i - 1])
  BY <1>1, <1>2 DEF Stages
<1> DEFINE Settled(i, t) ==
             /\ t \in Orders(n, ids)
             /\ \A k \in 2 .. i : ForcedAt(n, t, k, t[k - 1])
             /\ \A b : ForcedAt(n, s, 1, b) => ForcedAt(n, t, 1, b)
           Done == {i \in 0 .. n : Settled(i, p[i])}
<1>4. \A i \in 0 .. n : i < 2 => i \in Done
  <2>1. \A i \in 0 .. n : i < 2 => 2 .. i = {}
    OBVIOUS
  <2> QED
    BY <1>3, <2>1
<1>5. ASSUME NEW i \in 0 .. n, i \in Done, i < n
      PROVE  i + 1 \in Done
  <2>1. CASE i + 1 < 2
    BY <1>4, <1>5, <2>1
  <2>2. CASE ~(i + 1 < 2)
    <3>1. Settled(i, p[i])
      BY <1>5
    <3>2. i + 1 \in 2 .. n /\ (i + 1) - 1 = i
      BY <1>5, <2>2
    <3>3. p[i + 1] = Unrepeat(p[i], i + 1, p[i][i])
      BY <1>3, <3>2
    <3>4. Settled(i + 1, p[i + 1])
      BY <3>1, <3>2, <3>3, UnrepeatForces
    <3> QED
      BY <3>2, <3>4
  <2> QED
    BY <2>1, <2>2
<1>6. n \in Done
  <2>1. 0 \in Done
    BY <1>4
  <2> HIDE DEF Done
  <2>2. 0 .. n \subseteq Done
    BY <1>5, <2>1, InductionUpTo
  <2> QED
    BY <2>2
<1> QED
  BY <1>2, <1>6

\* Any order of a finite set lists all of it.
LEMMA ShuffleOrders ==
  ASSUME NEW ids, IsFiniteSet(ids), NEW n, n = Cardinality(ids)
  PROVE  /\ n \in Nat /\ (ids # {} => n >= 1)
         /\ SetToSeqs(ids) = Orders(n, ids)
         /\ \A s \in Orders(n, ids) : \A r \in ids : \E k \in 1 .. n : s[k] = r
<1>1. n \in Nat /\ (ids # {} => n >= 1)
  BY FS_CardinalityType, FS_EmptySet
<1>2. SetToSeqs(ids) = Orders(n, ids)
  BY DEF SetToSeqs, Orders
<1>3. ASSUME NEW s \in Orders(n, ids), NEW r \in ids
      PROVE  \E k \in 1 .. n : s[k] = r
  <2>1. s \in Injection(1 .. n, ids)
    BY DEF Orders, Injection, IsInjective
  <2>2. IsFiniteSet(1 .. n) /\ Cardinality(1 .. n) = n
    BY <1>1, FS_Interval
  <2>3. s \in Surjection(1 .. n, ids)
    BY <2>1, <2>2, FS_Injection
  <2> QED
    BY <2>3 DEF Surjection
<1> QED
  BY <1>1, <1>2, <1>3

\* The order of the new days: a shuffle of the rounds in which every repeat that
\* is left is forced, at the joint with the day before them too.
LEMMA QualityOrder ==
  ASSUME NEW n \in Nat, NEW ids, NEW t \in Orders(n, ids), n >= 1, NEW before
  PROVE  LET s == _quality_scheduled_order(t, before)
         IN  /\ s \in Orders(n, ids)
             /\ \A k \in 2 .. n : ForcedAt(n, s, k, s[k - 1])
             /\ before # <<>> => ForcedAt(n, s, 1, before[1])
<1>1. t # <<>> /\ 1 \in 1 .. n
  <2>1. t \in Seq(ids) /\ Len(t) = n
    BY DEF Orders
  <2> QED
    BY <2>1
<1>2. CASE before = <<>>
  <2>1. _quality_scheduled_order(t, before) = ForwardPass(t)
    BY <1>2 DEF _quality_scheduled_order
  <2> QED
    BY <1>2, <2>1, PassForces
<1>3. CASE before # <<>>
  <2> DEFINE u == Unrepeat(t, 1, before[1])
  <2>1. _quality_scheduled_order(t, before) = ForwardPass(u)
    BY <1>1, <1>3 DEF _quality_scheduled_order
  <2>2. u \in Orders(n, ids) /\ ForcedAt(n, u, 1, before[1])
    BY <1>1, UnrepeatOrders DEF ForcedAt
  <2> HIDE DEF u
  <2> QED
    BY <2>1, <2>2, PassForces
<1> QED
  BY <1>2, <1>3

\* new are the first c of s, an order of ids in which every repeat is forced, on
\* consecutive dates from first on and with the content they have in file.
Dealt(new, ids, file, before, first, g, n, c, s) ==
  /\ c \in 1 .. n /\ s \in Orders(n, ids)
  /\ \A r \in ids : \E k \in 1 .. n : s[k] = r
  /\ new = [k \in 1 .. c |->
              [date |-> first + k - 1, id |-> s[k], fp |-> file.rounds[s[k]], gen |-> g]]
  /\ \A k \in 2 .. n : ForcedAt(n, s, k, s[k - 1])
  /\ before # <<>> => ForcedAt(n, s, 1, before[1])

\* The new days: consecutive dates, rounds of the pool that are still free, each
\* once, with the content they have in it.
LEMMA NewEntriesDealt ==
  ASSUME NEW ids, IsFiniteSet(ids), ids # {}, NEW file, NEW before, NEW first,
         NEW days \in Nat \ {0}, NEW g, NEW new \in NewEntries(ids, file, before, first, days, g)
  PROVE  \E n \in Nat, c \in Nat : \E s : Dealt(new, ids, file, before, first, g, n, c, s)
<1> DEFINE n == Cardinality(ids)
<1>1. /\ n \in Nat /\ n >= 1 /\ SetToSeqs(ids) = Orders(n, ids)
      /\ \A s \in Orders(n, ids) : \A r \in ids : \E k \in 1 .. n : s[k] = r
  BY ShuffleOrders
<1> HIDE DEF n
<1>2. PICK t \in Orders(n, ids) :
        LET s == _quality_scheduled_order(t, before)
        IN  new = [k \in 1 .. (IF days < Len(s) THEN days ELSE Len(s)) |->
                     [date |-> first + k - 1, id |-> s[k], fp |-> file.rounds[s[k]], gen |-> g]]
  BY <1>1 DEF NewEntries
<1> DEFINE s == _quality_scheduled_order(t, before)
           c == IF days < n THEN days ELSE n
<1>3. /\ s \in Orders(n, ids) /\ \A k \in 2 .. n : ForcedAt(n, s, k, s[k - 1])
      /\ before # <<>> => ForcedAt(n, s, 1, before[1])
  BY <1>1, QualityOrder
<1>4. Len(s) = n
  BY <1>1, <1>3 DEF Orders
<1>5. new = [k \in 1 .. c |-> [date |-> first + k - 1, id |-> s[k],
                               fp |-> file.rounds[s[k]], gen |-> g]]
  BY <1>2, <1>4
<1>6. c \in 1 .. n /\ c \in Nat
  BY <1>1
<1> HIDE DEF s, c
<1>7. Dealt(new, ids, file, before, first, g, n, c, s)
  BY <1>1, <1>3, <1>5, <1>6 DEF Dealt
<1> QED
  BY <1>1, <1>6, <1>7

----------------------------------------------------------------------------
(* The inductive invariant.                                                 *)

\* The round at i is one of the one-hop rounds of its generation's pool, with the
\* content the pool was generated with.
Drawn(m, i) ==
  \E j \in DOMAIN m.generations :
    LET rounds == PoolRounds[m.generations[j].pool]
    IN  /\ m.schedule[i].gen = m.generations[j].id
        /\ m.schedule[i].id \in DOMAIN rounds \cap OneHop
        /\ m.schedule[i].fp = rounds[m.schedule[i].id]

\* What every command keeps true of a manifest.
Sane(m) ==
  /\ m.schedule # <<>> /\ m.generations # <<>>
  /\ \A i \in DOMAIN m.schedule : m.schedule[i].date = m.start + (i - 1)
  /\ \A i, j \in DOMAIN m.schedule : m.schedule[i].id = m.schedule[j].id => i = j
  /\ \A i, j \in DOMAIN m.generations : m.generations[i].id = m.generations[j].id => i = j
  /\ m.schema = 1 => Len(m.generations) = 1
  /\ \A i \in DOMAIN m.schedule : Drawn(m, i)

\* The rounds of the pool that the day at i was drawn from that are still free.
Free(m, i) ==
  (DOMAIN PoolRounds[Generation(m, m.schedule[i].gen).pool] \cap OneHop)
    \ {m.schedule[k].id : k \in 1 .. i}

\* The day at i repeats the day before it only if each of them would.
ForcedDay(m, i) ==
  Conflict(m.schedule[i].id, m.schedule[i - 1].id) =>
    \A r \in Free(m, i) : Conflict(r, m.schedule[i - 1].id)

Forced(m) == \A i \in 2 .. Len(m.schedule) : ForcedDay(m, i)

\* The manifest of a copy is sane, its repeats are forced, and its live rounds are
\* a pool as it was generated.
CopyInv(copy) ==
  /\ copy.manifest # NoManifest => Sane(copy.manifest) /\ Forced(copy.manifest)
  /\ copy.files[Live] # NoFile
  /\ copy.files[Live] = RoundsFile(copy.files[Live].pool)

\* What is published has passed the gate.
Gated == site.manifest # NoManifest => Publishable(site)

\* The day at i of m is the day at i of m2, whatever its generation is called.
Stands(m, m2, i) ==
  /\ i \in DOMAIN m2.schedule
  /\ m2.schedule[i].date = m.schedule[i].date
  /\ m2.schedule[i].id = m.schedule[i].id
  /\ m2.schedule[i].fp = m.schedule[i].fp

\* The working copy keeps what is published, but for what the migrations that wait
\* for their publication may replace.
KeepInv ==
  site.manifest # NoManifest =>
    /\ tree.manifest # NoManifest
    /\ \A i \in DOMAIN site.manifest.schedule :
         \/ Stands(site.manifest, tree.manifest, i)
         \/ migrated # NoDay /\ site.manifest.schedule[i].date >= migrated + _MIN_CUTOVER_LEAD_DAYS

\* The published calendar gives d the round and the content v.
Fixed(d, v) ==
  /\ site.manifest # NoManifest
  /\ \E i \in DOMAIN site.manifest.schedule :
       /\ site.manifest.schedule[i].date = d
       /\ v = <<site.manifest.schedule[i].id, site.manifest.schedule[i].fp>>

\* A page is open on a date its player may have reached; the manifest it holds
\* gives the date what the published one gives it, unless a migration overtook it.
PageInv ==
  page # NoPage =>
    /\ page.date <= day + 1
    /\ page.pc = "resolve" /\ page.date \notin overtaken =>
         \A i \in DOMAIN page.manifest.schedule :
           page.manifest.schedule[i].date = page.date =>
             Fixed(page.date, <<page.manifest.schedule[i].id, page.manifest.schedule[i].fp>>)

\* What was dealt for a date that no migration overtook is what the published
\* calendar gives it.
ShownInv ==
  \A d \in Days : \A v \in shown[d] : d <= day + 1 /\ (d \notin overtaken => Fixed(d, v))

\* A page is open only of a site with a calendar.
Opened == page # NoPage => site.manifest # NoManifest

IInv == TypeOK /\ CopyInv(tree) /\ CopyInv(site) /\ Gated /\ Opened

FrozenInv == IInv /\ KeepInv /\ PageInv /\ ShownInv

----------------------------------------------------------------------------
(* Manifests.                                                               *)

\* What a manifest is made of.
LEMMA ManifestTyped ==
  ASSUME NEW m \in Manifest
  PROVE  /\ m.schema \in {1, 2} /\ m.start \in Nat /\ m.schedule \in Seq(Entry)
         /\ Len(m.generations) \in Nat /\ DOMAIN m.generations = 1 .. Len(m.generations)
         /\ \A j \in DOMAIN m.generations :
              /\ m.generations[j].id \in Generations \cup {NoGeneration}
              /\ m.generations[j].pool \in Pools /\ m.generations[j].url \in Urls
         /\ \A i \in DOMAIN m.schedule :
              /\ m.schedule[i] \in Entry /\ m.schedule[i].date \in Nat
              /\ m.schedule[i].id \in Rounds /\ m.schedule[i].fp \in Contents
              /\ m.schedule[i].gen \in Generations \cup {NoGeneration}
<1> DEFINE G == [id : Generations \cup {NoGeneration}, pool : Pools, url : Urls]
<1>1. /\ m.schema \in {1, 2} /\ m.start \in Nat /\ m.schedule \in Seq(Entry)
      /\ m.generations \in Seq(G)
  BY DEF Manifest
<1>2. \A x \in G : /\ x.id \in Generations \cup {NoGeneration}
                   /\ x.pool \in Pools /\ x.url \in Urls
  OBVIOUS
<1>3. \A e \in Entry : /\ e.date \in Nat /\ e.id \in Rounds /\ e.fp \in Contents
                       /\ e.gen \in Generations \cup {NoGeneration}
  BY DEF Entry
<1> HIDE DEF G
<1>4. \A j \in DOMAIN m.generations : m.generations[j] \in G
  BY <1>1
<1>5. \A i \in DOMAIN m.schedule : m.schedule[i] \in Entry
  BY <1>1
<1>6. Len(m.generations) \in Nat /\ DOMAIN m.generations = 1 .. Len(m.generations)
  BY <1>1
<1> QED
  BY <1>1, <1>2, <1>3, <1>4, <1>5, <1>6

\* In a schedule without gaps the entries before a date are its first ones.
LEMMA BeforeIsPrefix ==
  ASSUME NEW entries \in Seq(Entry), NEW start \in Nat, NEW date \in Nat,
         \A i \in DOMAIN entries : entries[i].date = start + (i - 1)
  PROVE  \E l \in 0 .. Len(entries) :
           /\ EntriesBefore(entries, date) = SubSeq(entries, 1, l)
           /\ \A i \in DOMAIN entries : i <= l <=> entries[i].date < date
<1> DEFINE n == Len(entries)
           l == IF date <= start THEN 0 ELSE IF date - start < n THEN date - start ELSE n
           early == {i \in DOMAIN entries : entries[i].date < date}
<1>1. DOMAIN entries = 1 .. n /\ n \in Nat
  OBVIOUS
<1>2. l \in 0 .. n
  BY <1>1
<1>3. \A i \in DOMAIN entries : i <= l <=> entries[i].date < date
  BY <1>1
<1>4. early = 1 .. l
  BY <1>1, <1>2, <1>3
<1>5. Cardinality(1 .. l) = l
  <2> HIDE DEF l
  <2>1. l \in Int /\ 1 \in Int /\ l = IF 1 > l THEN 0 ELSE l - 1 + 1
    BY <1>1, <1>2
  <2> HIDE DEF n
  <2> QED
    BY <2>1, FS_Interval
<1>6. EntriesBefore(entries, date) = SubSeq(entries, 1, l)
  BY <1>4, <1>5 DEF EntriesBefore
<1> HIDE DEF l
<1> QED
  BY <1>2, <1>3, <1>6

\* A generation is found by its id.
LEMMA GenerationFound ==
  ASSUME NEW m \in Manifest,
         \A i, j \in DOMAIN m.generations : m.generations[i].id = m.generations[j].id => i = j,
         NEW j \in DOMAIN m.generations
  PROVE  /\ Generation(m, m.generations[j].id) = m.generations[j]
         /\ m.generations[j].id \in GenerationIds(m)
<1>1. \A x \in ToSet(m.generations) : x.id = m.generations[j].id => x = m.generations[j]
  BY DEF ToSet
<1>2. m.generations[j] \in ToSet(m.generations)
  BY DEF ToSet
<1> QED
  BY <1>1, <1>2 DEF Generation, GenerationIds

\* What a pool holds when it is the live one.
LEMMA PoolFile ==
  ASSUME NEW p \in Pools, ConstantsFit
  PROVE  /\ RoundsFile(p) \in File /\ RoundsFile(p).pool = p /\ RoundsFile(p).rounds = PoolRounds[p]
         /\ DOMAIN PoolRounds[p] \in SUBSET Rounds
         /\ \A r \in DOMAIN PoolRounds[p] : PoolRounds[p][r] \in Contents
         /\ Eligible(RoundsFile(p)) = DOMAIN PoolRounds[p] \cap OneHop
         /\ \A ids : IsFiniteSet(Eligible(RoundsFile(p)) \ ids)
<1>1. RoundsFile(p) \in File
  BY DEF ConstantsFit
<1>2. RoundsFile(p).pool = p /\ RoundsFile(p).rounds = PoolRounds[p]
  BY DEF RoundsFile
<1>3. PICK ids \in SUBSET Rounds : PoolRounds[p] \in [ids -> Contents]
  BY <1>1, <1>2 DEF File
<1>4. Eligible(RoundsFile(p)) = DOMAIN PoolRounds[p] \cap OneHop
  BY <1>2 DEF Eligible
<1>5. ASSUME NEW used
      PROVE  IsFiniteSet(Eligible(RoundsFile(p)) \ used)
  <2>1. Eligible(RoundsFile(p)) \ used \in SUBSET Rounds
    BY <1>3, <1>4
  <2> QED
    BY <2>1, FS_Subset DEF ConstantsFit
<1> QED
  BY <1>1, <1>2, <1>3, <1>4, <1>5

\* New days begin on the date they were asked for.
LEMMA NewEntriesBegin ==
  ASSUME NEW ids, IsFiniteSet(ids), ids # {}, NEW file, NEW before, NEW first \in Nat,
         NEW days \in Nat \ {0}, NEW g, NEW new \in NewEntries(ids, file, before, first, days, g)
  PROVE  new[1].date = first
<1>1. PICK n \in Nat, c \in Nat : \E s : Dealt(new, ids, file, before, first, g, n, c, s)
  BY NewEntriesDealt
<1> QED
  BY <1>1 DEF Dealt

\* New days are entries, and there is at least one.
LEMMA NewEntriesTyped ==
  ASSUME ConstantsFit, NEW p \in Pools, NEW used, NEW ids, ids = Eligible(RoundsFile(p)) \ used,
         ids # {}, NEW before, NEW first \in Nat, NEW days \in Nat \ {0},
         NEW g \in Generations \cup {NoGeneration},
         NEW new \in NewEntries(ids, RoundsFile(p), before, first, days, g)
  PROVE  new \in Seq(Entry) /\ Len(new) >= 1
<1>1. IsFiniteSet(ids)
  BY PoolFile
<1>2. PICK n \in Nat, c \in Nat : \E s : Dealt(new, ids, RoundsFile(p), before, first, g, n, c, s)
  BY <1>1, NewEntriesDealt
<1>3. PICK s : Dealt(new, ids, RoundsFile(p), before, first, g, n, c, s)
  BY <1>2
<1>4. \A r \in ids : r \in Rounds /\ RoundsFile(p).rounds[r] \in Contents
  BY PoolFile
<1>5. \A k \in 1 .. c : s[k] \in ids
  BY <1>3 DEF Dealt, Orders
<1>6. \A k \in 1 .. c : [date |-> first + k - 1, id |-> s[k],
                         fp |-> RoundsFile(p).rounds[s[k]], gen |-> g] \in Entry
  BY <1>4, <1>5 DEF Entry
<1>7. new \in [1 .. c -> Entry]
  BY <1>3, <1>6 DEF Dealt
<1>8. c >= 1
  BY <1>3 DEF Dealt
<1> QED
  BY <1>7, <1>8

\* The generations of m are told apart, and kept are days a manifest with them may hold.
OldDays(m, kept) ==
  /\ \A i, j \in DOMAIN m.generations : m.generations[i].id = m.generations[j].id => i = j
  /\ m.schema = 1 => Len(m.generations) = 1
  /\ \A i \in DOMAIN kept : kept[i].date = m.start + (i - 1) /\ Drawn(m, i)
  /\ \A i, j \in DOMAIN kept : kept[i].id = kept[j].id => i = j
  /\ \A i \in 2 .. Len(kept) : ForcedDay(m, i)

\* new are days days drawn from the rounds of the pool p that kept leaves free, for
\* the generation g and the dates that follow.
Joins(m, kept, new, g, p, days) ==
  LET free == Eligible(RoundsFile(p)) \ Scheduled(kept)
  IN  /\ free # {}
      /\ new \in NewEntries(free, RoundsFile(p), IF kept = <<>> THEN <<>> ELSE <<Last(kept).id>>,
                            m.start + Len(kept), days, g)

\* A manifest whose schedule is an old one, or none, and new days drawn from the
\* pool of one of its generations is as sane as the old days are, and its repeats
\* are as forced, those at the joint too.
LEMMA JoinSane ==
  ASSUME ConstantsFit, NEW m \in Manifest, NEW kept \in Seq(Entry), NEW new, NEW days \in Nat \ {0},
         m.schedule = kept \o new, OldDays(m, kept), NEW top \in DOMAIN m.generations,
         Joins(m, kept, new, m.generations[top].id, m.generations[top].pool, days)
  PROVE  Sane(m) /\ Forced(m)
<1> DEFINE p == m.generations[top].pool
           g == m.generations[top].id
           ids == Eligible(RoundsFile(p)) \ Scheduled(kept)
           before == IF kept = <<>> THEN <<>> ELSE <<Last(kept).id>>
           l == Len(kept)
<1>1. /\ m.generations \in Seq([id : Generations \cup {NoGeneration}, pool : Pools, url : Urls])
      /\ m.start \in Nat
  BY DEF Manifest
<1>2. p \in Pools /\ g \in Generations \cup {NoGeneration}
  BY ManifestTyped
<1> HIDE DEF p, g
<1>3. ids # {} /\ IsFiniteSet(ids) /\ new \in NewEntries(ids, RoundsFile(p), before, m.start + l, days, g)
  BY <1>2, PoolFile DEF Joins, p, g
<1> DEFINE Deal(n, c, s) == Dealt(new, ids, RoundsFile(p), before, m.start + l, g, n, c, s)
<1> HIDE DEF ids, before, l
<1>4. \E n \in Nat, c \in Nat : \E s : Deal(n, c, s)
  BY <1>3, NewEntriesDealt
<1>5. PICK n \in Nat, c \in Nat : \E s : Deal(n, c, s)
  BY <1>4
<1>6. PICK s : Deal(n, c, s)
  BY <1>5
<1>7. /\ c \in 1 .. n /\ s \in Orders(n, ids)
      /\ \A r \in ids : \E k \in 1 .. n : s[k] = r
      /\ new = [k \in 1 .. c |-> [date |-> m.start + l + k - 1, id |-> s[k],
                                  fp |-> RoundsFile(p).rounds[s[k]], gen |-> g]]
      /\ \A k \in 2 .. n : ForcedAt(n, s, k, s[k - 1])
      /\ before # <<>> => ForcedAt(n, s, 1, before[1])
  BY <1>6 DEF Dealt
<1>8. /\ \A k \in 1 .. c : /\ new[k].date = m.start + l + k - 1 /\ new[k].id = s[k]
                           /\ new[k].fp = RoundsFile(p).rounds[s[k]]
                           /\ new[k].gen = g
      /\ new \in Seq(Entry) /\ Len(new) = c
  <2>1. l \in Nat /\ m.start + l \in Nat
    BY <1>1 DEF l
  <2>2. new \in Seq(Entry)
    BY <1>2, <1>3, <2>1, NewEntriesTyped DEF ids
  <2>3. DOMAIN new = 1 .. c
    BY <1>7
  <2>4. Len(new) = c
    BY <2>2, <2>3
  <2> QED
    BY <1>7, <2>2, <2>4
<1>9. /\ Len(m.schedule) = l + c /\ DOMAIN m.schedule = 1 .. l + c /\ l \in Nat /\ c >= 1 /\ c <= n
      /\ \A i \in 1 .. l : i \in DOMAIN kept /\ m.schedule[i] = kept[i]
      /\ \A i \in DOMAIN kept : i \in 1 .. l
      /\ \A k \in 1 .. c : m.schedule[l + k] = new[k]
  BY <1>7, <1>8 DEF l
<1>10. /\ \A i \in 1 .. n, j \in 1 .. n : s[i] = s[j] => i = j
      /\ \A i \in 1 .. n : /\ s[i] \in Eligible(RoundsFile(p))
                           /\ \A j \in 1 .. l : m.schedule[j].id # s[i]
  BY <1>7, <1>9 DEF Orders, Scheduled, ids
<1>11. \A i \in DOMAIN m.schedule : i \notin 1 .. l => \E k \in 1 .. c : i = l + k
  <2> SUFFICES ASSUME NEW i \in DOMAIN m.schedule, i \notin 1 .. l
               PROVE  \E k \in 1 .. c : i = l + k
    OBVIOUS
  <2>1. i - l \in 1 .. c /\ i = l + (i - l)
    BY <1>9
  <2> QED
    BY <2>1
<1>12. \A k \in 1 .. c : k \in 1 .. n /\ l + k \in DOMAIN m.schedule /\ m.schedule[l + k].id = s[k]
  <2> SUFFICES ASSUME NEW k \in 1 .. c
               PROVE  k \in 1 .. n /\ l + k \in DOMAIN m.schedule /\ m.schedule[l + k].id = s[k]
    OBVIOUS
  <2>1. k \in 1 .. n /\ l + k \in 1 .. l + c
    BY <1>9
  <2>2. m.schedule[l + k] = new[k] /\ new[k].id = s[k]
    BY <1>8, <1>9
  <2> QED
    BY <1>9, <2>1, <2>2
<1>13. m.schedule # <<>> /\ m.generations # <<>>
  BY <1>1, <1>9 DEF p
<1>14. \A i \in DOMAIN m.schedule : m.schedule[i].date = m.start + (i - 1)
  <2> SUFFICES ASSUME NEW i \in DOMAIN m.schedule PROVE m.schedule[i].date = m.start + (i - 1)
    OBVIOUS
  <2>1. CASE i \in 1 .. l
    BY <1>9, <2>1 DEF OldDays
  <2>2. CASE i \notin 1 .. l
    <3>1. PICK k \in 1 .. c : i = l + k
      BY <1>11, <2>2
    <3>2. m.schedule[i] = new[k] /\ new[k].date = m.start + l + k - 1
      BY <1>8, <1>9, <3>1
    <3> QED
      BY <1>1, <1>9, <3>1, <3>2
  <2> QED
    BY <2>1, <2>2
<1>15. ASSUME NEW i \in DOMAIN m.schedule, NEW j \in DOMAIN m.schedule,
              m.schedule[i].id = m.schedule[j].id
       PROVE  i = j
  <2>1. CASE i \in 1 .. l /\ j \in 1 .. l
    <3>1. i \in DOMAIN kept /\ j \in DOMAIN kept /\ kept[i].id = kept[j].id
      BY <1>9, <1>15, <2>1
    <3> QED
      BY <3>1 DEF OldDays
  <2>2. CASE i \in 1 .. l /\ j \notin 1 .. l
    BY <1>10, <1>11, <1>12, <1>15, <2>2
  <2>3. CASE i \notin 1 .. l /\ j \in 1 .. l
    BY <1>10, <1>11, <1>12, <1>15, <2>3
  <2>4. CASE i \notin 1 .. l /\ j \notin 1 .. l
    BY <1>10, <1>11, <1>12, <1>15, <2>4
  <2> QED
    BY <2>1, <2>2, <2>3, <2>4
<1>16. ASSUME NEW i \in DOMAIN m.schedule
       PROVE  Drawn(m, i)
  <2>1. CASE i \in 1 .. l
    BY <1>9, <2>1 DEF OldDays
  <2>2. CASE i \notin 1 .. l
    <3>1. PICK k \in 1 .. c : i = l + k
      BY <1>11, <2>2
    <3>2. /\ m.schedule[i].gen = g /\ m.schedule[i].id = s[k]
          /\ m.schedule[i].fp = RoundsFile(p).rounds[s[k]]
      <4>1. m.schedule[i] = new[k]
        BY <1>9, <3>1
      <4> QED
        BY <1>8, <4>1
    <3>3. s[k] \in DOMAIN PoolRounds[p] \cap OneHop /\ RoundsFile(p).rounds = PoolRounds[p]
      BY <1>2, <1>10, <1>12, PoolFile
    <3> QED
      BY <3>2, <3>3 DEF Drawn, p, g
  <2> QED
    BY <2>1, <2>2
<1>17. ASSUME NEW i \in 2 .. Len(m.schedule)
       PROVE  ForcedDay(m, i)
  <2>1. CASE i \in 1 .. l
    <3>1. i \in 2 .. Len(kept)
      BY <1>9, <2>1 DEF l
    <3> QED
      BY <3>1 DEF OldDays
  <2>2. CASE i \notin 1 .. l
    <3>1. PICK k \in 1 .. c : i = l + k
      BY <1>9, <1>11, <2>2
    <3>2. m.schedule[i].gen = g /\ m.schedule[i].id = s[k] /\ k \in 1 .. n
      BY <1>8, <1>9, <1>12, <3>1
    <3>3. ForcedAt(n, s, k, m.schedule[i - 1].id)
      <4>1. CASE k >= 2
        <5>1. k - 1 \in 1 .. c /\ i - 1 = l + (k - 1) /\ k \in 2 .. n
          BY <1>9, <3>1, <3>2, <4>1
        <5>2. m.schedule[i - 1].id = s[k - 1]
          BY <1>12, <5>1
        <5> QED
          BY <1>7, <5>1, <5>2
      <4>2. CASE k = 1
        <5>1. i - 1 = l /\ l \in 1 .. l /\ kept # <<>>
          BY <1>9, <3>1, <4>2 DEF l
        <5>2. before[1] = m.schedule[i - 1].id /\ before # <<>>
          BY <1>9, <5>1 DEF before, Last, l
        <5> QED
          BY <1>7, <4>2, <5>2
      <4> QED
        BY <4>1, <4>2
    <3>4. Generation(m, m.schedule[i].gen).pool = p
      BY <3>2, GenerationFound DEF OldDays, p, g
    <3>5. ASSUME NEW r \in Free(m, i)
          PROVE  \E j \in k + 1 .. n : s[j] = r
      <4>1. r \in Eligible(RoundsFile(p)) /\ \A j \in 1 .. i : m.schedule[j].id # r
        BY <1>2, <3>4, PoolFile DEF Free
      <4>2. r \notin Scheduled(kept)
        <5>1. \A j \in DOMAIN kept : j \in 1 .. i /\ m.schedule[j] = kept[j]
          BY <1>9, <3>1 DEF l
        <5> QED
          BY <4>1, <5>1 DEF Scheduled
      <4>3. PICK j \in 1 .. n : s[j] = r
        BY <1>7, <4>1, <4>2 DEF ids
      <4>4. ~(j <= k)
        <5>1. j <= k => j \in 1 .. c /\ l + j \in 1 .. i
          BY <1>9, <3>1
        <5> QED
          BY <1>12, <4>1, <4>3, <5>1
      <4> QED
        BY <3>2, <4>3, <4>4
    <3> QED
      BY <3>2, <3>3, <3>5 DEF ForcedDay, ForcedAt
  <2> QED
    BY <2>1, <2>2
<1> QED
  BY <1>13, <1>14, <1>15, <1>16, <1>17 DEF Sane, Forced, OldDays

\* m2 takes the days kept over from m, with the generations they were drawn from.
Carries(m, m2, kept) ==
  /\ Len(kept) <= Len(m.schedule) /\ Len(kept) <= Len(m2.schedule)
  /\ \A i \in DOMAIN kept : kept[i] = m.schedule[i] /\ m2.schedule[i] = m.schedule[i]
  /\ m2.start = m.start
  /\ m2.schema = 1 => Len(m2.generations) = 1
  /\ \A i, j \in DOMAIN m2.generations : m2.generations[i].id = m2.generations[j].id => i = j
  /\ \A j \in DOMAIN m.generations :
       /\ j \in DOMAIN m2.generations
       /\ m2.generations[j].id = m.generations[j].id
       /\ m2.generations[j].pool = m.generations[j].pool

\* Days taken over are days m2 may hold.
LEMMA CarriedDays ==
  ASSUME NEW m \in Manifest, NEW m2 \in Manifest, Sane(m), Forced(m), NEW kept \in Seq(Entry),
         Carries(m, m2, kept)
  PROVE  OldDays(m2, kept)
<1>1. /\ m.schedule \in Seq(Entry) /\ m2.schedule \in Seq(Entry)
      /\ DOMAIN kept = 1 .. Len(kept) /\ Len(kept) \in Nat
      /\ DOMAIN m.schedule = 1 .. Len(m.schedule) /\ Len(m.schedule) \in Nat
  BY ManifestTyped
<1>2. \A i \in DOMAIN kept : i \in DOMAIN m.schedule /\ kept[i] = m.schedule[i]
                            /\ m2.schedule[i] = m.schedule[i]
  BY <1>1 DEF Carries
<1>3. \A i \in DOMAIN kept : kept[i].date = m2.start + (i - 1)
  BY <1>2 DEF Sane, Carries
<1>4. \A i, j \in DOMAIN kept : kept[i].id = kept[j].id => i = j
  BY <1>2 DEF Sane
<1>5. ASSUME NEW i \in DOMAIN kept
      PROVE  Drawn(m2, i)
  <2>1. Drawn(m, i) /\ m2.schedule[i] = m.schedule[i]
    BY <1>2 DEF Sane
  <2> QED
    BY <2>1 DEF Drawn, Carries
<1>6. ASSUME NEW i \in 2 .. Len(kept)
      PROVE  ForcedDay(m2, i)
  <2>1. ForcedDay(m, i) /\ i \in 1 .. Len(kept) /\ i - 1 \in 1 .. Len(kept)
    BY <1>1 DEF Forced, Carries
  <2>2. \A k \in 1 .. i : m2.schedule[k] = m.schedule[k]
    BY <1>1, <1>2
  <2>3. Generation(m, m.schedule[i].gen).pool = Generation(m2, m2.schedule[i].gen).pool
    <3>1. PICK j \in DOMAIN m.generations : m.schedule[i].gen = m.generations[j].id
      BY <1>1, <1>2, <2>1 DEF Sane, Drawn
    <3>2. Generation(m, m.generations[j].id) = m.generations[j]
      BY GenerationFound DEF Sane
    <3>3. Generation(m2, m2.generations[j].id) = m2.generations[j]
      BY GenerationFound DEF Carries
    <3> QED
      BY <1>1, <2>1, <2>2, <3>1, <3>2, <3>3 DEF Carries
  <2>4. Free(m2, i) = Free(m, i)
    BY <2>2, <2>3 DEF Free
  <2>5. m2.schedule[i] = m.schedule[i] /\ m2.schedule[i - 1] = m.schedule[i - 1]
    BY <1>1, <1>2, <2>1
  <2> QED
    BY <2>1, <2>4, <2>5 DEF ForcedDay
<1> QED
  BY <1>3, <1>4, <1>5, <1>6 DEF OldDays, Carries

----------------------------------------------------------------------------
(* The commands.                                                            *)

\* What a command may do: the working copy stays well made, and of its schedule it
\* takes away at most days _MIN_CUTOVER_LEAD_DAYS after the day the first migration
\* that waits was generated at, by what it was told.
Edits ==
  /\ tree' \in Copy /\ CopyInv(tree')
  /\ tree.manifest # NoManifest =>
       /\ tree'.manifest # NoManifest
       /\ \A i \in DOMAIN tree.manifest.schedule :
            \/ Stands(tree.manifest, tree'.manifest, i)
            \/ /\ migrated' # NoDay
               /\ tree.manifest.schedule[i].date >= migrated' + _MIN_CUTOVER_LEAD_DAYS
  /\ UNCHANGED <<site, day, page, shown, overtaken>>
  /\ \/ migrated' = migrated
     \/ migrated' \in 0 .. LastDay /\ (migrated = NoDay \/ migrated' <= migrated)
  /\ commands' \in 0 .. MaxCommands

\* A well made manifest makes a well made copy.
LEMMA WriteMakes ==
  ASSUME NothingIsNothing, NEW copy \in Copy, CopyInv(copy), NEW m \in Manifest, Sane(m), Forced(m)
  PROVE  /\ [copy EXCEPT !.manifest = m] \in Copy /\ CopyInv([copy EXCEPT !.manifest = m])
         /\ [copy EXCEPT !.manifest = m].manifest = m /\ m # NoManifest
<1> DEFINE c == [copy EXCEPT !.manifest = m]
<1>1. c.manifest = m /\ c.files = copy.files /\ c \in Copy
  BY DEF Copy
<1>2. m # NoManifest
  BY DEF NothingIsNothing
<1> HIDE DEF c
<1>3. CopyInv(c)
  BY <1>1 DEF CopyInv
<1> QED
  BY <1>1, <1>2, <1>3 DEF c

\* The live rounds are the pool they say.
LEMMA LiveRounds ==
  ASSUME ConstantsFit, NothingIsNothing, NEW copy \in Copy, CopyInv(copy)
  PROVE  /\ copy.files[Live].pool \in Pools
         /\ copy.files[Live] = RoundsFile(copy.files[Live].pool)
<1>1. copy.files \in [Urls -> File \cup {NoFile}] /\ Live \in Urls
  BY DEF Copy, ConstantsFit
<1>2. copy.files[Live] \in File
  BY <1>1 DEF CopyInv
<1> QED
  BY <1>2 DEF File, CopyInv

\* The first build.
LEMMA BuildEdits ==
  ASSUME ConstantsFit, NothingIsNothing, TypeOK, CopyInv(tree),
         NEW start \in StartDates, NEW days \in BuildDays,
         build_connection_daily_manifest(start, days)
  PROVE  Edits
<1> DEFINE p == tree.files[Live].pool
           file == RoundsFile(p)
           G == [id : Generations \cup {NoGeneration}, pool : Pools, url : Urls]
<1>1. tree \in Copy /\ days \in Nat \ {0} /\ start \in Nat
  BY DEF TypeOK, ConstantsFit
<1>2. p \in Pools /\ tree.files[Live] = file
  BY <1>1, LiveRounds
<1> HIDE DEF p, file
<1>3. /\ tree.manifest = NoManifest /\ Eligible(file) # {}
      /\ \E new \in NewEntries(Eligible(file), file, <<>>, start, days, NoGeneration) :
           Write([schema |-> 1, start |-> start, schedule |-> new,
                  generations |-> <<[id |-> NoGeneration, pool |-> p, url |-> Live]>>])
      /\ UNCHANGED <<Outside, migrated, commands>>
  BY <1>2 DEF build_connection_daily_manifest, p
<1>4. PICK new \in NewEntries(Eligible(file), file, <<>>, start, days, NoGeneration) :
        Write([schema |-> 1, start |-> start, schedule |-> new,
               generations |-> <<[id |-> NoGeneration, pool |-> p, url |-> Live]>>])
  BY <1>3
<1> DEFINE m == [schema |-> 1, start |-> start, schedule |-> new,
                 generations |-> <<[id |-> NoGeneration, pool |-> p, url |-> Live]>>]
<1>5. Eligible(file) \ {} = Eligible(file) /\ Scheduled(<<>>) = {}
  BY DEF Scheduled
<1>6. new \in Seq(Entry) /\ Len(new) >= 1
  BY <1>1, <1>2, <1>3, <1>5, NewEntriesTyped DEF file
<1>7. m \in Manifest /\ m.generations = <<[id |-> NoGeneration, pool |-> p, url |-> Live]>>
      /\ m.start = start /\ m.schedule = new
  <2>1. [id |-> NoGeneration, pool |-> p, url |-> Live] \in G
    BY <1>2 DEF ConstantsFit
  <2> HIDE DEF G
  <2>2. <<[id |-> NoGeneration, pool |-> p, url |-> Live]>> \in Seq(G)
    BY <2>1
  <2> QED
    BY <1>1, <1>6, <2>2 DEF Manifest, G
<1> HIDE DEF m
<1>8. /\ DOMAIN m.generations = {1} /\ m.generations[1].id = NoGeneration
      /\ m.generations[1].pool = p /\ Len(m.generations) = 1
  BY <1>7
<1>9. OldDays(m, <<>>)
  <2>1. <<>> \in Seq(Entry) /\ Len(<<>>) = 0 /\ DOMAIN <<>> = {} /\ 2 .. 0 = {}
    OBVIOUS
  <2> QED
    BY <1>8, <2>1 DEF OldDays
<1>10. Joins(m, <<>>, new, NoGeneration, p, days)
  <2>1. m.start + Len(<<>>) = start
    BY <1>1, <1>7
  <2> QED
    BY <1>3, <1>4, <1>5, <2>1 DEF Joins, file
<1>11. Sane(m) /\ Forced(m)
  <2>1. <<>> \in Seq(Entry) /\ m.schedule = <<>> \o new /\ 1 \in DOMAIN m.generations
    BY <1>6, <1>7, <1>8
  <2> QED
    BY <1>1, <1>7, <1>8, <1>9, <1>10, <2>1, JoinSane
<1>12. tree' \in Copy /\ CopyInv(tree')
  <2>1. tree' = [tree EXCEPT !.manifest = m]
    BY <1>4 DEF Write, m
  <2> QED
    BY <1>1, <1>7, <1>11, <2>1, WriteMakes
<1> QED
  BY <1>3, <1>12 DEF Edits, Outside, TypeOK

\* An extended manifest.
LEMMA ExtendedMakes ==
  ASSUME ConstantsFit, NEW m \in Manifest, Sane(m), Forced(m), NEW days \in Nat \ {0},
         NEW p, p = Newest(m).pool,
         Eligible(RoundsFile(p)) \ Scheduled(m.schedule) # {},
         NEW m2 \in Extended(m, RoundsFile(p), days)
  PROVE  /\ m2 \in Manifest /\ Sane(m2) /\ Forced(m2)
         /\ \A i \in DOMAIN m.schedule : Stands(m, m2, i)
<1> DEFINE g == Newest(m).id
           top == Len(m.generations)
           kept == m.schedule
           free == Eligible(RoundsFile(p)) \ Scheduled(kept)
           last == Last(kept)
<1>1. /\ kept \in Seq(Entry) /\ m.start \in Nat /\ kept # <<>> /\ Len(kept) \in Nat
      /\ top \in DOMAIN m.generations /\ m.generations[top] = Newest(m)
      /\ p \in Pools /\ g \in Generations \cup {NoGeneration}
  <2>1. top \in DOMAIN m.generations
    <3>1. m.generations # <<>> /\ DOMAIN m.generations = 1 .. top /\ top \in Nat
      BY ManifestTyped DEF Sane
    <3>2. top # 0
      <4>1. m.generations \in Seq([id : Generations \cup {NoGeneration}, pool : Pools, url : Urls])
        BY DEF Manifest
      <4> QED
        BY <3>1, <4>1
    <3> QED
      BY <3>1, <3>2
  <2>2. m.generations[top] = Newest(m)
    BY DEF Newest, Last
  <2>3. kept \in Seq(Entry) /\ m.start \in Nat /\ kept # <<>>
    BY ManifestTyped DEF Sane
  <2> QED
    BY <2>1, <2>2, <2>3, ManifestTyped
<1>2. Len(kept) \in DOMAIN kept /\ last = kept[Len(kept)]
  BY <1>1 DEF Last
<1>3. last.date + 1 = m.start + Len(kept) /\ m.start + Len(kept) \in Nat
  <2>1. last.date = m.start + (Len(kept) - 1)
    BY <1>2 DEF Sane
  <2>2. m.start \in Nat /\ Len(kept) \in Nat
    BY <1>1
  <2> HIDE DEF last, kept
  <2> QED
    BY <2>1, <2>2
<1> HIDE DEF g, top, free, last
<1>4. PICK new \in NewEntries(free, RoundsFile(p), <<last.id>>, last.date + 1, days, g) :
        m2 = [m EXCEPT !.schedule = @ \o new]
  BY DEF Extended, g, free, last
<1>5. new \in Seq(Entry) /\ Len(new) >= 1
  BY <1>1, <1>3, <1>4, NewEntriesTyped DEF free
<1>6. /\ m2 \in Manifest /\ m2.schedule = kept \o new /\ m2.start = m.start
      /\ m2.generations = m.generations /\ m2.schema = m.schema
  <2>1. kept \o new \in Seq(Entry)
    BY <1>1, <1>5
  <2> QED
    BY <1>4, <2>1 DEF Manifest
<1>7. /\ Len(kept) <= Len(m2.schedule) /\ DOMAIN kept = 1 .. Len(kept)
      /\ \A i \in DOMAIN kept : m2.schedule[i] = kept[i] /\ i \in DOMAIN m2.schedule
  BY <1>1, <1>5, <1>6
<1>8. OldDays(m2, kept)
  <2>1. Carries(m, m2, kept)
    BY <1>1, <1>6, <1>7 DEF Carries, Sane
  <2> QED
    BY <1>1, <1>6, <2>1, CarriedDays
<1>9. Joins(m2, kept, new, g, p, days)
  BY <1>1, <1>3, <1>4, <1>6 DEF Joins, free, last
<1>10. Sane(m2) /\ Forced(m2)
  <2>1. top \in DOMAIN m2.generations /\ m2.generations[top].id = g /\ m2.generations[top].pool = p
    BY <1>1, <1>6 DEF g
  <2> QED
    BY <1>1, <1>6, <1>8, <1>9, <2>1, JoinSane
<1>11. \A i \in DOMAIN m.schedule : Stands(m, m2, i)
  BY <1>7 DEF Stands
<1> QED
  BY <1>6, <1>10, <1>11

\* A command is counted.
LEMMA CommandCounts ==
  ASSUME ConstantsFit, TypeOK, Command
  PROVE  commands' \in 0 .. MaxCommands
BY DEF ConstantsFit, TypeOK, Command

\* Either extension.
LEMMA ExtendEdits ==
  ASSUME ConstantsFit, NothingIsNothing, TypeOK, CopyInv(tree), NEW days \in ExtendDays,
         \/ extend_connection_daily_manifest(days)
         \/ extend_connection_daily_manifest_v2(days)
  PROVE  Edits
<1> DEFINE m == tree.manifest
           p == Newest(m).pool
<1>1. tree \in Copy /\ days \in Nat \ {0} /\ m # NoManifest
  BY DEF TypeOK, ConstantsFit, extend_connection_daily_manifest, extend_connection_daily_manifest_v2
<1>2. m \in Manifest /\ Sane(m) /\ Forced(m)
  BY <1>1 DEF Copy, CopyInv
<1>3. /\ Newest(m).pool = tree.files[Live].pool
      /\ Eligible(tree.files[Live]) \ Scheduled(m.schedule) # {}
      /\ \E m2 \in Extended(m, tree.files[Live], days) : Write(m2)
      /\ UNCHANGED <<Outside, migrated>> /\ Command
  BY DEF extend_connection_daily_manifest, extend_connection_daily_manifest_v2
<1>4. tree.files[Live] = RoundsFile(p)
  BY <1>1, <1>3, LiveRounds
<1> HIDE DEF p
<1>5. PICK m2 \in Extended(m, RoundsFile(p), days) : Write(m2)
  BY <1>3, <1>4
<1>6. m2 \in Manifest /\ Sane(m2) /\ Forced(m2) /\ \A i \in DOMAIN m.schedule : Stands(m, m2, i)
  <2> HIDE DEF m
  <2> QED
    BY <1>1, <1>2, <1>3, <1>4, <1>5, ExtendedMakes DEF p
<1>7. tree' \in Copy /\ CopyInv(tree') /\ tree'.manifest = m2 /\ m2 # NoManifest
  BY <1>1, <1>5, <1>6, WriteMakes DEF Write
<1>8. commands' \in 0 .. MaxCommands
  BY <1>3, CommandCounts
<1> QED
  BY <1>3, <1>6, <1>7, <1>8 DEF Edits, Outside

\* The upgrade to schema 2: the one generation gets a name, the days stay.
LEMMA UpgradeEdits ==
  ASSUME ConstantsFit, NothingIsNothing, TypeOK, CopyInv(tree),
         NEW g \in Generations, NEW url \in Urls,
         upgrade_connection_daily_manifest_to_v2(g, url)
  PROVE  Edits
<1> DEFINE m == tree.manifest
           generation == [Newest(m) EXCEPT !.id = g, !.url = url]
           schedule == [i \in DOMAIN m.schedule |-> [m.schedule[i] EXCEPT !.gen = g]]
           m2 == [schema |-> 2, start |-> m.start, generations |-> <<generation>>, schedule |-> schedule]
           G == [id : Generations \cup {NoGeneration}, pool : Pools, url : Urls]
<1>1. /\ tree \in Copy /\ m # NoManifest /\ m.schema = 1 /\ Write(m2)
      /\ UNCHANGED <<Outside, migrated>> /\ Command
  BY DEF TypeOK, upgrade_connection_daily_manifest_to_v2
<1>2. m \in Manifest /\ Sane(m) /\ Forced(m)
  BY <1>1 DEF Copy, CopyInv
<1> HIDE DEF m
<1>3. /\ m.generations \in Seq(G) /\ m.schedule \in Seq(Entry) /\ m.start \in Nat
      /\ Len(m.generations) = 1 /\ Newest(m) = m.generations[1]
      /\ \A j \in DOMAIN m.generations : j = 1
  <2>1. m.generations \in Seq(G) /\ Len(m.generations) = 1
    BY <1>1, <1>2 DEF Manifest, Sane
  <2> HIDE DEF G
  <2> QED
    BY <1>2, <2>1, ManifestTyped DEF Newest, Last
<1>4. 1 \in DOMAIN m.generations /\ Newest(m) \in G
  <2> HIDE DEF G
  <2> QED
    BY <1>3
<1>5. generation \in G /\ generation.pool = m.generations[1].pool /\ generation.id = g
  BY <1>3, <1>4
<1>6. /\ schedule \in Seq(Entry) /\ DOMAIN schedule = DOMAIN m.schedule /\ Len(schedule) = Len(m.schedule)
      /\ \A i \in DOMAIN m.schedule : /\ schedule[i].date = m.schedule[i].date
                                      /\ schedule[i].id = m.schedule[i].id
                                      /\ schedule[i].fp = m.schedule[i].fp /\ schedule[i].gen = g
  <2>1. \A e \in Entry : /\ [e EXCEPT !.gen = g] \in Entry /\ [e EXCEPT !.gen = g].gen = g
                         /\ [e EXCEPT !.gen = g].date = e.date /\ [e EXCEPT !.gen = g].id = e.id
                         /\ [e EXCEPT !.gen = g].fp = e.fp
    BY DEF Entry
  <2>2. \A i \in DOMAIN m.schedule : m.schedule[i] \in Entry
    BY <1>3
  <2>3. DOMAIN m.schedule = 1 .. Len(m.schedule) /\ Len(m.schedule) \in Nat
    BY <1>3
  <2>4. schedule \in [1 .. Len(m.schedule) -> Entry]
    BY <2>1, <2>2, <2>3
  <2> QED
    BY <2>1, <2>2, <2>3, <2>4
<1>7. /\ m2 \in Manifest /\ m2.schedule = schedule /\ m2.generations = <<generation>>
      /\ m2.start = m.start /\ m2.schema = 2
  <2> HIDE DEF G, generation, schedule
  <2>1. <<generation>> \in Seq(G)
    BY <1>5
  <2> QED
    BY <1>3, <1>6, <2>1 DEF Manifest, G
<1> HIDE DEF m2, schedule, generation
<1>8. /\ DOMAIN m2.generations = {1} /\ m2.generations[1].pool = m.generations[1].pool
      /\ m2.generations[1].id = g /\ m2.generations # <<>>
  BY <1>5, <1>7
<1>9. \A i \in DOMAIN m.schedule : Stands(m, m2, i)
  BY <1>6, <1>7 DEF Stands
<1>10. \A i \in DOMAIN m2.schedule : Drawn(m2, i)
  <2> SUFFICES ASSUME NEW i \in DOMAIN m.schedule PROVE Drawn(m2, i)
    BY <1>6, <1>7
  <2>1. Drawn(m, i)
    BY <1>2 DEF Sane
  <2> DEFINE rounds == PoolRounds[m.generations[1].pool]
  <2>2. m.schedule[i].id \in DOMAIN rounds \cap OneHop /\ m.schedule[i].fp = rounds[m.schedule[i].id]
    BY <1>3, <2>1 DEF Drawn
  <2>3. m2.schedule[i].gen = g /\ m2.schedule[i].id = m.schedule[i].id /\ m2.schedule[i].fp = m.schedule[i].fp
    BY <1>6, <1>7
  <2> QED
    BY <1>8, <2>2, <2>3 DEF Drawn
<1>11. Sane(m2)
  <2>1. /\ m.schedule # <<>>
        /\ \A i \in DOMAIN m.schedule : m.schedule[i].date = m.start + (i - 1)
        /\ \A i, j \in DOMAIN m.schedule : m.schedule[i].id = m.schedule[j].id => i = j
    BY <1>2 DEF Sane
  <2>2. m2.schedule # <<>>
    BY <1>3, <1>6, <1>7, <2>1
  <2>3. \A i \in DOMAIN m2.schedule : m2.schedule[i].date = m2.start + (i - 1)
    BY <1>6, <1>7, <2>1
  <2>4. \A i, j \in DOMAIN m2.schedule : m2.schedule[i].id = m2.schedule[j].id => i = j
    BY <1>6, <1>7, <2>1
  <2> QED
    BY <1>7, <1>8, <1>10, <2>2, <2>3, <2>4 DEF Sane
<1>12. ASSUME NEW i \in 2 .. Len(m2.schedule)
       PROVE  ForcedDay(m2, i)
  <2>1. i \in 2 .. Len(m.schedule) /\ ForcedDay(m, i)
    BY <1>2, <1>6, <1>7 DEF Forced
  <2>2. /\ \A k \in 1 .. i : k \in DOMAIN m.schedule /\ m2.schedule[k].id = m.schedule[k].id
        /\ i \in DOMAIN m.schedule /\ i \in 1 .. i /\ i - 1 \in 1 .. i
    BY <1>3, <1>6, <1>7, <2>1
  <2>3. Generation(m2, m2.schedule[i].gen).pool = m.generations[1].pool
    <3>1. Generation(m2, m2.generations[1].id) = m2.generations[1]
      BY <1>7, <1>8, <1>11, GenerationFound DEF Sane
    <3> QED
      BY <1>6, <1>7, <1>8, <2>2, <3>1
  <2>4. Generation(m, m.schedule[i].gen).pool = m.generations[1].pool
    <3>1. m.schedule[i].gen = m.generations[1].id
      BY <1>2, <1>3, <2>2 DEF Sane, Drawn
    <3>2. Generation(m, m.generations[1].id) = m.generations[1]
      BY <1>2, <1>4, GenerationFound DEF Sane
    <3> QED
      BY <3>1, <3>2
  <2>5. Free(m2, i) = Free(m, i)
    BY <2>2, <2>3, <2>4 DEF Free
  <2> QED
    BY <2>1, <2>2, <2>5 DEF ForcedDay
<1>13. tree' \in Copy /\ CopyInv(tree') /\ tree'.manifest = m2 /\ m2 # NoManifest
  BY <1>1, <1>7, <1>11, <1>12, WriteMakes DEF Write, Forced
<1>14. commands' \in 0 .. MaxCommands
  BY <1>1, CommandCounts
<1> QED
  BY <1>1, <1>9, <1>13, <1>14 DEF Edits, Outside, m

\* A manifest that keeps all days and all generations, but for their URLs.
LEMMA SameDays ==
  ASSUME NEW m \in Manifest, Sane(m), Forced(m), NEW m2 \in Manifest, Carries(m, m2, m.schedule),
         m2.schedule = m.schedule
  PROVE  Sane(m2) /\ Forced(m2) /\ \A i \in DOMAIN m.schedule : Stands(m, m2, i)
<1>1. OldDays(m2, m2.schedule)
  BY ManifestTyped, CarriedDays
<1>2. m2.schedule # <<>> /\ m2.generations # <<>>
  <2>1. m.generations # <<>> /\ DOMAIN m.generations = 1 .. Len(m.generations) /\ Len(m.generations) \in Nat
    BY ManifestTyped DEF Sane
  <2>2. m.generations \in Seq([id : Generations \cup {NoGeneration}, pool : Pools, url : Urls])
    BY DEF Manifest
  <2>3. 1 \in DOMAIN m.generations
    BY <2>1, <2>2
  <2>4. 1 \in DOMAIN m2.generations
    BY <2>3 DEF Carries
  <2>5. m2.generations # <<>>
    BY <2>4
  <2> QED
    BY <2>5 DEF Sane
<1>3. Sane(m2) /\ Forced(m2)
  BY <1>1, <1>2 DEF OldDays, Sane, Forced
<1>4. \A i \in DOMAIN m.schedule : Stands(m, m2, i)
  BY DEF Stands
<1> QED
  BY <1>3, <1>4

\* Freezing a generation: a copy of its rounds, then its URL; no day changes, and the
\* live rounds do not, even when it is their URL that is named.
LEMMA FreezeEdits ==
  ASSUME ConstantsFit, NothingIsNothing, TypeOK, CopyInv(tree),
         NEW g \in Generations, NEW source \in Urls, NEW url \in Urls,
         freeze_generation(g, source, url)
  PROVE  Edits
<1> DEFINE m == tree.manifest
           files == [tree.files EXCEPT ![url] = tree.files[source]]
           repointed == repoint_connection_daily_manifest_generation(m, g, url)
           G == [id : Generations \cup {NoGeneration}, pool : Pools, url : Urls]
<1>1. /\ tree \in Copy /\ m # NoManifest /\ tree.files[source] # NoFile
      /\ tree.files[url] \in {NoFile, tree.files[source]}
      /\ m.schema = 2
      /\ \E m2 \in {m, repointed} : tree' = [manifest |-> m2, files |-> files]
      /\ UNCHANGED <<Outside, migrated>> /\ Command
  BY DEF TypeOK, freeze_generation, MayRepoint
<1>2. m \in Manifest /\ Sane(m) /\ Forced(m) /\ tree.files \in [Urls -> File \cup {NoFile}]
  BY <1>1 DEF Copy, CopyInv
<1>3. PICK m2 \in {m, repointed} : tree' = [manifest |-> m2, files |-> files]
  BY <1>1
<1> HIDE DEF m
<1>4. /\ repointed \in Manifest /\ repointed.schedule = m.schedule /\ repointed.start = m.start
      /\ repointed.schema = 2 /\ DOMAIN repointed.generations = DOMAIN m.generations
      /\ \A j \in DOMAIN m.generations : /\ repointed.generations[j].id = m.generations[j].id
                                         /\ repointed.generations[j].pool = m.generations[j].pool
  <2> DEFINE generations == [j \in DOMAIN m.generations |->
                               IF m.generations[j].id = g THEN [m.generations[j] EXCEPT !.url = url]
                               ELSE m.generations[j]]
  <2>1. m.generations \in Seq(G)
    BY <1>2 DEF Manifest
  <2>2. \A x \in G : /\ [x EXCEPT !.url = url] \in G /\ [x EXCEPT !.url = url].id = x.id
                     /\ [x EXCEPT !.url = url].pool = x.pool
    OBVIOUS
  <2>3. repointed = [m EXCEPT !.generations = generations]
    BY DEF repoint_connection_daily_manifest_generation
  <2>4. /\ generations \in Seq(G)
        /\ \A j \in DOMAIN m.generations : /\ generations[j].id = m.generations[j].id
                                           /\ generations[j].pool = m.generations[j].pool
    <3> HIDE DEF G
    <3>1. /\ DOMAIN m.generations = 1 .. Len(m.generations) /\ Len(m.generations) \in Nat
          /\ \A j \in DOMAIN m.generations : m.generations[j] \in G
      BY <2>1
    <3>2. generations \in [1 .. Len(m.generations) -> G]
      BY <2>2, <3>1
    <3> QED
      BY <2>2, <3>1, <3>2
  <2>5. DOMAIN generations = DOMAIN m.generations
    OBVIOUS
  <2> HIDE DEF generations
  <2> QED
    BY <1>1, <1>2, <2>3, <2>4, <2>5 DEF Manifest, m
<1> HIDE DEF repointed
<1>5. Carries(m, repointed, m.schedule)
  <2>1. Len(m.schedule) \in Nat /\ \A i, j \in DOMAIN m.generations : m.generations[i].id = m.generations[j].id => i = j
    BY <1>2, ManifestTyped DEF Sane
  <2> QED
    BY <1>4, <2>1 DEF Carries
<1>6. Sane(m2) /\ Forced(m2) /\ m2 \in Manifest /\ \A i \in DOMAIN m.schedule : Stands(m, m2, i)
  <2>1. CASE m2 = m
    BY <1>2, <2>1 DEF Stands
  <2>2. CASE m2 = repointed
    BY <1>2, <1>4, <1>5, <2>2, SameDays
  <2> QED
    BY <2>1, <2>2
<1>7. files \in [Urls -> File \cup {NoFile}] /\ files[Live] = tree.files[Live]
  <2>1. Live \in Urls /\ tree.files[Live] # NoFile
    BY DEF ConstantsFit, CopyInv
  <2> QED
    BY <1>1, <1>2, <2>1
<1> HIDE DEF files
<1>8. tree' \in Copy /\ CopyInv(tree') /\ tree'.manifest = m2 /\ m2 # NoManifest
  <2>1. tree'.manifest = m2 /\ tree'.files = files /\ tree' \in Copy
    BY <1>3, <1>6, <1>7 DEF Copy
  <2>2. m2 # NoManifest
    BY <1>6 DEF NothingIsNothing
  <2> QED
    BY <1>6, <1>7, <2>1, <2>2 DEF CopyInv
<1>9. commands' \in 0 .. MaxCommands
  BY <1>1, CommandCounts
<1> QED
  BY <1>1, <1>6, <1>8, <1>9 DEF Edits, Outside, m

\* A migration: what it keeps are the first days, those before the cutover, and what
\* it replaces is _MIN_CUTOVER_LEAD_DAYS after the day it names.
LEMMA MigrateEdits ==
  ASSUME ConstantsFit, NothingIsNothing, TypeOK, CopyInv(tree),
         NEW cutover \in Days, NEW g \in Generations, NEW days \in ExtendDays,
         NEW generated_at \in 0 .. LastDay,
         migrate_connection_daily_manifest_generation(cutover, g, days, generated_at)
  PROVE  Edits
<1> DEFINE m == tree.manifest
           p == tree.files[Live].pool
           file == RoundsFile(p)
           kept == EntriesBefore(m.schedule, cutover)
           free == Eligible(file) \ Scheduled(kept)
           generation == [id |-> g, pool |-> p, url |-> Live]
           before == IF kept = <<>> THEN <<>> ELSE <<Last(kept).id>>
           Migrated(new) == [m EXCEPT !.generations = Append(@, generation), !.schedule = kept \o new]
           G == [id : Generations \cup {NoGeneration}, pool : Pools, url : Urls]
<1>1. /\ tree \in Copy /\ m # NoManifest /\ m.schema = 2
      /\ days \in Nat \ {0} /\ cutover \in Nat
      /\ p \in Pools /\ tree.files[Live] = file
  <2>1. tree \in Copy /\ m # NoManifest /\ m.schema = 2
    BY DEF TypeOK, migrate_connection_daily_manifest_generation
  <2>2. days \in Nat \ {0} /\ cutover \in Nat
    BY DEF ConstantsFit, Days
  <2> QED
    BY <2>1, <2>2, LiveRounds
<1>2. m \in Manifest /\ Sane(m) /\ Forced(m)
  BY <1>1 DEF Copy, CopyInv
<1> HIDE DEF file
<1>3. /\ cutover >= generated_at + _MIN_CUTOVER_LEAD_DAYS
      /\ g \notin GenerationIds(m)
      /\ kept # <<>> => cutover = Last(kept).date + 1
      /\ free # {}
      /\ \E new \in NewEntries(free, file, before, cutover, days, g) :
           /\ WellFormed(Migrated(new))
           /\ Write(Migrated(new))
      /\ migrated' = IF migrated = NoDay \/ generated_at < migrated
                     THEN generated_at ELSE migrated
      /\ UNCHANGED Outside /\ Command
  BY <1>1 DEF migrate_connection_daily_manifest_generation, validate_connection_daily_manifest_v2
<1> HIDE DEF before, free, Migrated
<1>4. PICK new \in NewEntries(free, file, before, cutover, days, g) :
        WellFormed(Migrated(new)) /\ Write(Migrated(new))
  BY <1>3
<1> DEFINE m2 == Migrated(new)
           l == Len(kept)
<1> HIDE DEF m, p
<1>5. m.schedule \in Seq(Entry) /\ m.generations \in Seq(G) /\ m.start \in Nat /\ m.schedule # <<>>
  BY <1>2 DEF Manifest, Sane
<1>6. /\ kept \in Seq(Entry) /\ l <= Len(m.schedule) /\ l \in Nat
      /\ \A i \in DOMAIN kept : kept[i] = m.schedule[i] /\ i \in DOMAIN m.schedule
      /\ \A i \in DOMAIN m.schedule : m.schedule[i].date < cutover => i \in DOMAIN kept
  <2>1. PICK n \in 0 .. Len(m.schedule) :
          /\ kept = SubSeq(m.schedule, 1, n)
          /\ \A i \in DOMAIN m.schedule : i <= n <=> m.schedule[i].date < cutover
    BY <1>1, <1>2, <1>5, BeforeIsPrefix DEF Sane
  <2>2. n \in Nat /\ n <= Len(m.schedule) /\ Len(m.schedule) \in Nat /\ DOMAIN m.schedule = 1 .. Len(m.schedule)
    BY <1>5
  <2>3. \A i \in 1 .. n : m.schedule[i] \in Entry
    BY <1>5, <2>2
  <2>4. kept = [i \in 1 .. n |-> m.schedule[i]]
    BY <1>5, <2>1, <2>2
  <2>5. kept \in Seq(Entry) /\ Len(kept) = n /\ DOMAIN kept = 1 .. n
    BY <2>2, <2>3, <2>4
  <2> HIDE DEF kept
  <2> QED
    BY <2>1, <2>2, <2>4, <2>5
<1> HIDE DEF kept
<1>7. new \in Seq(Entry) /\ Len(new) >= 1 /\ new[1].date = cutover
  <2> DEFINE ids == Eligible(RoundsFile(p)) \ Scheduled(kept)
  <2>1. ids # {}
    BY <1>3 DEF free, file
  <2>2. new \in NewEntries(ids, RoundsFile(p), before, cutover, days, g)
    BY <1>4 DEF file, free
  <2>3. /\ days \in Nat \ {0} /\ cutover \in Nat /\ p \in Pools
        /\ g \in Generations \cup {NoGeneration}
    BY <1>1
  <2>4. new \in Seq(Entry) /\ Len(new) >= 1
    BY <2>1, <2>2, <2>3, NewEntriesTyped
  <2>5. IsFiniteSet(ids)
    BY <2>3, PoolFile
  <2> HIDE DEF ids
  <2>6. new[1].date = cutover
    BY <2>1, <2>2, <2>3, <2>5, NewEntriesBegin
  <2> QED
    BY <2>4, <2>6
<1>8. /\ m2 \in Manifest /\ m2.start = m.start /\ m2.schema = 2
      /\ m2.schedule = kept \o new /\ m2.generations = Append(m.generations, generation)
  <2>1. generation \in G
    BY <1>1 DEF ConstantsFit
  <2>2. kept \o new \in Seq(Entry)
    BY <1>6, <1>7
  <2> HIDE DEF generation, G
  <2>3. Append(m.generations, generation) \in Seq(G)
    BY <1>5, <2>1
  <2>4. m2 = [m EXCEPT !.generations = Append(m.generations, generation), !.schedule = kept \o new]
    BY DEF Migrated
  <2> QED
    BY <1>1, <1>2, <2>2, <2>3, <2>4 DEF Manifest, G, m
<1>9. /\ Len(m2.schedule) = l + Len(new)
      /\ \A i \in DOMAIN kept : m2.schedule[i] = kept[i] /\ i \in DOMAIN m2.schedule
      /\ kept = <<>> => m2.schedule[1] = new[1]
  BY <1>6, <1>7, <1>8
<1> DEFINE top == Len(m.generations) + 1
<1>10. /\ top \in DOMAIN m2.generations /\ m2.generations[top] = generation
       /\ \A j \in DOMAIN m2.generations : j = top \/ j \in DOMAIN m.generations
       /\ \A j \in DOMAIN m.generations :
            j \in DOMAIN m2.generations /\ m2.generations[j] = m.generations[j] /\ m.generations[j].id # g
  <2>1. \A j \in DOMAIN m.generations : m.generations[j].id # g
    BY <1>3 DEF GenerationIds
  <2> HIDE DEF G, generation, m2
  <2> QED
    BY <1>5, <1>8, <2>1
<1> HIDE DEF m2, top
<1>11. m2.start + l = cutover
  <2>1. CASE kept = <<>>
    <3>1. m2.schedule[1].date = m2.start
      BY <1>4 DEF WellFormed, m2
    <3> QED
      BY <1>5, <1>7, <1>8, <1>9, <2>1, <3>1
  <2>2. CASE kept # <<>>
    <3>1. l \in DOMAIN kept /\ Last(kept) = kept[l]
      BY <1>6, <2>2 DEF Last
    <3>2. kept[l].date = m.start + (l - 1)
      BY <1>2, <1>6, <3>1 DEF Sane
    <3> QED
      BY <1>3, <1>5, <1>6, <1>8, <2>2, <3>1, <3>2
  <2> QED
    BY <2>1, <2>2
<1>12. OldDays(m2, kept)
  <2>1. \A i, j \in DOMAIN m2.generations : m2.generations[i].id = m2.generations[j].id => i = j
    BY <1>2, <1>10 DEF Sane
  <2>2. l <= Len(m2.schedule)
    BY <1>6, <1>7, <1>9
  <2>3. Carries(m, m2, kept)
    BY <1>6, <1>8, <1>9, <1>10, <2>1, <2>2 DEF Carries
  <2> QED
    BY <1>2, <1>6, <1>8, <2>3, CarriedDays
<1>13. Joins(m2, kept, new, g, p, days)
  BY <1>3, <1>4, <1>11 DEF Joins, free, before, file
<1>14. Sane(m2) /\ Forced(m2)
  <2>1. m2.generations[top].id = g /\ m2.generations[top].pool = p
    BY <1>10
  <2> QED
    BY <1>1, <1>6, <1>8, <1>10, <1>12, <1>13, <2>1, JoinSane
<1>15. tree' \in Copy /\ CopyInv(tree') /\ tree'.manifest = m2 /\ m2 # NoManifest
  BY <1>1, <1>4, <1>8, <1>14, WriteMakes DEF Write, m2
<1>16. commands' \in 0 .. MaxCommands
  BY <1>3, CommandCounts
<1>17. ASSUME NEW i \in DOMAIN m.schedule
       PROVE  Stands(m, m2, i) \/ m.schedule[i].date >= generated_at + _MIN_CUTOVER_LEAD_DAYS
  <2>1. CASE m.schedule[i].date < cutover
    BY <1>6, <1>9, <2>1 DEF Stands
  <2>2. CASE ~(m.schedule[i].date < cutover)
    <3>1. m.schedule[i].date \in Nat /\ generated_at \in Nat
      BY <1>2, ManifestTyped
    <3> QED
      BY <1>1, <1>3, <2>2, <3>1 DEF _MIN_CUTOVER_LEAD_DAYS
  <2> QED
    BY <2>1, <2>2
<1>18. /\ migrated' # NoDay /\ migrated' \in 0 .. LastDay /\ migrated' <= generated_at
       /\ migrated' = migrated \/ migrated = NoDay \/ migrated' <= migrated
  <2>1. /\ migrated \in 0 .. LastDay \/ migrated = NoDay
        /\ NoDay \notin Nat /\ generated_at \in Nat /\ LastDay \in Nat
    BY DEF TypeOK, NothingIsNothing, ConstantsFit
  <2> QED
    BY <1>3, <2>1
<1>19. ASSUME NEW i \in DOMAIN m.schedule
       PROVE  Stands(m, m2, i) \/ m.schedule[i].date >= migrated' + _MIN_CUTOVER_LEAD_DAYS
  <2>1. m.schedule[i].date \in Nat /\ generated_at \in Nat /\ migrated' \in Nat
    BY <1>2, <1>18, ManifestTyped
  <2> QED
    BY <1>17, <1>18, <2>1 DEF _MIN_CUTOVER_LEAD_DAYS
<1> QED
  BY <1>3, <1>15, <1>16, <1>18, <1>19 DEF Edits, Outside, m

\* A regeneration replaces the live rounds by those of a pool.
LEMMA RegenerateEdits ==
  ASSUME ConstantsFit, NothingIsNothing, TypeOK, CopyInv(tree), NEW p \in Pools, Regenerate(p)
  PROVE  Edits
<1> DEFINE files == [tree.files EXCEPT ![Live] = RoundsFile(p)]
<1>1. /\ tree' = [tree EXCEPT !.files[Live] = RoundsFile(p)]
      /\ UNCHANGED <<Outside, migrated>> /\ Command /\ tree \in Copy
  BY DEF Regenerate, TypeOK
<1>2. RoundsFile(p) \in File /\ RoundsFile(p).pool = p /\ Live \in Urls /\ RoundsFile(p) # NoFile
  BY PoolFile DEF ConstantsFit, NothingIsNothing
<1>3. tree.files \in [Urls -> File \cup {NoFile}]
  BY <1>1 DEF Copy
<1>4. files \in [Urls -> File \cup {NoFile}] /\ files[Live] = RoundsFile(p)
  BY <1>2, <1>3
<1>5. tree' = [tree EXCEPT !.files = files]
  BY <1>1
<1> HIDE DEF files
<1>6. tree' \in Copy /\ tree'.manifest = tree.manifest /\ tree'.files = files
  BY <1>1, <1>4, <1>5 DEF Copy
<1>7. CopyInv(tree')
  BY <1>2, <1>4, <1>6 DEF CopyInv
<1>8. commands' \in 0 .. MaxCommands
  BY <1>1, CommandCounts
<1> QED
  BY <1>1, <1>6, <1>7, <1>8 DEF Edits, Outside, Stands

\* An edit of a frozen file leaves the manifest and the live rounds.
LEMMA EditFileEdits ==
  ASSUME ConstantsFit, NothingIsNothing, TypeOK, CopyInv(tree),
         NEW url \in Urls, NEW r \in Rounds, NEW c \in Contents, EditFile(url, r, c)
  PROVE  Edits
<1> DEFINE edited == [tree.files[url] EXCEPT !.rounds[r] = c]
           files == [tree.files EXCEPT ![url] = edited]
<1>1. /\ tree' = [tree EXCEPT !.files[url].rounds[r] = c] /\ url # Live
      /\ tree.files[url] # NoFile
      /\ UNCHANGED <<Outside, migrated>> /\ Command /\ tree \in Copy
  BY DEF EditFile, TypeOK
<1>2. tree.files \in [Urls -> File \cup {NoFile}]
  BY <1>1 DEF Copy
<1>3. edited \in File
  <2>1. tree.files[url] \in File
    BY <1>1, <1>2
  <2> DEFINE rounds == tree.files[url].rounds
  <2>2. PICK ids \in SUBSET Rounds : rounds \in [ids -> Contents]
    BY <2>1 DEF File
  <2>3. [rounds EXCEPT ![r] = c] \in [ids -> Contents]
    BY <2>2
  <2>4. edited = [tree.files[url] EXCEPT !.rounds = [rounds EXCEPT ![r] = c]]
    OBVIOUS
  <2>5. [rounds EXCEPT ![r] = c] \in UNION {[s -> Contents] : s \in SUBSET Rounds}
    BY <2>2, <2>3
  <2> HIDE DEF rounds
  <2> QED
    BY <2>1, <2>4, <2>5 DEF File
<1> HIDE DEF edited
<1>4. files \in [Urls -> File \cup {NoFile}] /\ files[Live] = tree.files[Live]
  BY <1>1, <1>2, <1>3 DEF ConstantsFit
<1>5. tree' = [tree EXCEPT !.files = files]
  BY <1>1 DEF edited
<1> HIDE DEF files
<1>6. tree' \in Copy /\ tree'.manifest = tree.manifest /\ tree'.files = files
  BY <1>1, <1>4, <1>5 DEF Copy
<1>7. CopyInv(tree')
  BY <1>4, <1>6 DEF CopyInv
<1>8. commands' \in 0 .. MaxCommands
  BY <1>1, CommandCounts
<1> QED
  BY <1>1, <1>6, <1>7, <1>8 DEF Edits, Outside, Stands

----------------------------------------------------------------------------
(* The invariant, and what follows from it.                                 *)

\* Every step is an edit of the working copy or one of the steps around it.
Around == Deploy \/ Discard \/ OpenPage \/ fetchDailyManifest \/ ClosePage \/ Tick

LEMMA StepCases ==
  ASSUME ConstantsFit, NothingIsNothing, TypeOK, CopyInv(tree), Next
  PROVE  Edits \/ Around
<1>1. ASSUME NEW start \in StartDates, NEW days \in BuildDays,
             build_connection_daily_manifest(start, days)
      PROVE  Edits
  BY <1>1, BuildEdits
<1>2. ASSUME NEW days \in ExtendDays,
             extend_connection_daily_manifest(days) \/ extend_connection_daily_manifest_v2(days)
      PROVE  Edits
  BY <1>2, ExtendEdits
<1>3. ASSUME NEW g \in Generations, NEW url \in Urls, upgrade_connection_daily_manifest_to_v2(g, url)
      PROVE  Edits
  BY <1>3, UpgradeEdits
<1>4. ASSUME NEW g \in Generations, NEW source \in Urls, NEW url \in Urls,
             freeze_generation(g, source, url)
      PROVE  Edits
  BY <1>4, FreezeEdits
<1>5. ASSUME NEW cutover \in Days, NEW g \in Generations, NEW days \in ExtendDays,
             NEW generated_at \in 0 .. LastDay,
             migrate_connection_daily_manifest_generation(cutover, g, days, generated_at)
      PROVE  Edits
  BY <1>5, MigrateEdits
<1>6. ASSUME NEW p \in Pools, Regenerate(p)
      PROVE  Edits
  BY <1>6, RegenerateEdits
<1>7. ASSUME NEW url \in Urls, NEW r \in Rounds, NEW c \in Contents, EditFile(url, r, c)
      PROVE  Edits
  BY <1>7, EditFileEdits
<1> QED
  BY <1>1, <1>2, <1>3, <1>4, <1>5, <1>6, <1>7 DEF Next, Around

\* What a page deals for a date is what its manifest gives the date.
LEMMA ResolvedIsScheduled ==
  ASSUME NEW m, NEW loaded, NEW date, NEW files, NEW v \in resolveDailyRound(m, loaded, date, files)
  PROVE  \E i \in DOMAIN m.schedule :
           m.schedule[i].date = date /\ v = <<m.schedule[i].id, m.schedule[i].fp>>
<1>1. \E e \in ToSet(m.schedule) : e.date = date /\ v = <<e.id, e.fp>>
  BY DEF resolveDailyRound, EntryHolds
<1> QED
  BY <1>1 DEF ToSet

\* The invariant is kept by the commands ...
LEMMA EditsKeepIInv ==
  ASSUME ConstantsFit, NothingIsNothing, IInv, Edits
  PROVE  IInv'
<1>1. day \in 0 .. LastDay /\ (migrated' = migrated \/ migrated' \in 0 .. LastDay)
  BY DEF IInv, TypeOK, Edits
<1>2. TypeOK'
  BY <1>1 DEF Edits, IInv, TypeOK
<1>3. CopyInv(tree)' /\ CopyInv(site)' /\ Gated' /\ Opened'
  BY DEF Edits, IInv, Gated, Opened
<1> QED
  BY <1>2, <1>3 DEF IInv

\* ... by the steps around them ...
LEMMA AroundKeepsIInv ==
  ASSUME ConstantsFit, NothingIsNothing, IInv, Around
  PROVE  IInv'
<1>1. CASE Deploy
  <2>1. TypeOK'
    BY <1>1 DEF Deploy, IInv, TypeOK
  <2>2. Publishable(site') /\ site'.manifest # NoManifest
    BY <1>1 DEF Deploy, Publishable
  <2>3. CopyInv(tree)' /\ CopyInv(site)'
    BY <1>1 DEF Deploy, IInv
  <2> QED
    BY <2>1, <2>2, <2>3 DEF IInv, Gated, Opened
<1>2. CASE Discard
  <2>1. TypeOK'
    BY <1>2 DEF Discard, Outside, IInv, TypeOK
  <2>2. CopyInv(tree)' /\ CopyInv(site)' /\ Gated' /\ Opened'
    BY <1>2 DEF Discard, Outside, IInv, Gated, Opened
  <2> QED
    BY <2>1, <2>2 DEF IInv
<1>3. CASE OpenPage
  <2>1. TypeOK'
    BY <1>3 DEF OpenPage, PlayerDates, NoPage, IInv, TypeOK
  <2>2. CopyInv(tree)' /\ CopyInv(site)' /\ Gated' /\ Opened'
    BY <1>3 DEF OpenPage, IInv, Gated, Opened
  <2> QED
    BY <2>1, <2>2 DEF IInv
<1>4. CASE fetchDailyManifest
  <2>1. /\ site.manifest \in Manifest /\ page.date \in Days
        /\ page # NoPage /\ site.manifest # NoManifest
    BY <1>4 DEF fetchDailyManifest, IInv, Opened, TypeOK, Copy, NoPage
  <2>2. TypeOK'
    BY <1>4, <2>1 DEF fetchDailyManifest, IInv, TypeOK
  <2>3. CopyInv(tree)' /\ CopyInv(site)' /\ Gated' /\ Opened'
    BY <1>4, <2>1 DEF fetchDailyManifest, IInv, Gated, Opened
  <2> QED
    BY <2>2, <2>3 DEF IInv
<1>5. CASE ClosePage
  <2> DEFINE dealt == resolveDailyRound(page.manifest, page.loaded, page.date, site.files)
  <2>1. /\ page.date \in Days /\ page.manifest \in Manifest
        /\ shown' = [shown EXCEPT ![page.date] = @ \cup dealt] /\ page' = NoPage
        /\ UNCHANGED <<tree, site, day, migrated, overtaken, commands>>
        /\ shown \in [Days -> SUBSET (Rounds \X Contents)]
    BY <1>5 DEF ClosePage, NoPage, IInv, TypeOK
  <2>2. dealt \subseteq Rounds \X Contents
    <3> SUFFICES ASSUME NEW v \in dealt PROVE v \in Rounds \X Contents
      OBVIOUS
    <3>1. PICK i \in DOMAIN page.manifest.schedule :
            v = <<page.manifest.schedule[i].id, page.manifest.schedule[i].fp>>
      BY ResolvedIsScheduled
    <3>2. page.manifest.schedule[i].id \in Rounds /\ page.manifest.schedule[i].fp \in Contents
      BY <2>1, ManifestTyped
    <3> QED
      BY <3>1, <3>2
  <2> HIDE DEF dealt
  <2>3. shown' \in [Days -> SUBSET (Rounds \X Contents)]
    BY <2>1, <2>2
  <2>4. TypeOK'
    BY <2>1, <2>3 DEF IInv, TypeOK, NoPage
  <2>5. CopyInv(tree)' /\ CopyInv(site)' /\ Gated' /\ Opened'
    BY <2>1 DEF IInv, Gated, Opened
  <2> QED
    BY <2>4, <2>5 DEF IInv
<1>6. CASE Tick
  <2>1. TypeOK'
    BY <1>6 DEF Tick, IInv, TypeOK, ConstantsFit
  <2>2. CopyInv(tree)' /\ CopyInv(site)' /\ Gated' /\ Opened'
    BY <1>6 DEF Tick, IInv, Gated, Opened
  <2> QED
    BY <2>1, <2>2 DEF IInv
<1> QED
  BY <1>1, <1>2, <1>3, <1>4, <1>5, <1>6 DEF Around

\* ... and holds at the start.
LEMMA InitIInv ==
  ASSUME ConstantsFit, NothingIsNothing, Init
  PROVE  IInv
<1> DEFINE first == RoundsFile(FirstPool)
           files == [u \in Urls |-> IF u = Live THEN first ELSE NoFile]
<1>1. first \in File /\ first.pool = FirstPool /\ first # NoFile /\ Live \in Urls
  BY PoolFile DEF ConstantsFit, NothingIsNothing
<1>2. tree = [manifest |-> NoManifest, files |-> files] /\ site = tree
  BY DEF Init
<1> HIDE DEF first
<1>3. files \in [Urls -> File \cup {NoFile}] /\ files[Live] = first
  BY <1>1
<1> HIDE DEF files
<1>4. tree \in Copy /\ site \in Copy /\ tree.manifest = NoManifest /\ tree.files[Live] = first
  BY <1>2, <1>3 DEF Copy
<1>5. TypeOK
  BY <1>4 DEF Init, TypeOK, NoPage, ConstantsFit
<1>6. CopyInv(tree) /\ CopyInv(site) /\ Gated /\ Opened
  BY <1>1, <1>2, <1>4 DEF CopyInv, Gated, Opened, Init, first
<1> QED
  BY <1>5, <1>6 DEF IInv

LEMMA IInvariance == Spec => []IInv
<1>1. Init => IInv
  BY InitIInv, ConstantsFit, NothingIsNothing
<1>2. IInv /\ [Next]_vars => IInv'
  <2> SUFFICES ASSUME IInv, [Next]_vars PROVE IInv'
    OBVIOUS
  <2>1. CASE Next
    <3>1. Edits \/ Around
      BY <2>1, StepCases, ConstantsFit, NothingIsNothing DEF IInv
    <3> QED
      BY <3>1, EditsKeepIInv, AroundKeepsIInv, ConstantsFit, NothingIsNothing
  <2>2. CASE UNCHANGED vars
    <3>1. /\ tree' = tree /\ site' = site /\ day' = day /\ migrated' = migrated
          /\ page' = page /\ shown' = shown /\ overtaken' = overtaken /\ commands' = commands
      BY <2>2 DEF vars
    <3> QED
      BY <3>1 DEF IInv, TypeOK, Gated, Opened
  <2> QED
    BY <2>1, <2>2
<1> QED
  BY <1>1, <1>2, PTL DEF Spec

\* The fields of the working copy, the site, the page and the history keep their types.
THEOREM TypeCorrect == Spec => []TypeOK
<1>1. IInv => TypeOK
  BY DEF IInv
<1> QED
  BY <1>1, IInvariance, PTL

\* In every calendar the commands can make, two adjacent days share a record or a
\* performer only if every round of the pool that was free for the second day does so
\* too: _quality_scheduled_order, with extend's and migrate's choice of what precedes.
THEOREM RepeatsForced == Spec => []RepeatsAreForced
<1>1. IInv => RepeatsAreForced
  <2> SUFFICES ASSUME IInv, tree.manifest # NoManifest PROVE RepeatsAreForced
    BY DEF RepeatsAreForced
  <2>1. Forced(tree.manifest)
    BY DEF IInv, CopyInv
  <2> QED
    BY <2>1 DEF RepeatsAreForced, Forced, ForcedDay, Free
<1> QED
  BY <1>1, IInvariance, PTL

\* An entry of a calendar that passed the gate is held by the file the browser takes
\* for it.
LEMMA EntryResolves ==
  ASSUME NEW copy \in Copy, copy.manifest \in Manifest, CopyInv(copy), copy.manifest # NoManifest,
         Publishable(copy), NEW i \in DOMAIN copy.manifest.schedule
  PROVE  LET m == copy.manifest
             e == m.schedule[i]
             pool == Generation(m, e.gen).pool
             file == IF m.schema = 1 \/ copy.files[Live].pool = pool THEN copy.files[Live]
                     ELSE copy.files[Generation(m, e.gen).url]
         IN  e.gen \in GenerationIds(m) /\ file # NoFile /\ file.pool = pool /\ EntryHolds(e, file)
<1> DEFINE m == copy.manifest
           e == m.schedule[i]
           live == copy.files[Live]
<1>1. Sane(m) /\ live # NoFile /\ live = RoundsFile(live.pool)
  BY DEF CopyInv
<1>2. ~_daily_manifest_failures(copy)
  BY DEF Publishable
<1>3. e \in ToSet(m.schedule)
  BY DEF ToSet
<1> HIDE DEF m, live
<1>4. PICK j \in DOMAIN m.generations :
        /\ e.gen = m.generations[j].id
        /\ e.id \in DOMAIN PoolRounds[m.generations[j].pool] \cap OneHop
        /\ e.fp = PoolRounds[m.generations[j].pool][e.id]
  BY <1>1 DEF Sane, Drawn, m
<1> DEFINE generation == m.generations[j]
<1>5. Generation(m, e.gen) = generation /\ e.gen \in GenerationIds(m) /\ generation.id = e.gen
  <2>1. /\ m \in Manifest
        /\ \A k, l \in DOMAIN m.generations : m.generations[k].id = m.generations[l].id => k = l
    BY <1>1 DEF Sane, m
  <2> HIDE DEF e
  <2> QED
    BY <1>4, <2>1, GenerationFound
<1> HIDE DEF e, generation
<1>6. CASE m.schema = 1
  <2>1. validate_connection_daily_manifest(m, live)
    BY <1>2, <1>6 DEF _daily_manifest_failures, m, live
  <2>2. Newest(m).pool = live.pool /\ EntryHolds(e, live)
    BY <1>3, <2>1 DEF validate_connection_daily_manifest
  <2>3. Newest(m) = generation
    <3>1. Len(m.generations) = 1 /\ j = 1
      BY <1>1, <1>6, ManifestTyped DEF Sane, m
    <3> QED
      BY <3>1 DEF Newest, Last, generation
  <2> QED
    BY <1>1, <1>5, <1>6, <2>2, <2>3 DEF m, live, e
<1>7. CASE m.schema = 2
  <2>1. validate_connection_daily_manifest_v2(m, Supplied(m, copy.files))
    BY <1>2, <1>7 DEF _daily_manifest_failures, m
  <2> DEFINE supplied == Supplied(m, copy.files)
  <2>2. supplied[e.gen] = copy.files[generation.url]
    BY <1>5 DEF Supplied
  <2>3. generation \in ToSet(m.generations)
    BY DEF ToSet, generation
  <2> HIDE DEF supplied
  <2>4. /\ supplied[e.gen] # NoFile /\ EntryHolds(e, supplied[e.gen])
        /\ supplied[e.gen].pool = generation.pool
    <3>1. /\ \A x \in ToSet(m.generations) : supplied[x.id] # NoFile => supplied[x.id].pool = x.pool
          /\ \A x \in ToSet(m.schedule) : supplied[x.gen] # NoFile /\ EntryHolds(x, supplied[x.gen])
      BY <2>1 DEF validate_connection_daily_manifest_v2, supplied
    <3> QED
      BY <1>3, <1>5, <2>3, <3>1
  <2>5. CASE live.pool = generation.pool
    <3>1. EntryHolds(e, live)
      BY <1>1, <1>4, <2>5 DEF EntryHolds, Eligible, RoundsFile, generation
    <3> QED
      BY <1>1, <1>5, <1>7, <2>5, <3>1 DEF m, live, e
  <2>6. CASE live.pool # generation.pool
    BY <1>5, <1>7, <2>2, <2>4, <2>6 DEF m, live, e
  <2> QED
    BY <2>5, <2>6
<1> QED
  BY <1>6, <1>7, ManifestTyped DEF m

\* What the gate (_daily_manifest_failures) lets through is what resolveDailyRound can
\* resolve, for every date of the schedule and whichever generation it belongs to.
THEOREM GateMeansResolved == Spec => []ScheduledResolves
<1>1. IInv => ScheduledResolves
  <2> SUFFICES ASSUME IInv, site.manifest # NoManifest, NEW i \in DOMAIN site.manifest.schedule
               PROVE  LET e == site.manifest.schedule[i]
                      IN  resolveDailyRound(site.manifest, site.files[Live], e.date, site.files)
                            = {<<e.id, e.fp>>}
    BY DEF ScheduledResolves, ToSet
  <2> DEFINE m == site.manifest
             e == m.schedule[i]
             file(x) == IF m.schema = 1 \/ site.files[Live].pool = Generation(m, x.gen).pool
                        THEN site.files[Live] ELSE site.files[Generation(m, x.gen).url]
             due == {x \in ToSet(m.schedule) :
                       /\ x.date = e.date /\ x.gen \in GenerationIds(m)
                       /\ file(x) # NoFile /\ file(x).pool = Generation(m, x.gen).pool
                       /\ EntryHolds(x, file(x))}
  <2>1. site \in Copy /\ m \in Manifest /\ CopyInv(site) /\ Publishable(site)
    BY DEF IInv, TypeOK, Copy, Gated
  <2>2. /\ e.gen \in GenerationIds(m) /\ file(e) # NoFile
        /\ file(e).pool = Generation(m, e.gen).pool /\ EntryHolds(e, file(e))
    BY <2>1, EntryResolves
  <2>3. \A x \in ToSet(m.schedule) : x.date = e.date => x = e
    <3> SUFFICES ASSUME NEW k \in DOMAIN m.schedule, m.schedule[k].date = e.date PROVE k = i
      BY DEF ToSet
    <3>1. DOMAIN m.schedule = 1 .. Len(m.schedule) /\ Len(m.schedule) \in Nat /\ m.start \in Nat
      BY <2>1, ManifestTyped
    <3>2. \A l \in DOMAIN m.schedule : m.schedule[l].date = m.start + (l - 1)
      BY <2>1 DEF CopyInv, Sane
    <3>3. k \in Nat /\ i \in Nat
      BY <3>1
    <3>4. m.schedule[k].date = m.start + (k - 1) /\ m.schedule[i].date = m.start + (i - 1)
      BY <3>2
    <3>5. m.start + (k - 1) = m.start + (i - 1)
      BY <3>4
    <3> QED
      BY <3>1, <3>3, <3>5
  <2>4. e \in ToSet(m.schedule)
    BY DEF ToSet
  <2> HIDE DEF file, m
  <2>5. due = {e}
    BY <2>2, <2>3, <2>4
  <2>6. file(e).rounds[e.id] = e.fp
    BY <2>2 DEF EntryHolds
  <2>7. resolveDailyRound(m, site.files[Live], e.date, site.files) = {<<x.id, file(x).rounds[x.id]>> : x \in due}
    BY DEF resolveDailyRound, file
  <2> QED
    BY <2>5, <2>6, <2>7 DEF m
<1> QED
  BY <1>1, IInvariance, PTL

----------------------------------------------------------------------------
(* The frozen days.                                                         *)

\* A schedule has one entry for a date.
LEMMA DatesDiffer ==
  ASSUME NEW m \in Manifest, Sane(m), NEW i \in DOMAIN m.schedule, NEW k \in DOMAIN m.schedule,
         m.schedule[i].date = m.schedule[k].date
  PROVE  i = k
<1>1. DOMAIN m.schedule = 1 .. Len(m.schedule) /\ Len(m.schedule) \in Nat /\ m.start \in Nat
  BY ManifestTyped
<1>2. m.schedule[k].date = m.start + (k - 1) /\ m.schedule[i].date = m.start + (i - 1)
  BY DEF Sane
<1>3. m.start + (k - 1) = m.start + (i - 1)
  BY <1>2
<1>4. k \in Nat /\ i \in Nat
  BY <1>1
<1> QED
  BY <1>1, <1>3, <1>4

\* Publishing keeps what players may have reached on the day the publication is as of.
LEMMA DeployKeepsReached ==
  ASSUME ConstantsFit, NothingIsNothing, IInv, KeepInv, Deploy,
         NEW i \in DOMAIN site.manifest.schedule, site.manifest # NoManifest,
         migrated # NoDay => site.manifest.schedule[i].date <= migrated + 1
  PROVE  site'.manifest # NoManifest /\ Stands(site.manifest, site'.manifest, i)
<1>1. site.manifest \in Manifest
  BY DEF IInv, TypeOK, Copy
<1>2. site.manifest.schedule[i].date \in Nat
  BY <1>1, ManifestTyped
<1>3. migrated # NoDay => ~(site.manifest.schedule[i].date >= migrated + _MIN_CUTOVER_LEAD_DAYS)
  <2> SUFFICES ASSUME migrated # NoDay
               PROVE  ~(site.manifest.schedule[i].date >= migrated + _MIN_CUTOVER_LEAD_DAYS)
    OBVIOUS
  <2>1. migrated \in Nat
    BY DEF IInv, TypeOK
  <2> QED
    BY <1>2, <2>1 DEF _MIN_CUTOVER_LEAD_DAYS
<1>4. tree.manifest # NoManifest /\ Stands(site.manifest, tree.manifest, i)
  BY <1>3 DEF KeepInv
<1> QED
  BY <1>4 DEF Deploy

\* So a day that is fixed and reached stays fixed, or a migration overtakes it.
LEMMA FixedStays ==
  ASSUME ConstantsFit, NothingIsNothing, IInv, KeepInv, Deploy,
         NEW d \in Days, d <= day + 1, d \notin overtaken', NEW v, Fixed(d, v)
  PROVE  Fixed(d, v)'
<1>1. PICK i \in DOMAIN site.manifest.schedule :
        /\ site.manifest.schedule[i].date = d
        /\ v = <<site.manifest.schedule[i].id, site.manifest.schedule[i].fp>>
  BY DEF Fixed
<1>2. migrated # NoDay => d <= migrated + 1
  BY DEF Deploy, Reached
<1>3. site'.manifest # NoManifest /\ Stands(site.manifest, site'.manifest, i)
  BY <1>1, <1>2, DeployKeepsReached DEF Fixed
<1> QED
  BY <1>1, <1>3 DEF Fixed, Stands

\* Commands keep the frozen days ...
LEMMA EditsKeepFrozen ==
  ASSUME ConstantsFit, NothingIsNothing, FrozenInv, Edits
  PROVE  (KeepInv /\ PageInv /\ ShownInv)'
<1>1. /\ LastDay \in Nat /\ (migrated # NoDay => migrated \in Nat) /\ NoDay \notin Nat
      /\ \/ migrated' = migrated
         \/ migrated' \in Nat /\ (migrated = NoDay \/ migrated' <= migrated)
  BY DEF FrozenInv, IInv, TypeOK, ConstantsFit, NothingIsNothing, Edits
<1>2. KeepInv'
  <2> SUFFICES ASSUME site.manifest # NoManifest
               PROVE  /\ tree'.manifest # NoManifest
                      /\ \A i \in DOMAIN site.manifest.schedule :
                           \/ Stands(site.manifest, tree'.manifest, i)
                           \/ migrated' # NoDay
                              /\ site.manifest.schedule[i].date >= migrated' + _MIN_CUTOVER_LEAD_DAYS
    BY DEF KeepInv, Edits
  <2>1. /\ tree.manifest # NoManifest /\ tree'.manifest # NoManifest
        /\ site.manifest \in Manifest
    BY DEF FrozenInv, KeepInv, Edits, IInv, TypeOK, Copy
  <2>2. ASSUME NEW i \in DOMAIN site.manifest.schedule,
               ~Stands(site.manifest, tree'.manifest, i)
        PROVE  migrated' # NoDay
               /\ site.manifest.schedule[i].date >= migrated' + _MIN_CUTOVER_LEAD_DAYS
    <3>1. CASE Stands(site.manifest, tree.manifest, i)
      <4>1. ~Stands(tree.manifest, tree'.manifest, i) /\ i \in DOMAIN tree.manifest.schedule
        BY <2>2, <3>1 DEF Stands
      <4>2. migrated' # NoDay
            /\ tree.manifest.schedule[i].date >= migrated' + _MIN_CUTOVER_LEAD_DAYS
        BY <2>1, <4>1 DEF Edits
      <4> QED
        BY <3>1, <4>2 DEF Stands
    <3>2. CASE ~Stands(site.manifest, tree.manifest, i)
      <4>1. migrated # NoDay /\ site.manifest.schedule[i].date >= migrated + _MIN_CUTOVER_LEAD_DAYS
        BY <2>2, <3>2 DEF FrozenInv, KeepInv
      <4>2. site.manifest.schedule[i].date \in Nat
        BY <2>1, ManifestTyped
      <4> QED
        BY <1>1, <4>1, <4>2 DEF _MIN_CUTOVER_LEAD_DAYS
    <3> QED
      BY <3>1, <3>2
  <2> QED
    BY <2>1, <2>2
<1>3. PageInv' /\ ShownInv'
  BY DEF Edits, FrozenInv, PageInv, ShownInv, Fixed
<1> QED
  BY <1>2, <1>3

\* ... and so do publishing, the pages and midnight.
LEMMA AroundKeepsFrozen ==
  ASSUME ConstantsFit, NothingIsNothing, FrozenInv, Around
  PROVE  (KeepInv /\ PageInv /\ ShownInv)'
<1>1. CASE Deploy
  <2>1. KeepInv'
    BY <1>1 DEF Deploy, KeepInv, Stands
  <2>2. \A d \in Days : \A v : d <= day + 1 /\ d \notin overtaken' /\ Fixed(d, v) => Fixed(d, v)'
    BY <1>1, FixedStays DEF FrozenInv
  <2>3. PageInv'
    <3>1. page' = page /\ day' = day /\ overtaken \subseteq overtaken'
      BY <1>1 DEF Deploy
    <3>2. ASSUME page # NoPage, page.pc = "resolve", page.date \notin overtaken',
                 NEW i \in DOMAIN page.manifest.schedule,
                 page.manifest.schedule[i].date = page.date
          PROVE  \E d, v : /\ d = page'.date /\ Fixed(d, v)'
                          /\ v = <<page'.manifest.schedule[i].id, page'.manifest.schedule[i].fp>>
      <4>1. PICK d \in Days : d = page.date
        BY <3>2 DEF FrozenInv, IInv, TypeOK
      <4>2. PICK v : v = <<page.manifest.schedule[i].id, page.manifest.schedule[i].fp>>
        OBVIOUS
      <4>3. d <= day + 1 /\ d \notin overtaken' /\ Fixed(d, v)
        BY <3>1, <3>2, <4>1, <4>2 DEF FrozenInv, PageInv
      <4>4. Fixed(d, v)'
        BY <2>2, <4>3
      <4> QED
        BY <3>1, <4>1, <4>2, <4>4
    <3>3. page # NoPage => page.date <= day + 1
      BY DEF FrozenInv, PageInv
    <3> QED
      BY <3>1, <3>2, <3>3 DEF PageInv
  <2>4. ShownInv'
    <3>1. shown' = shown /\ day' = day /\ overtaken \subseteq overtaken'
      BY <1>1 DEF Deploy
    <3> QED
      BY <2>2, <3>1 DEF FrozenInv, ShownInv
  <2> QED
    BY <2>1, <2>3, <2>4
<1>2. CASE Discard
  <2>1. KeepInv'
    BY <1>2 DEF Discard, Outside, KeepInv, Stands
  <2>2. PageInv' /\ ShownInv'
    BY <1>2 DEF Discard, Outside, FrozenInv, PageInv, ShownInv, Fixed
  <2> QED
    BY <2>1, <2>2
<1>3. CASE OpenPage
  <2>1. KeepInv' /\ ShownInv'
    BY <1>3 DEF OpenPage, FrozenInv, KeepInv, ShownInv, Fixed
  <2>2. PageInv'
    <3>1. PICK d \in PlayerDates : page' = [pc |-> "manifest", loaded |-> site.files[Live], date |-> d]
      BY <1>3 DEF OpenPage
    <3>2. day \in Nat /\ d <= day + 1 /\ day' = day
      BY <1>3 DEF OpenPage, PlayerDates, FrozenInv, IInv, TypeOK
    <3> QED
      BY <3>1, <3>2 DEF PageInv
  <2> QED
    BY <2>1, <2>2
<1>4. CASE fetchDailyManifest
  <2>1. KeepInv' /\ ShownInv'
    BY <1>4 DEF fetchDailyManifest, FrozenInv, KeepInv, ShownInv, Fixed
  <2>2. PageInv'
    <3>1. /\ page'.manifest = site.manifest /\ page'.date = page.date /\ page # NoPage
          /\ site' = site /\ day' = day
      BY <1>4 DEF fetchDailyManifest, NoPage
    <3>2. page.date <= day + 1 /\ site.manifest # NoManifest
      BY <3>1 DEF FrozenInv, PageInv, IInv, Opened
    <3>3. ASSUME NEW i \in DOMAIN page'.manifest.schedule,
                 page'.manifest.schedule[i].date = page'.date
          PROVE  Fixed(page.date, <<page.manifest.schedule[i].id, page.manifest.schedule[i].fp>>)'
      BY <3>1, <3>2, <3>3 DEF Fixed
    <3> QED
      BY <3>1, <3>2, <3>3 DEF PageInv
  <2> QED
    BY <2>1, <2>2
<1>5. CASE ClosePage
  <2> DEFINE dealt == resolveDailyRound(page.manifest, page.loaded, page.date, site.files)
  <2>1. /\ shown' = [shown EXCEPT ![page.date] = @ \cup dealt] /\ page' = NoPage
        /\ UNCHANGED <<tree, site, day, migrated, overtaken, commands>>
        /\ page # NoPage /\ page.pc = "resolve" /\ page.date \in Days
        /\ shown \in [Days -> SUBSET (Rounds \X Contents)]
    BY <1>5 DEF ClosePage, NoPage, FrozenInv, IInv, TypeOK
  <2>2. \A v \in dealt : page.date <= day + 1 /\ (page.date \notin overtaken => Fixed(page.date, v))
    <3> SUFFICES ASSUME NEW v \in dealt
                 PROVE  page.date <= day + 1 /\ (page.date \notin overtaken => Fixed(page.date, v))
      OBVIOUS
    <3>1. PICK i \in DOMAIN page.manifest.schedule :
            /\ page.manifest.schedule[i].date = page.date
            /\ v = <<page.manifest.schedule[i].id, page.manifest.schedule[i].fp>>
      BY ResolvedIsScheduled
    <3> QED
      BY <2>1, <3>1 DEF FrozenInv, PageInv
  <2> HIDE DEF dealt
  <2>3. KeepInv' /\ PageInv'
    BY <2>1 DEF FrozenInv, KeepInv, PageInv
  <2>4. ShownInv'
    <3> SUFFICES ASSUME NEW d \in Days, NEW v \in shown'[d]
                 PROVE  d <= day + 1 /\ (d \notin overtaken => Fixed(d, v))
      BY <2>1 DEF ShownInv, Fixed
    <3>1. shown'[d] = IF d = page.date THEN shown[d] \cup dealt ELSE shown[d]
      BY <2>1
    <3> QED
      BY <2>2, <3>1 DEF FrozenInv, ShownInv
  <2> QED
    BY <2>3, <2>4
<1>6. CASE Tick
  <2>1. /\ day' = day + 1 /\ page = NoPage /\ page' = page
        /\ UNCHANGED <<tree, site, migrated, page, shown, overtaken, commands>>
        /\ day \in Nat
    BY <1>6 DEF Tick, FrozenInv, IInv, TypeOK
  <2>2. KeepInv' /\ PageInv'
    BY <2>1 DEF FrozenInv, KeepInv, PageInv
  <2>3. ShownInv'
    <3>1. \A d \in Days : d <= day + 1 => d <= day + 1 + 1
      BY <2>1 DEF Days
    <3> QED
      BY <2>1, <3>1 DEF FrozenInv, ShownInv, Fixed
  <2> QED
    BY <2>2, <2>3
<1> QED
  BY <1>1, <1>2, <1>3, <1>4, <1>5, <1>6 DEF Around

LEMMA FrozenInvariance == Spec => []FrozenInv
<1>1. Init => FrozenInv
  <2> SUFFICES ASSUME Init PROVE FrozenInv
    OBVIOUS
  <2>1. IInv
    BY InitIInv, ConstantsFit, NothingIsNothing
  <2>2. site.manifest = NoManifest /\ page = NoPage /\ shown = [d \in Days |-> {}]
    BY DEF Init
  <2> QED
    BY <2>1, <2>2 DEF FrozenInv, KeepInv, PageInv, ShownInv
<1>2. FrozenInv /\ [Next]_vars => FrozenInv'
  <2> SUFFICES ASSUME FrozenInv, [Next]_vars PROVE FrozenInv'
    OBVIOUS
  <2>1. CASE Next
    <3>1. Edits \/ Around
      BY <2>1, StepCases, ConstantsFit, NothingIsNothing DEF FrozenInv, IInv
    <3>2. IInv'
      BY <3>1, EditsKeepIInv, AroundKeepsIInv, ConstantsFit, NothingIsNothing DEF FrozenInv
    <3>3. (KeepInv /\ PageInv /\ ShownInv)'
      BY <3>1, EditsKeepFrozen, AroundKeepsFrozen, ConstantsFit, NothingIsNothing
    <3> QED
      BY <3>2, <3>3 DEF FrozenInv
  <2>2. CASE UNCHANGED vars
    <3>1. /\ tree' = tree /\ site' = site /\ day' = day /\ migrated' = migrated
          /\ page' = page /\ shown' = shown /\ overtaken' = overtaken /\ commands' = commands
      BY <2>2 DEF vars
    <3> QED
      BY <3>1 DEF FrozenInv, IInv, TypeOK, Gated, Opened, KeepInv, PageInv, ShownInv, Fixed
  <2> QED
    BY <2>1, <2>2
<1> QED
  BY <1>1, <1>2, PTL DEF Spec

\* A date is dealt two rounds, or two contents of one, only if players reached it after
\* the generated_at of a migration (two days, _MIN_CUTOVER_LEAD_DAYS, before its cutover)
\* and before it was published, whatever else the operator regenerates, edits, freezes,
\* extends or migrates, and however long a migration waits.
THEOREM OnlyLateMigrationsRewrite == Spec => []OnlyOvertakenDatesChange
<1>1. FrozenInv => OnlyOvertakenDatesChange
  <2> SUFFICES ASSUME FrozenInv, NEW d \in Days, d \notin overtaken
               PROVE  ~(Cardinality(shown[d]) > 1)
    BY DEF OnlyOvertakenDatesChange
  <2>1. ASSUME NEW v \in shown[d], NEW w \in shown[d]
        PROVE  v = w
    <3>1. Fixed(d, v) /\ Fixed(d, w)
      BY DEF FrozenInv, ShownInv
    <3>2. site.manifest \in Manifest /\ Sane(site.manifest)
      BY <3>1 DEF FrozenInv, IInv, TypeOK, Copy, CopyInv, Fixed
    <3> QED
      BY <3>1, <3>2, DatesDiffer DEF Fixed
  <2>2. CASE shown[d] = {}
    BY <2>2, FS_EmptySet
  <2>3. CASE shown[d] # {}
    <3>1. PICK v : shown[d] = {v}
      BY <2>1, <2>3
    <3>2. Cardinality({v}) = 1
      BY FS_Singleton
    <3> QED
      BY <3>1, <3>2
  <2> QED
    BY <2>2, <2>3
<1> QED
  BY <1>1, FrozenInvariance, PTL

\* Its days are those of the schedule.
LEMMA PublishedDays ==
  ASSUME NEW m \in Manifest, Sane(m), m # NoManifest
  PROVE  /\ DOMAIN Published(m) = {m.schedule[i].date : i \in DOMAIN m.schedule}
         /\ \A i \in DOMAIN m.schedule :
              Published(m)[m.schedule[i].date] = <<m.schedule[i].id, m.schedule[i].fp>>
<1> DEFINE C == [d \in {e.date : e \in ToSet(m.schedule)} |->
                   LET e == CHOOSE x \in ToSet(m.schedule) : x.date = d IN <<e.id, e.fp>>]
<1>1. Published(m) = C
  BY DEF Published
<1>2. {e.date : e \in ToSet(m.schedule)} = {m.schedule[i].date : i \in DOMAIN m.schedule}
  BY DEF ToSet
<1>3. ASSUME NEW i \in DOMAIN m.schedule
      PROVE  C[m.schedule[i].date] = <<m.schedule[i].id, m.schedule[i].fp>>
  <2> DEFINE d == m.schedule[i].date
             e == CHOOSE x \in ToSet(m.schedule) : x.date = d
  <2>1. m.schedule[i] \in ToSet(m.schedule) /\ d \in {x.date : x \in ToSet(m.schedule)}
    BY DEF ToSet
  <2>2. \A x \in ToSet(m.schedule) : x.date = d => x = m.schedule[i]
    BY DatesDiffer DEF ToSet
  <2>3. e = m.schedule[i]
    BY <2>1, <2>2
  <2>4. C[d] = <<e.id, e.fp>>
    BY <2>1
  <2> QED
    BY <2>3, <2>4
<1> QED
  BY <1>1, <1>2, <1>3

\* A published calendar has no gap and gives no two dates one round.
LEMMA PublishedSound ==
  ASSUME NEW m \in Manifest, Sane(m), m # NoManifest
  PROVE  Calendar!Sound(Published(m))
<1> DEFINE c == Published(m)
<1>1. /\ DOMAIN c = {m.schedule[i].date : i \in DOMAIN m.schedule}
      /\ \A i \in DOMAIN m.schedule : c[m.schedule[i].date] = <<m.schedule[i].id, m.schedule[i].fp>>
  BY PublishedDays
<1>2. /\ DOMAIN m.schedule = 1 .. Len(m.schedule) /\ Len(m.schedule) \in Nat /\ m.start \in Nat
      /\ \A i \in DOMAIN m.schedule : m.schedule[i].date = m.start + (i - 1)
      /\ \A i, k \in DOMAIN m.schedule : m.schedule[i].id = m.schedule[k].id => i = k
  BY ManifestTyped DEF Sane
<1> HIDE DEF c
<1>3. ASSUME NEW a \in DOMAIN c, NEW b \in DOMAIN c, a # b
      PROVE  c[a][1] # c[b][1]
  <2>1. PICK i \in DOMAIN m.schedule : a = m.schedule[i].date
    BY <1>1
  <2>2. PICK k \in DOMAIN m.schedule : b = m.schedule[k].date
    BY <1>1
  <2>3. c[a][1] = m.schedule[i].id /\ c[b][1] = m.schedule[k].id
    BY <1>1, <2>1, <2>2
  <2> QED
    BY <1>2, <1>3, <2>1, <2>2, <2>3
<1>4. ASSUME NEW a \in DOMAIN c, NEW b \in DOMAIN c, NEW d \in a .. b
      PROVE  d \in DOMAIN c
  <2>1. PICK i \in DOMAIN m.schedule : a = m.start + (i - 1)
    BY <1>1, <1>2
  <2>2. PICK k \in DOMAIN m.schedule : b = m.start + (k - 1)
    BY <1>1, <1>2
  <2>3. d - m.start + 1 \in DOMAIN m.schedule /\ d = m.start + ((d - m.start + 1) - 1)
    BY <1>2, <2>1, <2>2
  <2>4. m.schedule[d - m.start + 1].date = d
    BY <1>2, <2>3
  <2> QED
    BY <1>1, <2>3, <2>4
<1> QED
  BY <1>3, <1>4 DEF Calendar!Sound, c

\* What the next publication is as of, before and after a step.
LEMMA AsOfSteps ==
  ASSUME ConstantsFit, NothingIsNothing, TypeOK, Edits \/ Around
  PROVE  /\ AsOf \in 0 .. day
         /\ Edits => AsOf' \in 0 .. AsOf
         /\ Deploy \/ Discard => AsOf' = day
         /\ Tick => AsOf' = AsOf \/ (AsOf = day /\ AsOf' = day + 1)
<1>1. /\ day \in Nat /\ LastDay \in Nat /\ NoDay \notin Nat
      /\ migrated = NoDay \/ migrated \in Nat
  BY DEF TypeOK, ConstantsFit, NothingIsNothing
<1>2. AsOf \in 0 .. day
  BY <1>1 DEF AsOf
<1>3. ASSUME Edits PROVE AsOf' \in 0 .. AsOf
  <2>1. /\ day' = day
        /\ \/ migrated' = migrated
           \/ migrated' \in Nat /\ (migrated = NoDay \/ migrated' <= migrated)
    BY <1>1, <1>3 DEF Edits
  <2>2. CASE migrated' = migrated
    BY <1>2, <2>1, <2>2 DEF AsOf
  <2>3. CASE migrated' # migrated /\ migrated = NoDay
    <3>1. AsOf = day /\ migrated' # NoDay /\ migrated' \in Nat
      BY <1>1, <2>1, <2>3 DEF AsOf
    <3>2. AsOf' = IF migrated' > day THEN day ELSE migrated'
      BY <2>1, <3>1 DEF AsOf
    <3> QED
      BY <1>1, <3>1, <3>2
  <2>4. CASE migrated' # migrated /\ migrated # NoDay
    <3>1. migrated \in Nat /\ migrated' \in Nat /\ migrated' <= migrated /\ migrated' # NoDay
      BY <1>1, <2>1, <2>4
    <3>2. /\ AsOf' = IF migrated' > day THEN day ELSE migrated'
          /\ AsOf = IF migrated > day THEN day ELSE migrated
      BY <2>1, <2>4, <3>1 DEF AsOf
    <3> QED
      BY <1>1, <3>1, <3>2
  <2> QED
    BY <2>2, <2>3, <2>4
<1>4. ASSUME Deploy \/ Discard PROVE AsOf' = day
  BY <1>4 DEF Deploy, Discard, Outside, AsOf
<1>5. ASSUME Tick PROVE AsOf' = AsOf \/ (AsOf = day /\ AsOf' = day + 1)
  <2>1. day' = day + 1 /\ migrated' = migrated
    BY <1>5 DEF Tick
  <2>2. CASE migrated = NoDay
    BY <2>1, <2>2 DEF AsOf
  <2>3. CASE migrated # NoDay
    <3>1. /\ AsOf' = IF migrated > day + 1 THEN day + 1 ELSE migrated
          /\ AsOf = IF migrated > day THEN day ELSE migrated
          /\ migrated \in Nat
      BY <1>1, <2>1, <2>3 DEF AsOf
    <3> QED
      BY <1>1, <3>1
  <2> QED
    BY <2>2, <2>3
<1> QED
  BY <1>2, <1>3, <1>4, <1>5

\* The published site implements the frozen calendar: publishing is the only step that
\* changes it, and keeps every day players had reached on the day it is as of, which is
\* that of the publication unless a migration that waited named an earlier one.
THEOREM CalendarFrozen == Spec => CalendarIsFrozen
<1> DEFINE calendar == Published(site.manifest)
<1>1. Init => Calendar!Init
  <2> SUFFICES ASSUME Init PROVE Calendar!Init
    OBVIOUS
  <2>1. site.manifest = NoManifest /\ day = 0 /\ migrated = NoDay
    BY DEF Init
  <2> QED
    BY <2>1 DEF Published, AsOf, Calendar!Init
<1>2. FrozenInv /\ [Next]_vars => [Calendar!Next]_<<day, calendar, AsOf>>
  <2> SUFFICES ASSUME FrozenInv, [Next]_vars, ~UNCHANGED <<day, calendar, AsOf>> PROVE Calendar!Next
    OBVIOUS
  <2>1. Edits \/ Around
    <3>1. Next
      BY DEF vars, AsOf
    <3> QED
      BY <3>1, StepCases, ConstantsFit, NothingIsNothing DEF FrozenInv, IInv
  <2>2. /\ AsOf \in 0 .. day
        /\ Edits => AsOf' \in 0 .. AsOf
        /\ Deploy \/ Discard => AsOf' = day
        /\ Tick => AsOf' = AsOf \/ (AsOf = day /\ AsOf' = day + 1)
    BY <2>1, AsOfSteps, ConstantsFit, NothingIsNothing DEF FrozenInv, IInv
  <2>3. Edits \/ Deploy \/ Discard \/ Tick
    BY <2>1 DEF Around, OpenPage, fetchDailyManifest, ClosePage, AsOf
  <2>4. CASE Edits
    <3>1. day' = day /\ calendar' = calendar
      BY <2>4 DEF Edits
    <3> QED
      BY <2>2, <2>4, <3>1 DEF Calendar!Next, Calendar!Name
  <2>5. CASE Discard
    <3>1. day' = day /\ calendar' = calendar
      BY <2>5 DEF Discard, Outside
    <3> QED
      BY <2>2, <2>5, <3>1 DEF Calendar!Next, Calendar!Withdraw
  <2>6. CASE Tick
    <3>1. day' = day + 1 /\ calendar' = calendar
      BY <2>6 DEF Tick
    <3> QED
      BY <2>2, <2>6, <3>1 DEF Calendar!Next, Calendar!Tick
  <2>7. CASE Deploy
    <3>1. tree.manifest \in Manifest /\ Sane(tree.manifest) /\ tree.manifest # NoManifest
          /\ site' = tree /\ day' = day /\ day \in Nat
      BY <2>7 DEF Deploy, Publishable, FrozenInv, IInv, TypeOK, Copy, CopyInv
    <3>2. Calendar!Sound(calendar')
      BY <3>1, PublishedSound
    <3>3. ASSUME NEW d \in DOMAIN calendar, d <= AsOf + 1
          PROVE  d \in DOMAIN calendar' /\ calendar'[d] = calendar[d]
      <4>1. site.manifest # NoManifest
        BY DEF Published
      <4>2. site.manifest \in Manifest /\ Sane(site.manifest)
        BY <4>1 DEF FrozenInv, IInv, TypeOK, Copy, CopyInv
      <4>3. PICK i \in DOMAIN site.manifest.schedule : d = site.manifest.schedule[i].date
        <5>1. DOMAIN calendar = {site.manifest.schedule[i].date : i \in DOMAIN site.manifest.schedule}
          BY <4>1, <4>2, PublishedDays
        <5> QED
          BY <5>1
      <4>4. d \in Nat
        BY <4>2, <4>3, ManifestTyped
      <4>5. migrated # NoDay => migrated \in Nat /\ AsOf <= migrated
        BY <3>1 DEF AsOf, FrozenInv, IInv, TypeOK
      <4>6. migrated # NoDay => d <= migrated + 1
        BY <2>2, <3>1, <3>3, <4>4, <4>5
      <4>7. Stands(site.manifest, tree.manifest, i)
        BY <2>7, <3>1, <4>1, <4>3, <4>6, DeployKeepsReached, ConstantsFit, NothingIsNothing DEF FrozenInv
      <4>8. calendar[d] = <<site.manifest.schedule[i].id, site.manifest.schedule[i].fp>>
        BY <4>1, <4>2, <4>3, PublishedDays
      <4>9. /\ d \in DOMAIN Published(tree.manifest)
            /\ Published(tree.manifest)[d] = <<tree.manifest.schedule[i].id, tree.manifest.schedule[i].fp>>
        BY <3>1, <4>3, <4>7, PublishedDays DEF Stands
      <4> QED
        BY <3>1, <4>7, <4>8, <4>9 DEF Stands
    <3> QED
      BY <2>2, <2>7, <3>1, <3>2, <3>3 DEF Calendar!Next, Calendar!Publish
  <2> QED
    BY <2>3, <2>4, <2>5, <2>6, <2>7
<1> QED
  BY <1>1, <1>2, FrozenInvariance, PTL DEF Spec, CalendarIsFrozen, Calendar!Spec
=============================================================================
