------------------------ MODULE PublicationSetProofs ------------------------
(***************************************************************************)
(* Proofs about the public artifacts, for any albums, corpora, budgets and *)
(* any number of publications, slips and interrupted builders: what the    *)
(* gate and the order of the runbook add up to, which connections the      *)
(* challenge documents, and that nothing live is dropped.                  *)
(***************************************************************************)
EXTENDS PublicationSet, FiniteSetTheorems, SequenceTheorems, WellFoundedInduction, TLAPS

----------------------------------------------------------------------------
(* Induction.                                                               *)

\* A set that holds 0 and, up to a bound, with every number the next one holds
\* all numbers up to the bound.
LEMMA InductionUpTo ==
  ASSUME NEW n \in Nat, NEW S, 0 \in S, \A k \in 0 .. n : k \in S /\ k < n => k + 1 \in S
  PROVE  0 .. n \subseteq S
<1> DEFINE Bad == {k \in 0 .. n : k \notin S}
           R == OpToRel(<, Nat)
<1> SUFFICES ASSUME Bad # {} PROVE FALSE
  OBVIOUS
<1>1. IsWellFoundedOn(R, Nat)
  BY NatLessThanWellFounded
<1>2. \A x, y \in Nat : x < y => <<x, y>> \in R
  BY DEF OpToRel
<1>3. Bad \in SUBSET Nat
  OBVIOUS
<1> HIDE DEF Bad, R
<1>4. PICK k \in Bad : \A j \in Bad : ~(<<j, k>> \in R)
  BY <1>1, <1>3, WFMin
<1>5. k \in 0 .. n /\ k \notin S /\ k # 0
  BY <1>4 DEF Bad
<1>6. k - 1 \in Nat /\ k \in Nat /\ k - 1 < k /\ k - 1 \in 0 .. n
  BY <1>5
<1>7. <<k - 1, k>> \in R
  BY <1>2, <1>6
<1>8. k - 1 \notin Bad
  BY <1>4, <1>7
<1> QED
  BY <1>5, <1>6, <1>8 DEF Bad

----------------------------------------------------------------------------
(* The order of the albums.                                                 *)

Below(S, a) == {b \in S : b < a}

\* Ordered enumerates a set of numbers.
LEMMA OrderedEnumerates ==
  ASSUME NEW S \in SUBSET Nat, IsFiniteSet(S)
  PROVE  LET n == Cardinality(S)
         IN  /\ n \in Nat /\ Ordered(S) \in [1 .. n -> S] /\ Len(Ordered(S)) = n
             /\ \A a \in S : \E i \in 1 .. n : Ordered(S)[i] = a
<1> DEFINE n == Cardinality(S)
           rank == [a \in S |-> Cardinality(Below(S, a)) + 1]
<1>1. n \in Nat
  BY FS_CardinalityType
<1>2. ASSUME NEW a \in S
      PROVE  IsFiniteSet(Below(S, a)) /\ Cardinality(Below(S, a)) \in 0 .. n - 1
  <2>1. IsFiniteSet(S \ {a}) /\ Cardinality(S \ {a}) = n - 1
    BY FS_RemoveElement
  <2>2. Below(S, a) \in SUBSET (S \ {a})
    BY DEF Below
  <2>3. IsFiniteSet(Below(S, a)) /\ Cardinality(Below(S, a)) <= n - 1
    BY <2>1, <2>2, FS_Subset
  <2>4. Cardinality(Below(S, a)) \in Nat
    BY <2>3, FS_CardinalityType
  <2> QED
    BY <1>1, <2>3, <2>4
<1>3. ASSUME NEW a \in S, NEW b \in S, a < b
      PROVE  rank[a] < rank[b]
  <2>1. Below(S, a) \cup {a} \in SUBSET Below(S, b) /\ a \notin Below(S, a)
    <3>1. \A x \in S : x \in Nat
      OBVIOUS
    <3>2. \A x \in S : x < a => x < b
      BY <1>3, <3>1
    <3>3. ~(a < a)
      BY <3>1
    <3> QED
      BY <1>3, <3>2, <3>3 DEF Below
  <2>2. Cardinality(Below(S, a) \cup {a}) = Cardinality(Below(S, a)) + 1
    BY <1>2, <2>1, FS_AddElement
  <2>3. Cardinality(Below(S, a) \cup {a}) <= Cardinality(Below(S, b))
    BY <1>2, <2>1, FS_Subset
  <2> QED
    BY <1>2, <2>2, <2>3
<1>4. rank \in [S -> 1 .. n]
  BY <1>1, <1>2
<1>5. \A a, b \in S : rank[a] = rank[b] => a = b
  <2>1. \A a, b \in S : a < b \/ b < a \/ a = b
    OBVIOUS
  <2>2. \A a \in S : rank[a] \in Nat
    BY <1>1, <1>4
  <2> HIDE DEF rank
  <2> QED
    BY <1>3, <2>1, <2>2
<1>6. \A i \in 1 .. n : \E a \in S : rank[a] = i
  <2>1. rank \in Injection(S, 1 .. n)
    BY <1>4, <1>5 DEF Injection, IsInjective
  <2>2. IsFiniteSet(1 .. n) /\ Cardinality(1 .. n) = n
    BY <1>1, FS_Interval
  <2>3. rank \in Surjection(S, 1 .. n)
    BY <2>1, <2>2, FS_Injection
  <2> QED
    BY <2>3 DEF Surjection
<1>7. ASSUME NEW i \in 1 .. n
      PROVE  Ordered(S)[i] \in S /\ rank[Ordered(S)[i]] = i
  <2>1. PICK a \in S : rank[a] = i
    BY <1>6
  <2>2. Cardinality({b \in S : b < a}) = i - 1
    BY <1>2, <2>1 DEF Below
  <2>3. Ordered(S)[i] = CHOOSE x \in S : Cardinality({b \in S : b < x}) = i - 1
    BY DEF Ordered
  <2>4. Ordered(S)[i] \in S /\ Cardinality({b \in S : b < Ordered(S)[i]}) = i - 1
    BY <2>2, <2>3
  <2> QED
    BY <1>1, <2>4 DEF Below
<1>8. Ordered(S) \in [1 .. n -> S]
  BY <1>7 DEF Ordered
<1>9. Len(Ordered(S)) = n
  BY <1>1, <1>8
<1>10. ASSUME NEW a \in S
       PROVE  \E i \in 1 .. n : Ordered(S)[i] = a
  BY <1>4, <1>5, <1>7
<1> QED
  BY <1>1, <1>8, <1>9, <1>10

----------------------------------------------------------------------------
(* The lanes of the catalog.                                                *)

\* What a lane holds after each of its albums.
Stages(kept, lane, order, p) ==
  p = [n \in 0 .. Len(order) |->
         IF n = 0 THEN kept ELSE InLane(p[n - 1], lane, order[n])]

\* A lane is defined: its recursion has a solution.
LEMMA LaneDefined ==
  ASSUME NEW kept, NEW lane, NEW albums, Len(Ordered(albums)) \in Nat
  PROVE  \E p : /\ Stages(kept, lane, Ordered(albums), p)
                /\ Lane(kept, lane, albums) = p[Len(Ordered(albums))]
<1> DEFINE order == Ordered(albums)
           N == Len(order)
           UpTo(k, p) == p = [n \in 0 .. k |->
                                IF n = 0 THEN kept ELSE InLane(p[n - 1], lane, order[n])]
           Solved == {k \in 0 .. N : \E p : UpTo(k, p)}
<1>1. 0 \in Solved
  <2> DEFINE p == [n \in 0 .. 0 |-> kept]
  <2>1. UpTo(0, p)
    OBVIOUS
  <2> HIDE DEF p, UpTo
  <2> QED
    BY <2>1
<1>2. ASSUME NEW k \in 0 .. N, k \in Solved, k < N
      PROVE  k + 1 \in Solved
  <2>1. PICK p : UpTo(k, p)
    BY <1>2
  <2> DEFINE q == [n \in 0 .. k + 1 |->
                     IF n = k + 1 THEN InLane(p[k], lane, order[k + 1]) ELSE p[n]]
  <2>2. \A n \in 0 .. k :
          q[n] = p[n] /\ p[n] = IF n = 0 THEN kept ELSE InLane(p[n - 1], lane, order[n])
    BY <2>1
  <2>3. q[k + 1] = InLane(p[k], lane, order[k + 1]) /\ q[k] = p[k]
    OBVIOUS
  <2>4. ASSUME NEW n \in 0 .. k + 1
        PROVE  q[n] = IF n = 0 THEN kept ELSE InLane(q[n - 1], lane, order[n])
    <3> HIDE DEF q
    <3>1. CASE n = k + 1
      BY <2>3, <3>1
    <3>2. CASE n # k + 1 /\ n = 0
      BY <2>2, <3>2
    <3>3. CASE n # k + 1 /\ n # 0
      <4>1. n \in 0 .. k /\ n - 1 \in 0 .. k
        BY <3>3
      <4> QED
        BY <2>2, <3>3, <4>1
    <3> QED
      BY <3>1, <3>2, <3>3
  <2>5. UpTo(k + 1, q)
    BY <2>4
  <2> HIDE DEF q, UpTo
  <2> QED
    BY <1>2, <2>5
<1>3. N \in Solved
  <2> HIDE DEF Solved
  <2>1. 0 .. N \subseteq Solved
    BY <1>1, <1>2, InductionUpTo
  <2> QED
    BY <2>1
<1>4. \E p : Stages(kept, lane, order, p)
  BY <1>3 DEF Stages
<1>5. Stages(kept, lane, order, CHOOSE p : Stages(kept, lane, order, p))
  BY <1>4
<1>6. Lane(kept, lane, albums) = (CHOOSE p : Stages(kept, lane, order, p))[N]
  BY DEF Lane, Stages
<1> QED
  BY <1>5, <1>6

\* A lane drops nothing that is kept and brings nothing but its own albums; unless
\* it holds one album per artist, it brings all of them.
LEMMA LaneKeeps ==
  ASSUME NEW kept, NEW lane, NEW albums \in SUBSET Nat, IsFiniteSet(albums)
  PROVE  /\ kept \subseteq Lane(kept, lane, albums)
         /\ Lane(kept, lane, albums) \subseteq kept \cup albums
         /\ lane # "unique" => albums \subseteq Lane(kept, lane, albums)
<1> DEFINE order == Ordered(albums)
           N == Len(order)
<1>1. /\ N \in Nat /\ order \in [1 .. N -> albums]
      /\ \A a \in albums : \E i \in 1 .. N : order[i] = a
  BY OrderedEnumerates
<1>2. PICK p : Stages(kept, lane, order, p) /\ Lane(kept, lane, albums) = p[N]
  BY <1>1, LaneDefined
<1>3. p[0] = kept /\ \A n \in 0 .. N : n # 0 => p[n] = InLane(p[n - 1], lane, order[n])
  BY <1>1, <1>2 DEF Stages
<1> DEFINE Between(n) ==
             /\ kept \subseteq p[n] /\ p[n] \subseteq kept \cup albums
             /\ lane # "unique" => \A i \in 1 .. n : order[i] \in p[n]
           Done == {n \in 0 .. N : Between(n)}
<1> HIDE DEF order, N
<1>4. 0 \in Done
  BY <1>1, <1>3
<1>5. ASSUME NEW n \in 0 .. N, n \in Done, n < N
      PROVE  n + 1 \in Done
  <2>1. Between(n)
    BY <1>5
  <2>2. n + 1 \in 0 .. N /\ n + 1 \in 1 .. N /\ n + 1 # 0 /\ (n + 1) - 1 = n
    BY <1>1, <1>5
  <2>3. p[n + 1] = InLane(p[n], lane, order[n + 1]) /\ order[n + 1] \in albums
    BY <1>1, <1>3, <2>2
  <2>4. kept \subseteq p[n + 1] /\ p[n + 1] \subseteq kept \cup albums
    BY <2>1, <2>3 DEF InLane
  <2>5. ASSUME lane # "unique", NEW i \in 1 .. n + 1
        PROVE  order[i] \in p[n + 1]
    <3>1. i \in 1 .. n \/ i = n + 1
      BY <1>1
    <3>2. p[n] \subseteq p[n + 1] /\ order[n + 1] \in p[n + 1]
      BY <2>3, <2>5 DEF InLane
    <3> QED
      BY <2>1, <2>5, <3>1, <3>2
  <2> QED
    BY <2>2, <2>4, <2>5
<1>6. Between(N)
  <2> HIDE DEF Between
  <2>1. 0 .. N \subseteq Done
    <3> HIDE DEF Done
    <3> QED
      BY <1>1, <1>4, <1>5, InductionUpTo
  <2> QED
    BY <1>1, <2>1
<1> QED
  BY <1>1, <1>2, <1>6

\* A catalog assembled over the one that is there keeps all of its albums.
LEMMA CatalogGrows ==
  ASSUME NEW catalog \in SUBSET Albums, NEW personal \in SUBSET Albums,
         NEW candidates \in SUBSET Albums
  PROVE  /\ catalog \subseteq assemble_album_catalog(personal, catalog, candidates)
         /\ assemble_album_catalog(personal, catalog, candidates) \subseteq Albums
<1> DEFINE first == Lane(Backbone, "personal", personal)
           second == Lane(first, "published", catalog)
<1>1. /\ Albums \subseteq Nat /\ IsFiniteSet(Albums) /\ Backbone \subseteq Albums
  BY WalkFits, PublicationFits
<1>2. \A S \in SUBSET Albums : S \in SUBSET Nat /\ IsFiniteSet(S)
  BY <1>1, FS_Subset
<1>3. first \subseteq Albums
  BY <1>1, <1>2, LaneKeeps
<1>4. catalog \subseteq second /\ second \subseteq Albums
  <2> HIDE DEF first
  <2>1. second \subseteq first \cup catalog
    BY <1>2, LaneKeeps
  <2>2. catalog \subseteq second
    BY <1>2, LaneKeeps
  <2> QED
    BY <1>3, <2>1, <2>2
<1>5. /\ second \subseteq Lane(second, "unique", candidates)
      /\ Lane(second, "unique", candidates) \subseteq second \cup candidates
  <2> HIDE DEF second
  <2> QED
    BY <1>2, LaneKeeps
<1>6. assemble_album_catalog(personal, catalog, candidates) = Lane(second, "unique", candidates)
  BY DEF assemble_album_catalog
<1> QED
  BY <1>4, <1>5, <1>6

----------------------------------------------------------------------------
(* The walk over the candidates.                                            *)

\* The artists of a claim.
PairAt(walk, k) == Pair(walk[k][1], walk[k][2])

\* Claims of albums by two artists, of no family, of none used and of none twice.
Claims(catalog, used, walk) ==
  /\ walk \in Seq(catalog \X catalog)
  /\ \A k \in 1 .. Len(walk) : /\ Cardinality(PairAt(walk, k)) = 2
                               /\ PairAt(walk, k) \notin used \cup FamilyPairs
  /\ \A k, l \in 1 .. Len(walk) : PairAt(walk, k) = PairAt(walk, l) => k = l

\* One walk goes on from another.
GoesOn(walk, further) ==
  Len(walk) <= Len(further) /\ \A k \in 1 .. Len(walk) : further[k] = walk[k]

\* An album has a claim of its own.
Claimant(walk, a) == \E k \in 1 .. Len(walk) : walk[k][1] = a

\* A pair of artists has been walked.
Walked(walk, pair) == \E k \in 1 .. Len(walk) : PairAt(walk, k) = pair

\* The pairs of a walk are those of its claims.
LEMMA PairsOfWalk ==
  ASSUME NEW S, NEW walk \in Seq(S), NEW pair
  PROVE  pair \in Pairs(Range(walk)) <=> Walked(walk, pair)
<1>1. DOMAIN walk = 1 .. Len(walk)
  BY LenProperties
<1> QED
  BY <1>1 DEF Pairs, Range, PairAt, Walked

\* Among some places there is a nearest one.
LEMMA NearestExists ==
  ASSUME NEW i \in Nat, NEW free \in SUBSET Nat, free # {}
  PROVE  \E n \in free : \A m \in free : Nearer(i, n, m)
<1> DEFINE far == [j \in free |-> 2 * Gap(i, j) + (IF j >= i THEN 0 ELSE 1)]
           Fars == {far[j] : j \in free}
           R == OpToRel(<, Nat)
<1>1. IsWellFoundedOn(R, Nat)
  BY NatLessThanWellFounded
<1>2. \A x, y \in Nat : x < y => <<x, y>> \in R
  BY DEF OpToRel
<1>3. \A j \in free : j \in Nat /\ Gap(i, j) \in Nat /\ far[j] \in Nat
  BY DEF Gap
<1>4. Fars \subseteq Nat /\ Fars # {}
  BY <1>3
<1>5. PICK x \in Fars : \A y \in Fars : ~(<<y, x>> \in R)
  <2> HIDE DEF R, Fars
  <2> QED
    BY <1>1, <1>4, WFMin
<1>6. PICK n \in free : far[n] = x
  BY <1>5
<1>7. ASSUME NEW m \in free
      PROVE  Nearer(i, n, m)
  <2>1. ~(far[m] < far[n])
    <3> HIDE DEF R, far
    <3> QED
      BY <1>2, <1>3, <1>5, <1>6, <1>7
  <2>2. /\ far[n] = 2 * Gap(i, n) + (IF n >= i THEN 0 ELSE 1)
        /\ far[m] = 2 * Gap(i, m) + (IF m >= i THEN 0 ELSE 1)
    BY <1>6, <1>7
  <2>3. n \in Nat /\ m \in Nat
    BY <1>6, <1>7
  <2> HIDE DEF far
  <2>4. ~(2 * Gap(i, m) + (IF m >= i THEN 0 ELSE 1) < 2 * Gap(i, n) + (IF n >= i THEN 0 ELSE 1))
    BY <2>1, <2>2
  <2> QED
    BY <2>3, <2>4 DEF Gap, Nearer
<1> QED
  BY <1>7

\* A turn adds a claim of its album's if any pair is free, and nothing else.
LEMMA OneTurn ==
  ASSUME NEW catalog, NEW N \in Nat, NEW order \in [1 .. N -> catalog], NEW used, NEW walk,
         Claims(catalog, used, walk), NEW i \in 1 .. N
  PROVE  LET turn == Claim(order, i, used, walk)
         IN  /\ Claims(catalog, used, turn) /\ GoesOn(walk, turn)
             /\ Len(turn) \in {Len(walk), Len(walk) + 1}
             /\ Partners(order, i, used \cup Pairs(Range(walk))) # {} =>
                  Claimant(turn, order[i])
<1> DEFINE free == Partners(order, i, used \cup Pairs(Range(walk)))
           turn == Claim(order, i, used, walk)
           S == catalog \X catalog
<1>1. walk \in Seq(S) /\ Len(walk) \in Nat
  BY DEF Claims
<1>2. CASE free = {}
  <2>1. turn = walk
    BY <1>2 DEF Claim
  <2>2. GoesOn(walk, walk)
    BY <1>1 DEF GoesOn
  <2> QED
    BY <1>2, <2>1, <2>2
<1>3. CASE free # {}
  <2>1. free \subseteq 1 .. N
    BY DEF Partners
  <2>2. PICK j \in free : turn = Append(walk, <<order[i], order[j]>>)
    <3>1. \E n \in free : \A m \in free : Nearer(i, n, m)
      <4> HIDE DEF free
      <4>1. i \in Nat /\ free \in SUBSET Nat
        BY <2>1
      <4> QED
        BY <1>3, <4>1, NearestExists
    <3> DEFINE j == CHOOSE n \in free : \A m \in free : Nearer(i, n, m)
    <3>2. j \in free
      BY <3>1
    <3>3. turn = Append(walk, <<order[i], order[j]>>)
      BY <1>3 DEF Claim
    <3> HIDE DEF j, turn, free
    <3> QED
      BY <3>2, <3>3
  <2> DEFINE claim == <<order[i], order[j]>>
             L == Len(walk)
  <2>3. claim \in S /\ claim[1] = order[i] /\ claim[2] = order[j]
    BY <2>1
  <2>4. /\ Cardinality(Pair(order[i], order[j])) = 2
        /\ Pair(order[i], order[j]) \notin used \cup FamilyPairs
        /\ Pair(order[i], order[j]) \notin Pairs(Range(walk))
    BY <2>2 DEF Partners
  <2> HIDE DEF claim, turn, S
  <2>5. /\ turn \in Seq(S) /\ Len(turn) = L + 1 /\ turn[L + 1] = claim
        /\ \A k \in 1 .. L : turn[k] = walk[k]
    BY <1>1, <2>2, <2>3, AppendProperties DEF claim
  <2> HIDE DEF L
  <2>6. L \in Nat /\ 1 .. Len(turn) = (1 .. L) \cup {L + 1} /\ L + 1 \notin 1 .. L
    BY <1>1, <2>5 DEF L
  <2>7. /\ PairAt(turn, L + 1) = Pair(order[i], order[j])
        /\ \A k \in 1 .. L : PairAt(turn, k) = PairAt(walk, k)
    BY <2>3, <2>5 DEF PairAt
  <2>8. \A k \in 1 .. L : PairAt(walk, k) # Pair(order[i], order[j])
    BY <1>1, <2>4, PairsOfWalk DEF L, Walked
  <2>9. /\ \A k \in 1 .. L : /\ Cardinality(PairAt(walk, k)) = 2
                             /\ PairAt(walk, k) \notin used \cup FamilyPairs
        /\ \A k, l \in 1 .. L : PairAt(walk, k) = PairAt(walk, l) => k = l
    BY DEF Claims, L
  <2>10. \A k \in 1 .. Len(turn) : /\ Cardinality(PairAt(turn, k)) = 2
                                   /\ PairAt(turn, k) \notin used \cup FamilyPairs
    BY <2>4, <2>6, <2>7, <2>9
  <2>11. \A k, l \in 1 .. Len(turn) : PairAt(turn, k) = PairAt(turn, l) => k = l
    BY <2>6, <2>7, <2>8, <2>9
  <2>12. Claims(catalog, used, turn)
    BY <2>5, <2>10, <2>11 DEF Claims, S
  <2>13. GoesOn(walk, turn)
    BY <2>5, <2>6 DEF GoesOn, L
  <2>14. L + 1 \in 1 .. Len(turn) /\ turn[L + 1][1] = order[i]
    BY <2>3, <2>5, <2>6
  <2> QED
    BY <2>5, <2>12, <2>13, <2>14 DEF L, turn, Claimant
<1> QED
  BY <1>2, <1>3

\* Going on is transitive.
LEMMA GoesOnAndOn ==
  ASSUME NEW s, NEW t, NEW u, GoesOn(s, t), GoesOn(t, u),
         Len(s) \in Nat, Len(t) \in Nat, Len(u) \in Nat
  PROVE  GoesOn(s, u)
<1>1. \A k \in 1 .. Len(s) : k \in 1 .. Len(t)
  BY DEF GoesOn
<1> QED
  BY <1>1 DEF GoesOn

\* What a round has claimed after each of its turns.
Turns(order, used, p) ==
  p = [i \in 0 .. Len(order) |-> IF i = 0 THEN <<>> ELSE Claim(order, i, used, p[i - 1])]

\* A round is defined: its recursion has a solution.
LEMMA RoundDefined ==
  ASSUME NEW order, NEW used, Len(order) \in Nat
  PROVE  \E p : Turns(order, used, p) /\ WalkRound(order, used) = p[Len(order)]
<1> DEFINE N == Len(order)
           UpTo(k, p) == p = [i \in 0 .. k |->
                                IF i = 0 THEN <<>> ELSE Claim(order, i, used, p[i - 1])]
           Solved == {k \in 0 .. N : \E p : UpTo(k, p)}
<1>1. 0 \in Solved
  <2> DEFINE p == [i \in 0 .. 0 |-> <<>>]
  <2>1. UpTo(0, p)
    OBVIOUS
  <2> HIDE DEF p, UpTo
  <2> QED
    BY <2>1
<1>2. ASSUME NEW k \in 0 .. N, k \in Solved, k < N
      PROVE  k + 1 \in Solved
  <2>1. PICK p : UpTo(k, p)
    BY <1>2
  <2> DEFINE q == [i \in 0 .. k + 1 |->
                     IF i = k + 1 THEN Claim(order, k + 1, used, p[k]) ELSE p[i]]
  <2>2. \A i \in 0 .. k :
          q[i] = p[i] /\ p[i] = IF i = 0 THEN <<>> ELSE Claim(order, i, used, p[i - 1])
    BY <2>1
  <2>3. q[k + 1] = Claim(order, k + 1, used, p[k]) /\ q[k] = p[k]
    OBVIOUS
  <2>4. ASSUME NEW i \in 0 .. k + 1
        PROVE  q[i] = IF i = 0 THEN <<>> ELSE Claim(order, i, used, q[i - 1])
    <3> HIDE DEF q
    <3>1. CASE i = k + 1
      BY <2>3, <3>1
    <3>2. CASE i # k + 1 /\ i = 0
      BY <2>2, <3>2
    <3>3. CASE i # k + 1 /\ i # 0
      <4>1. i \in 0 .. k /\ i - 1 \in 0 .. k
        BY <3>3
      <4> QED
        BY <2>2, <3>3, <4>1
    <3> QED
      BY <3>1, <3>2, <3>3
  <2>5. UpTo(k + 1, q)
    BY <2>4
  <2> HIDE DEF q, UpTo
  <2> QED
    BY <1>2, <2>5
<1>3. N \in Solved
  <2> HIDE DEF Solved
  <2>1. 0 .. N \subseteq Solved
    BY <1>1, <1>2, InductionUpTo
  <2> QED
    BY <2>1
<1>4. \E p : Turns(order, used, p)
  BY <1>3 DEF Turns
<1>5. Turns(order, used, CHOOSE p : Turns(order, used, p))
  BY <1>4
<1>6. WalkRound(order, used) = (CHOOSE p : Turns(order, used, p))[N]
  BY DEF WalkRound, Turns
<1> QED
  BY <1>5, <1>6

\* Every album of a pair that is free when a round begins has a claim of its own in the
\* round, or the pair is claimed in it; a round claims once for an album at most.
LEMMA RoundClaims ==
  ASSUME NEW catalog, NEW N \in Nat, NEW order \in [1 .. N -> catalog], NEW used
  PROVE  LET claims == WalkRound(order, used)
         IN  /\ Claims(catalog, used, claims) /\ Len(claims) \in 0 .. N
             /\ \A i, j \in 1 .. N :
                  /\ Cardinality(Pair(order[i], order[j])) = 2
                  /\ Pair(order[i], order[j]) \notin used \cup FamilyPairs
                  => Claimant(claims, order[i]) \/ Walked(claims, Pair(order[i], order[j]))
<1>1. Len(order) = N
  OBVIOUS
<1>2. PICK p : Turns(order, used, p) /\ WalkRound(order, used) = p[N]
  BY <1>1, RoundDefined
<1>3. \A i \in 0 .. N : p[i] = IF i = 0 THEN <<>> ELSE Claim(order, i, used, p[i - 1])
  BY <1>1, <1>2 DEF Turns
<1>4. p[0] = <<>> /\ \A i \in 1 .. N : p[i] = Claim(order, i, used, p[i - 1])
  <2>1. p[0] = IF 0 = 0 THEN <<>> ELSE Claim(order, 0, used, p[0 - 1])
    BY <1>3, 0 \in 0 .. N
  <2>2. ASSUME NEW i \in 1 .. N
        PROVE  p[i] = Claim(order, i, used, p[i - 1])
    <3>1. i \in 0 .. N /\ i # 0
      OBVIOUS
    <3>2. p[i] = IF i = 0 THEN <<>> ELSE Claim(order, i, used, p[i - 1])
      BY <1>3, <3>1
    <3> QED
      BY <3>1, <3>2
  <2> QED
    BY <2>1, <2>2
<1> DEFINE Between(i) == Claims(catalog, used, p[i]) /\ Len(p[i]) \in 0 .. i
           Done == {i \in 0 .. N : Between(i)}
<1>5. Claims(catalog, used, <<>>)
  <2>1. <<>> \in Seq(catalog \X catalog)
    OBVIOUS
  <2> QED
    BY <2>1 DEF Claims
<1>6. 0 \in Done
  BY <1>4, <1>5
<1>7. ASSUME NEW i \in 0 .. N, Between(i), i < N
      PROVE  Between(i + 1) /\ GoesOn(p[i], p[i + 1])
  <2>1. i + 1 \in 1 .. N /\ (i + 1) - 1 = i
    BY <1>7
  <2>2. p[i + 1] = Claim(order, i + 1, used, p[i])
    BY <1>4, <2>1
  <2> DEFINE n == i + 1
  <2> HIDE DEF n
  <2>3. n \in 1 .. N
    BY <2>1 DEF n
  <2>4. LET turn == Claim(order, n, used, p[i])
        IN  /\ Claims(catalog, used, turn) /\ GoesOn(p[i], turn)
            /\ Len(turn) \in {Len(p[i]), Len(p[i]) + 1}
    BY <1>7, <2>3, OneTurn
  <2>5. /\ Claims(catalog, used, p[n]) /\ GoesOn(p[i], p[n])
        /\ Len(p[n]) \in {Len(p[i]), Len(p[i]) + 1}
    BY <2>2, <2>4 DEF n
  <2>6. Len(p[n]) \in 0 .. i + 1
    BY <1>7, <2>5
  <2> QED
    BY <2>5, <2>6 DEF n
<1>8. \A i \in 0 .. N : Between(i)
  <2>1. \A i \in 0 .. N : i \in Done /\ i < N => i + 1 \in Done
    BY <1>7
  <2> HIDE DEF Done
  <2>2. 0 .. N \subseteq Done
    BY <1>6, <2>1, InductionUpTo
  <2> QED
    BY <2>2 DEF Done
<1>9. ASSUME NEW i \in 1 .. N
      PROVE  GoesOn(p[i], p[N])
  <2> DEFINE Later == {n \in 0 .. N : n >= i => GoesOn(p[i], p[n])}
  <2> HIDE DEF Between
  <2>1. 0 \in Later
    OBVIOUS
  <2>2. \A n \in 0 .. N : Len(p[n]) \in Nat
    BY <1>8 DEF Between
  <2>3. ASSUME NEW n \in 0 .. N, n \in Later, n < N
        PROVE  n + 1 \in Later
    <3>1. n + 1 \in 0 .. N
      BY <2>3
    <3>2. GoesOn(p[n], p[n + 1])
      BY <1>7, <1>8, <2>3
    <3>3. CASE n >= i
      <4>1. GoesOn(p[i], p[n])
        BY <2>3, <3>3
      <4>2. GoesOn(p[i], p[n + 1])
        BY <2>2, <3>1, <3>2, <4>1, GoesOnAndOn
      <4> QED
        BY <3>1, <4>2
    <3>4. CASE n + 1 = i
      <4>1. GoesOn(p[i], p[i])
        BY <2>2 DEF GoesOn
      <4> QED
        BY <3>1, <3>4, <4>1
    <3>5. CASE n + 1 < i
      BY <3>1, <3>5
    <3> QED
      BY <3>3, <3>4, <3>5
  <2>4. N \in Later
    <3> HIDE DEF Later
    <3>1. 0 .. N \subseteq Later
      BY <2>1, <2>3, InductionUpTo
    <3> QED
      BY <3>1
  <2> QED
    BY <2>4
<1>10. ASSUME NEW i \in 1 .. N, NEW j \in 1 .. N,
              Cardinality(Pair(order[i], order[j])) = 2,
              Pair(order[i], order[j]) \notin used \cup FamilyPairs
       PROVE  Claimant(p[N], order[i]) \/ Walked(p[N], Pair(order[i], order[j]))
  <2> DEFINE pair == Pair(order[i], order[j])
             s == p[i - 1]
             t == p[i]
  <2>1. i - 1 \in 0 .. N /\ i - 1 < N /\ (i - 1) + 1 = i /\ i \in 0 .. N
    OBVIOUS
  <2>2. Claims(catalog, used, s) /\ GoesOn(s, t) /\ t = Claim(order, i, used, s)
    BY <1>4, <1>7, <1>8, <2>1
  <2>3. GoesOn(t, p[N]) /\ Len(t) \in Nat /\ Len(p[N]) \in Nat /\ Len(s) \in Nat
    BY <1>8, <1>9, <2>1
  <2> HIDE DEF s, t, Between
  <2>4. CASE pair \in Pairs(Range(s))
    <3>1. s \in Seq(catalog \X catalog)
      BY <2>2 DEF Claims
    <3>2. PICK k \in 1 .. Len(s) : PairAt(s, k) = pair
      BY <2>4, <3>1, PairsOfWalk DEF Walked
    <3>3. k \in 1 .. Len(t) /\ k \in 1 .. Len(p[N]) /\ t[k] = s[k] /\ p[N][k] = t[k]
      BY <2>2, <2>3 DEF GoesOn
    <3>4. PairAt(p[N], k) = pair
      BY <3>2, <3>3 DEF PairAt
    <3> QED
      BY <3>3, <3>4 DEF Walked
  <2>5. CASE pair \notin Pairs(Range(s))
    <3>1. j \in Partners(order, i, used \cup Pairs(Range(s)))
      BY <1>10, <2>5 DEF Partners
    <3>2. Claims(catalog, used, s)
      BY <2>2
    <3>3. Claimant(t, order[i])
      BY <2>2, <3>1, <3>2, OneTurn
    <3>4. PICK k \in 1 .. Len(t) : t[k][1] = order[i]
      BY <3>3 DEF Claimant
    <3>5. k \in 1 .. Len(p[N]) /\ p[N][k] = t[k]
      BY <2>3, <3>4 DEF GoesOn
    <3> QED
      BY <3>4, <3>5 DEF Claimant
  <2> QED
    BY <2>4, <2>5
<1> HIDE DEF Between, Done
<1>11. Claims(catalog, used, p[N]) /\ Len(p[N]) \in 0 .. N
  BY <1>8 DEF Between
<1> QED
  BY <1>2, <1>10, <1>11

\* The albums one has met in claims of its own.
Met(walk, catalog, a) == {x \in catalog : \E k \in 1 .. Len(walk) : walk[k] = <<a, x>>}

\* A round goes on from the walk with claims of its kind, and an album that still has
\* a free pair meets another one in it, unless the pair is walked.
LEMMA OneRound ==
  ASSUME NEW catalog, NEW N \in Nat, NEW order \in [1 .. N -> catalog],
         \A a \in catalog : \E i \in 1 .. N : order[i] = a,
         NEW walk, Claims(catalog, {}, walk)
  PROVE  LET further == WithRound(order, walk)
         IN  /\ Claims(catalog, {}, further) /\ GoesOn(walk, further)
             /\ \A a, b \in catalog :
                  /\ Cardinality(Pair(a, b)) = 2 /\ Pair(a, b) \notin FamilyPairs
                  => \/ Walked(further, Pair(a, b))
                     \/ \E x \in Met(further, catalog, a) : x \notin Met(walk, catalog, a)
<1> DEFINE S == catalog \X catalog
           used == Pairs(Range(walk))
           claims == WalkRound(order, used)
           further == WithRound(order, walk)
           L == Len(walk)
           M == Len(claims)
<1>1. further = walk \o claims
  BY DEF WithRound
<1>2. /\ Claims(catalog, used, claims) /\ M \in 0 .. N
      /\ \A i, j \in 1 .. N :
           /\ Cardinality(Pair(order[i], order[j])) = 2
           /\ Pair(order[i], order[j]) \notin used \cup FamilyPairs
           => Claimant(claims, order[i]) \/ Walked(claims, Pair(order[i], order[j]))
  <2> HIDE DEF used
  <2> QED
    BY RoundClaims
<1> HIDE DEF claims, further, S
<1>3. walk \in Seq(S) /\ claims \in Seq(S) /\ L \in Nat /\ M \in Nat
  BY <1>2 DEF Claims, S
<1>4. /\ further \in Seq(S) /\ Len(further) = L + M
      /\ \A k \in 1 .. L + M : further[k] = IF k <= L THEN walk[k] ELSE claims[k - L]
  BY <1>1, <1>3, ConcatProperties
<1> HIDE DEF L, M
<1>5. /\ \A k \in 1 .. L : k \in 1 .. Len(further) /\ further[k] = walk[k]
      /\ \A k \in 1 .. M : L + k \in 1 .. Len(further) /\ further[L + k] = claims[k]
      /\ \A k \in 1 .. Len(further) : k \in 1 .. L \/ \E m \in 1 .. M : k = L + m
  <2>1. ASSUME NEW k \in 1 .. L
        PROVE  k \in 1 .. Len(further) /\ further[k] = walk[k]
    BY <1>3, <1>4
  <2>2. ASSUME NEW k \in 1 .. M
        PROVE  L + k \in 1 .. Len(further) /\ further[L + k] = claims[k]
    <3>1. L + k \in 1 .. L + M /\ ~(L + k <= L) /\ (L + k) - L = k
      BY <1>3
    <3> QED
      BY <1>4, <3>1
  <2>3. ASSUME NEW k \in 1 .. Len(further), k \notin 1 .. L
        PROVE  \E m \in 1 .. M : k = L + m
    <3>1. k - L \in 1 .. M /\ k = L + (k - L)
      BY <1>3, <1>4, <2>3
    <3> QED
      BY <3>1
  <2> QED
    BY <2>1, <2>2, <2>3
<1>6. /\ \A k \in 1 .. L : PairAt(further, k) = PairAt(walk, k)
      /\ \A m \in 1 .. M : PairAt(further, L + m) = PairAt(claims, m)
  BY <1>5 DEF PairAt
<1>7. /\ \A k \in 1 .. L : Cardinality(PairAt(walk, k)) = 2 /\ PairAt(walk, k) \notin FamilyPairs
      /\ \A k, l \in 1 .. L : PairAt(walk, k) = PairAt(walk, l) => k = l
  BY DEF Claims, L
<1>8. /\ \A m \in 1 .. M : /\ Cardinality(PairAt(claims, m)) = 2
                           /\ PairAt(claims, m) \notin FamilyPairs
                           /\ PairAt(claims, m) \notin used
      /\ \A m, n \in 1 .. M : PairAt(claims, m) = PairAt(claims, n) => m = n
  BY <1>2 DEF Claims, M
<1>9. \A k \in 1 .. L, m \in 1 .. M : PairAt(walk, k) # PairAt(claims, m)
  <2> SUFFICES ASSUME NEW k \in 1 .. L, NEW m \in 1 .. M PROVE PairAt(walk, k) # PairAt(claims, m)
    OBVIOUS
  <2>1. Walked(walk, PairAt(walk, k))
    BY DEF Walked, L
  <2>2. PairAt(walk, k) \in used
    BY <1>3, <2>1, PairsOfWalk
  <2> QED
    BY <1>8, <2>2
<1>10. Claims(catalog, {}, further)
  <2>1. \A k \in 1 .. Len(further) : /\ Cardinality(PairAt(further, k)) = 2
                                     /\ PairAt(further, k) \notin {} \cup FamilyPairs
    BY <1>5, <1>6, <1>7, <1>8
  <2>2. ASSUME NEW k \in 1 .. Len(further), NEW l \in 1 .. Len(further),
               PairAt(further, k) = PairAt(further, l)
        PROVE  k = l
    BY <1>5, <1>6, <1>7, <1>8, <1>9, <2>2
  <2> QED
    BY <1>4, <2>1, <2>2 DEF Claims, S
<1>11. GoesOn(walk, further)
  BY <1>3, <1>4, <1>5 DEF GoesOn, L
<1>12. ASSUME NEW a \in catalog, NEW b \in catalog,
              Cardinality(Pair(a, b)) = 2, Pair(a, b) \notin FamilyPairs
       PROVE  \/ Walked(further, Pair(a, b))
              \/ \E x \in Met(further, catalog, a) : x \notin Met(walk, catalog, a)
  <2> DEFINE pair == Pair(a, b)
  <2> HIDE DEF pair
  <2>1. CASE Walked(walk, pair)
    <3>1. PICK k \in 1 .. L : PairAt(walk, k) = pair
      BY <2>1 DEF Walked, L
    <3>2. k \in 1 .. Len(further) /\ PairAt(further, k) = pair
      BY <1>5, <1>6, <3>1
    <3> QED
      BY <3>2 DEF Walked, pair
  <2>2. CASE ~Walked(walk, pair) /\ Walked(claims, pair)
    <3>1. PICK m \in 1 .. M : PairAt(claims, m) = pair
      BY <2>2 DEF Walked, M
    <3>2. L + m \in 1 .. Len(further) /\ PairAt(further, L + m) = pair
      BY <1>5, <1>6, <3>1
    <3> QED
      BY <3>2 DEF Walked, pair
  <2>3. CASE ~Walked(walk, pair) /\ ~Walked(claims, pair)
    <3>1. pair \notin used
      BY <1>3, <2>3, PairsOfWalk
    <3>2. PICK i \in 1 .. N : order[i] = a
      OBVIOUS
    <3>3. PICK j \in 1 .. N : order[j] = b
      OBVIOUS
    <3>4. Claimant(claims, a)
      BY <1>2, <1>12, <2>3, <3>1, <3>2, <3>3 DEF pair
    <3>5. PICK m \in 1 .. M : claims[m][1] = a
      BY <3>4 DEF Claimant, M
    <3> DEFINE x == claims[m][2]
    <3>6. claims[m] \in S
      BY <1>3, <3>5, ElementOfSeq DEF M
    <3>7. claims[m] = <<a, x>> /\ x \in catalog
      BY <3>5, <3>6 DEF S
    <3> HIDE DEF x
    <3>8. x \in Met(further, catalog, a)
      BY <1>5, <3>5, <3>7 DEF Met
    <3>9. x \notin Met(walk, catalog, a)
      <4> SUFFICES ASSUME x \in Met(walk, catalog, a) PROVE FALSE
        OBVIOUS
      <4>1. PICK k \in 1 .. L : walk[k] = <<a, x>>
        BY DEF Met, L
      <4>2. PairAt(walk, k) = PairAt(claims, m)
        BY <3>7, <4>1 DEF PairAt
      <4> QED
        BY <1>9, <3>5, <4>1, <4>2
    <3> QED
      BY <3>8, <3>9
  <2> QED
    BY <2>1, <2>2, <2>3
<1> QED
  BY <1>10, <1>11, <1>12 DEF further

\* The walk after each of its rounds.
RoundsOf(order, p) ==
  p = [n \in 0 .. Len(order) |-> IF n = 0 THEN <<>> ELSE WithRound(order, p[n - 1])]

\* The walk is defined: its recursion has a solution.
LEMMA WalkDefined ==
  ASSUME NEW order, Len(order) \in Nat
  PROVE  \E p : RoundsOf(order, p) /\ WalkRounds(order) = p[Len(order)]
<1> DEFINE N == Len(order)
           UpTo(k, p) == p = [n \in 0 .. k |->
                                IF n = 0 THEN <<>> ELSE WithRound(order, p[n - 1])]
           Solved == {k \in 0 .. N : \E p : UpTo(k, p)}
<1>1. 0 \in Solved
  <2> DEFINE p == [n \in 0 .. 0 |-> <<>>]
  <2>1. UpTo(0, p)
    OBVIOUS
  <2> HIDE DEF p, UpTo
  <2> QED
    BY <2>1
<1>2. ASSUME NEW k \in 0 .. N, k \in Solved, k < N
      PROVE  k + 1 \in Solved
  <2>1. PICK p : UpTo(k, p)
    BY <1>2
  <2> DEFINE q == [n \in 0 .. k + 1 |-> IF n = k + 1 THEN WithRound(order, p[k]) ELSE p[n]]
  <2>2. \A n \in 0 .. k :
          q[n] = p[n] /\ p[n] = IF n = 0 THEN <<>> ELSE WithRound(order, p[n - 1])
    BY <2>1
  <2>3. q[k + 1] = WithRound(order, p[k]) /\ q[k] = p[k]
    OBVIOUS
  <2>4. ASSUME NEW n \in 0 .. k + 1
        PROVE  q[n] = IF n = 0 THEN <<>> ELSE WithRound(order, q[n - 1])
    <3> HIDE DEF q
    <3>1. CASE n = k + 1
      BY <2>3, <3>1
    <3>2. CASE n # k + 1 /\ n = 0
      BY <2>2, <3>2
    <3>3. CASE n # k + 1 /\ n # 0
      <4>1. n \in 0 .. k /\ n - 1 \in 0 .. k
        BY <3>3
      <4> QED
        BY <2>2, <3>3, <4>1
    <3> QED
      BY <3>1, <3>2, <3>3
  <2>5. UpTo(k + 1, q)
    BY <2>4
  <2> HIDE DEF q, UpTo
  <2> QED
    BY <1>2, <2>5
<1>3. N \in Solved
  <2> HIDE DEF Solved
  <2>1. 0 .. N \subseteq Solved
    BY <1>1, <1>2, InductionUpTo
  <2> QED
    BY <2>1
<1>4. \E p : RoundsOf(order, p)
  BY <1>3 DEF RoundsOf
<1>5. RoundsOf(order, CHOOSE p : RoundsOf(order, p))
  BY <1>4
<1>6. WalkRounds(order) = (CHOOSE p : RoundsOf(order, p))[N]
  BY DEF WalkRounds, RoundsOf
<1> QED
  BY <1>5, <1>6

\* An album meets none of its own artist in a walk: there are fewer to meet than albums.
LEMMA MetAreOthers ==
  ASSUME NEW catalog, IsFiniteSet(catalog), NEW walk, Claims(catalog, {}, walk), NEW a \in catalog
  PROVE  /\ IsFiniteSet(Met(walk, catalog, a))
         /\ Cardinality(Met(walk, catalog, a)) \in 0 .. Cardinality(catalog) - 1
<1>1. a \notin Met(walk, catalog, a)
  <2> SUFFICES ASSUME a \in Met(walk, catalog, a) PROVE FALSE
    OBVIOUS
  <2>1. PICK k \in 1 .. Len(walk) : walk[k] = <<a, a>>
    BY DEF Met
  <2>2. PairAt(walk, k) = {ArtistOf[a]}
    BY <2>1 DEF PairAt, Pair
  <2>3. Cardinality(PairAt(walk, k)) = 1
    BY <2>2, FS_Singleton
  <2>4. Cardinality(PairAt(walk, k)) = 2
    BY DEF Claims
  <2> QED
    BY <2>3, <2>4
<1>2. Met(walk, catalog, a) \in SUBSET (catalog \ {a})
  BY <1>1 DEF Met
<1>3. IsFiniteSet(catalog \ {a}) /\ Cardinality(catalog \ {a}) = Cardinality(catalog) - 1
  BY FS_RemoveElement
<1>4. /\ IsFiniteSet(Met(walk, catalog, a))
      /\ Cardinality(Met(walk, catalog, a)) <= Cardinality(catalog \ {a})
  BY <1>2, <1>3, FS_Subset
<1>5. Cardinality(Met(walk, catalog, a)) \in Nat /\ Cardinality(catalog) \in Nat
  BY <1>4, FS_CardinalityType
<1> QED
  BY <1>3, <1>4, <1>5

\* The walk claims every pair of artists once that are no family, and begins with the
\* first round.
LEMMA WalkClaims ==
  ASSUME NEW catalog \in SUBSET Nat, IsFiniteSet(catalog)
  PROVE  LET order == Ordered(catalog)
             walk == WalkRounds(order)
             first == WalkRound(order, {})
         IN  /\ Claims(catalog, {}, walk) /\ GoesOn(first, walk)
             /\ Len(first) \in 0 .. Cardinality(catalog)
             /\ \A a, b \in catalog :
                  /\ Cardinality(Pair(a, b)) = 2 /\ Pair(a, b) \notin FamilyPairs
                  => /\ Walked(walk, Pair(a, b))
                     /\ Claimant(first, a) \/ Walked(first, Pair(a, b))
<1> DEFINE order == Ordered(catalog)
           walk == WalkRounds(order)
           first == WalkRound(order, {})
           N == Cardinality(catalog)
<1>1. /\ N \in Nat /\ order \in [1 .. N -> catalog] /\ Len(order) = N
      /\ \A a \in catalog : \E i \in 1 .. N : order[i] = a
  BY OrderedEnumerates
<1> HIDE DEF order
<1>2. PICK p : RoundsOf(order, p) /\ walk = p[N]
  BY <1>1, WalkDefined
<1> HIDE DEF walk, N
<1>3. p[0] = <<>> /\ \A n \in 1 .. N : p[n] = WithRound(order, p[n - 1])
  <2>1. \A n \in 0 .. N : p[n] = IF n = 0 THEN <<>> ELSE WithRound(order, p[n - 1])
    BY <1>1, <1>2 DEF RoundsOf
  <2>2. p[0] = IF 0 = 0 THEN <<>> ELSE WithRound(order, p[0 - 1])
    BY <1>1, <2>1, 0 \in 0 .. N
  <2>3. ASSUME NEW n \in 1 .. N
        PROVE  p[n] = WithRound(order, p[n - 1])
    <3>1. n \in 0 .. N /\ n # 0
      OBVIOUS
    <3>2. p[n] = IF n = 0 THEN <<>> ELSE WithRound(order, p[n - 1])
      BY <2>1, <3>1
    <3> QED
      BY <3>1, <3>2
  <2> QED
    BY <2>2, <2>3
<1>4. /\ Claims(catalog, {}, first) /\ Len(first) \in 0 .. N
      /\ \A i, j \in 1 .. N :
           /\ Cardinality(Pair(order[i], order[j])) = 2
           /\ Pair(order[i], order[j]) \notin {} \cup FamilyPairs
           => Claimant(first, order[i]) \/ Walked(first, Pair(order[i], order[j]))
  BY <1>1, RoundClaims
<1>5. N >= 1 => p[1] = first
  <2> SUFFICES ASSUME N >= 1 PROVE p[1] = first
    OBVIOUS
  <2>1. <<>> \in Seq(catalog \X catalog) /\ first \in Seq(catalog \X catalog)
    BY <1>4 DEF Claims
  <2>2. Pairs(Range(<<>>)) = {}
    <3>1. ASSUME NEW pair PROVE pair \notin Pairs(Range(<<>>))
      <4>1. ~Walked(<<>>, pair)
        BY DEF Walked
      <4>2. <<>> \in Seq(catalog \X catalog)
        BY <2>1
      <4> QED
        BY <4>1, <4>2, PairsOfWalk
    <3> QED
      BY <3>1
  <2>3. 1 \in 1 .. N /\ 1 - 1 = 0
    BY <1>1
  <2>4. p[1] = WithRound(order, <<>>)
    BY <1>3, <2>3
  <2>5. WithRound(order, <<>>) = <<>> \o first
    BY <2>2 DEF WithRound
  <2> HIDE DEF first
  <2> QED
    BY <2>1, <2>4, <2>5, ConcatEmptySeq
<1> HIDE DEF first
<1>6. ASSUME NEW n \in 0 .. N, Claims(catalog, {}, p[n]), n < N
      PROVE  /\ Claims(catalog, {}, p[n + 1]) /\ GoesOn(p[n], p[n + 1])
             /\ \A a, b \in catalog :
                  /\ Cardinality(Pair(a, b)) = 2 /\ Pair(a, b) \notin FamilyPairs
                  => \/ Walked(p[n + 1], Pair(a, b))
                     \/ \E x \in Met(p[n + 1], catalog, a) : x \notin Met(p[n], catalog, a)
  <2>1. n + 1 \in 1 .. N /\ (n + 1) - 1 = n
    BY <1>1, <1>6
  <2>2. p[n + 1] = WithRound(order, p[n])
    BY <1>3, <2>1
  <2>3. LET further == WithRound(order, p[n])
        IN  /\ Claims(catalog, {}, further) /\ GoesOn(p[n], further)
            /\ \A a, b \in catalog :
                 /\ Cardinality(Pair(a, b)) = 2 /\ Pair(a, b) \notin FamilyPairs
                 => \/ Walked(further, Pair(a, b))
                    \/ \E x \in Met(further, catalog, a) : x \notin Met(p[n], catalog, a)
    BY <1>1, <1>6, OneRound
  <2> QED
    BY <2>2, <2>3
<1>7. \A n \in 0 .. N : Claims(catalog, {}, p[n])
  <2> DEFINE Done == {n \in 0 .. N : Claims(catalog, {}, p[n])}
  <2>1. 0 \in Done
    <3>1. <<>> \in Seq(catalog \X catalog)
      OBVIOUS
    <3>2. Claims(catalog, {}, <<>>)
      BY <3>1 DEF Claims
    <3> QED
      BY <1>1, <1>3, <3>2
  <2>2. \A n \in 0 .. N : n \in Done /\ n < N => n + 1 \in Done
    BY <1>1, <1>6
  <2> HIDE DEF Done
  <2>3. 0 .. N \subseteq Done
    BY <1>1, <2>1, <2>2, InductionUpTo
  <2> QED
    BY <2>3 DEF Done
<1>8. \A n \in 0 .. N : Len(p[n]) \in Nat
  <2> SUFFICES ASSUME NEW n \in 0 .. N PROVE Len(p[n]) \in Nat
    OBVIOUS
  <2>1. p[n] \in Seq(catalog \X catalog)
    BY <1>7 DEF Claims
  <2> QED
    BY <2>1, LenProperties
<1>9. GoesOn(first, walk)
  <2> DEFINE Later == {n \in 0 .. N : n >= 1 => GoesOn(p[1], p[n])}
  <2>1. 0 \in Later
    BY <1>1
  <2>2. ASSUME NEW n \in 0 .. N, n \in Later, n < N
        PROVE  n + 1 \in Later
    <3>1. n + 1 \in 0 .. N /\ 1 \in 0 .. N
      BY <1>1, <2>2
    <3>2. GoesOn(p[n], p[n + 1])
      BY <1>6, <1>7, <2>2
    <3>3. CASE n = 0
      <4>1. GoesOn(p[1], p[1])
        BY <1>8, <3>1 DEF GoesOn
      <4> QED
        BY <3>1, <3>3, <4>1
    <3>4. CASE n >= 1
      <4>1. GoesOn(p[1], p[n])
        BY <2>2, <3>4
      <4>2. GoesOn(p[1], p[n + 1])
        BY <1>8, <3>1, <3>2, <4>1, GoesOnAndOn
      <4> QED
        BY <3>1, <4>2
    <3> QED
      BY <3>3, <3>4
  <2>3. N \in Later
    <3> HIDE DEF Later
    <3>1. 0 .. N \subseteq Later
      BY <1>1, <2>1, <2>2, InductionUpTo
    <3> QED
      BY <1>1, <3>1
  <2>4. CASE N = 0
    BY <1>1, <1>2, <1>4, <1>8, <2>4 DEF GoesOn
  <2>5. CASE N >= 1
    BY <1>2, <1>5, <2>3, <2>5
  <2> QED
    BY <1>1, <2>4, <2>5
<1>10. ASSUME NEW a \in catalog, NEW b \in catalog,
              Cardinality(Pair(a, b)) = 2, Pair(a, b) \notin FamilyPairs
       PROVE  Walked(walk, Pair(a, b))
  <2> DEFINE pair == Pair(a, b)
             Grown == {n \in 0 .. N : \/ Walked(p[n], pair)
                                      \/ Cardinality(Met(p[n], catalog, a)) >= n}
  <2>1. \A n \in 0 .. N : /\ IsFiniteSet(Met(p[n], catalog, a))
                          /\ Cardinality(Met(p[n], catalog, a)) \in 0 .. N - 1
    BY <1>7, MetAreOthers DEF N
  <2>2. 0 \in Grown
    BY <1>1, <2>1
  <2>3. ASSUME NEW n \in 0 .. N, n \in Grown, n < N
        PROVE  n + 1 \in Grown
    <3>1. n + 1 \in 0 .. N
      BY <1>1, <2>3
    <3>2. GoesOn(p[n], p[n + 1])
      BY <1>6, <1>7, <2>3
    <3>3. CASE Walked(p[n], pair)
      <4>1. PICK k \in 1 .. Len(p[n]) : PairAt(p[n], k) = pair
        BY <3>3 DEF Walked
      <4>2. k \in 1 .. Len(p[n + 1]) /\ p[n + 1][k] = p[n][k]
        BY <1>8, <3>1, <3>2, <4>1 DEF GoesOn
      <4>3. Walked(p[n + 1], pair)
        BY <4>1, <4>2 DEF Walked, PairAt
      <4> QED
        BY <3>1, <4>3
    <3>4. CASE Walked(p[n + 1], pair)
      BY <3>1, <3>4
    <3>5. CASE ~Walked(p[n], pair) /\ ~Walked(p[n + 1], pair)
      <4> DEFINE met == Met(p[n], catalog, a)
                 more == Met(p[n + 1], catalog, a)
      <4>1. PICK x \in more : x \notin met
        BY <1>6, <1>7, <1>10, <2>3, <3>5
      <4>2. met \subseteq more
        <5> SUFFICES ASSUME NEW y \in met PROVE y \in more
          OBVIOUS
        <5>1. PICK k \in 1 .. Len(p[n]) : p[n][k] = <<a, y>>
          BY DEF Met
        <5>2. k \in 1 .. Len(p[n + 1]) /\ p[n + 1][k] = <<a, y>>
          BY <1>8, <3>1, <3>2, <5>1 DEF GoesOn
        <5> QED
          BY <5>2 DEF Met
      <4>3. IsFiniteSet(met) /\ Cardinality(met) \in Nat /\ Cardinality(met) >= n
        BY <2>1, <2>3, <3>5
      <4>4. IsFiniteSet(more) /\ Cardinality(more) \in Nat
        BY <2>1, <3>1
      <4> HIDE DEF met, more
      <4>5. met \cup {x} \in SUBSET more
        BY <4>1, <4>2
      <4>6. Cardinality(met \cup {x}) = Cardinality(met) + 1
        BY <4>1, <4>3, FS_AddElement
      <4>7. Cardinality(met \cup {x}) <= Cardinality(more)
        BY <4>4, <4>5, FS_Subset
      <4>8. Cardinality(more) >= n + 1
        BY <4>3, <4>4, <4>6, <4>7
      <4> QED
        BY <3>1, <4>8 DEF more
    <3> QED
      BY <3>3, <3>4, <3>5
  <2>4. N \in Grown
    <3> HIDE DEF Grown
    <3>1. 0 .. N \subseteq Grown
      BY <1>1, <2>2, <2>3, InductionUpTo
    <3> QED
      BY <1>1, <3>1
  <2> QED
    BY <1>1, <1>2, <2>1, <2>4
<1>11. ASSUME NEW a \in catalog, NEW b \in catalog,
              Cardinality(Pair(a, b)) = 2, Pair(a, b) \notin FamilyPairs
       PROVE  Claimant(first, a) \/ Walked(first, Pair(a, b))
  <2>1. PICK i \in 1 .. N : order[i] = a
    BY <1>1
  <2>2. PICK j \in 1 .. N : order[j] = b
    BY <1>1
  <2> QED
    BY <1>4, <1>11, <2>1, <2>2
<1>12. Claims(catalog, {}, walk)
  BY <1>1, <1>2, <1>7
<1> QED
  BY <1>4, <1>9, <1>10, <1>11, <1>12 DEF walk, first, order, N

----------------------------------------------------------------------------
(* The challenge.                                                           *)

\* The table holds the walk of every catalog.
LEMMA WalkIsOf ==
  ASSUME NEW catalog \in SUBSET Albums
  PROVE  /\ WalkOf(catalog).pairs = WalkRounds(Ordered(catalog))
         /\ WalkOf(catalog).first_round = Len(WalkRound(Ordered(catalog), {}))
<1> DEFINE Row(c) == [catalog |-> c, pairs |-> WalkRounds(Ordered(c)),
                      first_round |-> Len(WalkRound(Ordered(c), {}))]
<1>1. Walks = {Row(c) : c \in SUBSET Albums}
  BY DEF Walks
<1>2. \A c : /\ Row(c).catalog = c /\ Row(c).pairs = WalkRounds(Ordered(c))
             /\ Row(c).first_round = Len(WalkRound(Ordered(c), {}))
  OBVIOUS
<1> HIDE DEF Row
<1>3. \E walk \in Walks : walk.catalog = catalog
  BY <1>1, <1>2
<1>4. WalkOf(catalog) \in Walks /\ WalkOf(catalog).catalog = catalog
  BY <1>3 DEF WalkOf
<1>5. PICK c \in SUBSET Albums : WalkOf(catalog) = Row(c)
  BY <1>1, <1>4
<1> QED
  BY <1>2, <1>4, <1>5

\* What is known of the walk of a catalog: it claims once every pair of artists that
\* are no family, and begins with a round in which every album with such a pair has a
\* claim, or that pair is claimed.
WalkOK(catalog, walk, first_round) ==
  /\ Claims(catalog, {}, walk) /\ Len(walk) \in Nat
  /\ first_round \in 0 .. Cardinality(catalog) /\ first_round <= Len(walk)
  /\ \A a, b \in catalog :
       /\ Cardinality(Pair(a, b)) = 2 /\ Pair(a, b) \notin FamilyPairs
       => /\ Walked(walk, Pair(a, b))
          /\ \E k \in 1 .. first_round : walk[k][1] = a \/ PairAt(walk, k) = Pair(a, b)

LEMMA WalksAreOK ==
  ASSUME NEW catalog \in SUBSET Albums
  PROVE  WalkOK(catalog, WalkOf(catalog).pairs, WalkOf(catalog).first_round)
<1> DEFINE order == Ordered(catalog)
           walk == WalkRounds(order)
           first == WalkRound(order, {})
<1>1. catalog \in SUBSET Nat /\ IsFiniteSet(catalog)
  BY WalkFits, FS_Subset
<1>2. /\ Claims(catalog, {}, walk) /\ GoesOn(first, walk)
      /\ Len(first) \in 0 .. Cardinality(catalog)
      /\ \A a, b \in catalog :
           /\ Cardinality(Pair(a, b)) = 2 /\ Pair(a, b) \notin FamilyPairs
           => /\ Walked(walk, Pair(a, b))
              /\ Claimant(first, a) \/ Walked(first, Pair(a, b))
  BY <1>1, WalkClaims
<1> HIDE DEF walk, first, order
<1>3. Len(walk) \in Nat /\ Len(first) <= Len(walk)
  <2>1. walk \in Seq(catalog \X catalog)
    BY <1>2 DEF Claims
  <2> QED
    BY <1>2, <2>1, LenProperties DEF GoesOn
<1>4. ASSUME NEW a \in catalog, NEW b \in catalog,
             Cardinality(Pair(a, b)) = 2, Pair(a, b) \notin FamilyPairs
      PROVE  \E k \in 1 .. Len(first) : walk[k][1] = a \/ PairAt(walk, k) = Pair(a, b)
  <2>1. \A k \in 1 .. Len(first) : walk[k] = first[k]
    BY <1>2 DEF GoesOn
  <2>2. CASE Claimant(first, a)
    BY <2>1, <2>2 DEF Claimant
  <2>3. CASE Walked(first, Pair(a, b))
    <3>1. PICK k \in 1 .. Len(first) : PairAt(first, k) = Pair(a, b)
      BY <2>3 DEF Walked
    <3>2. PairAt(walk, k) = Pair(a, b)
      BY <2>1, <3>1 DEF PairAt
    <3> QED
      BY <3>2
  <2> QED
    BY <1>2, <1>4, <2>2, <2>3
<1>5. WalkOK(catalog, walk, Len(first))
  BY <1>2, <1>3, <1>4 DEF WalkOK
<1> QED
  BY <1>5, WalkIsOf DEF walk, first, order

\* The places a challenge's pairs come from.
Chosen(walk, first_round, carried, max_paths, connected) ==
  {k \in PlacesOf(walk, connected) :
     Cardinality({l \in PlacesOf(walk, connected) :
                    Before((1 .. first_round) \cup PlacesOf(walk, carried), l, k)}) < max_paths}

LEMMA ChallengeChooses ==
  ASSUME NEW catalog, NEW carried, NEW max_paths, NEW connected, NEW walk, NEW first_round,
         walk = WalkOf(catalog).pairs, first_round = WalkOf(catalog).first_round
  PROVE  build_challenge_v2(catalog, carried, max_paths, connected)
           = {walk[k] : k \in Chosen(walk, first_round, carried, max_paths, connected)}
<1> DEFINE candidates == _candidate_album_pairs(catalog, carried)
<1>1. /\ candidates.pairs = walk
      /\ candidates.ahead = (1 .. first_round) \cup PlacesOf(walk, carried)
  BY DEF _candidate_album_pairs
<1>2. build_challenge_v2(catalog, carried, max_paths, connected)
        = FirstPaths(candidates, PlacesOf(candidates.pairs, connected), max_paths)
  BY DEF build_challenge_v2, Searched
<1> HIDE DEF candidates
<1> QED
  BY <1>1, <1>2 DEF FirstPaths, Chosen

\* The places with a pair among some.
LEMMA PlacesAre ==
  ASSUME NEW S, NEW walk \in Seq(S), NEW pairs, NEW k
  PROVE  k \in PlacesOf(walk, pairs) <=> k \in 1 .. Len(walk) /\ PairAt(walk, k) \in pairs
<1>1. DOMAIN walk = 1 .. Len(walk)
  BY LenProperties
<1> QED
  BY <1>1 DEF PlacesOf, PairAt

\* A place is chosen when what comes before it is few.
LEMMA FewBefore ==
  ASSUME NEW walk, NEW first_round, NEW carried, NEW max_paths \in Nat, NEW connected,
         NEW k \in PlacesOf(walk, connected), NEW early, IsFiniteSet(early),
         Cardinality(early) < max_paths,
         \A l \in PlacesOf(walk, connected) :
           Before((1 .. first_round) \cup PlacesOf(walk, carried), l, k) => l \in early
  PROVE  k \in Chosen(walk, first_round, carried, max_paths, connected)
<1> DEFINE B == {l \in PlacesOf(walk, connected) :
                   Before((1 .. first_round) \cup PlacesOf(walk, carried), l, k)}
<1>1. B \in SUBSET early
  OBVIOUS
<1> HIDE DEF B
<1>2. IsFiniteSet(B) /\ Cardinality(B) <= Cardinality(early)
  BY <1>1, FS_Subset
<1>3. Cardinality(B) \in Nat /\ Cardinality(early) \in Nat
  BY <1>2, FS_CardinalityType
<1>4. Cardinality(B) < max_paths
  BY <1>2, <1>3
<1> QED
  BY <1>4 DEF Chosen, B

\* With a budget of a path an album, the connected pairs of the first round are in.
LEMMA FirstRoundIsChosen ==
  ASSUME NEW catalog, NEW walk, NEW first_round, WalkOK(catalog, walk, first_round),
         IsFiniteSet(catalog), NEW carried, NEW connected, NEW max_paths \in Nat,
         max_paths >= Cardinality(catalog),
         NEW k \in 1 .. first_round, PairAt(walk, k) \in connected
  PROVE  k \in Chosen(walk, first_round, carried, max_paths, connected)
<1> DEFINE ahead == (1 .. first_round) \cup PlacesOf(walk, carried)
           found == PlacesOf(walk, connected)
<1>1. walk \in Seq(catalog \X catalog) /\ Len(walk) \in Nat /\ first_round <= Len(walk)
  BY DEF WalkOK, Claims
<1>2. first_round \in Nat /\ Cardinality(catalog) \in Nat /\ first_round <= Cardinality(catalog)
  BY FS_CardinalityType DEF WalkOK
<1>3. k \in Nat /\ k \in 1 .. Len(walk) /\ k - 1 < max_paths
  BY <1>1, <1>2
<1>4. k \in found
  BY <1>1, <1>3, PlacesAre
<1>5. k \in ahead
  OBVIOUS
<1> HIDE DEF ahead, found
<1>6. \A l \in found : l \in 1 .. Len(walk)
  BY <1>1, PlacesAre DEF found
<1>7. \A l \in found : Before(ahead, l, k) => l \in 1 .. k - 1
  BY <1>1, <1>3, <1>5, <1>6 DEF Before
<1>8. IsFiniteSet(1 .. k - 1) /\ Cardinality(1 .. k - 1) = k - 1
  BY <1>3, FS_Interval
<1>9. Cardinality(1 .. k - 1) < max_paths
  BY <1>3, <1>8
<1> QED
  BY <1>4, <1>7, <1>8, <1>9, FewBefore DEF ahead, found

\* With a budget that covers a path an album and the carried pairs, the connected ones
\* of these are in.
LEMMA CarriedIsChosen ==
  ASSUME NEW catalog, NEW walk, NEW first_round, WalkOK(catalog, walk, first_round),
         IsFiniteSet(catalog), NEW carried, IsFiniteSet(carried), NEW connected,
         NEW max_paths \in Nat,
         max_paths >= Cardinality(catalog) + Cardinality(carried),
         NEW k \in 1 .. Len(walk), PairAt(walk, k) \in connected, PairAt(walk, k) \in carried
  PROVE  k \in Chosen(walk, first_round, carried, max_paths, connected)
<1> DEFINE pair == PairAt(walk, k)
           ahead == (1 .. first_round) \cup PlacesOf(walk, carried)
           found == PlacesOf(walk, connected)
           others == {l \in 1 .. Len(walk) : PairAt(walk, l) \in carried \ {pair}}
           early == (1 .. first_round) \cup others
<1>1. walk \in Seq(catalog \X catalog) /\ Len(walk) \in Nat /\ first_round <= Len(walk)
  BY DEF WalkOK, Claims
<1>2. first_round \in Nat /\ Cardinality(catalog) \in Nat /\ first_round <= Cardinality(catalog)
  BY FS_CardinalityType DEF WalkOK
<1>3. k \in found /\ k \in ahead
  BY <1>1, PlacesAre
<1>4. IsFiniteSet(others) /\ Cardinality(others) <= Cardinality(carried) - 1
  <2>1. IsFiniteSet(carried \ {pair}) /\ Cardinality(carried \ {pair}) = Cardinality(carried) - 1
    BY FS_RemoveElement
  <2> DEFINE f == [l \in others |-> PairAt(walk, l)]
  <2>2. f \in [others -> carried \ {pair}]
    OBVIOUS
  <2>3. \A l, m \in others : f[l] = f[m] => l = m
    BY DEF WalkOK, Claims
  <2> HIDE DEF f, others, pair
  <2>4. f \in Injection(others, carried \ {pair})
    BY <2>2, <2>3 DEF Injection, IsInjective
  <2> QED
    BY <2>1, <2>4, FS_Injection
<1>5. IsFiniteSet(early) /\ Cardinality(early) < max_paths
  <2>1. IsFiniteSet(1 .. first_round) /\ Cardinality(1 .. first_round) = first_round
    BY <1>2, FS_Interval
  <2> HIDE DEF others
  <2>2. /\ IsFiniteSet(early)
        /\ Cardinality(early) = Cardinality(1 .. first_round) + Cardinality(others)
                                - Cardinality((1 .. first_round) \cap others)
    BY <1>4, <2>1, FS_Union
  <2>3. IsFiniteSet((1 .. first_round) \cap others)
    BY <2>1, FS_Intersection
  <2>4. /\ Cardinality((1 .. first_round) \cap others) \in Nat
        /\ Cardinality(others) \in Nat /\ Cardinality(carried) \in Nat
    BY <1>4, <2>3, FS_CardinalityType
  <2> HIDE DEF early
  <2> QED
    BY <1>2, <1>4, <2>1, <2>2, <2>4
<1>6. \A l \in found : Before(ahead, l, k) => l \in early
  <2> SUFFICES ASSUME NEW l \in found, Before(ahead, l, k) PROVE l \in early
    OBVIOUS
  <2>1. l \in ahead /\ l # k
    <3> HIDE DEF ahead, found
    <3>1. l \in 1 .. Len(walk)
      BY <1>1, PlacesAre DEF found
    <3> QED
      BY <1>1, <1>3, <3>1 DEF Before
  <2>2. CASE l \in 1 .. first_round
    BY <2>2
  <2>3. CASE l \in PlacesOf(walk, carried)
    <3>1. l \in 1 .. Len(walk) /\ PairAt(walk, l) \in carried
      BY <1>1, <2>3, PlacesAre
    <3>2. PairAt(walk, l) # pair
      BY <2>1, <3>1 DEF WalkOK, Claims
    <3> QED
      BY <3>1, <3>2
  <2> QED
    BY <2>1, <2>2, <2>3
<1> HIDE DEF early
<1> QED
  BY <1>3, <1>5, <1>6, FewBefore

\* Later corpora connect what earlier ones do.
LEMMA CorporaGrow ==
  ASSUME NEW g \in Generations, NEW h \in Generations, g <= h
  PROVE  Corpora[g] \subseteq Corpora[h]
<1> DEFINE N == Len(Corpora)
           Later == {k \in 0 .. N : k >= g => Corpora[g] \subseteq Corpora[k]}
<1>1. \A k \in 2 .. N : Corpora[k - 1] \subseteq Corpora[k]
  BY PublicationFits
<1>2. g \in 1 .. N /\ h \in 1 .. N
  BY DEF Generations
<1>3. N \in Nat
  BY PublicationFits
<1> HIDE DEF N
<1>4. 0 \in Later
  BY <1>2, <1>3
<1>5. ASSUME NEW k \in 0 .. N, k \in Later, k < N
      PROVE  k + 1 \in Later
  <2>1. k + 1 \in 0 .. N
    BY <1>3, <1>5
  <2>2. CASE k >= g
    <3>1. k + 1 \in 2 .. N /\ (k + 1) - 1 = k
      BY <1>2, <1>3, <1>5, <2>2
    <3>2. Corpora[k] \subseteq Corpora[k + 1]
      BY <1>1, <3>1
    <3>3. Corpora[g] \subseteq Corpora[k]
      BY <1>5, <2>2
    <3> QED
      BY <2>1, <3>2, <3>3
  <2>3. CASE k + 1 = g
    BY <2>1, <2>3
  <2>4. CASE k + 1 < g
    BY <1>2, <2>1, <2>4
  <2> QED
    BY <1>2, <1>3, <2>2, <2>3, <2>4
<1>6. 0 .. N \subseteq Later
  <2> HIDE DEF Later
  <2> QED
    BY <1>3, <1>4, <1>5, InductionUpTo
<1> QED
  BY <1>2, <1>3, <1>6

----------------------------------------------------------------------------
(* The invariant.                                                           *)

Names == {"catalog", "membership", "art", "graph", "challenge", "routes_universe",
          "routes_rounds", "game_universe", "game_rounds", "registry", "prominence",
          "index", "hops", "search"}

Typed == TypeOK /\ DOMAIN files = Names

\* A second file waits only between its own step of the runbook and the next, and it
\* is what the first one is.
WritingInv ==
  writing # Nothing =>
    \/ /\ step = 7 /\ files.routes_universe.catalog = files.catalog
       /\ writing = [name |-> "routes_rounds", artifact |-> files.routes_universe]
    \/ /\ step = 8 /\ writing = [name |-> "game_rounds", artifact |-> files.game_universe]

\* Catalogs only grow: no artifact is of a later one than those it is built from.
CatalogInv ==
  /\ site.catalog \subseteq files.catalog
  /\ files.index.catalog \subseteq files.routes_rounds.catalog
  /\ files.routes_rounds.catalog \subseteq files.catalog

\* A challenge over a catalog that holds the first one and over one of the corpora.
ChallengeOf(ch, live) ==
  /\ FirstCatalog \subseteq ch.catalog /\ ch.catalog \subseteq live
  /\ ch.corpus \in Generations /\ ch.max_paths \in Nat
  /\ \E carried : ch.paths = build_challenge_v2(ch.catalog, carried, ch.max_paths,
                                                Corpora[ch.corpus])

\* The challenge of the working tree and the published one are built ones.
ChallengeInv ==
  ChallengeOf(files.challenge, files.catalog) /\ ChallengeOf(site.challenge, files.catalog)

\* What is published passed the gate.
Gated == public_artifacts_valid(site)

\* In a pass without a slip, what was built is still what its sources make it.
PassInv ==
  slips = 0 =>
    /\ step > 3 => files.membership.catalog = files.catalog
    /\ step > 4 => files.graph.anchors = files.catalog /\ files.graph.linked = files.catalog
    /\ step > 6 => files.routes_universe.catalog = files.catalog
    /\ step > 7 => files.game_universe.catalog = files.catalog
    /\ step > 9 => files.registry = build_evidence_release_registry(files)
    /\ step > 11 => files.index.ids = Contributors(files)
    /\ step > 13 => files.hops.ids = Contributors(files)

IInv == Typed /\ WritingInv /\ CatalogInv /\ ChallengeInv /\ Gated /\ PassInv

----------------------------------------------------------------------------
(* The steps of the runbook.                                                *)

\* Where each step stands in the runbook.
LEMMA RunbookSteps ==
  /\ Len(Runbook) = 13
  /\ \A i \in 1 .. 13 :
       /\ Runbook[i] = "catalog" <=> i = 1
       /\ Runbook[i] = "corpus" <=> i = 2
       /\ Runbook[i] = "membership" <=> i = 3
       /\ Runbook[i] = "graph" <=> i = 4
       /\ Runbook[i] = "challenge" <=> i = 5
       /\ Runbook[i] = "routes" <=> i = 6
       /\ Runbook[i] = "game" <=> i = 7
       /\ Runbook[i] = "art" <=> i = 8
       /\ Runbook[i] = "registry" <=> i = 9
       /\ Runbook[i] = "prominence" <=> i = 10
       /\ Runbook[i] = "index" <=> i = 11
       /\ Runbook[i] = "search" <=> i = 12
       /\ Runbook[i] = "hops" <=> i = 13
BY DEF Runbook

\* A step of the runbook is taken where it stands.
LEMMA RunStands ==
  ASSUME Typed, NEW name, Run(name)
  PROVE  /\ step \in 1 .. 13 /\ Runbook[step] = name /\ step' = step + 1
         /\ step' \in 1 .. Len(Runbook) + 1 /\ writing = Nothing
         /\ UNCHANGED <<slips, round, site>>
<1>1. Len(Runbook) = 13
  BY RunbookSteps
<1> QED
  BY <1>1 DEF Typed, TypeOK, Run

\* Registry, contributors and distances depend on four files.
LEMMA SameInputs ==
  ASSUME NEW f, NEW g,
         f.challenge = g.challenge, f.routes_rounds = g.routes_rounds
  PROVE  /\ Contributors(f) = Contributors(g)
         /\ f.catalog = g.catalog /\ f.graph = g.graph =>
              build_evidence_release_registry(f) = build_evidence_release_registry(g)
BY DEF Contributors, build_evidence_release_registry, DocumentedReleases

\* What a builder's artifact is, as far as the invariant needs it.
Made(name, artifact) ==
  /\ name \in Names \ {"routes_universe", "routes_rounds", "game_universe", "game_rounds"}
  /\ name = "catalog" => files.catalog \subseteq artifact /\ artifact \subseteq Albums
  /\ name = "membership" => artifact.catalog = files.catalog
  /\ name = "challenge" => ChallengeOf(artifact, files.catalog)
  /\ name = "graph" => /\ artifact.anchors = files.catalog
                       /\ artifact.linked = files.catalog \cap files.membership.catalog
  /\ name = "registry" => artifact = build_evidence_release_registry(files)
  /\ name = "index" => /\ artifact.catalog = files.routes_rounds.catalog
                       /\ artifact.ids = Contributors(files)
  /\ name = "hops" => artifact.ids = Contributors(files)

\* A builder that writes what it is made of keeps the invariant.
LEMMA WriteKeepsIInv ==
  ASSUME IInv, NEW name, NEW artifact, Made(name, artifact), Write(name, artifact)
  PROVE  IInv'
<1>1. /\ step \in 1 .. 13 /\ Runbook[step] = name /\ step' = step + 1
      /\ step' \in 1 .. Len(Runbook) + 1 /\ writing = Nothing
      /\ UNCHANGED <<slips, round, site>>
  BY RunStands DEF Write, IInv
<1>2. UNCHANGED <<corpus, writing>> /\ files' = [files EXCEPT ![name] = artifact]
  BY DEF Write
<1>3. DOMAIN files = Names /\ name \in Names
  BY DEF IInv, Typed, Made
<1>4. /\ DOMAIN files' = Names /\ files'[name] = artifact
      /\ \A n \in Names : n # name => files'[n] = files[n]
  BY <1>2, <1>3
<1>5. files.catalog \subseteq files'.catalog /\ files'.catalog \subseteq Albums
  BY <1>4 DEF Made, Names, IInv, Typed, TypeOK
<1>6. Typed'
  BY <1>1, <1>2, <1>3, <1>4, <1>5 DEF IInv, Typed, TypeOK
<1>7. WritingInv' /\ Gated'
  BY <1>1, <1>2 DEF WritingInv, Gated, IInv
<1>8. files'.routes_rounds = files.routes_rounds
  BY <1>4 DEF Made, Names
<1>9. files'.index.catalog \subseteq files'.routes_rounds.catalog
  <2>1. CASE name = "index"
    BY <1>4, <1>8, <2>1 DEF Made
  <2>2. CASE name # "index"
    BY <1>4, <1>8, <2>2 DEF Names, IInv, CatalogInv
  <2> QED
    BY <2>1, <2>2
<1>10. CatalogInv'
  BY <1>1, <1>5, <1>8, <1>9 DEF IInv, CatalogInv
<1>11. ASSUME slips' = 0
       PROVE  /\ step' > 3 => files'.membership.catalog = files'.catalog
              /\ step' > 4 => /\ files'.graph.anchors = files'.catalog
                              /\ files'.graph.linked = files'.catalog
              /\ step' > 6 => files'.routes_universe.catalog = files'.catalog
              /\ step' > 7 => files'.game_universe.catalog = files'.catalog
  <2>1. slips = 0
    BY <1>1, <1>11
  <2>2. step > 1 => files'.catalog = files.catalog
    BY <1>1, <1>4, RunbookSteps DEF Names
  <2>3. step > 3 => files'.membership = files.membership
    BY <1>1, <1>4, RunbookSteps DEF Names
  <2>4. step > 4 => files'.graph = files.graph
    BY <1>1, <1>4, RunbookSteps DEF Names
  <2>5. files'.routes_universe = files.routes_universe /\ files'.game_universe = files.game_universe
    BY <1>4 DEF Made, Names
  <2>6. step = 3 => files'.membership.catalog = files.catalog
    BY <1>1, <1>4, RunbookSteps DEF Made
  <2>7. step = 4 => /\ files'.graph.anchors = files.catalog
                    /\ files'.graph.linked = files.catalog \cap files.membership.catalog
    BY <1>1, <1>4, RunbookSteps DEF Made
  <2>8. step # 6 /\ step # 7
    BY <1>1, RunbookSteps DEF Made, Names
  <2>9. /\ step > 3 => files.membership.catalog = files.catalog
        /\ step > 4 => files.graph.anchors = files.catalog /\ files.graph.linked = files.catalog
        /\ step > 6 => files.routes_universe.catalog = files.catalog
        /\ step > 7 => files.game_universe.catalog = files.catalog
    BY <2>1 DEF IInv, PassInv
  <2>10. /\ step' > 3 <=> step > 3 \/ step = 3
         /\ step' > 4 <=> step > 4 \/ step = 4
         /\ step' > 6 <=> step > 6 \/ step = 6
         /\ step' > 7 <=> step > 7 \/ step = 7
         /\ step >= 3 => step > 1
         /\ step >= 4 => step > 3
    BY <1>1
  <2>11. step' > 3 => files'.membership.catalog = files'.catalog
    BY <1>1, <2>2, <2>3, <2>6, <2>9, <2>10
  <2>12. step' > 4 => /\ files'.graph.anchors = files'.catalog
                      /\ files'.graph.linked = files'.catalog
    <3>1. CASE step > 4
      BY <1>1, <2>2, <2>4, <2>9, <3>1
    <3>2. CASE step = 4
      <4>1. files.membership.catalog = files.catalog /\ files'.catalog = files.catalog
        BY <2>2, <2>9, <3>2
      <4> QED
        BY <2>7, <3>2, <4>1
    <3> QED
      BY <2>10, <3>1, <3>2
  <2>13. step' > 6 => files'.routes_universe.catalog = files'.catalog
    BY <1>1, <2>2, <2>5, <2>8, <2>9, <2>10
  <2>14. step' > 7 => files'.game_universe.catalog = files'.catalog
    BY <1>1, <2>2, <2>5, <2>8, <2>9, <2>10
  <2> QED
    BY <2>11, <2>12, <2>13, <2>14
<1>12. ASSUME slips' = 0
       PROVE  /\ step' > 9 => files'.registry = build_evidence_release_registry(files')
              /\ step' > 11 => files'.index.ids = Contributors(files')
              /\ step' > 13 => files'.hops.ids = Contributors(files')
  <2>1. slips = 0
    BY <1>1, <1>12
  <2>2. step > 5 => /\ files'.catalog = files.catalog /\ files'.graph = files.graph
                    /\ files'.challenge = files.challenge
    BY <1>1, <1>4, RunbookSteps DEF Names
  <2>3. step > 5 => /\ build_evidence_release_registry(files') = build_evidence_release_registry(files)
                    /\ Contributors(files') = Contributors(files)
    BY <1>8, <2>2, SameInputs
  <2>4. /\ step > 9 => files'.registry = files.registry
        /\ step > 11 => files'.index = files.index
    BY <1>1, <1>4, RunbookSteps DEF Names
  <2>5. /\ step = 9 => files'.registry = build_evidence_release_registry(files)
        /\ step = 11 => files'.index.ids = Contributors(files)
        /\ step = 13 => files'.hops.ids = Contributors(files)
    BY <1>1, <1>4, RunbookSteps DEF Made
  <2> QED
    BY <1>1, <2>1, <2>3, <2>4, <2>5 DEF IInv, PassInv
<1>13. ChallengeInv'
  <2>1. \A ch : ChallengeOf(ch, files.catalog) => ChallengeOf(ch, files'.catalog)
    BY <1>5 DEF ChallengeOf
  <2>2. ChallengeOf(site'.challenge, files'.catalog)
    BY <1>1, <2>1 DEF IInv, ChallengeInv
  <2>3. CASE name = "challenge"
    <3>1. ChallengeOf(files'.challenge, files'.catalog)
      BY <1>4, <2>1, <2>3 DEF Made
    <3> QED
      BY <2>2, <3>1 DEF ChallengeInv
  <2>4. CASE name # "challenge"
    <3>1. files'.challenge = files.challenge
      BY <1>4, <2>4 DEF Names
    <3>2. ChallengeOf(files'.challenge, files'.catalog)
      BY <2>1, <3>1 DEF IInv, ChallengeInv
    <3> QED
      BY <2>2, <3>2 DEF ChallengeInv
  <2> QED
    BY <2>3, <2>4
<1> QED
  BY <1>6, <1>7, <1>10, <1>11, <1>12, <1>13 DEF IInv, PassInv

\* The pairs of a challenge are pairs of its catalog's artists that its corpus connects.
LEMMA PairsOfChallenge ==
  ASSUME NEW ch, ChallengeOf(ch, files.catalog), files.catalog \subseteq Albums
  PROVE  /\ IsFiniteSet(Pairs(ch.paths))
         /\ \A pair \in Pairs(ch.paths) :
              /\ Cardinality(pair) = 2 /\ pair \in Corpora[ch.corpus] \ FamilyPairs
              /\ \E a, b \in ch.catalog : pair = Pair(a, b)
<1> DEFINE walk == WalkOf(ch.catalog).pairs
           first_round == WalkOf(ch.catalog).first_round
           connected == Corpora[ch.corpus]
<1>1. ch.catalog \in SUBSET Albums
  BY DEF ChallengeOf
<1>2. WalkOK(ch.catalog, walk, first_round)
  BY <1>1, WalksAreOK
<1>3. PICK carried : ch.paths = build_challenge_v2(ch.catalog, carried, ch.max_paths, connected)
  BY DEF ChallengeOf
<1> HIDE DEF walk, first_round, connected
<1>4. ch.paths = {walk[k] : k \in Chosen(walk, first_round, carried, ch.max_paths, connected)}
  BY <1>3, ChallengeChooses DEF walk, first_round
<1>5. /\ walk \in Seq(ch.catalog \X ch.catalog) /\ Len(walk) \in Nat
      /\ \A k \in 1 .. Len(walk) : /\ Cardinality(PairAt(walk, k)) = 2
                                   /\ PairAt(walk, k) \notin FamilyPairs
  BY <1>2 DEF WalkOK, Claims
<1>6. ASSUME NEW pair \in Pairs(ch.paths)
      PROVE  \E k \in 1 .. Len(walk) : pair = PairAt(walk, k) /\ pair \in connected
  <2>1. PICK k \in Chosen(walk, first_round, carried, ch.max_paths, connected) :
          pair = Pair(walk[k][1], walk[k][2])
    BY <1>4 DEF Pairs
  <2>2. k \in PlacesOf(walk, connected)
    BY DEF Chosen
  <2>3. k \in 1 .. Len(walk) /\ PairAt(walk, k) \in connected
    BY <1>5, <2>2, PlacesAre
  <2> QED
    BY <2>1, <2>3 DEF PairAt
<1>7. IsFiniteSet(Pairs(ch.paths))
  <2> DEFINE f == [k \in 1 .. Len(walk) |-> PairAt(walk, k)]
             all == {PairAt(walk, k) : k \in 1 .. Len(walk)}
  <2>1. f \in Surjection(1 .. Len(walk), all)
    BY DEF Surjection
  <2>2. IsFiniteSet(1 .. Len(walk))
    BY <1>5, FS_Interval
  <2>3. Pairs(ch.paths) \in SUBSET all
    BY <1>6
  <2> HIDE DEF all, f
  <2>4. IsFiniteSet(all)
    BY <2>1, <2>2, FS_Surjection
  <2> QED
    BY <2>3, <2>4, FS_Subset
<1>8. ASSUME NEW pair \in Pairs(ch.paths)
      PROVE  \E a, b \in ch.catalog : pair = Pair(a, b)
  <2>1. PICK k \in 1 .. Len(walk) : pair = PairAt(walk, k)
    BY <1>6
  <2>2. walk[k] \in ch.catalog \X ch.catalog
    BY <1>5, ElementOfSeq
  <2> QED
    BY <2>1, <2>2 DEF PairAt
<1> QED
  BY <1>5, <1>6, <1>7, <1>8 DEF connected

\* What the builder of the challenge writes: a challenge over the working tree's catalog
\* and, when it carries pairs forward and no budget is given, with one that covers a path
\* an album and the pairs.
LEMMA ChallengeMade ==
  ASSUME Typed, ChallengeInv, build_challenge_from_dump
  PROVE  \E challenge, carried :
           /\ Write("challenge", challenge) /\ ChallengeOf(challenge, files.catalog)
           /\ challenge.catalog = files.catalog
           /\ challenge.paths = build_challenge_v2(files.catalog, carried, challenge.max_paths,
                                                  Corpora[challenge.corpus])
           /\ challenge.carried =>
                /\ carried = Pairs(site.challenge.paths)
                /\ challenge.given = 0 =>
                     challenge.max_paths >= Cardinality(files.catalog) + Cardinality(carried)
<1>1. PICK g \in Roots, carry \in BOOLEAN, given \in GivenMaxPaths \cup {0} :
        LET carried == IF carry THEN Pairs(site.challenge.paths) ELSE {}
            inherited == IF carry THEN site.challenge.max_paths ELSE 0
            max_paths ==
              ResolvedMaxPaths(given, inherited, MaxPathsFloor(files.catalog, carried))
        IN Write("challenge", build_challenge(files.catalog, g, carried, given, max_paths))
  BY DEF build_challenge_from_dump
<1> DEFINE carried == IF carry THEN Pairs(site.challenge.paths) ELSE {}
           inherited == IF carry THEN site.challenge.max_paths ELSE 0
           floor == MaxPathsFloor(files.catalog, carried)
           max_paths == ResolvedMaxPaths(given, inherited, floor)
           challenge == build_challenge(files.catalog, g, carried, given, max_paths)
<1>2. Write("challenge", challenge)
  BY <1>1
<1>3. IsFiniteSet(files.catalog) /\ Cardinality(files.catalog) \in Nat
  BY WalkFits, FS_Subset, FS_CardinalityType DEF Typed, TypeOK
<1>4. IsFiniteSet(carried) /\ Cardinality(carried) \in Nat
  <2>1. IsFiniteSet(Pairs(site.challenge.paths))
    BY PairsOfChallenge DEF ChallengeInv, Typed, TypeOK
  <2>2. IsFiniteSet(carried)
    BY <2>1, FS_EmptySet
  <2> QED
    BY <2>2, FS_CardinalityType
<1>5. inherited \in Nat /\ given \in Nat
  BY PublicationFits DEF ChallengeInv, ChallengeOf
<1>6. g \in Generations
  BY DEF Roots, Generations, Typed, TypeOK
<1> HIDE DEF inherited
<1>7. floor \in Nat /\ floor >= Cardinality(files.catalog) + Cardinality(carried)
  <2> HIDE DEF carried
  <2> QED
    BY <1>3, <1>4 DEF MaxPathsFloor
<1> HIDE DEF floor
<1>8. max_paths \in Nat /\ (given = 0 => max_paths >= floor)
  BY <1>5, <1>7 DEF ResolvedMaxPaths
<1>9. /\ challenge.catalog = files.catalog /\ challenge.corpus = g
      /\ challenge.max_paths = max_paths /\ challenge.given = given
      /\ challenge.carried = (carried # {})
      /\ challenge.paths = build_challenge_v2(files.catalog, carried, max_paths, Corpora[g])
  BY DEF build_challenge
<1>10. FirstCatalog \subseteq files.catalog
  BY DEF ChallengeInv, ChallengeOf
<1>11. carried # {} => carried = Pairs(site.challenge.paths)
  OBVIOUS
<1> HIDE DEF challenge, max_paths, carried
<1>12. ChallengeOf(challenge, files.catalog)
  BY <1>6, <1>8, <1>9, <1>10 DEF ChallengeOf
<1>13. challenge.carried /\ challenge.given = 0 =>
         challenge.max_paths >= Cardinality(files.catalog) + Cardinality(carried)
  BY <1>3, <1>4, <1>7, <1>8, <1>9
<1> QED
  BY <1>2, <1>9, <1>11, <1>12, <1>13

\* What each builder writes.
LEMMA BuildersMake ==
  ASSUME IInv,
         \/ build_catalog \/ build_membership \/ build_graph \/ build_challenge_from_dump
         \/ build_art \/ build_registry \/ build_prominence_sidecar \/ build_index
         \/ build_hops \/ build_search
  PROVE  \E name, artifact : Made(name, artifact) /\ Write(name, artifact)
<1> USE DEF Made, Names
<1>1. CASE build_catalog
  <2>1. PICK personal \in SUBSET Albums, candidates \in SUBSET Albums :
          Write("catalog", assemble_album_catalog(personal, files.catalog, candidates))
    BY <1>1 DEF build_catalog
  <2>2. files.catalog \in SUBSET Albums
    BY DEF IInv, Typed, TypeOK
  <2>3. Made("catalog", assemble_album_catalog(personal, files.catalog, candidates))
    BY <2>2, CatalogGrows
  <2> QED
    BY <2>1, <2>3
<1>2. CASE build_membership
  BY <1>2 DEF build_membership, build_album_credit_membership
<1>3. CASE build_graph
  BY <1>3 DEF build_graph, build_pathfinding_graph
<1>4. CASE build_challenge_from_dump
  <2>1. PICK challenge : Write("challenge", challenge) /\ ChallengeOf(challenge, files.catalog)
    BY <1>4, ChallengeMade DEF IInv
  <2> QED
    BY <2>1
<1>5. CASE build_art
  BY <1>5 DEF build_art
<1>6. CASE build_registry
  BY <1>6 DEF build_registry
<1>7. CASE build_prominence_sidecar
  BY <1>7 DEF build_prominence_sidecar
<1>8. CASE build_index
  <2>1. files.routes_rounds.catalog = files.catalog
    BY <1>8 DEF build_index, OfThisCatalog
  <2> QED
    BY <1>8, <2>1 DEF build_index, build_contributor_index
<1>9. CASE build_hops
  BY <1>9 DEF build_hops, build_album_hop_distances
<1>10. CASE build_search
  BY <1>10 DEF build_search
<1> QED
  BY <1>1, <1>2, <1>3, <1>4, <1>5, <1>6, <1>7, <1>8, <1>9, <1>10

\* A builder of two files writes the first.
LEMMA PairKeepsIInv ==
  ASSUME IInv, build_routes \/ build_game
  PROVE  IInv'
<1>1. PICK name, universe, rounds_file, artifact :
        /\ WritePair(name, universe, rounds_file, artifact)
        /\ \/ /\ name = "routes" /\ universe = "routes_universe" /\ rounds_file = "routes_rounds"
           \/ /\ name = "game" /\ universe = "game_universe" /\ rounds_file = "game_rounds"
        /\ artifact.catalog = files.catalog
  <2>1. CASE build_routes
    <3>1. PICK g \in Roots :
            LET routes == build_record_routes(files.catalog, g)
            IN WritePair("routes", "routes_universe", "routes_rounds", routes)
      BY <2>1 DEF build_routes
    <3>2. build_record_routes(files.catalog, g).catalog = files.catalog
      BY DEF build_record_routes
    <3> QED
      BY <3>1, <3>2
  <2>2. CASE build_game
    <3>1. LET game == build_connection_rounds(files.catalog, corpus)
          IN WritePair("game", "game_universe", "game_rounds", game)
      BY <2>2 DEF build_game
    <3>2. build_connection_rounds(files.catalog, corpus).catalog = files.catalog
      BY DEF build_connection_rounds
    <3> QED
      BY <3>1, <3>2
  <2> QED
    BY <2>1, <2>2
<1>2. /\ step \in 1 .. 13 /\ Runbook[step] = name /\ step' = step + 1
      /\ step' \in 1 .. Len(Runbook) + 1
      /\ UNCHANGED <<slips, round, site>>
  BY <1>1, RunStands DEF WritePair, IInv
<1>3. /\ files' = [files EXCEPT ![universe] = artifact] /\ corpus' = corpus
      /\ writing' = [name |-> rounds_file, artifact |-> artifact]
  BY <1>1 DEF WritePair
<1>4. DOMAIN files = Names /\ universe \in Names
  BY <1>1 DEF IInv, Typed, Names
<1>5. /\ DOMAIN files' = Names /\ files'[universe] = artifact
      /\ \A n \in Names : n # universe => files'[n] = files[n]
  BY <1>3, <1>4
<1>6. /\ files'.catalog = files.catalog /\ files'.membership = files.membership
      /\ files'.graph = files.graph /\ files'.challenge = files.challenge
      /\ files'.routes_rounds = files.routes_rounds /\ files'.registry = files.registry
      /\ files'.index = files.index /\ files'.hops = files.hops
  BY <1>1, <1>5 DEF Names
<1>7. /\ name = "routes" => step = 6 /\ files'.routes_universe = artifact
      /\ name = "game" => /\ step = 7 /\ files'.game_universe = artifact
                          /\ files'.routes_universe = files.routes_universe
  BY <1>1, <1>2, <1>5, RunbookSteps DEF Names
<1>8. Typed' /\ Gated' /\ CatalogInv' /\ ChallengeInv'
  BY <1>2, <1>3, <1>5, <1>6 DEF IInv, Typed, TypeOK, Gated, CatalogInv, ChallengeInv
<1>9. WritingInv'
  BY <1>1, <1>2, <1>3, <1>6, <1>7 DEF WritingInv
<1>10. PassInv'
  <2>1. CASE name = "routes"
    <3>1. step = 6 /\ step' = 7 /\ files'.routes_universe.catalog = files'.catalog
      BY <1>1, <1>2, <1>6, <1>7, <2>1
    <3> QED
      BY <1>2, <1>6, <3>1 DEF IInv, PassInv
  <2>2. CASE name = "game"
    <3>1. /\ step = 7 /\ step' = 8 /\ files'.game_universe.catalog = files'.catalog
          /\ files'.routes_universe = files.routes_universe
      BY <1>1, <1>2, <1>6, <1>7, <2>2
    <3> QED
      BY <1>2, <1>6, <3>1 DEF IInv, PassInv
  <2> QED
    BY <1>1, <2>1, <2>2
<1> QED
  BY <1>8, <1>9, <1>10 DEF IInv

\* The second file, or the death of its writer.
LEMMA SecondKeepsIInv ==
  ASSUME IInv, WriteSecond
  PROVE  IInv'
<1>1. /\ files' = [files EXCEPT ![writing.name] = writing.artifact] /\ writing' = Nothing
      /\ UNCHANGED <<site, corpus, step, slips, round>> /\ writing # Nothing
  BY DEF WriteSecond
<1>2. /\ writing.name \in {"routes_rounds", "game_rounds"}
      /\ step \in {7, 8}
      /\ writing.name = "routes_rounds" => writing.artifact.catalog = files.catalog
  BY <1>1 DEF IInv, WritingInv
<1>3. DOMAIN files = Names /\ writing.name \in Names
  BY <1>2 DEF IInv, Typed, Names
<1>4. /\ DOMAIN files' = Names /\ files'[writing.name] = writing.artifact
      /\ \A n \in Names : n # writing.name => files'[n] = files[n]
  BY <1>1, <1>3
<1>5. /\ files'.catalog = files.catalog /\ files'.membership = files.membership
      /\ files'.graph = files.graph /\ files'.routes_universe = files.routes_universe
      /\ files'.game_universe = files.game_universe /\ files'.index = files.index
      /\ files'.challenge = files.challenge
  BY <1>2, <1>4 DEF Names
<1>6. files'.routes_rounds.catalog \in {files.routes_rounds.catalog, files.catalog}
  BY <1>2, <1>4 DEF Names
<1>7. Typed' /\ Gated' /\ WritingInv' /\ ChallengeInv'
  BY <1>1, <1>4, <1>5 DEF IInv, Typed, TypeOK, Gated, WritingInv, ChallengeInv
<1>8. CatalogInv'
  BY <1>1, <1>5, <1>6 DEF IInv, CatalogInv
<1>9. PassInv'
  <2>1. step' = step /\ slips' = slips /\ ~(step > 9) /\ ~(step > 11) /\ ~(step > 13)
    BY <1>1, <1>2
  <2> QED
    BY <1>5, <2>1 DEF IInv, PassInv
<1> QED
  BY <1>7, <1>8, <1>9 DEF IInv

\* The bounds are numbers.
LEMMA BoundsFit == MaxSlips \in Nat /\ MaxRounds \in Nat
BY PublicationFits

\* What an operator does around the builders.
LEMMA AroundKeepsIInv ==
  ASSUME IInv, expand_one_hop \/ die \/ leave_out \/ begin_again \/ publish
  PROVE  IInv'
<1>1. CASE expand_one_hop
  <2>1. /\ step \in 1 .. 13 /\ Runbook[step] = "corpus" /\ step' = step + 1
        /\ step' \in 1 .. Len(Runbook) + 1 /\ writing = Nothing
        /\ UNCHANGED <<slips, round, site>>
    BY <1>1, RunStands DEF expand_one_hop, IInv
  <2>2. step = 2 /\ step' = 3
    BY <2>1, RunbookSteps
  <2>3. UNCHANGED <<files, writing>> /\ corpus' = corpus + 1 /\ corpus < Len(Corpora)
    BY <1>1 DEF expand_one_hop
  <2>4. corpus' \in Generations
    BY <2>3, PublicationFits DEF IInv, Typed, TypeOK, Generations
  <2>5. PassInv'
    BY <2>2 DEF PassInv
  <2>6. Typed'
    BY <2>1, <2>3, <2>4 DEF IInv, Typed, TypeOK, Generations
  <2> QED
    BY <2>1, <2>3, <2>5, <2>6 DEF IInv, WritingInv, CatalogInv, ChallengeInv, Gated
<1>2. CASE die
  BY <1>2 DEF die, IInv, Typed, TypeOK, WritingInv, CatalogInv, ChallengeInv, Gated, PassInv
<1>3. CASE leave_out
  <2>1. /\ step' = step + 1 /\ step <= Len(Runbook) /\ writing = Nothing
        /\ UNCHANGED <<files, site, corpus, writing, round>>
        /\ \/ Runbook[step] \in Optional /\ slips' = slips
           \/ slips' = slips + 1 /\ slips < MaxSlips
    BY <1>3 DEF leave_out
  <2>2. step \in 1 .. 13 /\ step' \in 1 .. Len(Runbook) + 1
    BY <2>1, RunbookSteps DEF IInv, Typed, TypeOK
  <2>3. slips \in Nat /\ slips' \in 0 .. MaxSlips
    BY <2>1, BoundsFit DEF IInv, Typed, TypeOK
  <2>4. slips' = 0 => slips = 0 /\ step' \in {2, 3}
    BY <2>1, <2>2, <2>3, RunbookSteps DEF Optional
  <2>5. PassInv'
    BY <2>1, <2>4 DEF PassInv
  <2> QED
    BY <2>1, <2>2, <2>3, <2>5
       DEF IInv, Typed, TypeOK, WritingInv, CatalogInv, ChallengeInv, Gated
<1>4. CASE begin_again
  <2>1. /\ step' = 1 /\ slips' = slips + 1 /\ slips < MaxSlips
        /\ UNCHANGED <<files, site, corpus, writing, round>> /\ writing = Nothing
    BY <1>4 DEF begin_again
  <2>2. slips' \in 0 .. MaxSlips /\ step' \in 1 .. Len(Runbook) + 1
    BY <2>1, BoundsFit, RunbookSteps DEF IInv, Typed, TypeOK
  <2>3. PassInv'
    BY <2>1 DEF PassInv
  <2>4. Typed'
    BY <2>1, <2>2 DEF IInv, Typed, TypeOK
  <2> QED
    BY <2>1, <2>3, <2>4 DEF IInv, WritingInv, CatalogInv, ChallengeInv, Gated
<1>5. CASE publish
  <2>1. /\ site' = files /\ step' = 1 /\ slips' = 0 /\ round' = round + 1 /\ round < MaxRounds
        /\ UNCHANGED <<files, corpus, writing>> /\ writing = Nothing
        /\ public_artifacts_valid(files)
    BY <1>5 DEF publish
  <2>2. /\ slips' \in 0 .. MaxSlips /\ round' \in 0 .. MaxRounds
        /\ step' \in 1 .. Len(Runbook) + 1
    BY <2>1, BoundsFit, RunbookSteps DEF IInv, Typed, TypeOK
  <2> QED
    BY <2>1, <2>2
       DEF IInv, Typed, TypeOK, WritingInv, CatalogInv, ChallengeInv, Gated, PassInv
<1> QED
  BY <1>1, <1>2, <1>3, <1>4, <1>5

\* The first publication satisfies the invariant.
LEMMA InitIInv ==
  ASSUME Init
  PROVE  IInv
<1> DEFINE s == FirstSources(FirstCatalog)
<1>1. files = Derived(s) /\ site = files
  BY DEF Init
<1>2. /\ s.catalog = FirstCatalog /\ s.membership.catalog = FirstCatalog
      /\ s.art = FirstCatalog /\ s.challenge.catalog = FirstCatalog
      /\ s.graph.catalog = FirstCatalog /\ s.graph.anchors = FirstCatalog
      /\ s.routes_rounds.catalog = FirstCatalog /\ s.routes_universe = s.routes_rounds
      /\ s.game_universe = s.game_rounds
  BY DEF FirstSources, build_album_credit_membership, build_pathfinding_graph, build_challenge,
         build_record_routes
<1> HIDE DEF s
<1>3. /\ DOMAIN files = Names /\ files.catalog = FirstCatalog
      /\ files.routes_rounds.catalog = FirstCatalog /\ files.index.catalog = FirstCatalog
  BY <1>1, <1>2 DEF Derived, Names, build_contributor_index
<1>4. public_artifacts_valid(files)
  <2>1. /\ challenge_valid(files) /\ album_art_valid(files) /\ membership_valid(files)
        /\ graph_valid(files) /\ prominence_valid(files)
    BY <1>1, <1>2 DEF Derived, challenge_valid, album_art_valid, membership_valid, graph_valid,
                      prominence_valid, build_prominence
  <2>2. /\ registry_valid(files) /\ index_valid(files) /\ hops_valid(files)
        /\ search_valid(files) /\ record_routes_valid(files) /\ connection_rounds_valid(files)
    BY <1>1, <1>2 DEF Derived, registry_valid, index_valid, hops_valid, search_valid,
                      record_routes_valid, connection_rounds_valid, build_contributor_index,
                      build_evidence_release_registry, build_album_hop_distances
  <2> QED
    BY <2>1, <2>2 DEF public_artifacts_valid
<1>5. Typed
  BY <1>1, <1>3, BoundsFit, PublicationFits, RunbookSteps DEF Init, Typed, TypeOK, Generations
<1>6. step = 1 /\ writing = Nothing
  BY DEF Init
<1>7. ChallengeInv
  <2> DEFINE ch == build_challenge(FirstCatalog, 1, {}, 0, MaxPathsFloor(FirstCatalog, {}))
  <2>1. files.challenge = ch /\ site.challenge = ch
    BY <1>1 DEF Derived, FirstSources, s
  <2>2. /\ ch.catalog = FirstCatalog /\ ch.corpus = 1
        /\ ch.max_paths = MaxPathsFloor(FirstCatalog, {})
        /\ ch.paths = build_challenge_v2(FirstCatalog, {}, ch.max_paths, Corpora[1])
    BY DEF build_challenge
  <2> HIDE DEF ch
  <2>3. MaxPathsFloor(FirstCatalog, {}) \in Nat
    <3>1. IsFiniteSet(FirstCatalog)
      BY WalkFits, PublicationFits, FS_Subset
    <3>2. Cardinality(FirstCatalog) \in Nat /\ Cardinality({}) = 0
      BY <3>1, FS_CardinalityType, FS_EmptySet
    <3> QED
      BY <3>2 DEF MaxPathsFloor
  <2>4. 1 \in Generations
    BY PublicationFits DEF Generations
  <2>5. ChallengeOf(ch, FirstCatalog)
    BY <2>2, <2>3, <2>4 DEF ChallengeOf
  <2> QED
    BY <1>3, <2>1, <2>5 DEF ChallengeInv
<1> QED
  BY <1>1, <1>3, <1>4, <1>5, <1>6, <1>7 DEF IInv, WritingInv, CatalogInv, Gated, PassInv

\* Every reachable state satisfies the invariant.
THEOREM IInvariance == Spec => []IInv
<1>1. ASSUME IInv, Next PROVE IInv'
  BY <1>1, BuildersMake, WriteKeepsIInv, PairKeepsIInv, SecondKeepsIInv, AroundKeepsIInv
     DEF Next, IInv
<1>2. ASSUME IInv, UNCHANGED vars PROVE IInv'
  BY <1>2
     DEF vars, IInv, Typed, TypeOK, WritingInv, CatalogInv, ChallengeInv, Gated, PassInv
<1>3. IInv /\ [Next]_vars => IInv'
  BY <1>1, <1>2
<1> QED
  BY <1>3, InitIInv, PTL DEF Spec

----------------------------------------------------------------------------
(* What is published.                                                       *)

\* Every variable stays in its type: the tree holds all artifacts, its catalog is made
\* of albums, and the bounds are kept.
THEOREM TypeCorrect == Spec => []TypeOK
<1>1. IInv => TypeOK
  BY DEF IInv, Typed
<1> QED
  BY <1>1, IInvariance, PTL

\* A tree the gate accepts has Record Routes of its own catalog: the index is of the
\* catalog, the routes are between the two, and catalogs only grow.
THEOREM RoutesFollow == Spec => []RoutesFollowTheCatalog
<1>1. IInv => RoutesFollowTheCatalog
  BY DEF IInv, CatalogInv, RoutesFollowTheCatalog, public_artifacts_valid, index_valid
<1> QED
  BY <1>1, IInvariance, PTL

\* Both files of Record Routes, and both of Connection, are published together.
THEOREM PublishedWhole == Spec => []PairsArePublishedWhole
<1>1. IInv => PairsArePublishedWhole
  BY DEF IInv, Gated, PairsArePublishedWhole, public_artifacts_valid, record_routes_valid,
         connection_rounds_valid
<1> QED
  BY <1>1, IInvariance, PTL

\* No publication drops an album that is live.
THEOREM AlbumsStay == Spec => PublishedAlbumsStay
<1>1. IInv /\ [Next]_vars => [site.catalog \subseteq site'.catalog]_vars
  <2> SUFFICES ASSUME IInv, Next PROVE site.catalog \subseteq site'.catalog
    OBVIOUS
  <2>1. site' = site \/ site' = files
    BY DEF Next, expand_one_hop, build_catalog, build_membership, build_graph,
           build_challenge_from_dump, build_routes, build_game, WriteSecond, die, build_art,
           build_registry, build_prominence_sidecar, build_index, build_hops, build_search,
           leave_out, begin_again, publish, Write, WritePair, Run
  <2> QED
    BY <2>1 DEF IInv, CatalogInv
<1> QED
  BY <1>1, IInvariance, PTL DEF Spec, PublishedAlbumsStay

\* A round that left no step of the runbook out is consistent throughout.
THEOREM FullPasses == Spec => FullPassIsConsistent
<1> DEFINE Consistent ==
             round' # round /\ slips = 0 /\ step = Len(Runbook) + 1
             => /\ site'.graph.linked = site'.catalog
                /\ GraphReleases(site'.graph) \cup DocumentedReleases(site')
                     \subseteq site'.registry.releases
                /\ site'.index.ids = Contributors(site') /\ site'.hops.ids = Contributors(site')
                /\ site'.routes_rounds.catalog = site'.game_rounds.catalog
<1>1. ASSUME IInv, Next, round' # round, slips = 0, step = Len(Runbook) + 1
      PROVE  /\ site'.graph.linked = site'.catalog
             /\ GraphReleases(site'.graph) \cup DocumentedReleases(site')
                  \subseteq site'.registry.releases
             /\ site'.index.ids = Contributors(site') /\ site'.hops.ids = Contributors(site')
             /\ site'.routes_rounds.catalog = site'.game_rounds.catalog
  <2>1. publish
    BY <1>1 DEF Next, expand_one_hop, build_catalog, build_membership, build_graph,
           build_challenge_from_dump, build_routes, build_game, WriteSecond, die, build_art,
           build_registry, build_prominence_sidecar, build_index, build_hops, build_search,
           leave_out, begin_again, Write, WritePair, Run
  <2>2. site' = files /\ public_artifacts_valid(files)
    BY <2>1 DEF publish
  <2>3. step = 14
    BY <1>1, RunbookSteps
  <2>4. /\ files.graph.linked = files.catalog
        /\ files.routes_universe.catalog = files.catalog
        /\ files.game_universe.catalog = files.catalog
        /\ files.registry = build_evidence_release_registry(files)
        /\ files.index.ids = Contributors(files) /\ files.hops.ids = Contributors(files)
    BY <1>1, <2>3 DEF IInv, PassInv
  <2>5. files.registry.releases = DocumentedReleases(files) \cup GraphReleases(files.graph)
    BY <2>4 DEF build_evidence_release_registry
  <2>6. /\ files.routes_rounds = files.routes_universe
        /\ files.game_rounds = files.game_universe
    BY <2>2 DEF public_artifacts_valid, record_routes_valid, connection_rounds_valid
  <2> QED
    BY <2>2, <2>4, <2>5, <2>6
<1>2. IInv /\ [Next]_vars => [Consistent]_vars
  BY <1>1
<1> QED
  BY <1>2, IInvariance, PTL DEF Spec, FullPassIsConsistent
----------------------------------------------------------------------------
(* The challenge, over the publications.                                    *)

\* With a path an album, an album that is its artist's only one and is connected to all
\* the others is in a path: its artist has a pair in the first round of the walk.
THEOREM AlbumsAreDocumented == Spec => []AlbumsDocumented
<1>1. ASSUME IInv
      PROVE  AlbumsDocumented
  <2> DEFINE ch == files.challenge
             Others(a) == {b \in ch.catalog : ArtistOf[b] # ArtistOf[a]}
             walk == WalkOf(ch.catalog).pairs
             first_round == WalkOf(ch.catalog).first_round
             connected == Corpora[ch.corpus]
  <2>1. ChallengeOf(ch, files.catalog) /\ ch.catalog \in SUBSET Albums
    BY <1>1 DEF IInv, ChallengeInv, ChallengeOf, Typed, TypeOK
  <2>2. FirstCatalog \subseteq ch.catalog /\ ch.max_paths \in Nat
    BY <2>1 DEF ChallengeOf
  <2>3. PICK carried :
          ch.paths = build_challenge_v2(ch.catalog, carried, ch.max_paths, connected)
    BY <2>1 DEF ChallengeOf
  <2>4. IsFiniteSet(ch.catalog)
    BY <2>1, WalkFits, FS_Subset
  <2>5. WalkOK(ch.catalog, walk, first_round)
    BY <2>1, WalksAreOK
  <2>6. ASSUME ch.max_paths >= Cardinality(ch.catalog), NEW a \in ch.catalog,
               Cardinality(Others(a)) = Cardinality(ch.catalog) - 1,
               \A b \in Others(a) : Pair(a, b) \in connected \ FamilyPairs
        PROVE  \E p \in ch.paths : a \in {p[1], p[2]}
    <3> HIDE DEF ch, walk, first_round, connected
    <3>1. PICK b \in Others(a) : TRUE
      <4>1. PICK c \in FirstCatalog : \E d \in FirstCatalog : ArtistOf[c] # ArtistOf[d]
        BY PublicationFits
      <4>2. PICK d \in FirstCatalog : ArtistOf[c] # ArtistOf[d]
        BY <4>1
      <4>3. c \in ch.catalog /\ d \in ch.catalog
        BY <2>2
      <4>4. c \in Others(a) \/ d \in Others(a)
        BY <4>2, <4>3
      <4> QED
        BY <4>4
    <3>2. \A c \in ch.catalog : c # a => ArtistOf[c] # ArtistOf[a]
      <4>1. /\ IsFiniteSet(ch.catalog \ {a})
            /\ Cardinality(ch.catalog \ {a}) = Cardinality(ch.catalog) - 1
        BY <2>4, FS_RemoveElement
      <4>2. Others(a) \in SUBSET (ch.catalog \ {a})
        OBVIOUS
      <4>3. Others(a) = ch.catalog \ {a}
        BY <2>6, <4>1, <4>2, FS_Subset
      <4> QED
        BY <4>3
    <3>3. Cardinality(Pair(a, b)) = 2
      <4>1. ArtistOf[b] # ArtistOf[a]
        OBVIOUS
      <4>2. IsFiniteSet({ArtistOf[a]}) /\ Cardinality({ArtistOf[a]}) = 1
        BY FS_Singleton
      <4> DEFINE alone == {ArtistOf[a]}
      <4>3. ArtistOf[b] \notin alone
        BY <4>1
      <4> HIDE DEF alone
      <4>4. Cardinality(alone \cup {ArtistOf[b]}) = Cardinality(alone) + 1
        BY <4>2, <4>3, FS_AddElement DEF alone
      <4>5. Pair(a, b) = alone \cup {ArtistOf[b]}
        BY DEF Pair, alone
      <4> QED
        BY <4>2, <4>4, <4>5 DEF alone
    <3>4. b \in ch.catalog /\ Pair(a, b) \notin FamilyPairs
      BY <2>6, <3>1
    <3>5. PICK k \in 1 .. first_round : walk[k][1] = a \/ PairAt(walk, k) = Pair(a, b)
      BY <2>5, <3>3, <3>4 DEF WalkOK
    <3>6. /\ walk \in Seq(ch.catalog \X ch.catalog) /\ k \in 1 .. Len(walk)
          /\ Cardinality(PairAt(walk, k)) = 2
      <4>1. walk \in Seq(ch.catalog \X ch.catalog) /\ k \in 1 .. Len(walk)
        BY <2>5 DEF WalkOK, Claims
      <4> QED
        BY <2>5, <4>1 DEF WalkOK, Claims
    <3>7. walk[k] \in ch.catalog \X ch.catalog
      BY <3>6, ElementOfSeq
    <3> DEFINE c == walk[k][1]
               d == walk[k][2]
    <3>8. c \in ch.catalog /\ d \in ch.catalog /\ PairAt(walk, k) = {ArtistOf[c], ArtistOf[d]}
      BY <3>7 DEF PairAt, Pair
    <3>9. a \in {c, d}
      <4> HIDE DEF c, d
      <4>1. CASE PairAt(walk, k) = Pair(a, b)
        BY <3>2, <3>8, <4>1 DEF Pair
      <4> QED
        BY <3>5, <4>1 DEF c
    <3>10. c # d
      <4> SUFFICES ASSUME c = d PROVE FALSE
        OBVIOUS
      <4> HIDE DEF c, d
      <4>1. PairAt(walk, k) = {ArtistOf[c]}
        BY <3>8
      <4>2. Cardinality({ArtistOf[c]}) = 1
        BY FS_Singleton
      <4>3. Cardinality(PairAt(walk, k)) = 1
        BY <4>1, <4>2
      <4> QED
        BY <3>6, <4>3
    <3>11. PairAt(walk, k) \in connected
      <4> HIDE DEF c, d
      <4>1. PICK e \in Others(a) : PairAt(walk, k) = Pair(a, e)
        BY <3>2, <3>8, <3>9, <3>10 DEF Pair
      <4> QED
        BY <2>6, <4>1
    <3>12. k \in Chosen(walk, first_round, carried, ch.max_paths, connected)
      BY <2>2, <2>4, <2>5, <2>6, <3>11, FirstRoundIsChosen
    <3>13. walk[k] \in ch.paths
      BY <2>3, <3>12, ChallengeChooses DEF walk, first_round
    <3> QED
      BY <3>9, <3>13
  <2> QED
    BY <2>6 DEF AlbumsDocumented
<1> QED
  BY <1>1, IInvariance, PTL

\* A challenge rebuilt with the published pairs carried forward, over a corpus that is no
\* older and with no budget of its own, documents every published pair.
THEOREM PairsStay == Spec => PublishedPairsStay
<1> DEFINE Kept ==
             /\ files'.challenge # files.challenge
             /\ files'.challenge.carried /\ files'.challenge.given = 0
             /\ files'.challenge.corpus >= site.challenge.corpus
             => Pairs(site.challenge.paths) \subseteq Pairs(files'.challenge.paths)
<1>1. ASSUME IInv, Next, files'.challenge # files.challenge
      PROVE  build_challenge_from_dump
  <2>1. \A name, artifact :
          Write(name, artifact) /\ name # "challenge" => files'.challenge = files.challenge
    BY <1>1 DEF Write, IInv, Typed, Names
  <2>2. ~build_routes /\ ~build_game
    BY <1>1 DEF build_routes, build_game, WritePair, IInv, Typed, Names
  <2>3. ~WriteSecond
    BY <1>1 DEF WriteSecond, IInv, Typed, Names, WritingInv
  <2> QED
    BY <1>1, <2>1, <2>2, <2>3
       DEF Next, expand_one_hop, build_catalog, build_membership, build_graph, die, build_art,
           build_registry, build_prominence_sidecar, build_index, build_hops, build_search,
           leave_out, begin_again, publish
<1>2. ASSUME IInv, build_challenge_from_dump,
             files'.challenge.carried, files'.challenge.given = 0,
             files'.challenge.corpus >= site.challenge.corpus
      PROVE  Pairs(site.challenge.paths) \subseteq Pairs(files'.challenge.paths)
  <2>1. PICK challenge, carried :
          /\ Write("challenge", challenge) /\ ChallengeOf(challenge, files.catalog)
          /\ challenge.catalog = files.catalog
          /\ challenge.paths = build_challenge_v2(files.catalog, carried, challenge.max_paths,
                                                  Corpora[challenge.corpus])
          /\ challenge.carried =>
               /\ carried = Pairs(site.challenge.paths)
               /\ challenge.given = 0 =>
                    challenge.max_paths >= Cardinality(files.catalog) + Cardinality(carried)
    BY <1>2, ChallengeMade DEF IInv
  <2>2. files'.challenge = challenge
    BY <1>2, <2>1 DEF Write, IInv, Typed, Names
  <2> DEFINE live == files.catalog
             walk == WalkOf(live).pairs
             first_round == WalkOf(live).first_round
             connected == Corpora[challenge.corpus]
             max_paths == challenge.max_paths
  <2>3. /\ carried = Pairs(site.challenge.paths)
        /\ max_paths >= Cardinality(live) + Cardinality(carried)
    BY <1>2, <2>1, <2>2
  <2>4. live \in SUBSET Albums /\ IsFiniteSet(live)
    BY <1>2, WalkFits, FS_Subset DEF IInv, Typed, TypeOK
  <2>5. WalkOK(live, walk, first_round)
    BY <2>4, WalksAreOK
  <2>6. /\ ChallengeOf(site.challenge, live) /\ max_paths \in Nat
        /\ challenge.corpus \in Generations
    BY <1>2, <2>1 DEF IInv, ChallengeInv, ChallengeOf
  <2>7. /\ IsFiniteSet(carried)
        /\ \A pair \in carried :
             /\ Cardinality(pair) = 2 /\ pair \in Corpora[site.challenge.corpus] \ FamilyPairs
             /\ \E a, b \in site.challenge.catalog : pair = Pair(a, b)
    BY <2>3, <2>4, <2>6, PairsOfChallenge
  <2>8. Corpora[site.challenge.corpus] \subseteq connected
    <3>1. site.challenge.corpus \in Generations /\ site.challenge.corpus <= challenge.corpus
      BY <1>2, <2>2, <2>6 DEF ChallengeOf, Generations
    <3> QED
      BY <2>6, <3>1, CorporaGrow
  <2>9. site.challenge.catalog \subseteq live
    BY <2>6 DEF ChallengeOf
  <2>10. challenge.paths
           = {walk[k] : k \in Chosen(walk, first_round, carried, max_paths, connected)}
    BY <2>1, ChallengeChooses
  <2> HIDE DEF live, walk, first_round, connected, max_paths
  <2>11. ASSUME NEW pair \in carried
         PROVE  pair \in Pairs(challenge.paths)
    <3>1. PICK a \in site.challenge.catalog : \E b \in site.challenge.catalog : pair = Pair(a, b)
      BY <2>7
    <3>2. PICK b \in site.challenge.catalog : pair = Pair(a, b)
      BY <3>1
    <3>3. a \in live /\ b \in live /\ Cardinality(Pair(a, b)) = 2 /\ Pair(a, b) \notin FamilyPairs
      BY <2>7, <2>9, <3>2
    <3>4. Walked(walk, pair)
      BY <2>5, <3>2, <3>3 DEF WalkOK
    <3>5. PICK k \in 1 .. Len(walk) : PairAt(walk, k) = pair
      BY <3>4 DEF Walked
    <3>6. pair \in connected
      BY <2>7, <2>8
    <3>7. k \in Chosen(walk, first_round, carried, max_paths, connected)
      BY <2>3, <2>4, <2>5, <2>6, <2>7, <3>5, <3>6, CarriedIsChosen
    <3>8. walk[k] \in challenge.paths
      BY <2>10, <3>7
    <3> QED
      BY <3>5, <3>8 DEF Pairs, PairAt
  <2> QED
    BY <2>2, <2>3, <2>11
<1>3. IInv /\ [Next]_vars => [Kept]_vars
  BY <1>1, <1>2
<1> QED
  BY <1>3, IInvariance, PTL DEF Spec, PublishedPairsStay
=============================================================================
