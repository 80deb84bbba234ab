----------------------------- MODULE GameProofs -----------------------------
(***************************************************************************)
(* Machine-checked proofs about the game in the browser: about the daily   *)
(* pages and their store, for any number of tabs and of dates; about the   *)
(* engine, for every round the validator accepts (any contributors,        *)
(* answers, distractors, choices and clues); and about the generated       *)
(* rounds it is given, for every catalogue.                                *)
(***************************************************************************)
EXTENDS DailyPlay, RoundPlay, FiniteSetTheorems, TLAPS

----------------------------------------------------------------------------
(* The daily pages.  Every invariant here is disturbed by Finish only: the  *)
(* other actions leave the store alone.                                     *)

\* The inductive invariant: the conjuncts are independent of one another except
\* for their types.
DailyIInv == DailyTypeOK /\ StreakNeverInflated /\ NoLostResult

\* An untouched store satisfies the invariant.
THEOREM DailyInitIInv == DailyInit => DailyIInv
<1> SUFFICES ASSUME DailyInit PROVE DailyIInv
  OBVIOUS
<1> USE DailyAssumption DEF Days, Ratings, NoDay, NotPlayed
<1>1. DailyTypeOK
  BY DEF DailyInit, DailyTypeOK, Pages
<1>2. StreakNeverInflated
  BY DEF DailyInit, StreakNeverInflated, Solved
<1>3. NoLostResult
  BY DEF DailyInit, NoLostResult
<1> QED
  BY <1>1, <1>2, <1>3 DEF DailyIInv

\* What recordStreak leaves in the store.
LEMMA RecordedStreak ==
  ASSUME NEW d \in Days, NEW r \in Ratings, DailyTypeOK, recordStreak(d, r)
  PROVE  /\ streak' \in [current : Nat, best : Nat, last : Days \cup {NoDay}]
         /\ streak'.last = d
         /\ r = "revealed" => streak'.current = 0
         /\ r # "revealed" =>
              streak'.current = IF streak.last = d - 1 THEN streak.current + 1 ELSE 1
<1> DEFINE n == IF streak.last = d - 1 THEN streak.current + 1 ELSE 1
           b == IF n > streak.best THEN n ELSE streak.best
<1>1. streak \in [current : Nat, best : Nat, last : Days \cup {NoDay}]
  BY DEF DailyTypeOK
<1>2. n \in Nat /\ b \in Nat
  BY <1>1
<1>3. CASE r = "revealed"
  <2>1. streak' = [streak EXCEPT !.current = 0, !.last = d]
    BY <1>3 DEF recordStreak
  <2> QED
    BY <1>1, <1>3, <2>1
<1>4. CASE r # "revealed"
  <2>1. streak' = [current |-> n, best |-> b, last |-> d]
    BY <1>4 DEF recordStreak
  <2>2. streak'.current = n /\ streak'.last = d
    BY <2>1
  <2>3. streak' \in [current : Nat, best : Nat, last : Days \cup {NoDay}]
    BY <1>2, <2>1
  <2> QED
    BY <1>4, <2>2, <2>3
<1> QED
  BY <1>3, <1>4

\* Recording a result keeps the invariant.
LEMMA DailyFinishIInv ==
  ASSUME NEW t \in Tabs, NEW r \in Ratings, DailyIInv, Finish(t, r)
  PROVE  DailyIInv'
<1> DEFINE d == date[t]
<1>1. DailyTypeOK /\ StreakNeverInflated /\ NoLostResult
  BY DEF DailyIInv
<1>2. /\ d \in Days /\ page[t] = "playing"
      /\ page' = [page EXCEPT ![t] = "done"]
      /\ daily' = [daily EXCEPT ![d] = r]
      /\ recordStreak(d, r) /\ recordTotals(r)
      /\ plays' = [plays EXCEPT ![d] = @ + 1]
      /\ everSolved' = IF r = "revealed" THEN everSolved ELSE everSolved \cup {d}
      /\ inOrder' = (inOrder /\ \A e \in Days : plays[e] > 0 => e < d)
      /\ UNCHANGED <<today, date>>
  BY <1>1 DEF Finish, Goto, DailyTypeOK
<1>3. /\ streak' \in [current : Nat, best : Nat, last : Days \cup {NoDay}]
      /\ streak'.last = d
      /\ r = "revealed" => streak'.current = 0
      /\ r # "revealed" =>
           streak'.current = IF streak.last = d - 1 THEN streak.current + 1 ELSE 1
  BY <1>1, <1>2, RecordedStreak
<1>4. DailyTypeOK'
  <2>1. totals' \in [played : Nat, solved : Nat, clean : Nat, revealed : Nat]
    BY <1>1, <1>2 DEF recordTotals, DailyTypeOK
  <2>2. page' \in [Tabs -> Pages] /\ daily' \in [Days -> Ratings \cup {NotPlayed}]
    BY <1>1, <1>2 DEF DailyTypeOK, Pages
  <2>3. plays' \in [Days -> Nat] /\ everSolved' \in SUBSET Days /\ inOrder' \in BOOLEAN
    BY <1>1, <1>2 DEF DailyTypeOK
  <2> QED
    BY <1>1, <1>2, <1>3, <2>1, <2>2, <2>3 DEF DailyTypeOK
<1>5. StreakNeverInflated'
  <2> SUFFICES ASSUME NEW e \in (streak'.last - streak'.current + 1)..streak'.last
               PROVE  Solved(e)'
    BY DEF StreakNeverInflated
  <2>1. r # "revealed"
    BY <1>2, <1>3 DEF Days
  <2>2. CASE e = d
    BY <1>1, <1>2, <2>1, <2>2 DEF Solved, DailyTypeOK, Ratings
  <2>3. CASE e # d
    <3>0. streak.current \in Nat /\ streak.last \in Int /\ d \in Int /\ e \in Int
      BY <1>1, <1>2, <1>3 DEF Days, DailyTypeOK, NoDay
    <3>1. streak.last = d - 1 /\ e \in (streak.last - streak.current + 1)..streak.last
      <4>1. streak.last = d - 1
        BY <1>3, <2>1, <2>3, <3>0
      <4>2. streak'.current = streak.current + 1 /\ streak'.last = d
        BY <1>3, <2>1, <4>1
      <4>3. e \in (d - (streak.current + 1) + 1)..d
        BY <4>2
      <4> QED
        BY <2>3, <3>0, <4>1, <4>3
    <3>2. Solved(e)
      BY <1>1, <3>1 DEF StreakNeverInflated
    <3> QED
      BY <1>1, <1>2, <2>3, <3>2 DEF Solved, DailyTypeOK
  <2> QED
    BY <2>2, <2>3
<1>6. NoLostResult'
  <2>1. daily'[d] # NotPlayed /\ \A e \in Days : daily[e] # NotPlayed => daily'[e] # NotPlayed
    BY <1>1, <1>2 DEF DailyTypeOK, Ratings, NotPlayed
  <2>2. \A e \in Days : plays'[e] > 0 => e = d \/ plays[e] > 0
    BY <1>1, <1>2 DEF DailyTypeOK
  <2>3. \A u \in Tabs : page'[u] \in {"played", "done"} => u = t \/ page[u] \in {"played", "done"}
    BY <1>1, <1>2 DEF DailyTypeOK
  <2>4. \A u \in Tabs : date'[u] = date[u] /\ date[u] \in Days
    BY <1>1, <1>2 DEF DailyTypeOK
  <2> QED
    BY <1>1, <1>2, <2>1, <2>2, <2>3, <2>4 DEF NoLostResult
<1> QED
  BY <1>4, <1>5, <1>6 DEF DailyIInv

\* The other steps of a page keep the invariant.
LEMMA DailyPageIInv ==
  ASSUME NEW t \in Tabs, DailyIInv,
         Open(t) \/ TakeDate(t) \/ LoadFails(t) \/ ReplayGuard(t)
  PROVE  DailyIInv'
<1>1. DailyTypeOK /\ StreakNeverInflated /\ NoLostResult
  BY DEF DailyIInv
<1>2. UNCHANGED <<today, storeVars, historyVars>>
  BY DEF Open, TakeDate, LoadFails, ReplayGuard
<1>3. DailyTypeOK'
  BY <1>1, <1>2
  DEF DailyTypeOK, Pages, storeVars, historyVars, Open, TakeDate, LoadFails, ReplayGuard, Goto
<1>4. StreakNeverInflated'
  BY <1>1, <1>2 DEF StreakNeverInflated, Solved, storeVars
<1>5. NoLostResult'
  <2>1. \A u \in Tabs : page'[u] \in {"played", "done"} =>
          /\ date'[u] = date[u]
          /\ page[u] \in {"played", "done"} \/ daily[date[u]] # NotPlayed
    BY <1>1 DEF DailyTypeOK, Open, TakeDate, LoadFails, ReplayGuard, Goto
  <2> QED
    BY <1>1, <1>2, <2>1 DEF NoLostResult, storeVars, historyVars
<1> QED
  BY <1>3, <1>4, <1>5 DEF DailyIInv

\* The invariant is inductive.
THEOREM DailyNextIInv == DailyIInv /\ [DailyNext]_dailyVars => DailyIInv'
<1> SUFFICES ASSUME DailyIInv, [DailyNext]_dailyVars PROVE DailyIInv'
  OBVIOUS
<1>1. CASE UNCHANGED dailyVars
  BY <1>1 DEF DailyIInv, DailyTypeOK, StreakNeverInflated, NoLostResult, Solved,
              dailyVars, storeVars, historyVars
<1>2. CASE ClockMoves
  BY <1>2 DEF DailyIInv, DailyTypeOK, StreakNeverInflated, NoLostResult, Solved,
              ClockMoves, storeVars, historyVars
<1> QED
  BY <1>1, <1>2, DailyPageIInv, DailyFinishIInv DEF DailyNext

\* Every reachable state satisfies the invariant.
THEOREM DailyInvariance == DailySpec => []DailyIInv
BY DailyInitIInv, DailyNextIInv, PTL DEF DailySpec

\* The store and the pages stay in their types.
THEOREM DailyTypeCorrect == DailySpec => []DailyTypeOK
<1>1. DailyIInv => DailyTypeOK
  BY DEF DailyIInv
<1> QED
  BY <1>1, DailyInvariance, PTL

\* However many tabs finish, in whatever order, the streak the player is shown
\* stands in the store date by date.
THEOREM StreakIsEarned == DailySpec => []StreakNeverInflated
<1>1. DailyIInv => StreakNeverInflated
  BY DEF DailyIInv
<1> QED
  BY <1>1, DailyInvariance, PTL

\* However many tabs finish, every recorded date keeps a result.
THEOREM ResultsAreKept == DailySpec => []NoLostResult
<1>1. DailyIInv => NoLostResult
  BY DEF DailyIInv
<1> QED
  BY <1>1, DailyInvariance, PTL

\* The streak is exact when the dates are played in order.

\* A date with a result was played, and so was the last one of the streak; in
\* order, no date after it was.
ExactInv ==
  /\ \A d \in Days : daily[d] # NotPlayed => plays[d] > 0
  /\ streak.last # NoDay => plays[streak.last] > 0
  /\ inOrder => \A d \in Days : plays[d] > 0 => d <= streak.last
  /\ StreakExact

\* Only Finish touches what this is about.
LEMMA ExactKept ==
  ASSUME ExactInv, UNCHANGED <<storeVars, historyVars>>
  PROVE  ExactInv'
BY DEF ExactInv, StreakExact, Solved, storeVars, historyVars

\* A date played after all the others ends, extends or starts the streak, and
\* the date before the streak stays one that was not solved.
LEMMA FinishExact ==
  ASSUME NEW t \in Tabs, NEW r \in Ratings, DailyTypeOK, ExactInv, Finish(t, r)
  PROVE  ExactInv'
<1>0. PICK d \in Days : d = date[t]
  BY DEF DailyTypeOK
<1>1. /\ daily' = [daily EXCEPT ![d] = r] /\ recordStreak(d, r)
      /\ plays' = [plays EXCEPT ![d] = @ + 1]
      /\ inOrder' = (inOrder /\ \A e \in Days : plays[e] > 0 => e < d)
  BY <1>0 DEF Finish
<1>2. /\ streak' \in [current : Nat, best : Nat, last : Days \cup {NoDay}]
      /\ streak'.last = d
      /\ r = "revealed" => streak'.current = 0
      /\ r # "revealed" =>
           streak'.current = IF streak.last = d - 1 THEN streak.current + 1 ELSE 1
  BY <1>1, RecordedStreak
<1>3. /\ plays'[d] > 0 /\ daily'[d] = r
      /\ \A e \in Days : e # d => plays'[e] = plays[e] /\ daily'[e] = daily[e]
  BY <1>1 DEF DailyTypeOK
<1>4. /\ \A e \in Days : daily'[e] # NotPlayed => plays'[e] > 0
      /\ streak'.last # NoDay => plays'[streak'.last] > 0
  BY <1>2, <1>3 DEF ExactInv
<1>5. inOrder' => inOrder /\ \A e \in Days : plays[e] > 0 => e < d
  BY <1>1, Zenon
<1>6. inOrder' => \A e \in Days : plays'[e] > 0 => e <= streak'.last
  <2>1. (\A e \in Days : plays[e] > 0 => e < d) =>
          \A e \in Days : plays'[e] > 0 => e <= streak'.last
    BY <1>2, <1>3 DEF Days
  <2> QED
    BY <1>5, <2>1, Zenon
<1>7. ASSUME inOrder, \A e \in Days : plays[e] > 0 => e < d
      PROVE  ~Solved(streak.last - streak.current)'
  <2>0. /\ d \in Int /\ streak.last \in Int /\ streak.current \in Nat
        /\ streak.last \in Days \/ streak.last = NoDay
    BY DailyAssumption DEF DailyTypeOK, Days, NoDay
  <2>1. CASE r = "revealed"
    <3>1. streak'.last - streak'.current = d
      BY <1>2, <2>0, <2>1
    <3> QED
      BY <1>3, <2>1, <3>1 DEF Solved
  <2>2. CASE r # "revealed" /\ streak.last = d - 1
    <3>1. /\ streak'.last - streak'.current = streak.last - streak.current
          /\ streak.last - streak.current # d
      BY <1>2, <2>0, <2>2
    <3>2. ~Solved(streak.last - streak.current)
      BY <1>7, Zenon DEF ExactInv, StreakExact
    <3> QED
      BY <1>3, <3>1, <3>2 DEF Solved
  <2>3. CASE r # "revealed" /\ streak.last # d - 1
    <3>1. streak'.last - streak'.current = d - 1 /\ d - 1 # d
      BY <1>2, <2>0, <2>3
    <3>2. streak.last # NoDay => streak.last < d
      BY <1>7, <2>0 DEF ExactInv
    <3>3. \A e \in Days : plays[e] > 0 => e <= streak.last
      BY <1>7, Zenon DEF ExactInv
    <3>4. d - 1 \in Days => ~(plays[d - 1] > 0)
      BY <2>0, <2>3, <3>2, <3>3 DEF Days, NoDay
    <3>5. d - 1 \in Days => daily[d - 1] = NotPlayed
      BY <3>4 DEF ExactInv
    <3> QED
      BY <1>3, <3>1, <3>5 DEF Solved, NotPlayed
  <2> QED
    BY <2>1, <2>2, <2>3
<1>8. StreakExact'
  BY <1>5, <1>7, Zenon DEF StreakExact
<1> QED
  BY <1>4, <1>6, <1>8, Zenon DEF ExactInv

\* In order, the streak counts exactly the consecutive solved dates up to the
\* last one played, for any number of tabs and dates.
THEOREM StreakIsExact == DailySpec => []StreakExact
<1>1. DailyInit => ExactInv
  BY DailyAssumption DEF DailyInit, ExactInv, StreakExact, Solved, Days, NotPlayed, NoDay
<1>2. DailyIInv /\ ExactInv /\ [DailyNext]_dailyVars => ExactInv'
  BY ExactKept, FinishExact
  DEF DailyIInv, DailyNext, Open, TakeDate, LoadFails, ReplayGuard, ClockMoves, dailyVars
<1>3. ExactInv => StreakExact
  BY DEF ExactInv
<1> QED
  BY <1>1, <1>2, <1>3, DailyInvariance, PTL DEF DailySpec

----------------------------------------------------------------------------
(* The engine.                                                              *)

\* The round never changes, so its parts do not either.
USE DEF kind, Answers, Distractors, MiddleChoices, Middle, Clues

\* The steps answered so far are those before the one in play.
Progress ==
  /\ kind = "one_hop" => step = "single"
  /\ kind = "two_hop" => step # "single"
  /\ phase # "revealed" =>
       /\ step \in {"single", "bridge_a"} => solvedSteps = {}
       /\ step = "bridge_b" => solvedSteps = {"bridge_a"}
       /\ step = "middle" => solvedSteps = {"bridge_a", "bridge_b"}

\* The engine's counter is zero exactly when nothing was ever struck.
MissesCounted == wrongAttempts = 0 <=> struck = {} /\ struckAlbums = {}

\* The misses of the step are struck, and are what its attempts have paid for.
AttemptsPaid ==
  /\ misses \subseteq struck \cup struckAlbums
  /\ IsFiniteSet(misses) /\ AttemptsPerStep
  /\ phase # "revealed" => attemptsLeft > 0 /\ rating = NoRating

\* The inductive invariant.
IInv == TypeOK /\ Progress /\ MissesCounted /\ AttemptsPaid /\ RatingEarned

\* What is known of the round in play, whichever of Rounds it is.
LEMMA RoundInPlay ==
  ASSUME round \in Rounds
  PROVE  /\ kind \in Kinds
         /\ \A s \in Asks(kind) : Answers[s] # {} /\ Answers[s] \subseteq Contributors \ Distractors
         /\ Distractors \subseteq Contributors
         /\ kind = "two_hop" => MiddleChoices \subseteq Albums /\ Middle \in MiddleChoices
<1>1. ValidRound(round)
  BY RoundAssumption
<1> QED
  BY <1>1 DEF ValidRound, kind, Answers, Distractors, MiddleChoices, Middle

\* There are finitely many clues, and each names distractors.
LEMMA CluesType ==
  ASSUME round \in Rounds
  PROVE  Len(Clues) \in Nat /\ \A i \in 1..Len(Clues) : Clues[i] \in SUBSET Distractors
<1>1. Clues \in Seq(SUBSET Distractors)
  BY RoundAssumption DEF ValidRound, Clues, Distractors
<1> QED
  BY <1>1

\* The step in play is one of the round's own.
LEMMA StepAsked ==
  ASSUME TypeOK, Progress
  PROVE  /\ step \in Path(kind)
         /\ step # "middle" => step \in Asks(kind)
         /\ step = "middle" => kind = "two_hop"
BY RoundInPlay DEF TypeOK, Progress, Path, Asks, Steps, ContributorSteps, Kinds

\* A fresh round satisfies the invariant.
THEOREM InitIInv == Init => IInv
<1> SUFFICES ASSUME Init PROVE IInv
  OBVIOUS
<1>1. TypeOK
  <2>1. solvedSteps \in SUBSET Steps /\ step \in Steps
    BY DEF Init, initialStep, Steps, ContributorSteps
  <2>2. cluesUsed \in 0..Len(Clues) /\ wrongAttempts \in Nat
    BY CluesType DEF Init
  <2>3. attemptsLeft \in 0..ATTEMPTS_PER_STEP
    BY DEF Init, ATTEMPTS_PER_STEP
  <2> QED
    BY <2>1, <2>2, <2>3 DEF Init, TypeOK
<1>2. Progress /\ MissesCounted /\ RatingEarned
  BY DEF Init, Progress, MissesCounted, RatingEarned, initialStep, Kinds
<1>3. AttemptsPaid
  BY FS_EmptySet DEF Init, AttemptsPaid, AttemptsPerStep, ATTEMPTS_PER_STEP
<1> QED
  BY <1>1, <1>2, <1>3 DEF IInv

\* Dealing and presenting touch the phase alone.
LEMMA DealIInv == ASSUME IInv, deal \/ present PROVE IInv'
<1>1. TypeOK'
  BY DEF IInv, TypeOK, deal, present, stepVars, pickVars, resultVars
<1>2. Progress' /\ MissesCounted' /\ RatingEarned' /\ AttemptsPaid'
  BY DEF IInv, Progress, MissesCounted, RatingEarned, AttemptsPaid, AttemptsPerStep,
         deal, present, stepVars, pickVars, resultVars
<1> QED
  BY <1>1, <1>2 DEF IInv

\* A clue pays with cluesUsed, which no rating has read yet.
LEMMA ClueIInv == ASSUME IInv, useClue PROVE IInv'
<1>1. Clues[cluesUsed + 1] \in SUBSET Contributors
  BY CluesType, RoundInPlay DEF IInv, TypeOK, useClue
<1>2. TypeOK'
  BY <1>1, CluesType DEF IInv, TypeOK, useClue, stepVars, pickVars, resultVars
<1>3. Progress' /\ MissesCounted' /\ RatingEarned' /\ AttemptsPaid'
  BY DEF IInv, Progress, MissesCounted, RatingEarned, AttemptsPaid, AttemptsPerStep,
         useClue, stepVars, pickVars, resultVars
<1> QED
  BY <1>2, <1>3 DEF IInv

\* Giving up reveals the round: the steps answered are not the whole path.
LEMMA RevealIInv == ASSUME IInv, reveal PROVE IInv'
<1>1. solvedSteps # Path(kind)
  BY RoundInPlay DEF Path, IInv, Progress, reveal, TypeOK, Kinds, Steps, ContributorSteps
<1>2. TypeOK'
  BY DEF IInv, TypeOK, reveal, resolve, rateRound, stepVars, pickVars
<1>3. RatingEarned'
  BY <1>1 DEF RatingEarned, reveal, resolve, rateRound, stepVars, pickVars
<1>4. Progress' /\ MissesCounted' /\ AttemptsPaid'
  BY DEF IInv, Progress, MissesCounted, AttemptsPaid, AttemptsPerStep,
         reveal, resolve, stepVars, pickVars
<1> QED
  BY <1>2, <1>3, <1>4 DEF IInv

\* A right pick moves on, or completes the path and is rated on all of it.
LEMMA RightIInv == ASSUME IInv, NEW c, chooseRight(c) PROVE IInv'
<1> USE DEF IInv, chooseRight, advanceStep, resultVars
<1>1. CASE step \in {"bridge_a", "bridge_b"}
  <2>0. /\ step' = IF step = "bridge_a" THEN "bridge_b" ELSE "middle"
        /\ attemptsLeft' = 2 /\ misses' = {}
        /\ UNCHANGED <<phase, solved, failed, rating, wrongAttempts>>
    BY <1>1 DEF ATTEMPTS_PER_STEP
  <2>1. TypeOK'
    <3>1. solvedSteps' \in SUBSET Steps
      BY DEF TypeOK
    <3>2. step' \in Steps
      BY <1>1 DEF Steps, ContributorSteps
    <3>3. attemptsLeft' \in 0..ATTEMPTS_PER_STEP /\ misses' = {}
      BY <2>0 DEF ATTEMPTS_PER_STEP
    <3> QED
      BY <2>0, <3>1, <3>2, <3>3 DEF TypeOK
  <2>2. MissesCounted' /\ RatingEarned'
    BY <1>1 DEF MissesCounted, RatingEarned
  <2>4. Progress'
    <3>1. CASE step = "bridge_a"
      BY <3>1 DEF Progress
    <3>2. CASE step = "bridge_b"
      BY <3>2 DEF Progress
    <3> QED
      BY <1>1, <3>1, <3>2
  <2>3. AttemptsPaid'
    BY <2>0, FS_EmptySet DEF AttemptsPaid, AttemptsPerStep, ATTEMPTS_PER_STEP
  <2> QED
    BY <2>1, <2>2, <2>3, <2>4
<1>2. CASE step \in {"single", "middle"}
  <2>1. TypeOK'
    <3>1. solvedSteps' \in SUBSET Steps
      BY DEF TypeOK
    <3> QED
      BY <1>2, <3>1 DEF TypeOK, resolve, rateRound
  <2>2. solvedSteps' = Path(kind)
    BY <1>2, RoundInPlay DEF Path, Progress, TypeOK, Kinds
  <2>3. Progress' /\ MissesCounted' /\ AttemptsPaid'
    BY <1>2 DEF Progress, MissesCounted, AttemptsPaid, AttemptsPerStep, resolve
  <2>4. RatingEarned'
    BY <1>2, <2>2 DEF RatingEarned, MissesCounted, resolve, rateRound
  <2> QED
    BY <2>1, <2>3, <2>4
<1> QED
  BY <1>1, <1>2

\* A wrong pick is struck and counted; the last one of a step loses the round.
LEMMA WrongIInv ==
  ASSUME IInv, NEW c \in Contributors \cup Albums, c \in Enabled(step), chooseWrong(c)
  PROVE  IInv'
<1> USE DEF IInv, chooseWrong, resultVars
<1>1. step \in Steps /\ c \notin struck /\ c \notin struckAlbums
  BY DEF Enabled, TypeOK
<1>2. /\ step = "middle" => c \in Albums
      /\ step # "middle" => c \in Contributors
  <2>1. TypeOK /\ Progress /\ round \in Rounds
    BY DEF TypeOK
  <2>2. /\ kind = "two_hop" => MiddleChoices \subseteq Albums
        /\ step # "middle" => Answers[step] \cup Distractors \subseteq Contributors
        /\ step = "middle" => kind = "two_hop"
    BY <2>1, RoundInPlay, StepAsked
  <2> QED
    BY <2>2 DEF Enabled, Tray
<1>3. TypeOK'
  <2>1. struck' \in SUBSET Contributors /\ struckAlbums' \in SUBSET Albums
    BY <1>1, <1>2 DEF TypeOK
  <2>2. attemptsLeft' \in 0..ATTEMPTS_PER_STEP /\ wrongAttempts' \in Nat
    BY DEF TypeOK, AttemptsPaid, ATTEMPTS_PER_STEP
  <2>3. /\ phase' \in {"idle", "dealing", "guessing", "revealed"}
        /\ rating' \in {NoRating, "clean", "with_clues", "revealed"}
        /\ solved' \in BOOLEAN /\ failed' \in BOOLEAN
    BY DEF TypeOK, resolve, rateRound
  <2> QED
    BY <2>1, <2>2, <2>3 DEF TypeOK
<1>4. /\ MissesCounted'
      /\ struck' \cup struckAlbums' = struck \cup struckAlbums \cup {c}
  <2>1. struck' \cup struckAlbums' = struck \cup struckAlbums \cup {c}
    OBVIOUS
  <2>2. wrongAttempts' # 0
    BY DEF TypeOK
  <2> QED
    BY <2>1, <2>2 DEF MissesCounted
<1>5. AttemptsPaid'
  <2>1. c \notin misses
    BY <1>1 DEF AttemptsPaid
  <2>2. IsFiniteSet(misses') /\ Cardinality(misses') = Cardinality(misses) + 1
    BY <2>1, FS_AddElement DEF AttemptsPaid
  <2>3. AttemptsPerStep'
    BY <2>2, FS_CardinalityType DEF AttemptsPaid, AttemptsPerStep, ATTEMPTS_PER_STEP, TypeOK
  <2>4. misses' \subseteq struck' \cup struckAlbums'
    BY <1>4 DEF AttemptsPaid
  <2>5. phase' # "revealed" => attemptsLeft' > 0 /\ rating' = NoRating
    <3>1. attemptsLeft' \in 0..2
      BY <1>3 DEF TypeOK, ATTEMPTS_PER_STEP
    <3>2. CASE attemptsLeft' = 0
      BY <3>2 DEF resolve
    <3>3. CASE attemptsLeft' # 0
      BY <3>1, <3>3 DEF AttemptsPaid
    <3> QED
      BY <3>2, <3>3
  <2> QED
    BY <2>2, <2>3, <2>4, <2>5 DEF AttemptsPaid
<1>6. solvedSteps # Path(kind)
  BY RoundInPlay DEF Path, Progress, TypeOK, Kinds, Steps, ContributorSteps
<1>7. RatingEarned' /\ Progress'
  BY <1>6 DEF RatingEarned, Progress, resolve, rateRound
<1> QED
  BY <1>3, <1>4, <1>5, <1>7

\* The invariant is inductive.
THEOREM NextIInv == IInv /\ [Next]_vars => IInv'
<1> SUFFICES ASSUME IInv, [Next]_vars PROVE IInv'
  OBVIOUS
<1>1. CASE UNCHANGED vars
  BY <1>1 DEF vars, stepVars, pickVars, resultVars, IInv, TypeOK, Progress, MissesCounted,
              AttemptsPaid, AttemptsPerStep, RatingEarned
<1>2. ASSUME NEW c \in Contributors \cup Albums, choose(c) PROVE IInv'
  BY <1>2, RightIInv, WrongIInv DEF choose
<1> QED
  BY <1>1, <1>2, DealIInv, ClueIInv, RevealIInv DEF Next

\* Every reachable state satisfies the invariant.
THEOREM Invariance == Spec => []IInv
BY InitIInv, NextIInv, PTL DEF Spec

\* The engine's variables stay in their types; attempts never go below zero.
THEOREM TypeCorrect == Spec => []TypeOK
<1>1. IInv => TypeOK
  BY DEF IInv
<1> QED
  BY <1>1, Invariance, PTL

\* Whatever the round, a clean rating means the whole path, no clue, no miss.
THEOREM CleanIsEarned == Spec => []RatingEarned
<1>1. IInv => RatingEarned
  BY DEF IInv
<1> QED
  BY <1>1, Invariance, PTL

\* Whatever the round, every step starts with its full attempts.
THEOREM AttemptsAreFair == Spec => []AttemptsPerStep
<1>1. IInv => AttemptsPerStep
  BY DEF IInv, AttemptsPaid
<1> QED
  BY <1>1, Invariance, PTL

\* What the page disables is never an answer: strikes and clues take distractors,
\* and wrong records.
Spared ==
  /\ struck \cup eliminated \subseteq Distractors
  /\ kind = "two_hop" => Middle \notin struckAlbums

\* A strike is a chip of the tray that is not an answer.
LEMMA SparedKept ==
  ASSUME IInv, Spared, [Next]_vars PROVE Spared'
<1> USE DEF Spared, IInv
<1>1. ASSUME NEW c, choose(c) PROVE Spared'
  <2>1. CASE chooseRight(c)
    BY <2>1 DEF chooseRight
  <2>2. CASE chooseWrong(c)
    <3>1. step = "middle" => c # Middle
      BY <2>2 DEF chooseWrong, IsAnswer
    <3>2. step # "middle" => c \in Distractors
      BY <1>1, <2>2 DEF choose, chooseWrong, Enabled, Tray, IsAnswer
    <3> QED
      BY <2>2, <3>1, <3>2 DEF chooseWrong
  <2> QED
    BY <1>1, <2>1, <2>2 DEF choose
<1>2. CASE useClue
  <2>1. Clues[cluesUsed + 1] \subseteq Distractors
    BY <1>2, CluesType DEF useClue, TypeOK
  <2> QED
    BY <1>2, <2>1 DEF useClue, pickVars
<1> QED
  BY <1>1, <1>2 DEF Next, deal, present, reveal, vars, pickVars

\* Whatever was struck or taken away, an enabled chip answers the step in play.
THEOREM RoundsAreWinnable == Spec => []Winnable
<1>1. Init => Spared
  BY DEF Init, Spared
<1>2. IInv /\ Spared => Winnable
  <2> SUFFICES ASSUME IInv, Spared PROVE \E c \in Enabled(step) : IsAnswer(step, c)
    BY DEF Winnable
  <2>0. TypeOK /\ Progress /\ round \in Rounds
    BY DEF IInv, TypeOK
  <2>1. CASE step = "middle"
    <3>1. Middle \in MiddleChoices \cap Albums /\ Middle \notin Contributors /\ Middle \notin struckAlbums
      BY <2>0, <2>1, RoundInPlay, StepAsked, RoundAssumption DEF Spared
    <3>2. Middle \notin eliminated \cup struck
      BY <2>0, <3>1 DEF TypeOK
    <3> QED
      BY <2>1, <3>1, <3>2 DEF Enabled, Tray, IsAnswer
  <2>2. CASE step # "middle"
    <3>1. PICK c \in Answers[step] : c \in Contributors \ Distractors
      BY <2>0, <2>2, RoundInPlay, StepAsked
    <3>2. c \notin eliminated \cup struck \cup struckAlbums
      BY <2>0, <3>1, RoundAssumption DEF TypeOK, Spared
    <3> QED
      BY <2>2, <3>1, <3>2 DEF Enabled, Tray, IsAnswer
  <2> QED
    BY <2>1, <2>2
<1> QED
  BY <1>1, <1>2, SparedKept, Invariance, PTL DEF Spec

-----------------------------------------------------------------------------
(* The refinement of RoundContract. *)

\* A resolution is the contract's, to one of its three ratings.
LEMMA ResolveRefines ==
  ASSUME NEW won, NEW wrong, resolve(won, wrong), phase = "guessing" \/ (phase = "dealing" /\ ~won)
  PROVE  Contract!Next
<1>1. rateRound(won, cluesUsed, wrong) \in Contract!Ratings
  BY DEF rateRound, Contract!Ratings
<1>2. ~won => rateRound(won, cluesUsed, wrong) = "revealed"
  BY DEF rateRound
<1>3. Contract!Resolve(rateRound(won, cluesUsed, wrong))
  BY <1>2 DEF resolve, Contract!Resolve
<1> QED
  BY <1>1, <1>3 DEF Contract!Next

\* The engine keeps the contract its pages rely on: every call of its API deals,
\* presents or resolves the round, or leaves phase and rating as they are.
THEOREM EngineKeepsContract == Spec => ContractHolds
<1>1. Init => Contract!Init
  BY DEF Init, Contract!Init, NoRating, Contract!NoRating
<1>2. [Next]_vars => [Contract!Next]_<<phase, rating>>
  <2> SUFFICES ASSUME [Next]_vars PROVE Contract!Next \/ UNCHANGED <<phase, rating>>
    OBVIOUS
  <2>1. CASE deal
    BY <2>1 DEF deal, resultVars, Contract!Next, Contract!Deal
  <2>2. CASE present
    BY <2>2 DEF present, resultVars, Contract!Next, Contract!Present
  <2>3. CASE useClue
    BY <2>3 DEF useClue, resultVars
  <2>4. CASE reveal
    BY <2>4, ResolveRefines DEF reveal
  <2>5. ASSUME NEW c, chooseRight(c)
        PROVE  Contract!Next \/ UNCHANGED <<phase, rating>>
    BY <2>5, ResolveRefines DEF chooseRight, advanceStep, resultVars
  <2>6. ASSUME NEW c, chooseWrong(c)
        PROVE  Contract!Next \/ UNCHANGED <<phase, rating>>
    BY <2>6, ResolveRefines DEF chooseWrong, resultVars
  <2>7. CASE UNCHANGED vars
    BY <2>7 DEF vars, resultVars
  <2> QED
    BY <2>1, <2>2, <2>3, <2>4, <2>5, <2>6, <2>7 DEF Next, choose
<1> QED
  BY <1>1, <1>2, PTL DEF Spec, ContractHolds, Contract!Spec

HIDE DEF kind, Answers, Distractors, MiddleChoices, Middle, Clues

----------------------------------------------------------------------------
(* Generated rounds, and the game played on them.                           *)

Candidates(cat) == one_hop_candidates(cat) \cup two_hop_candidates(cat)

\* The first few of a set are of the set.
LEMMA FirstOfSubset == ASSUME NEW ids, NEW n PROVE FirstOf(ids, n) \subseteq ids
BY DEF FirstOf

\* What a one-hop candidate of the pair p is, and a two-hop one.
OneHopOf(cat, p, r) ==
  /\ r.kind = "one_hop" /\ r.endpoints = p /\ r.catalogue = cat
  /\ r.answers = [single |-> _shared_performers(cat, p[1], p[2])]
  /\ r.distractors = _pick_distractors(cat, {p[1], p[2]}, _shared_performers(cat, p[1], p[2]))
  /\ r.clues = ClueLadder(r.distractors)
  /\ r.evidence = Evidence(_shared_performers(cat, p[1], p[2]), p[1], p[2])

Bridges(cat, p, m) == _shared_performers(cat, p[1], m) \cup _shared_performers(cat, m, p[2])

TwoHopOf(cat, p, r) ==
  /\ Cardinality(middles(cat, p[1], p[2])) = 1
  /\ r.kind = "two_hop" /\ r.endpoints = p /\ r.catalogue = cat
  /\ r.middle = LowestId(middles(cat, p[1], p[2]))
  /\ r.answers = [bridge_a |-> _shared_performers(cat, p[1], r.middle),
                  bridge_b |-> _shared_performers(cat, r.middle, p[2])]
  /\ r.choices = {r.middle} \cup FirstOf(cat.albums \ {p[1], p[2], r.middle}, 3)
  /\ r.distractors = _pick_distractors(cat, {p[1], r.middle, p[2]}, Bridges(cat, p, r.middle))
  /\ r.clues = ClueLadder(r.distractors)
  /\ r.evidence = Evidence(_shared_performers(cat, p[1], r.middle), p[1], r.middle)
                    \cup Evidence(_shared_performers(cat, r.middle, p[2]), r.middle, p[2])

LEMMA OneHopCandidate ==
  ASSUME NEW cat, NEW r \in one_hop_candidates(cat)
  PROVE  \E p \in one_hop_pairs(cat) : OneHopOf(cat, p, r)
<1>1. PICK p \in one_hop_pairs(cat) : r \in _build_one_hop_round(cat, p[1], p[2])
  BY DEF one_hop_candidates
<1>2. p = <<p[1], p[2]>>
  BY DEF one_hop_pairs, AllowedPairs
<1>3. OneHopOf(cat, p, r)
  BY <1>1, <1>2 DEF _build_one_hop_round, OneHopOf
<1> QED
  BY <1>3

LEMMA TwoHopCandidate ==
  ASSUME NEW cat, NEW r \in two_hop_candidates(cat)
  PROVE  \E p \in AllowedPairs(cat) \ one_hop_pairs(cat) : TwoHopOf(cat, p, r)
<1>1. PICK p \in AllowedPairs(cat) \ one_hop_pairs(cat) :
        /\ Cardinality(middles(cat, p[1], p[2])) = 1
        /\ r \in _build_two_hop_round(cat, p[1], p[2], LowestId(middles(cat, p[1], p[2])))
  BY DEF two_hop_candidates
<1>2. p = <<p[1], p[2]>>
  BY DEF AllowedPairs
<1>3. _MAX_MIDDLE_CHOICES - 1 = 3
  BY DEF _MAX_MIDDLE_CHOICES
<1> DEFINE m == LowestId(middles(cat, p[1], p[2]))
           names == _pick_distractors(cat, {p[1], m, p[2]}, Bridges(cat, p, m))
<1> HIDE DEF m
<1>4. r \in _build_two_hop_round(cat, p[1], p[2], m)
  BY <1>1 DEF m
<1>5. /\ r.kind = "two_hop" /\ r.endpoints = p /\ r.catalogue = cat /\ r.middle = m
      /\ r.answers = [bridge_a |-> _shared_performers(cat, p[1], m),
                      bridge_b |-> _shared_performers(cat, m, p[2])]
      /\ r.choices = {m} \cup FirstOf(cat.albums \ {p[1], p[2], m}, 3)
      /\ r.distractors = names /\ r.clues = ClueLadder(names)
      /\ r.evidence = Evidence(_shared_performers(cat, p[1], m), p[1], m)
                        \cup Evidence(_shared_performers(cat, m, p[2]), m, p[2])
  BY <1>2, <1>3, <1>4 DEF _build_two_hop_round, Bridges
<1> HIDE DEF names
<1>6. TwoHopOf(cat, p, r)
  BY <1>1, <1>5 DEF m, names, TwoHopOf
<1> QED
  BY <1>6

\* Distractors are credited on one of the albums, and are not excluded.
LEMMA Distracting ==
  ASSUME NEW cat, NEW albums, NEW exclude
  PROVE  _pick_distractors(cat, albums, exclude)
           \subseteq (UNION {cat.performs[x] : x \in albums}) \ exclude
BY FirstOfSubset DEF _pick_distractors

LEMMA NoneExcluded ==
  ASSUME NEW cat, NEW albums, NEW exclude
  PROVE  _pick_distractors(cat, albums, exclude) \cap exclude = {}
<1> SUFFICES ASSUME NEW y \in _pick_distractors(cat, albums, exclude) PROVE y \notin exclude
  OBVIOUS
<1>1. y \in (UNION {cat.performs[x] : x \in albums}) \ exclude
  BY Distracting
<1> QED
  BY <1>1

\* A clue ladder takes distractors only.
LEMMA LadderTakesDistractors ==
  ASSUME NEW d PROVE ClueLadder(d) \in Seq(SUBSET d)
BY FirstOfSubset DEF ClueLadder

\* The one middle of a pair is one, with both connections.
LEMMA OneMiddle ==
  ASSUME NEW cat \in Catalogs, NEW a, NEW c,
         Cardinality(middles(cat, a, c)) = 1
  PROVE  middles(cat, a, c) = {LowestId(middles(cat, a, c))}
<1>1. IsFiniteSet(middles(cat, a, c)) /\ middles(cat, a, c) \subseteq Nat
  BY CatalogsFit, FS_Subset DEF middles
<1>2. PICK m : middles(cat, a, c) = {m}
  BY <1>1, FS_Singleton
<1>3. m \in Nat /\ m <= m
  BY <1>1, <1>2
<1>4. LowestId({m}) = m
  BY <1>3 DEF LowestId
<1> QED
  BY <1>2, <1>4

\* A pair is connected whichever way round it is named.
LEMMA Connecting ==
  ASSUME NEW cat \in Catalogs, NEW x \in cat.albums, NEW y \in cat.albums, x # y
  PROVE  Key(x, y) \in one_hop_pairs(cat)
           <=> {x, y} \notin cat.family /\ _shared_performers(cat, x, y) # {}
<1>1. x \in Nat /\ y \in Nat
  BY CatalogsFit
<1>2. /\ _shared_performers(cat, x, y) = _shared_performers(cat, y, x)
      /\ {x, y} = {y, x}
  BY DEF _shared_performers
<1>3. CASE x < y
  <2>1. Key(x, y) = <<x, y>>
    BY <1>3 DEF Key
  <2> QED
    BY <1>3, <2>1 DEF one_hop_pairs, AllowedPairs
<1>4. CASE y < x
  <2>1. Key(x, y) = <<y, x>>
    BY <1>1, <1>4 DEF Key
  <2> QED
    BY <1>2, <1>4, <2>1 DEF one_hop_pairs, AllowedPairs
<1> QED
  BY <1>1, <1>3, <1>4

\* The middle of a two-hop candidate shares a performer with either end.
LEMMA Bridging ==
  ASSUME NEW cat \in Catalogs, NEW a \in cat.albums, NEW c \in cat.albums,
         NEW m \in middles(cat, a, c)
  PROVE  /\ m \in cat.albums \ {a, c}
         /\ _shared_performers(cat, a, m) # {} /\ _shared_performers(cat, m, c) # {}
<1>1. m \in cat.albums \ {a, c} /\ Key(a, m) \in one_hop_pairs(cat) /\ Key(m, c) \in one_hop_pairs(cat)
  BY DEF middles
<1> QED
  BY <1>1, Connecting

\* What is shared on two albums is a set of contributors.
LEMMA Sharing ==
  ASSUME NEW cat \in Catalogs, NEW x \in cat.albums, NEW y
  PROVE  _shared_performers(cat, x, y) \subseteq Contributors
BY CatalogsFit DEF _shared_performers

\* The generator makes only rounds the engine can play: of any catalogue, every
\* candidate has answers on each step, no distractor and no struck name among
\* them, and its middle among the choices.
THEOREM CandidatesAreValid ==
  ASSUME NEW cat \in Catalogs, NEW r \in Candidates(cat)
  PROVE  ValidRound(r)
<1>1. CASE r \in one_hop_candidates(cat)
  <2>1. PICK p \in one_hop_pairs(cat) : OneHopOf(cat, p, r)
    BY <1>1, OneHopCandidate
  <2> DEFINE names == _shared_performers(cat, p[1], p[2])
  <2>2. p[1] \in cat.albums /\ p[2] \in cat.albums /\ names # {}
    BY DEF one_hop_pairs, AllowedPairs
  <2>3. names \subseteq Contributors
    BY <2>2, Sharing
  <2>4. r.kind = "one_hop" /\ r.answers = [single |-> names] /\ r.clues = ClueLadder(r.distractors)
    BY <2>1 DEF OneHopOf
  <2>5. r.distractors \subseteq (UNION {cat.performs[x] : x \in {p[1], p[2]}}) \ names
    BY <2>1, Distracting DEF OneHopOf
  <2> HIDE DEF names
  <2>6. r.distractors \subseteq Contributors
    BY <2>2, <2>5, CatalogsFit
  <2>7. Asks(r.kind) = {"single"}
    BY <2>4 DEF Asks, Path, ContributorSteps
  <2>8. r.answers \in [Asks(r.kind) -> (SUBSET Contributors) \ {{}}]
    BY <2>2, <2>3, <2>4, <2>7
  <2>9. names \cap r.distractors = {}
    BY <2>1, NoneExcluded DEF OneHopOf, names
  <2>10. \A s \in Asks(r.kind) : r.answers[s] = names
    BY <2>4, <2>7
  <2>11. r.clues \in Seq(SUBSET r.distractors)
    BY <2>4, LadderTakesDistractors
  <2> QED
    BY <2>4, <2>6, <2>8, <2>9, <2>10, <2>11 DEF ValidRound, Kinds
<1>2. CASE r \in two_hop_candidates(cat)
  <2>1. PICK p \in AllowedPairs(cat) \ one_hop_pairs(cat) : TwoHopOf(cat, p, r)
    BY <1>2, TwoHopCandidate
  <2> DEFINE first  == _shared_performers(cat, p[1], r.middle)
             second == _shared_performers(cat, r.middle, p[2])
  <2>2. p[1] \in cat.albums /\ p[2] \in cat.albums /\ r.middle \in middles(cat, p[1], p[2])
    BY <2>1, OneMiddle DEF AllowedPairs, TwoHopOf
  <2>3. r.middle \in cat.albums /\ first # {} /\ second # {}
    BY <2>2, Bridging
  <2>4. first \subseteq Contributors /\ second \subseteq Contributors
    BY <2>2, <2>3, Sharing
  <2>5. /\ r.kind = "two_hop" /\ r.answers = [bridge_a |-> first, bridge_b |-> second]
        /\ r.clues = ClueLadder(r.distractors)
    BY <2>1 DEF TwoHopOf
  <2>6. r.distractors \subseteq (UNION {cat.performs[x] : x \in {p[1], r.middle, p[2]}}) \ (first \cup second)
    BY <2>1, Distracting DEF TwoHopOf, Bridges
  <2>7. r.choices \subseteq Albums /\ r.middle \in r.choices
    BY <2>1, <2>3, FirstOfSubset, CatalogsFit DEF TwoHopOf
  <2> HIDE DEF first, second
  <2>8. r.distractors \subseteq Contributors
    BY <2>2, <2>3, <2>6, CatalogsFit
  <2>9. Asks(r.kind) = {"bridge_a", "bridge_b"}
    BY <2>5 DEF Asks, Path, ContributorSteps
  <2>10. r.answers \in [Asks(r.kind) -> (SUBSET Contributors) \ {{}}]
    BY <2>3, <2>4, <2>5, <2>9
  <2>11. first \cap r.distractors = {} /\ second \cap r.distractors = {}
    <3>1. Bridges(cat, p, r.middle) = first \cup second
      BY DEF Bridges, first, second
    <3>2. r.distractors \cap Bridges(cat, p, r.middle) = {}
      BY <2>1, NoneExcluded DEF TwoHopOf
    <3> QED
      BY <3>1, <3>2
  <2>12. \A s \in Asks(r.kind) : r.answers[s] \in {first, second}
    BY <2>5, <2>9
  <2>13. r.clues \in Seq(SUBSET r.distractors)
    BY <2>5, LadderTakesDistractors
  <2> QED
    BY <2>5, <2>7, <2>8, <2>10, <2>11, <2>12, <2>13 DEF ValidRound, Kinds
<1> QED
  BY <1>1, <1>2 DEF Candidates

\* The evidence of an answer names the answer.
LEMMA EvidenceNames ==
  ASSUME NEW shared, NEW a, NEW c
  PROVE  shared \subseteq {e.contributor : e \in Evidence(shared, a, c)}
<1> SUFFICES ASSUME NEW x \in shared PROVE \E e \in Evidence(shared, a, c) : x = e.contributor
  OBVIOUS
<1> DEFINE rows(y) == _evidence_rows(y, a, Row(Key(a, c)[1], y), c, Row(Key(a, c)[2], y))
           e == [release_ref |-> a, contributor |-> x, credit |-> Row(Key(a, c)[1], x)]
<1>1. e \in rows(x) /\ e.contributor = x
  BY DEF _evidence_rows
<1>2. Evidence(shared, a, c) = UNION {rows(y) : y \in shared}
  BY DEF Evidence
<1> HIDE DEF rows, e
<1>3. e \in Evidence(shared, a, c)
  BY <1>1, <1>2
<1> QED
  BY <1>1, <1>3

\* Every rung of a ladder strikes distractors only.
LEMMA RungsStrikeDistractors ==
  ASSUME NEW d PROVE \A i \in DOMAIN ClueLadder(d) : ClueLadder(d)[i] \subseteq d
<1>1. ClueLadder(d) \in Seq(SUBSET d)
  BY LadderTakesDistractors
<1> QED
  BY <1>1

\* Whatever of the candidates is selected, the published pair passes the
\* validator that runs with the graph and the one that has only the two files:
\* both recompute the answers from the credits of the albums used.
THEOREM PublishedPairIsValid ==
  ASSUME NEW cat \in Catalogs, NEW rounds \in SUBSET Candidates(cat)
  PROVE  LET published == build_connection_universe_and_rounds(cat, rounds)
         IN /\ validate_connection_rounds_artifact(published)
            /\ connection_rounds_failures(published) = {}
<1> DEFINE published == build_connection_universe_and_rounds(cat, rounds)
           performs == published.performs
<1>1. published.rounds = rounds /\ performs = [a \in UsedAlbums(rounds) |-> cat.performs[a]]
  BY DEF build_connection_universe_and_rounds
<1>2. \A r \in rounds : endpoint_ids(r) \subseteq UsedAlbums(rounds)
                       /\ (r.kind = "two_hop" => r.choices \subseteq UsedAlbums(rounds))
  BY DEF UsedAlbums
<1> HIDE DEF published, performs
<1> DEFINE Fine(r) ==
      /\ \A s \in DOMAIN r.answers : r.answers[s] # {}
      /\ AllAnswers(r) \cap r.distractors = {}
      /\ AllAnswers(r) \subseteq {e.contributor : e \in r.evidence}
      /\ \A i \in DOMAIN r.clues : r.clues[i] \cap AllAnswers(r) = {}
      /\ endpoint_ids(r) \subseteq DOMAIN performs
      /\ r.kind = "two_hop" =>
           /\ r.middle \in r.choices
           /\ performs[r.endpoints[1]] \cap performs[r.endpoints[2]] = {}
    both(x, y) == performs[x] \cap performs[y]
    Exact(r) ==
      IF r.kind = "one_hop" THEN r.answers.single = both(r.endpoints[1], r.endpoints[2])
      ELSE /\ r.answers.bridge_a = both(r.endpoints[1], r.middle)
           /\ r.answers.bridge_b = both(r.middle, r.endpoints[2])
           /\ both(r.endpoints[1], r.endpoints[2]) = {}
<1>3. ASSUME NEW r \in rounds, r \in one_hop_candidates(cat) PROVE Fine(r) /\ Exact(r)
  <2>1. PICK p \in one_hop_pairs(cat) : OneHopOf(cat, p, r)
    BY <1>3, OneHopCandidate
  <2> DEFINE names == _shared_performers(cat, p[1], p[2])
  <2>2. names # {}
    BY DEF one_hop_pairs
  <2>3. /\ r.kind = "one_hop" /\ r.endpoints = p
        /\ r.distractors = _pick_distractors(cat, {p[1], p[2]}, names)
        /\ r.clues = ClueLadder(r.distractors)
        /\ r.evidence = Evidence(names, p[1], p[2])
    BY <2>1 DEF OneHopOf
  <2>4. r.answers = [single |-> names]
    BY <2>1 DEF OneHopOf
  <2>5. p[1] \in DOMAIN performs /\ p[2] \in DOMAIN performs
    BY <1>1, <1>2, <2>3 DEF endpoint_ids
  <2>6. names = both(p[1], p[2])
    BY <1>1, <2>5 DEF _shared_performers
  <2> HIDE DEF names
  <2>7. AllAnswers(r) = names /\ \A s \in DOMAIN r.answers : r.answers[s] = names
    BY <2>4 DEF AllAnswers
  <2>8. /\ AllAnswers(r) \cap r.distractors = {}
        /\ \A i \in DOMAIN r.clues : r.clues[i] \cap AllAnswers(r) = {}
    <3>1. names \cap r.distractors = {}
      BY <2>3, NoneExcluded
    <3>2. \A i \in DOMAIN r.clues : r.clues[i] \subseteq r.distractors
      BY <2>3, RungsStrikeDistractors
    <3> QED
      BY <3>2, <2>7, <3>1
  <2>9. AllAnswers(r) \subseteq {e.contributor : e \in r.evidence}
    BY <2>3, <2>7, EvidenceNames
  <2>10. endpoint_ids(r) \subseteq DOMAIN performs
    BY <1>1, <1>2
  <2>11. Fine(r)
    BY <2>2, <2>3, <2>7, <2>8, <2>9, <2>10
  <2>12. Exact(r)
    BY <2>3, <2>4, <2>6
  <2> QED
    BY <2>11, <2>12
<1>4. ASSUME NEW r \in rounds, r \in two_hop_candidates(cat) PROVE Fine(r) /\ Exact(r)
  <2>1. PICK p \in AllowedPairs(cat) \ one_hop_pairs(cat) : TwoHopOf(cat, p, r)
    BY <1>4, TwoHopCandidate
  <2> DEFINE first  == _shared_performers(cat, p[1], r.middle)
             second == _shared_performers(cat, r.middle, p[2])
             names  == Bridges(cat, p, r.middle)
  <2>2. p[1] \in cat.albums /\ p[2] \in cat.albums /\ r.middle \in middles(cat, p[1], p[2])
    BY <2>1, OneMiddle DEF AllowedPairs, TwoHopOf
  <2>3. first # {} /\ second # {}
    BY <2>2, Bridging
  <2>4. /\ r.kind = "two_hop" /\ r.endpoints = p /\ r.middle \in r.choices
        /\ r.distractors = _pick_distractors(cat, {p[1], r.middle, p[2]}, names)
        /\ r.clues = ClueLadder(r.distractors)
    BY <2>1 DEF TwoHopOf
  <2>5. /\ r.answers = [bridge_a |-> first, bridge_b |-> second]
        /\ r.evidence = Evidence(first, p[1], r.middle) \cup Evidence(second, r.middle, p[2])
    BY <2>1 DEF TwoHopOf
  <2>6. p[1] \in DOMAIN performs /\ p[2] \in DOMAIN performs /\ r.middle \in DOMAIN performs
    BY <1>1, <1>2, <2>4 DEF endpoint_ids
  <2>7. first = both(p[1], r.middle) /\ second = both(r.middle, p[2])
    BY <1>1, <2>6 DEF _shared_performers
  <2>8. both(p[1], p[2]) = {}
    <3>1. _shared_performers(cat, p[1], p[2]) = {}
      BY DEF one_hop_pairs
    <3> QED
      BY <1>1, <2>6, <3>1 DEF _shared_performers
  <2>9. names = first \cup second
    BY DEF Bridges
  <2>10. /\ first \subseteq {e.contributor : e \in Evidence(first, p[1], r.middle)}
         /\ second \subseteq {e.contributor : e \in Evidence(second, r.middle, p[2])}
    BY EvidenceNames
  <2> HIDE DEF first, second, names
  <2>11. AllAnswers(r) = names /\ \A s \in DOMAIN r.answers : r.answers[s] \in {first, second}
    BY <2>5, <2>9 DEF AllAnswers
  <2>12. /\ AllAnswers(r) \cap r.distractors = {}
         /\ \A i \in DOMAIN r.clues : r.clues[i] \cap AllAnswers(r) = {}
    <3>1. names \cap r.distractors = {}
      BY <2>4, NoneExcluded
    <3>2. \A i \in DOMAIN r.clues : r.clues[i] \subseteq r.distractors
      BY <2>4, RungsStrikeDistractors
    <3> QED
      BY <3>2, <2>11, <3>1
  <2>13. AllAnswers(r) \subseteq {e.contributor : e \in r.evidence}
    BY <2>5, <2>9, <2>10, <2>11
  <2>14. endpoint_ids(r) \subseteq DOMAIN performs
    BY <1>1, <1>2
  <2>15. Fine(r)
    BY <2>3, <2>4, <2>8, <2>11, <2>12, <2>13, <2>14
  <2>16. Exact(r)
    BY <2>4, <2>5, <2>7, <2>8
  <2> QED
    BY <2>15, <2>16
<1>5. \A r \in rounds : Fine(r) /\ Exact(r)
  BY <1>3, <1>4 DEF Candidates
<1>6. validate_connection_rounds_artifact(published)
  BY <1>1, <1>5 DEF validate_connection_rounds_artifact, performs
<1>7. connection_rounds_failures(published) = {}
  BY <1>1, <1>5 DEF connection_rounds_failures, performs
<1> QED
  BY <1>6, <1>7 DEF published

-----------------------------------------------------------------------------
(* Playing them.  That selection keeps candidates only is an induction over *)
(* the pool, and stays with TLC.                                            *)

USE DEF kind, Answers, Distractors, MiddleChoices, Middle, Clues

\* What the engine accepts on a contributor step is what the catalogue answers.
LEMMA TruthOfContributors ==
  ASSUME NEW cat \in Catalogs, round \in Candidates(cat), step \in Asks(kind),
         NEW c
  PROVE  IsAnswer(step, c) <=> TrulyAnswers(step, c)
<1>1. CASE round \in one_hop_candidates(cat)
  <2>0. PICK p \in one_hop_pairs(cat) : OneHopOf(cat, p, round)
    BY <1>1, OneHopCandidate
  <2>1. /\ round.kind = "one_hop" /\ round.endpoints = p /\ round.catalogue = cat
        /\ round.answers = [single |-> _shared_performers(cat, p[1], p[2])]
    BY <2>0 DEF OneHopOf
  <2>2. step = "single"
    BY <2>1 DEF Asks, Path, ContributorSteps
  <2>3. TrulyAnswers(step, c) <=> c \in Credited(Left, Right)
    BY <2>2 DEF TrulyAnswers
  <2> QED
    BY <2>1, <2>2, <2>3 DEF IsAnswer, Credited, Left, Right, _shared_performers
<1>2. CASE round \in two_hop_candidates(cat)
  <2>0. PICK p \in AllowedPairs(cat) \ one_hop_pairs(cat) : TwoHopOf(cat, p, round)
    BY <1>2, TwoHopCandidate
  <2>1. /\ round.kind = "two_hop" /\ round.endpoints = p /\ round.catalogue = cat
        /\ round.answers = [bridge_a |-> _shared_performers(cat, p[1], round.middle),
                            bridge_b |-> _shared_performers(cat, round.middle, p[2])]
    BY <2>0 DEF TwoHopOf
  <2>2. CASE step = "bridge_a"
    <3>1. TrulyAnswers(step, c) <=> c \in Credited(Left, Middle)
      BY <2>2 DEF TrulyAnswers
    <3> QED
      BY <2>1, <2>2, <3>1 DEF IsAnswer, Credited, Left, _shared_performers
  <2>3. CASE step = "bridge_b"
    <3>1. TrulyAnswers(step, c) <=> c \in Credited(Middle, Right)
      BY <2>3 DEF TrulyAnswers
    <3> QED
      BY <2>1, <2>3, <3>1 DEF IsAnswer, Credited, Right, _shared_performers
  <2> QED
    BY <2>1, <2>2, <2>3 DEF Asks, Path, ContributorSteps
<1> QED
  BY <1>1, <1>2 DEF Candidates

\* The hidden record joins the ends, and any other of the tray that does is kept
\* apart from one of them: among the pairs the generator may use there is one middle.
LEMMA TruthOfMiddles ==
  ASSUME NEW cat \in Catalogs, round \in Candidates(cat), kind = "two_hop",
         NEW c \in MiddleChoices
  PROVE  /\ c = Middle => TrulyAnswers("middle", c)
         /\ TrulyAnswers("middle", c) => c = Middle \/ KeptApart(c)
<1>0. round \in two_hop_candidates(cat)
  <2>1. ASSUME round \in one_hop_candidates(cat) PROVE round.kind = "one_hop"
    BY <2>1, OneHopCandidate DEF OneHopOf
  <2> QED
    BY <2>1 DEF Candidates
<1>a. PICK p \in AllowedPairs(cat) \ one_hop_pairs(cat) : TwoHopOf(cat, p, round)
  BY <1>0, TwoHopCandidate
<1>1. /\ Cardinality(middles(cat, p[1], p[2])) = 1
      /\ round.endpoints = p /\ round.catalogue = cat
      /\ round.middle = LowestId(middles(cat, p[1], p[2]))
      /\ round.choices = {round.middle} \cup FirstOf(cat.albums \ {p[1], p[2], round.middle}, 3)
  BY <1>a DEF TwoHopOf
<1>2. p[1] \in cat.albums /\ p[2] \in cat.albums
  BY DEF AllowedPairs
<1>3. middles(cat, p[1], p[2]) = {Middle}
  BY <1>1, OneMiddle
<1>4. /\ Middle \in cat.albums \ {p[1], p[2]}
      /\ _shared_performers(cat, p[1], Middle) # {} /\ _shared_performers(cat, Middle, p[2]) # {}
  BY <1>2, <1>3, Bridging
<1>5. c \in cat.albums \ {p[1], p[2]}
  <2>1. c = Middle \/ c \in cat.albums \ {p[1], p[2], Middle}
    BY <1>1, FirstOfSubset
  <2> QED
    BY <1>4, <2>1
<1>6. TrulyAnswers("middle", c)
        <=> _shared_performers(cat, p[1], c) # {} /\ _shared_performers(cat, c, p[2]) # {}
  <2>1. Credited(Right, c) = _shared_performers(cat, c, p[2])
    BY <1>1 DEF Credited, Right, _shared_performers
  <2>2. Credited(Left, c) = _shared_performers(cat, p[1], c)
    BY <1>1 DEF Credited, Left, _shared_performers
  <2> QED
    BY <2>1, <2>2 DEF TrulyAnswers
<1>7. ASSUME TrulyAnswers("middle", c), ~KeptApart(c) PROVE c = Middle
  <2>1. {p[1], c} \notin cat.family /\ {c, p[2]} \notin cat.family
    <3>1. {p[1], c} \notin cat.family /\ {p[2], c} \notin cat.family
      BY <1>1, <1>7 DEF KeptApart, Left, Right
    <3>2. {c, p[2]} = {p[2], c}
      OBVIOUS
    <3> QED
      BY <3>1, <3>2
  <2>2. Key(p[1], c) \in one_hop_pairs(cat) /\ Key(c, p[2]) \in one_hop_pairs(cat)
    BY <1>2, <1>5, <1>6, <1>7, <2>1, Connecting
  <2>3. c \in middles(cat, p[1], p[2])
    BY <1>5, <2>2 DEF middles
  <2> QED
    BY <1>3, <2>3
<1> QED
  BY <1>4, <1>6, <1>7

\* Whatever the catalogues, when the rounds in play are candidates of theirs, the
\* engine's verdicts are the catalogue's, a record kept apart from an end excepted.
THEOREM VerdictsFollowTheCatalogue ==
  ASSUME \A r \in Rounds : \E cat \in Catalogs : r \in Candidates(cat)
  PROVE  Spec => []OnlyFamilyIsStruck
<1>1. IInv => OnlyFamilyIsStruck
  <2> SUFFICES ASSUME IInv, NEW c \in Enabled(step)
               PROVE  /\ IsAnswer(step, c) => TrulyAnswers(step, c)
                      /\ TrulyAnswers(step, c) /\ ~IsAnswer(step, c)
                           => step = "middle" /\ KeptApart(c)
    BY DEF OnlyFamilyIsStruck
  <2>1. TypeOK /\ Progress /\ round \in Rounds
    BY DEF IInv, TypeOK
  <2>2. PICK cat \in Catalogs : round \in Candidates(cat)
    BY <2>1
  <2>3. CASE step = "middle"
    <3>1. kind = "two_hop" /\ c \in MiddleChoices
      BY <2>1, <2>3, StepAsked DEF Enabled, Tray
    <3>2. IsAnswer(step, c) <=> c = Middle
      BY <2>3 DEF IsAnswer
    <3> QED
      BY <2>2, <2>3, <3>1, <3>2, TruthOfMiddles
  <2>4. CASE step # "middle"
    BY <2>1, <2>2, <2>4, StepAsked, TruthOfContributors
  <2> QED
    BY <2>3, <2>4
<1> QED
  BY <1>1, Invariance, PTL
=============================================================================
