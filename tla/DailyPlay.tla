----------------------------- MODULE DailyPlay -----------------------------
(***************************************************************************)
(* Connection of the Day: pages of apps/web/src/game/flagship.ts open in   *)
(* several tabs of one browser, all recording into the one localStorage    *)
(* store of store.ts (totals, streak, and the result of every date).       *)
(*                                                                         *)
(* A page takes its date once, after its first fetches, checks once that   *)
(* the date was not played, and records the result when its round          *)
(* resolves.  What happens in between is RoundContract's: a page resolves   *)
(* its round at most once.  The player's clock (localIsoDate) moves on at  *)
(* midnight, and back or forth with the time zone.  load, recordDaily and  *)
(* save run in one synchronous callback, so Finish is atomic.              *)
(***************************************************************************)
EXTENDS Integers, FiniteSets

CONSTANTS Tabs,
          LastDay  \* bound: the dates the clock shows are 1..LastDay

ASSUME DailyAssumption == IsFiniteSet(Tabs) /\ LastDay \in Nat \ {0}

Days == 1..LastDay
Ratings == {"clean", "with_clues", "revealed"}
NoDay == -1        \* streak.lastDailyDate = null; no date is the day after it
NotPlayed == "none"

VARIABLES
  today,    \* localIsoDate(new Date())
  page,     \* per tab: closed, loading, resolving, playing, played, done or error
  date,     \* per tab: the page's isoDate
  daily,    \* store.daily: the rating recorded for each date
  streak,   \* store.streak
  totals,   \* store.totals
  plays,    \* history: how often each date was recorded
  everSolved, \* history: the dates once recorded as solved
  inOrder   \* history: every result was for a later date than those before it

storeVars == <<daily, streak, totals>>
historyVars == <<plays, everSolved, inOrder>>
dailyVars == <<today, page, date, storeVars, historyVars>>

Goto(t, from, to) == page[t] = from /\ page' = [page EXCEPT ![t] = to]

\* recordRound's part of recordDaily.
recordTotals(r) ==
  totals' = [played |-> totals.played + 1,
             revealed |-> totals.revealed + (IF r = "revealed" THEN 1 ELSE 0),
             solved |-> totals.solved + (IF r = "revealed" THEN 0 ELSE 1),
             clean |-> totals.clean + (IF r = "clean" THEN 1 ELSE 0)]

\* MUTANT of recordStreak: a revealed round leaves the streak running.
recordStreakForgiving(d, r) ==
  LET n == IF streak.last = d - 1 THEN streak.current + 1 ELSE 1
  IN  streak' = IF r = "revealed"
                THEN [streak EXCEPT !.last = d]
                ELSE [current |-> n, best |-> IF n > streak.best THEN n ELSE streak.best,
                      last |-> d]

\* MUTANT of recordStreak: compares with the date itself, not with the day before.
recordStreakSameDate(d, r) ==
  LET n == IF streak.last = d THEN streak.current + 1 ELSE 1
  IN  streak' = IF r = "revealed"
                THEN [streak EXCEPT !.current = 0, !.last = d]
                ELSE [current |-> n, best |-> IF n > streak.best THEN n ELSE streak.best,
                      last |-> d]

\* recordDaily: a solved date extends the streak of the date before it, or
\* starts one; a revealed date ends it.
recordStreak(d, r) ==
  LET n == IF streak.last = d - 1 THEN streak.current + 1 ELSE 1
  IN  streak' = IF r = "revealed"
                THEN [streak EXCEPT !.current = 0, !.last = d]
                ELSE [current |-> n, best |-> IF n > streak.best THEN n ELSE streak.best,
                      last |-> d]

-----------------------------------------------------------------------------
\* The page is opened or reloaded: initFlagship starts fetching.
Open(t) ==
  /\ page' = [page EXCEPT ![t] = "loading"]
  /\ UNCHANGED <<today, date, storeVars, historyVars>>

\* The rounds and the art registry are in: isoDate is fixed for this page.
TakeDate(t) ==
  /\ Goto(t, "loading", "resolving")
  /\ date' = [date EXCEPT ![t] = today]
  /\ UNCHANGED <<today, storeVars, historyVars>>

\* A fetch fails, or the manifest does not resolve the date: showStageError.
LoadFails(t) ==
  /\ page[t] \in {"loading", "resolving"}
  /\ page' = [page EXCEPT ![t] = "error"]
  /\ UNCHANGED <<today, date, storeVars, historyVars>>

\* The replay guard: a date with a result is not dealt again.
ReplayGuard(t) ==
  /\ Goto(t, "resolving", IF daily[date[t]] # NotPlayed THEN "played" ELSE "playing")
  /\ UNCHANGED <<today, date, storeVars, historyVars>>

\* MUTANT of Finish: the stored results of other dates are not carried over.
FinishForgetting(t, r) ==
  /\ Goto(t, "playing", "done")
  /\ daily' = [d \in Days |-> IF d = date[t] THEN r ELSE NotPlayed]
  /\ recordStreak(date[t], r) /\ recordTotals(r)
  /\ plays' = [plays EXCEPT ![date[t]] = @ + 1]
  /\ everSolved' = IF r = "revealed" THEN everSolved ELSE everSolved \cup {date[t]}
  /\ inOrder' = (inOrder /\ \A d \in Days : plays[d] > 0 => d < date[t])
  /\ UNCHANGED <<today, date>>

\* finishRound: the round resolved to r, and is recorded over whatever the
\* store holds now.
Finish(t, r) ==
  /\ Goto(t, "playing", "done")
  /\ daily' = [daily EXCEPT ![date[t]] = r]
  /\ recordStreak(date[t], r) /\ recordTotals(r)
  /\ plays' = [plays EXCEPT ![date[t]] = @ + 1]
  /\ everSolved' = IF r = "revealed" THEN everSolved ELSE everSolved \cup {date[t]}
  /\ inOrder' = (inOrder /\ \A d \in Days : plays[d] > 0 => d < date[t])
  /\ UNCHANGED <<today, date>>

\* Midnight, or another time zone.
ClockMoves ==
  /\ today' \in {today - 1, today + 1} \cap Days
  /\ UNCHANGED <<page, date, storeVars, historyVars>>

DailyInit ==
  /\ today = 1
  /\ page = [t \in Tabs |-> "closed"] /\ date = [t \in Tabs |-> 1]
  /\ daily = [d \in Days |-> NotPlayed]
  /\ streak = [current |-> 0, best |-> 0, last |-> NoDay]
  /\ totals = [played |-> 0, solved |-> 0, clean |-> 0, revealed |-> 0]
  /\ plays = [d \in Days |-> 0] /\ everSolved = {} /\ inOrder = TRUE

DailyNext ==
  \/ \E t \in Tabs : Open(t) \/ TakeDate(t) \/ LoadFails(t) \/ ReplayGuard(t)
  \/ \E t \in Tabs, r \in Ratings : Finish(t, r)
  \/ ClockMoves

DailySpec == DailyInit /\ [][DailyNext]_dailyVars

-----------------------------------------------------------------------------
(***************************************************************************)
(* Properties.                                                             *)
(***************************************************************************)
Pages == {"closed", "loading", "resolving", "playing", "played", "done", "error"}
Solved(d) == d \in Days /\ daily[d] \in {"clean", "with_clues"}

\* Every variable stays in its type.
DailyTypeOK ==
  /\ today \in Days /\ page \in [Tabs -> Pages] /\ date \in [Tabs -> Days]
  /\ daily \in [Days -> Ratings \cup {NotPlayed}]
  /\ streak \in [current : Nat, best : Nat, last : Days \cup {NoDay}]
  /\ totals \in [played : Nat, solved : Nat, clean : Nat, revealed : Nat]
  /\ plays \in [Days -> Nat] /\ everSolved \in SUBSET Days /\ inOrder \in BOOLEAN

\* The streak is never inflated, whatever tabs are left open over midnight and
\* in whatever order they finish: each of the `current` dates up to the last
\* recorded one stands in the store as solved.
StreakNeverInflated ==
  \A d \in (streak.last - streak.current + 1)..streak.last : Solved(d)

\* Played one page after the other, on later and later dates, the streak is
\* exact: the date before its first is not a solved one ("streak counts
\* consecutive solved daily dates", store.ts).
StreakExact == inOrder => ~Solved(streak.last - streak.current)

\* No result is lost to another tab's save: each date that was ever recorded is
\* still in the store, and so is the date of every page that was told so.
NoLostResult ==
  /\ \A d \in Days : plays[d] > 0 => daily[d] # NotPlayed
  /\ \A t \in Tabs : page[t] \in {"played", "done"} => daily[date[t]] # NotPlayed
=============================================================================
