---------------------------- MODULE FrozenCalendar ----------------------------
(***************************************************************************)
(* What Connection of the Day's calendar of rounds keeps (ADR 0041, ADR    *)
(* 0066): it may grow, and days may be replaced that no player's clock had *)
(* reached on the day the change was made as of.  That is the day it is    *)
(* published, unless a migration names an earlier one and waits.  A        *)
(* player's local date is at most one day ahead of UTC.                    *)
(***************************************************************************)
EXTENDS Naturals

VARIABLES today,     \* the UTC date
          calendar,  \* scheduled date -> <<round, content>>
          asOf       \* the day the next change is made as of

Sound(c) ==
  /\ \A a, b \in DOMAIN c : a # b => c[a][1] # c[b][1]
  /\ \A a, b \in DOMAIN c : \A d \in a .. b : d \in DOMAIN c

Init == today = 0 /\ calendar = <<>> /\ asOf = 0

\* A migration names its day.
Name == asOf' \in 0 .. asOf /\ UNCHANGED <<today, calendar>>

Publish ==
  /\ Sound(calendar')
  /\ \A d \in DOMAIN calendar : d <= asOf + 1 =>
       /\ d \in DOMAIN calendar'
       /\ calendar'[d] = calendar[d]
  /\ asOf' = today
  /\ UNCHANGED today

Withdraw == asOf' = today /\ UNCHANGED <<today, calendar>>

\* A change that waits stays as of its day.
Tick ==
  /\ today' = today + 1
  /\ asOf' = asOf \/ (asOf = today /\ asOf' = today')
  /\ UNCHANGED calendar

Next == Name \/ Publish \/ Withdraw \/ Tick

Spec == Init /\ [][Next]_<<today, calendar, asOf>>
=============================================================================
