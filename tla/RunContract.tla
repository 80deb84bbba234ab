---------------------------- MODULE RunContract ----------------------------
(***************************************************************************)
(* What the job platform promises about a run (ADR 0034: "every run is     *)
(* immutable and provenance-bearing"): at most one execution ever produces *)
(* its outputs, they are never replaced or lost, and they are delivered to *)
(* the controller at most once and only when they exist.                   *)
(***************************************************************************)
EXTENDS Naturals

CONSTANTS Runs, MaxAttempts

VARIABLES
  produced,  \* per run: the execution whose outputs it has, 0 before
  delivered  \* per run: whether the controller has them

Init ==
  /\ produced = [r \in Runs |-> 0]
  /\ delivered = [r \in Runs |-> FALSE]

Complete(r, a) ==
  /\ produced[r] = 0
  /\ produced' = [produced EXCEPT ![r] = a]
  /\ UNCHANGED delivered

Deliver(r) ==
  /\ produced[r] # 0 /\ ~delivered[r]
  /\ delivered' = [delivered EXCEPT ![r] = TRUE]
  /\ UNCHANGED produced

Next == \E r \in Runs : Deliver(r) \/ \E a \in 1..MaxAttempts : Complete(r, a)

Spec == Init /\ [][Next]_<<produced, delivered>>
=============================================================================
