-------------------------- MODULE MCWorkbenchCache --------------------------
(* WorkbenchCache for TLC: two cache keys over one corpus root, the performer- *)
(* gated and the broader edge relation of the same corpus.                     *)
EXTENDS WorkbenchCache, TLC

CONSTANTS gated, broader, root

MCRootOf == [k \in Keys |-> root]

\* Request threads are interchangeable; used where no liveness is checked.
ThreadSymmetry == Permutations(Threads)

\* Bound: the corpus is rebuilt a second time, and what it held may come back, only
\* while every request is for the one view; with both views it is rebuilt once.
OneViewOrOneRebuild ==
  \/ \A t \in Threads : pc[t] # "new" => req[t] = gated
  \/ \A r \in Roots : rebuilds[r] = 0 \/ (rebuilds[r] = 1 /\ ~UnderRebuild(r))

WorkbenchSpec == Init /\ [][Next /\ OneViewOrOneRebuild']_vars
=============================================================================
