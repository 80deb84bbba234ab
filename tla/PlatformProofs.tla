--------------------------- MODULE PlatformProofs ---------------------------
(***************************************************************************)
(* Machine-checked proofs about the job platform: client, queue, executor  *)
(* and staging (PlatformRun), for any number of runs, workers, outputs and *)
(* requeues; then the deployment of its runtime (PlatformDeploy), for any  *)
(* number of commits, runs and plays.                                      *)
(***************************************************************************)
EXTENDS PlatformRun, PlatformDeploy, TLAPS

\* The types the argument below needs.
FileTypes ==
  /\ step \in [Runs -> {"idle", "checking", "writing", "publishing", "published"}]
  /\ attempt \in [Runs -> Nat]
  /\ staging \in [Runs -> [Parts -> Nat]]
  /\ completed \in [Runs -> [Parts -> Nat]]

\* A run is executed for at least the first time while its work-horse lives.
Executing == \A r \in Runs : step[r] # "idle" => attempt[r] # 0

\* What an execution finds in its staging directory is its own: a directory an
\* earlier execution left behind keeps the handler from starting.  (That a client
\* never removes the directory under a running execution is not needed here.)
OwnStaging ==
  \A r \in Runs :
    /\ step[r] = "writing" => \A p \in Parts : staging[r][p] \in {Absent, attempt[r]}
    /\ step[r] = "publishing" =>
         staging[r] = NoFiles \/ \A p \in Parts : staging[r][p] = attempt[r]

\* The inductive invariant.
IInv == FileTypes /\ Executing /\ OwnStaging /\ CompletedWhole

\* Nothing has been executed at the start.
THEOREM InitIInv == Init => IInv
<1> SUFFICES ASSUME Init PROVE IInv
  OBVIOUS
<1> USE DEF Absent, NoFiles
<1>1. FileTypes
  BY DEF Init, FileTypes
<1>2. Executing /\ OwnStaging /\ CompletedWhole
  BY DEF Init, Executing, OwnStaging, CompletedWhole, Published
<1> QED
  BY <1>1, <1>2 DEF IInv

\* Most steps leave every file alone and move at most one execution, to a step
\* in which no file is claimed.
LEMMA FilesKept ==
  ASSUME IInv, UNCHANGED <<staging, completed>>,
         step' \in [Runs -> {"idle", "checking", "writing", "publishing", "published"}],
         attempt' \in [Runs -> Nat],
         \A r \in Runs : step'[r] # "idle" => attempt'[r] # 0,
         \A r \in Runs : step'[r] \in {"writing", "publishing"} =>
                           step'[r] = step[r] /\ attempt'[r] = attempt[r]
  PROVE  IInv'
<1>1. FileTypes'
  BY DEF IInv, FileTypes
<1>2. Executing'
  BY DEF Executing
<1>3. OwnStaging'
  BY DEF IInv, OwnStaging
<1>4. CompletedWhole'
  BY DEF IInv, CompletedWhole, Published
<1> QED
  BY <1>1, <1>2, <1>3, <1>4 DEF IInv

\* A client disturbs the files only when it removes the whole run directory.
LEMMA ClientIInv ==
  ASSUME NEW r \in Runs, IInv, Client(r)
  PROVE  IInv'
<1>1. CASE UNCHANGED <<step, attempt, staging, completed>>
  BY <1>1, FilesKept DEF IInv, FileTypes, Executing
<1>2. CASE RemoveRemote(r)
  <2>1. /\ UNCHANGED <<step, attempt>>
        /\ staging' = [staging EXCEPT ![r] = NoFiles]
        /\ completed' = [completed EXCEPT ![r] = NoFiles]
    BY <1>2 DEF RemoveRemote, jobVars
  <2>2. NoFiles \in [Parts -> Nat] /\ \A p \in Parts : NoFiles[p] = Absent
    BY DEF NoFiles, Absent
  <2>3. FileTypes' /\ Executing'
    BY <2>1, <2>2 DEF IInv, FileTypes, Executing
  <2>4. \A u \in Runs : staging'[u] = IF u = r THEN NoFiles ELSE staging[u]
    BY <2>1 DEF IInv, FileTypes
  <2>5. \A u \in Runs : completed'[u] = IF u = r THEN NoFiles ELSE completed[u]
    BY <2>1 DEF IInv, FileTypes
  <2>6. OwnStaging'
    BY <2>1, <2>2, <2>4 DEF IInv, OwnStaging, FileTypes
  <2>7. CompletedWhole'
    BY <2>5 DEF IInv, CompletedWhole, Published
  <2> QED
    BY <2>3, <2>6, <2>7 DEF IInv
<1> QED
  BY <1>1, <1>2 DEF Client, Submit, PollFinished, PollFailed, TimeOut, ClientStops,
     FetchOutput, PublishLocal, KeepRemote, jobVars, fileVars

\* A worker begins the next execution of a run.
LEMMA BeginIInv ==
  ASSUME NEW w \in Workers, IInv, Begin(w), Head(queue[w]) \in Runs
  PROVE  IInv'
<1> DEFINE r == Head(queue[w])
<1>1. /\ step' = [step EXCEPT ![r] = "checking"]
      /\ attempt' = [attempt EXCEPT ![r] = @ + 1]
      /\ UNCHANGED <<staging, completed>>
  BY DEF Begin, fileVars
<1>2. FileTypes /\ Executing
  BY DEF IInv
<1>3. step' \in [Runs -> {"idle", "checking", "writing", "publishing", "published"}]
  BY <1>1, <1>2 DEF FileTypes
<1>4. attempt' \in [Runs -> Nat] /\ attempt'[r] # 0
  BY <1>1, <1>2 DEF FileTypes
<1>5. \A u \in Runs : u # r => step'[u] = step[u] /\ attempt'[u] = attempt[u]
  BY <1>1, <1>2 DEF FileTypes
<1>6. step'[r] = "checking"
  BY <1>1, <1>2 DEF FileTypes
<1>7. \A u \in Runs : step'[u] # "idle" => attempt'[u] # 0
  BY <1>2, <1>4, <1>5 DEF Executing
<1>8. \A u \in Runs : step'[u] \in {"writing", "publishing"} =>
                         step'[u] = step[u] /\ attempt'[u] = attempt[u]
  BY <1>5, <1>6
<1> QED
  BY <1>1, <1>3, <1>4, <1>7, <1>8, FilesKept

\* An execution ends: by returning, by raising, or with its work-horse.
LEMMA EndIInv ==
  ASSUME NEW r \in Runs, IInv, Return(r) \/ Raise(r) \/ Crash(r)
  PROVE  IInv'
<1>1. /\ step' = [step EXCEPT ![r] = "idle"]
      /\ UNCHANGED <<attempt, staging, completed>>
  BY DEF Return, Raise, Crash, FreeWorker, fileVars
<1> QED
  BY <1>1, FilesKept DEF IInv, FileTypes, Executing

\* Only a run without a staging directory starts its handler.
LEMMA StartIInv ==
  ASSUME NEW r \in Runs, IInv, StartHandler(r)
  PROVE  IInv'
<1>1. /\ step[r] = "checking" /\ step' = [step EXCEPT ![r] = "writing"]
      /\ staging[r] = NoFiles
      /\ UNCHANGED <<attempt, staging, completed>>
  BY DEF StartHandler, Does, fileVars
<1>2. FileTypes' /\ Executing'
  BY <1>1 DEF IInv, FileTypes, Executing
<1>3. \A p \in Parts : staging[r][p] = Absent
  BY <1>1 DEF NoFiles
<1>4. step'[r] = "writing" /\ \A u \in Runs : u # r => step'[u] = step[u]
  BY <1>1 DEF IInv, FileTypes
<1>5. OwnStaging'
  BY <1>1, <1>3, <1>4 DEF IInv, OwnStaging
<1>6. CompletedWhole'
  BY <1>1 DEF IInv, CompletedWhole, Published
<1> QED
  BY <1>2, <1>5, <1>6 DEF IInv

\* Writing an output, or the result record, in the staging directory.
LEMMA WriteIInv ==
  ASSUME NEW r \in Runs, IInv,
         (\E p \in Outputs : WriteOutput(r, p)) \/ SaveResult(r)
  PROVE  IInv'
<1>0. PICK p \in Parts :
        /\ step[r] = "writing"
        /\ staging' = [staging EXCEPT ![r][p] = attempt[r]]
        /\ \/ step' = step
           \/ /\ step' = [step EXCEPT ![r] = "publishing"]
              /\ p = "result.json" /\ \A q \in Outputs : staging[r][q] = attempt[r]
        /\ UNCHANGED <<attempt, completed>>
  BY DEF WriteOutput, SaveResult, Does, Parts, jobVars
<1>1. FileTypes /\ Executing /\ OwnStaging
  BY DEF IInv
<1>2. attempt[r] \in Nat /\ staging[r] \in [Parts -> Nat]
  BY <1>1 DEF FileTypes
<1>3. FileTypes' /\ Executing'
  BY <1>0, <1>1, <1>2 DEF FileTypes, Executing
<1>4. /\ \A q \in Parts : staging'[r][q] = IF q = p THEN attempt[r] ELSE staging[r][q]
      /\ \A u \in Runs : u # r => staging'[u] = staging[u] /\ step'[u] = step[u]
  BY <1>0, <1>1 DEF FileTypes
<1>5. \A q \in Parts : staging'[r][q] \in {Absent, attempt[r]}
  BY <1>0, <1>1, <1>4 DEF OwnStaging
<1>6. step'[r] = "publishing" => \A q \in Parts : staging'[r][q] = attempt[r]
  BY <1>0, <1>1, <1>4 DEF Parts, FileTypes
<1>7. OwnStaging'
  BY <1>0, <1>1, <1>4, <1>5, <1>6 DEF OwnStaging
<1>8. CompletedWhole'
  BY <1>0 DEF IInv, CompletedWhole, Published
<1> QED
  BY <1>3, <1>7, <1>8 DEF IInv

\* The staging directory of one whole execution becomes the completed one.
LEMMA PublishIInv ==
  ASSUME NEW r \in Runs, IInv, Publish(r)
  PROVE  IInv'
<1>1. /\ step[r] = "publishing" /\ step' = [step EXCEPT ![r] = "published"]
      /\ completed' = [completed EXCEPT ![r] = staging[r]]
      /\ staging' = [staging EXCEPT ![r] = NoFiles]
      /\ UNCHANGED attempt
  BY DEF Publish, Does
<1>2. FileTypes /\ Executing /\ OwnStaging /\ CompletedWhole
  BY DEF IInv
<1>3. NoFiles \in [Parts -> Nat]
  BY DEF NoFiles, Absent
<1>4. FileTypes' /\ Executing'
  BY <1>1, <1>2, <1>3 DEF FileTypes, Executing
<1>5. /\ step'[r] = "published" /\ completed'[r] = staging[r]
      /\ \A u \in Runs : u # r => /\ step'[u] = step[u] /\ staging'[u] = staging[u]
                                  /\ completed'[u] = completed[u]
  BY <1>1, <1>2 DEF FileTypes
<1>6. OwnStaging'
  BY <1>1, <1>2, <1>5 DEF OwnStaging
<1>7. staging[r] # NoFiles =>
        \A p \in Parts : staging[r][p] = staging[r]["result.json"] /\ staging[r][p] # Absent
  BY <1>1, <1>2 DEF OwnStaging, Executing, Parts, Absent
<1>8. CompletedWhole'
  BY <1>2, <1>5, <1>7 DEF CompletedWhole, Published
<1> QED
  BY <1>4, <1>6, <1>8 DEF IInv

\* Requeueing moves no file and no execution.
LEMMA RequeueIInv ==
  ASSUME NEW r \in Runs, IInv, Requeue(r)
  PROVE  IInv'
<1>1. UNCHANGED <<step, attempt, staging, completed>>
  BY DEF Requeue, fileVars
<1> QED
  BY <1>1, FilesKept DEF IInv, FileTypes, Executing

\* The queues hold runs, so that a worker takes a run.
QueueTypes == queue \in [Workers -> Seq(Runs)]

\* Every step keeps the queues well typed.
LEMMA QueuesTyped == QueueTypes /\ [Next]_vars => QueueTypes'
<1> SUFFICES ASSUME QueueTypes, [Next]_vars PROVE QueueTypes'
  OBVIOUS
<1>1. CASE UNCHANGED queue
  BY <1>1 DEF QueueTypes
<1>2. ASSUME NEW r \in Runs, NEW w \in Workers, Submit(r, w) PROVE QueueTypes'
  <2>1. Append(queue[w], r) \in Seq(Runs)
    BY DEF QueueTypes
  <2> QED
    BY <1>2, <2>1 DEF Submit, QueueTypes
<1>3. ASSUME NEW r \in Runs, Requeue(r) PROVE QueueTypes'
  <2>1. host[r] \in Workers => Append(queue[host[r]], r) \in Seq(Runs)
    BY DEF QueueTypes
  <2> QED
    BY <1>3, <2>1 DEF Requeue, QueueTypes
<1>4. ASSUME NEW w \in Workers, Begin(w) PROVE QueueTypes'
  <2>1. queue[w] \in Seq(Runs) /\ queue[w] # <<>>
    BY <1>4 DEF Begin, QueueTypes
  <2>2. Tail(queue[w]) \in Seq(Runs)
    BY <2>1
  <2>3. queue' = [queue EXCEPT ![w] = Tail(@)]
    BY <1>4 DEF Begin
  <2> QED
    BY <2>2, <2>3 DEF QueueTypes
<1>5. ASSUME NEW r \in Runs, Client(r), ~\E w \in Workers : Submit(r, w)
      PROVE  UNCHANGED queue
  BY <1>5 DEF Client, PollFinished, PollFailed, TimeOut, ClientStops, FetchOutput,
     PublishLocal, RemoveRemote, KeepRemote, jobVars
<1>6. ASSUME NEW r \in Runs, Execute(r) \/ Crash(r) PROVE UNCHANGED queue
  BY <1>6 DEF Execute, Crash, StartHandler, SaveResult, Publish, Return, Raise,
     WriteOutput, jobVars
<1>7. CASE UNCHANGED vars
  BY <1>1, <1>7 DEF vars, jobVars
<1> QED
  BY <1>1, <1>2, <1>3, <1>4, <1>5, <1>6, <1>7 DEF Next

\* Together the two are inductive.
THEOREM NextIInv == IInv /\ QueueTypes /\ [Next]_vars => (IInv /\ QueueTypes)'
<1> SUFFICES ASSUME IInv, QueueTypes, [Next]_vars PROVE IInv'
  BY QueuesTyped
<1>1. CASE UNCHANGED vars
  <2>1. UNCHANGED <<step, attempt, staging, completed>>
    BY <1>1 DEF vars, jobVars, fileVars
  <2> QED
    BY <2>1, FilesKept DEF IInv, FileTypes, Executing
<1>2. ASSUME NEW w \in Workers, Begin(w) PROVE IInv'
  <2>1. Head(queue[w]) \in Runs
    BY <1>2 DEF Begin, QueueTypes
  <2> QED
    BY <1>2, <2>1, BeginIInv
<1>3. ASSUME NEW r \in Runs, Execute(r) PROVE IInv'
  BY <1>3, StartIInv, WriteIInv, PublishIInv, EndIInv DEF Execute
<1> QED
  BY <1>1, <1>2, <1>3, ClientIInv, EndIInv, RequeueIInv DEF Next

\* Every reachable state satisfies the invariant.
THEOREM Invariance == Spec => [](IInv /\ QueueTypes)
<1>1. Init => QueueTypes
  BY DEF Init, QueueTypes
<1> QED
  BY <1>1, InitIInv, NextIInv, PTL DEF Spec

\* However often a run crashes and is requeued, a completed directory is the
\* whole work of one execution.
THEOREM CompletedIsWhole == Spec => []CompletedWhole
<1>1. IInv => CompletedWhole
  BY DEF IInv
<1> QED
  BY <1>1, Invariance, PTL

-----------------------------------------------------------------------------
(***************************************************************************)
(* The life of a run, across its client, its job and its files.            *)
(***************************************************************************)

\* The completed directory is the work of the execution the job reported.
Holds(r) == \A p \in Parts : completed[r][p] = result[r]

\* Only a started job executes, and a published execution left its own files.
JobInv(r) ==
  /\ job[r] = "none" => attempt[r] = 0
  /\ job[r] = "queued" => attempt[r] < MaxAttempts
  /\ step[r] # "idle" => job[r] = "started" /\ attempt[r] # 0
  /\ step[r] = "publishing" => \A p \in Parts : staging[r][p] = attempt[r]
  /\ step[r] = "published" => \A p \in Parts : completed[r][p] = attempt[r]
  /\ job[r] = "finished" => result[r] # 0 /\ (Holds(r) \/ (local[r] /\ ~Published(r)))

\* A client fetches from a finished job, and keeps what the job reported.
ClientInv(r) ==
  /\ client[r] = "new" => job[r] = "none"
  /\ client[r] \in {"fetching", "fetched"} => job[r] = "finished"
  /\ client[r] \in {"new", "waiting"} => \A p \in Outputs : fetched[r][p] = Absent
  /\ client[r] \in {"new", "waiting", "fetching"} => ~local[r]
  /\ client[r] = "fetching" => \A p \in Outputs : fetched[r][p] \in {Absent, result[r]}
  /\ client[r] = "fetched" => local[r]
  /\ local[r] => job[r] = "finished" /\ fetched[r] = [p \in Outputs |-> result[r]]

\* Only queued runs stand in a queue, and each once.
QueueInv ==
  /\ \A w \in Workers : \A i \in 1..Len(queue[w]) : job[queue[w][i]] = "queued"
  /\ \A v, w \in Workers : \A i \in 1..Len(queue[v]), j \in 1..Len(queue[w]) :
       queue[v][i] = queue[w][j] => v = w /\ i = j

\* The second inductive invariant.
LifeInv == TypeOK /\ QueueInv /\ \A r \in Runs : JobInv(r) /\ ClientInv(r)

\* Nothing was submitted at the start.
THEOREM InitLifeInv == Init => LifeInv
<1> SUFFICES ASSUME Init PROVE LifeInv
  OBVIOUS
<1>1. TypeOK
  BY PlatformAssumption DEF Init, TypeOK, NoFiles, Absent, Damaged
<1>2. QueueInv
  BY DEF Init, QueueInv
<1>3. \A r \in Runs : JobInv(r) /\ ClientInv(r)
  BY DEF Init, JobInv, ClientInv, Absent
<1> QED
  BY <1>1, <1>2, <1>3 DEF LifeInv

\* A run nothing happens to keeps its invariant.
LEMMA RunKept ==
  ASSUME NEW u \in Runs, JobInv(u), ClientInv(u),
         client'[u] = client[u], job'[u] = job[u], result'[u] = result[u],
         step'[u] = step[u], attempt'[u] = attempt[u], staging'[u] = staging[u],
         completed'[u] = completed[u], fetched'[u] = fetched[u], local'[u] = local[u]
  PROVE  JobInv(u)' /\ ClientInv(u)'
BY DEF JobInv, ClientInv, Holds, Published

\* The steps that touch no queue and no queued job.
LEMMA QueueKept ==
  ASSUME LifeInv, queue' = queue, \A r \in Runs : job[r] = "queued" => job'[r] = "queued"
  PROVE  QueueInv'
<1>1. \A w \in Workers : \A i \in 1..Len(queue[w]) : queue[w][i] \in Runs
  BY DEF LifeInv, TypeOK
<1> QED
  BY <1>1 DEF LifeInv, QueueInv

\* The client's steps that move no file.
LEMMA ClientMoves ==
  ASSUME LifeInv, NEW r \in Runs,
         \/ PollFinished(r) \/ PollFailed(r) \/ TimeOut(r) \/ ClientStops(r) \/ KeepRemote(r)
  PROVE  LifeInv'
<1>1. PICK to \in {"fetching", "error", "over"} :
        /\ client' = [client EXCEPT ![r] = to]
        /\ to = "fetching" => client[r] = "waiting" /\ job[r] = "finished"
        /\ UNCHANGED <<host, fetched, local, jobVars, fileVars>>
  BY DEF PollFinished, PollFailed, TimeOut, ClientStops, KeepRemote, At
<1>2. TypeOK'
  BY <1>1 DEF LifeInv, TypeOK, jobVars, fileVars
<1>3. QueueInv'
  BY <1>1, QueueKept DEF jobVars
<1>4. JobInv(r)' /\ ClientInv(r)'
  BY <1>1 DEF LifeInv, TypeOK, JobInv, ClientInv, Holds, Published, jobVars, fileVars
<1>5. \A u \in Runs \ {r} : JobInv(u)' /\ ClientInv(u)'
  BY <1>1, RunKept DEF LifeInv, TypeOK, jobVars, fileVars
<1> QED
  BY <1>2, <1>3, <1>4, <1>5 DEF LifeInv

\* An output is fetched from the directory the job reported, and verified.
LEMMA ClientFetches ==
  ASSUME LifeInv, NEW r \in Runs, NEW p \in Outputs, FetchOutput(r, p)
  PROVE  LifeInv'
<1>1. PICK f \in {completed[r][p], Damaged} :
        /\ client[r] = "fetching"
        /\ fetched' = [fetched EXCEPT ![r][p] = f]
        /\ client' = [client EXCEPT ![r] = IF f = result[r] THEN @ ELSE "error"]
        /\ UNCHANGED <<host, local, jobVars, fileVars>>
  BY DEF FetchOutput
<1>2. f \in 0..Damaged
  BY PlatformAssumption DEF LifeInv, TypeOK, Damaged, Parts
<1>3. TypeOK'
  BY <1>1, <1>2 DEF LifeInv, TypeOK, jobVars, fileVars
<1>4. QueueInv'
  BY <1>1, QueueKept DEF jobVars
<1>5. JobInv(r)' /\ ClientInv(r)'
  BY <1>1 DEF LifeInv, TypeOK, JobInv, ClientInv, Holds, Published, jobVars, fileVars
<1>6. \A u \in Runs \ {r} : JobInv(u)' /\ ClientInv(u)'
  BY <1>1, RunKept DEF LifeInv, TypeOK, jobVars, fileVars
<1> QED
  BY <1>3, <1>4, <1>5, <1>6 DEF LifeInv

\* The verified outputs become the controller's completed directory.
LEMMA ClientPublishes ==
  ASSUME LifeInv, NEW r \in Runs, PublishLocal(r)
  PROVE  LifeInv'
<1>1. /\ client[r] = "fetching" /\ client' = [client EXCEPT ![r] = "fetched"]
      /\ \A p \in Outputs : fetched[r][p] # Absent
      /\ local' = [local EXCEPT ![r] = TRUE]
      /\ UNCHANGED <<host, fetched, jobVars, fileVars>>
  BY DEF PublishLocal, At
<1>2. TypeOK'
  BY <1>1 DEF LifeInv, TypeOK, jobVars, fileVars
<1>3. QueueInv'
  BY <1>1, QueueKept DEF jobVars
<1>4. fetched[r] = [p \in Outputs |-> result[r]]
  BY <1>1 DEF LifeInv, TypeOK, ClientInv
<1>5. JobInv(r)' /\ ClientInv(r)'
  BY <1>1, <1>4 DEF LifeInv, TypeOK, JobInv, ClientInv, Holds, Published, jobVars, fileVars
<1>6. \A u \in Runs \ {r} : JobInv(u)' /\ ClientInv(u)'
  BY <1>1, RunKept DEF LifeInv, TypeOK, jobVars, fileVars
<1> QED
  BY <1>2, <1>3, <1>5, <1>6 DEF LifeInv

\* The remote directory goes only after the local one is there.
LEMMA ClientRemoves ==
  ASSUME LifeInv, NEW r \in Runs, RemoveRemote(r)
  PROVE  LifeInv'
<1>1. /\ client[r] = "fetched" /\ client' = [client EXCEPT ![r] = "over"]
      /\ staging' = [staging EXCEPT ![r] = NoFiles]
      /\ completed' = [completed EXCEPT ![r] = NoFiles]
      /\ failed' = [failed EXCEPT ![r] = FALSE]
      /\ UNCHANGED <<host, fetched, local, jobVars>>
  BY DEF RemoveRemote, At
<1>2. NoFiles \in [Parts -> 0..MaxAttempts]
  BY PlatformAssumption DEF NoFiles, Absent
<1>3. TypeOK'
  BY <1>1, <1>2 DEF LifeInv, TypeOK, jobVars
<1>4. QueueInv'
  BY <1>1, QueueKept DEF jobVars
<1>5. local[r] /\ job[r] = "finished" /\ step[r] = "idle"
  BY <1>1 DEF LifeInv, ClientInv, JobInv
<1>6. ~Published(r)'
  BY <1>1 DEF Published, LifeInv, TypeOK
<1>7. JobInv(r)' /\ ClientInv(r)'
  BY <1>1, <1>5, <1>6 DEF LifeInv, TypeOK, JobInv, ClientInv, jobVars
<1>8. \A u \in Runs \ {r} : JobInv(u)' /\ ClientInv(u)'
  BY <1>1, RunKept DEF LifeInv, TypeOK, jobVars
<1> QED
  BY <1>3, <1>4, <1>7, <1>8 DEF LifeInv

\* A run that stands in no queue joins one, once.
LEMMA Enqueued ==
  ASSUME LifeInv, NEW r \in Runs, NEW x, job[r] # "queued",
         queue' = [queue EXCEPT ![x] = Append(@, r)],
         job' = [job EXCEPT ![r] = "queued"]
  PROVE  queue' \in [Workers -> Seq(Runs)] /\ QueueInv'
<1>1. /\ queue \in [Workers -> Seq(Runs)]
      /\ job \in [Runs -> {"none", "queued", "started", "finished", "failed"}]
  BY DEF LifeInv, TypeOK
<1>2. CASE x \notin Workers
  <2>1. queue' = queue
    BY <1>1, <1>2
  <2> QED
    BY <1>1, <2>1, QueueKept
<1>3. CASE x \in Workers
  <2>1. queue' \in [Workers -> Seq(Runs)]
    BY <1>1, <1>3
  <2>2. \A w \in Workers : \A i \in 1..Len(queue[w]) :
          queue[w][i] \in Runs /\ job[queue[w][i]] = "queued" /\ queue[w][i] # r
    BY <1>1 DEF LifeInv, QueueInv
  <2>3. \A w \in Workers : w # x => queue'[w] = queue[w]
    BY <1>1, <1>3
  <2>4. /\ Len(queue[x]) \in Nat /\ Len(queue'[x]) = Len(queue[x]) + 1
        /\ queue'[x][Len(queue[x]) + 1] = r
        /\ \A i \in 1..Len(queue[x]) : queue'[x][i] = queue[x][i]
    BY <1>1, <1>3
  <2>5. \A w \in Workers : \A i \in 1..Len(queue'[w]) :
          \/ i \in 1..Len(queue[w]) /\ queue'[w][i] = queue[w][i]
          \/ w = x /\ i = Len(queue[x]) + 1 /\ queue'[w][i] = r
    BY <2>3, <2>4
  <2>6. \A w \in Workers : \A i \in 1..Len(queue'[w]) : job'[queue'[w][i]] = "queued"
    BY <1>1, <2>2, <2>5
  <2>7. \A v, w \in Workers : \A i \in 1..Len(queue'[v]), j \in 1..Len(queue'[w]) :
          queue'[v][i] = queue'[w][j] => v = w /\ i = j
    BY <2>2, <2>5 DEF LifeInv, QueueInv
  <2> QED
    BY <2>1, <2>6, <2>7 DEF QueueInv
<1> QED
  BY <1>2, <1>3

\* A new run is queued for its first execution.
LEMMA SubmitLife ==
  ASSUME LifeInv, NEW r \in Runs, NEW w \in Workers, Submit(r, w)
  PROVE  LifeInv'
<1>1. /\ client[r] = "new" /\ client' = [client EXCEPT ![r] = "waiting"]
      /\ host' = [host EXCEPT ![r] = w]
      /\ job' = [job EXCEPT ![r] = "queued"]
      /\ queue' = [queue EXCEPT ![w] = Append(@, r)]
      /\ UNCHANGED <<fetched, local, result, running, step, attempt, fileVars>>
  BY DEF Submit, At
<1>2. job[r] = "none" /\ attempt[r] = 0
  BY <1>1 DEF LifeInv, ClientInv, JobInv
<1>3. queue' \in [Workers -> Seq(Runs)] /\ QueueInv'
  BY <1>1, <1>2, Enqueued
<1>4. TypeOK'
  BY <1>1, <1>3 DEF LifeInv, TypeOK, fileVars
<1>5. JobInv(r)' /\ ClientInv(r)'
  BY <1>1, <1>2, PlatformAssumption
  DEF LifeInv, TypeOK, JobInv, ClientInv, Holds, Published, fileVars
<1>6. \A u \in Runs \ {r} : JobInv(u)' /\ ClientInv(u)'
  BY <1>1, RunKept DEF LifeInv, TypeOK, fileVars
<1> QED
  BY <1>3, <1>4, <1>5, <1>6 DEF LifeInv

\* A failed run is queued for another execution.
LEMMA RequeueLife ==
  ASSUME LifeInv, NEW r \in Runs, Requeue(r)
  PROVE  LifeInv'
<1>1. /\ job[r] = "failed" /\ attempt[r] < MaxAttempts
      /\ job' = [job EXCEPT ![r] = "queued"]
      /\ queue' = [queue EXCEPT ![host[r]] = Append(@, r)]
      /\ UNCHANGED <<clientVars, result, running, step, attempt, fileVars>>
  BY DEF Requeue
<1>2. queue' \in [Workers -> Seq(Runs)] /\ QueueInv'
  BY <1>1, Enqueued
<1>3. TypeOK'
  BY <1>1, <1>2 DEF LifeInv, TypeOK, clientVars, fileVars
<1>4. JobInv(r)' /\ ClientInv(r)'
  BY <1>1 DEF LifeInv, TypeOK, JobInv, ClientInv, Holds, Published, clientVars, fileVars
<1>5. \A u \in Runs \ {r} : JobInv(u)' /\ ClientInv(u)'
  BY <1>1, RunKept DEF LifeInv, TypeOK, clientVars, fileVars
<1> QED
  BY <1>2, <1>3, <1>4, <1>5 DEF LifeInv

\* A worker takes the first run of its queue: it stands in no queue any more.
LEMMA BeginLife ==
  ASSUME LifeInv, NEW w \in Workers, Begin(w)
  PROVE  LifeInv'
<1>0. queue \in [Workers -> Seq(Runs)] /\ QueueInv
  BY DEF LifeInv, TypeOK
<1>1. PICK r \in Runs : r = Head(queue[w])
  BY <1>0 DEF Begin
<1>2. /\ queue[w] # <<>>
      /\ queue' = [queue EXCEPT ![w] = Tail(@)]
      /\ running' = [running EXCEPT ![w] = r]
      /\ job' = [job EXCEPT ![r] = "started"]
      /\ step' = [step EXCEPT ![r] = "checking"]
      /\ attempt' = [attempt EXCEPT ![r] = @ + 1]
      /\ UNCHANGED <<clientVars, result, fileVars>>
  BY <1>1 DEF Begin
<1>3. queue[w] \in Seq(Runs) /\ Len(queue[w]) \in Nat \ {0} /\ r = queue[w][1]
  BY <1>0, <1>1, <1>2
<1>4. job[r] = "queued"
  BY <1>0, <1>3 DEF QueueInv
<1>5. JobInv(r) /\ ClientInv(r)
  BY <1>3 DEF LifeInv
<1>6. TypeOK'
  <2>1. Tail(queue[w]) \in Seq(Runs)
    BY <1>3
  <2>2. attempt[r] + 1 \in 0..MaxAttempts
    BY <1>3, <1>4, <1>5, PlatformAssumption DEF JobInv, LifeInv, TypeOK
  <2> QED
    BY <1>2, <1>3, <2>1, <2>2 DEF LifeInv, TypeOK, clientVars, fileVars
<1>7. QueueInv'
  <2>1. \A v \in Workers : v # w => queue'[v] = queue[v]
    BY <1>0, <1>2
  <2>2. /\ Len(queue'[w]) = Len(queue[w]) - 1
        /\ \A i \in 1..Len(queue'[w]) :
             i + 1 \in 1..Len(queue[w]) /\ queue'[w][i] = queue[w][i + 1]
    BY <1>0, <1>2, <1>3
  <2> DEFINE Was(v, i) == IF v = w THEN i + 1 ELSE i
  <2>3. \A v \in Workers : \A i \in 1..Len(queue'[v]) :
          Was(v, i) \in 1..Len(queue[v]) /\ queue'[v][i] = queue[v][Was(v, i)]
    BY <2>1, <2>2
  <2>4. ASSUME NEW v \in Workers, NEW i \in 1..Len(queue'[v])
        PROVE  queue'[v][i] # r /\ queue'[v][i] \in Runs /\ job[queue'[v][i]] = "queued"
    <3>1. v = w => Was(v, i) # 1
      OBVIOUS
    <3> HIDE DEF Was
    <3>2. Was(v, i) \in 1..Len(queue[v]) /\ queue'[v][i] = queue[v][Was(v, i)]
      BY <2>3
    <3>3. queue[v] \in Seq(Runs) /\ 1 \in 1..Len(queue[w])
      BY <1>0, <1>3
    <3>4. job[queue[v][Was(v, i)]] = "queued" /\ queue[v][Was(v, i)] \in Runs
      BY <1>0, <3>2, <3>3 DEF QueueInv
    <3>5. queue[v][Was(v, i)] # queue[w][1]
      BY <1>0, <3>1, <3>2, <3>3 DEF QueueInv
    <3> QED
      BY <1>3, <3>2, <3>4, <3>5
  <2>5. \A u \in Runs : u # r => job'[u] = job[u]
    BY <1>2, <1>3 DEF LifeInv, TypeOK
  <2>6. \A v \in Workers : \A i \in 1..Len(queue'[v]) : job'[queue'[v][i]] = "queued"
    BY <2>4, <2>5 DEF LifeInv, TypeOK
  <2>7. ASSUME NEW x \in Workers, NEW v \in Workers,
               NEW i \in 1..Len(queue'[x]), NEW j \in 1..Len(queue'[v]),
               queue'[x][i] = queue'[v][j]
        PROVE  x = v /\ i = j
    <3> HIDE DEF Was
    <3>1. /\ Was(x, i) \in 1..Len(queue[x]) /\ Was(v, j) \in 1..Len(queue[v])
          /\ queue[x][Was(x, i)] = queue[v][Was(v, j)]
      BY <2>3, <2>7
    <3>2. x = v /\ Was(x, i) = Was(v, j)
      BY <1>0, <3>1 DEF QueueInv
    <3> QED
      BY <3>2 DEF Was
  <2> QED
    BY <2>6, <2>7 DEF QueueInv
<1>8. JobInv(r)' /\ ClientInv(r)'
  <2>1. /\ job'[r] = "started" /\ step'[r] = "checking" /\ attempt'[r] = attempt[r] + 1
        /\ attempt[r] \in Nat
    BY <1>2, <1>3 DEF LifeInv, TypeOK
  <2>2. JobInv(r)'
    BY <2>1 DEF JobInv
  <2>3. ClientInv(r)'
    BY <1>2, <1>4, <1>5, <2>1 DEF ClientInv, clientVars
  <2> QED
    BY <2>2, <2>3
<1>9. \A u \in Runs \ {r} : JobInv(u)' /\ ClientInv(u)'
  BY <1>2, <1>3, RunKept DEF LifeInv, TypeOK, clientVars, fileVars
<1> QED
  BY <1>6, <1>7, <1>8, <1>9 DEF LifeInv

\* The steps of an execution leave the job started and its client alone.
LEMMA ExecutionLife ==
  ASSUME LifeInv, NEW r \in Runs, step[r] # "idle",
         UNCHANGED <<clientVars, queue, job, result, running, attempt, failed>>,
         NEW to \in {"writing", "publishing", "published"},
         step' = [step EXCEPT ![r] = to],
         staging' \in [Runs -> [Parts -> 0..MaxAttempts]],
         completed' \in [Runs -> [Parts -> 0..MaxAttempts]],
         \A u \in Runs \ {r} : staging'[u] = staging[u] /\ completed'[u] = completed[u],
         to = "publishing" => \A p \in Parts : staging'[r][p] = attempt[r],
         to = "published" => \A p \in Parts : completed'[r][p] = attempt[r]
  PROVE  LifeInv'
<1>1. TypeOK'
  BY DEF LifeInv, TypeOK, clientVars
<1>2. QueueInv'
  BY QueueKept
<1>3. job[r] = "started" /\ attempt[r] # 0 /\ ClientInv(r)
  BY DEF LifeInv, JobInv
<1>4. JobInv(r)' /\ ClientInv(r)'
  BY <1>3 DEF LifeInv, TypeOK, JobInv, ClientInv, clientVars
<1>5. \A u \in Runs \ {r} : JobInv(u)' /\ ClientInv(u)'
  BY RunKept DEF LifeInv, TypeOK, clientVars
<1> QED
  BY <1>1, <1>2, <1>4, <1>5 DEF LifeInv

\* Starting, writing, recording and publishing are such steps.
LEMMA ExecuteLife ==
  ASSUME LifeInv, NEW r \in Runs,
         \/ StartHandler(r) \/ SaveResult(r) \/ Publish(r)
         \/ \E p \in Outputs : WriteOutput(r, p)
  PROVE  LifeInv'
<1>0. TypeOK /\ JobInv(r)
  BY DEF LifeInv
<1>1. CASE StartHandler(r)
  <2>1. /\ step[r] # "idle" /\ step' = [step EXCEPT ![r] = "writing"]
        /\ UNCHANGED <<clientVars, queue, job, result, running, attempt, fileVars>>
    BY <1>1 DEF StartHandler, Does
  <2> QED
    BY <1>0, <2>1, ExecutionLife DEF TypeOK, fileVars
<1>2. CASE \E p \in Outputs : WriteOutput(r, p)
  <2>1. PICK p \in Outputs : WriteOutput(r, p)
    BY <1>2
  <2>2. /\ step[r] = "writing" /\ step' = [step EXCEPT ![r] = "writing"]
        /\ staging' = [staging EXCEPT ![r][p] = attempt[r]]
        /\ UNCHANGED <<clientVars, queue, job, result, running, attempt, completed, failed>>
    BY <1>0, <2>1 DEF WriteOutput, jobVars, TypeOK
  <2>3. staging' \in [Runs -> [Parts -> 0..MaxAttempts]]
    BY <1>0, <2>2 DEF TypeOK
  <2> QED
    BY <1>0, <2>2, <2>3, ExecutionLife DEF TypeOK
<1>3. CASE SaveResult(r)
  <2>1. /\ step[r] = "writing" /\ step' = [step EXCEPT ![r] = "publishing"]
        /\ \A p \in Outputs : staging[r][p] = attempt[r]
        /\ staging' = [staging EXCEPT ![r]["result.json"] = attempt[r]]
        /\ UNCHANGED <<clientVars, queue, job, result, running, attempt, completed, failed>>
    BY <1>3 DEF SaveResult, Does
  <2>2. staging' \in [Runs -> [Parts -> 0..MaxAttempts]]
    BY <1>0, <2>1 DEF TypeOK
  <2>3. \A p \in Parts : staging'[r][p] = attempt[r]
    BY <1>0, <2>1 DEF TypeOK, Parts
  <2> QED
    BY <1>0, <2>1, <2>2, <2>3, ExecutionLife DEF TypeOK
<1>4. CASE Publish(r)
  <2>1. /\ step[r] = "publishing" /\ step' = [step EXCEPT ![r] = "published"]
        /\ completed' = [completed EXCEPT ![r] = staging[r]]
        /\ staging' = [staging EXCEPT ![r] = NoFiles]
        /\ UNCHANGED <<clientVars, queue, job, result, running, attempt, failed>>
    BY <1>4 DEF Publish, Does
  <2>2. NoFiles \in [Parts -> 0..MaxAttempts]
    BY PlatformAssumption DEF NoFiles, Absent
  <2>3. \A p \in Parts : completed'[r][p] = attempt[r]
    BY <1>0, <2>1 DEF TypeOK, JobInv
  <2> QED
    BY <1>0, <2>1, <2>2, <2>3, ExecutionLife DEF TypeOK
<1> QED
  BY <1>1, <1>2, <1>3, <1>4

\* An execution ends: what it returns is what it published.
LEMMA EndLife ==
  ASSUME LifeInv, NEW r \in Runs, Return(r) \/ Raise(r) \/ Crash(r)
  PROVE  LifeInv'
<1>1. PICK to \in {"finished", "failed"} :
        /\ step[r] # "idle" /\ step' = [step EXCEPT ![r] = "idle"]
        /\ job' = [job EXCEPT ![r] = to]
        /\ to = "finished" => /\ step[r] = "published"
                              /\ result' = [result EXCEPT ![r] = attempt[r]]
        /\ to = "failed" => result' = result
        /\ running' = [running EXCEPT ![host[r]] = NoRun]
        /\ failed' \in [Runs -> BOOLEAN]
        /\ UNCHANGED <<clientVars, queue, attempt, staging, completed>>
  BY DEF Return, Raise, Crash, FreeWorker, LifeInv, TypeOK, fileVars
<1>2. JobInv(r) /\ ClientInv(r) /\ job[r] = "started" /\ attempt[r] # 0
  BY <1>1 DEF LifeInv, JobInv
<1>3. TypeOK'
  <2>1. TypeOK
    BY DEF LifeInv
  <2>2. result' \in [Runs -> 0..MaxAttempts]
    <3>1. attempt[r] \in 0..MaxAttempts /\ result \in [Runs -> 0..MaxAttempts]
      BY <2>1 DEF TypeOK
    <3>2. result' = [result EXCEPT ![r] = attempt[r]] \/ result' = result
      BY <1>1
    <3> QED
      BY <3>1, <3>2
  <2>3. /\ job' \in [Runs -> {"none", "queued", "started", "finished", "failed"}]
        /\ step' \in [Runs -> {"idle", "checking", "writing", "publishing", "published"}]
        /\ running' \in [Workers -> Runs \cup {NoRun}]
    BY <1>1, <2>1 DEF TypeOK
  <2> QED
    BY <1>1, <2>1, <2>2, <2>3 DEF TypeOK, clientVars
<1>4. QueueInv'
  BY <1>1, <1>2, QueueKept DEF LifeInv, TypeOK
<1>5. JobInv(r)' /\ ClientInv(r)'
  BY <1>1, <1>2 DEF LifeInv, TypeOK, JobInv, ClientInv, Holds, clientVars
<1>6. \A u \in Runs \ {r} : JobInv(u)' /\ ClientInv(u)'
  BY <1>1, RunKept DEF LifeInv, TypeOK, clientVars
<1> QED
  BY <1>3, <1>4, <1>5, <1>6 DEF LifeInv

\* Every step of every party keeps it.
THEOREM NextLifeInv == LifeInv /\ [Next]_vars => LifeInv'
<1> SUFFICES ASSUME LifeInv, [Next]_vars PROVE LifeInv'
  OBVIOUS
<1>1. CASE UNCHANGED vars
  <2>1. TypeOK'
    BY <1>1 DEF LifeInv, TypeOK, vars, clientVars, jobVars, fileVars
  <2>2. QueueInv'
    BY <1>1, QueueKept DEF vars, jobVars
  <2>3. \A u \in Runs : JobInv(u)' /\ ClientInv(u)'
    BY <1>1, RunKept DEF LifeInv, vars, clientVars, jobVars, fileVars
  <2> QED
    BY <2>1, <2>2, <2>3 DEF LifeInv
<1>2. ASSUME NEW r \in Runs, Client(r) PROVE LifeInv'
  BY <1>2, SubmitLife, ClientMoves, ClientFetches, ClientPublishes, ClientRemoves DEF Client
<1>3. ASSUME NEW r \in Runs, Execute(r) PROVE LifeInv'
  BY <1>3, ExecuteLife, EndLife DEF Execute
<1> QED
  BY <1>1, <1>2, <1>3, EndLife, RequeueLife, BeginLife DEF Next

\* Every reachable state satisfies the second invariant.
THEOREM LifeInvariance == Spec => []LifeInv
BY InitLifeInv, NextLifeInv, PTL DEF Spec

\* Type correctness, for any number of runs, workers, outputs and executions.
THEOREM TypeCorrect == Spec => []TypeOK
<1>1. LifeInv => TypeOK
  BY DEF LifeInv
<1> QED
  BY <1>1, LifeInvariance, PTL

\* What the controller holds as completed is what the job reported, undamaged.
THEOREM LocalIsTheReport == Spec => []LocalIsVerified
<1>1. LifeInv => LocalIsVerified
  BY DEF LifeInv, JobInv, ClientInv, LocalIsVerified
<1> QED
  BY <1>1, LifeInvariance, PTL

\* A finished run has its outputs on the worker or on the controller, whatever
\* its client met.
THEOREM ResultsSurvive == Spec => []NoResultLost
<1>1. LifeInv => NoResultLost
  <2> SUFFICES ASSUME LifeInv, NEW r \in Runs, job[r] = "finished", ~local[r]
               PROVE  Published(r)
    BY DEF NoResultLost
  <2>1. result[r] # 0 /\ completed[r]["result.json"] = result[r]
    BY DEF LifeInv, JobInv, Holds, Parts
  <2>2. NoFiles["result.json"] = 0
    BY DEF NoFiles, Parts, Absent
  <2> QED
    BY <2>1, <2>2 DEF Published
<1> QED
  BY <1>1, LifeInvariance, PTL

-----------------------------------------------------------------------------
(***************************************************************************)
(* The runs keep the platform's contract.                                  *)
(***************************************************************************)

\* The execution whose outputs a run has, as RunContract sees it.
Produced == [r \in Runs |-> IF Published(r) THEN completed[r]["result.json"]
                            ELSE IF local[r] THEN result[r] ELSE 0]

\* A step that changes neither the files of a completed run nor what is local,
\* nor the result of a run not yet published, is a stutter of the contract.
LEMMA Stutters ==
  ASSUME UNCHANGED <<completed, local>>,
         \A u \in Runs : result'[u] = result[u] \/ Published(u)
  PROVE  UNCHANGED <<Produced, local>>
BY DEF Produced, Published

\* Publishing is the contract's completion.
LEMMA PublishCompletes ==
  ASSUME LifeInv, NEW r \in Runs, Publish(r)
  PROVE  \E a \in 1..MaxAttempts : Contract!Complete(r, a)
<1>1. /\ step[r] = "publishing" /\ ~Published(r)
      /\ completed' = [completed EXCEPT ![r] = staging[r]]
      /\ UNCHANGED <<local, result>>
  BY DEF Publish, Does, clientVars
<1>2. /\ job[r] = "started" /\ attempt[r] # 0 /\ ~local[r]
      /\ staging[r]["result.json"] = attempt[r]
  BY <1>1 DEF LifeInv, JobInv, ClientInv, Parts
<1>3. attempt[r] \in 1..MaxAttempts
  BY <1>2, PlatformAssumption DEF LifeInv, TypeOK
<1>4. completed'[r] = staging[r] /\ \A u \in Runs : u # r => completed'[u] = completed[u]
  BY <1>1 DEF LifeInv, TypeOK
<1>5. staging[r] # NoFiles
  <2>1. NoFiles["result.json"] = 0
    BY DEF NoFiles, Parts, Absent
  <2> QED
    BY <1>2, <2>1
<1>6. Produced[r] = 0
  BY <1>1, <1>2 DEF Produced
<1>7. Produced' = [Produced EXCEPT ![r] = attempt[r]]
  <2>1. Produced'[r] = attempt[r]
    BY <1>2, <1>4, <1>5 DEF Produced, Published
  <2>2. \A u \in Runs : u # r => Produced'[u] = Produced[u]
    BY <1>1, <1>4 DEF Produced, Published
  <2>3. /\ Produced = [u \in Runs |-> Produced[u]]
        /\ Produced' = [u \in Runs |-> Produced'[u]]
    BY DEF Produced
  <2> QED
    BY <2>1, <2>2, <2>3
<1> QED
  BY <1>1, <1>3, <1>6, <1>7 DEF Contract!Complete, Produced

\* The client's os.replace is the contract's delivery.
LEMMA ClientDelivers ==
  ASSUME LifeInv, NEW r \in Runs, PublishLocal(r)
  PROVE  Contract!Deliver(r)
<1>1. /\ client[r] = "fetching" /\ local' = [local EXCEPT ![r] = TRUE]
      /\ UNCHANGED <<completed, result>>
  BY DEF PublishLocal, At, jobVars, fileVars
<1>2. ~local[r] /\ result[r] # 0 /\ completed[r]["result.json"] = result[r]
  BY <1>1 DEF LifeInv, JobInv, ClientInv, Holds, Parts
<1>3. Published(r)
  <2>1. NoFiles["result.json"] = 0
    BY DEF NoFiles, Parts, Absent
  <2> QED
    BY <1>2, <2>1 DEF Published
<1>4. Produced[r] # 0
  BY <1>2, <1>3 DEF Produced
<1>5. Produced' = Produced
  BY <1>1, <1>3 DEF Produced, Published, LifeInv, TypeOK
<1> QED
  BY <1>1, <1>2, <1>4, <1>5 DEF Contract!Deliver, Produced

\* What is removed remotely is what the controller has.
LEMMA RemovalStutters ==
  ASSUME LifeInv, NEW r \in Runs, RemoveRemote(r)
  PROVE  UNCHANGED <<Produced, local>>
<1>1. /\ client[r] = "fetched"
      /\ completed' = [completed EXCEPT ![r] = NoFiles]
      /\ UNCHANGED <<local, result>>
  BY DEF RemoveRemote, At, jobVars
<1>2. local[r] /\ (Published(r) => completed[r]["result.json"] = result[r])
  BY <1>1 DEF LifeInv, JobInv, ClientInv, Holds, Parts
<1>3. completed'[r] = NoFiles /\ \A u \in Runs : u # r => completed'[u] = completed[u]
  BY <1>1 DEF LifeInv, TypeOK
<1> QED
  BY <1>1, <1>2, <1>3 DEF Produced, Published

\* Every step maps to a step of the contract or to a stutter.
LEMMA StepKeepsContract ==
  ASSUME LifeInv, [Next]_vars
  PROVE  Contract!Next \/ UNCHANGED <<Produced, local>>
<1>1. CASE UNCHANGED vars
  BY <1>1, Stutters DEF vars, clientVars, jobVars, fileVars
<1>2. ASSUME NEW r \in Runs, Client(r)
      PROVE  Contract!Next \/ UNCHANGED <<Produced, local>>
  <2>1. CASE UNCHANGED <<completed, local, result>>
    BY <2>1, Stutters
  <2>2. CASE PublishLocal(r)
    BY <2>2, ClientDelivers DEF Contract!Next
  <2> QED
    BY <1>2, <2>1, <2>2, RemovalStutters DEF Client, Submit, PollFinished, PollFailed,
       TimeOut, ClientStops, FetchOutput, KeepRemote, jobVars, fileVars
<1>3. ASSUME NEW r \in Runs, Execute(r) \/ Crash(r) \/ Requeue(r)
      PROVE  Contract!Next \/ UNCHANGED <<Produced, local>>
  <2>1. CASE UNCHANGED <<completed, local, result>>
    BY <2>1, Stutters
  <2>2. CASE Publish(r)
    BY <2>2, PublishCompletes DEF Contract!Next
  <2>3. CASE Return(r)
    <3>1. /\ step[r] = "published" /\ UNCHANGED <<completed, local>>
          /\ result' = [result EXCEPT ![r] = attempt[r]]
      BY <2>3 DEF Return, clientVars, fileVars
    <3>2. completed[r]["result.json"] # 0
      BY <3>1 DEF LifeInv, JobInv, Parts
    <3>3. NoFiles["result.json"] = 0
      BY DEF NoFiles, Parts, Absent
    <3>4. Published(r)
      BY <3>2, <3>3 DEF Published
    <3>5. \A u \in Runs : result'[u] = result[u] \/ Published(u)
      BY <3>1, <3>4 DEF LifeInv, TypeOK
    <3> QED
      BY <3>1, <3>5, Stutters
  <2> QED
    BY <1>3, <2>1, <2>2, <2>3 DEF Execute, Crash, Requeue, StartHandler, SaveResult,
       Raise, WriteOutput, clientVars, jobVars, fileVars
<1>4. ASSUME NEW w \in Workers, Begin(w) PROVE UNCHANGED <<Produced, local>>
  BY <1>4, Stutters DEF Begin, clientVars, fileVars
<1> QED
  BY <1>1, <1>2, <1>3, <1>4 DEF Next

\* The runs implement RunContract: one production each, never replaced or lost,
\* delivered at most once and only when it exists.
THEOREM RunsKeepContract == Spec => ContractHolds
<1>1. Init => Contract!Init
  <2> SUFFICES ASSUME Init PROVE Contract!Init
    OBVIOUS
  <2>1. \A r \in Runs : ~Published(r) /\ ~local[r]
    BY DEF Init, Published
  <2>2. Produced = [r \in Runs |-> 0] /\ local = [r \in Runs |-> FALSE]
    BY <2>1 DEF Produced, Init
  <2> QED
    BY <2>2 DEF Contract!Init, Produced
<1>2. LifeInv /\ [Next]_vars => [Contract!Next]_<<Produced, local>>
  BY StepKeepsContract
<1> QED
  BY <1>1, <1>2, LifeInvariance, PTL DEF Spec, ContractHolds, Contract!Spec, Produced
-----------------------------------------------------------------------------
(***************************************************************************)
(* The deployment.                                                         *)
(***************************************************************************)

\* What a play has done so far: each task left what the next one builds on.
PlayProgress ==
  /\ play # "idle" => target # NoCommit
  /\ play \in {"link", "restart"} => envFile = target
  /\ play = "restart" => link = target

\* Only a submitted run is executed.
ExecutedSubmitted == \A r \in Requests : outcome[r] # "none" => request[r] # NoCommit

\* The two halves of the inductive invariant: what the host runs, and its runs.
HostInv == PlayProgress /\ DeployedMeansRunning /\ OneReleaseRuns
RunInv == ExecutedSubmitted /\ RequestHonoured
DeployIInv == DeployTypeOK /\ HostInv /\ RunInv

\* A host deployed before, and no run, satisfy the invariant.
THEOREM DeployInitIInv == DeployInit => DeployIInv
<1> SUFFICES ASSUME DeployInit PROVE DeployIInv
  OBVIOUS
<1>1. DeployTypeOK
  <2>1. plays \in 0..MaxPlays
    BY DeployAssumption DEF DeployInit
  <2>2. worker \in [up : BOOLEAN, env : Commits, code : Commits]
    BY DeployAssumption DEF DeployInit
  <2>3. /\ request \in [Requests -> Commits \cup {NoCommit}]
        /\ outcome \in [Requests -> {"none", "failed", "succeeded"}]
        /\ record \in [Requests -> Commits \cup {NoCommit}]
        /\ ran \in [Requests -> Commits \cup {NoCommit}]
    BY DEF DeployInit
  <2> QED
    BY <2>1, <2>2, <2>3, DeployAssumption DEF DeployInit, DeployTypeOK
<1>2. HostInv
  BY DEF DeployInit, HostInv, PlayProgress, DeployedMeansRunning, OneReleaseRuns
<1>3. RunInv
  BY DEF DeployInit, RunInv, ExecutedSubmitted, RequestHonoured
<1> QED
  BY <1>1, <1>2, <1>3 DEF DeployIInv

\* The play's tasks.
LEMMA PlayIInv ==
  ASSUME DeployIInv,
         \/ \E c \in Commits : InstallRelease(c)
         \/ WriteEnv \/ SwitchLink \/ Restart \/ PlayFails
  PROVE  DeployIInv'
<1> USE DEF DeployIInv, HostInv, DeployTypeOK, PlayProgress, DeployedMeansRunning,
            OneReleaseRuns
<1>1. UNCHANGED <<request, outcome, record, ran>>
  BY DEF InstallRelease, WriteEnv, SwitchLink, Restart, PlayFails, runVars
<1>2. RunInv'
  BY <1>1 DEF RunInv, ExecutedSubmitted, RequestHonoured
<1>3. ASSUME NEW c \in Commits, InstallRelease(c) PROVE DeployTypeOK' /\ HostInv'
  BY <1>1, <1>3, DeployAssumption DEF InstallRelease
<1>4. CASE WriteEnv
  BY <1>1, <1>2, <1>4 DEF WriteEnv
<1>5. CASE SwitchLink
  BY <1>1, <1>2, <1>5 DEF SwitchLink
<1>6. CASE Restart
  BY <1>1, <1>2, <1>6 DEF Restart, StartWorker
<1>7. CASE PlayFails
  BY <1>1, <1>2, <1>7 DEF PlayFails
<1> QED
  BY <1>2, <1>3, <1>4, <1>5, <1>6, <1>7

\* What runs beside the play: a worker that dies, systemd, the heartbeat.
LEMMA BesideIInv ==
  ASSUME DeployIInv, WorkerDies \/ SystemdStarts \/ Heartbeat
  PROVE  DeployIInv'
<1> USE DEF DeployIInv, HostInv, DeployTypeOK, PlayProgress, DeployedMeansRunning,
            OneReleaseRuns, playVars
<1>1. UNCHANGED <<play, target, plays, envFile, link, request, outcome, record, ran>>
  BY DEF WorkerDies, SystemdStarts, Heartbeat, runVars
<1>2. RunInv'
  BY <1>1 DEF RunInv, ExecutedSubmitted, RequestHonoured
<1>3. CASE WorkerDies
  BY <1>1, <1>2, <1>3 DEF WorkerDies
<1>4. CASE SystemdStarts
  BY <1>1, <1>2, <1>4 DEF SystemdStarts, StartWorker
<1>5. CASE Heartbeat
  BY <1>1, <1>2, <1>5 DEF Heartbeat
<1> QED
  BY <1>3, <1>4, <1>5

\* A run is submitted.
LEMMA SubmitIInv ==
  ASSUME DeployIInv, NEW r \in Requests, NEW c \in Commits, select_worker(r, c)
  PROVE  DeployIInv'
<1> USE DEF DeployIInv, select_worker, playVars
<1>1. DeployTypeOK'
  BY DEF DeployTypeOK
<1>2. HostInv'
  BY DEF HostInv, PlayProgress, DeployedMeansRunning, OneReleaseRuns
<1>3. RunInv'
  BY DeployAssumption DEF RunInv, ExecutedSubmitted, RequestHonoured, DeployTypeOK
<1> QED
  BY <1>1, <1>2, <1>3

\* A run is executed, or refused for its commit.
LEMMA ExecuteIInv ==
  ASSUME DeployIInv, NEW r \in Requests, execute_run(r)
  PROVE  DeployIInv'
<1> USE DEF DeployIInv, execute_run, playVars
<1>1. DeployTypeOK'
  BY DEF DeployTypeOK
<1>2. HostInv'
  BY DEF HostInv, PlayProgress, DeployedMeansRunning, OneReleaseRuns
<1>3. RunInv'
  BY DEF RunInv, ExecutedSubmitted, RequestHonoured, DeployTypeOK
<1> QED
  BY <1>1, <1>2, <1>3

\* The invariant is inductive.
THEOREM DeployNextIInv ==
  DeployIInv /\ [DeployNext]_deployVars => DeployIInv'
<1> SUFFICES ASSUME DeployIInv, [DeployNext]_deployVars
             PROVE  DeployIInv'
  OBVIOUS
<1>1. CASE UNCHANGED deployVars
  BY <1>1 DEF deployVars, playVars, runVars, DeployIInv, DeployTypeOK,
              HostInv, RunInv, PlayProgress, ExecutedSubmitted, DeployedMeansRunning,
              OneReleaseRuns, RequestHonoured
<1> QED
  BY <1>1, PlayIInv, BesideIInv, SubmitIInv, ExecuteIInv DEF DeployNext

\* Every reachable state satisfies the invariant.
THEOREM DeployInvariance ==
  DeploySpec => []DeployIInv
<1>1. DeployInit => DeployIInv
  BY DeployInitIInv
<1>2. DeployIInv /\ [DeployNext]_deployVars => DeployIInv'
  BY DeployNextIInv
<1> QED
  BY <1>1, <1>2, PTL DEF DeploySpec

\* Every variable of the deployment stays in its type.
THEOREM DeployTypeCorrect ==
  DeploySpec => []DeployTypeOK
<1>1. DeployIInv => DeployTypeOK
  BY DEF DeployIInv
<1> QED
  BY <1>1, DeployInvariance, PTL

\* A success is recorded under the commit that was asked for, however the host
\* was redeployed meanwhile.
THEOREM CommitsAreHonoured ==
  DeploySpec => []RequestHonoured
<1>1. DeployIInv => RequestHonoured
  BY DEF DeployIInv, RunInv
<1> QED
  BY <1>1, DeployInvariance, PTL

\* A play that ended leaves exactly its release running, after any number of
\* plays that failed.
THEOREM PlaysTakeEffect ==
  DeploySpec => []DeployedMeansRunning
<1>1. DeployIInv => DeployedMeansRunning
  BY DEF DeployIInv, HostInv
<1> QED
  BY <1>1, DeployInvariance, PTL

\* Environment and code part only through a restart between two tasks.
THEOREM OnlySystemdParts ==
  DeploySpec => []OneReleaseRuns
<1>1. DeployIInv => OneReleaseRuns
  BY DEF DeployIInv, HostInv
<1> QED
  BY <1>1, DeployInvariance, PTL
=============================================================================
