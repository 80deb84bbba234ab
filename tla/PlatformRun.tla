---------------------------- MODULE PlatformRun ----------------------------
(***************************************************************************)
(* The life of a run on the home compute platform, from the submitting     *)
(* script on the controller (scripts/_platform_client.py) through the RQ   *)
(* queue of one worker to the work-horse that executes it                  *)
(* (packages/platform: executor.py, staging.py) and back.                  *)
(*                                                                         *)
(* Three parties act: the client of each run, the worker of each host,     *)
(* which executes one run at a time in the order they were queued, and     *)
(* (external) RQ, which fails the job of a dead work-horse, and the        *)
(* operator, who may requeue a failed job.  A file is the number of the    *)
(* execution that wrote it.                                                *)
(***************************************************************************)
EXTENDS Naturals, Sequences, FiniteSets

CONSTANTS Runs, Workers,
          Outputs,      \* request.expected_outputs
          MaxAttempts,  \* bound: executions of one run
          NoRun, NoWorker

ASSUME PlatformAssumption ==
  /\ MaxAttempts \in Nat \ {0}
  /\ NoRun \notin Runs /\ NoWorker \notin Workers
  /\ "result.json" \notin Outputs

Absent == 0                  \* a file that is not there
Damaged == MaxAttempts + 1   \* a file whose size or hash is wrong
Parts == Outputs \cup {"result.json"}
NoFiles == [p \in Parts |-> Absent]

VARIABLES
  client,     \* per run: where the submitting script is
  host,       \* per run: the worker select_worker chose
  queue,      \* per worker: its RQ queue
  job,        \* per run: the RQ job's status
  result,     \* per run: job.result, the execution it reports, or 0
  running,    \* per worker: the run its work-horse executes
  step,       \* per run: where execute_run is
  attempt,    \* per run: how often it was executed
  staging,    \* per run: the files of .output.staging, made with the first of them
  completed,  \* per run: the files of completed/, all Absent before it exists
  failed,     \* per run: failed.json exists
  fetched,    \* per run: the files of local_run/.completed.partial or completed
  local       \* per run: whether local_run/completed exists

clientVars == <<client, host, fetched, local>>
jobVars    == <<queue, job, result, running, step, attempt>>
fileVars   == <<staging, completed, failed>>
vars == <<clientVars, jobVars, fileVars>>

Published(r) == completed[r] # NoFiles

At(r, from, to) == client[r] = from /\ client' = [client EXCEPT ![r] = to]

Does(r, from, to) == step[r] = from /\ step' = [step EXCEPT ![r] = to]

\* The work-horse is gone: the worker may take the next job.
FreeWorker(r) ==
  /\ running' = [running EXCEPT ![host[r]] = NoRun]
  /\ step' = [step EXCEPT ![r] = "idle"]

-----------------------------------------------------------------------------
(***************************************************************************)
(* The client.                                                             *)
(***************************************************************************)

\* main: a worker is selected, stage_run copies request and inputs to its host,
\* enqueue_and_wait hands the run directory to that worker's queue.
Submit(r, w) ==
  /\ At(r, "new", "waiting")
  /\ host' = [host EXCEPT ![r] = w]
  /\ job' = [job EXCEPT ![r] = "queued"]
  /\ queue' = [queue EXCEPT ![w] = Append(@, r)]
  /\ UNCHANGED <<fetched, local, result, running, step, attempt, fileVars>>

\* The poll sees FINISHED, and job.result names the outputs to fetch.
PollFinished(r) ==
  /\ At(r, "waiting", "fetching")
  /\ job[r] = "finished"
  /\ UNCHANGED <<host, fetched, local, jobVars, fileVars>>

\* The poll sees FAILED: PlatformClientError.
PollFailed(r) ==
  /\ At(r, "waiting", "error")
  /\ job[r] = "failed"
  /\ UNCHANGED <<host, fetched, local, jobVars, fileVars>>

\* MUTANT of TimeOut: the remote run directory is removed with the wait.
TimeOutRemoving(r) ==
  /\ At(r, "waiting", "error")
  /\ staging' = [staging EXCEPT ![r] = NoFiles]
  /\ completed' = [completed EXCEPT ![r] = NoFiles]
  /\ UNCHANGED <<host, fetched, local, jobVars, failed>>

\* The deadline passes: it counts from the enqueue, so a run that waited in the
\* queue may still be waiting, or executing, or just have finished.
TimeOut(r) ==
  /\ At(r, "waiting", "error")
  /\ UNCHANGED <<host, fetched, local, jobVars, fileVars>>

\* An ansible call fails, or the script is interrupted: what is remote stays.
ClientStops(r) ==
  /\ client[r] \in {"new", "fetching", "fetched"}
  /\ client' = [client EXCEPT ![r] = "error"]
  /\ UNCHANGED <<host, fetched, local, jobVars, fileVars>>

\* MUTANT of FetchOutput: the fetched file is not verified.
FetchOutputUnverified(r, p) ==
  /\ client[r] = "fetching" /\ fetched[r][p] = Absent
  /\ \E f \in {completed[r][p], Damaged} :
       /\ fetched' = [fetched EXCEPT ![r][p] = f]
       /\ UNCHANGED client
  /\ UNCHANGED <<host, local, jobVars, fileVars>>

\* fetch_and_verify, one output: the transfer may damage it, and then the
\* descriptor in the result does not match.
FetchOutput(r, p) ==
  /\ client[r] = "fetching" /\ fetched[r][p] = Absent
  /\ \E f \in {completed[r][p], Damaged} :
       /\ fetched' = [fetched EXCEPT ![r][p] = f]
       /\ client' = [client EXCEPT ![r] = IF f = result[r] THEN @ ELSE "error"]
  /\ UNCHANGED <<host, local, jobVars, fileVars>>

\* os.replace(partial, completed) once every output is verified.
PublishLocal(r) ==
  /\ At(r, "fetching", "fetched")
  /\ \A p \in Outputs : fetched[r][p] # Absent
  /\ local' = [local EXCEPT ![r] = TRUE]
  /\ UNCHANGED <<host, fetched, jobVars, fileVars>>

\* MUTANT of RemoveRemote: a client whose fetch failed cleans up as well.
RemoveRemoteAlways(r) ==
  /\ client[r] \in {"fetched", "error"} /\ job[r] = "finished"
  /\ client' = [client EXCEPT ![r] = "over"]
  /\ staging' = [staging EXCEPT ![r] = NoFiles]
  /\ completed' = [completed EXCEPT ![r] = NoFiles]
  /\ failed' = [failed EXCEPT ![r] = FALSE]
  /\ UNCHANGED <<host, fetched, local, jobVars>>

\* remove_remote_run, after the outputs were promoted.
RemoveRemote(r) ==
  /\ At(r, "fetched", "over")
  /\ staging' = [staging EXCEPT ![r] = NoFiles]
  /\ completed' = [completed EXCEPT ![r] = NoFiles]
  /\ failed' = [failed EXCEPT ![r] = FALSE]
  /\ UNCHANGED <<host, fetched, local, jobVars>>

\* --keep-remote.
KeepRemote(r) ==
  /\ At(r, "fetched", "over")
  /\ UNCHANGED <<host, fetched, local, jobVars, fileVars>>

-----------------------------------------------------------------------------
(***************************************************************************)
(* The worker and its work-horse.                                          *)
(***************************************************************************)

\* An idle worker takes the first job of its queue.
Begin(w) ==
  /\ running[w] = NoRun /\ queue[w] # <<>>
  /\ LET r == Head(queue[w])
     IN  /\ queue' = [queue EXCEPT ![w] = Tail(@)]
         /\ running' = [running EXCEPT ![w] = r]
         /\ job' = [job EXCEPT ![r] = "started"]
         /\ step' = [step EXCEPT ![r] = "checking"]
         /\ attempt' = [attempt EXCEPT ![r] = @ + 1]
  /\ UNCHANGED <<clientVars, result, fileVars>>

\* Commit, inputs and workload check out and no output exists: the handler runs.
StartHandler(r) ==
  /\ Does(r, "checking", "writing")
  /\ staging[r] = NoFiles /\ ~Published(r)
  /\ UNCHANGED <<clientVars, queue, job, result, running, attempt, fileVars>>

\* The handler writes one of its outputs.
WriteOutput(r, p) ==
  /\ step[r] = "writing" /\ staging[r][p] # attempt[r]
  /\ staging' = [staging EXCEPT ![r][p] = attempt[r]]
  /\ UNCHANGED <<clientVars, jobVars, completed, failed>>

\* MUTANT of SaveResult: the returned outputs are not compared with the request.
SaveResultUnchecked(r) ==
  /\ Does(r, "writing", "publishing")
  /\ staging' = [staging EXCEPT ![r]["result.json"] = attempt[r]]
  /\ UNCHANGED <<clientVars, queue, job, result, running, attempt, completed, failed>>

\* The outputs are the expected ones: result.json joins them.
SaveResult(r) ==
  /\ Does(r, "writing", "publishing")
  /\ \A p \in Outputs : staging[r][p] = attempt[r]
  /\ staging' = [staging EXCEPT ![r]["result.json"] = attempt[r]]
  /\ UNCHANGED <<clientVars, queue, job, result, running, attempt, completed, failed>>

\* os.replace(staging_dir, completed_dir)
Publish(r) ==
  /\ Does(r, "publishing", "published")
  /\ ~Published(r)
  /\ completed' = [completed EXCEPT ![r] = staging[r]]
  /\ staging' = [staging EXCEPT ![r] = NoFiles]
  /\ UNCHANGED <<clientVars, queue, job, result, running, attempt, failed>>

\* execute_run returns, and RQ stores its result with the FINISHED status.
Return(r) ==
  /\ step[r] = "published"
  /\ job' = [job EXCEPT ![r] = "finished"]
  /\ result' = [result EXCEPT ![r] = attempt[r]]
  /\ FreeWorker(r)
  /\ UNCHANGED <<clientVars, queue, attempt, fileVars>>

\* MUTANT of Raise: the worker keeps the failed job as its current one.
RaiseKeepingWorker(r) ==
  /\ step[r] # "idle"
  /\ failed' = [failed EXCEPT ![r] = TRUE]
  /\ job' = [job EXCEPT ![r] = "failed"]
  /\ step' = [step EXCEPT ![r] = "idle"]
  /\ UNCHANGED <<clientVars, queue, result, running, attempt, staging, completed>>

\* A check or the handler raises, or the job timeout does (in any step, even
\* after the publication): failed.json is written and RQ fails the job.
Raise(r) ==
  /\ step[r] # "idle"
  /\ failed' = [failed EXCEPT ![r] = TRUE]
  /\ job' = [job EXCEPT ![r] = "failed"]
  /\ FreeWorker(r)
  /\ UNCHANGED <<clientVars, queue, result, attempt, staging, completed>>

\* External: the work-horse is killed (MemoryMax, power); RQ gives up the job.
Crash(r) ==
  /\ step[r] # "idle"
  /\ job' = [job EXCEPT ![r] = "failed"]
  /\ FreeWorker(r)
  /\ UNCHANGED <<clientVars, queue, result, attempt, fileVars>>

\* External: the operator requeues a failed job.
Requeue(r) ==
  /\ job[r] = "failed" /\ attempt[r] < MaxAttempts
  /\ job' = [job EXCEPT ![r] = "queued"]
  /\ queue' = [queue EXCEPT ![host[r]] = Append(@, r)]
  /\ UNCHANGED <<clientVars, result, running, step, attempt, fileVars>>

-----------------------------------------------------------------------------
Init ==
  /\ client = [r \in Runs |-> "new"] /\ host = [r \in Runs |-> NoWorker]
  /\ queue = [w \in Workers |-> <<>>] /\ running = [w \in Workers |-> NoRun]
  /\ job = [r \in Runs |-> "none"] /\ result = [r \in Runs |-> 0]
  /\ step = [r \in Runs |-> "idle"] /\ attempt = [r \in Runs |-> 0]
  /\ staging = [r \in Runs |-> NoFiles]
  /\ completed = [r \in Runs |-> NoFiles] /\ failed = [r \in Runs |-> FALSE]
  /\ fetched = [r \in Runs |-> [p \in Outputs |-> Absent]]
  /\ local = [r \in Runs |-> FALSE]

Client(r) ==
  \/ \E w \in Workers : Submit(r, w)
  \/ PollFinished(r) \/ PollFailed(r) \/ TimeOut(r) \/ ClientStops(r)
  \/ \E p \in Outputs : FetchOutput(r, p)
  \/ PublishLocal(r) \/ RemoveRemote(r) \/ KeepRemote(r)

\* What execute_run does when it is left to run: an endless handler is ended by
\* the job timeout, so this always comes to Return or Raise.
Execute(r) ==
  \/ StartHandler(r) \/ SaveResult(r) \/ Publish(r) \/ Return(r) \/ Raise(r)
  \/ \E p \in Outputs : WriteOutput(r, p)

Next ==
  \/ \E r \in Runs : Client(r) \/ Execute(r) \/ Crash(r) \/ Requeue(r)
  \/ \E w \in Workers : Begin(w)

Spec == Init /\ [][Next]_vars

\* systemd keeps the worker up, so a queue with an idle worker is served.
Fairness ==
  /\ \A w \in Workers : WF_vars(Begin(w))
  /\ \A r \in Runs : WF_vars(Execute(r))

FairSpec == Spec /\ Fairness

-----------------------------------------------------------------------------
(***************************************************************************)
(* Properties.                                                             *)
(***************************************************************************)

\* Every variable stays in its type.
TypeOK ==
  /\ client \in [Runs -> {"new", "waiting", "fetching", "fetched", "over", "error"}]
  /\ host \in [Runs -> Workers \cup {NoWorker}]
  /\ queue \in [Workers -> Seq(Runs)] /\ running \in [Workers -> Runs \cup {NoRun}]
  /\ job \in [Runs -> {"none", "queued", "started", "finished", "failed"}]
  /\ step \in [Runs -> {"idle", "checking", "writing", "publishing", "published"}]
  /\ attempt \in [Runs -> 0..MaxAttempts] /\ result \in [Runs -> 0..MaxAttempts]
  /\ failed \in [Runs -> BOOLEAN]
  /\ staging \in [Runs -> [Parts -> 0..MaxAttempts]]
  /\ completed \in [Runs -> [Parts -> 0..MaxAttempts]]
  /\ fetched \in [Runs -> [Outputs -> 0..Damaged]] /\ local \in [Runs -> BOOLEAN]

\* A completed directory is whole: every expected output and the result record,
\* all from one execution, whatever crashed or was requeued before
\* (publish_completed_run: "without exposing partial output as success").
CompletedWhole ==
  \A r \in Runs : Published(r) =>
    \A p \in Parts : completed[r][p] = completed[r]["result.json"] /\ completed[r][p] # Absent

\* What the controller holds as completed is what the job reported: every
\* output, undamaged, of the execution the result describes.
LocalIsVerified ==
  \A r \in Runs : local[r] =>
    /\ result[r] # 0
    /\ fetched[r] = [p \in Outputs |-> result[r]]

\* A finished run is never lost: its outputs are still on the worker, or the
\* controller has them, whether its client timed out, failed or went on.
NoResultLost ==
  \A r \in Runs : job[r] = "finished" => Published(r) \/ local[r]

\* The runs keep the platform's contract: one production, never replaced or
\* lost, delivered once.
Contract == INSTANCE RunContract WITH
  produced <- [r \in Runs |-> IF Published(r) THEN completed[r]["result.json"]
                              ELSE IF local[r] THEN result[r] ELSE 0],
  delivered <- local
ContractHolds == Contract!Spec

\* Every queued run settles, even behind another that crashes or is requeued.
QueuedRunsSettle ==
  \A r \in Runs : job[r] = "queued" ~> job[r] \in {"finished", "failed"}
=============================================================================
