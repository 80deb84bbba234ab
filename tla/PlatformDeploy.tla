--------------------------- MODULE PlatformDeploy ---------------------------
(***************************************************************************)
(* What a worker host runs while its runtime is redeployed underneath it:  *)
(* the Ansible play infra/ansible/playbooks/deploy-platform-runtime.yml,   *)
(* the worker and heartbeat units it installs, the advertisements the      *)
(* scheduler selects by, and the commit every run request names.           *)
(*                                                                         *)
(* The play writes worker.env, then points the `current` link at the new   *)
(* release, then restarts the worker.  Three others read those two files   *)
(* whenever they like: systemd, restarting a worker that died; the         *)
(* heartbeat timer; and a play that stops half way leaves them behind.     *)
(***************************************************************************)
EXTENDS Naturals, FiniteSets

CONSTANTS Commits,  \* the public commits that are ever deployed
          First,    \* the one deployed before this starts
          Requests, \* the runs that are asked for
          MaxPlays, \* bound: how often the play is run
          NoCommit

ASSUME DeployAssumption ==
  /\ First \in Commits /\ NoCommit \notin Commits /\ MaxPlays \in Nat

VARIABLES
  play,     \* the task the play comes to next: idle, env, link or restart
  target,   \* platform_runtime_commit of the current or the last play
  plays,    \* how often the play was run
  envFile,  \* PLATFORM_RUNTIME_COMMIT in worker.env
  link,     \* the release `current` points at
  worker,   \* the worker process: up, env (its environment) and code (its release)
  advert,   \* the runtime_commit last advertised
  request,  \* per run: request.runtime_commit, NoCommit before it is submitted
  outcome,  \* per run: none, failed, or succeeded
  record,   \* per run: the runtime_commit in its result
  ran,      \* history: the release whose code produced the result
  gap       \* history: systemd started the running worker between the two tasks

playVars == <<play, target, plays, envFile, link>>
runVars == <<request, outcome, record, ran>>
deployVars == <<playVars, worker, advert, runVars, gap>>

\* ExecStart: the process reads worker.env and the link, and advertises itself.
StartWorker ==
  /\ worker' = [up |-> TRUE, env |-> envFile, code |-> link]
  /\ advert' = envFile

-----------------------------------------------------------------------------
(***************************************************************************)
(* The play.                                                               *)
(***************************************************************************)

\* The release bundle is copied, installed in its own venv and verified.
InstallRelease(c) ==
  /\ play = "idle" /\ plays < MaxPlays
  /\ play' = "env" /\ target' = c /\ plays' = plays + 1
  /\ UNCHANGED <<envFile, link, worker, advert, runVars, gap>>

\* "Write private worker environment"
WriteEnv ==
  /\ play = "env" /\ play' = "link"
  /\ envFile' = target
  /\ UNCHANGED <<target, plays, link, worker, advert, runVars, gap>>

\* "Point current at the verified release"
SwitchLink ==
  /\ play = "link" /\ play' = "restart"
  /\ link' = target
  /\ UNCHANGED <<target, plays, envFile, worker, advert, runVars, gap>>

\* MUTANT of Restart: the worker is restarted before the link is switched.
RestartEarly ==
  /\ play \in {"link", "restart"}
  /\ play' = IF play = "link" THEN "link" ELSE "idle"
  /\ StartWorker
  /\ gap' = FALSE
  /\ UNCHANGED <<target, plays, envFile, link, runVars>>

\* MUTANT of Restart: the unit is enabled and left running.
RestartNotNeeded ==
  /\ play = "restart" /\ play' = "idle"
  /\ worker.up
  /\ UNCHANGED <<target, plays, envFile, link, worker, advert, runVars, gap>>

\* "Reload and enable standing user services", state: restarted.  What is
\* pruned afterwards is never the release of this play.
Restart ==
  /\ play = "restart" /\ play' = "idle"
  /\ StartWorker
  /\ gap' = FALSE
  /\ UNCHANGED <<target, plays, envFile, link, runVars>>

\* The host becomes unreachable, or a task fails: the play ends where it is.
PlayFails ==
  /\ play # "idle" /\ play' = "idle"
  /\ target' = NoCommit
  /\ UNCHANGED <<plays, envFile, link, worker, advert, runVars, gap>>

-----------------------------------------------------------------------------
(***************************************************************************)
(* What runs beside it.                                                    *)
(***************************************************************************)

\* The worker process dies, or the host goes down.
WorkerDies ==
  /\ worker.up
  /\ worker' = [worker EXCEPT !.up = FALSE]
  /\ UNCHANGED <<playVars, advert, runVars, gap>>

\* systemd: Restart=on-failure, or the host is back up.
SystemdStarts ==
  /\ ~worker.up
  /\ StartWorker
  /\ gap' = (envFile # link)
  /\ UNCHANGED <<playVars, runVars>>

\* The heartbeat unit advertises what worker.env says now.
Heartbeat ==
  /\ advert' = envFile
  /\ UNCHANGED <<playVars, worker, runVars, gap>>

\* A run of commit c goes to a worker that advertises c.
select_worker(r, c) ==
  /\ request[r] = NoCommit
  /\ advert = c
  /\ request' = [request EXCEPT ![r] = c]
  /\ UNCHANGED <<playVars, worker, advert, outcome, record, ran, gap>>

\* MUTANT of execute_run: the request's commit is not compared.
ExecuteAny(r) ==
  /\ request[r] # NoCommit /\ outcome[r] = "none" /\ worker.up
  /\ outcome' = [outcome EXCEPT ![r] = "succeeded"]
  /\ record' = [record EXCEPT ![r] = worker.env]
  /\ ran' = [ran EXCEPT ![r] = worker.code]
  /\ UNCHANGED <<playVars, worker, advert, request, gap>>

\* The environment's commit must be the request's, and is what the
\* result records.
execute_run(r) ==
  /\ request[r] # NoCommit /\ outcome[r] = "none" /\ worker.up
  /\ IF worker.env = request[r]
     THEN /\ outcome' = [outcome EXCEPT ![r] = "succeeded"]
          /\ record' = [record EXCEPT ![r] = worker.env]
          /\ ran' = [ran EXCEPT ![r] = worker.code]
     ELSE /\ outcome' = [outcome EXCEPT ![r] = "failed"]
          /\ UNCHANGED <<record, ran>>
  /\ UNCHANGED <<playVars, worker, advert, request, gap>>

DeployInit ==
  /\ play = "idle" /\ target = First /\ plays = 0
  /\ envFile = First /\ link = First /\ advert = First
  /\ worker = [up |-> TRUE, env |-> First, code |-> First]
  /\ request = [r \in Requests |-> NoCommit] /\ outcome = [r \in Requests |-> "none"]
  /\ record = [r \in Requests |-> NoCommit] /\ ran = [r \in Requests |-> NoCommit]
  /\ gap = FALSE

DeployNext ==
  \/ \E c \in Commits : InstallRelease(c)
  \/ WriteEnv \/ SwitchLink \/ Restart \/ PlayFails
  \/ WorkerDies \/ SystemdStarts \/ Heartbeat
  \/ \E r \in Requests : execute_run(r) \/ \E c \in Commits : select_worker(r, c)

DeploySpec == DeployInit /\ [][DeployNext]_deployVars

-----------------------------------------------------------------------------
(***************************************************************************)
(* Properties.                                                             *)
(***************************************************************************)

\* Every variable stays in its type.
DeployTypeOK ==
  /\ play \in {"idle", "env", "link", "restart"} /\ plays \in 0..MaxPlays
  /\ target \in Commits \cup {NoCommit}
  /\ envFile \in Commits /\ link \in Commits /\ advert \in Commits
  /\ worker \in [up : BOOLEAN, env : Commits, code : Commits]
  /\ request \in [Requests -> Commits \cup {NoCommit}]
  /\ outcome \in [Requests -> {"none", "failed", "succeeded"}]
  /\ record \in [Requests -> Commits \cup {NoCommit}]
  /\ ran \in [Requests -> Commits \cup {NoCommit}]
  /\ gap \in BOOLEAN

\* Whatever was deployed between the submission of a run and its execution, a
\* success is recorded under the commit that was asked for.
RequestHonoured ==
  \A r \in Requests : outcome[r] = "succeeded" => record[r] = request[r]

\* A play that ran to its end leaves a host whose worker, environment and link
\* are of its release, whatever an earlier play that failed left behind.
DeployedMeansRunning ==
  play = "idle" /\ target # NoCommit =>
    /\ envFile = target /\ link = target
    /\ worker.env = target /\ worker.code = target

\* The running worker's environment and code are of one release unless systemd
\* itself started it between the play's two tasks (or after a play that stopped
\* there): neither the play nor a heartbeat can bring the two apart.
OneReleaseRuns == ~gap => worker.env = worker.code

=============================================================================
