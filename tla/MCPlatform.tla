----------------------------- MODULE MCPlatform -----------------------------
(* The three parts of the job platform for TLC: runs on a worker, the         *)
(* redeployment of its runtime, and its dataset cache.  They share no          *)
(* variable and none reads another's, so whatever one of them does it does     *)
(* alone: a behaviour of this specification moves one part and leaves the      *)
(* other two as they began, which shows every state of each without their      *)
(* product.                                                                    *)
EXTENDS PlatformRun, PlatformDeploy, DatasetFetch, TLC

CONSTANTS v1, v2, same, old, new

(* Two manifests that share one file, differ in one, and list one each that the *)
(* other does not.                                                             *)
MCPaths == {"artists", "credits", "releases"}
MCOf == (v1 :> ("artists" :> same @@ "credits" :> old)) @@
        (v2 :> ("artists" :> same @@ "credits" :> new @@ "releases" :> new))

VARIABLE moves  \* the part that moves: runs, deployment or datasets

platformVars == <<vars, deployVars, fetchVars, moves>>

PlatformInit ==
  /\ Init /\ DeployInit /\ FetchInit
  /\ moves = "datasets" \/ (moves \in {"runs", "deployment"} /\ served = v1)

PlatformNext ==
  /\ UNCHANGED moves
  /\ \/ moves = "runs" /\ Next /\ UNCHANGED <<deployVars, fetchVars>>
     \/ moves = "deployment" /\ DeployNext /\ UNCHANGED <<vars, fetchVars>>
     \/ moves = "datasets" /\ FetchNext /\ UNCHANGED <<vars, deployVars>>

PlatformSpec == PlatformInit /\ [][PlatformNext]_platformVars /\ Fairness
=============================================================================
