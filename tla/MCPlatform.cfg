\* Two runs of two outputs share one worker, each executed twice at most; two releases
\* after the first and two plays, each of which may fail half way; two manifests of two
\* and three files, two files damaged by the disk, two changes on the server.
CONSTANTS
  Runs = {r1, r2}
  Workers = {w1}
  Outputs = {"connectivity", "review-report"}
  MaxAttempts = 2
  NoRun = NoRun
  NoWorker = NoWorker
  First = c0
  Commits = {c0, c1, c2}
  Requests = {r1, r2}
  MaxPlays = 2
  NoCommit = NoCommit
  v1 = v1
  v2 = v2
  same = same
  old = old
  new = new
  Paths <- MCPaths
  Versions = {v1, v2}
  Contents = {same, old, new}
  Of <- MCOf
  NoFile = NoFile
  BadFile = BadFile
  NoManifest = NoManifest
  MaxDamage = 2
  MaxPublish = 2
SPECIFICATION PlatformSpec
\* The runs are finitely many, and each may be executed twice at most.
CHECK_DEADLOCK FALSE
INVARIANTS
  CompletedWhole LocalIsVerified NoResultLost
  RequestHonoured DeployedMeansRunning OneReleaseRuns
  ValidatedIsWhole
PROPERTIES ContractHolds QueuedRunsSettle WholeIsKept
