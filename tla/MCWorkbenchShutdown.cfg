\* Two requests and a shutdown.
CONSTANTS
  Threads = {t1, t2}
  root = root
  Roots = {root}
  gated = gated
  broader = broader
  Keys = {gated}
  RootOf <- MCRootOf
  MaxEntries = 1
  Contents = {corpusA, corpusB}
  Missing = Missing
  MaxRebuilds = 0
  NoThread = NoThread
SPECIFICATION Spec
SYMMETRY ThreadSymmetry
\* The requests are finitely many: the system stops when all are answered.
CHECK_DEADLOCK FALSE
INVARIANTS NothingCheckedOut
