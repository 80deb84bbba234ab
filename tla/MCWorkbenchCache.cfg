\* Three requests for two views of one corpus in a cache of one entry.  The corpus is
\* rebuilt once, or twice under requests for one view.
CONSTANTS
  Threads = {t1, t2, t3}
  root = root
  Roots = {root}
  gated = gated
  broader = broader
  Keys = {gated, broader}
  RootOf <- MCRootOf
  MaxEntries = 1
  Contents = {corpusA, corpusB}
  Missing = Missing
  MaxRebuilds = 2
  NoThread = NoThread
SPECIFICATION WorkbenchSpec
SYMMETRY ThreadSymmetry
\* The requests are finitely many: the system stops when all are answered.
CHECK_DEADLOCK FALSE
INVARIANTS NoUseAfterClose NoLeakedConnection OverflowIsPinned HitIsFresh OneGraphPerIdentity
