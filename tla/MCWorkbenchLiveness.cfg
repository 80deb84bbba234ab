\* Three requests for one view of a corpus, which is rebuilt once: is each answered?
CONSTANTS
  Threads = {t1, t2, t3}
  root = root
  Roots = {root}
  gated = gated
  broader = broader
  Keys = {gated}
  RootOf <- MCRootOf
  MaxEntries = 1
  Contents = {corpusA, corpusB}
  Missing = Missing
  MaxRebuilds = 1
  NoThread = NoThread
SPECIFICATION FairSpec
\* The requests are finitely many: the system stops when all are answered.
CHECK_DEADLOCK FALSE
PROPERTIES RequestsFinish
