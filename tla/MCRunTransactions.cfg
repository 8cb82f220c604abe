CONSTANTS
  r1 = r1
  r2 = r2
  t1 = t1
  t2 = t2
  t3 = t3
  k1 = k1
  k2 = k2
  Runs <- MCRuns
  Txns <- MCTxns
  MaxBatch = 2
  Tasks <- MCTasks
  FirstOrder <- MCFirstOrder
  Asked = {1, 2}
  None = None
  Work <- MCWork
SPECIFICATION FairSpec
INVARIANTS
  LogInvariant
PROPERTIES
  EveryTransactionEnds
  ImplementsRunLog
