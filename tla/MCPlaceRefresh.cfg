CONSTANTS
  p1 = p1
  p2 = p2
  a1 = a1
  Places <- TwoPlaces
  AgentRuns <- MCAgentRuns
  Concurrency = 2
  PerRead = 2
  PerHour = 2
  RunBudget = 1
  Ttl = 0
  Hour = 2
  Cooldown = 1
  MaxTime = 2
  MaxReads = 2
SPECIFICATION FairSpec
\* The clock and the reads are bounded; a server without reads does nothing.
CHECK_DEADLOCK FALSE
INVARIANTS
  HourlyCap
PROPERTIES
  RefreshIsConsiderate
  QueueIsServed
