CONSTANTS
  r1 = r1
  c1 = c1
  Runs <- MCRuns
  Cancels <- OneCancel
  MaxToolCalls = 2
  MaxUnknown = 2
  MaxDeltas = 1
  MaxFaults = 2
  MaxCrashes = 1
SPECIFICATION FairSpec
INVARIANTS
  AbortIsSafe
  EndedIsClosed
  CompletedAudit
  CompletionIsLast
PROPERTIES
  ImplementsRunLog
  RunEnds
  FailureIsRecorded
