CONSTANTS
  Parts = {"stream", "tools", "models"}
  x1 = x1
  x2 = x2
  p1 = p1
  p2 = p2
  h1 = h1
  h2 = h2
  Streams <- TwoStreams
  MaxEvents = 3
  MaxFaults = 1
  MaxCalls = 1
  MaxAttempts = 3
  Calls <- TwoCalls
  Prompts <- TwoPrompts
  Uses <- MCUses
  Handles <- TwoHandles
  NoPrompt = NoPrompt
  CacheMax = 1
  Life = 3
  EvictAfter = 1
  Timeout = 1
  MaxTries = 2
SPECIFICATION Spec
SYMMETRY Symmetry
INVARIANTS
  ClientFollowsTheRun
  OneQuotaPerCleanup
  OneCreationAtATime
  AnswerIsOneAttempts
PROPERTIES
  NoExpiredContent
\* A run that has ended and whose clients have left does nothing more.
CHECK_DEADLOCK FALSE
