CONSTANTS
  Parts = {"accounts", "links"}
  r1 = r1
  r2 = r2
  r3 = r3
  x1 = x1
  x2 = x2
  y1 = y1
  y2 = y2
  u1 = u1
  l1 = l1
  l2 = l2
  l3 = l3
  none = none
  Users <- MCUsers
  Requests <- MCRequests
  Sessions <- MCSessions
  Tokens <- MCTokens
  PersistentTtl = 2
  ShortTtl = 1
  MaxAge = 3
  RenewInterval = 1
  LinkLife = 2
  ResendCooldown = 1
  MaxTime = 3
  Links <- ThreeLinks
  NoLink = none
  Calls <- MCRequests
  Caches <- BothCaches
  Keys <- AllKeys
  OwnKeys <- AgencyKeys
  MaxEntries = 1
  Ttl = 1
  ExtendDays <- Days
  Window = 0
  Connections <- TwoConnections
  MaxClock = 1
SPECIFICATION Spec
SYMMETRY Symmetry
INVARIANTS
  ResetIsFinal
  OneVerificationLink
  DeletedIsErased
  CacheKeepsUp
  SuccessorTakesOver
  AskedAndAnsweredOnce
PROPERTIES
  ExpiryMovesOut
\* The requests are used up.
CHECK_DEADLOCK FALSE
