SPECIFICATION Spec
CONSTANTS
  s1 = s1
  s2 = s2
  p1 = p1
  p2 = p2
  n1 = n1
  n2 = n2
  None = None
  Sessions = {s1, s2}
  Places = {p1, p2}
  Names = {n1, n2}
  Cities = {}
  NameOf <- MCNameOf
  NoteSets <- MCNoteSets
  Asks <- MCAsks
  StartStops <- MCStops
  Ttl = 0
  MaxTime = 2
  MaxOps = 2
SYMMETRY Symmetry
PROPERTIES
  StopsKeepTheirPoint
\* The operations are used up.
CHECK_DEADLOCK FALSE
