CONSTANTS
  Parts = {"team"}
  o = o
  m = m
  r1 = r1
  r2 = r2
  r3 = r3
  none = none
  x1 = x1
  x2 = x2
  d1 = d1
  d2 = d2
  i1 = i1
  i2 = i2
  i3 = i3
  None = None
  Edits <- MCEdits
  Kinds <- MCKinds
  OldDays <- MCDays
  OldItems <- MCItems
  Slots <- MCSlots
  Custom <- MCCustom
  Trip = Trip
  Itin = Itin
  Start <- MCStart
  People <- TwoPeople
  TeamRequests <- TwoRequests
  Invites <- TwoInvites
  NoUser = none
  Founder = o
SPECIFICATION Spec
SYMMETRY Symmetry
INVARIANT
  OneOwner
\* The requests are used up.
CHECK_DEADLOCK FALSE
