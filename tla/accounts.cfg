SPECIFICATION MCSpec
CONSTANTS
  c1 = c1
  c2 = c2
  k1 = k1
  k2 = k2
  buyer = buyer
  p1 = p1
  p2 = p2
  None = None
  Clients = {c1, c2}
  Keys = {k1, k2}
  Contacts = {buyer}
  Pins = {p1, p2}
  MaxFailed = 2
  MaxChallenges = 2
  MaxRequests = 2
  MaxUsers = 2
  MaxHours = 1
  MaxSetups = 1
SYMMETRY Sym
INVARIANTS UsesBounded SerialAccountIffApproved GuessesBounded
CHECK_DEADLOCK FALSE
