SPECIFICATION Spec
CONSTANTS
  u1 = u1
  u2 = u2
  foreign = foreign
  d1 = d1
  d2 = d2
  f = f
  g = g
  None = None
  Absent = Absent
  Uids = {u1, u2}
  ForeignUids = {foreign}
  DocIds = {d1, d2}
  Fields <- MCFields
  Values <- MCValues
  Clients = {c1, c2}
  Admins = {a1}
  Requests <- OverlapRequests
  Changes <- OverlapChanges
  MaxLog = 3
SYMMETRY Sym
INVARIANTS TypeOK LogReplayable OwnersAgree
PROPERTIES OwnerIsolation PublicDataValidated CommitsWhole NoResurrection
CHECK_DEADLOCK FALSE
