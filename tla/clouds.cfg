SPECIFICATION MCSpec
CONSTANTS
  c1 = c1
  c2 = c2
  u1 = u1
  u2 = u2
  g1 = g1
  g2 = g2
  n1 = n1
  Nobody = Nobody
  NoCloud = NoCloud
  Clients = {c1, c2}
  Chats = {g1, g2}
  Users = {u1, u2}
  DbNames = {n1}
  MaxInserts = 3
  MaxUploads = 1
  MaxFaults = 1
  MaxCrashes = 1
  MaxScans = 1
SYMMETRY Sym
INVARIANTS DatabaseCloudIsOwners SerialRowsMatchChats
PROPERTIES ScanFindsAll
CHECK_DEADLOCK FALSE
