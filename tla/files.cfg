SPECIFICATION MCSpec
CONSTANTS
  c1 = c1
  c2 = c2
  user = user
  admin = admin
  n1 = n1
  n2 = n2
  Nobody = Nobody
  CloudOwner = user
  Clients = {c1, c2}
  Paths = {"v2", "key", "v1"}
  Users = {user, admin}
  Admins = {user}
  Names = {n1, n2}
  Sizes = {1, 2}
  Quota = 1
  MaxMessages = 2
  MaxDrops = 1
  MaxRenames = 1
  MaxFaults = 1
  MaxCrashes = 1
  MaxSums = 1
  SerialAdmins = {admin}
  SerialQuota = 3
  SerialMessages = 3
  FreeSizes = {1}
  Recomputed = {user}
SYMMETRY Sym
INVARIANTS RowsMatchMessages QuotaOvershootBounded SerialUsedCoversLive SerialOneLivePerOwner
CHECK_DEADLOCK FALSE
