SPECIFICATION MCSpec
CONSTANTS
  u1 = u1
  d1 = d1
  f = f
  g = g
  b1 = b1
  b2 = b2
  n1 = n1
  closed = closed
  open = open
  None = None
  Absent = Absent
  Uids = {u1}
  ForeignUids = {}
  DocIds = {d1}
  Fields = {f, g}
  Values = {1}
  Dbs = {b1, b2}
  Names = {n1}
  Settings = {closed, open}
  Default = closed
  Writers <- Both
  Bodies <- TwoBodies
  BatchLimit = 2
  Broken = {}
  MaxOps = 4
  MaxWrites = 4
  MaxDeletes = 1
  MaxFaults = 2
INVARIANTS MarksSound ChatRestores
PROPERTIES BackedUpAtLast
CHECK_DEADLOCK FALSE
