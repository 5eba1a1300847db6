SPECIFICATION MCSpec
CONSTANTS
  s1 = s1
  a1 = a1
  w1 = w1
  w2 = w2
  r1 = r1
  Guest = Guest
  Owner = Owner
  Streams = {s1}
  AppUsers = {a1}
  Page = 2
  MaxOps = 3
  MaxBreaks = 1
  MaxRules = 1
  MaxDrops = 1
  MaxTroubles = 1
  Docs = {1, 2, 3}
  Writers = {w1, w2}
  Limit = 1
  Readers = {r1}
  Offsets = {1}
  MaxWrites = 3
INVARIANTS NoGapNoRepeat LeakBounded WalkSound
PROPERTIES Delivered
CHECK_DEADLOCK FALSE
