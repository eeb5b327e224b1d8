\* Two processes that overlap.
SPECIFICATION FileSpec
CONSTANTS
  Proc = {p1, p2}
  Ruleset = {r1, r2}
  Inode = {i1, i2, i3, i4}
  NoInode = NoInode
  NoData = NoData
  Blocks = 2
  MaxIOFaults = 0
  Overlap = TRUE
INVARIANT
  NeverHalfWritten
