SPECIFICATION FairSpec
CONSTANTS
  Readers = {r1}
  Words = {w1, w2}
  Depth = 2
  Tries = 2
  MaxBlocks = 1
  U32 = 16
  U64 = 32
  MaxFrames = 3
  MaxCrashes = 1
INVARIANT TypeOK
INVARIANT NoTornRead
INVARIANT CursorAccounted
INVARIANT BlockNotOlder
INVARIANT DropsArePublished
PROPERTY SnapshotNotBehindRing
PROPERTY ReadsReturn
