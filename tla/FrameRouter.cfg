SPECIFICATION Spec
CONSTANTS
  Rows = {r1, r2}
  Buffers = {0, 1, 2}
  SeqMod = 16
  MaxFrames = 3
  MaxCrashes = 1
INVARIANT FrontComplete
INVARIANT ClaimedFrameWhole
PROPERTY NeverBackwards
PROPERTY LagsByOneAtMost
CHECK_DEADLOCK FALSE
