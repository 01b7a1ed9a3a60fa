SPECIFICATION FairSpec
CONSTANTS
  Guests = {g1}
  None = None
  NSlots = 2
  MaxOpens = 3
  MaxWrites = 1
  MaxHangs = 1
  MaxFailures = 1
CHECK_DEADLOCK FALSE
INVARIANT OnePerGuest
INVARIANT ReaderOwnsSlot
INVARIANT NoOrphan
INVARIANT PipesClosedOnce
PROPERTY SlotFreed
PROPERTY IdleReclaimed
PROPERTY CommandLoopRuns
