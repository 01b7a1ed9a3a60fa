SPECIFICATION Spec
CONSTANTS
  MaxRecs = 2
INVARIANT DefinedUnlessOverlap
INVARIANT NothingLeaks
INVARIANT TimerOfThisRecording
INVARIANT StatusAgrees
PROPERTY TimedRecordingEnds
CHECK_DEADLOCK FALSE
