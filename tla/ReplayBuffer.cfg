\* Six events through a window of three.
SPECIFICATION Spec
CONSTANTS
  ReplayLimit = 3
  MaxEvents = 6
  FrameKinds <- MCFrameKinds
INVARIANTS
  ResumeWithoutGapIsComplete
  RecoveryIsFresh
CHECK_DEADLOCK FALSE
