SPECIFICATION FramesSpec
CONSTANTS
  MaxFrames = 4
  MaxLength = 3
CHECK_DEADLOCK FALSE
INVARIANTS
  AfterLossRead
