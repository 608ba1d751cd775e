SPECIFICATION Spec
CONSTANTS
  Outputs <- MCOutputs
  Durations = {0, 2}
  Rows = {3, 4}
  width = 2
  TAB_WIDTH = 2
  Calls <- MCCalls
  max_cycles = 2
  Interval = 1
  MaxInputs = 3
  MaxSecs = 2
  UINT_FAST8_MAX = 1
INVARIANTS ScreenOwn ChangeSeen EqualExit Paced
PROPERTIES Answered
