SPECIFICATION FairSpec
CONSTANTS
  Scan = {"get", "fetch"}
  Tid = {1, 2, 3, 5}
  Boot = {1, 2, 3}
  Hidden = {3}
  MaxOpen = 2
  TgidOf <- MCTgidOf
  UidOf <- MCUidOf
  Modes <- AllModes
INVARIANTS
  ScanSound
  ScanAnswers
  QuietProcessComplete
PROPERTIES
  CallReturns
  FdsHeld
CHECK_DEADLOCK FALSE
