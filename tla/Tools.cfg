SPECIFICATION ToolsSpec
CONSTANTS
  Proc = {1, 2, 3, 4, 5}
  Boot = {1, 2, 3, 5}
  Self = 5
  ListOption = {"pid", "euid", "pgrp"}
  MaxFd = 2
  EVENTS = 1
  INT_MAX = 99
  ULLONG_MAX = 99
  PidOf <- MCPidOf
  Attr <- MCAttr
  CommandLines <- MCCommandLines
  Trees <- MCTrees
  FileSets <- MCFileSets
  Invocations <- MCInvocations
  MaxVanish = 1
  BUFSIZ = 2
  LINELEN = 3
  MaxText = 5
  Counts = {1, 2, 4}
INVARIANTS
  MatchesRight
  SignalsRight
  WritesRight
  ShowsRight
  StreamWhole
PROPERTIES
  PidwaitEnds
CHECK_DEADLOCK FALSE
