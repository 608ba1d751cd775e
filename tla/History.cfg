SPECIFICATION FairSpec
CONSTANTS
  Pid = {1, 2}
  HHASH_SIZE = 1
  NEWOLD_INIT = 1
  NEWOLD_GROW = 1
  UINT_MOD = 256
  MaxCount = 1
  MaxFault = 0
  MaxFrame = 2
INVARIANTS
  TypeOK
  HashChains
  WalkInFrame
  CpuAccounted
PROPERTIES
  WalkEnds
  RefinesTaskDelta
