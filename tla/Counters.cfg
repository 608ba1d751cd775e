SPECIFICATION Spec
CONSTANTS
  VmText <- MCVmText
  VmLists <- MCVmLists
  VmSecs = 3
  VmRef = 2
  VmHalf = 8
  MemText <- MCMemText
  MemLists <- MCMemLists
  MemSecs = 2
  MemRef = 1
  Word = 16
  MemHalf = 4
  SlabText <- MCSlabText
  SlabLists <- MCSlabLists
  STACKS_INCR = 2
  NODES_INCR = 1
  INT_MAX = 99
  SlabSecs = 2
  SlabRef = 1
  Cpu = {0, 1, 2}
  CoreOf <- StatCores
  NodeOf <- StatNodes
  MaxNode = 1
  StatLists <- MCSlabLists
  Boot <- MCBoot
  Junk <- MCJunk
  NEWOLD_INCR = 1
  MaxEvents = 2
INVARIANTS
  AnswersRight
  DeltaSpansReads
  SlabsShown
  CpusShown
