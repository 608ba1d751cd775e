SPECIFICATION Spec
CONSTANTS
  Dev = {1, 2}
  ItemLists = {A, B}
  NULL = NULL
  STACKS_INCR = 1
  MaxIo = 1
  MaxSecs = 3
  MaxRef = 2
SYMMETRY Lists
INVARIANTS
  NodesSound
  FoundWhileThere
  DeltasAddUp
