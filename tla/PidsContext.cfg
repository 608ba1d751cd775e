SPECIFICATION Spec
CONSTANTS
  ItemLists <- MCItemLists
  STACKS_INIT = 1
  STACKS_GROW = 1
  MaxTasks = 2
  MaxRef = 2
  MaxDays = 1
INVARIANTS
  StacksSound
  AnswersHold
CONSTRAINT FirstDay
CHECK_DEADLOCK FALSE
