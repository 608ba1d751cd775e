SPECIFICATION Spec
CONSTANTS
  UserId <- MCUserId
  GroupId <- MCGroupId
  TtyDev <- MCTtyDev
  Screen <- MCScreen
  SamePrefix <- MCSamePrefix
  cached_euid = 1
  cached_tty = 1
  PIDSITEMS = 70
  OUTBUF_SIZE = 200
  MaxRows = 14
  screen_cols = 8
  OutbufSize = 32
  SPACE_AMOUNT = 15
  Texts = {0, 4, 7}
  Columns <- MCColumns
  MaxColumns = 3
INVARIANTS
  ThreadListingEnds
CHECK_DEADLOCK FALSE
