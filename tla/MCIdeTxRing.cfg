SPECIFICATION FairSpec
CONSTANTS
  Main = Main
  Workers = {w1, w2}
  NoThread = NoThread
  Size = 4
  MaxBytes = 9
  MaxPolls = 1
INVARIANTS TypeOK Lossless RoomKept
PROPERTIES StreamSpec WriteCompletes
CHECK_DEADLOCK FALSE
