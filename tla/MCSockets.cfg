SPECIFICATION Spec
CONSTANTS
  t1 = t1
  t2 = t2
  Thread <- Threads
  Sock = {s1, s2}
  Fd = {3, 4}
  IPCM_MAX_SIZE = 2
  Length = {3}
  MaxLate = 1
  Calls <- Roles
  None = None
  Free = Free
  Leaked = Leaked
INVARIANTS TypeOK FdUnshared SendReported ReceivedWhole
PROPERTIES GilFreed
CHECK_DEADLOCK FALSE
CONSTRAINT Once
