SPECIFICATION Spec
CONSTANTS
  Main = Main
  Workers = {w1}
  NoThread = NoThread
  Size = 3
  MaxBytes = 6
  MaxPolls = 1
PROPERTY PrintDone
CHECK_DEADLOCK FALSE
