CONSTANTS
  Main = Main
  Workers = {w1}
  NoThread = NoThread
  MayCatch = FALSE
SPECIFICATION FairSpec
PROPERTIES CollectionEnds DeinitCompletes
INVARIANTS GilExclusive SweepSafe
CONSTRAINT OwnGil
