CONSTANTS
  Main = Main
  Workers = {w1, w2}
  NoThread = NoThread
  MayCatch = FALSE
SPECIFICATION Spec
INVARIANT RaisesLiveObject
