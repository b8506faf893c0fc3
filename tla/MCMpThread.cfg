CONSTANTS
  Main = Main
  Workers = {w1, w2}
  NoThread = NoThread
  MayCatch = TRUE
SPECIFICATION Spec
SYMMETRY Symmetry
INVARIANTS
  TypeOK
  ListOK
  HandshakeOK
  TornAlone
PROPERTY ListFrozen
VIEW NoHistory
