SPECIFICATION Spec
CONSTANTS
  Timer = {tm1, tm2}
  Setup = {s1, s2}
  MICROPY_SCHEDULER_DEPTH = 2
  None = None
SYMMETRY Symmetry
INVARIANTS TypeOK OneTimer PairWhole
PROPERTY SessionQuiet
