CONSTANTS
  None = None
  Thread = {t1, t2}
  Obj = {o1, o2}
  Block = {b1, b2}
  Link = {l1, l2}
  Dev = {d1}
  VB_MGMT_RECORD_MAX_CNT = 2
  VB_MGMT_MPP_LINK_MAX_CNT = 1
  MAX_MEDIA_BUFFER_POOLS = 1
  MAX_MEDIA_LINK_COUNT = 1
SPECIFICATION Spec
CHECK_DEADLOCK FALSE
CONSTRAINT Bounded
VIEW NotLate
SYMMETRY Symmetry
INVARIANTS TypeOK BlocksRecorded LiveHeld UseRecorded
PROPERTY TornDown
