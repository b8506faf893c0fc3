CONSTANTS
  None = None
  Thread = {t1, t2}
  Obj = {o1, o2}
  Block = {b1, b2}
  Link = {}
  Dev = {}
  VB_MGMT_RECORD_MAX_CNT = 2
  VB_MGMT_MPP_LINK_MAX_CNT = 1
  MAX_MEDIA_BUFFER_POOLS = 2
  MAX_MEDIA_LINK_COUNT = 1
SPECIFICATION Spec
CHECK_DEADLOCK FALSE
SYMMETRY Symmetry
PROPERTY DeinitReleases
