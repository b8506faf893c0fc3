SPECIFICATION FairSpec
CONSTANTS
  None = None
  Pic = {p1, p2}
  Contents <- MCContents
  Digest <- MCDigest
  Scripts <- MCScripts
  ChunkSize = 1
  MaxLink = 3
INVARIANTS TypeOK InStep FileKept PictureWhole
PROPERTIES Answered TransferSpec
CONSTRAINT Bounds
CHECK_DEADLOCK FALSE
