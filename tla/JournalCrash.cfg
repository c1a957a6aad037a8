SPECIFICATION CrashSpec
CONSTANTS
  FsBlocks = {0, 1}
  BlocksCount = 2
  SbHostBlock = 0
  Bodies <- MCBodies
  Checksums <- MCChecksums
  Images = {}
  TidLimit = 64
  NoWrite = NoWrite
  MaxLen = 5
  RingLast = 5
  Modes = {"None", "Compat", "V3"}
  Vals <- MCVals
  FirstTid = 3
  LastTid = 5
  Heads = {1, 4}
CHECK_DEADLOCK FALSE
INVARIANT RecoversDurableState
