SPECIFICATION FairSpec
CONSTANTS
  FsBlocks = {0, 1, 2, 3}
  BlocksCount = 3
  SbHostBlock = 0
  Bodies <- MCBodies
  Checksums <- MCChecksums
  TidLimit = 64
  NoWrite = NoWrite
  MaxTx = 2
  Modes = {"None", "Compat", "V2", "V3"}
  Starts = {6}
  MaxLen = 8
  Images <- MCImages
CHECK_DEADLOCK FALSE
INVARIANT OverlayShowsRedone
INVARIANT ReportIsTrue
PROPERTY RedoesInOrder
 
