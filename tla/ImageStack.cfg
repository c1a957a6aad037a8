SPECIFICATION Spec
CONSTANTS
  Base = 1
  Size = 7
  SectorSize = 2
  Granule = 2
  Gap = 2
  Claimed = 5
  ImageLen = 4
  MaxRequest = 3
  MaxErrors = 2
INVARIANT BytesFromTheirPlace
INVARIANT ZerosAccounted
 
