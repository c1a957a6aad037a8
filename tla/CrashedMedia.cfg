SPECIFICATION MediaSpec

CONSTANTS
  LogSectors = 4
  MaxBlocks = 2
  MaxEntries = 4
  MaxSessions = 2
  Payloads <- MCPayloads
  RingLen = 5
  NumAddrs = 72
  LeafCap = 4
  MapCap = 4
  ChunkBlocks = 18
  ChunksPerCib = 2
  Containers <- MCContainers
  ApfsFormat <- MCApfsFormat
  ApfsChanges <- MCApfsChanges
  MaxXid = 4
  ApfsScript <- MCApfsScript
  HealsAt = 4
  BadAddrs = {3, 16, 20, 25, 37}
  Diverging = {3}

INVARIANTS
  RecoveredAsLeft
  OpensOneWay

\* A behaviour ends when the medium has been opened and read.
CHECK_DEADLOCK FALSE
