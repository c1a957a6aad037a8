SPECIFICATION CopySpec

CONSTANTS
  StripeLength = 2
  Setups <- MCSetups
  SuperMirrors = 2
  NumBackups = 3
  ZoneCapacity = 2
  Layouts <- MCLayouts
  MaxFaults = 2
  Sector = 2
  Sectors = 3
  Edits <- MCEdits
  Windows <- MCWindows
  MaxEdits = 3
  MaxReads = 2
  Names = {"a", "b", "c"}
  Hash <- MCHash
  MaxIndex = 4
  MaxChanges = 4
  NumBlocks = 24
  NumInodes = 4
  Cells = 2
  Direct = 2
  MaxLevels = 2
  Format <- MCFormat
  FormatLong <- MCFormatLong
  Changes <- MCChanges
  MaxTime = 2
  MaxSerial = 3
  Quirks <- MCQuirks
  Script <- MCScript
  Faults = {0, 3, 8, 9, 12}

INVARIANTS
  NewestWholeIsOpened
  DurableIsServed
  ReadsWithinRedundancy
  LogIsProjected

\* A behaviour ends when the volume has been opened or read.
CHECK_DEADLOCK FALSE
