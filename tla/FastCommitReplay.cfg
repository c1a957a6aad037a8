\* The region lies where the code reads it: the journal has a block s_maxlen.
\* RootMax 2: two records fill the root leaf, two children the root index.
SPECIFICATION ReplaySpec
CONSTANTS
  MaxLen = 5
  NumFc = 3
  JournalBlocks = 6
  CrashSlots = 2
  WriterFirst = 3
  Ops = {1, 2}
  MaxOps = 4
  MaxTid = 2
  SlotsPerBlock = 4
  Files = {11, 12}
  LinearDirs = {1}
  HtreeDirs = {2}
  MaxLinks = 2
  FirstLinks = 1
  Logs <- MCLogs
  Base <- MCBase
  Blocks <- MCBlocks
  Ratio = 1
  RootMax = 2
  LeafMax = 4
  MaxInitialized = 3
  MaxUnwritten = 2
  Logical = 6
  Adds <- MCAddsIn
  Dels <- MCDelsIn
  GrowBlocks <- MCGrowBlocks
INVARIANTS
  RecoversWhatWasSynced
  WholeOrReported
  SpaceAccounted
  LinksFollowEntries
  MapsWhatWasLogged
  Searchable
PROPERTY ScanEnds
