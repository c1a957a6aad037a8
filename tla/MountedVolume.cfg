SPECIFICATION MountSpec
CONSTANTS
  MaxRejections = 2
  Helpers = 3
  Names = {"a", "f", "x"}
  Listing <- MCListing
  Files <- MCFiles
  Threads = {t1, t2}
  Capacity = 2
  Readers = {r1, r2}
  MaxInode = 8
INVARIANTS
  
  AnswersTruthful
  StreamsAreWhole
PROPERTIES
  MountEnds
  
  
  InodesAreIdentities
CHECK_DEADLOCK FALSE
