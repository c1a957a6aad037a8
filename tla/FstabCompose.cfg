SPECIFICATION ComposeSpec
CONSTANTS
  Tree <- MCTree
  RootFs = "root"
  RawPaths <- MCRawPaths
  Handles = {h1}
  Fstabs <- PlainFstabs
  Uuid <- MCUuid
  Candidates <- MCCandidates
  NoUuid = "none"
INVARIANTS
  MountPointsStand
  ViewsAgree
  ComposedAsDeclared

  
CHECK_DEADLOCK FALSE
