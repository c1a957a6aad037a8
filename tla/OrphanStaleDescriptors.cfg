SPECIFICATION Spec
CONSTANTS
  NDirect = 1
  PPB = 2
  Files = {1, 2, 3}
  EaInode = 4
  EaBlock = 18
  XBlock = 16
  IPG = 2
  BPG = 32
  Groups = {0, 1}
  Slots = {1, 2, 3, 4}
  BlockSize = 2
  XattrRefMax = 4
  Kinds = {"rewritten"}
  Volumes <- MCVolumes
INVARIANT ServedIsRecovered
