SPECIFICATION Spec
CONSTANTS
  d = d
  b = b
  u = u
  snippet = snippet
  Executions = {d, b}
  UserTexts = {u}
  Keys = {snippet}
  KeyOf <- MCOneKey
  Kind <- MCDelayAndBlock
  PathOf <- MCNoPaths
  Controller = "nginx"
  MaxRetries = 2
  MayOverlap = {b}
INVARIANTS
  IInv
  BlocksWhole
  StoppedMeansGone
  NoInterference
PROPERTIES
  NoLostUpdate
  Refines
