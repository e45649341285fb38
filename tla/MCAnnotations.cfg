SPECIFICATION MCSpec
CONSTANTS
  d = d
  b = b
  u = u
  u1 = u1
  u2 = u2
  snippet = snippet
  Executions = {d, b}
  UserTexts = {u1, u2}
  Keys = {snippet}
  KeyOf <- MCOneKey
  Kind <- MCTwoBlocks
  PathOf <- MCSamePaths
  Controller = "haproxy"
  MaxRetries = 2
  MayOverlap = {d, b}
  MaxLength = 7
INVARIANTS
  RemovalKeepsTheRest
  RemovalUndoesPrepend
PROPERTIES
  PreparedPathIsFree
  HandlersReturn
