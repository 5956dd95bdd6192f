CONSTANTS
  Components = {main, debug}
  Within <- MCNested
  Archs = {a1}
  Names = {n1}
  v1 = v1
  v1b = v1b
  v2 = v2
  Versions = {v1, v1b, v2}
  Rank <- MCRank
  Builds = {b1}
  Keep = 0
  Signed = FALSE
  FaultyOps = {}
  RetryFirst = FALSE
  MaxOps = 3
  MaxFaults = 0
  None = None
SPECIFICATION Spec
PROPERTIES
  RemoveStaysInComponent
CHECK_DEADLOCK FALSE
