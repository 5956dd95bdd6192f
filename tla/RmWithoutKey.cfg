CONSTANTS
  Components = {main}
  Within <- MCFlat
  Archs = {a1}
  Names = {n1}
  v1 = v1
  v1b = v1b
  v2 = v2
  Versions = {v1, v1b, v2}
  Rank <- MCRank
  Builds = {b1}
  Keep = 0
  Signed = TRUE
  FaultyOps = {}
  RetryFirst = FALSE
  MaxOps = 4
  MaxFaults = 0
  None = None
SPECIFICATION ExampleSpec
INVARIANTS
  RemovalSigns
CHECK_DEADLOCK FALSE
