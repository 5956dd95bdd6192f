CONSTANTS
  Components = {main}
  Within <- MCFlat
  Archs = {a1, a2}
  Names = {n1}
  v1 = v1
  v1b = v1b
  v2 = v2
  Versions = {v1, v1b, v2}
  Rank <- MCRank
  Builds = {b1}
  Keep = 0
  Signed = FALSE
  FaultyOps = {"remove"}
  RetryFirst = TRUE
  MaxOps = 5
  MaxFaults = 1
  None = None
SPECIFICATION Spec
INVARIANTS
  RemovalIdempotent
CHECK_DEADLOCK FALSE
