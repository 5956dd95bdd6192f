CONSTANTS
  Components = {main, contrib}
  Within <- MCFlat
  Archs = {a1}
  Names = {n1, n2}
  v1 = v1
  v1b = v1b
  v2 = v2
  Versions = {v1, v1b, v2}
  Rank <- MCRank
  Builds = {b1, b2}
  Keep = 2
  Signed = TRUE
  FaultyOps = {"add"}
  RetryFirst = TRUE
  MaxOps = 4
  MaxFaults = 2
  None = None
SYMMETRY MCSymmetry
SPECIFICATION Spec
INVARIANTS
  TypeOK
  PoolMatchesPackages
  ReleaseMatchesIndexes
  SignaturesMatchRelease
PROPERTIES
  DeletesOnlySurplus
CHECK_DEADLOCK FALSE
