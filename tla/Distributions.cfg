CONSTANTS
  Components = {main}
  Within <- MCFlat
  Archs = {a1}
  Names = {n1}
  OtherNames = {n1}
  v1 = v1
  v2 = v2
  v3 = v3
  Versions <- MCVersions
  OtherVersions <- MCOtherVersions
  Rank <- MCRank
  OtherRank <- MCOtherRank
  Builds = {b1, b2}
  Keep = 1
  Signed = FALSE
  FaultyOps = {"add", "remove"}
  RetryFirst = TRUE
  MaxOps = 3
  MaxFaults = 1
  None = None
SPECIFICATION BothSpec
INVARIANTS
  BothPoolsMatch
  BothAckedStay
  PoolIsListed
CHECK_DEADLOCK FALSE
