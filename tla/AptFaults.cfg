CONSTANTS
  Components = {main}
  Within <- MCFlat
  Archs = {a1, a2}
  Names = {n1}
  v1 = v1
  v1b = v1b
  v2 = v2
  Versions = {v1, v1b, v2}
  Rank <- MCRank
  Builds = {b1, b2}
  Keep = 2
  Signed = TRUE
  FaultyOps = {"add", "remove"}
  RetryFirst = FALSE
  MaxOps = 4
  MaxFaults = 2
  None = None
SYMMETRY MCSymmetry
SPECIFICATION Spec
INVARIANTS
  RetentionBound
  PublishedReleaseCurrent
  AckedStays
PROPERTIES
  ImplementsRepository
CHECK_DEADLOCK FALSE
