CONSTANTS
  Names = {n1}
  Archs = {a1}
  Evrs <- MCEvrs
  Rank <- MCRank
  Builds = {b1, b2}
  Keep = 1
  Signed = TRUE
  FaultyOps = {"add", "remove"}
  RetryFirst = FALSE
  MaxOps = 4
  MaxFaults = 2
  None = None
SYMMETRY MCSymmetry
SPECIFICATION Spec
INVARIANTS
  RepomdRefsExist
  PublishedStateComplete
  RetentionBound
  AckedStays
PROPERTIES
  ImplementsRepository
CHECK_DEADLOCK FALSE
