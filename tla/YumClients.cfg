CONSTANTS
  Names = {n1}
  Archs = {a1}
  Evrs <- MCEvrs
  Rank <- MCRank
  Builds = {b1}
  Keep = 1
  Signed = TRUE
  FaultyOps = {"add", "remove"}
  RetryFirst = FALSE
  MaxOps = 3
  MaxFaults = 1
  None = None
SPECIFICATION FairClientsSpec
PROPERTIES
  RefreshesFailInTransit
  RefreshesSeePublished
  ClientsCatchUp
CHECK_DEADLOCK FALSE
