CONSTANTS
  main = main
  Components = {main}
  Within <- MCFlat
  a1 = a1
  Archs = {a1, a2}
  Home <- MCHome
  Names = {n1}
  v1 = v1
  v2 = v2
  Versions = {v1, v2}
  Rank <- MCRank
  Builds = {b1}
  Keep = 1
  Signed = TRUE
  FaultyOps = {"add", "remove"}
  RetryFirst = FALSE
  MaxOps = 3
  MaxFaults = 2
  None = None
SPECIFICATION FairClientsSpec
PROPERTIES
  UpdatesFailInTransit
  UpdatesSeePublished
  ClientsCatchUp
CHECK_DEADLOCK FALSE
