CONSTANTS
  Components = {main}
  Within <- MCFlat
  Archs = {a1, a2}
  Names = {n1}
  v1 = v1
  v1b = v1b
  v2 = v2
  Versions = {v1, v1b, v2}
  Rank <- MCRank
  Builds = {b1}
  Keep = 1
  Signed = TRUE
  FaultyOps = {"add", "remove"}
  RetryFirst = FALSE
  MaxOps = 6
  MaxFaults = 1
  Garbage = Garbage
  MaxFiles = 2
  MaxCommands = 3
  None = None
SYMMETRY MCSymmetry
SPECIFICATION CommandSpec
INVARIANTS
  PrefixPublished
  FailsCleanly
  RerunCompletes
  RerunAgrees
  RmRemoves
CHECK_DEADLOCK FALSE
