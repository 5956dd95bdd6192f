CONSTANTS
  Names = {n1}
  Archs = {a1, a2}
  Evrs <- MCEvrs
  Rank <- MCRank
  Builds = {b1}
  Keep = 2
  Signed = TRUE
  FaultyOps = {"add", "remove"}
  RetryFirst = TRUE
  MaxOps = 5
  MaxFaults = 2
  None = None
SYMMETRY MCSymmetry
SPECIFICATION Spec
INVARIANTS
  TypeOK
  RpmsMatchRepomd
  ManifestMatchesRepomd
  SignatureMatchesRepomd
  RemovedIsGone
PROPERTIES
  DeletesOnlySurplus
CHECK_DEADLOCK FALSE
