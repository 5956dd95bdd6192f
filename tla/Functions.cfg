CONSTANTS
  MaxInt = 15
  Keeps = {0, 1, 2, 3}
SPECIFICATION Spec
INVARIANTS
  AgreesWithPolicy
  AgreesWithTokens
  IndexRoundTrips
  NoMemberIsCut
  PruneFollowsPolicy
  ListMissesNothing
CHECK_DEADLOCK FALSE
