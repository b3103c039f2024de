CONSTANTS
  Wide = 8
  Asserts = TRUE
  Seconds = {0, 1, 3, 4, 7, 8, 63}
  Profiles <- MCProfiles
SPECIFICATION Spec
CHECK_DEADLOCK FALSE
INVARIANTS TypeOK DepthIsKept RequestIsReported CopyIsFaithful
