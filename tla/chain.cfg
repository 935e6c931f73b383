CONSTANTS
  Prefix <- MCPrefix
  Within <- MCWithin
  Chains <- MCChains
  Tokens <- Presented
  Operations <- MCOperations
  MaxNow = 1
SPECIFICATION FairSpec
INVARIANTS VerdictIsDue
PROPERTIES WalkEnds
CHECK_DEADLOCK FALSE
