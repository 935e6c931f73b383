CONSTANTS
  Prefix <- MCPrefix
  Within <- MCWithin
  Chains <- MCChains
  Tokens <- Presented
  Operations <- MCOperations
  MaxNow = 1
SPECIFICATION Spec
INVARIANT EachHopIsVerified
CHECK_DEADLOCK FALSE
