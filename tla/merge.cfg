CONSTANTS
  Prefix <- MCPrefix
  Within <- MCWithin
  Chains <- MCChains
  Tokens <- MCTokens
  Leaf = 11
  Context = 6
  Envelopes <- MCEnvelopes
  Segments <- MCSegments
  Acta = 1
  Boot = 1
  Publish = 2
  Request = 3
  Deliver = 4
  MaxNow = 3
  MaxArrivals = 3
  Attestations <- MCAttestations
  Revs <- MCRevs
  Commits = {1, 2}
  TreeOf <- MCTreeOf
  MaxWire = 2
  Branch <- MCBranch
SPECIFICATION GateSpec
INVARIANTS AudienceIsBound PublishedVerifies PassedIsAttested RefusedIsDisplaced
PROPERTIES LapsedChainIsSilent
CHECK_DEADLOCK FALSE
