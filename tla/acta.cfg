CONSTANTS
  PerSecond = 2
  MaxNow = 5
  Content = {1, 2, 3}
  Check <- MCCheck
  Doc <- MCDoc
  Document = {"d1", "d2"}
  Red = {3}
  Bare = {"c3"}
  Nobody = "nobody"
  Ruleset = {r1, r2}
  MaxChanges = 2
  Version = {"v1", "v2"}
  Binary = {b1, b2}
  Nothing = nothing
  Names = {"plan", "report"}
  Marker <- MCMarker
  Ref <- MCRef
  PRs = {PR1, PR2}
  Unmarked = Unmarked
  Order <- MCOrder
  Top <- MCTop
  MaxMoves = 1
SPECIFICATION Spec
INVARIANTS CoverageIsAttestation EmbeddedIsWhole PassPinsOneBinary ExecutedIsMerged PassedTreeIsSound
PROPERTIES StandingBypassIsRefused
CHECK_DEADLOCK FALSE
SYMMETRY MCSymmetry
