CONSTANTS
  Pairs <- MCPairs
  HeaderPaths <- MCHeaders
  MaxConstructs = 4
SPECIFICATION Spec
INVARIANTS AcceptedFolds TrackerMatchesLayer RefusedForAReason
CHECK_DEADLOCK FALSE
