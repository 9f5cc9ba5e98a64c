SPECIFICATION GoSpec
CONSTANTS
  IntBits = 5
  Mantissa64 = 3
  Mantissa32 = 2
  MaxFloat32 = 8
  Types <- MCTypes
  Values <- MCValues
  Inputs <- NestedInputs
  Index <- MCIndex
  Go <- MCGo
  As <- MCAs
  MaxCalls = 24
INVARIANT KeysNotCarriedKept
\* The calls end when each entry point has answered.
CHECK_DEADLOCK FALSE
