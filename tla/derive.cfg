SPECIFICATION GoSpec
CONSTANTS
  IntBits = 5
  Mantissa64 = 3
  Mantissa32 = 2
  MaxFloat32 = 8
  Types <- MCTypes
  Values <- MCValues
  Inputs <- RecursiveInputs
  Index <- MCIndex
  Go <- MCGo
  As <- MCAs
  MaxCalls = 24
INVARIANT DerivesDescriptors
PROPERTY CallsAnswer
\* The calls end when each entry point has answered.
CHECK_DEADLOCK FALSE
