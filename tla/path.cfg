SPECIFICATION Spec
CONSTANTS
  MaxPath = 4
  Paths <- ProperTexts
  SegmentLists <- Lists
INVARIANT RoundTrip
PROPERTY ParseReturns
\* The caller may stop asking.
CHECK_DEADLOCK FALSE
