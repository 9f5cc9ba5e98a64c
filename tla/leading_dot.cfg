SPECIFICATION Spec
CONSTANTS
  MaxPath = 2
  Paths <- LeadingDots
  SegmentLists <- NoLists
INVARIANT PlainSplits
CHECK_DEADLOCK FALSE
