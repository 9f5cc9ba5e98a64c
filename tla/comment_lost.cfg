CONSTANTS
  MaxText = 7
  IndentWidth = 2
  MaxElements = 3
  MaxCalls = 3
  Texts <- MCTexts
  Names <- MCNames
  Values <- MCValues
  Comments <- MCComments
SPECIFICATION Spec
INVARIANT EveryCommentKept
\* A history of calls ends.
CHECK_DEADLOCK FALSE
