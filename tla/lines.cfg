CONSTANTS
  MaxText = 3
  IndentWidth = 2
  MaxNodes = 4
  MaxCalls = 2
  Names <- MCNames
  Texts <- MCTexts
  Values <- MCValues
  Comments <- MCComments
SPECIFICATION Spec
INVARIANTS DocumentReadsBack CommentsStay FormatKeepsComments FormatAgainChangesNothing FormatKeepsGroups
PROPERTY OtherLinesStand
\* A history of calls ends.
CHECK_DEADLOCK FALSE
