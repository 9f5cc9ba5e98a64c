CONSTANTS
  MaxText = 3
  IndentWidth = 2
  MaxNodes = 4
  MaxCalls = 0
  Names <- MCNames
  Texts <- MCTexts
  Values <- MCValues
  Comments <- MCComments
SPECIFICATION Spec
INVARIANT FormatKeepsText
CHECK_DEADLOCK FALSE
