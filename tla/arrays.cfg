CONSTANTS
  MaxText = 8
  IndentWidth = 2
  MaxElements = 3
  MaxCalls = 3
  Texts <- MCTexts
  Names <- MCNames
  Values <- MCValues
  Comments <- MCComments
SPECIFICATION Spec
INVARIANTS BytesReadBack EditsKeepComments FormatReadsBack
PROPERTY RestStands
\* A history of calls ends.
CHECK_DEADLOCK FALSE
