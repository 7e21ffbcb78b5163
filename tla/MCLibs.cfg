CONSTANTS
  Numbers <- MCNumbers
  Calls <- MCCalls
  SearchCalls <- MCSearchCalls
  CopyCalls <- MCCopyCalls
  SIZES = 16
  Strings <- MCStrings
  BUF <- MCBuf
  TOP <- MCTop
  INT_MAX <- MCIntMax
SPECIFICATION MCSpec
CHECK_DEADLOCK FALSE
INVARIANTS
  DigitsSoFar
  InBounds
  FormatRight
  SearchRight
  CopyRight
PROPERTY
  CallsReturn
