CONSTANTS
  Calls <- NineCalls
  Strings <- MCStrings
  BUF <- MCBuf
  TOP <- MCTop
  INT_MAX <- MCIntMax
SPECIFICATION Spec
CHECK_DEADLOCK FALSE
INVARIANT
  NineDigits
