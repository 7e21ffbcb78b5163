CONSTANTS
  a = a
  b = b
  NEWLINE = NEWLINE
  RETURN = RETURN
  ZERO = ZERO
  BLANK = BLANK
  JUNK = JUNK
  max_xpos = 2
  max_ypos = 3
  LOG_LINE_MAX = 7
  Printable <- MCPrintable
  Messages <- MCMessages
  MaxLines = 5
SPECIFICATION FairConsoleSpec
INVARIANTS
  ScreenShowsTail
  CursorIsNext
PROPERTIES
  PrintkReturns
