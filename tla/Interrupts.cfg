CONSTANTS
  Lines = {0, 1, 8}
  MaxRaises = 2
  MaxNmis = 1
  Rows = 6
SPECIFICATION Spec
INVARIANTS FrameRight ServiceEnds TicksRight
PROPERTIES Served FaultRepeats
