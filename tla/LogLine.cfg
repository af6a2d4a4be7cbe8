SPECIFICATION Spec
CONSTANTS
  Threads = {capture, asr}
  MaxLines = 2
INVARIANT LinesWhole
CHECK_DEADLOCK FALSE
