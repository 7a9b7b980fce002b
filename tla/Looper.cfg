CONSTANTS
  Callers = {lp}
  Looper = lp
  NoSender = NoSender
  MaxHeaders = 3
SPECIFICATION LSpec
INVARIANTS
  LooperNeverBusyOrDropped
\* After run() failed and the looper returned, nothing is left to run.
CHECK_DEADLOCK FALSE
