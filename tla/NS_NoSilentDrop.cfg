\* Two tasks holding the Service; up to three commands queued, so that a
\* request can wait behind another caller's notifications.
CONSTANTS
  Callers = {c1, c2}
  MaxQueue = 3
SPECIFICATION Spec
INVARIANT NoSilentDrop
