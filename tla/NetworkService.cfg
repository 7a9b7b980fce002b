\* Two tasks holding the Service; up to three commands queued, so that a
\* request can wait behind another caller's notifications.  No symmetry:
\* CallReturns is a liveness property.
CONSTANTS
  Callers = {c1, c2}
  MaxQueue = 3
SPECIFICATION Spec
PROPERTIES
  CallReturns
  RefinesNetworkReplyServer
