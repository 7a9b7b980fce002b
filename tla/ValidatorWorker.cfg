CONSTANTS
  Callers = {c1, c2, c3}
  NoSender = NoSender
SPECIFICATION Spec
SYMMETRY CallerSymmetry
INVARIANTS
  TypeOK
  SlotOwnership
  NoSignRequestDropped
PROPERTIES
  RefinesReplyServer
