CONSTANTS
  Callers = {c1, c2}
  NoSender = NoSender
SPECIFICATION Spec
PROPERTIES
  RequestEventuallyTaken
