SPECIFICATION Spec
CONSTANTS
  i1 = i1
  p1 = p1
  p2 = p2
  None = None
  Intents = {i1}
  Sessions = {p1, p2}
  Exclusive = FALSE
  Survivor = None
PROPERTIES
  AbortedIsHeld
CHECK_DEADLOCK FALSE
