SPECIFICATION LiveSpec
CONSTANTS
  i1 = i1
  i2 = i2
  p1 = p1
  p2 = p2
  p3 = p3
  None = None
  Intents = {i1, i2}
  Sessions = {p1, p2, p3}
  Exclusive = TRUE
  Survivor = p2
INVARIANTS
  IInv
  AtMostOneSend
  SendIsJournaled
  OneCommandOutstanding
PROPERTIES
  SentByApprover
  SlotContract
  SentIsSettled
CHECK_DEADLOCK FALSE
