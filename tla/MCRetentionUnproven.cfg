SPECIFICATION Spec
CONSTANTS
  Days = 5
  Slots = 2
  Offset = 1
  Window = 1
  Keep = 3
  RunKeep = 4
  DetailBatch = 1
  RunBatch = 1
  MaxBatches = 2
  Tools = {"tool"}
  Active = {0, 1, 2, 7}
  Missing = {1}
  Shadow = {0}
CHECK_DEADLOCK FALSE
INVARIANT DeletedAreCounted
