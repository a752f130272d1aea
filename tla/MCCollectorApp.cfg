CONSTANTS
  Slot = 1
  Period = 1
  Attempts = 2
  Last = 2
  MaxDecisions = 1
  MaxFaults = 2
SPECIFICATION LiveSpec
INVARIANTS
  StoredFirst
  SlotIsReadOnce
  InputsWereKnown
PROPERTIES
  EvidenceIsFinal
  StopEndsProcess
CHECK_DEADLOCK FALSE
