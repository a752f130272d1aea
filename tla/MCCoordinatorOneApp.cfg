SPECIFICATION LiveSpec
CONSTANTS
  Apps = {a1}
  Last = 3
  Faults = {"kill", "slow"}
  None = None
CHECK_DEADLOCK FALSE
PROPERTY EnteredIsForecast
PROPERTY StatusIsFinal
