SPECIFICATION Spec
CONSTANTS
  Apps = {a1}
  Last = 2
  Faults = {"drop"}
  None = None
CHECK_DEADLOCK FALSE
INVARIANT ActiveMeansRunning
