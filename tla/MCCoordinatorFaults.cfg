SPECIFICATION Spec
CONSTANTS
  Apps = {a1, a2}
  Last = 2
  Faults = {"kill", "database", "reply", "drop", "slow"}
  None = None
CHECK_DEADLOCK FALSE
INVARIANT IInv
INVARIANT OneRunPerBoundary
INVARIANT OneOperation
INVARIANT SuccessIsComplete
SYMMETRY Symmetry
