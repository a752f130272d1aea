CONSTANTS
  a1 = a1
  a2 = a2
  s1 = s1
  s2 = s2
  Apps = {a1, a2}
  Scopes = {s1, s2}
  Width = 2
  MaxPages = 2
  Cap = 3
  Day = 2
  Slot = 2
  Life = 1
  Lease = 0
  Cooldown = 2
  Kinds = {"paged", "unpaged", "limited", "lost"}
  Last = 2
  MaxFaults = 1
SYMMETRY Alike
SPECIFICATION Spec
INVARIANTS
  RequestBudget
  OpenCycleIsFunded
  OneReservation
  CompleteIsWhole
  CompleteAsOfIsWhole
PROPERTIES
  SpoolIsDelivered
  ArchiveIsFinal
CHECK_DEADLOCK FALSE
