SPECIFICATION PolicySpec
CONSTANTS
  None = None
  Slot = 2
  DaySlots = 8
  BucketSlots = 2
  SlotIds = {1, 2}
  Sources <- StoreSources
  Conventions <- StoreConventions
  Sessions = {"s1", "s2"}
  MaxNotes = 3
  Bounded = TRUE
  Reuse = FALSE
CHECK_DEADLOCK FALSE
PROPERTY ActionIsGrounded
PROPERTY OutcomeIsWhole
PROPERTY ReserveIsFunded
PROPERTY ForecastIsLearned
PROPERTY CalibrationIsConsistent
PROPERTY PairIsConserved
PROPERTY ForesightIsNeverWrong
PROPERTY ObservationIsGrounded
PROPERTY AdviceIsBound
PROPERTY TransferIsWhole
INVARIANT HistoryIsSound
