\* A file that may lack any of its fields.
SPECIFICATION Spec
CONSTANTS
  Capacity = 8
  Threshold = 13
  NotifyEnabled = TRUE
  MayLack <- AnyField
INVARIANTS IInv StateIsAnnounced CriticalMatchesText
PROPERTIES LowIsTrue
