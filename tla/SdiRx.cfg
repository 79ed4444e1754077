SPECIFICATION Spec
CONSTANTS
  Size = 8
  Lines = 2
  Stride = 1
  Quarters = 2
  Ids = 6
  Ahead = 3
  Standards = {"a", "b"}
  Faulty = {1, 4}
  Mixed = FALSE
  Faults = {"none", "sync"}
INVARIANTS RingIsShared FieldsFollow OverflowIsNoted
