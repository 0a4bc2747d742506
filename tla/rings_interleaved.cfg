\* Rings of two periods and a slot.
SPECIFICATION Spec
CONSTANTS
  Channels = 2
  Period = 2
  Capacity = 5
INVARIANTS Interleaved
