\* A failed build ends the behaviour: deadlock is not an error.
\* The code's three buffers; a device that need not take the sample rate.
SPECIFICATION FairSpec
CONSTANTS
  Buffers = 3
  Deadline = 2
INVARIANTS TypeOK ReleasedUnused BuffersAccounted SilentMeansTold
PROPERTIES KeepsContract CallsReturn KeepsPlaying
CHECK_DEADLOCK FALSE
