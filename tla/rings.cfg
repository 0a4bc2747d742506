\* Three channels; a ring of 8 periods keeps one slot free, as jack_rb_size_bytes does.
SPECIFICATION FairSpec
CONSTANTS
  Channels = 3
  Period = 2
  Capacity = 15
INVARIANTS TypeOK NoSampleLost DriftLimited
PROPERTIES KeepsServing
