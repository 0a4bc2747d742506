\* Playback and capture; a packet may fill more than one callback buffer.
SPECIFICATION FairSpec
CONSTANTS
  FramesPerCb = 2
  BufferFrames = 3
INVARIANTS TypeOK ReleasedUnused WholeOrNothing
PROPERTIES KeepsContract CallsReturn PauseStops KeepsPlaying
