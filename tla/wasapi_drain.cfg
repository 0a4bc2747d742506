SPECIFICATION Spec
CONSTANTS
  FramesPerCb = 2
  BufferFrames = 3
INVARIANTS OneAfterPause
