\* Capture and playback on a device that may fault and may stall: HwTick is not fair.
SPECIFICATION FairSpec
CONSTANTS
  Period = 2
  DeviceFaults = TRUE
INVARIANTS TypeOK PausedSilent ReleasedUnused
PROPERTIES KeepsContract CloseReturns KeepsPlaying
