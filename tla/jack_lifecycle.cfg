\* The process callback need not be called.
SPECIFICATION FairSpec
INVARIANTS TypeOK ReleasedUnused
PROPERTIES KeepsContract ServerEnds CloseReturns KeepsPlaying
