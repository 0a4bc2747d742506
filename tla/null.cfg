\* Two injected errors, the second at any time or after the first was delivered.
SPECIFICATION FairSpec
CONSTANTS
  MaxRequests = 2
  Afters <- MCAfters
  MaxAfter = 2
INVARIANTS TypeOK ReleasedUnused AtMostOnce WholeAndDue
PROPERTIES KeepsContract CloseReturns Delivered KeepsPlaying
