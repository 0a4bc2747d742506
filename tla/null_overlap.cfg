\* Two injected errors, the second at any time.
SPECIFICATION Spec
CONSTANTS
  MaxRequests = 2
  Afters <- MCAfters
  MaxAfter = 2
INVARIANTS OncePerRequest
