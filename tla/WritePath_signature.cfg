CHECK_DEADLOCK FALSE

CONSTANTS
  CallerId = CallerId
  Attempts = {a1, a2}
  Retries = 2

SPECIFICATION WriteSpec

INVARIANT SignatureCovers
