CONSTANTS
  HashLen = 2
  AccLen = 2
  SigLen = 4
  BalanceBytes = 16
SPECIFICATION Spec
INVARIANT RoundTrip
INVARIANT MalformedRejected
