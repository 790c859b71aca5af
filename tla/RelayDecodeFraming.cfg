\* Relays with a wrong length prefix or a trailing byte: the run is
\* expected to report FramingViolationRejected violated.
CONSTANTS
  HashLen = 2
  AccLen = 2
  SigLen = 4
  BalanceBytes = 16
SPECIFICATION Spec
INVARIANT FramingViolationRejected
