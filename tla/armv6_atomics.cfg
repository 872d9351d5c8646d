SPECIFICATION FairSpec
CONSTANTS
  Threads = {t1, t2}
  Modulus = 2
  MaxCalls = 2
  MaxLosses = 1
INVARIANTS
  ReservationValid
PROPERTIES
  Linearizable
  Termination
CHECK_DEADLOCK FALSE
