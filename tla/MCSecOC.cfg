\* Five PDUs from 5 modulo 9: the last one carries a wrapped counter.  Two
\* faults of any kind.
SPECIFICATION FairSpec
CONSTANTS
  d1 = d1  d2 = d2
  Data = {d1, d2}
  Mod = 9
  Start = 5
  MaxSends = 5
  MaxBus = 3
  MaxFaults = 2
INVARIANTS
  AcceptedWasSent
  ReportsAreReplays
  RefusalsAreReported
PROPERTIES
  LossIsNotBridged
  EverythingArrives
CHECK_DEADLOCK FALSE
