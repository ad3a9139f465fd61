SPECIFICATION Spec
CONSTANTS
  Slave = {s1, s2}
  Writer = {w1, w2}
  Driver = driver
  MaxCalls = 4
  MaxFaults = 1
INVARIANTS TypeOK ArrayIsRebuilt StoresHold NoStoreAfterRelease
PROPERTIES RemovalEnds
CHECK_DEADLOCK FALSE
