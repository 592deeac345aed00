SPECIFICATION FairSpec
CONSTANTS
  Here = Here
  There = There
  w1 = w1
  w2 = w2
  w3 = w3
  w4 = w4
  Process = {Here, There}
  Write = {w1, w2, w3, w4}
  Home <- Homes
  Stop = Stop
  Nobody = Nobody
  Faults = {"commit", "crash"}
INVARIANT NoLostUpdate
PROPERTIES StoreIsAtomic EveryCallReturns
CHECK_DEADLOCK FALSE
