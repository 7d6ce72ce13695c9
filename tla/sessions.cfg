SPECIFICATION Spec
CONSTANTS
  MAX_THREADS = 2
  MaxSignals = 2
  Request <- Requests
CHECK_DEADLOCK FALSE
INVARIANTS InStep HonestReturn OnlyBadAbandoned NoMutualWait SafeShutdown OneSignalIsSafe
PROPERTIES CallReturns ShutsDown
