\* The wakeup that the connection thread can miss.
SPECIFICATION FairSpec
CONSTANTS
  Sinks <- MCSinks
  DaemonMayFail = FALSE
INVARIANTS TimeoutMeansUnconnected
