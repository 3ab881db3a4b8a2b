\* The connection lost while a round waits for its answer.
SPECIFICATION FairSpec
CONSTANTS
  Sinks <- MCSinks
  DaemonMayFail = TRUE
PROPERTIES RoundAlwaysEnds
