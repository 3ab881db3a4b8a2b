\* Safety and liveness, with a daemon that may go away at any time.
SPECIFICATION FairSpec
CONSTANTS
  Sinks <- MCSinks
  DaemonMayFail = TRUE
INVARIANTS IInv ShowsThisRound NoRequestBeforeReady
PROPERTIES Implements WritesOnlyWhileAwaited InitEnds RoundEnds
