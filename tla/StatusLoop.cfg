\* Safety, refinement and liveness, with a clock that may be set.
SPECIFICATION FairSpec
CONSTANTS
  NModules = 3
  Formats <- MCFormats
  MayKeep <- MCMayKeep
  Rate = 2
  MaxStep = 1
INVARIANTS IInv FreshLine OneThreadPerModule FailedRoundIsNotPrinted
PROPERTIES Implements KeepsPrinting
