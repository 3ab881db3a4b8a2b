\* Four networks between which the interface roams at any time.
SPECIFICATION Spec
CONSTANTS
  TBUFFER_MAX_SIZE = 3
  NoNetwork = NoNetwork
  NoLevel = NoLevel
  full = full
  long = long
  short = short
  hidden = hidden
  Networks <- MCNetworks
  Elements <- MCElements
  Levels <- MCLevels
  lb_unk <- MCLabel
  Characters <- MCCharacters
INVARIANTS IInv NameIsOfTheScan StableLinkIsShown
