\* Every short format string, with texts of every length that matters.
SPECIFICATION Spec
CONSTANTS
  TBUFFER_MAX_SIZE = 2
  MBUFFER_MAX_SIZE = 4
  BUFFER_MAX_SIZE = 6
  Characters <- MCCharacters
  Modules <- MCModules
  TokenIds <- MCTokenIds
  Formats <- MCFormats
  ModuleFormats <- MCModuleFormats
  Texts <- MCTexts
INVARIANTS IInv BuffersFit PrintsOneLine PrintsABeginning PrintsWhole
