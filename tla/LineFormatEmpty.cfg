\* A module without a text in the middle of the line.
SPECIFICATION Spec
CONSTANTS
  TBUFFER_MAX_SIZE = 2
  MBUFFER_MAX_SIZE = 4
  BUFFER_MAX_SIZE = 6
  Characters <- MCCharacters
  Modules <- MCModules
  TokenIds <- MCTokenIds
  Formats <- FewFormats
  ModuleFormats <- MCModuleFormats
  Texts <- MCTexts
INVARIANTS PrintsNoEscapedCharacters
