\* A machine with more than 100 GiB of memory.
SPECIFICATION Spec
CONSTANTS
  TBUFFER_MAX_SIZE = 32
  Amounts <- LargeAmounts
  Sizes <- FewSizes
  Frequencies <- MCFrequencies
  Temperatures <- MCTemperatures
  Brightnesses <- MCBrightnesses
  MaxTicks = 9
  Threshold = 80
INVARIANTS SmartScalesAllValues
