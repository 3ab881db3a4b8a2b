\* Amounts up to 12.5 GiB and filesystems up to 100 MiB.
SPECIFICATION Spec
CONSTANTS
  TBUFFER_MAX_SIZE = 32
  Amounts <- MCAmounts
  Sizes <- MCSizes
  Frequencies <- MCFrequencies
  Temperatures <- MCTemperatures
  Brightnesses <- MCBrightnesses
  MaxTicks = 9
  Threshold = 80
INVARIANTS IInv LayoutInv MemoryIsReadable SpaceIsReadable FrequencyIsReadable PercentIsOfTheMeasure
  UsageIsOfThePeriod CriticalMatchesPercent TemperatureIsNear
