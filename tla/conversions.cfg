SPECIFICATION ConversionsSpec
CONSTANTS
  Names <- AllNames
  MaxItems = 3
  MaxInt = 8
  Numbers = {"0", "1", "5", "6", "7"}
  Addresses = {"0.0.0.0", "192.0.2.1", "239.0.0.1"}
  Lists <- SomeLists
  OldLists <- SomeOldLists
  Texts <- SomeTexts
  RowsOf <- SomeRows
  RowTexts <- SomeRowTexts
  Durations <- SomeDurations
  DurationTexts <- SomeDurationTexts
  Instants <- SomeInstants
  TimeTexts <- SomeTimeTexts
  Sets <- SomeSets
  OldSets <- SomeOldSets
INVARIANTS
  RangeTextExact
  RowsExact
  TimesExact
  RecurrenceExact
  DocumentsExact
