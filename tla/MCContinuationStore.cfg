CONSTANTS
  i1 = i1
  i2 = i2
  i3 = i3
  s1 = s1
  s2 = s2
  Ids <- MCIds
  Scopes <- MCScopes
  Content <- MCContent
  Size <- MCSize
  TTL = 1
  MaxEntries = 2
  MaxTotalChars = 4
  SegmentChars = 2
  NoEntry = NoEntry
  MaxTime = 2
  MaxOffset = 3
SPECIFICATION StoreSpec
SYMMETRY Symmetry
INVARIANTS
  EntryLimit
  CharLimit
  Retained
  ServedToItsScope
  SegmentsCoverContent
PROPERTY ImplementsRetention
