SPECIFICATION Spec
CONSTANTS
  Messages <- MCMessages
  MayFollow <- MCMayFollow
  MaxMessages = 3
  NoTools <- MCNoTools
  FlagSets <- MCFlagSets
  Requests <- MCRequests
  Trusted = TRUE
  MaxTokens = 8
  MaxSaved = 1
  MaxSchemas = 2
  MaxSchemaBytes = 8
  MaxResults = 1
  CompressionEnabled = TRUE
  CalibrationGreen = TRUE
  AllowDosePin = TRUE
  NotSent = NotSent
  Notice <- MCNotice
  Shaped <- MCShaped
  KeyTokens = 2
INVARIANTS
  CacheAccountsAddUp
PROPERTIES
  PrefixSurvives
  CachesAreTransparent
  ResultsBoundedOrRetrievable
CHECK_DEADLOCK FALSE
