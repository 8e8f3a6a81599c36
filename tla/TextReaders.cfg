SPECIFICATION ReadersSpec
CONSTANTS
  Files <- MCFiles
  Urls <- MCUrls
  Tokens <- MCTokens
  Number <- MCNumber
  Tls = TRUE
  MaxStations = 1
  Texts <- MCTexts
  Bytes <- MCBytes
  Unit <- MCUnit
  MaxDepth = 2
  Objects <- MCObjects
CHECK_DEADLOCK FALSE
INVARIANTS
  TypesOK
  PoolIsAsConfigured
  BuiltObjectsReadBack
  ParsesTheGrammar
PROPERTIES
  ReloadKeepsItsWord
