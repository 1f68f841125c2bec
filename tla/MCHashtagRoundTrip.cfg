CONSTANTS
  K1 = K1
  K2 = K2
  C1 = C1
  C2 = C2
  Str <- MCStr
  Urls <- MCUrls
  UrlParse <- MCUrlParse
  Timestamps <- MCTimestamps
  U64Parse <- MCU64Parse
  U64Format <- MCU64Format
  PubKeys <- MCPubKeys
  PubKeyParse <- MCPubKeyParse
  PubKeyFormat <- MCPubKeyFormat
  Coordinates <- MCCoordinates
  CoordinateParse <- MCCoordinateParse
  Ranks <- MCRanks
  U32Parse <- MCU32Parse
  HashtagFormat <- MCHashtagFormat
  Ids <- MCIds
  Descriptions <- MCDescriptions
  Titles <- MCTitles
  Hashtags <- MCMixedCaseHashtags
  BuilderRoles <- MCBuilderRoles
  MaxCalls <- MCMaxCalls
SPECIFICATION LifecycleSpec
INVARIANT HashtagRoundTrip
CHECK_DEADLOCK FALSE
