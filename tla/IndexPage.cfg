\* Names with and without a colon, restarts under three configurations, every fault.
CONSTANTS
  Parts <- MCParts
  AppTokens <- MCAppTokens
  Usernames <- MCUsernames
  Configs <- MCConfigs
  Persistent = TRUE
  Faults = {"redis", "restart"}
SPECIFICATION FairSpec
INVARIANTS
  ShownIsRegistered
  EveryoneIsShown
  MissingForColons
  PageInd
PROPERTIES
  PageIsAnswered
