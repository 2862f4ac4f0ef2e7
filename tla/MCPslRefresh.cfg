SPECIFICATION FairSpec
CONSTANTS
  Label <- MCLabel
  Rule <- MCRule
  Names <- MCNames
  EMBEDDED_LIST <- MCEmbedded
  Configs <- MCConfigs
  Lists <- MCLists
  Operated <- MCOperated
  Served <- MCServed
  MaxVersion = 2
  MaxCrashes = 1
  MaxHangups = 1
  NoFile = NoFile
  Torn = Torn
  Idle = Idle
INVARIANTS
  MintableExact
  ChangesTakeEffect
PROPERTIES
  StartsOnItsOwnFile
  StaleIsRefreshed
