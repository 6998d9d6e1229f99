CONSTANTS
  Configs <- MCConfigs
  MaxRefresh = 2
  MaxTrans = 5
SPECIFICATION Spec
PROPERTIES AllServed
