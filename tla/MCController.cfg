CONSTANTS
  Configs <- MCConfigs
  MaxRefresh = 2
  MaxTrans = 5
SPECIFICATION Spec
INVARIANTS TransactionsAccounted ActivationWindow
PROPERTIES RefreshUndisturbed SameAddressInOrder Served
