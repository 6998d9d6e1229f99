CONSTANTS
  height_ = 2
  width_ = 2
  cap_outbuf_ = 21
  data_bytes_ = 1
  Batches <- MCBatches
  WeightShapes <- MCWeightShapes
SPECIFICATION Spec
INVARIANTS TilesInOrder OutputRoom
PROPERTIES ContractSpec
CHECK_DEADLOCK FALSE
