SPECIFICATION SafeSpec
CONSTANTS
  cap_edram = 5
  sz_aggr_vector = 2
  NumVertex = 4
  num_input_chunk_ = 2
  num_output_chunk_ = 2
  sz_max_batch = 2
  num_slice = 2
INVARIANTS BuffersOwned EventAccounting BatchWindow OutputAccounting
PROPERTIES PipelineSafe
