SPECIFICATION SafeSpec
CONSTANTS
  cap_edram = 5
  sz_aggr_vector = 2
  num_edge_chunk <- MCNumChunk
  start_vertex_of_echunk <- MCStart
  end_vertex_of_echunk <- MCEnd
  EdgeParts <- MCParts
  num_simd = 1
  num_feature_chunk = 1
  sz_slice = 1
  num_input_chunk_ = 1
  num_output_chunk_ = 2
  sz_max_batch = 2
  num_slice = 1
CHECK_DEADLOCK FALSE
INVARIANTS Retained
