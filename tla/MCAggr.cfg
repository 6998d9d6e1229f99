SPECIFICATION SafeSpec
CONSTANTS
  cap_edram = 5
  sz_aggr_vector = 2
  num_edge_chunk <- MCNumChunk
  start_vertex_of_echunk <- MCStart
  end_vertex_of_echunk <- MCEnd
  EdgeParts <- MCParts
  num_simd = 2
  num_feature_chunk = 2
  sz_slice = 1
INVARIANTS DrainInOrder CoresApart WriteBackInPlace Accounting DoneComplete
