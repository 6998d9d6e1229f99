\* Chunks of two rows of up to four of five vertices, for buffers of two; graphs
\* of three vertices; four cycles of the drivers.
SPECIFICATION CutsSpec
CONSTANTS
  HyConfigs <- MCHyConfigs
  Degrees = {0, 1, 3}
  raw_num_vertex = 5
  num_row = 2
  max_degree = 4
  ele_h_interval = 2
  Structures <- MCStructures
  Mappings <- MCMappings
  Kilo = 2
  graph_num_vertex = 3
  Files <- MCFiles
  SampleSizes = {1, 2}
  PageSizes = {4, 6, 8}
  Traces <- MCTraces
  MaxClk = 4
  Elements = 2
  MaxBases = 3
INVARIANTS ReloadSame
CHECK_DEADLOCK FALSE
