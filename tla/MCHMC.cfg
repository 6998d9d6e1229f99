SPECIFICATION Spec
CONSTANTS
  Streams <- MCStreams
  GetChannel <- MCGetChannel
  num_links = 2
  xbar_queue_depth = 1
  block_size = 32
  ps_per_logic = 2
  ps_per_dram = 3
  MaxAge = 4
INVARIANTS PortsSound Accounting
PROPERTIES AllAnswered
