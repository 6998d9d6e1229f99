CONSTANTS
  out1 = out1
  out2 = out2
  edge1 = edge1
  read1 = read1
  write1 = write1
  Event <- MCEvent
  QueueOf <- MCQueueOf
  Address <- MCAddress
  NumTrans <- MCNumTrans
  cap_edram = 3
  trans_per_clock = 2
SPECIFICATION Spec
INVARIANTS CallbackFinds TransAccounting ReturnedOnce RingInOrder
PROPERTIES ContractSpec
