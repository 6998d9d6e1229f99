---------------------------- MODULE HyGCN_proofs ----------------------------
(***************************************************************************)
(* Proofs about HyGCN: each engine is what the other one assumes of it, so *)
(* what is proved of an engine in its environment holds of the two         *)
(* together.  The invariants of Aggr_proofs and Comb_proofs are kept side  *)
(* by side: a step of one engine is, given both invariants, a step that    *)
(* the other one allows its environment.                                   *)
(***************************************************************************)
EXTENDS HyGCN, TLAPS

AP == INSTANCE Aggr_proofs WITH
  pc <- aggr_pc, is_done <- aggr_done, pending <- aggr_pending
CP == INSTANCE Comb_proofs WITH
  pc <- comb_pc, is_done <- comb_done, pending <- comb_pending

-----------------------------------------------------------------------------
(* The modules the engines are proved in define what the modules of the    *)
(* engines do.                                                             *)

\* Each instance of a library module has its own copy of what it defines.
LEMMA SameCardinality == \A S : A!Cardinality(S) = AP!Cardinality(S)
  BY DEF A!Cardinality, AP!Cardinality

\* An input buffer that a part is bound to,
LEMMA SameBound ==
  ASSUME NEW b, NEW e, NEW p PROVE A!BoundInbuf(b, e, p) = AP!BoundInbuf(b, e, p)
<1>1. PICK rows : /\ rows = A!Rows(ebuf[e].edge_chunk_id, p)
                  /\ rows = AP!Rows(ebuf[e].edge_chunk_id, p)
  BY DEF A!Rows, AP!Rows
<1>2. A!NonEmpty(rows) = AP!NonEmpty(rows)
  BY DEF A!NonEmpty, AP!NonEmpty
<1>3. A!Neighbors(rows) = AP!Neighbors(rows)
  BY <1>2 DEF A!Neighbors, AP!Neighbors
<1>. QED
  BY <1>1, <1>2, <1>3, SameCardinality DEF A!BoundInbuf, AP!BoundInbuf

\* and the steps that fill one.
LEMMA SameFill == \A e : A!FillInbuf(e) = AP!FillInbuf(e)
  BY SameBound
  DEF A!FillInbuf, AP!FillInbuf, A!GetTargetBuf, AP!GetTargetBuf, A!AddEvents,
      AP!AddEvents, A!None, AP!None

\* The part that is fetched next, for a chunk under way
LEMMA SameFetchPart == A!FetchPart = AP!FetchPart
  BY SameFill
  DEF A!NumPart, AP!NumPart, A!None, AP!None, A!GetTargetBuf, AP!GetTargetBuf,
      A!InbufFree, AP!InbufFree, A!FetchPart, AP!FetchPart

\* and for the chunk that is begun.
LEMMA SameStartChunk == A!StartChunk = AP!StartChunk
  BY SameFill
  DEF A!Advance, AP!Advance, A!StartAggr, AP!StartAggr, A!SpaceFree, AP!SpaceFree,
      A!WillAllocate, AP!WillAllocate, A!NumPart, AP!NumPart, A!None, AP!None,
      A!Bufs, AP!Bufs, A!GetTargetBuf, AP!GetTargetBuf, A!InbufFree, AP!InbufFree,
      A!ReadyEbufs, AP!ReadyEbufs, A!NextEbuf, AP!NextEbuf, A!NumVertexOf,
      AP!NumVertexOf, A!CanStartChunk, AP!CanStartChunk, A!StartChunk,
      AP!StartChunk

\* The events that come back to the aggregation engine,
LEMMA SameAggrReturn == A!Return = AP!Return
  BY DEF A!None, AP!None, A!GetTargetBuf, AP!GetTargetBuf, A!AddEvents,
         AP!AddEvents, A!ReturnEdge, AP!ReturnEdge, A!ReturnInput, AP!ReturnInput,
         A!ReturnAggr, AP!ReturnAggr, A!Return, AP!Return

\* and its tick.
LEMMA SameAggrTick == A!ClockTick = AP!ClockTick
  BY SameFetchPart, SameStartChunk
  DEF A!Advance, AP!Advance, A!ConfirmAggr, AP!ConfirmAggr, A!SpaceFree,
      AP!SpaceFree, A!WillAllocate, AP!WillAllocate, A!Simds, AP!Simds, A!NumPart,
      AP!NumPart, A!None, AP!None, A!Bufs, AP!Bufs, A!IdleEbuf, AP!IdleEbuf,
      A!IdleInbuf, AP!IdleInbuf, A!IdleSimd, AP!IdleSimd, A!GetTargetBuf,
      AP!GetTargetBuf, A!AllBufIdle, AP!AllBufIdle, A!AddEvents, AP!AddEvents,
      A!Tick, AP!Tick, A!NextCore, AP!NextCore, A!TaskEnds, AP!TaskEnds,
      A!SimdComputes, AP!SimdComputes, A!ConfirmPart, AP!ConfirmPart,
      A!SimdWritesBack, AP!SimdWritesBack, A!CanFetchEdges, AP!CanFetchEdges,
      A!FetchEdges, AP!FetchEdges, A!SkipEdges, AP!SkipEdges, A!Halted, AP!Halted,
      A!InbufFree, AP!InbufFree, A!ReadyEbufs, AP!ReadyEbufs, A!NextEbuf,
      AP!NextEbuf, A!NumVertexOf, AP!NumVertexOf, A!CanStartChunk,
      AP!CanStartChunk, A!SkipInput, AP!SkipInput, A!Tasks, AP!Tasks,
      A!StartDraining, AP!StartDraining, A!KeepDraining, AP!KeepDraining,
      A!IdleSimds, AP!IdleSimds, A!GetIdleSIMD, AP!GetIdleSIMD, A!Draining,
      AP!Draining, A!MoreTasks, AP!MoreTasks, A!Depth, AP!Depth, A!SkipVertex,
      AP!SkipVertex, A!NextTask, AP!NextTask, A!AssignTask, AP!AssignTask,
      A!DispatchEnds, AP!DispatchEnds, A!NothingLeft, AP!NothingLeft, A!Finish,
      AP!Finish, A!CombEnds, AP!CombEnds, A!ClockTick, AP!ClockTick

\* The aggregation engine with its environment.
LEMMA SameAggr ==
  /\ A!Init = AP!Init /\ A!vars = AP!vars
  /\ A!Next = (AP!Return \/ AP!ClockTick \/ AP!CombTakes \/ AP!CombReleases)
  /\ AP!Next = (AP!Return \/ AP!ClockTick \/ AP!CombTakes \/ AP!CombReleases)
<1>1. A!Init = AP!Init /\ A!vars = AP!vars
  BY DEF A!InitPtr, AP!InitPtr, A!InitBuf, AP!InitBuf, A!Simds, AP!Simds, A!None,
         AP!None, A!Bufs, AP!Bufs, A!DataType, AP!DataType, A!vars, AP!vars,
         A!IdleEbuf, AP!IdleEbuf, A!IdleInbuf, AP!IdleInbuf, A!IdleSimd,
         AP!IdleSimd, A!Init, AP!Init
<1>2. A!CombTakes = AP!CombTakes /\ A!CombReleases = AP!CombReleases
  BY DEF A!Advance, AP!Advance, A!StartComb, AP!StartComb, A!ConfirmComb,
         AP!ConfirmComb, A!GetReadyVertexNum, AP!GetReadyVertexNum, A!CombTakes,
         AP!CombTakes, A!CombReleases, AP!CombReleases
<1>. QED
  BY <1>1, <1>2, SameAggrReturn, SameAggrTick DEF A!Next, AP!Next

\* The events that come back to the combination engine,
LEMMA SameCombReturn == C!Return = CP!Return
  BY DEF C!chunkVars, CP!chunkVars, C!ptrVars, CP!ptrVars, C!sliceVars,
         CP!sliceVars, C!batchVars, CP!batchVars, C!ConfirmEvent, CP!ConfirmEvent,
         C!ReturnFeature, CP!ReturnFeature, C!ReturnWeight, CP!ReturnWeight,
         C!ReturnOutput, CP!ReturnOutput, C!Return, CP!Return

\* and its tick.
LEMMA SameCombTick == C!ClockTick = CP!ClockTick
  BY DEF C!Advance, CP!Advance, C!StartComb, CP!StartComb, C!ConfirmComb,
         CP!ConfirmComb, C!GetReadyVertexNum, CP!GetReadyVertexNum, C!None,
         CP!None, C!bufVars, CP!bufVars, C!chunkVars, CP!chunkVars, C!ptrVars,
         CP!ptrVars, C!sliceVars, CP!sliceVars, C!batchVars, CP!batchVars,
         C!memVars, CP!memVars, C!GetTargetBuf, CP!GetTargetBuf, C!EventDone,
         CP!EventDone, C!SwitchState, CP!SwitchState, C!SizeOfBatch,
         CP!SizeOfBatch, C!Tick, CP!Tick, C!ArrayWorks, CP!ArrayWorks,
         C!ArrayFinishes, CP!ArrayFinishes, C!UnlockedInput, CP!UnlockedInput,
         C!GetResult, CP!GetResult, C!ReadyForCompute, CP!ReadyForCompute,
         C!FetchNextBlock, CP!FetchNextBlock, C!BlockConfig, CP!BlockConfig,
         C!StartCompute, CP!StartCompute, C!ArrayWaits, CP!ArrayWaits,
         C!NextBatchSize, CP!NextBatchSize, C!BatchVertex, CP!BatchVertex,
         C!KeepBatch, CP!KeepBatch, C!Halted, CP!Halted, C!Fetching, CP!Fetching,
         C!MoreWeights, CP!MoreWeights, C!MoreFeatures, CP!MoreFeatures, C!Fetch,
         CP!Fetch, C!GetReadyForFetch, CP!GetReadyForFetch, C!FetchWaits,
         CP!FetchWaits, C!Writing, CP!Writing, C!WriteFeatures, CP!WriteFeatures,
         C!WriteRow, CP!WriteRow, C!NextBatch, CP!NextBatch, C!BatchOver,
         CP!BatchOver, C!WriteDone, CP!WriteDone, C!WriteWaits, CP!WriteWaits,
         C!Finish, CP!Finish, C!ClockTick, CP!ClockTick

\* The combination engine with its environment.
LEMMA SameComb ==
  /\ C!Init = CP!Init /\ C!vars = CP!vars
  /\ C!Next = (CP!Return \/ CP!AggrReserves \/ CP!AggrPublishes \/ CP!ClockTick)
  /\ CP!Next = (CP!Return \/ CP!AggrReserves \/ CP!AggrPublishes \/ CP!ClockTick)
<1>1. C!Init = CP!Init /\ C!vars = CP!vars
  BY DEF C!InitPtr, CP!InitPtr, C!InitBuf, CP!InitBuf, C!None, CP!None, C!Bufs,
         CP!Bufs, C!bufVars, CP!bufVars, C!chunkVars, CP!chunkVars, C!ptrVars,
         CP!ptrVars, C!sliceVars, CP!sliceVars, C!batchVars, CP!batchVars,
         C!memVars, CP!memVars, C!vars, CP!vars, C!DataType, CP!DataType,
         C!IdleBuf, CP!IdleBuf, C!Init, CP!Init
<1>2. C!AggrReserves = CP!AggrReserves /\ C!AggrPublishes = CP!AggrPublishes
  BY DEF C!Advance, CP!Advance, C!StartAggr, CP!StartAggr, C!ConfirmAggr,
         CP!ConfirmAggr, C!SpaceFree, CP!SpaceFree, C!WillAllocate,
         CP!WillAllocate, C!bufVars, CP!bufVars, C!chunkVars, CP!chunkVars,
         C!ptrVars, CP!ptrVars, C!sliceVars, CP!sliceVars, C!batchVars,
         CP!batchVars, C!memVars, CP!memVars, C!AggrReserves, CP!AggrReserves,
         C!AggrPublishes, CP!AggrPublishes
<1>. QED
  BY <1>1, <1>2, SameCombReturn, SameCombTick DEF C!Next, CP!Next

-----------------------------------------------------------------------------
(* What is proved of each engine.                                          *)

\* The sizes are as each engine assumes them.
LEMMA Assumptions ==
  /\ AP!AggrBufAssumption /\ AP!AggrAssumption
  /\ CP!AggrBufAssumption /\ CP!CombAssumption
  BY HyGCNAssumption
  DEF A!AggrBufAssumption, AP!AggrBufAssumption, A!AggrAssumption, AP!AggrAssumption,
      A!Chunks, AP!Chunks, A!ChunkSize, AP!ChunkSize, A!NumPart, AP!NumPart, A!Rows,
      AP!Rows, A!NonEmpty, AP!NonEmpty,
      CP!AggrBufAssumption, C!CombAssumption, CP!CombAssumption

\* The aggregation engine keeps its invariant, moves only its own two pointers,
\* and is owed nothing when it is done.
LEMMA AggrFacts ==
  /\ AP!Init => AP!IInv
  /\ AP!IInv /\ [AP!Next]_AP!vars => AP!IInv'
  /\ AP!IInv /\ AP!ClockTick => aggr_buf' = aggr_buf \/ AP!Reserves \/ AP!Publishes
  /\ AP!IInv /\ aggr_done => aggr_pending = [t \in AP!DataType |-> 0]
<1>1. AP!AggrBufAssumption /\ AP!AggrAssumption
  BY Assumptions
<1>2. AP!Init => AP!IInv
  BY <1>1, AP!Initial DEF AP!AggrBufAssumption, AP!AggrAssumption
<1>3. AP!IInv /\ [AP!Next]_AP!vars => AP!IInv'
  BY <1>1, AP!NextInv DEF AP!AggrBufAssumption, AP!AggrAssumption
<1>4. AP!IInv /\ AP!ClockTick => aggr_buf' = aggr_buf \/ AP!Reserves \/ AP!Publishes
  BY <1>1, AP!TickAtRing DEF AP!AggrBufAssumption, AP!AggrAssumption
<1>5. AP!IInv /\ aggr_done => aggr_pending = [t \in AP!DataType |-> 0]
  BY <1>1, AP!DoneFacts DEF AP!AggrBufAssumption, AP!AggrAssumption
<1>. QED
  BY <1>2, <1>3, <1>4, <1>5

\* The combination engine keeps its invariant and the account of its rows, moves
\* only its own two pointers, and has released every vertex when it is done,
\* with at most the last block unwritten.
LEMMA CombFacts ==
  /\ CP!Init => CP!IInv /\ CP!RowInv
  /\ CP!IInv /\ [CP!Next]_CP!vars => CP!IInv'
  /\ CP!IInv /\ CP!RowInv /\ [CP!Next]_CP!vars => CP!RowInv'
  /\ CP!IInv /\ CP!ClockTick => aggr_buf' = aggr_buf \/ CP!Takes \/ CP!Releases
  /\ CP!IInv /\ comb_done =>
       /\ aggr_buf.done_ptr.first = NumVertex /\ aggr_buf.aggr_ptr.first = NumVertex
       /\ comb_pending["AGGR_FEATURE"] = 0 /\ comb_pending["WEIGHT"] = 0
  /\ CP!IInv /\ CP!RowInv /\ comb_done =>
       /\ output_cnt + CP!RowsUnwritten = NumVertex * CP!NumBlock
       /\ CP!RowsUnwritten <= CP!SizeOfBatch
       /\ array.state # "IDLE" =>
            /\ array.input_chunk = num_input_chunk_ - 1
            /\ array.output_chunk = num_output_chunk_ - 1
<1>1. CP!AggrBufAssumption /\ CP!CombAssumption
  BY Assumptions
<1>2. CP!Init => CP!IInv /\ CP!RowInv
  BY <1>1, CP!InitInv, CP!InitRows DEF CP!AggrBufAssumption, CP!CombAssumption
<1>3. CP!IInv /\ [CP!Next]_CP!vars => CP!IInv'
  BY <1>1, CP!NextInv DEF CP!AggrBufAssumption, CP!CombAssumption
<1>4. CP!IInv /\ CP!ClockTick => aggr_buf' = aggr_buf \/ CP!Takes \/ CP!Releases
  BY <1>1, CP!TickAtRing DEF CP!AggrBufAssumption, CP!CombAssumption
<1>5. CP!IInv /\ comb_done =>
        /\ aggr_buf.done_ptr.first = NumVertex /\ aggr_buf.aggr_ptr.first = NumVertex
        /\ comb_pending["AGGR_FEATURE"] = 0 /\ comb_pending["WEIGHT"] = 0
  BY <1>1, CP!DoneFacts DEF CP!AggrBufAssumption, CP!CombAssumption
<1>6. CP!IInv /\ CP!RowInv /\ [CP!Next]_CP!vars => CP!RowInv'
  BY <1>1, CP!NextRows DEF CP!AggrBufAssumption, CP!CombAssumption
<1>7. CP!IInv /\ CP!RowInv /\ comb_done =>
        /\ output_cnt + CP!RowsUnwritten = NumVertex * CP!NumBlock
        /\ CP!RowsUnwritten <= CP!SizeOfBatch
        /\ array.state # "IDLE" =>
             /\ array.input_chunk = num_input_chunk_ - 1
             /\ array.output_chunk = num_output_chunk_ - 1
  BY <1>1, CP!DoneRows DEF CP!AggrBufAssumption, CP!CombAssumption
<1>. QED
  BY <1>2, <1>3, <1>4, <1>5, <1>6, <1>7

-----------------------------------------------------------------------------
(* Each engine is what the other one assumes.                              *)

BothInv == AP!IInv /\ CP!IInv /\ CP!RowInv

\* A step of the accelerator is, for the aggregation engine, one of its own or
\* one it allows the combination engine: that takes a batch of what has been
\* published when it has none, and releases the one it has as a whole.
LEMMA AggrStep == ASSUME BothInv, [Next]_vars PROVE [AP!Next]_AP!vars
<1>1. CASE AggrReturn
  BY <1>1, SameAggr, SameAggrReturn DEF AggrReturn
<1>2. CASE CombReturn
  BY <1>2 DEF CombReturn, aggrVars, AP!vars, C!Return, C!ReturnFeature,
              C!ReturnWeight, C!ReturnOutput
<1>3. CASE AggrTick
  BY <1>3, SameAggr, SameAggrTick DEF AggrTick
<1>4. CASE CombTick
  <2>1. /\ aggr_pc = "comb" /\ CP!ClockTick
        /\ aggr_pc' = IF comb_pc' = "return" THEN "return" ELSE "comb"
        /\ UNCHANGED aggrVars
    BY <1>4, SameCombTick DEF CombTick
  <2>2. CASE aggr_buf' = aggr_buf /\ comb_pc' = "return"
    <3>1. AP!CombEnds
      BY <2>1, <2>2 DEF AP!CombEnds, aggrVars
    <3>. QED
      BY <3>1, SameAggr DEF AP!ClockTick
  <2>3. CASE aggr_buf' = aggr_buf /\ comb_pc' # "return"
    BY <2>1, <2>3 DEF aggrVars, AP!vars
  <2>4. CASE CP!Takes
    <3>1. AP!CombTakes
      BY <2>1, <2>4
      DEF CP!Takes, CP!GetReadyVertexNum, CP!StartComb, CP!Advance, aggrVars,
          AP!CombTakes, AP!GetReadyVertexNum, AP!StartComb, AP!Advance
    <3>. QED
      BY <3>1, SameAggr
  <2>5. CASE CP!Releases
    <3>1. AP!CombReleases
      BY <2>1, <2>5
      DEF CP!Releases, CP!ConfirmComb, CP!Advance, aggrVars,
          AP!CombReleases, AP!ConfirmComb, AP!Advance
    <3>. QED
      BY <3>1, SameAggr
  <2>. QED
    BY <2>1, <2>2, <2>3, <2>4, <2>5, CombFacts DEF BothInv
<1>5. CASE UNCHANGED vars
  BY <1>5 DEF vars, aggrVars, AP!vars
<1>. QED
  BY <1>1, <1>2, <1>3, <1>4, <1>5 DEF Next

\* For the combination engine it is one of its own or one it allows the
\* aggregation engine: that reserves a chunk inside the layer, when the ring
\* will take it and the one before has been published, and publishes it whole.
LEMMA CombStep == ASSUME BothInv, [Next]_vars PROVE [CP!Next]_CP!vars
<1>. USE DEF combVars, CP!vars, CP!bufVars, CP!chunkVars, CP!ptrVars, CP!sliceVars,
             CP!batchVars, CP!memVars
<1>1. CASE AggrReturn
  BY <1>1 DEF AggrReturn, A!Return, A!ReturnEdge, A!ReturnInput, A!ReturnAggr
<1>2. CASE CombReturn
  BY <1>2, SameComb, SameCombReturn DEF CombReturn
<1>3. CASE AggrTick
  <2>1. comb_pc = "return" /\ AP!ClockTick /\ UNCHANGED <<comb_pc, combVars>>
    BY <1>3, SameAggrTick DEF AggrTick
  <2>2. CASE aggr_buf' = aggr_buf
    BY <2>1, <2>2
  <2>3. CASE AP!Reserves
    <3>1. CP!AggrReserves
      BY <2>1, <2>3
      DEF AP!Reserves, AP!NumVertex, AP!WillAllocate, AP!SpaceFree, AP!StartAggr,
          AP!Advance, NumVertex, A!NumVertex,
          CP!AggrReserves, CP!WillAllocate, CP!SpaceFree, CP!StartAggr, CP!Advance
    <3>. QED
      BY <3>1, SameComb
  <2>4. CASE AP!Publishes
    <3>1. CP!AggrPublishes
      BY <2>1, <2>4
      DEF AP!Publishes, AP!ConfirmAggr, AP!Advance,
          CP!AggrPublishes, CP!ConfirmAggr, CP!Advance
    <3>. QED
      BY <3>1, SameComb
  <2>. QED
    BY <2>1, <2>2, <2>3, <2>4, AggrFacts DEF BothInv
<1>4. CASE CombTick
  BY <1>4, SameComb, SameCombTick DEF CombTick
<1>5. CASE UNCHANGED vars
  BY <1>5 DEF vars
<1>. QED
  BY <1>1, <1>2, <1>3, <1>4, <1>5 DEF Next

\* The two invariants hold side by side, whatever the layer, the graph and the
\* sizes.
THEOREM Invariance == SafeSpec => []BothInv
<1>1. Init => BothInv
  BY AggrFacts, CombFacts, SameAggr, SameComb DEF Init, BothInv
<1>2. ASSUME BothInv, [Next]_vars PROVE BothInv'
  BY <1>2, AggrStep, CombStep, AggrFacts, CombFacts DEF BothInv
<1>. QED
  BY <1>1, <1>2, PTL DEF SafeSpec

\* What Aggr assumes of the combination engine and Comb of the aggregation
\* engine is what the other one does: the accelerator implements both.
THEOREM EachAsAssumed == SafeSpec => A!SafeSpec /\ C!SafeSpec
<1>1. Init => A!Init /\ C!Init
  BY DEF Init
<1>2. ASSUME BothInv, [Next]_vars PROVE [A!Next]_A!vars
  <2>1. [AP!Next]_AP!vars
    BY <1>2, AggrStep
  <2>2. AP!Next => A!Next
    BY SameAggr
  <2>3. UNCHANGED AP!vars => UNCHANGED A!vars
    BY DEF A!vars, AP!vars
  <2>. QED
    BY <2>1, <2>2, <2>3
<1>3. ASSUME BothInv, [Next]_vars PROVE [C!Next]_C!vars
  <2>1. [CP!Next]_CP!vars
    BY <1>3, CombStep
  <2>2. CP!Next => C!Next
    BY SameComb
  <2>3. UNCHANGED CP!vars => UNCHANGED C!vars
    BY DEF C!vars, CP!vars,
        C!bufVars, CP!bufVars, C!chunkVars, CP!chunkVars, C!ptrVars, CP!ptrVars, C!sliceVars, CP!sliceVars, C!batchVars, CP!batchVars, C!memVars, CP!memVars
  <2>. QED
    BY <2>1, <2>2, <2>3
<1>. QED
  BY <1>1, <1>2, <1>3, Invariance, PTL DEF SafeSpec, A!SafeSpec, C!SafeSpec

-----------------------------------------------------------------------------
(* What follows for the accelerator.                                       *)

\* The rows are counted alike.
LEMMA SameRows ==
  /\ C!RowsUnwritten = CP!RowsUnwritten
  /\ C!NumBlock = CP!NumBlock /\ C!SizeOfBatch = CP!SizeOfBatch
  BY DEF C!RowsUnwritten, CP!RowsUnwritten, C!RowsToWrite, CP!RowsToWrite,
         C!RowsInArray, CP!RowsInArray, C!Writing, CP!Writing, C!None, CP!None,
         C!NumBlock, CP!NumBlock, C!SizeOfBatch, CP!SizeOfBatch

\* When the main loop ends (test.cpp:49), both engines have released every
\* vertex, no read is owed, and every block of the result but the last one of
\* the last batch has been issued: what the early end (comb.cpp:167) can cost
\* is bounded by one block, whatever the layer, the graph and the sizes.
THEOREM AtMostLastBlockMissing == SafeSpec => []DoneTogether
<1>1. ASSUME BothInv, IsDone PROVE DoneTogether
  <2>1. /\ aggr_buf.done_ptr.first = NumVertex /\ aggr_buf.aggr_ptr.first = NumVertex
        /\ comb_pending["AGGR_FEATURE"] = 0 /\ comb_pending["WEIGHT"] = 0
    BY <1>1, CombFacts DEF BothInv, IsDone
  <2>2. aggr_pending = [t \in AP!DataType |-> 0]
    BY <1>1, AggrFacts DEF BothInv, IsDone
  <2>3. /\ output_cnt + C!RowsUnwritten = NumVertex * C!NumBlock
        /\ C!RowsUnwritten <= C!SizeOfBatch
        /\ array.state # "IDLE" =>
             /\ array.input_chunk = num_input_chunk_ - 1
             /\ array.output_chunk = num_output_chunk_ - 1
    BY <1>1, CombFacts, SameRows DEF BothInv, IsDone
  <2>. QED
    BY <2>1, <2>2, <2>3 DEF DoneTogether
<1>2. BothInv => DoneTogether
  BY <1>1 DEF DoneTogether
<1>. QED
  BY <1>2, Invariance, PTL

\* The two engines together implement the safety part of VertexPipeline, with
\* nothing left to an environment.
THEOREM ImplementsPipeline == SafeSpec => Pipeline!SafeSpec
<1>1. CP!AggrBufAssumption /\ CP!CombAssumption
  BY Assumptions
<1>2. CP!SafeSpec => CP!PipelineSafe
  BY <1>1, CP!ImplementsPipeline DEF CP!AggrBufAssumption, CP!CombAssumption
<1>3. SafeSpec => CP!SafeSpec
  <2>1. Init => CP!Init
    BY SameComb DEF Init
  <2>2. BothInv /\ [Next]_vars => [CP!Next]_CP!vars
    BY CombStep
  <2>. QED
    BY <2>1, <2>2, Invariance, PTL DEF SafeSpec, CP!SafeSpec
<1>4. CP!Pipeline!Init => Pipeline!Init
  BY DEF CP!Pipeline!Init, Pipeline!Init
<1>5. [CP!Pipeline!Next]_CP!Pipeline!vars => [Pipeline!Next]_Pipeline!vars
  BY DEF CP!Pipeline!Next, CP!Pipeline!Reserve, CP!Pipeline!Publish, CP!Pipeline!Take,
         CP!Pipeline!Release, CP!Pipeline!vars,
         Pipeline!Next, Pipeline!Reserve, Pipeline!Publish, Pipeline!Take,
         Pipeline!Release, Pipeline!vars
<1>. QED
  BY <1>2, <1>3, <1>4, <1>5, PTL
  DEF CP!PipelineSafe, CP!Pipeline!SafeSpec, Pipeline!SafeSpec

-----------------------------------------------------------------------------
(* The ring's addresses.                                                   *)

\* The four addresses of the ring are where their vertex counts put them.
OnRingAll ==
  /\ A!OnRing(aggr_buf.aggr_ptr) /\ A!OnRing(aggr_buf.ready_ptr)
  /\ A!OnRing(aggr_buf.comb_ptr) /\ A!OnRing(aggr_buf.done_ptr)

\* What an operation does to the four pointers.
LEMMA OnRingAdvances ==
  ASSUME NEW buf \in AP!AggrBufType, NEW n \in Nat
  PROVE  /\ AP!OnRing(buf.aggr_ptr) => AP!OnRing(AP!StartAggr(buf, n).aggr_ptr)
         /\ AP!OnRing(buf.ready_ptr) => AP!OnRing(AP!ConfirmAggr(buf, n).ready_ptr)
         /\ AP!OnRing(buf.comb_ptr) => AP!OnRing(AP!StartComb(buf, n).comb_ptr)
         /\ AP!OnRing(buf.done_ptr) => AP!OnRing(AP!ConfirmComb(buf, n).done_ptr)
<1>1. AP!AggrBufAssumption /\ AP!AggrAssumption
  BY Assumptions
<1>2. /\ buf.aggr_ptr \in AP!Ptr /\ buf.ready_ptr \in AP!Ptr
      /\ buf.comb_ptr \in AP!Ptr /\ buf.done_ptr \in AP!Ptr
  BY DEF AP!AggrBufType
<1>3. \A ptr \in AP!Ptr : AP!OnRing(ptr) => AP!OnRing(AP!Advance(ptr, n))
  BY <1>1, AP!AdvanceOnRing DEF AP!AggrBufAssumption, AP!AggrAssumption
<1>4. /\ AP!StartAggr(buf, n).aggr_ptr = AP!Advance(buf.aggr_ptr, n)
      /\ AP!ConfirmAggr(buf, n).ready_ptr = AP!Advance(buf.ready_ptr, n)
      /\ AP!StartComb(buf, n).comb_ptr = AP!Advance(buf.comb_ptr, n)
      /\ AP!ConfirmComb(buf, n).done_ptr = AP!Advance(buf.done_ptr, n)
  BY DEF AP!AggrBufType, AP!StartAggr, AP!ConfirmAggr, AP!StartComb, AP!ConfirmComb
<1>. QED
  BY <1>2, <1>3, <1>4

\* The byte addresses of the ring stay where the vertex counts put them, for
\* every capacity and vector size, whether or not one divides the other, and
\* through any number of turns of either engine.
THEOREM RingAddresses == SafeSpec => []OnRingAll
<1>1. Init => OnRingAll
  <2>1. cap_edram \in Nat \ {0} /\ sz_aggr_vector \in Nat \ {0}
    BY HyGCNAssumption DEF A!AggrBufAssumption
  <2>2. 0 * sz_aggr_vector = 0 /\ 0 % cap_edram = 0
    BY <2>1
  <2>. QED
    BY <2>2 DEF Init, A!Init, A!InitBuf, A!InitPtr, OnRingAll, A!OnRing, A!RingAddr
<1>2. ASSUME BothInv, OnRingAll, [Next]_vars PROVE OnRingAll'
  <2>. PICK buf : buf = aggr_buf
    OBVIOUS
  <2>. PICK new : new = aggr_buf'
    OBVIOUS
  <2>1. buf \in AP!AggrBufType
    BY <1>2 DEF BothInv, AP!IInv, AP!TypeInv
  <2>2. \/ new = buf
        \/ \E n \in Nat : \/ new = AP!StartAggr(buf, n) \/ new = AP!ConfirmAggr(buf, n)
                          \/ new = AP!StartComb(buf, n) \/ new = AP!ConfirmComb(buf, n)
    <3>1. CP!IInv /\ [CP!Next]_CP!vars
      BY <1>2, CombStep DEF BothInv
    <3>2. \/ new = buf
          \/ \E n \in Nat : \/ new = CP!StartAggr(buf, n) \/ new = CP!ConfirmAggr(buf, n)
                            \/ new = CP!StartComb(buf, n) \/ new = CP!ConfirmComb(buf, n)
      BY <3>1, Assumptions, CP!RingStep DEF CP!AggrBufAssumption, CP!CombAssumption
    <3>3. \A n : /\ CP!StartAggr(buf, n) = AP!StartAggr(buf, n)
                 /\ CP!ConfirmAggr(buf, n) = AP!ConfirmAggr(buf, n)
                 /\ CP!StartComb(buf, n) = AP!StartComb(buf, n)
                 /\ CP!ConfirmComb(buf, n) = AP!ConfirmComb(buf, n)
      BY DEF CP!StartAggr, AP!StartAggr, CP!ConfirmAggr, AP!ConfirmAggr, CP!StartComb,
             AP!StartComb, CP!ConfirmComb, AP!ConfirmComb, CP!Advance, AP!Advance
    <3>. QED
      BY <3>2, <3>3
  <2>3. /\ AP!OnRing(buf.aggr_ptr) /\ AP!OnRing(buf.ready_ptr)
        /\ AP!OnRing(buf.comb_ptr) /\ AP!OnRing(buf.done_ptr)
    BY <1>2 DEF OnRingAll, A!OnRing, A!RingAddr, AP!OnRing, AP!RingAddr
  <2>4. /\ AP!OnRing(new.aggr_ptr) /\ AP!OnRing(new.ready_ptr)
        /\ AP!OnRing(new.comb_ptr) /\ AP!OnRing(new.done_ptr)
    <3>1. CASE new = buf
      BY <2>3, <3>1
    <3>2. ASSUME NEW n \in Nat,
                 \/ new = AP!StartAggr(buf, n) \/ new = AP!ConfirmAggr(buf, n)
                 \/ new = AP!StartComb(buf, n) \/ new = AP!ConfirmComb(buf, n)
          PROVE  /\ AP!OnRing(new.aggr_ptr) /\ AP!OnRing(new.ready_ptr)
                 /\ AP!OnRing(new.comb_ptr) /\ AP!OnRing(new.done_ptr)
      BY <2>1, <2>3, <3>2, OnRingAdvances
      DEF AP!AggrBufType, AP!StartAggr, AP!ConfirmAggr, AP!StartComb, AP!ConfirmComb
    <3>. QED
      BY <2>2, <3>1, <3>2
  <2>. QED
    BY <2>4 DEF OnRingAll, A!OnRing, A!RingAddr, AP!OnRing, AP!RingAddr
<1>. QED
  BY <1>1, <1>2, Invariance, PTL DEF SafeSpec
=============================================================================
