-------------------------------- MODULE Comb --------------------------------
(***************************************************************************)
(* The combination engine (dataflow/comb.cpp).  It takes batches of        *)
(* aggregated vertices out of the aggregation buffer, multiplies each      *)
(* batch with the layer's weight matrix on the systolic array, block by    *)
(* block (input chunk by output chunk), and writes every product block     *)
(* out.  Input, weight and output buffers are double: one block is fetched *)
(* while the array works on another and the result of a third is written.  *)
(*                                                                         *)
(* One clock tick of the engine is a chain of steps, in the code's order,  *)
(* that the variable pc walks through:                                     *)
(*                                                                         *)
(*   return -> tick -> array -> batch -> fetch -> write -> finish          *)
(*                                                                         *)
(* "return" is the rest of HyGCN::ClockTick: memory hands back the events  *)
(* it has served, in any number and order, and the aggregation engine,     *)
(* here an environment, moves its two pointers.  The array is the abstract *)
(* one: once started it is done after some ticks.                          *)
(***************************************************************************)
EXTENDS AggrBuf

CONSTANTS
  NumVertex,          \* raw_graph.num_vertex, the halting vertex
  num_input_chunk_,   \* chunks the rows of the weight matrix are cut into
  num_output_chunk_,  \* chunks its columns are cut into
  sz_max_batch,       \* vertices of one batch at most
  num_slice           \* weight rows of one block, ele_comb_h_chunk

\* TileConfig leaves the program when sz_comb_batch <= 1; the chunk counts
\* are ceilings of positive quotients.
ASSUME CombAssumption ==
  /\ NumVertex \in Nat \ {0}
  /\ num_input_chunk_ \in Nat \ {0}
  /\ num_output_chunk_ \in Nat \ {0}
  /\ sz_max_batch \in Nat \ {0, 1}
  /\ num_slice \in Nat \ {0}

None == -1       \* the null buffer index
Bufs == 0..1     \* every buffer is double

SPMState == {"FILLING", "READY", "DRAINING", "WRITING", "IDLE"}
ArrayState == {"BUSY", "DONE", "IDLE"}
PC == {"return", "tick", "array", "batch", "fetch", "write", "finish"}

VARIABLES
  pc,
  inbuf_, wbuf_, outbuf_,      \* the three pairs of SPM buffers
  input_chunk_cnt_, output_chunk_cnt_,
  i_slice_cnt_, w_slice_cnt_, o_slice_cnt_,
  inbuf_ptr_, wbuf_ptr_,       \* the buffers being filled, or None
  filling_outbuf_ptr_,         \* the one the array fills
  writing_outbuf_ptr_,         \* the one being written out, or None
  enable_fetch_,
  start_vertex, end_vertex, vertex_ptr,
  is_done,
  array,                       \* the systolic array and the block it holds
  aggr_buf,
  pending,                     \* events of each type that memory still owes
  output_cnt                   \* OUTPUT_FEATURE events issued in the layer

bufVars == <<inbuf_, wbuf_, outbuf_>>
chunkVars == <<input_chunk_cnt_, output_chunk_cnt_>>
ptrVars == <<inbuf_ptr_, wbuf_ptr_, filling_outbuf_ptr_, writing_outbuf_ptr_>>
sliceVars == <<i_slice_cnt_, w_slice_cnt_, o_slice_cnt_>>
batchVars == <<start_vertex, end_vertex, vertex_ptr>>
memVars == <<pending, output_cnt>>
vars == <<pc, bufVars, chunkVars, ptrVars, sliceVars, enable_fetch_,
          batchVars, is_done, array, aggr_buf, memVars>>

\* Every event of a combination has one of these data types.
DataType == {"AGGR_FEATURE", "WEIGHT", "OUTPUT_FEATURE"}

IdleBuf == [state |-> "IDLE", event_cnt |-> 0, matrix_h |-> 0]

Init ==
  /\ pc = "return"
  /\ inbuf_ = [i \in Bufs |-> IdleBuf]
  /\ wbuf_ = [i \in Bufs |-> IdleBuf]
  /\ outbuf_ = [i \in Bufs |-> IdleBuf]
  /\ input_chunk_cnt_ = 0 /\ output_chunk_cnt_ = 0
  /\ i_slice_cnt_ = 0 /\ w_slice_cnt_ = 0 /\ o_slice_cnt_ = 0
  /\ inbuf_ptr_ = None /\ wbuf_ptr_ = None
  /\ filling_outbuf_ptr_ = None /\ writing_outbuf_ptr_ = None
  /\ enable_fetch_ = TRUE
  /\ start_vertex = 0 /\ end_vertex = 0 /\ vertex_ptr = 0
  /\ is_done = FALSE
  /\ array = [state |-> "IDLE", cur_inbuf |-> None, cur_wbuf |-> None,
              cur_outbuf |-> None, input_chunk |-> 0, output_chunk |-> 0]
  /\ aggr_buf = InitBuf
  /\ pending = [t \in DataType |-> 0]
  /\ output_cnt = 0

-----------------------------------------------------------------------------
\* The first buffer of a pair in the given state, None when there is none.
GetTargetBuf(bufs, state) ==
  IF bufs[0].state = state THEN 0
  ELSE IF bufs[1].state = state THEN 1 ELSE None

\* Mutant: a buffer is done one event too early.
EventDone_Early(buf) == buf.event_cnt <= 1

EventDone(buf) == buf.event_cnt = 0
ConfirmEvent(bufs, i) == [bufs EXCEPT ![i].event_cnt = @ - 1]
SwitchState(bufs, i, state) == [bufs EXCEPT ![i].state = state]

SizeOfBatch == end_vertex - start_vertex

-----------------------------------------------------------------------------
(* The rest of the clock tick: memory, and the aggregation engine.         *)

\* Memory returns an event; HyGCN routes it here.  Each handler finds its
\* buffer by the pointer the engine holds at this moment.
ReturnFeature ==
  /\ pc = "return" /\ pending["AGGR_FEATURE"] > 0
  /\ pending' = [pending EXCEPT !["AGGR_FEATURE"] = @ - 1]
  /\ inbuf_' = ConfirmEvent(inbuf_, inbuf_ptr_)
  /\ UNCHANGED <<pc, wbuf_, outbuf_, chunkVars, ptrVars, sliceVars,
                 enable_fetch_, batchVars, is_done, array, aggr_buf, output_cnt>>

ReturnWeight ==
  /\ pc = "return" /\ pending["WEIGHT"] > 0
  /\ pending' = [pending EXCEPT !["WEIGHT"] = @ - 1]
  /\ wbuf_' = ConfirmEvent(wbuf_, wbuf_ptr_)
  /\ UNCHANGED <<pc, inbuf_, outbuf_, chunkVars, ptrVars, sliceVars,
                 enable_fetch_, batchVars, is_done, array, aggr_buf, output_cnt>>

ReturnOutput ==
  /\ pc = "return" /\ pending["OUTPUT_FEATURE"] > 0
  /\ pending' = [pending EXCEPT !["OUTPUT_FEATURE"] = @ - 1]
  /\ outbuf_' = ConfirmEvent(outbuf_, writing_outbuf_ptr_)
  /\ UNCHANGED <<pc, inbuf_, wbuf_, chunkVars, ptrVars, sliceVars,
                 enable_fetch_, batchVars, is_done, array, aggr_buf, output_cnt>>

\* The aggregation engine reserves a chunk when WillAllocate lets it, and later
\* publishes it whole.
AggrReserves ==
  /\ pc = "return"
  /\ aggr_buf.ready_ptr.first = aggr_buf.aggr_ptr.first
  /\ \E n \in 1..(NumVertex - aggr_buf.aggr_ptr.first) :
       WillAllocate(aggr_buf, n) /\ aggr_buf' = StartAggr(aggr_buf, n)
  /\ UNCHANGED <<pc, bufVars, chunkVars, ptrVars, sliceVars, enable_fetch_,
                 batchVars, is_done, array, memVars>>

AggrPublishes ==
  /\ pc = "return"
  /\ aggr_buf.ready_ptr.first # aggr_buf.aggr_ptr.first
  /\ aggr_buf' = ConfirmAggr(aggr_buf,
                   aggr_buf.aggr_ptr.first - aggr_buf.ready_ptr.first)
  /\ UNCHANGED <<pc, bufVars, chunkVars, ptrVars, sliceVars, enable_fetch_,
                 batchVars, is_done, array, memVars>>

Tick ==
  /\ pc = "return"
  /\ pc' = "tick"
  /\ UNCHANGED <<bufVars, chunkVars, ptrVars, sliceVars, enable_fetch_,
                 batchVars, is_done, array, aggr_buf, memVars>>

-----------------------------------------------------------------------------
(* Comb::ClockTick, first part: the array.                                 *)

ArrayWorks ==
  /\ pc = "tick"
  /\ pc' = "array"
  /\ UNCHANGED <<bufVars, chunkVars, ptrVars, sliceVars, enable_fetch_,
                 batchVars, is_done, array, aggr_buf, memVars>>

ArrayFinishes ==
  /\ pc = "tick" /\ array.state = "BUSY"
  /\ array' = [array EXCEPT !.state = "DONE"]
  /\ pc' = "array"
  /\ UNCHANGED <<bufVars, chunkVars, ptrVars, sliceVars, enable_fetch_,
                 batchVars, is_done, aggr_buf, memVars>>

\* Mutant: the input buffer is given back after every block.
UnlockedInput_Idle == "IDLE"

\* What becomes of the input buffer of a finished block: it is kept as long
\* as the batch has another output chunk to compute from it.
UnlockedInput ==
  IF array.output_chunk = num_output_chunk_ - 1 THEN "IDLE" ELSE "READY"

\* A finished block leaves the array once no other block is being written.
GetResult ==
  /\ pc = "array" /\ array.state = "DONE" /\ writing_outbuf_ptr_ = None
  /\ array' = [array EXCEPT !.state = "IDLE"]
  /\ inbuf_' = SwitchState(inbuf_, array.cur_inbuf, UnlockedInput)
  /\ wbuf_' = SwitchState(wbuf_, array.cur_wbuf, "IDLE")
  /\ outbuf_' = SwitchState(outbuf_, array.cur_outbuf, "WRITING")
  /\ o_slice_cnt_' = 0
  /\ writing_outbuf_ptr_' = filling_outbuf_ptr_
  /\ pc' = "batch"
  /\ UNCHANGED <<chunkVars, inbuf_ptr_, wbuf_ptr_, filling_outbuf_ptr_,
                 i_slice_cnt_, w_slice_cnt_, enable_fetch_, batchVars, is_done,
                 aggr_buf, memVars>>

\* GetReadyForCompute found its three buffers.
ReadyForCompute ==
  /\ GetTargetBuf(inbuf_, "READY") # None
  /\ GetTargetBuf(wbuf_, "READY") # None
  /\ GetTargetBuf(outbuf_, "IDLE") # None

\* Mutant: fetching goes on after the last block of the batch.
FetchNextBlock_Enabled ==
  LET last == output_chunk_cnt_ + 1 = num_output_chunk_
  IN  /\ output_chunk_cnt_' = IF last THEN 0 ELSE output_chunk_cnt_ + 1
      /\ input_chunk_cnt_' = IF last THEN input_chunk_cnt_ + 1 ELSE input_chunk_cnt_
      /\ inbuf_ptr_' = IF last THEN None ELSE inbuf_ptr_
      /\ wbuf_ptr_' = None
      /\ enable_fetch_' = TRUE

\* The counters after a block has gone to the array (FetchNextBlock).
FetchNextBlock ==
  LET last == output_chunk_cnt_ + 1 = num_output_chunk_
  IN  /\ output_chunk_cnt_' = IF last THEN 0 ELSE output_chunk_cnt_ + 1
      /\ input_chunk_cnt_' = IF last THEN input_chunk_cnt_ + 1 ELSE input_chunk_cnt_
      /\ inbuf_ptr_' = IF last THEN None ELSE inbuf_ptr_
      /\ wbuf_ptr_' = None
      /\ enable_fetch_' = (input_chunk_cnt_' # num_input_chunk_ \/ enable_fetch_)

\* Mutant: the pointers and counters are recorded after FetchNextBlock has
\* moved them.
BlockConfig_Late(outptr) ==
  [state |-> "BUSY", cur_inbuf |-> inbuf_ptr_', cur_wbuf |-> wbuf_ptr_',
   cur_outbuf |-> outptr, input_chunk |-> input_chunk_cnt_',
   output_chunk |-> output_chunk_cnt_']

\* SetBufConfig and SetBlockConfig record the engine's own pointers and
\* counters, not the buffers GetReadyForCompute chose.
BlockConfig(outptr) ==
  [state |-> "BUSY", cur_inbuf |-> inbuf_ptr_, cur_wbuf |-> wbuf_ptr_,
   cur_outbuf |-> outptr, input_chunk |-> input_chunk_cnt_,
   output_chunk |-> output_chunk_cnt_]

\* The block that has been fetched goes to the array.
StartCompute ==
  LET inptr == GetTargetBuf(inbuf_, "READY")
      wptr == GetTargetBuf(wbuf_, "READY")
      outptr == GetTargetBuf(outbuf_, "IDLE")
      h == inbuf_[inptr].matrix_h
  IN  /\ pc = "array" /\ array.state = "IDLE" /\ ReadyForCompute
      /\ inbuf_' = SwitchState(inbuf_, inptr, "DRAINING")
      /\ wbuf_' = SwitchState(wbuf_, wptr, "DRAINING")
      /\ outbuf_' = [outbuf_ EXCEPT ![outptr] =
                       [state |-> "FILLING", event_cnt |-> h, matrix_h |-> h]]
      /\ filling_outbuf_ptr_' = outptr
      /\ FetchNextBlock
      /\ array' = BlockConfig(outptr)
      /\ pc' = "batch"
      /\ UNCHANGED <<writing_outbuf_ptr_, sliceVars, batchVars, is_done,
                     aggr_buf, memVars>>

ArrayWaits ==
  /\ pc = "array"
  /\ \/ array.state = "BUSY"
     \/ array.state = "DONE" /\ writing_outbuf_ptr_ # None
     \/ array.state = "IDLE" /\ ~ReadyForCompute
  /\ pc' = "batch"
  /\ UNCHANGED <<bufVars, chunkVars, ptrVars, sliceVars, enable_fetch_,
                 batchVars, is_done, array, aggr_buf, memVars>>

-----------------------------------------------------------------------------
(* GenCombDataFlow: form a batch, fetch its next block, write a result.    *)

\* Mutant: the batch is full, whether or not enough has been published.
NextBatchSize_Full == sz_max_batch

\* As many of the published vertices as fit a batch.
NextBatchSize ==
  IF GetReadyVertexNum(aggr_buf) >= sz_max_batch
    THEN sz_max_batch ELSE GetReadyVertexNum(aggr_buf)

\* A new batch.
BatchVertex ==
  /\ pc = "batch" /\ ~is_done
  /\ vertex_ptr = end_vertex /\ GetReadyVertexNum(aggr_buf) > 0
  /\ start_vertex' = aggr_buf.comb_ptr.first
  /\ end_vertex' = start_vertex' + NextBatchSize
  /\ vertex_ptr' = start_vertex'
  /\ aggr_buf' = StartComb(aggr_buf, NextBatchSize)
  /\ pc' = "fetch"
  /\ UNCHANGED <<bufVars, chunkVars, ptrVars, sliceVars, enable_fetch_,
                 is_done, array, memVars>>

KeepBatch ==
  /\ pc = "batch" /\ ~is_done
  /\ vertex_ptr # end_vertex \/ GetReadyVertexNum(aggr_buf) <= 0
  /\ pc' = "fetch"
  /\ UNCHANGED <<bufVars, chunkVars, ptrVars, sliceVars, enable_fetch_,
                 batchVars, is_done, array, aggr_buf, memVars>>

\* The engine has stopped: GenCombDataFlow returns at once.
Halted ==
  /\ pc = "batch" /\ is_done
  /\ pc' = "finish"
  /\ UNCHANGED <<bufVars, chunkVars, ptrVars, sliceVars, enable_fetch_,
                 batchVars, is_done, array, aggr_buf, memVars>>

Fetching == inbuf_ptr_ # None /\ wbuf_ptr_ # None

\* FetchWeights has a weight slice left to ask for; FetchFeatures, called for
\* the first output chunk only, a feature vector.
MoreWeights == w_slice_cnt_ < num_slice
MoreFeatures == output_chunk_cnt_ = 0 /\ i_slice_cnt_ < SizeOfBatch

\* One weight slice a tick, and for the first output chunk one feature
\* vector; the buffers are ready when everything asked for has come back.
Fetch ==
  LET ready == /\ EventDone(wbuf_[wbuf_ptr_])
               /\ output_chunk_cnt_ = 0 => EventDone(inbuf_[inbuf_ptr_])
  IN  /\ pc = "fetch" /\ Fetching
      /\ pending' = [pending EXCEPT !["WEIGHT"] = IF MoreWeights THEN @ + 1 ELSE @,
                                    !["AGGR_FEATURE"] = IF MoreFeatures THEN @ + 1 ELSE @]
      /\ w_slice_cnt_' = IF MoreWeights THEN w_slice_cnt_ + 1 ELSE w_slice_cnt_
      /\ i_slice_cnt_' = IF MoreFeatures THEN i_slice_cnt_ + 1 ELSE i_slice_cnt_
      /\ wbuf_' = IF ready THEN SwitchState(wbuf_, wbuf_ptr_, "READY") ELSE wbuf_
      /\ inbuf_' = IF ready /\ output_chunk_cnt_ = 0
                     THEN SwitchState(inbuf_, inbuf_ptr_, "READY") ELSE inbuf_
      /\ pc' = "write"
      /\ UNCHANGED <<outbuf_, chunkVars, ptrVars, o_slice_cnt_, enable_fetch_,
                     batchVars, is_done, array, aggr_buf, output_cnt>>

\* GetReadyForFetch: claim idle buffers for the next block.  The code
\* asserts that it finds them.
GetReadyForFetch ==
  LET inptr == GetTargetBuf(inbuf_, "IDLE")
      wptr == GetTargetBuf(wbuf_, "IDLE")
      first == output_chunk_cnt_ = 0
  IN  /\ pc = "fetch" /\ ~Fetching /\ enable_fetch_ /\ vertex_ptr # end_vertex
      /\ wptr # None
      /\ first => inptr # None
      /\ inbuf_ptr_' = IF first THEN inptr ELSE inbuf_ptr_
      /\ inbuf_' = IF first
                     THEN [inbuf_ EXCEPT ![inptr] =
                             [state |-> "FILLING", event_cnt |-> SizeOfBatch,
                              matrix_h |-> SizeOfBatch]]
                     ELSE inbuf_
      /\ i_slice_cnt_' = IF first THEN 0 ELSE i_slice_cnt_
      /\ wbuf_ptr_' = wptr
      /\ wbuf_' = [wbuf_ EXCEPT ![wptr] =
                     [state |-> "FILLING", event_cnt |-> num_slice,
                      matrix_h |-> num_slice]]
      /\ w_slice_cnt_' = 0
      /\ enable_fetch_' = FALSE
      /\ pc' = "write"
      /\ UNCHANGED <<outbuf_, chunkVars, filling_outbuf_ptr_,
                     writing_outbuf_ptr_, o_slice_cnt_, batchVars, is_done,
                     array, aggr_buf, memVars>>

FetchWaits ==
  /\ pc = "fetch" /\ ~Fetching
  /\ ~enable_fetch_ \/ vertex_ptr = end_vertex
  /\ pc' = "write"
  /\ UNCHANGED <<bufVars, chunkVars, ptrVars, sliceVars, enable_fetch_,
                 batchVars, is_done, array, aggr_buf, memVars>>

Writing == writing_outbuf_ptr_ # None

\* Mutant: rows are issued as long as the buffer is being written.
WriteFeatures_NoBound ==
  /\ pending' = [pending EXCEPT !["OUTPUT_FEATURE"] = @ + 1]
  /\ output_cnt' = output_cnt + 1
  /\ o_slice_cnt_' = o_slice_cnt_ + 1

\* WriteFeatures: one row of the result a tick, until all are issued.
WriteFeatures ==
  LET more == o_slice_cnt_ < outbuf_[writing_outbuf_ptr_].matrix_h
      n == IF more THEN 1 ELSE 0
  IN  /\ pending' = [pending EXCEPT !["OUTPUT_FEATURE"] = @ + n]
      /\ output_cnt' = output_cnt + n
      /\ o_slice_cnt_' = o_slice_cnt_ + n

WriteRow ==
  /\ pc = "write" /\ Writing /\ ~EventDone(outbuf_[writing_outbuf_ptr_])
  /\ WriteFeatures
  /\ pc' = "finish"
  /\ UNCHANGED <<bufVars, chunkVars, ptrVars, i_slice_cnt_, w_slice_cnt_,
                 enable_fetch_, batchVars, is_done, array, aggr_buf>>

\* Mutants: the chunk counter is not reset; a full batch is released, however
\* many vertices the batch had; nothing is released.
NextBatch_NoReset ==
  /\ UNCHANGED input_chunk_cnt_
  /\ output_chunk_cnt_' = 0
  /\ enable_fetch_' = TRUE
  /\ vertex_ptr' = end_vertex
  /\ aggr_buf' = ConfirmComb(aggr_buf, SizeOfBatch)
NextBatch_Full ==
  /\ input_chunk_cnt_' = 0
  /\ output_chunk_cnt_' = 0
  /\ enable_fetch_' = TRUE
  /\ vertex_ptr' = end_vertex
  /\ aggr_buf' = ConfirmComb(aggr_buf, sz_max_batch)
NextBatch_NoConfirm ==
  /\ input_chunk_cnt_' = 0
  /\ output_chunk_cnt_' = 0
  /\ enable_fetch_' = TRUE
  /\ vertex_ptr' = end_vertex
  /\ UNCHANGED aggr_buf

\* NextBatch: the batch is over and its vertices are released.
NextBatch ==
  /\ input_chunk_cnt_' = 0
  /\ output_chunk_cnt_' = 0
  /\ enable_fetch_' = TRUE
  /\ vertex_ptr' = end_vertex
  /\ aggr_buf' = ConfirmComb(aggr_buf, SizeOfBatch)

\* Mutant: the batch is over in its last input chunk, whatever output chunks of
\* it are left.
BatchOver_Early == input_chunk_cnt_ + 1 >= num_input_chunk_

\* The code takes the batch to be over when, at the end of any write, the
\* counters say that every block of the batch has gone to the array.
BatchOver == input_chunk_cnt_ = num_input_chunk_

\* The last row of a result has been confirmed.
WriteDone ==
  /\ pc = "write" /\ Writing /\ EventDone(outbuf_[writing_outbuf_ptr_])
  /\ WriteFeatures
  /\ outbuf_' = SwitchState(outbuf_, writing_outbuf_ptr_, "IDLE")
  /\ writing_outbuf_ptr_' = None
  /\ IF BatchOver
       THEN NextBatch
       ELSE UNCHANGED <<chunkVars, enable_fetch_, vertex_ptr, aggr_buf>>
  /\ pc' = "finish"
  /\ UNCHANGED <<inbuf_, wbuf_, inbuf_ptr_, wbuf_ptr_, filling_outbuf_ptr_,
                 i_slice_cnt_, w_slice_cnt_, start_vertex, end_vertex, is_done,
                 array>>

WriteWaits ==
  /\ pc = "write" /\ ~Writing
  /\ pc' = "finish"
  /\ UNCHANGED <<bufVars, chunkVars, ptrVars, sliceVars, enable_fetch_,
                 batchVars, is_done, array, aggr_buf, memVars>>

\* The end of ClockTick: the engine is done at the halting vertex.
Finish ==
  /\ pc = "finish"
  /\ is_done' = (is_done \/ vertex_ptr = NumVertex)
  /\ pc' = "return"
  /\ UNCHANGED <<bufVars, chunkVars, ptrVars, sliceVars, enable_fetch_,
                 batchVars, array, aggr_buf, memVars>>

-----------------------------------------------------------------------------
Return == ReturnFeature \/ ReturnWeight \/ ReturnOutput

ClockTick ==
  \/ Tick \/ ArrayWorks \/ ArrayFinishes
  \/ GetResult \/ StartCompute \/ ArrayWaits
  \/ BatchVertex \/ KeepBatch \/ Halted
  \/ Fetch \/ GetReadyForFetch \/ FetchWaits
  \/ WriteRow \/ WriteDone \/ WriteWaits
  \/ Finish

Next == Return \/ AggrReserves \/ AggrPublishes \/ ClockTick

SafeSpec == Init /\ [][Next]_vars

-----------------------------------------------------------------------------
(* Properties.                                                             *)

NumBlock == num_input_chunk_ * num_output_chunk_

SPMBuf == [state : SPMState, event_cnt : Nat, matrix_h : Nat]

TypeOK ==
  /\ pc \in PC
  /\ inbuf_ \in [Bufs -> SPMBuf] /\ wbuf_ \in [Bufs -> SPMBuf]
  /\ outbuf_ \in [Bufs -> SPMBuf]
  /\ input_chunk_cnt_ \in 0..num_input_chunk_
  /\ output_chunk_cnt_ \in 0..(num_output_chunk_ - 1)
  /\ i_slice_cnt_ \in Nat /\ w_slice_cnt_ \in 0..num_slice /\ o_slice_cnt_ \in Nat
  /\ inbuf_ptr_ \in Bufs \cup {None} /\ wbuf_ptr_ \in Bufs \cup {None}
  /\ filling_outbuf_ptr_ \in Bufs \cup {None}
  /\ writing_outbuf_ptr_ \in Bufs \cup {None}
  /\ enable_fetch_ \in BOOLEAN /\ is_done \in BOOLEAN
  /\ start_vertex \in 0..NumVertex /\ end_vertex \in 0..NumVertex
  /\ vertex_ptr \in 0..NumVertex
  /\ array \in [state : ArrayState, cur_inbuf : Bufs \cup {None},
                cur_wbuf : Bufs \cup {None}, cur_outbuf : Bufs \cup {None},
                input_chunk : 0..num_input_chunk_,
                output_chunk : 0..(num_output_chunk_ - 1)]
  /\ aggr_buf \in AggrBufType
  /\ pending \in [DataType -> Nat]
  /\ output_cnt \in Nat

\* The block in the array owns its three buffers until its result is out:
\* the buffers GetReadyForCompute put to work are the ones SetBufConfig
\* recorded, and no fetch or write has touched them since.
BufferMatch ==
  array.state # "IDLE" =>
    /\ {array.cur_inbuf, array.cur_wbuf, array.cur_outbuf} \subseteq Bufs
    /\ inbuf_[array.cur_inbuf].state = "DRAINING"
    /\ wbuf_[array.cur_wbuf].state = "DRAINING"
    /\ outbuf_[array.cur_outbuf].state = "FILLING"
    /\ array.cur_outbuf = filling_outbuf_ptr_

\* The assertions on the fetch path (comb.cpp:158, 331, 334): when the engine
\* is to fetch it has a block left to fetch and idle buffers to put it in.
FetchSafe ==
  (pc = "fetch" /\ ~Fetching /\ enable_fetch_) =>
    /\ input_chunk_cnt_ # num_input_chunk_
    /\ vertex_ptr # end_vertex =>
         /\ GetTargetBuf(wbuf_, "IDLE") # None
         /\ output_chunk_cnt_ = 0 => GetTargetBuf(inbuf_, "IDLE") # None

\* A buffer has one owner: the array keeps its three, and what is fetched next
\* finds two others.
BuffersOwned == BufferMatch /\ FetchSafe

\* Every event a buffer waits for is either still to be issued or owed by
\* memory, and memory owes nothing to any other buffer: an answer, however
\* late, finds the buffer it was asked for (comb.cpp:112, 117, 122).
EventAccounting ==
  /\ \A i \in Bufs :
       /\ inbuf_[i].state = "FILLING" =>
            /\ i = inbuf_ptr_
            /\ inbuf_[i].event_cnt =
                 pending["AGGR_FEATURE"] + (SizeOfBatch - i_slice_cnt_)
       /\ wbuf_[i].state = "FILLING" =>
            /\ i = wbuf_ptr_
            /\ wbuf_[i].event_cnt =
                 pending["WEIGHT"] + (num_slice - w_slice_cnt_)
       /\ outbuf_[i].state = "WRITING" =>
            /\ i = writing_outbuf_ptr_
            /\ outbuf_[i].event_cnt =
                 pending["OUTPUT_FEATURE"] + (outbuf_[i].matrix_h - o_slice_cnt_)
  /\ GetTargetBuf(inbuf_, "FILLING") = None => pending["AGGR_FEATURE"] = 0
  /\ GetTargetBuf(wbuf_, "FILLING") = None => pending["WEIGHT"] = 0
  /\ GetTargetBuf(outbuf_, "WRITING") = None => pending["OUTPUT_FEATURE"] = 0

\* The batch the engine works on is the window between the done and comb
\* pointers of the aggregation buffer, all of it published; between batches
\* the window is empty.  A block is never fetched outside a batch.
BatchWindow ==
  /\ aggr_buf.comb_ptr.first <= aggr_buf.ready_ptr.first
  /\ vertex_ptr = end_vertex =>
       /\ aggr_buf.done_ptr.first = aggr_buf.comb_ptr.first
       /\ inbuf_ptr_ = None
  /\ vertex_ptr # end_vertex =>
       /\ vertex_ptr = start_vertex
       /\ aggr_buf.done_ptr.first = start_vertex
       /\ aggr_buf.comb_ptr.first = end_vertex
       /\ SizeOfBatch \in 1..sz_max_batch

\* No row of the result is lost or written twice: the rows issued, those of
\* the block being written, of the block in the array, of the blocks of this
\* batch still to come and of the vertices still to come make up the layer.
RowsToWrite ==
  IF Writing THEN outbuf_[writing_outbuf_ptr_].matrix_h - o_slice_cnt_ ELSE 0
RowsInArray ==
  IF array.state # "IDLE" THEN outbuf_[array.cur_outbuf].matrix_h ELSE 0
RowsUnwritten == RowsToWrite + RowsInArray
RowsOfBatch ==
  IF vertex_ptr # end_vertex
    THEN (NumBlock - (input_chunk_cnt_ * num_output_chunk_ + output_chunk_cnt_))
           * SizeOfBatch
    ELSE 0
RowsOfOthers == (NumVertex - aggr_buf.comb_ptr.first) * NumBlock

OutputAccounting ==
  output_cnt + RowsUnwritten + RowsOfBatch + RowsOfOthers
    = NumVertex * NumBlock

\* When the engine is done every vertex has been released.
DoneReleased == is_done => aggr_buf.done_ptr.first = NumVertex

\* The two engines together implement VertexPipeline.  The environment's half
\* is assumed (AggrReserves, AggrPublishes are its two steps); the engine's is
\* the claim: a batch is taken from published vertices only, one batch at a
\* time, released as a whole, and every vertex gets through in the end.
Pipeline == INSTANCE VertexPipeline WITH
  aggr <- aggr_buf.aggr_ptr.first, ready <- aggr_buf.ready_ptr.first,
  comb <- aggr_buf.comb_ptr.first, done <- aggr_buf.done_ptr.first

PipelineSafe == Pipeline!SafeSpec
=============================================================================
