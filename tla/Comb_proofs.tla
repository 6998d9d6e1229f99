----------------------------- MODULE Comb_proofs -----------------------------
(***************************************************************************)
(* Proofs about Comb: an inductive invariant, from which follow type       *)
(* correctness, the safety of the double buffers, the accounting of the    *)
(* events, the batch window, and that the engine implements the safety     *)
(* part of VertexPipeline.                                                 *)
(***************************************************************************)
EXTENDS Comb, TLAPS

-----------------------------------------------------------------------------
(* The ring's operators.                                                   *)

\* What a buffer is made of, and that moving one pointer moves no other.
LEMMA AdvanceType ==
  ASSUME NEW ptr \in Ptr, NEW n \in Nat
  PROVE  /\ Advance(ptr, n) \in Ptr
         /\ Advance(ptr, n).first = ptr.first + n
<1>1. n * sz_aggr_vector \in Nat
  BY AggrBufAssumption
<1>2. cap_edram + ptr.second + n * sz_aggr_vector \in Nat
  BY <1>1, AggrBufAssumption DEF Ptr
<1>3. ptr.first + n \in Nat
  BY DEF Ptr
<1>. QED
  BY <1>2, <1>3, AggrBufAssumption DEF Advance, Ptr

\* An operation moves its own pointer and no other.
LEMMA InitBufType == InitBuf \in AggrBufType
BY DEF InitBuf, InitPtr, AggrBufType, Ptr

\* Reserving a slice (aggr_buf.h:36) leaves the pointers in the ring.
LEMMA StartAggrType ==
  ASSUME NEW buf \in AggrBufType, NEW n \in Nat
  PROVE  /\ StartAggr(buf, n) \in AggrBufType
         /\ StartAggr(buf, n).aggr_ptr = Advance(buf.aggr_ptr, n)
         /\ StartAggr(buf, n).aggr_ptr.first = buf.aggr_ptr.first + n
         /\ StartAggr(buf, n).ready_ptr = buf.ready_ptr
         /\ StartAggr(buf, n).comb_ptr = buf.comb_ptr
         /\ StartAggr(buf, n).done_ptr = buf.done_ptr
<1>1. buf.aggr_ptr \in Ptr
  BY DEF AggrBufType
<1>. QED
  BY <1>1, AdvanceType DEF StartAggr, AggrBufType

\* So does publishing one (aggr_buf.h:42),
LEMMA ConfirmAggrType ==
  ASSUME NEW buf \in AggrBufType, NEW n \in Nat
  PROVE  /\ ConfirmAggr(buf, n) \in AggrBufType
         /\ ConfirmAggr(buf, n).ready_ptr = Advance(buf.ready_ptr, n)
         /\ ConfirmAggr(buf, n).ready_ptr.first = buf.ready_ptr.first + n
         /\ ConfirmAggr(buf, n).aggr_ptr = buf.aggr_ptr
         /\ ConfirmAggr(buf, n).comb_ptr = buf.comb_ptr
         /\ ConfirmAggr(buf, n).done_ptr = buf.done_ptr
<1>1. buf.ready_ptr \in Ptr
  BY DEF AggrBufType
<1>. QED
  BY <1>1, AdvanceType DEF ConfirmAggr, AggrBufType

\* and taking one to be combined (aggr_buf.h:54),
LEMMA StartCombType ==
  ASSUME NEW buf \in AggrBufType, NEW n \in Nat
  PROVE  /\ StartComb(buf, n) \in AggrBufType
         /\ StartComb(buf, n).comb_ptr = Advance(buf.comb_ptr, n)
         /\ StartComb(buf, n).comb_ptr.first = buf.comb_ptr.first + n
         /\ StartComb(buf, n).aggr_ptr = buf.aggr_ptr
         /\ StartComb(buf, n).ready_ptr = buf.ready_ptr
         /\ StartComb(buf, n).done_ptr = buf.done_ptr
<1>1. buf.comb_ptr \in Ptr
  BY DEF AggrBufType
<1>. QED
  BY <1>1, AdvanceType DEF StartComb, AggrBufType

\* and giving it back (aggr_buf.h:59).
LEMMA ConfirmCombType ==
  ASSUME NEW buf \in AggrBufType, NEW n \in Nat
  PROVE  /\ ConfirmComb(buf, n) \in AggrBufType
         /\ ConfirmComb(buf, n).done_ptr = Advance(buf.done_ptr, n)
         /\ ConfirmComb(buf, n).done_ptr.first = buf.done_ptr.first + n
         /\ ConfirmComb(buf, n).aggr_ptr = buf.aggr_ptr
         /\ ConfirmComb(buf, n).ready_ptr = buf.ready_ptr
         /\ ConfirmComb(buf, n).comb_ptr = buf.comb_ptr
<1>1. buf.done_ptr \in Ptr
  BY DEF AggrBufType
<1>. QED
  BY <1>1, AdvanceType DEF ConfirmComb, AggrBufType

-----------------------------------------------------------------------------

(***************************************************************************)
(* The inductive invariant.  Each buffer that is being filled or is ready  *)
(* is the one the engine's pointer names; each that is being drained is    *)
(* the array's.  The pointers say where in the batch the engine is.        *)
(***************************************************************************)

\* The array's block, and the engine's pointers and counters relative to it.
InArray ==
  array.state # "IDLE" =>
    /\ array.cur_inbuf \in Bufs /\ array.cur_wbuf \in Bufs
    /\ array.cur_outbuf \in Bufs
    /\ inbuf_[array.cur_inbuf].state = "DRAINING"
    /\ wbuf_[array.cur_wbuf].state = "DRAINING"
    /\ outbuf_[array.cur_outbuf].state = "FILLING"
    /\ array.cur_outbuf = filling_outbuf_ptr_
    /\ array.output_chunk # num_output_chunk_ - 1 =>
         /\ inbuf_ptr_ = array.cur_inbuf
         /\ output_chunk_cnt_ # 0
    /\ inbuf_ptr_ = array.cur_inbuf =>
         array.output_chunk # num_output_chunk_ - 1

\* The states an input buffer goes through, and whose it is in each.
InbufInv ==
  /\ \A i \in Bufs :
       /\ inbuf_[i].state \in {"IDLE", "FILLING", "READY", "DRAINING"}
       /\ inbuf_[i].state \in {"FILLING", "READY"} => i = inbuf_ptr_
       /\ inbuf_[i].state = "DRAINING" =>
            array.state # "IDLE" /\ i = array.cur_inbuf
       /\ i = inbuf_ptr_ => inbuf_[i].state # "IDLE"
  /\ inbuf_ptr_ = None => wbuf_ptr_ = None /\ output_chunk_cnt_ = 0
  /\ inbuf_ptr_ # None /\ output_chunk_cnt_ = 0 =>
       /\ inbuf_[inbuf_ptr_].state # "DRAINING"
       /\ wbuf_ptr_ # None
  /\ inbuf_ptr_ # None /\ output_chunk_cnt_ # 0 =>
       inbuf_[inbuf_ptr_].state # "FILLING"

WbufInv ==
  /\ \A i \in Bufs :
       /\ wbuf_[i].state \in {"IDLE", "FILLING", "READY", "DRAINING"}
       /\ wbuf_[i].state \in {"FILLING", "READY"} <=> i = wbuf_ptr_
       /\ wbuf_[i].state = "DRAINING" =>
            array.state # "IDLE" /\ i = array.cur_wbuf
  /\ wbuf_ptr_ # None => ~enable_fetch_

OutbufInv ==
  \A i \in Bufs :
    /\ outbuf_[i].state \in {"IDLE", "FILLING", "WRITING"}
    /\ outbuf_[i].state = "WRITING" <=> i = writing_outbuf_ptr_
    /\ outbuf_[i].state = "FILLING" =>
         array.state # "IDLE" /\ i = array.cur_outbuf

\* Where the batch stands.
BatchInv ==
  /\ vertex_ptr = end_vertex =>
       /\ aggr_buf.done_ptr.first = end_vertex
       /\ inbuf_ptr_ = None
       /\ input_chunk_cnt_ = 0
  /\ vertex_ptr # end_vertex =>
       /\ vertex_ptr = start_vertex
       /\ aggr_buf.done_ptr.first = start_vertex
       /\ start_vertex < end_vertex
       /\ end_vertex - start_vertex <= sz_max_batch
  /\ aggr_buf.comb_ptr.first = end_vertex
  /\ aggr_buf.comb_ptr.first <= aggr_buf.ready_ptr.first
  /\ aggr_buf.ready_ptr.first <= aggr_buf.aggr_ptr.first
  /\ aggr_buf.aggr_ptr.first <= NumVertex
  /\ input_chunk_cnt_ = num_input_chunk_ => inbuf_ptr_ = None /\ ~enable_fetch_

\* What each buffer waits for.
EventInv ==
  /\ \A i \in Bufs :
       /\ inbuf_[i].state = "FILLING" =>
            /\ inbuf_[i].event_cnt =
                 pending["AGGR_FEATURE"] + (SizeOfBatch - i_slice_cnt_)
            /\ i_slice_cnt_ <= SizeOfBatch
       /\ inbuf_[i].state = "READY" /\ output_chunk_cnt_ = 0 =>
            i_slice_cnt_ = SizeOfBatch
       /\ wbuf_[i].state = "FILLING" =>
            wbuf_[i].event_cnt = pending["WEIGHT"] + (num_slice - w_slice_cnt_)
       /\ wbuf_[i].state = "READY" => w_slice_cnt_ = num_slice
       /\ outbuf_[i].state = "WRITING" =>
            /\ outbuf_[i].event_cnt =
                 pending["OUTPUT_FEATURE"] + (outbuf_[i].matrix_h - o_slice_cnt_)
            /\ o_slice_cnt_ <= outbuf_[i].matrix_h
       /\ outbuf_[i].state = "FILLING" =>
            outbuf_[i].event_cnt = outbuf_[i].matrix_h
  /\ (\A i \in Bufs : inbuf_[i].state # "FILLING") => pending["AGGR_FEATURE"] = 0
  /\ (\A i \in Bufs : wbuf_[i].state # "FILLING") => pending["WEIGHT"] = 0
  /\ (\A i \in Bufs : outbuf_[i].state # "WRITING") => pending["OUTPUT_FEATURE"] = 0

HaltInv == is_done => vertex_ptr = end_vertex /\ vertex_ptr = NumVertex

IInv ==
  /\ TypeOK /\ InArray /\ InbufInv /\ WbufInv /\ OutbufInv
  /\ BatchInv /\ EventInv /\ HaltInv

-----------------------------------------------------------------------------
\* The engine starts in the invariant.
LEMMA InitInv == Init => IInv
<1>. SUFFICES ASSUME Init PROVE IInv
  OBVIOUS
<1>1. TypeOK
  <2>1. IdleBuf \in SPMBuf
    BY DEF IdleBuf, SPMBuf, SPMState
  <2>2. /\ inbuf_ \in [Bufs -> SPMBuf] /\ wbuf_ \in [Bufs -> SPMBuf]
        /\ outbuf_ \in [Bufs -> SPMBuf]
    BY <2>1 DEF Init
  <2>3. /\ 0 \in 0..num_input_chunk_ /\ 0 \in 0..(num_output_chunk_ - 1)
        /\ 0 \in 0..num_slice /\ 0 \in 0..NumVertex
    BY CombAssumption
  <2>4. array \in [state : ArrayState, cur_inbuf : Bufs \cup {None},
                  cur_wbuf : Bufs \cup {None}, cur_outbuf : Bufs \cup {None},
                  input_chunk : 0..num_input_chunk_,
                  output_chunk : 0..(num_output_chunk_ - 1)]
    BY <2>3 DEF Init, ArrayState
  <2>5. pending \in [DataType -> Nat]
    BY DEF Init
  <2>. QED
    BY <2>2, <2>3, <2>4, <2>5, InitBufType DEF Init, TypeOK, PC
<1>2. InArray /\ InbufInv /\ WbufInv /\ OutbufInv
  BY DEF Init, InArray, InbufInv, WbufInv, OutbufInv, Bufs, None, IdleBuf
<1>3. BatchInv /\ HaltInv
  BY CombAssumption DEF Init, BatchInv, HaltInv, InitBuf, InitPtr, None
<1>4. EventInv
  BY DEF Init, EventInv, Bufs, IdleBuf, DataType
<1>. QED
  BY <1>1, <1>2, <1>3, <1>4 DEF IInv

\* Switching a buffer's state changes that and nothing else.
LEMMA SwitchStateLemma ==
  ASSUME NEW f \in [Bufs -> SPMBuf], NEW k \in Bufs, NEW st \in SPMState
  PROVE  /\ SwitchState(f, k, st) \in [Bufs -> SPMBuf]
         /\ SwitchState(f, k, st)[k].state = st
         /\ SwitchState(f, k, st)[k].event_cnt = f[k].event_cnt
         /\ SwitchState(f, k, st)[k].matrix_h = f[k].matrix_h
         /\ \A j \in Bufs : j # k => SwitchState(f, k, st)[j] = f[j]
BY DEF SwitchState, SPMBuf

\* What GetTargetBuf finds, and what it means that it finds nothing.
LEMMA GetTargetBufLemma ==
  ASSUME NEW f, NEW st
  PROVE  /\ GetTargetBuf(f, st) \in Bufs \cup {None}
         /\ GetTargetBuf(f, st) # None => f[GetTargetBuf(f, st)].state = st
         /\ GetTargetBuf(f, st) = None => \A j \in Bufs : f[j].state # st
BY DEF GetTargetBuf, Bufs, None

\* The steps that only move the program counter.
LEMMA OnlyPc ==
  ASSUME IInv, pc' \in PC,
         UNCHANGED <<bufVars, chunkVars, ptrVars, sliceVars, enable_fetch_,
                     batchVars, is_done, array, aggr_buf, memVars>>
  PROVE  IInv'
<1>. USE DEF IInv, bufVars, chunkVars, ptrVars, sliceVars, batchVars, memVars
<1>1. TypeOK'
  BY DEF TypeOK
<1>2. (InArray /\ InbufInv /\ WbufInv /\ OutbufInv)'
  BY DEF InArray, InbufInv, WbufInv, OutbufInv
<1>3. (BatchInv /\ EventInv /\ HaltInv)'
  BY DEF BatchInv, EventInv, HaltInv, SizeOfBatch
<1>. QED
  BY <1>1, <1>2, <1>3

\* An answer finds the one buffer that waits for its type.
LEMMA ReturnFeatureInv == IInv /\ ReturnFeature => IInv'
<1>. SUFFICES ASSUME IInv, ReturnFeature PROVE IInv'
  OBVIOUS
<1>. USE DEF IInv, ReturnFeature, bufVars, chunkVars, ptrVars, sliceVars,
             batchVars, memVars
<1>1. PICK i \in Bufs : inbuf_[i].state = "FILLING"
  BY DEF EventInv, TypeOK, DataType
<1>2. /\ i = inbuf_ptr_
      /\ inbuf_[i].event_cnt \in Nat \ {0}
      /\ pending["AGGR_FEATURE"] \in Nat \ {0}
  BY <1>1 DEF EventInv, InbufInv, TypeOK, SizeOfBatch, DataType, SPMBuf
<1>3. inbuf_' = [inbuf_ EXCEPT ![i] = [@ EXCEPT !.event_cnt = inbuf_[i].event_cnt - 1]]
  BY <1>2 DEF ConfirmEvent, TypeOK
<1>4. \A j \in Bufs : /\ inbuf_'[j].state = inbuf_[j].state
                      /\ inbuf_'[j].matrix_h = inbuf_[j].matrix_h
                      /\ j # i => inbuf_'[j] = inbuf_[j]
  BY <1>3 DEF TypeOK, SPMBuf
<1>5. TypeOK'
  BY <1>2, <1>3 DEF TypeOK, SPMBuf, DataType
<1>6. (InArray /\ InbufInv /\ WbufInv /\ OutbufInv)'
  BY <1>4 DEF InArray, InbufInv, WbufInv, OutbufInv, TypeOK
<1>7. (BatchInv /\ HaltInv)'
  BY DEF BatchInv, HaltInv
<1>8. EventInv'
  BY <1>1, <1>2, <1>3, <1>4
     DEF EventInv, InbufInv, TypeOK, SPMBuf, DataType, SizeOfBatch
<1>. QED
  BY <1>5, <1>6, <1>7, <1>8

\* An answer that fills a weight buffer, comb.cpp:116.
LEMMA ReturnWeightInv == IInv /\ ReturnWeight => IInv'
<1>. SUFFICES ASSUME IInv, ReturnWeight PROVE IInv'
  OBVIOUS
<1>. USE DEF IInv, ReturnWeight, bufVars, chunkVars, ptrVars, sliceVars,
             batchVars, memVars
<1>1. PICK i \in Bufs : wbuf_[i].state = "FILLING"
  BY DEF EventInv, TypeOK, DataType
<1>2. /\ i = wbuf_ptr_
      /\ wbuf_[i].event_cnt \in Nat \ {0}
      /\ pending["WEIGHT"] \in Nat \ {0}
  BY <1>1, CombAssumption DEF EventInv, WbufInv, TypeOK, DataType, SPMBuf
<1>3. wbuf_' = [wbuf_ EXCEPT ![i] = [@ EXCEPT !.event_cnt = wbuf_[i].event_cnt - 1]]
  BY <1>2 DEF ConfirmEvent, TypeOK
<1>4. \A j \in Bufs : /\ wbuf_'[j].state = wbuf_[j].state
                      /\ wbuf_'[j].matrix_h = wbuf_[j].matrix_h
                      /\ j # i => wbuf_'[j] = wbuf_[j]
  BY <1>3 DEF TypeOK, SPMBuf
<1>5. TypeOK'
  BY <1>2, <1>3 DEF TypeOK, SPMBuf, DataType
<1>6. (InArray /\ InbufInv /\ WbufInv /\ OutbufInv)'
  BY <1>4 DEF InArray, InbufInv, WbufInv, OutbufInv, TypeOK
<1>7. (BatchInv /\ HaltInv)'
  BY DEF BatchInv, HaltInv
<1>8. EventInv'
  BY <1>1, <1>2, <1>3, <1>4, CombAssumption
     DEF EventInv, WbufInv, TypeOK, SPMBuf, DataType, SizeOfBatch
<1>. QED
  BY <1>5, <1>6, <1>7, <1>8

\* An answer to a write of results, comb.cpp:121.
LEMMA ReturnOutputInv == IInv /\ ReturnOutput => IInv'
<1>. SUFFICES ASSUME IInv, ReturnOutput PROVE IInv'
  OBVIOUS
<1>. USE DEF IInv, ReturnOutput, bufVars, chunkVars, ptrVars, sliceVars,
             batchVars, memVars
<1>1. PICK i \in Bufs : outbuf_[i].state = "WRITING"
  BY DEF EventInv, TypeOK, DataType
<1>2. /\ i = writing_outbuf_ptr_
      /\ outbuf_[i].event_cnt \in Nat \ {0}
      /\ pending["OUTPUT_FEATURE"] \in Nat \ {0}
  BY <1>1 DEF EventInv, OutbufInv, TypeOK, DataType, SPMBuf
<1>3. outbuf_' = [outbuf_ EXCEPT ![i] =
                    [@ EXCEPT !.event_cnt = outbuf_[i].event_cnt - 1]]
  BY <1>2 DEF ConfirmEvent, TypeOK
<1>4. \A j \in Bufs : /\ outbuf_'[j].state = outbuf_[j].state
                      /\ outbuf_'[j].matrix_h = outbuf_[j].matrix_h
                      /\ j # i => outbuf_'[j] = outbuf_[j]
  BY <1>3 DEF TypeOK, SPMBuf
<1>5. TypeOK'
  BY <1>2, <1>3 DEF TypeOK, SPMBuf, DataType
<1>6. (InArray /\ InbufInv /\ WbufInv /\ OutbufInv)'
  BY <1>4 DEF InArray, InbufInv, WbufInv, OutbufInv, TypeOK
<1>7. (BatchInv /\ HaltInv)'
  BY DEF BatchInv, HaltInv
<1>8. EventInv'
  BY <1>1, <1>2, <1>3, <1>4
     DEF EventInv, OutbufInv, TypeOK, SPMBuf, DataType, SizeOfBatch
<1>. QED
  BY <1>5, <1>6, <1>7, <1>8

\* The aggregation engine reserves a slice: nothing of Comb but the ring moves.
LEMMA AggrReservesInv == IInv /\ AggrReserves => IInv'
<1>. SUFFICES ASSUME IInv, AggrReserves PROVE IInv'
  OBVIOUS
<1>. USE DEF IInv, AggrReserves, bufVars, chunkVars, ptrVars, sliceVars,
             batchVars, memVars
<1>0. aggr_buf.aggr_ptr.first \in Nat
  BY DEF TypeOK, AggrBufType, Ptr
<1>1. PICK n \in 1..(NumVertex - aggr_buf.aggr_ptr.first) :
        aggr_buf' = StartAggr(aggr_buf, n)
  OBVIOUS
<1>2. /\ aggr_buf' \in AggrBufType
      /\ aggr_buf'.aggr_ptr.first = aggr_buf.aggr_ptr.first + n
      /\ aggr_buf'.ready_ptr = aggr_buf.ready_ptr
      /\ aggr_buf'.comb_ptr = aggr_buf.comb_ptr
      /\ aggr_buf'.done_ptr = aggr_buf.done_ptr
  <2>1. n \in Nat
    BY <1>0, CombAssumption
  <2>2. aggr_buf' \in AggrBufType
    BY <1>1, <2>1, StartAggrType DEF TypeOK
  <2>. QED
    BY <1>1, <2>1, <2>2 DEF TypeOK, StartAggr, Advance, AggrBufType, Ptr
<1>3. TypeOK'
  BY <1>2 DEF TypeOK
<1>4. (InArray /\ InbufInv /\ WbufInv /\ OutbufInv)'
  BY DEF InArray, InbufInv, WbufInv, OutbufInv
<1>5. (BatchInv /\ HaltInv)'
  BY <1>0, <1>1, <1>2, CombAssumption DEF BatchInv, HaltInv, TypeOK
<1>6. EventInv'
  BY DEF EventInv, SizeOfBatch
<1>. QED
  BY <1>3, <1>4, <1>5, <1>6

\* The aggregation engine publishes a slice.
LEMMA AggrPublishesInv == IInv /\ AggrPublishes => IInv'
<1>. SUFFICES ASSUME IInv, AggrPublishes PROVE IInv'
  OBVIOUS
<1>. USE DEF IInv, AggrPublishes, bufVars, chunkVars, ptrVars, sliceVars,
             batchVars, memVars
<1>. DEFINE n == aggr_buf.aggr_ptr.first - aggr_buf.ready_ptr.first
<1>0. /\ aggr_buf.aggr_ptr.first \in Nat /\ aggr_buf.ready_ptr.first \in Nat
      /\ aggr_buf.comb_ptr.first \in Nat
  BY DEF TypeOK, AggrBufType, Ptr
<1>1. n \in Nat
  BY <1>0 DEF BatchInv
<1>2. /\ aggr_buf' \in AggrBufType
      /\ aggr_buf'.ready_ptr.first = aggr_buf.aggr_ptr.first
      /\ aggr_buf'.aggr_ptr = aggr_buf.aggr_ptr
      /\ aggr_buf'.comb_ptr = aggr_buf.comb_ptr
      /\ aggr_buf'.done_ptr = aggr_buf.done_ptr
  <2>1. aggr_buf' = ConfirmAggr(aggr_buf, n)
    OBVIOUS
  <2>2. aggr_buf' \in AggrBufType
    BY <1>1, <2>1, ConfirmAggrType DEF TypeOK
  <2>. QED
    BY <1>0, <2>1, <2>2 DEF TypeOK, ConfirmAggr, Advance, AggrBufType, Ptr
<1>3. TypeOK'
  BY <1>2 DEF TypeOK
<1>4. (InArray /\ InbufInv /\ WbufInv /\ OutbufInv)'
  BY DEF InArray, InbufInv, WbufInv, OutbufInv
<1>5. (BatchInv /\ HaltInv)'
  BY <1>0, <1>2 DEF BatchInv, HaltInv
<1>6. EventInv'
  BY DEF EventInv, SizeOfBatch
<1>. QED
  BY <1>3, <1>4, <1>5, <1>6

\* The array is done with its block.
LEMMA ArrayFinishesInv == IInv /\ ArrayFinishes => IInv'
<1>. SUFFICES ASSUME IInv, ArrayFinishes PROVE IInv'
  OBVIOUS
<1>. USE DEF IInv, ArrayFinishes, bufVars, chunkVars, ptrVars, sliceVars,
             batchVars, memVars
<1>1. TypeOK'
  BY DEF TypeOK, ArrayState, PC
<1>2. /\ array'.state # "IDLE" /\ array.state # "IDLE"
      /\ array'.cur_inbuf = array.cur_inbuf
      /\ array'.cur_wbuf = array.cur_wbuf
      /\ array'.cur_outbuf = array.cur_outbuf
      /\ array'.output_chunk = array.output_chunk
  BY DEF TypeOK
<1>3. (InArray /\ InbufInv /\ WbufInv /\ OutbufInv)'
  BY <1>2 DEF InArray, InbufInv, WbufInv, OutbufInv
<1>4. (BatchInv /\ EventInv /\ HaltInv)'
  BY DEF BatchInv, EventInv, HaltInv, SizeOfBatch
<1>. QED
  BY <1>1, <1>3, <1>4

\* The result leaves the array, and each of its three buffers changes hands.
LEMMA GetResultInv == IInv /\ GetResult => IInv'
<1>. SUFFICES ASSUME IInv, GetResult PROVE IInv'
  OBVIOUS
<1>. USE DEF IInv, GetResult, bufVars, chunkVars, ptrVars, sliceVars,
             batchVars, memVars
<1>1. PICK i \in Bufs, w \in Bufs, o \in Bufs :
        /\ i = array.cur_inbuf /\ w = array.cur_wbuf /\ o = array.cur_outbuf
        /\ inbuf_[i].state = "DRAINING"
        /\ wbuf_[w].state = "DRAINING"
        /\ outbuf_[o].state = "FILLING"
        /\ o = filling_outbuf_ptr_
  BY DEF InArray
<1>2. UnlockedInput \in {"IDLE", "READY"}
  BY DEF UnlockedInput
<1>3. /\ inbuf_' \in [Bufs -> SPMBuf]
      /\ inbuf_'[i].state = UnlockedInput
      /\ \A j \in Bufs : j # i => inbuf_'[j] = inbuf_[j]
  BY <1>1, <1>2, SwitchStateLemma DEF TypeOK, SPMState
<1>4. /\ wbuf_' \in [Bufs -> SPMBuf]
      /\ wbuf_'[w].state = "IDLE"
      /\ \A j \in Bufs : j # w => wbuf_'[j] = wbuf_[j]
  BY <1>1, SwitchStateLemma DEF TypeOK, SPMState
<1>5. /\ outbuf_' \in [Bufs -> SPMBuf]
      /\ outbuf_'[o].state = "WRITING"
      /\ outbuf_'[o].event_cnt = outbuf_[o].event_cnt
      /\ outbuf_'[o].matrix_h = outbuf_[o].matrix_h
      /\ \A j \in Bufs : j # o => outbuf_'[j] = outbuf_[j]
  <2>1. outbuf_' = SwitchState(outbuf_, o, "WRITING")
    BY <1>1
  <2>2. outbuf_ \in [Bufs -> SPMBuf] /\ "WRITING" \in SPMState
    BY DEF TypeOK, SPMState
  <2>. QED
    BY <2>1, <2>2, SwitchStateLemma
<1>6. array'.state = "IDLE"
  BY DEF TypeOK
<1>7. TypeOK'
  <2>1. array' \in [state : ArrayState, cur_inbuf : Bufs \cup {None},
                   cur_wbuf : Bufs \cup {None}, cur_outbuf : Bufs \cup {None},
                   input_chunk : 0..num_input_chunk_,
                   output_chunk : 0..(num_output_chunk_ - 1)]
    BY DEF TypeOK, ArrayState
  <2>. QED
    BY <1>3, <1>4, <1>5, <2>1 DEF TypeOK, PC
<1>8. InArray'
  BY <1>6 DEF InArray
<1>9. InbufInv'
  <2>1. CASE UnlockedInput = "IDLE"
    <3>1. i # inbuf_ptr_
      BY <1>1, <2>1 DEF InArray, UnlockedInput
    <3>2. inbuf_ptr_ \in Bufs \cup {None}
      BY DEF TypeOK
    <3>. QED
      BY <1>1, <1>3, <2>1, <3>1, <3>2 DEF InbufInv
  <2>2. CASE UnlockedInput = "READY"
    <3>1. i = inbuf_ptr_ /\ output_chunk_cnt_ # 0
      BY <1>1, <2>2 DEF InArray, UnlockedInput
    <3>. QED
      BY <1>1, <1>3, <1>4, <1>5, <2>2, <3>1 DEF InbufInv, None, Bufs
  <2>. QED
    BY <1>2, <2>1, <2>2
<1>10. WbufInv'
  BY <1>1, <1>3, <1>4, <1>5, <1>6 DEF WbufInv
<1>11. OutbufInv'
  BY <1>1, <1>3, <1>4, <1>5, <1>6 DEF OutbufInv, Bufs, None
<1>12. (BatchInv /\ HaltInv)'
  BY DEF BatchInv, HaltInv
<1>13. EventInv'
  <2>1. \A j \in Bufs : inbuf_'[j].state = "FILLING" <=> inbuf_[j].state = "FILLING"
    BY <1>1, <1>2, <1>3, <1>4
  <2>2. \A j \in Bufs : wbuf_'[j].state = "FILLING" <=> wbuf_[j].state = "FILLING"
    BY <1>1, <1>4
  <2>3. \A j \in Bufs : outbuf_[j].state # "WRITING"
    BY DEF OutbufInv, Bufs, None
  <2>4. \A j \in Bufs : /\ inbuf_'[j].state = "FILLING" => inbuf_'[j] = inbuf_[j]
                        /\ wbuf_'[j].state = "FILLING" => wbuf_'[j] = wbuf_[j]
    BY <1>1, <1>2, <1>3, <1>4
  <2>5. \A j \in Bufs : outbuf_'[j].state = "WRITING" => j = o
    BY <1>4, <1>5, <2>3
  <2>6. /\ pending["OUTPUT_FEATURE"] = 0
        /\ outbuf_[o].event_cnt = outbuf_[o].matrix_h
        /\ outbuf_[o].matrix_h \in Nat
    BY <1>1, <2>3 DEF EventInv, TypeOK, SPMBuf
  <2>7. \A j \in Bufs : inbuf_'[j].state = "READY" =>
          output_chunk_cnt_ # 0 \/ inbuf_'[j] = inbuf_[j]
    BY <1>1, <1>3 DEF InArray, UnlockedInput
  <2>8. \A j \in Bufs : wbuf_'[j].state = "READY" => wbuf_[j].state = "READY"
    BY <1>4
  <2>. QED
    BY <1>1, <1>3, <1>4, <1>5, <2>1, <2>2, <2>3, <2>4, <2>5, <2>6, <2>7, <2>8
       DEF EventInv, SizeOfBatch
<1>. QED
  BY <1>7, <1>8, <1>9, <1>10, <1>11, <1>12, <1>13

\* The block handed to the array is the one that was fetched.
LEMMA StartComputeInv == IInv /\ StartCompute => IInv'
<1>. SUFFICES ASSUME IInv, StartCompute PROVE IInv'
  OBVIOUS
<1>. DEFINE i == GetTargetBuf(inbuf_, "READY")
            w == GetTargetBuf(wbuf_, "READY")
            o == GetTargetBuf(outbuf_, "IDLE")
            h == inbuf_[i].matrix_h
            last == output_chunk_cnt_ + 1 = num_output_chunk_
<1>. USE DEF IInv, bufVars, chunkVars, ptrVars, sliceVars, batchVars, memVars
<1>1. /\ i \in Bufs /\ w \in Bufs /\ o \in Bufs
      /\ inbuf_[i].state = "READY"
      /\ wbuf_[w].state = "READY"
      /\ outbuf_[o].state = "IDLE"
  BY GetTargetBufLemma DEF StartCompute, ReadyForCompute
<1>2. /\ pc' = "batch"
      /\ array.state = "IDLE"
      /\ inbuf_' = SwitchState(inbuf_, i, "DRAINING")
      /\ wbuf_' = SwitchState(wbuf_, w, "DRAINING")
      /\ outbuf_' = [outbuf_ EXCEPT ![o] =
                       [state |-> "FILLING", event_cnt |-> h, matrix_h |-> h]]
      /\ filling_outbuf_ptr_' = o
      /\ array' = BlockConfig(o)
      /\ FetchNextBlock
      /\ UNCHANGED <<writing_outbuf_ptr_, sliceVars, batchVars, is_done,
                     aggr_buf, memVars>>
  BY DEF StartCompute
<1>. HIDE DEF i, w, o, h
<1>3. /\ i = inbuf_ptr_ /\ w = wbuf_ptr_
      /\ input_chunk_cnt_ # num_input_chunk_
      /\ ~enable_fetch_
      /\ vertex_ptr # end_vertex
      /\ o # writing_outbuf_ptr_
      /\ h \in Nat
  <2>1. i = inbuf_ptr_
    BY <1>1 DEF InbufInv
  <2>2. w = wbuf_ptr_
    BY <1>1 DEF WbufInv
  <2>3. i # None /\ w # None
    BY <1>1 DEF Bufs, None
  <2>4. o # writing_outbuf_ptr_
    BY <1>1 DEF OutbufInv
  <2>5. h \in Nat
    BY <1>1 DEF TypeOK, SPMBuf, h
  <2>. QED
    BY <2>1, <2>2, <2>3, <2>4, <2>5 DEF BatchInv, WbufInv
<1>4. /\ inbuf_' \in [Bufs -> SPMBuf]
      /\ inbuf_'[i].state = "DRAINING"
      /\ \A j \in Bufs : j # i => inbuf_'[j] = inbuf_[j]
  <2>1. inbuf_ \in [Bufs -> SPMBuf] /\ "DRAINING" \in SPMState
    BY DEF TypeOK, SPMState
  <2>. QED
    BY <1>1, <1>2, <2>1, SwitchStateLemma
<1>5. /\ wbuf_' \in [Bufs -> SPMBuf]
      /\ wbuf_'[w].state = "DRAINING"
      /\ \A j \in Bufs : j # w => wbuf_'[j] = wbuf_[j]
  <2>1. wbuf_ \in [Bufs -> SPMBuf] /\ "DRAINING" \in SPMState
    BY DEF TypeOK, SPMState
  <2>. QED
    BY <1>1, <1>2, <2>1, SwitchStateLemma
<1>6. /\ outbuf_' \in [Bufs -> SPMBuf]
      /\ outbuf_'[o].state = "FILLING"
      /\ outbuf_'[o].event_cnt = outbuf_'[o].matrix_h
      /\ \A j \in Bufs : j # o => outbuf_'[j] = outbuf_[j]
  BY <1>1, <1>2, <1>3 DEF TypeOK, SPMBuf, SPMState
<1>7. /\ array'.state = "BUSY" /\ array'.cur_inbuf = i /\ array'.cur_wbuf = w
      /\ array'.cur_outbuf = o
      /\ array'.input_chunk = input_chunk_cnt_
      /\ array'.output_chunk = output_chunk_cnt_
  BY <1>2, <1>3 DEF BlockConfig
<1>8. /\ output_chunk_cnt_' = IF last THEN 0 ELSE output_chunk_cnt_ + 1
      /\ input_chunk_cnt_' = IF last THEN input_chunk_cnt_ + 1 ELSE input_chunk_cnt_
      /\ inbuf_ptr_' = IF last THEN None ELSE i
      /\ wbuf_ptr_' = None
      /\ enable_fetch_' = (input_chunk_cnt_' # num_input_chunk_)
      /\ enable_fetch_' \in BOOLEAN
  BY <1>2, <1>3 DEF FetchNextBlock
<1>9. /\ output_chunk_cnt_ \in 0..(num_output_chunk_ - 1)
      /\ input_chunk_cnt_ \in 0..(num_input_chunk_ - 1)
      /\ last <=> output_chunk_cnt_ = num_output_chunk_ - 1
      /\ output_chunk_cnt_' \in 0..(num_output_chunk_ - 1)
      /\ input_chunk_cnt_' \in 0..num_input_chunk_
      /\ ~last => output_chunk_cnt_' # 0
  BY <1>3, <1>8, CombAssumption DEF TypeOK
<1>10. TypeOK'
  <2>1. array' \in [state : ArrayState, cur_inbuf : Bufs \cup {None},
                   cur_wbuf : Bufs \cup {None}, cur_outbuf : Bufs \cup {None},
                   input_chunk : 0..num_input_chunk_,
                   output_chunk : 0..(num_output_chunk_ - 1)]
    <3>1. "BUSY" \in ArrayState /\ input_chunk_cnt_ \in 0..num_input_chunk_
      BY DEF ArrayState, TypeOK
    <3>. QED
      BY <1>1, <1>2, <1>3, <1>9, <3>1 DEF BlockConfig
  <2>2. /\ inbuf_ptr_' \in Bufs \cup {None} /\ wbuf_ptr_' \in Bufs \cup {None}
        /\ filling_outbuf_ptr_' \in Bufs \cup {None}
    BY <1>1, <1>2, <1>8
  <2>. QED
    BY <1>2, <1>4, <1>5, <1>6, <1>8, <1>9, <2>1, <2>2 DEF TypeOK, PC
<1>11. InArray'
  <2>1. None \notin Bufs
    BY DEF None, Bufs
  <2>. QED
    BY <1>1, <1>2, <1>4, <1>5, <1>6, <1>7, <1>8, <1>9, <2>1 DEF InArray
<1>12. InbufInv'
  <2>1. \A j \in Bufs : j # i => inbuf_'[j].state = "IDLE"
    BY <1>2, <1>3, <1>4 DEF InbufInv
  <2>2. None \notin Bufs
    BY DEF None, Bufs
  <2>. QED
    BY <1>1, <1>4, <1>7, <1>8, <1>9, <2>1, <2>2 DEF InbufInv
<1>13. WbufInv'
  <2>1. \A j \in Bufs : j # w => wbuf_'[j].state = "IDLE"
    BY <1>2, <1>3, <1>5 DEF WbufInv
  <2>2. None \notin Bufs
    BY DEF None, Bufs
  <2>. QED
    BY <1>1, <1>5, <1>7, <1>8, <2>1, <2>2 DEF WbufInv
<1>14. OutbufInv'
  BY <1>1, <1>2, <1>3, <1>6, <1>7 DEF OutbufInv
<1>15. BatchInv'
  BY <1>2, <1>3, <1>8, <1>9, CombAssumption DEF BatchInv
<1>16. HaltInv'
  BY <1>2 DEF HaltInv
<1>17. EventInv'
  <2>1. \A j \in Bufs : /\ inbuf_[j].state # "FILLING" /\ wbuf_[j].state # "FILLING"
                        /\ inbuf_'[j].state \notin {"FILLING", "READY"}
                        /\ wbuf_'[j].state \notin {"FILLING", "READY"}
    BY <1>1, <1>3, <1>4, <1>5 DEF InbufInv, WbufInv
  <2>2. \A j \in Bufs : outbuf_'[j].state = "WRITING" <=> outbuf_[j].state = "WRITING"
    BY <1>1, <1>6
  <2>. QED
    BY <1>1, <1>2, <1>6, <2>1, <2>2 DEF EventInv
<1>. QED
  BY <1>10, <1>11, <1>12, <1>13, <1>14, <1>15, <1>16, <1>17

\* A batch is formed only when the last one is over, so no buffer is in use
\* for it yet.
LEMMA BatchVertexInv == IInv /\ BatchVertex => IInv'
<1>. SUFFICES ASSUME IInv, BatchVertex PROVE IInv'
  OBVIOUS
<1>. DEFINE ready_num == GetReadyVertexNum(aggr_buf)
            n == NextBatchSize
<1>. USE DEF IInv, bufVars, chunkVars, ptrVars, sliceVars, batchVars, memVars
<1>1. /\ pc' = "fetch" /\ ~is_done /\ vertex_ptr = end_vertex
      /\ ready_num > 0
      /\ start_vertex' = aggr_buf.comb_ptr.first
      /\ end_vertex' = start_vertex' + n
      /\ vertex_ptr' = start_vertex'
      /\ aggr_buf' = StartComb(aggr_buf, n)
      /\ UNCHANGED <<bufVars, chunkVars, ptrVars, sliceVars, enable_fetch_,
                     is_done, array, memVars>>
  BY DEF BatchVertex
<1>2. /\ aggr_buf.ready_ptr.first \in Nat /\ aggr_buf.comb_ptr.first \in Nat
      /\ aggr_buf.aggr_ptr.first \in Nat /\ aggr_buf.done_ptr.first \in Nat
  BY DEF TypeOK, AggrBufType, Ptr
<1>3. /\ n \in 1..sz_max_batch
      /\ n \in Nat
      /\ aggr_buf.comb_ptr.first + n <= aggr_buf.ready_ptr.first
  BY <1>1, <1>2, CombAssumption DEF GetReadyVertexNum, NextBatchSize
<1>. HIDE DEF n, ready_num
<1>4. /\ aggr_buf' \in AggrBufType
      /\ aggr_buf'.comb_ptr.first = aggr_buf.comb_ptr.first + n
      /\ aggr_buf'.aggr_ptr = aggr_buf.aggr_ptr
      /\ aggr_buf'.ready_ptr = aggr_buf.ready_ptr
      /\ aggr_buf'.done_ptr = aggr_buf.done_ptr
  <2>1. aggr_buf' \in AggrBufType
    BY <1>1, <1>3, StartCombType DEF TypeOK
  <2>. QED
    BY <1>1, <1>2, <1>3, <2>1 DEF TypeOK, StartComb, Advance, AggrBufType, Ptr
<1>5. /\ start_vertex' \in 0..NumVertex /\ end_vertex' \in 0..NumVertex
      /\ vertex_ptr' = start_vertex' /\ start_vertex' < end_vertex'
      /\ end_vertex' - start_vertex' <= sz_max_batch
  BY <1>1, <1>2, <1>3, CombAssumption DEF BatchInv
<1>6. TypeOK'
  BY <1>1, <1>4, <1>5 DEF TypeOK, PC
<1>7. (InArray /\ InbufInv /\ WbufInv /\ OutbufInv)'
  BY <1>1 DEF InArray, InbufInv, WbufInv, OutbufInv
<1>8. (BatchInv /\ HaltInv)'
  BY <1>1, <1>2, <1>3, <1>4, <1>5 DEF BatchInv, HaltInv
<1>9. EventInv'
  <2>1. \A j \in Bufs : inbuf_[j].state \notin {"FILLING", "READY"}
    BY <1>1 DEF BatchInv, InbufInv, Bufs, None
  <2>2. ASSUME NEW j \in Bufs
        PROVE  /\ wbuf_'[j].state = "FILLING" => wbuf_'[j].event_cnt =
                     pending'["WEIGHT"] + (num_slice - w_slice_cnt_')
               /\ wbuf_'[j].state = "READY" => w_slice_cnt_' = num_slice
               /\ outbuf_'[j].state = "WRITING" =>
                     /\ outbuf_'[j].event_cnt = pending'["OUTPUT_FEATURE"] +
                           (outbuf_'[j].matrix_h - o_slice_cnt_')
                     /\ o_slice_cnt_' <= outbuf_'[j].matrix_h
               /\ outbuf_'[j].state = "FILLING" =>
                     outbuf_'[j].event_cnt = outbuf_'[j].matrix_h
    BY <1>1 DEF EventInv
  <2>3. /\ (\A j \in Bufs : inbuf_'[j].state # "FILLING") => pending'["AGGR_FEATURE"] = 0
        /\ (\A j \in Bufs : wbuf_'[j].state # "FILLING") => pending'["WEIGHT"] = 0
        /\ (\A j \in Bufs : outbuf_'[j].state # "WRITING") =>
              pending'["OUTPUT_FEATURE"] = 0
    BY <1>1 DEF EventInv
  <2>4. \A j \in Bufs : inbuf_'[j].state \notin {"FILLING", "READY"}
    BY <1>1, <2>1
  <2>. QED
    BY <2>2, <2>3, <2>4 DEF EventInv
<1>. QED
  BY <1>6, <1>7, <1>8, <1>9

\* A buffer is declared ready only when memory owes it nothing.
LEMMA FetchInv == IInv /\ Fetch => IInv'
<1>. SUFFICES ASSUME IInv, Fetch PROVE IInv'
  OBVIOUS
<1>. DEFINE i == inbuf_ptr_
            w == wbuf_ptr_
            first == output_chunk_cnt_ = 0
            more_w == w_slice_cnt_ < num_slice
            more_i == first /\ i_slice_cnt_ < SizeOfBatch
            ready == EventDone(wbuf_[w]) /\ (first => EventDone(inbuf_[i]))
<1>. USE DEF IInv, bufVars, chunkVars, ptrVars, sliceVars, batchVars, memVars
<1>1. /\ pc' = "write" /\ i # None /\ w # None
      /\ pending' = [pending EXCEPT !["WEIGHT"] = IF more_w THEN @ + 1 ELSE @,
                                   !["AGGR_FEATURE"] = IF more_i THEN @ + 1 ELSE @]
      /\ w_slice_cnt_' = IF more_w THEN w_slice_cnt_ + 1 ELSE w_slice_cnt_
      /\ i_slice_cnt_' = IF more_i THEN i_slice_cnt_ + 1 ELSE i_slice_cnt_
      /\ wbuf_' = IF ready THEN SwitchState(wbuf_, w, "READY") ELSE wbuf_
      /\ inbuf_' = IF ready /\ first THEN SwitchState(inbuf_, i, "READY") ELSE inbuf_
      /\ UNCHANGED <<outbuf_, chunkVars, ptrVars, o_slice_cnt_, enable_fetch_,
                     batchVars, is_done, array, aggr_buf, output_cnt>>
  BY DEF Fetch, Fetching, MoreWeights, MoreFeatures
<1>2. /\ i \in Bufs /\ w \in Bufs
      /\ wbuf_[w].state \in {"FILLING", "READY"}
      /\ first => inbuf_[i].state \in {"FILLING", "READY"}
      /\ ~first => inbuf_[i].state # "FILLING"
  BY <1>1 DEF InbufInv, WbufInv, TypeOK
<1>3. /\ num_slice \in Nat /\ w_slice_cnt_ \in 0..num_slice /\ i_slice_cnt_ \in Nat
      /\ SizeOfBatch \in Int
      /\ pending["WEIGHT"] \in Nat /\ pending["AGGR_FEATURE"] \in Nat
      /\ wbuf_[w].event_cnt \in Nat /\ inbuf_[i].event_cnt \in Nat
  BY <1>2, CombAssumption DEF TypeOK, SizeOfBatch, DataType, SPMBuf
<1>4. /\ w_slice_cnt_' \in 0..num_slice /\ i_slice_cnt_' \in Nat
      /\ pending' \in [DataType -> Nat]
      /\ pending'["WEIGHT"] = IF more_w THEN pending["WEIGHT"] + 1 ELSE pending["WEIGHT"]
      /\ pending'["AGGR_FEATURE"] =
           IF more_i THEN pending["AGGR_FEATURE"] + 1 ELSE pending["AGGR_FEATURE"]
      /\ pending'["OUTPUT_FEATURE"] = pending["OUTPUT_FEATURE"]
  <2>1. w_slice_cnt_' \in 0..num_slice /\ i_slice_cnt_' \in Nat
    BY <1>1, <1>3
  <2>. QED
    BY <1>1, <1>3, <2>1 DEF TypeOK, DataType
<1>5. SizeOfBatch' = SizeOfBatch
  BY <1>1 DEF SizeOfBatch
<1>. HIDE DEF i, w
<1>6. /\ wbuf_' \in [Bufs -> SPMBuf]
      /\ wbuf_'[w].state = IF ready THEN "READY" ELSE wbuf_[w].state
      /\ wbuf_'[w].event_cnt = wbuf_[w].event_cnt
      /\ \A j \in Bufs : j # w => wbuf_'[j] = wbuf_[j]
  <2>1. wbuf_ \in [Bufs -> SPMBuf] /\ "READY" \in SPMState
    BY DEF TypeOK, SPMState
  <2>. QED
    BY <1>1, <1>2, <2>1, SwitchStateLemma
<1>7. /\ inbuf_' \in [Bufs -> SPMBuf]
      /\ inbuf_'[i].state = IF ready /\ first THEN "READY" ELSE inbuf_[i].state
      /\ inbuf_'[i].event_cnt = inbuf_[i].event_cnt
      /\ \A j \in Bufs : j # i => inbuf_'[j] = inbuf_[j]
  <2>1. inbuf_ \in [Bufs -> SPMBuf] /\ "READY" \in SPMState
    BY DEF TypeOK, SPMState
  <2>. QED
    BY <1>1, <1>2, <2>1, SwitchStateLemma
<1>8. TypeOK'
  BY <1>1, <1>4, <1>6, <1>7 DEF TypeOK, PC
<1>9. InArray'
  <2>1. array.state # "IDLE" => i # array.cur_inbuf \/ ~first
    BY <1>2 DEF InArray
  <2>2. array.state # "IDLE" => w # array.cur_wbuf
    BY <1>2 DEF InArray
  <2>. QED
    BY <1>1, <1>6, <1>7, <2>1, <2>2 DEF InArray
<1>10. InbufInv'
  <2>1. \A j \in Bufs : inbuf_'[j].state # inbuf_[j].state =>
           j = i /\ inbuf_'[j].state = "READY" /\ inbuf_[j].state = "FILLING" /\ first
    BY <1>2, <1>7
  <2>. QED
    BY <1>1, <1>2, <2>1 DEF InbufInv, i, None
<1>11. WbufInv'
  <2>1. \A j \in Bufs : wbuf_'[j].state # wbuf_[j].state =>
           j = w /\ wbuf_'[j].state = "READY" /\ wbuf_[j].state = "FILLING"
    BY <1>2, <1>6
  <2>. QED
    BY <1>1, <1>2, <2>1 DEF WbufInv, w
<1>12. OutbufInv'
  BY <1>1 DEF OutbufInv
<1>13. (BatchInv /\ HaltInv)'
  BY <1>1 DEF BatchInv, HaltInv
<1>14. EventInv'
  <2>1. \A j \in Bufs : /\ j # w => wbuf_[j].state \notin {"FILLING", "READY"}
                        /\ j # i => inbuf_[j].state \notin {"FILLING", "READY"}
    BY DEF WbufInv, InbufInv, i, w
  <2>2. /\ wbuf_'[w].state = "FILLING" =>
             wbuf_'[w].event_cnt = pending'["WEIGHT"] + (num_slice - w_slice_cnt_')
        /\ wbuf_'[w].state = "READY" =>
             w_slice_cnt_' = num_slice /\ pending'["WEIGHT"] = 0
    <3>1. CASE wbuf_[w].state = "FILLING"
      BY <1>1, <1>2, <1>3, <1>4, <1>6, <3>1 DEF EventInv, EventDone
    <3>2. CASE wbuf_[w].state = "READY"
      <4>1. w_slice_cnt_ = num_slice /\ pending["WEIGHT"] = 0
        BY <1>2, <2>1, <3>2 DEF EventInv
      <4>. QED
        BY <1>1, <1>3, <1>4, <1>6, <3>2, <4>1
    <3>. QED
      BY <1>2, <3>1, <3>2
  <2>3. /\ inbuf_'[i].state = "FILLING" =>
             /\ inbuf_'[i].event_cnt =
                  pending'["AGGR_FEATURE"] + (SizeOfBatch - i_slice_cnt_')
             /\ i_slice_cnt_' <= SizeOfBatch
        /\ inbuf_'[i].state # "FILLING" => pending'["AGGR_FEATURE"] = 0
        /\ inbuf_'[i].state = "READY" /\ first => i_slice_cnt_' = SizeOfBatch
    <3>1. CASE ~first
      <4>1. pending["AGGR_FEATURE"] = 0
        BY <1>2, <2>1, <3>1 DEF EventInv
      <4>. QED
        BY <1>1, <1>2, <1>4, <1>7, <3>1, <4>1
    <3>2. CASE first /\ inbuf_[i].state = "FILLING"
      BY <1>1, <1>2, <1>3, <1>4, <1>7, <3>2 DEF EventInv, EventDone
    <3>3. CASE first /\ inbuf_[i].state = "READY"
      <4>1. i_slice_cnt_ = SizeOfBatch /\ pending["AGGR_FEATURE"] = 0
        BY <1>2, <2>1, <3>3 DEF EventInv
      <4>. QED
        BY <1>1, <1>3, <1>4, <1>7, <3>3, <4>1
    <3>. QED
      BY <1>2, <3>1, <3>2, <3>3
  <2>4. \A j \in Bufs : /\ j # w => wbuf_'[j].state \notin {"FILLING", "READY"}
                        /\ j # i => inbuf_'[j].state \notin {"FILLING", "READY"}
    BY <1>6, <1>7, <2>1
  <2>5. wbuf_'[w].state # "FILLING" => pending'["WEIGHT"] = 0
    BY <1>2, <1>6, <2>2
  <2>. QED
    BY <1>1, <1>2, <1>4, <1>5, <2>2, <2>3, <2>4, <2>5 DEF EventInv
<1>. QED
  BY <1>8, <1>9, <1>10, <1>11, <1>12, <1>13, <1>14

\* The buffers claimed for a block are idle, and nothing is owed to them.
LEMMA GetReadyForFetchInv == IInv /\ GetReadyForFetch => IInv'
<1>. SUFFICES ASSUME IInv, GetReadyForFetch PROVE IInv'
  OBVIOUS
<1>. DEFINE i == GetTargetBuf(inbuf_, "IDLE")
            w == GetTargetBuf(wbuf_, "IDLE")
            first == output_chunk_cnt_ = 0
<1>. USE DEF IInv, bufVars, chunkVars, ptrVars, sliceVars, batchVars, memVars
<1>1. /\ pc' = "write" /\ enable_fetch_ /\ vertex_ptr # end_vertex
      /\ inbuf_ptr_ = None \/ wbuf_ptr_ = None
      /\ w # None /\ (first => i # None)
      /\ inbuf_ptr_' = IF first THEN i ELSE inbuf_ptr_
      /\ inbuf_' = IF first
                     THEN [inbuf_ EXCEPT ![i] =
                             [state |-> "FILLING", event_cnt |-> SizeOfBatch,
                              matrix_h |-> SizeOfBatch]]
                     ELSE inbuf_
      /\ i_slice_cnt_' = IF first THEN 0 ELSE i_slice_cnt_
      /\ wbuf_ptr_' = w
      /\ wbuf_' = [wbuf_ EXCEPT ![w] =
                     [state |-> "FILLING", event_cnt |-> num_slice,
                      matrix_h |-> num_slice]]
      /\ w_slice_cnt_' = 0
      /\ enable_fetch_' = FALSE
      /\ UNCHANGED <<outbuf_, chunkVars, filling_outbuf_ptr_,
                     writing_outbuf_ptr_, o_slice_cnt_, batchVars, is_done,
                     array, aggr_buf, memVars>>
  <2>1. pc' = "write" /\ enable_fetch_ /\ vertex_ptr # end_vertex
    BY DEF GetReadyForFetch
  <2>2. inbuf_ptr_ = None \/ wbuf_ptr_ = None
    BY DEF GetReadyForFetch, Fetching
  <2>3. w # None /\ (first => i # None)
    BY DEF GetReadyForFetch
  <2>4. /\ inbuf_ptr_' = IF first THEN i ELSE inbuf_ptr_
        /\ i_slice_cnt_' = IF first THEN 0 ELSE i_slice_cnt_
        /\ wbuf_ptr_' = w
        /\ w_slice_cnt_' = 0
        /\ enable_fetch_' = FALSE
    BY DEF GetReadyForFetch
  <2>5. inbuf_' = IF first
                    THEN [inbuf_ EXCEPT ![i] =
                            [state |-> "FILLING", event_cnt |-> SizeOfBatch,
                             matrix_h |-> SizeOfBatch]]
                    ELSE inbuf_
    BY DEF GetReadyForFetch
  <2>6. wbuf_' = [wbuf_ EXCEPT ![w] =
                    [state |-> "FILLING", event_cnt |-> num_slice,
                     matrix_h |-> num_slice]]
    BY DEF GetReadyForFetch
  <2>7. UNCHANGED <<outbuf_, chunkVars, filling_outbuf_ptr_,
                    writing_outbuf_ptr_, o_slice_cnt_, batchVars, is_done,
                    array, aggr_buf, memVars>>
    BY DEF GetReadyForFetch
  <2>. QED
    BY <2>1, <2>2, <2>3, <2>4, <2>5, <2>6, <2>7
<1>2. /\ w \in Bufs /\ wbuf_[w].state = "IDLE"
      /\ first => i \in Bufs /\ inbuf_[i].state = "IDLE"
  BY <1>1, GetTargetBufLemma
<1>. HIDE DEF i, w
<1>3. /\ wbuf_ptr_ = None
      /\ first => inbuf_ptr_ = None
      /\ ~first => inbuf_ptr_ # None
      /\ input_chunk_cnt_ # num_input_chunk_
  BY <1>1 DEF InbufInv, BatchInv
<1>4. /\ SizeOfBatch \in Nat /\ SizeOfBatch' = SizeOfBatch /\ num_slice \in Nat
      /\ i_slice_cnt_ \in Nat
  BY <1>1, CombAssumption DEF BatchInv, TypeOK, SizeOfBatch
<1>5. /\ wbuf_' \in [Bufs -> SPMBuf]
      /\ wbuf_'[w].state = "FILLING"
      /\ wbuf_'[w].event_cnt = num_slice
      /\ \A j \in Bufs : j # w => wbuf_'[j] = wbuf_[j]
  BY <1>1, <1>2, <1>4 DEF TypeOK, SPMBuf, SPMState
<1>6. /\ inbuf_' \in [Bufs -> SPMBuf]
      /\ first => /\ inbuf_'[i].state = "FILLING"
                  /\ inbuf_'[i].event_cnt = SizeOfBatch
                  /\ \A j \in Bufs : j # i => inbuf_'[j] = inbuf_[j]
  <2>1. inbuf_ \in [Bufs -> SPMBuf]
    BY DEF TypeOK
  <2>2. [state |-> "FILLING", event_cnt |-> SizeOfBatch, matrix_h |-> SizeOfBatch]
          \in SPMBuf
    BY <1>4 DEF SPMBuf, SPMState
  <2>. QED
    BY <1>1, <1>2, <2>1, <2>2
<1>7. TypeOK'
  <2>1. /\ inbuf_ptr_' \in Bufs \cup {None} /\ wbuf_ptr_' \in Bufs \cup {None}
        /\ w_slice_cnt_' \in 0..num_slice /\ i_slice_cnt_' \in Nat
    BY <1>1, <1>2, <1>4 DEF TypeOK
  <2>. QED
    BY <1>1, <1>5, <1>6, <2>1 DEF TypeOK, PC
<1>8. None \notin Bufs
  BY DEF None, Bufs
<1>9. InArray'
  <2>1. array.state # "IDLE" => w # array.cur_wbuf
    BY <1>2 DEF InArray
  <2>2. array.state # "IDLE" /\ first => i # array.cur_inbuf
    BY <1>2 DEF InArray
  <2>. QED
    BY <1>1, <1>5, <1>6, <2>1, <2>2 DEF InArray
<1>10. InbufInv'
  <2>1. CASE first
    BY <1>1, <1>2, <1>3, <1>6, <1>8, <2>1 DEF InbufInv
  <2>2. CASE ~first
    BY <1>1, <1>2, <1>3, <1>8, <2>2 DEF InbufInv
  <2>. QED
    BY <2>1, <2>2
<1>11. WbufInv'
  <2>1. \A j \in Bufs : wbuf_[j].state \notin {"FILLING", "READY"}
    BY <1>3, <1>8 DEF WbufInv
  <2>. QED
    BY <1>1, <1>2, <1>5, <2>1 DEF WbufInv
<1>12. OutbufInv'
  BY <1>1 DEF OutbufInv
<1>13. (BatchInv /\ HaltInv)'
  BY <1>1, <1>3 DEF BatchInv, HaltInv
<1>14. EventInv'
  <2>1. \A j \in Bufs : wbuf_[j].state \notin {"FILLING", "READY"}
    BY <1>3, <1>8 DEF WbufInv
  <2>2. pending["WEIGHT"] = 0
    BY <2>1 DEF EventInv
  <2>3. pending["AGGR_FEATURE"] = 0
    <3>1. CASE first
      BY <1>3, <1>8, <3>1 DEF EventInv, InbufInv
    <3>2. CASE ~first
      BY <1>3, <3>2 DEF EventInv, InbufInv
    <3>. QED
      BY <3>1, <3>2
  <2>4. first => \A j \in Bufs : inbuf_[j].state \notin {"FILLING", "READY"}
    BY <1>3, <1>8 DEF InbufInv
  <2>5. \A j \in Bufs :
          /\ inbuf_'[j].state = "FILLING" =>
               /\ inbuf_'[j].event_cnt =
                     pending'["AGGR_FEATURE"] + (SizeOfBatch' - i_slice_cnt_')
               /\ i_slice_cnt_' <= SizeOfBatch'
          /\ inbuf_'[j].state = "READY" /\ output_chunk_cnt_' = 0 =>
               i_slice_cnt_' = SizeOfBatch'
    <3>1. CASE first
      BY <1>1, <1>2, <1>4, <1>6, <2>3, <2>4, <3>1
    <3>2. CASE ~first
      BY <1>1, <1>4, <3>2 DEF EventInv
    <3>. QED
      BY <3>1, <3>2
  <2>6. \A j \in Bufs :
          /\ wbuf_'[j].state = "FILLING" =>
               wbuf_'[j].event_cnt = pending'["WEIGHT"] + (num_slice - w_slice_cnt_')
          /\ wbuf_'[j].state # "READY"
    BY <1>1, <1>4, <1>5, <2>1, <2>2
  <2>. QED
    BY <1>1, <2>2, <2>3, <2>5, <2>6 DEF EventInv
<1>. QED
  BY <1>7, <1>9, <1>10, <1>11, <1>12, <1>13, <1>14

\* A row of results is written, comb.cpp:162.
LEMMA WriteRowInv == IInv /\ WriteRow => IInv'
<1>. SUFFICES ASSUME IInv, WriteRow PROVE IInv'
  OBVIOUS
<1>. DEFINE o == writing_outbuf_ptr_
            more == o_slice_cnt_ < outbuf_[o].matrix_h
            n == IF more THEN 1 ELSE 0
<1>. USE DEF IInv, bufVars, chunkVars, ptrVars, sliceVars, batchVars, memVars
<1>1. /\ pc' = "finish" /\ o # None
      /\ pending' = [pending EXCEPT !["OUTPUT_FEATURE"] = @ + n]
      /\ output_cnt' = output_cnt + n
      /\ o_slice_cnt_' = o_slice_cnt_ + n
      /\ UNCHANGED <<bufVars, chunkVars, ptrVars, i_slice_cnt_, w_slice_cnt_,
                     enable_fetch_, batchVars, is_done, array, aggr_buf>>
  BY DEF WriteRow, WriteFeatures, Writing
<1>2. /\ o \in Bufs /\ outbuf_[o].state = "WRITING"
      /\ outbuf_[o].matrix_h \in Nat
  BY <1>1 DEF OutbufInv, TypeOK, SPMBuf
<1>3. /\ o_slice_cnt_ \in Nat /\ output_cnt \in Nat
      /\ pending \in [DataType -> Nat]
  BY DEF TypeOK
<1>4. /\ o_slice_cnt_' \in Nat /\ output_cnt' \in Nat
      /\ pending' \in [DataType -> Nat]
      /\ pending'["OUTPUT_FEATURE"] = pending["OUTPUT_FEATURE"] + n
      /\ pending'["WEIGHT"] = pending["WEIGHT"]
      /\ pending'["AGGR_FEATURE"] = pending["AGGR_FEATURE"]
  BY <1>1, <1>3 DEF DataType
<1>5. TypeOK'
  BY <1>1, <1>4 DEF TypeOK, PC
<1>6. (InArray /\ InbufInv /\ WbufInv /\ OutbufInv)'
  BY <1>1 DEF InArray, InbufInv, WbufInv, OutbufInv
<1>7. (BatchInv /\ HaltInv)'
  BY <1>1 DEF BatchInv, HaltInv
<1>8. EventInv'
  <2>1. \A j \in Bufs : outbuf_[j].state = "WRITING" => j = o
    BY DEF OutbufInv
  <2>2. /\ outbuf_[o].event_cnt =
             pending'["OUTPUT_FEATURE"] + (outbuf_[o].matrix_h - o_slice_cnt_')
        /\ o_slice_cnt_' <= outbuf_[o].matrix_h
    <3>1. /\ outbuf_[o].event_cnt =
               pending["OUTPUT_FEATURE"] + (outbuf_[o].matrix_h - o_slice_cnt_)
          /\ o_slice_cnt_ <= outbuf_[o].matrix_h
          /\ pending["OUTPUT_FEATURE"] \in Nat
      BY <1>2, <1>3 DEF EventInv, DataType
    <3>. QED
      BY <1>1, <1>2, <1>3, <1>4, <3>1
  <2>. QED
    BY <1>1, <1>2, <1>4, <2>1, <2>2 DEF EventInv, SizeOfBatch
<1>. QED
  BY <1>5, <1>6, <1>7, <1>8

\* When the batch is over no block of it is being fetched, so the next one
\* starts from clean counters.
LEMMA WriteDoneInv == IInv /\ WriteDone => IInv'
<1>. SUFFICES ASSUME IInv, WriteDone PROVE IInv'
  OBVIOUS
<1>. DEFINE o == writing_outbuf_ptr_
<1>. USE DEF IInv, bufVars, chunkVars, ptrVars, sliceVars, batchVars, memVars
<1>1. /\ o \in Bufs /\ outbuf_[o].state = "WRITING" /\ outbuf_[o].event_cnt = 0
  BY DEF WriteDone, Writing, EventDone, OutbufInv, TypeOK
<1>2. /\ pending["OUTPUT_FEATURE"] = 0 /\ o_slice_cnt_ = outbuf_[o].matrix_h
      /\ o_slice_cnt_ \in Nat
  <2>1. /\ pending["OUTPUT_FEATURE"] \in Nat /\ o_slice_cnt_ \in Nat
        /\ outbuf_[o].matrix_h \in Nat
    BY <1>1 DEF TypeOK, SPMBuf, DataType
  <2>2. /\ 0 = pending["OUTPUT_FEATURE"] + (outbuf_[o].matrix_h - o_slice_cnt_)
        /\ o_slice_cnt_ <= outbuf_[o].matrix_h
    BY <1>1 DEF EventInv
  <2>3. \A p, h, k \in Nat : 0 = p + (h - k) /\ k <= h => p = 0 /\ k = h
    OBVIOUS
  <2>. QED
    BY <2>1, <2>2, <2>3
<1>3. /\ pc' = "finish"
      /\ pending' = pending /\ output_cnt' = output_cnt
      /\ o_slice_cnt_' = o_slice_cnt_
      /\ outbuf_' = SwitchState(outbuf_, o, "IDLE")
      /\ writing_outbuf_ptr_' = None
      /\ UNCHANGED <<inbuf_, wbuf_, inbuf_ptr_, wbuf_ptr_, filling_outbuf_ptr_,
                     i_slice_cnt_, w_slice_cnt_, start_vertex, end_vertex,
                     is_done, array>>
  <2>1. /\ pending' = [pending EXCEPT !["OUTPUT_FEATURE"] = @ + 0]
        /\ output_cnt' = output_cnt + 0
        /\ o_slice_cnt_' = o_slice_cnt_ + 0
    <3>1. ~(o_slice_cnt_ < outbuf_[writing_outbuf_ptr_].matrix_h)
      BY <1>2
    <3>2. WriteFeatures
      BY DEF WriteDone
    <3>. QED
      BY <3>1, <3>2 DEF WriteFeatures
  <2>2. pending' = pending
    BY <1>2, <2>1 DEF TypeOK, DataType
  <2>. QED
    BY <1>2, <2>1, <2>2 DEF WriteDone, TypeOK
<1>4. \/ /\ BatchOver /\ NextBatch
      \/ UNCHANGED <<chunkVars, enable_fetch_, vertex_ptr, aggr_buf>>
  BY DEF WriteDone
<1>5. /\ outbuf_' \in [Bufs -> SPMBuf]
      /\ outbuf_'[o].state = "IDLE"
      /\ \A j \in Bufs : j # o => outbuf_'[j] = outbuf_[j]
  <2>1. outbuf_ \in [Bufs -> SPMBuf] /\ "IDLE" \in SPMState
    BY DEF TypeOK, SPMState
  <2>. QED
    BY <1>1, <1>3, <2>1, SwitchStateLemma
<1>6. None \notin Bufs
  BY DEF None, Bufs
<1>7. OutbufInv'
  BY <1>1, <1>3, <1>5, <1>6 DEF OutbufInv
<1>8. /\ \A j \in Bufs :
           /\ outbuf_'[j].state # "WRITING"
           /\ outbuf_'[j].state = "FILLING" => outbuf_'[j].event_cnt = outbuf_'[j].matrix_h
      /\ pending'["OUTPUT_FEATURE"] = 0
  BY <1>1, <1>2, <1>3, <1>5 DEF OutbufInv, EventInv
<1>9. /\ SizeOfBatch' = SizeOfBatch
      /\ array.state # "IDLE" => outbuf_'[array.cur_outbuf] = outbuf_[array.cur_outbuf]
  BY <1>1, <1>3, <1>5 DEF SizeOfBatch, InArray
<1>10. CASE UNCHANGED <<chunkVars, enable_fetch_, vertex_ptr, aggr_buf>>
  <2>1. TypeOK'
    BY <1>3, <1>5, <1>10 DEF TypeOK, PC
  <2>2. (InArray /\ InbufInv /\ WbufInv)'
    BY <1>3, <1>9, <1>10 DEF InArray, InbufInv, WbufInv
  <2>3. (BatchInv /\ HaltInv)'
    BY <1>3, <1>10 DEF BatchInv, HaltInv
  <2>4. EventInv'
    BY <1>3, <1>8, <1>9, <1>10 DEF EventInv
  <2>. QED
    BY <1>7, <2>1, <2>2, <2>3, <2>4
<1>11. CASE BatchOver /\ NextBatch
  <2>1. /\ input_chunk_cnt_ = num_input_chunk_
        /\ input_chunk_cnt_' = 0 /\ output_chunk_cnt_' = 0
        /\ enable_fetch_' = TRUE /\ vertex_ptr' = end_vertex
        /\ aggr_buf' = ConfirmComb(aggr_buf, SizeOfBatch)
    BY <1>11 DEF BatchOver, NextBatch
  <2>2. /\ inbuf_ptr_ = None /\ wbuf_ptr_ = None
        /\ vertex_ptr # end_vertex /\ ~is_done
        /\ aggr_buf.done_ptr.first = start_vertex
        /\ SizeOfBatch \in Nat /\ start_vertex \in Nat /\ end_vertex \in Nat
    BY <2>1, CombAssumption DEF BatchInv, InbufInv, HaltInv, TypeOK, SizeOfBatch
  <2>3. /\ aggr_buf' \in AggrBufType
        /\ aggr_buf'.done_ptr.first = end_vertex
        /\ aggr_buf'.aggr_ptr = aggr_buf.aggr_ptr
        /\ aggr_buf'.ready_ptr = aggr_buf.ready_ptr
        /\ aggr_buf'.comb_ptr = aggr_buf.comb_ptr
    <3>1. aggr_buf' \in AggrBufType
      BY <2>1, <2>2, ConfirmCombType DEF TypeOK
    <3>. QED
      BY <2>1, <2>2, <3>1 DEF TypeOK, ConfirmComb, Advance, AggrBufType, Ptr, SizeOfBatch
  <2>4. TypeOK'
    <3>1. 0 \in 0..num_input_chunk_ /\ 0 \in 0..(num_output_chunk_ - 1)
      BY CombAssumption
    <3>. QED
      BY <1>3, <1>5, <2>1, <2>3, <3>1 DEF TypeOK, PC
  <2>5. InArray'
    BY <1>3, <1>6, <1>9, <2>1, <2>2 DEF InArray
  <2>6. (InbufInv /\ WbufInv)'
    BY <1>3, <2>1, <2>2 DEF InbufInv, WbufInv
  <2>7. (BatchInv /\ HaltInv)'
    BY <1>3, <2>1, <2>2, <2>3, CombAssumption DEF BatchInv, HaltInv
  <2>8. EventInv'
    <3>1. \A j \in Bufs : inbuf_[j].state \notin {"FILLING", "READY"}
      BY <1>6, <2>2 DEF InbufInv
    <3>. QED
      BY <1>3, <1>8, <3>1 DEF EventInv
  <2>. QED
    BY <1>7, <2>4, <2>5, <2>6, <2>7, <2>8
<1>. QED
  BY <1>4, <1>10, <1>11

\* The engine finds that all is done, comb.cpp:96.
LEMMA FinishInv == IInv /\ Finish => IInv'
<1>. SUFFICES ASSUME IInv, Finish PROVE IInv'
  OBVIOUS
<1>. USE DEF IInv, Finish, bufVars, chunkVars, ptrVars, sliceVars, batchVars, memVars
<1>1. TypeOK'
  BY DEF TypeOK, PC
<1>2. (InArray /\ InbufInv /\ WbufInv /\ OutbufInv)'
  BY DEF InArray, InbufInv, WbufInv, OutbufInv
<1>3. (BatchInv /\ EventInv)'
  BY DEF BatchInv, EventInv, SizeOfBatch
<1>4. HaltInv'
  BY CombAssumption DEF HaltInv, BatchInv, TypeOK
<1>. QED
  BY <1>1, <1>2, <1>3, <1>4

-----------------------------------------------------------------------------
(* The invariant, and what follows from it.                                *)

\* Every step, and every stutter, keeps the invariant.
LEMMA NextInv == IInv /\ [Next]_vars => IInv'
<1>. SUFFICES ASSUME IInv, [Next]_vars PROVE IInv'
  OBVIOUS
<1>1. CASE Return
  BY <1>1, ReturnFeatureInv, ReturnWeightInv, ReturnOutputInv DEF Return
<1>2. CASE AggrReserves \/ AggrPublishes
  BY <1>2, AggrReservesInv, AggrPublishesInv
<1>3. CASE ClockTick
  <2>1. CASE ArrayFinishes \/ GetResult \/ StartCompute
    BY <2>1, ArrayFinishesInv, GetResultInv, StartComputeInv
  <2>2. CASE BatchVertex \/ Fetch \/ GetReadyForFetch
    BY <2>2, BatchVertexInv, FetchInv, GetReadyForFetchInv
  <2>3. CASE WriteRow \/ WriteDone \/ Finish
    BY <2>3, WriteRowInv, WriteDoneInv, FinishInv
  <2>4. CASE Tick \/ ArrayWorks \/ ArrayWaits \/ KeepBatch \/ Halted
    BY <2>4, OnlyPc DEF Tick, ArrayWorks, ArrayWaits, KeepBatch, Halted, PC
  <2>5. CASE FetchWaits \/ WriteWaits
    BY <2>5, OnlyPc DEF FetchWaits, WriteWaits, PC
  <2>. QED
    BY <1>3, <2>1, <2>2, <2>3, <2>4, <2>5 DEF ClockTick
<1>4. CASE UNCHANGED vars
  <2>1. pc' \in PC
    BY <1>4 DEF vars, IInv, TypeOK
  <2>2. UNCHANGED <<bufVars, chunkVars, ptrVars, sliceVars, enable_fetch_,
                    batchVars, is_done, array, aggr_buf, memVars>>
    BY <1>4 DEF vars
  <2>. QED
    BY <2>1, <2>2, OnlyPc
<1>. QED
  BY <1>1, <1>2, <1>3, <1>4 DEF Next

\* The inductive invariant holds in every reachable state of Comb, for every
\* number of vertices, blocks, chunks and slots of the ring.
THEOREM Invariance == SafeSpec => []IInv
BY InitInv, NextInv, PTL DEF SafeSpec

\* Every buffer state, counter, pointer and batch bound stays in its range; in
\* particular no event count goes below zero (spm.h:65-67 decrements an
\* unsigned counter) and the chunk counters never pass the chunk counts.
THEOREM TypeCorrect == SafeSpec => []TypeOK
<1>1. IInv => TypeOK
  BY DEF IInv
<1>. QED
  BY <1>1, Invariance, PTL

\* The block in the array owns the three buffers SetBufConfig recorded.
THEOREM ArrayOwnsBuffers == SafeSpec => []BufferMatch
<1>1. IInv => BufferMatch
  BY DEF IInv, InArray, BufferMatch
<1>. QED
  BY <1>1, Invariance, PTL

\* The assertions on the fetch path never fail: with two buffers of each kind
\* one is idle whenever the engine asks for it.
THEOREM FetchAssertions == SafeSpec => []FetchSafe
<1>1. ASSUME IInv PROVE FetchSafe
  <2>. SUFFICES ASSUME ~Fetching, enable_fetch_
                PROVE  /\ input_chunk_cnt_ # num_input_chunk_
                       /\ GetTargetBuf(wbuf_, "IDLE") # None
                       /\ output_chunk_cnt_ = 0 => GetTargetBuf(inbuf_, "IDLE") # None
    BY DEF FetchSafe
  <2>. USE <1>1 DEF IInv
  <2>1. input_chunk_cnt_ # num_input_chunk_
    BY DEF BatchInv
  <2>2. wbuf_ptr_ = None
    BY DEF Fetching, InbufInv
  <2>3. output_chunk_cnt_ = 0 => inbuf_ptr_ = None
    BY <2>2 DEF InbufInv
  <2>4. GetTargetBuf(wbuf_, "IDLE") # None
    <3>1. \A j \in Bufs : /\ wbuf_[j].state \in {"IDLE", "DRAINING"}
                          /\ wbuf_[j].state = "DRAINING" => j = array.cur_wbuf
      BY <2>2 DEF WbufInv, Bufs, None
    <3>. QED
      BY <3>1 DEF GetTargetBuf, Bufs, None
  <2>5. ASSUME output_chunk_cnt_ = 0 PROVE GetTargetBuf(inbuf_, "IDLE") # None
    <3>1. \A j \in Bufs : /\ inbuf_[j].state \in {"IDLE", "DRAINING"}
                          /\ inbuf_[j].state = "DRAINING" => j = array.cur_inbuf
      BY <2>3, <2>5 DEF InbufInv, Bufs, None
    <3>. QED
      BY <3>1 DEF GetTargetBuf, Bufs, None
  <2>. QED
    BY <2>1, <2>4, <2>5
<1>. QED
  BY <1>1, Invariance, PTL

\* Both together: a buffer has one owner.
THEOREM BuffersStayOwned == SafeSpec => []BuffersOwned
BY ArrayOwnsBuffers, FetchAssertions, PTL DEF BuffersOwned

\* Every event a buffer waits for is owed by memory or still to be issued, and
\* an answer finds the buffer it was asked for, however late it comes.
THEOREM EventsAccounted == SafeSpec => []EventAccounting
<1>1. ASSUME IInv PROVE EventAccounting
  <2>. USE <1>1 DEF IInv
  <2>1. ASSUME NEW j \in Bufs
        PROVE  /\ inbuf_[j].state = "FILLING" => j = inbuf_ptr_
               /\ wbuf_[j].state = "FILLING" => j = wbuf_ptr_
               /\ outbuf_[j].state = "WRITING" => j = writing_outbuf_ptr_
    BY DEF InbufInv, WbufInv, OutbufInv
  <2>2. /\ GetTargetBuf(inbuf_, "FILLING") = None => pending["AGGR_FEATURE"] = 0
        /\ GetTargetBuf(wbuf_, "FILLING") = None => pending["WEIGHT"] = 0
        /\ GetTargetBuf(outbuf_, "WRITING") = None => pending["OUTPUT_FEATURE"] = 0
    BY GetTargetBufLemma DEF EventInv
  <2>. QED
    BY <2>1, <2>2 DEF EventInv, EventAccounting
<1>. QED
  BY <1>1, Invariance, PTL

\* The batch is the window between the done and the comb pointers.
THEOREM BatchIsWindow == SafeSpec => []BatchWindow
<1>1. ASSUME IInv PROVE BatchWindow
  BY <1>1, CombAssumption DEF IInv, BatchInv, BatchWindow, TypeOK, SizeOfBatch
<1>. QED
  BY <1>1, Invariance, PTL

\* When the engine is done nothing is being fetched any more.
LEMMA DoneFacts ==
  ASSUME IInv, is_done
  PROVE  /\ aggr_buf.done_ptr.first = NumVertex /\ aggr_buf.aggr_ptr.first = NumVertex
         /\ pending["AGGR_FEATURE"] = 0 /\ pending["WEIGHT"] = 0
<1>. USE DEF IInv
<1>1. /\ vertex_ptr = end_vertex /\ aggr_buf.done_ptr.first = NumVertex
      /\ aggr_buf.comb_ptr.first = NumVertex
  BY DEF BatchInv, HaltInv
<1>2. /\ NumVertex \in Nat /\ aggr_buf.ready_ptr.first \in Nat
      /\ aggr_buf.aggr_ptr.first \in Nat
  BY CombAssumption DEF TypeOK, AggrBufType, Ptr
<1>3. aggr_buf.aggr_ptr.first = NumVertex
  BY <1>1, <1>2 DEF BatchInv
<1>4. inbuf_ptr_ = None /\ wbuf_ptr_ = None
  BY <1>1 DEF BatchInv, InbufInv
<1>5. \A i \in Bufs : inbuf_[i].state # "FILLING" /\ wbuf_[i].state # "FILLING"
  BY <1>4 DEF InbufInv, WbufInv, Bufs, None
<1>. QED
  BY <1>1, <1>3, <1>5 DEF EventInv

\* When the engine is done every vertex has been released.
THEOREM DoneMeansReleased == SafeSpec => []DoneReleased
<1>1. ASSUME IInv PROVE DoneReleased
  BY <1>1, DoneFacts DEF DoneReleased
<1>. QED
  BY <1>1, Invariance, PTL

-----------------------------------------------------------------------------
(* The ring and the pipeline: what a step does to the four pointers.       *)

\* A step leaves the ring alone or is one of the pipeline's four, which
\* advances one pointer.
LEMMA RingStep ==
  ASSUME IInv, [Next]_vars
  PROVE  \/ aggr_buf' = aggr_buf
         \/ Pipeline!Reserve /\ \E n \in Nat : aggr_buf' = StartAggr(aggr_buf, n)
         \/ Pipeline!Publish /\ \E n \in Nat : aggr_buf' = ConfirmAggr(aggr_buf, n)
         \/ Pipeline!Take /\ \E n \in Nat : aggr_buf' = StartComb(aggr_buf, n)
         \/ Pipeline!Release /\ \E n \in Nat : aggr_buf' = ConfirmComb(aggr_buf, n)
<1>1. /\ aggr_buf \in AggrBufType
      /\ aggr_buf.aggr_ptr.first \in Nat /\ aggr_buf.ready_ptr.first \in Nat
      /\ aggr_buf.comb_ptr.first \in Nat /\ aggr_buf.done_ptr.first \in Nat
  BY DEF IInv, TypeOK, AggrBufType, Ptr
<1>2. CASE AggrReserves
  <2>1. PICK n \in 1..(NumVertex - aggr_buf.aggr_ptr.first) :
          aggr_buf' = StartAggr(aggr_buf, n)
    BY <1>2 DEF AggrReserves
  <2>2. /\ n \in Nat /\ n > 0
        /\ aggr_buf.aggr_ptr.first + n <= NumVertex
    BY <1>1, <2>1, CombAssumption
  <2>3. /\ StartAggr(aggr_buf, n).aggr_ptr.first = aggr_buf.aggr_ptr.first + n
        /\ StartAggr(aggr_buf, n).ready_ptr = aggr_buf.ready_ptr
        /\ StartAggr(aggr_buf, n).comb_ptr = aggr_buf.comb_ptr
        /\ StartAggr(aggr_buf, n).done_ptr = aggr_buf.done_ptr
    BY <1>1, <2>2, StartAggrType
  <2>4. aggr_buf.aggr_ptr.first + n \in (aggr_buf.aggr_ptr.first + 1)..NumVertex
    BY <1>1, <2>2, CombAssumption
  <2>5. Pipeline!Reserve
    BY <1>2, <2>1, <2>3, <2>4 DEF AggrReserves, Pipeline!Reserve
  <2>. QED
    BY <2>1, <2>2, <2>5
<1>3. CASE AggrPublishes
  <2>. DEFINE n == aggr_buf.aggr_ptr.first - aggr_buf.ready_ptr.first
  <2>1. n \in Nat /\ aggr_buf' = ConfirmAggr(aggr_buf, n)
    BY <1>1, <1>3 DEF AggrPublishes, IInv, BatchInv
  <2>2. aggr_buf.ready_ptr.first + n = aggr_buf.aggr_ptr.first
    BY <1>1
  <2>. HIDE DEF n
  <2>3. /\ ConfirmAggr(aggr_buf, n).ready_ptr.first = aggr_buf.ready_ptr.first + n
        /\ ConfirmAggr(aggr_buf, n).aggr_ptr = aggr_buf.aggr_ptr
        /\ ConfirmAggr(aggr_buf, n).comb_ptr = aggr_buf.comb_ptr
        /\ ConfirmAggr(aggr_buf, n).done_ptr = aggr_buf.done_ptr
    BY <1>1, <2>1, ConfirmAggrType
  <2>4. Pipeline!Publish
    BY <1>3, <2>1, <2>2, <2>3 DEF AggrPublishes, Pipeline!Publish
  <2>. QED
    BY <2>1, <2>4
<1>4. CASE BatchVertex
  <2>. DEFINE ready_num == GetReadyVertexNum(aggr_buf)
              n == NextBatchSize
  <2>1. /\ vertex_ptr = end_vertex /\ ready_num > 0
        /\ aggr_buf' = StartComb(aggr_buf, n)
    BY <1>4 DEF BatchVertex
  <2>2. /\ n \in Nat /\ n > 0
        /\ aggr_buf.comb_ptr.first + n <= aggr_buf.ready_ptr.first
    BY <1>1, <2>1, CombAssumption DEF GetReadyVertexNum, NextBatchSize
  <2>. HIDE DEF n, ready_num
  <2>3. aggr_buf.comb_ptr.first = aggr_buf.done_ptr.first
    BY <2>1 DEF IInv, BatchInv
  <2>4. aggr_buf.comb_ptr.first + n
          \in (aggr_buf.comb_ptr.first + 1)..aggr_buf.ready_ptr.first
    BY <1>1, <2>2
  <2>5. /\ StartComb(aggr_buf, n).comb_ptr.first = aggr_buf.comb_ptr.first + n
        /\ StartComb(aggr_buf, n).aggr_ptr = aggr_buf.aggr_ptr
        /\ StartComb(aggr_buf, n).ready_ptr = aggr_buf.ready_ptr
        /\ StartComb(aggr_buf, n).done_ptr = aggr_buf.done_ptr
    BY <1>1, <2>2, StartCombType
  <2>6. Pipeline!Take
    BY <2>1, <2>3, <2>4, <2>5 DEF Pipeline!Take
  <2>. QED
    BY <2>1, <2>2, <2>6
<1>5. CASE WriteDone
  <2>1. CASE ~BatchOver
    BY <1>5, <2>1 DEF WriteDone
  <2>2. CASE BatchOver
    <3>1. aggr_buf' = ConfirmComb(aggr_buf, SizeOfBatch)
      BY <1>5, <2>2 DEF WriteDone, NextBatch
    <3>2. /\ vertex_ptr # end_vertex
          /\ aggr_buf.done_ptr.first = start_vertex
          /\ aggr_buf.comb_ptr.first = end_vertex
          /\ start_vertex < end_vertex
          /\ start_vertex \in Nat /\ end_vertex \in Nat
      BY <2>2, CombAssumption DEF BatchOver, IInv, BatchInv, TypeOK
    <3>3. SizeOfBatch \in Nat
      BY <3>2 DEF SizeOfBatch
    <3>4. /\ ConfirmComb(aggr_buf, SizeOfBatch).done_ptr.first =
               aggr_buf.done_ptr.first + SizeOfBatch
          /\ ConfirmComb(aggr_buf, SizeOfBatch).aggr_ptr = aggr_buf.aggr_ptr
          /\ ConfirmComb(aggr_buf, SizeOfBatch).ready_ptr = aggr_buf.ready_ptr
          /\ ConfirmComb(aggr_buf, SizeOfBatch).comb_ptr = aggr_buf.comb_ptr
      BY <1>1, <3>3, ConfirmCombType
    <3>5. aggr_buf.done_ptr.first + SizeOfBatch = aggr_buf.comb_ptr.first
      BY <3>2 DEF SizeOfBatch
    <3>6. aggr_buf.comb_ptr.first # aggr_buf.done_ptr.first
      BY <3>2
    <3>7. Pipeline!Release
      BY <3>1, <3>4, <3>5, <3>6 DEF Pipeline!Release
    <3>. QED
      BY <3>1, <3>3, <3>7
  <2>. QED
    BY <2>1, <2>2
<1>6. CASE Return \/ Tick \/ ArrayWorks \/ ArrayFinishes \/ GetResult \/ StartCompute
           \/ ArrayWaits \/ KeepBatch \/ Halted
  BY <1>6 DEF Return, ReturnFeature, ReturnWeight, ReturnOutput, Tick, ArrayWorks,
              ArrayFinishes, GetResult, StartCompute, ArrayWaits, KeepBatch, Halted
<1>7. CASE Fetch \/ GetReadyForFetch \/ FetchWaits \/ WriteRow \/ WriteWaits \/ Finish
  BY <1>7 DEF Fetch, GetReadyForFetch, FetchWaits, WriteRow, WriteWaits, Finish
<1>8. CASE UNCHANGED vars
  BY <1>8 DEF vars
<1>. QED
  BY <1>2, <1>3, <1>4, <1>5, <1>6, <1>7, <1>8 DEF Next, ClockTick

\* Of its own tick, what takes a batch and what releases one.
Takes ==
  /\ pc' # "return"
  /\ aggr_buf.comb_ptr.first = aggr_buf.done_ptr.first
  /\ \E n \in 1..GetReadyVertexNum(aggr_buf) : aggr_buf' = StartComb(aggr_buf, n)
Releases ==
  /\ pc' # "return"
  /\ aggr_buf.comb_ptr.first # aggr_buf.done_ptr.first
  /\ aggr_buf' = ConfirmComb(aggr_buf, aggr_buf.comb_ptr.first - aggr_buf.done_ptr.first)

\* The engine does nothing else to the ring.
LEMMA TickAtRing ==
  ASSUME IInv, ClockTick PROVE aggr_buf' = aggr_buf \/ Takes \/ Releases
<1>1. /\ aggr_buf.ready_ptr.first \in Nat /\ aggr_buf.comb_ptr.first \in Nat
      /\ start_vertex \in Int /\ end_vertex \in Int /\ sz_max_batch \in Nat \ {0}
  BY CombAssumption DEF IInv, TypeOK, AggrBufType, Ptr
<1>2. CASE BatchVertex
  <2>1. NextBatchSize \in 1..GetReadyVertexNum(aggr_buf)
    BY <1>1, <1>2 DEF BatchVertex, NextBatchSize, GetReadyVertexNum
  <2>2. aggr_buf' = StartComb(aggr_buf, NextBatchSize) /\ pc' # "return"
    BY <1>2 DEF BatchVertex
  <2>3. aggr_buf.comb_ptr.first = aggr_buf.done_ptr.first
    BY <1>2 DEF BatchVertex, IInv, BatchInv
  <2>. QED
    BY <2>1, <2>2, <2>3 DEF Takes
<1>3. CASE WriteDone /\ BatchOver
  <2>1. aggr_buf' = ConfirmComb(aggr_buf, SizeOfBatch) /\ pc' # "return"
    BY <1>3 DEF WriteDone, NextBatch
  <2>2. /\ aggr_buf.done_ptr.first = start_vertex
        /\ aggr_buf.comb_ptr.first = end_vertex
        /\ start_vertex < end_vertex
    BY <1>3, CombAssumption DEF BatchOver, IInv, BatchInv, TypeOK
  <2>3. /\ SizeOfBatch = aggr_buf.comb_ptr.first - aggr_buf.done_ptr.first
        /\ aggr_buf.comb_ptr.first # aggr_buf.done_ptr.first
    BY <1>1, <2>2 DEF SizeOfBatch
  <2>. QED
    BY <2>1, <2>3 DEF Releases
<1>4. CASE WriteDone /\ ~BatchOver
  BY <1>4 DEF WriteDone
<1>5. CASE Tick \/ ArrayWorks \/ ArrayFinishes \/ GetResult \/ StartCompute
           \/ ArrayWaits \/ KeepBatch \/ Halted
  BY <1>5 DEF Tick, ArrayWorks, ArrayFinishes, GetResult, StartCompute, ArrayWaits,
              KeepBatch, Halted
<1>6. CASE Fetch \/ GetReadyForFetch \/ FetchWaits \/ WriteRow \/ WriteWaits \/ Finish
  BY <1>6 DEF Fetch, GetReadyForFetch, FetchWaits, WriteRow, WriteWaits, Finish
<1>. QED
  BY <1>2, <1>3, <1>4, <1>5, <1>6 DEF ClockTick

\* With the aggregation engine's two steps the engine implements the safety
\* part of VertexPipeline.
THEOREM ImplementsPipeline == SafeSpec => PipelineSafe
<1>1. Init => Pipeline!Init
  BY DEF Init, InitBuf, InitPtr, Pipeline!Init
<1>2. ASSUME IInv, [Next]_vars PROVE [Pipeline!Next]_Pipeline!vars
  BY <1>2, RingStep DEF Pipeline!Next, Pipeline!vars
<1>. QED
  BY <1>1, <1>2, Invariance, PTL DEF SafeSpec, PipelineSafe, Pipeline!SafeSpec

\* In the abstract pipeline neither engine overtakes the other or runs past the
\* layer's end, whatever the sizes of the chunks and of the batches; the order is
\* what keeps the four pointers in their range.
THEOREM PointersInOrder ==
  Pipeline!SafeSpec => [](Pipeline!TypeOK /\ Pipeline!Order)
<1>. DEFINE Inv == Pipeline!TypeOK /\ Pipeline!Order
<1>. USE DEF Pipeline!TypeOK, Pipeline!Order
<1>1. Pipeline!Init => Inv
  BY CombAssumption DEF Pipeline!Init
<1>2. Inv /\ [Pipeline!Next]_Pipeline!vars => Inv'
  <2>. SUFFICES ASSUME Inv, [Pipeline!Next]_Pipeline!vars PROVE Inv'
    OBVIOUS
  <2>0. NumVertex \in Nat
    BY CombAssumption
  <2>1. CASE Pipeline!Reserve
    BY <2>0, <2>1 DEF Pipeline!Reserve
  <2>2. CASE Pipeline!Publish
    BY <2>2 DEF Pipeline!Publish
  <2>3. CASE Pipeline!Take
    BY <2>0, <2>3 DEF Pipeline!Take
  <2>4. CASE Pipeline!Release
    BY <2>4 DEF Pipeline!Release
  <2>5. CASE UNCHANGED Pipeline!vars
    BY <2>5 DEF Pipeline!vars
  <2>. QED
    BY <2>1, <2>2, <2>3, <2>4, <2>5 DEF Pipeline!Next
<1>. QED
  BY <1>1, <1>2, PTL DEF Pipeline!SafeSpec

\* So the four pointers of the ring keep their order and stay in the layer:
\* what is proved of the contract holds of the engine.
THEOREM PointersStayInOrder == SafeSpec => [](Pipeline!TypeOK /\ Pipeline!Order)
  BY ImplementsPipeline, PointersInOrder, PTL DEF PipelineSafe
-----------------------------------------------------------------------------
(* The rows of the result.  OutputAccounting needs one fact more: the      *)
(* block to be computed has as many rows as the batch it was fetched for,  *)
(* although the size went from the batch to the input buffer to the output *)
(* buffer, at three different times.  How many rows the end leaves         *)
(* unwritten needs another: once the counters say that all of a batch has  *)
(* gone to the array, the array has its last block or none.                *)

SizeInv == inbuf_ptr_ # None => inbuf_[inbuf_ptr_].matrix_h = SizeOfBatch

LastBlock ==
  array.state # "IDLE" /\ (BatchOver \/ vertex_ptr = end_vertex) =>
    /\ array.input_chunk = num_input_chunk_ - 1
    /\ array.output_chunk = num_output_chunk_ - 1

LastRows ==
  /\ BatchOver => RowsInArray <= SizeOfBatch
  /\ vertex_ptr = end_vertex => RowsUnwritten <= SizeOfBatch

RowInv == SizeInv /\ LastBlock /\ LastRows /\ OutputAccounting

\* The counters that the rows are counted by are integers.
LEMMA RowTypes ==
  ASSUME IInv
  PROVE  /\ NumVertex \in Int /\ num_output_chunk_ \in Int /\ num_input_chunk_ \in Int
         /\ NumBlock \in Int /\ SizeOfBatch \in Int
         /\ input_chunk_cnt_ \in Int /\ output_chunk_cnt_ \in Int
         /\ output_cnt \in Int /\ aggr_buf.comb_ptr.first \in Int
         /\ RowsToWrite \in Nat /\ RowsInArray \in Nat
         /\ RowsOfBatch \in Int /\ RowsOfOthers \in Int
         /\ \A i \in Bufs : outbuf_[i].matrix_h \in Int
<1>1. /\ NumVertex \in Int /\ num_output_chunk_ \in Int /\ num_input_chunk_ \in Int
      /\ input_chunk_cnt_ \in Int /\ output_chunk_cnt_ \in Int
      /\ output_cnt \in Int /\ o_slice_cnt_ \in Int /\ aggr_buf.comb_ptr.first \in Int
  BY CombAssumption DEF IInv, TypeOK, AggrBufType, Ptr
<1>2. NumBlock \in Int /\ SizeOfBatch \in Int
  BY <1>1 DEF NumBlock, SizeOfBatch, IInv, TypeOK
<1>3. \A i \in Bufs : outbuf_[i].matrix_h \in Nat
  BY DEF IInv, TypeOK, SPMBuf
<1>4. RowsToWrite \in Nat
  <2>1. CASE Writing
    <3>1. PICK o \in Bufs : o = writing_outbuf_ptr_
      BY <2>1 DEF Writing, IInv, TypeOK
    <3>2. o_slice_cnt_ <= outbuf_[o].matrix_h
      BY <3>1 DEF IInv, OutbufInv, EventInv
    <3>. QED
      BY <1>1, <1>3, <2>1, <3>1, <3>2 DEF RowsToWrite
  <2>2. CASE ~Writing
    BY <2>2 DEF RowsToWrite
  <2>. QED
    BY <2>1, <2>2
<1>5. RowsInArray \in Nat
  BY <1>3 DEF RowsInArray, IInv, InArray
<1>6. RowsOfBatch \in Int /\ RowsOfOthers \in Int
  BY <1>1, <1>2 DEF RowsOfBatch, RowsOfOthers
<1>. QED
  BY <1>1, <1>2, <1>3, <1>4, <1>5, <1>6

\* A step that moves none of the counters keeps the accounts.
LEMMA RowsUntouched ==
  ASSUME IInv, RowInv,
         \A i \in Bufs : outbuf_'[i].matrix_h = outbuf_[i].matrix_h,
         inbuf_ptr_' # None => inbuf_[inbuf_ptr_].matrix_h = inbuf_'[inbuf_ptr_].matrix_h,
         UNCHANGED <<chunkVars, inbuf_ptr_, writing_outbuf_ptr_, o_slice_cnt_, batchVars,
                     output_cnt>>,
         array'.state # "IDLE" <=> array.state # "IDLE",
         array'.cur_outbuf = array.cur_outbuf,
         array'.input_chunk = array.input_chunk,
         array'.output_chunk = array.output_chunk,
         aggr_buf'.comb_ptr = aggr_buf.comb_ptr
  PROVE  RowInv'
<1>1. SizeOfBatch' = SizeOfBatch
  BY DEF SizeOfBatch, batchVars
<1>2. SizeInv'
  BY <1>1 DEF SizeInv, RowInv
<1>3. RowsToWrite' = RowsToWrite
  BY DEF RowsToWrite, Writing, IInv, TypeOK
<1>4. RowsInArray' = RowsInArray
  BY DEF RowsInArray, IInv, InArray
<1>5. RowsOfBatch' = RowsOfBatch /\ RowsOfOthers' = RowsOfOthers
  BY <1>1 DEF RowsOfBatch, RowsOfOthers, chunkVars, batchVars
<1>6. LastBlock' /\ LastRows'
  BY <1>1, <1>3, <1>4 DEF RowInv, LastBlock, LastRows, RowsUnwritten, BatchOver,
                          chunkVars, batchVars
<1>. QED
  BY <1>2, <1>3, <1>4, <1>5, <1>6 DEF RowInv, OutputAccounting, RowsUnwritten

\* The steps of memory, of the aggregation engine and of the fetching but for
\* the claim of new buffers move none of them.
LEMMA QuietSteps ==
  ASSUME IInv, RowInv,
         \/ Return \/ AggrReserves \/ AggrPublishes \/ Tick \/ ArrayWorks
         \/ ArrayFinishes \/ ArrayWaits \/ KeepBatch \/ Halted \/ Fetch
         \/ FetchWaits \/ WriteWaits \/ Finish \/ UNCHANGED vars
  PROVE  RowInv'
<1>. USE DEF bufVars, chunkVars, ptrVars, sliceVars, batchVars, memVars
<1>0. /\ inbuf_ \in [Bufs -> SPMBuf] /\ outbuf_ \in [Bufs -> SPMBuf]
      /\ array \in [state : ArrayState, cur_inbuf : Bufs \cup {None},
                    cur_wbuf : Bufs \cup {None}, cur_outbuf : Bufs \cup {None},
                    input_chunk : 0..num_input_chunk_,
                    output_chunk : 0..(num_output_chunk_ - 1)]
      /\ aggr_buf \in AggrBufType
      /\ inbuf_ptr_ \in Bufs \cup {None}
  BY DEF IInv, TypeOK
<1>1. CASE Return
  <2>1. \A f \in [Bufs -> SPMBuf] : \A i : \A j \in Bufs :
          ConfirmEvent(f, i)[j].matrix_h = f[j].matrix_h
    BY DEF ConfirmEvent, SPMBuf
  <2>2. inbuf_' = inbuf_ \/ inbuf_' = ConfirmEvent(inbuf_, inbuf_ptr_)
    BY <1>1 DEF Return, ReturnFeature, ReturnWeight, ReturnOutput
  <2>3. outbuf_' = outbuf_ \/ outbuf_' = ConfirmEvent(outbuf_, writing_outbuf_ptr_)
    BY <1>1 DEF Return, ReturnFeature, ReturnWeight, ReturnOutput
  <2>4. UNCHANGED <<chunkVars, ptrVars, sliceVars, batchVars, output_cnt, array, aggr_buf>>
    BY <1>1 DEF Return, ReturnFeature, ReturnWeight, ReturnOutput
  <2>5. \A i \in Bufs : /\ outbuf_'[i].matrix_h = outbuf_[i].matrix_h
                        /\ inbuf_'[i].matrix_h = inbuf_[i].matrix_h
    BY <1>0, <2>1, <2>2, <2>3
  <2>. QED
    BY <1>0, <2>4, <2>5, RowsUntouched
<1>2. CASE AggrReserves \/ AggrPublishes
  <2>1. UNCHANGED <<bufVars, chunkVars, ptrVars, sliceVars, batchVars, array, memVars>>
    BY <1>2 DEF AggrReserves, AggrPublishes
  <2>2. aggr_buf'.comb_ptr = aggr_buf.comb_ptr
    BY <1>0, <1>2 DEF AggrReserves, AggrPublishes, StartAggr, ConfirmAggr, AggrBufType
  <2>. QED
    BY <2>1, <2>2, RowsUntouched
<1>3. CASE ArrayFinishes
  <2>1. /\ UNCHANGED <<bufVars, chunkVars, ptrVars, sliceVars, batchVars, aggr_buf, memVars>>
        /\ array.state = "BUSY" /\ array' = [array EXCEPT !.state = "DONE"]
    BY <1>3 DEF ArrayFinishes
  <2>2. /\ array'.state # "IDLE" /\ array.state # "IDLE"
        /\ array'.cur_outbuf = array.cur_outbuf
        /\ array'.input_chunk = array.input_chunk
        /\ array'.output_chunk = array.output_chunk
    BY <1>0, <2>1
  <2>. QED
    BY <2>1, <2>2, RowsUntouched
<1>4. CASE Fetch
  <2>1. /\ UNCHANGED <<outbuf_, chunkVars, ptrVars, o_slice_cnt_, batchVars, array, aggr_buf,
                       output_cnt>>
        /\ inbuf_' = inbuf_ \/ inbuf_' = SwitchState(inbuf_, inbuf_ptr_, "READY")
    BY <1>4 DEF Fetch
  <2>2. inbuf_ptr_ # None => inbuf_'[inbuf_ptr_].matrix_h = inbuf_[inbuf_ptr_].matrix_h
    BY <1>0, <2>1 DEF SwitchState, SPMBuf
  <2>. QED
    BY <2>1, <2>2, RowsUntouched
<1>5. CASE \/ Tick \/ ArrayWorks \/ ArrayWaits \/ KeepBatch \/ Halted
           \/ FetchWaits \/ WriteWaits \/ Finish \/ UNCHANGED vars
  <2>1. UNCHANGED <<bufVars, chunkVars, ptrVars, sliceVars, batchVars, array, aggr_buf, memVars>>
    BY <1>5 DEF Tick, ArrayWorks, ArrayWaits, KeepBatch, Halted, FetchWaits, WriteWaits,
                Finish, vars
  <2>. QED
    BY <2>1, RowsUntouched
<1>. QED
  BY <1>1, <1>2, <1>3, <1>4, <1>5

\* A block that goes to the array is one block less of the batch, and its rows
\* are those of the batch.
LEMMA StartComputeRows == ASSUME IInv, RowInv, StartCompute PROVE RowInv'
<1>. DEFINE i == GetTargetBuf(inbuf_, "READY")
            o == GetTargetBuf(outbuf_, "IDLE")
            h == inbuf_[i].matrix_h
            last == output_chunk_cnt_ + 1 = num_output_chunk_
<1>. USE DEF bufVars, chunkVars, ptrVars, sliceVars, batchVars, memVars
<1>1. /\ i \in Bufs /\ inbuf_[i].state = "READY" /\ o \in Bufs /\ outbuf_[o].state = "IDLE"
  BY GetTargetBufLemma DEF StartCompute, ReadyForCompute
<1>2. /\ array.state = "IDLE"
      /\ inbuf_' = SwitchState(inbuf_, i, "DRAINING")
      /\ outbuf_' = [outbuf_ EXCEPT ![o] =
                       [state |-> "FILLING", event_cnt |-> h, matrix_h |-> h]]
      /\ array' = BlockConfig(o) /\ FetchNextBlock
      /\ UNCHANGED <<writing_outbuf_ptr_, sliceVars, batchVars, is_done, aggr_buf, memVars>>
  BY DEF StartCompute
<1>. HIDE DEF i, o, h
<1>3. i = inbuf_ptr_ /\ inbuf_ptr_ # None
  BY <1>1 DEF IInv, InbufInv, Bufs, None
<1>4. vertex_ptr # end_vertex
  BY <1>3 DEF IInv, BatchInv
<1>5. SizeOfBatch' = SizeOfBatch /\ h = SizeOfBatch
  BY <1>2, <1>3 DEF SizeOfBatch, RowInv, SizeInv, h
<1>6. SizeInv'
  <2>1. inbuf_ptr_' # None => inbuf_ptr_' = i
    BY <1>2, <1>3 DEF FetchNextBlock
  <2>2. inbuf_'[i].matrix_h = inbuf_[i].matrix_h
    <3>1. inbuf_ \in [Bufs -> SPMBuf] /\ "DRAINING" \in SPMState
      BY DEF IInv, TypeOK, SPMState
    <3>. QED
      BY <1>1, <1>2, <3>1, SwitchStateLemma
  <2>. QED
    BY <1>5, <2>1, <2>2 DEF SizeInv, h
<1>7. RowsToWrite' = RowsToWrite
  <2>1. writing_outbuf_ptr_ # o
    BY <1>1 DEF IInv, OutbufInv
  <2>2. \A j \in Bufs : j # o => outbuf_'[j] = outbuf_[j]
    BY <1>2 DEF IInv, TypeOK
  <2>. QED
    BY <1>2, <2>1, <2>2 DEF RowsToWrite, Writing, IInv, TypeOK
<1>8. RowsInArray = 0 /\ RowsInArray' = SizeOfBatch
  <2>1. outbuf_'[o].matrix_h = h
    BY <1>1, <1>2 DEF IInv, TypeOK
  <2>2. array'.state # "IDLE" /\ array'.cur_outbuf = o
    BY <1>2 DEF BlockConfig
  <2>. QED
    BY <1>2, <1>5, <2>1, <2>2 DEF RowsInArray
<1>9. RowsOfBatch' = RowsOfBatch - SizeOfBatch
  <2>. DEFINE cnt == input_chunk_cnt_ * num_output_chunk_ + output_chunk_cnt_
              left == NumBlock - cnt
  <2>1. (input_chunk_cnt_ * num_output_chunk_ + output_chunk_cnt_)' = cnt + 1
    <3>1. \A a, b, k \in Int : b + 1 = k => (a + 1) * k + 0 = a * k + b + 1
      OBVIOUS
    <3>2. CASE last
      BY <1>2, <3>1, <3>2, RowTypes DEF FetchNextBlock
    <3>3. CASE ~last
      BY <1>2, <3>3, RowTypes DEF FetchNextBlock
    <3>. QED
      BY <3>2, <3>3
  <2>2. left \in Int /\ cnt \in Int
    BY RowTypes
  <2>3. RowsOfBatch = left * SizeOfBatch
    BY <1>4 DEF RowsOfBatch
  <2>4. RowsOfBatch' = (NumBlock - (cnt + 1)) * SizeOfBatch
    BY <1>2, <1>4, <1>5, <2>1 DEF RowsOfBatch, NumBlock
  <2>5. NumBlock - (cnt + 1) = left - 1
    BY <2>2, RowTypes
  <2>6. \A l, s \in Int : (l - 1) * s = l * s - s
    OBVIOUS
  <2>. QED
    BY <2>2, <2>3, <2>4, <2>5, <2>6, RowTypes
<1>10. RowsOfOthers' = RowsOfOthers
  BY <1>2 DEF RowsOfOthers, NumBlock
<1>11. LastBlock' /\ LastRows'
  <2>1. vertex_ptr' # end_vertex'
    BY <1>2, <1>4
  <2>2. input_chunk_cnt_ # num_input_chunk_
    BY <1>3 DEF IInv, BatchInv
  <2>3. BatchOver' => last /\ input_chunk_cnt_ + 1 = num_input_chunk_
    BY <1>2, <2>2 DEF BatchOver, FetchNextBlock
  <2>4. array'.input_chunk = input_chunk_cnt_ /\ array'.output_chunk = output_chunk_cnt_
    BY <1>2 DEF BlockConfig
  <2>5. LastBlock'
    BY <2>1, <2>3, <2>4, RowTypes DEF LastBlock
  <2>. QED
    BY <1>5, <1>8, <2>1, <2>5, RowTypes DEF LastRows
<1>. QED
  BY <1>2, <1>6, <1>7, <1>8, <1>9, <1>10, <1>11, RowTypes
  DEF RowInv, OutputAccounting, RowsUnwritten

\* The block that leaves the array is the one to be written.
LEMMA GetResultRows == ASSUME IInv, RowInv, GetResult PROVE RowInv'
<1>. DEFINE o == array.cur_outbuf
<1>. USE DEF bufVars, chunkVars, ptrVars, sliceVars, batchVars, memVars
<1>1. /\ array.state = "DONE" /\ writing_outbuf_ptr_ = None
      /\ array' = [array EXCEPT !.state = "IDLE"]
      /\ inbuf_' = SwitchState(inbuf_, array.cur_inbuf, UnlockedInput)
      /\ outbuf_' = SwitchState(outbuf_, o, "WRITING")
      /\ o_slice_cnt_' = 0 /\ writing_outbuf_ptr_' = filling_outbuf_ptr_
      /\ UNCHANGED <<chunkVars, inbuf_ptr_, batchVars, aggr_buf, memVars>>
  BY DEF GetResult
<1>2. o \in Bufs /\ o = filling_outbuf_ptr_ /\ array.cur_inbuf \in Bufs
  BY <1>1 DEF IInv, InArray
<1>3. SizeInv'
  <2>1. \A j \in Bufs : inbuf_'[j].matrix_h = inbuf_[j].matrix_h
    <3>1. inbuf_ \in [Bufs -> SPMBuf] /\ UnlockedInput \in SPMState
      BY DEF UnlockedInput, IInv, TypeOK, SPMState
    <3>2. PICK k \in Bufs : k = array.cur_inbuf
      BY <1>2
    <3>3. \A j \in Bufs : SwitchState(inbuf_, k, UnlockedInput)[j].matrix_h = inbuf_[j].matrix_h
      BY <3>1, SwitchStateLemma
    <3>. QED
      BY <1>1, <3>2, <3>3
  <2>. QED
    BY <1>1, <2>1 DEF RowInv, SizeInv, SizeOfBatch, IInv, TypeOK
<1>4. RowsToWrite = 0 /\ RowsInArray = outbuf_[o].matrix_h
  BY <1>1 DEF RowsToWrite, RowsInArray, Writing
<1>5. outbuf_'[o].matrix_h = outbuf_[o].matrix_h
  BY <1>1, <1>2, SwitchStateLemma DEF IInv, TypeOK, SPMState
<1>6. array'.state = "IDLE"
  BY <1>1 DEF IInv, TypeOK
<1>7. RowsToWrite' = outbuf_[o].matrix_h - 0 /\ RowsInArray' = 0
  <2>1. o # None
    BY <1>2 DEF Bufs, None
  <2>. QED
    BY <1>1, <1>2, <1>5, <1>6, <2>1 DEF RowsToWrite, RowsInArray, Writing
<1>8. RowsOfBatch' = RowsOfBatch /\ RowsOfOthers' = RowsOfOthers
  BY <1>1 DEF RowsOfBatch, RowsOfOthers, NumBlock, SizeOfBatch
<1>9. LastBlock' /\ LastRows'
  <2>1. SizeOfBatch' = SizeOfBatch /\ BatchOver' = BatchOver
    BY <1>1 DEF SizeOfBatch, BatchOver
  <2>2. RowsUnwritten' = RowsUnwritten
    BY <1>2, <1>4, <1>7, RowTypes DEF RowsUnwritten
  <2>3. BatchOver => 0 <= SizeOfBatch
    BY RowTypes DEF RowInv, LastRows
  <2>. QED
    BY <1>1, <1>6, <1>7, <2>1, <2>2, <2>3 DEF RowInv, LastBlock, LastRows
<1>. QED
  BY <1>1, <1>2, <1>3, <1>4, <1>7, <1>8, <1>9, RowTypes
  DEF RowInv, OutputAccounting, RowsUnwritten

\* The vertices of a new batch are no longer those to come, with all the blocks
\* that each of them has.
LEMMA BatchVertexRows == ASSUME IInv, RowInv, BatchVertex PROVE RowInv'
<1>. DEFINE n == NextBatchSize
<1>. USE DEF bufVars, chunkVars, ptrVars, sliceVars, batchVars, memVars
<1>1. /\ vertex_ptr = end_vertex
      /\ start_vertex' = aggr_buf.comb_ptr.first
      /\ end_vertex' = start_vertex' + n /\ vertex_ptr' = start_vertex'
      /\ aggr_buf' = StartComb(aggr_buf, n)
      /\ UNCHANGED <<bufVars, chunkVars, ptrVars, sliceVars, array, memVars>>
  BY DEF BatchVertex
<1>2. n \in Nat /\ n # 0
  BY CombAssumption DEF BatchVertex, NextBatchSize, GetReadyVertexNum, IInv, TypeOK,
                        AggrBufType, Ptr
<1>. HIDE DEF n
<1>3. /\ aggr_buf.comb_ptr.first \in Int
      /\ aggr_buf'.comb_ptr.first = aggr_buf.comb_ptr.first + n
  BY <1>1, RowTypes DEF StartComb, Advance, IInv, TypeOK, AggrBufType
<1>4. inbuf_ptr_ = None /\ input_chunk_cnt_ = 0 /\ output_chunk_cnt_ = 0
  BY <1>1 DEF IInv, BatchInv, InbufInv
<1>5. SizeInv'
  BY <1>1, <1>4 DEF SizeInv
<1>6. RowsToWrite' = RowsToWrite /\ RowsInArray' = RowsInArray
  BY <1>1 DEF RowsToWrite, RowsInArray, Writing
<1>7. RowsOfBatch = 0 /\ RowsOfBatch' = NumBlock * n
  <2>1. SizeOfBatch' = n /\ vertex_ptr' # end_vertex'
    BY <1>1, <1>2, <1>3 DEF SizeOfBatch
  <2>2. NumBlock' = NumBlock
    BY DEF NumBlock
  <2>3. (NumBlock - (input_chunk_cnt_ * num_output_chunk_ + output_chunk_cnt_))' = NumBlock
    BY <1>1, <1>4, <2>2, RowTypes
  <2>. QED
    BY <1>1, <2>1, <2>3 DEF RowsOfBatch
<1>8. RowsOfOthers' = RowsOfOthers - NumBlock * n
  <2>1. \A v, c, m, b \in Int : (v - (c + m)) * b = (v - c) * b - b * m
    OBVIOUS
  <2>2. NumBlock' = NumBlock
    BY DEF NumBlock
  <2>. QED
    BY <1>2, <1>3, <2>1, <2>2, RowTypes DEF RowsOfOthers
<1>9. NumBlock * n \in Int
  BY <1>2, RowTypes
<1>10. LastBlock' /\ LastRows'
  <2>1. vertex_ptr' # end_vertex'
    BY <1>1, <1>2, <1>3
  <2>2. ~BatchOver'
    BY <1>1, <1>4, CombAssumption DEF BatchOver
  <2>. QED
    BY <2>1, <2>2 DEF LastBlock, LastRows
<1>. QED
  BY <1>1, <1>5, <1>6, <1>7, <1>8, <1>9, <1>10, RowTypes
  DEF RowInv, OutputAccounting, RowsUnwritten

\* A buffer that is claimed for features is claimed for the whole batch.
LEMMA GetReadyForFetchRows == ASSUME IInv, RowInv, GetReadyForFetch PROVE RowInv'
<1>. DEFINE i == GetTargetBuf(inbuf_, "IDLE")
            first == output_chunk_cnt_ = 0
<1>. USE DEF bufVars, chunkVars, ptrVars, sliceVars, batchVars, memVars
<1>1. /\ inbuf_ptr_' = IF first THEN i ELSE inbuf_ptr_
      /\ inbuf_' = IF first
                     THEN [inbuf_ EXCEPT ![i] =
                             [state |-> "FILLING", event_cnt |-> SizeOfBatch,
                              matrix_h |-> SizeOfBatch]]
                     ELSE inbuf_
      /\ UNCHANGED <<outbuf_, chunkVars, writing_outbuf_ptr_, o_slice_cnt_, batchVars,
                     array, aggr_buf, memVars>>
      /\ first => i # None
  BY DEF GetReadyForFetch
<1>2. first => i \in Bufs
  BY <1>1, GetTargetBufLemma
<1>. HIDE DEF i
<1>3. SizeInv'
  BY <1>1, <1>2 DEF RowInv, SizeInv, SizeOfBatch, IInv, TypeOK
<1>4. /\ RowsToWrite' = RowsToWrite /\ RowsInArray' = RowsInArray
      /\ RowsOfBatch' = RowsOfBatch /\ RowsOfOthers' = RowsOfOthers
  BY <1>1 DEF RowsToWrite, RowsInArray, RowsOfBatch, RowsOfOthers, Writing, NumBlock,
              SizeOfBatch
<1>5. LastBlock' /\ LastRows'
  BY <1>1, <1>4 DEF RowInv, LastBlock, LastRows, RowsUnwritten, BatchOver, SizeOfBatch
<1>. QED
  BY <1>1, <1>3, <1>4, <1>5 DEF RowInv, OutputAccounting, RowsUnwritten

\* A row that is issued is one less to write.
LEMMA WriteRowRows == ASSUME IInv, RowInv, WriteRow PROVE RowInv'
<1>. DEFINE o == writing_outbuf_ptr_
            n == IF o_slice_cnt_ < outbuf_[o].matrix_h THEN 1 ELSE 0
<1>. USE DEF bufVars, chunkVars, ptrVars, sliceVars, batchVars, memVars
<1>1. /\ output_cnt' = output_cnt + n /\ o_slice_cnt_' = o_slice_cnt_ + n /\ Writing
      /\ UNCHANGED <<bufVars, chunkVars, ptrVars, batchVars, array, aggr_buf>>
  BY DEF WriteRow, WriteFeatures
<1>2. /\ n \in Int /\ o_slice_cnt_ \in Int /\ o \in Bufs
  BY <1>1 DEF IInv, TypeOK, Writing
<1>3. RowsToWrite' = RowsToWrite - n
  <2>1. RowsToWrite = outbuf_[o].matrix_h - o_slice_cnt_
    BY <1>1 DEF RowsToWrite
  <2>2. RowsToWrite' = outbuf_[o].matrix_h - (o_slice_cnt_ + n)
    BY <1>1 DEF RowsToWrite, Writing
  <2>. HIDE DEF n
  <2>. QED
    BY <1>2, <2>1, <2>2, RowTypes
<1>4. /\ RowsInArray' = RowsInArray /\ RowsOfBatch' = RowsOfBatch
      /\ RowsOfOthers' = RowsOfOthers /\ SizeInv'
  BY <1>1 DEF RowsInArray, RowsOfBatch, RowsOfOthers, NumBlock, SizeOfBatch, RowInv, SizeInv
<1>5. n >= 0
  OBVIOUS
<1>6. LastBlock'
  BY <1>1 DEF RowInv, LastBlock, BatchOver
<1>. HIDE DEF n
<1>7. LastRows'
  <2>1. SizeOfBatch' = SizeOfBatch /\ BatchOver' = BatchOver
    BY <1>1 DEF SizeOfBatch, BatchOver
  <2>2. RowsUnwritten' <= RowsUnwritten
    BY <1>2, <1>3, <1>4, <1>5, RowTypes DEF RowsUnwritten
  <2>3. RowsUnwritten \in Int /\ RowsUnwritten' \in Int
    BY <1>2, <1>3, <1>4, RowTypes DEF RowsUnwritten
  <2>. QED
    BY <1>1, <1>4, <2>1, <2>2, <2>3, RowTypes DEF RowInv, LastRows
<1>. QED
  BY <1>1, <1>2, <1>3, <1>4, <1>6, <1>7, RowTypes
  DEF RowInv, OutputAccounting, RowsUnwritten

\* When a write ends all its rows have been issued; when the batch ends with it
\* no block of the batch is left.
LEMMA WriteDoneRows == ASSUME IInv, RowInv, WriteDone PROVE RowInv'
<1>. DEFINE o == writing_outbuf_ptr_
<1>. USE DEF bufVars, chunkVars, ptrVars, sliceVars, batchVars, memVars
<1>1. o \in Bufs /\ outbuf_[o].state = "WRITING" /\ outbuf_[o].event_cnt = 0
  BY DEF WriteDone, Writing, EventDone, OutbufInv, IInv, TypeOK
<1>2. o_slice_cnt_ = outbuf_[o].matrix_h /\ o_slice_cnt_ \in Nat
  <2>1. /\ pending["OUTPUT_FEATURE"] \in Nat /\ o_slice_cnt_ \in Nat
        /\ outbuf_[o].matrix_h \in Nat
    BY <1>1 DEF IInv, TypeOK, SPMBuf, DataType
  <2>2. /\ 0 = pending["OUTPUT_FEATURE"] + (outbuf_[o].matrix_h - o_slice_cnt_)
        /\ o_slice_cnt_ <= outbuf_[o].matrix_h
    BY <1>1 DEF IInv, EventInv
  <2>3. \A p, h, k \in Nat : 0 = p + (h - k) /\ k <= h => p = 0 /\ k = h
    OBVIOUS
  <2>. QED
    BY <2>1, <2>2, <2>3
<1>3. /\ output_cnt' = output_cnt + 0
      /\ outbuf_' = SwitchState(outbuf_, o, "IDLE") /\ writing_outbuf_ptr_' = None
      /\ UNCHANGED <<inbuf_, inbuf_ptr_, start_vertex, end_vertex, array>>
  BY <1>2 DEF WriteDone, WriteFeatures
<1>4. RowsToWrite = 0 /\ RowsToWrite' = 0
  BY <1>2, <1>3 DEF RowsToWrite, Writing
<1>5. RowsInArray' = RowsInArray
  <2>1. \A j \in Bufs : outbuf_'[j].matrix_h = outbuf_[j].matrix_h
    <3>1. outbuf_ \in [Bufs -> SPMBuf] /\ "IDLE" \in SPMState
      BY DEF IInv, TypeOK, SPMState
    <3>2. PICK k \in Bufs : k = o
      BY <1>1
    <3>3. \A j \in Bufs : SwitchState(outbuf_, k, "IDLE")[j].matrix_h = outbuf_[j].matrix_h
      BY <3>1, SwitchStateLemma
    <3>. QED
      BY <1>3, <3>2, <3>3
  <2>. QED
    BY <1>3, <2>1 DEF RowsInArray, IInv, InArray
<1>6. SizeInv'
  BY <1>3 DEF RowInv, SizeInv, SizeOfBatch
<1>7. aggr_buf'.comb_ptr = aggr_buf.comb_ptr
  BY DEF WriteDone, NextBatch, ConfirmComb, IInv, TypeOK, AggrBufType
<1>8. RowsOfOthers' = RowsOfOthers
  BY <1>7 DEF RowsOfOthers, NumBlock
<1>9. RowsOfBatch' = RowsOfBatch
  <2>1. CASE ~BatchOver
    BY <1>3, <2>1 DEF WriteDone, RowsOfBatch, NumBlock, SizeOfBatch
  <2>2. CASE BatchOver
    <3>1. input_chunk_cnt_ = num_input_chunk_ /\ output_chunk_cnt_ = 0
      BY <2>2 DEF BatchOver, IInv, BatchInv, InbufInv
    <3>2. NumBlock - (input_chunk_cnt_ * num_output_chunk_ + output_chunk_cnt_) = 0
      BY <3>1, RowTypes DEF NumBlock
    <3>3. RowsOfBatch = 0
      BY <3>2, RowTypes DEF RowsOfBatch
    <3>4. RowsOfBatch' = 0
      BY <1>3, <2>2 DEF WriteDone, NextBatch, RowsOfBatch
    <3>. QED
      BY <3>3, <3>4
  <2>. QED
    BY <2>1, <2>2
<1>10. LastBlock' /\ LastRows'
  <2>0. SizeOfBatch' = SizeOfBatch /\ RowsUnwritten' = RowsUnwritten
    BY <1>3, <1>4, <1>5 DEF SizeOfBatch, RowsUnwritten
  <2>1. CASE ~BatchOver
    <3>1. BatchOver' = BatchOver /\ vertex_ptr' = vertex_ptr
      BY <2>1 DEF WriteDone, BatchOver
    <3>. QED
      BY <1>3, <1>5, <2>0, <3>1 DEF RowInv, LastBlock, LastRows
  <2>2. CASE BatchOver
    <3>1. ~BatchOver'
      BY <2>2, CombAssumption DEF WriteDone, NextBatch, BatchOver
    <3>2. LastBlock'
      BY <1>3, <2>2, <3>1 DEF RowInv, LastBlock
    <3>3. RowsUnwritten' <= SizeOfBatch
      BY <1>4, <1>5, <2>2, RowTypes DEF RowInv, LastRows, RowsUnwritten
    <3>. QED
      BY <2>0, <3>1, <3>2, <3>3 DEF LastRows
  <2>. QED
    BY <2>1, <2>2
<1>. QED
  BY <1>3, <1>4, <1>5, <1>6, <1>8, <1>9, <1>10, RowTypes
  DEF RowInv, OutputAccounting, RowsUnwritten

\* The rows are counted right from the start, and by every step.
LEMMA InitRows == Init => RowInv
<1>. SUFFICES ASSUME Init PROVE RowInv
  OBVIOUS
<1>1. SizeInv
  BY DEF Init, SizeInv
<1>2. RowsToWrite = 0 /\ RowsInArray = 0 /\ RowsOfBatch = 0
  BY DEF Init, RowsToWrite, RowsInArray, RowsOfBatch, Writing
<1>3. RowsOfOthers = NumVertex * NumBlock
  BY CombAssumption DEF Init, InitBuf, InitPtr, RowsOfOthers
<1>4. NumVertex * NumBlock \in Int
  BY CombAssumption DEF NumBlock
<1>5. output_cnt = 0
  BY DEF Init
<1>6. LastBlock /\ LastRows
  BY <1>2 DEF Init, LastBlock, LastRows, RowsUnwritten, SizeOfBatch
<1>. QED
  BY <1>1, <1>2, <1>3, <1>4, <1>5, <1>6 DEF RowInv, OutputAccounting, RowsUnwritten

\* The rows stay accounted for in every step.
LEMMA NextRows == IInv /\ RowInv /\ [Next]_vars => RowInv'
BY QuietSteps, StartComputeRows, GetResultRows, BatchVertexRows, GetReadyForFetchRows,
   WriteRowRows, WriteDoneRows DEF Next, ClockTick

\* Every row of the result is issued once or still to come (comb.cpp:231-268),
\* for every size of the layer, of the batches and of the blocks, although the
\* end of a batch is read off counters that have moved on (comb.cpp:167).
THEOREM NoRowLost == SafeSpec => []OutputAccounting
<1>1. RowInv => OutputAccounting
  BY DEF RowInv
<1>. QED
  BY <1>1, InitRows, NextRows, Invariance, PTL DEF SafeSpec

\* What the end leaves unwritten (comb.cpp:167): the rows that have gone to the
\* array and have not been issued, and they are at most those of the last block
\* of the last batch.
LEMMA DoneRows ==
  ASSUME IInv, RowInv, is_done
  PROVE  /\ output_cnt + RowsUnwritten = NumVertex * NumBlock
         /\ RowsUnwritten <= SizeOfBatch
         /\ array.state # "IDLE" =>
              /\ array.input_chunk = num_input_chunk_ - 1
              /\ array.output_chunk = num_output_chunk_ - 1
<1>1. vertex_ptr = end_vertex /\ end_vertex = NumVertex
  BY DEF IInv, HaltInv
<1>2. aggr_buf.comb_ptr.first = NumVertex
  BY <1>1 DEF IInv, BatchInv
<1>3. RowsOfBatch = 0 /\ RowsOfOthers = 0
  BY <1>1, <1>2, RowTypes DEF RowsOfBatch, RowsOfOthers
<1>4. output_cnt + RowsUnwritten = NumVertex * NumBlock
  BY <1>3, RowTypes DEF RowInv, OutputAccounting, RowsUnwritten
<1>. QED
  BY <1>1, <1>4 DEF RowInv, LastBlock, LastRows
=============================================================================
