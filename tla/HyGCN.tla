-------------------------------- MODULE HyGCN --------------------------------
(***************************************************************************)
(* The accelerator (hygcn.cpp, hygcn.h): both engines on one aggregation   *)
(* buffer, in the order of HyGCN::ClockTick.                               *)
(*                                                                         *)
(*   HandleReturnEvent -> Aggr::ClockTick -> Comb::ClockTick               *)
(*                                                                         *)
(* No engine is an environment here: what Aggr assumes of the combination  *)
(* engine and Comb of the aggregation engine is what the other one does.   *)
(* Memory is the one MemoryContract allows: it answers the events of both  *)
(* engines in any number and order.  The main loop                         *)
(* (hygcn_test/test.cpp) ticks until IsDone.                               *)
(***************************************************************************)
EXTENDS Integers

CONSTANTS
  cap_edram, sz_aggr_vector,
  num_edge_chunk, start_vertex_of_echunk, end_vertex_of_echunk, EdgeParts,
  num_simd, num_feature_chunk, sz_slice,
  num_input_chunk_, num_output_chunk_, sz_max_batch, num_slice

VARIABLES
  aggr_buf,                     \* shared by the engines
  \* the aggregation engine's
  aggr_pc, core, simds, ebuf, inbuf, edge_chunk_cnt, event_out, event_in,
  aggr_done, aggr_pending,
  \* the combination engine's
  comb_pc, inbuf_, wbuf_, outbuf_, input_chunk_cnt_, output_chunk_cnt_,
  i_slice_cnt_, w_slice_cnt_, o_slice_cnt_, inbuf_ptr_, wbuf_ptr_,
  filling_outbuf_ptr_, writing_outbuf_ptr_, enable_fetch_,
  start_vertex, end_vertex, vertex_ptr, comb_done, array, comb_pending,
  output_cnt

A == INSTANCE Aggr WITH
  pc <- aggr_pc, is_done <- aggr_done, pending <- aggr_pending

NumVertex == A!NumVertex

C == INSTANCE Comb WITH
  pc <- comb_pc, is_done <- comb_done, pending <- comb_pending

\* Of the parameters no more is assumed than each engine does.
ASSUME HyGCNAssumption ==
  A!AggrBufAssumption /\ A!AggrAssumption /\ C!CombAssumption

aggrVars == <<core, simds, ebuf, inbuf, edge_chunk_cnt, event_out, event_in,
              aggr_done, aggr_pending>>
combVars == <<inbuf_, wbuf_, outbuf_, input_chunk_cnt_, output_chunk_cnt_,
              i_slice_cnt_, w_slice_cnt_, o_slice_cnt_, inbuf_ptr_, wbuf_ptr_,
              filling_outbuf_ptr_, writing_outbuf_ptr_, enable_fetch_,
              start_vertex, end_vertex, vertex_ptr, comb_done, array,
              comb_pending, output_cnt>>
vars == <<aggr_buf, aggr_pc, aggrVars, comb_pc, combVars>>

Init == A!Init /\ C!Init

IsDone == aggr_done /\ comb_done

\* The start of a tick: the main loop has not ended.
AtStart == aggr_pc = "return" /\ comb_pc = "return"

-----------------------------------------------------------------------------
(* HandleReturnEvent: each event goes to the engine its type names.        *)

AggrReturn ==
  /\ AtStart /\ ~IsDone
  /\ A!Return
  /\ UNCHANGED <<comb_pc, combVars>>

CombReturn ==
  /\ AtStart /\ ~IsDone
  /\ C!Return
  /\ UNCHANGED <<aggr_pc, aggrVars>>

(* aggr->ClockTick, and after it comb->ClockTick.                          *)

AggrTick ==
  /\ comb_pc = "return" /\ aggr_pc # "comb"
  /\ AtStart => ~IsDone
  /\ A!ClockTick
  /\ UNCHANGED <<comb_pc, combVars>>

CombTick ==
  /\ aggr_pc = "comb"
  /\ C!ClockTick
  /\ aggr_pc' = IF comb_pc' = "return" THEN "return" ELSE "comb"
  /\ UNCHANGED aggrVars

Next == AggrReturn \/ CombReturn \/ AggrTick \/ CombTick

\* The main loop ticks until the layer is done; memory answers every event,
\* and the array's countdown ends.
Fairness ==
  /\ WF_vars(AggrTick \/ CombTick)
  /\ SF_vars(AggrReturn /\ A!ReturnEdge) /\ SF_vars(AggrReturn /\ A!ReturnInput)
  /\ SF_vars(AggrReturn /\ A!ReturnAggr)
  /\ SF_vars(CombReturn /\ C!ReturnFeature)
  /\ SF_vars(CombReturn /\ C!ReturnWeight)
  /\ SF_vars(CombReturn /\ C!ReturnOutput)
  /\ SF_vars(CombTick /\ C!ArrayFinishes)

SafeSpec == Init /\ [][Next]_vars
Spec == SafeSpec /\ Fairness

-----------------------------------------------------------------------------
(* Properties.                                                             *)

\* The two engines together implement VertexPipeline, with nothing left to
\* an environment: the steps that Aggr and Comb each allow the other are the
\* steps the other takes.
Pipeline == INSTANCE VertexPipeline WITH
  aggr <- aggr_buf.aggr_ptr.first, ready <- aggr_buf.ready_ptr.first,
  comb <- aggr_buf.comb_ptr.first, done <- aggr_buf.done_ptr.first

PipelineSpec == Pipeline!Spec

\* How far the layer has come when the main loop ends (test.cpp:49) and HyGCN,
\* which is built anew for the next layer, is dropped.  Both engines have
\* released every vertex and every read has been answered; of the result not
\* all has been written (AllOutputsWritten), but what is missing is at most one
\* block, the last of the last batch: every other block has been issued in full.
DoneTogether ==
  IsDone =>
    /\ aggr_buf.done_ptr.first = NumVertex
    /\ aggr_buf.aggr_ptr.first = NumVertex
    /\ \A t \in DOMAIN aggr_pending : aggr_pending[t] = 0
    /\ comb_pending["AGGR_FEATURE"] = 0 /\ comb_pending["WEIGHT"] = 0
    /\ output_cnt + C!RowsUnwritten = NumVertex * C!NumBlock
    /\ C!RowsUnwritten <= C!SizeOfBatch
    /\ array.state # "IDLE" =>
         /\ array.input_chunk = num_input_chunk_ - 1
         /\ array.output_chunk = num_output_chunk_ - 1

\* The results of aggregated vertices are kept in the ring until they have
\* been combined (ResearchReport.pdf, 4.3 (2)): the ring never holds more than
\* its bytes.  WillAllocate (aggr_buf.h:29) does not see to it.
Retained == A!Retained

\* When the main loop ends the whole result has been written: test.cpp:49-53
\* takes IsDone to mean it when it records the layer.  With more than one
\* block to a batch the code does not keep it (comb.cpp:167).
AllOutputsWritten ==
  IsDone => output_cnt = NumVertex * num_input_chunk_ * num_output_chunk_

\* The main loop ends.
Termination == <>IsDone
=============================================================================
