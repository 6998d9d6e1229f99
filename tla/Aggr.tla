-------------------------------- MODULE Aggr --------------------------------
(***************************************************************************)
(* The aggregation engine (dataflow/aggr.cpp).  The layer's vertices come  *)
(* in chunks.  The edges of a chunk are read into an edge buffer and are   *)
(* cut into parts (Partition).  For every part the engine reads the        *)
(* features of the part's neighbours into an input buffer and hands out    *)
(* tasks to SIMD cores: a task accumulates one feature slice of one vertex *)
(* over the part's edges and writes it to the aggregation buffer.  When    *)
(* all parts of a chunk are through, the chunk is published.  Edge and     *)
(* input buffers are double, so that fetching overlaps computing.          *)
(*                                                                         *)
(* One clock tick is a chain of steps, in the code's order, that pc walks  *)
(* through:                                                                *)
(*                                                                         *)
(*   return -> simd (core by core) -> edge -> input -> drain               *)
(*          -> dispatch (task by task) -> finish -> comb                   *)
(*                                                                         *)
(* "return" is memory handing back events it has served, in any number and *)
(* order.  "comb" is the combination engine's tick, here an environment    *)
(* that takes published vertices and releases them.                        *)
(***************************************************************************)
EXTENDS AggrBuf, Sequences, FiniteSets

CONSTANTS
  num_edge_chunk,             \* the chunks AddrMapper cut the vertices into,
  start_vertex_of_echunk,     \* and their bounds, functions on the chunks
  end_vertex_of_echunk,
  EdgeParts,           \* EdgeParts[c][p][r]: the neighbours of the r-th vertex of
                       \* chunk c in its part p, a sequence (Partition)
  num_simd,            \* SIMD cores
  num_feature_chunk,   \* tasks of one vertex, ceil(weight_h / num_core_per_simd)
  sz_slice             \* bytes of one feature slice, one block

Chunks == 0..(num_edge_chunk - 1)
Simds == 0..(num_simd - 1)

\* The parts of chunk c, counted from 0, and the rows of one.
NumPart(c) == Len(EdgeParts[c])
Rows(c, p) == EdgeParts[c][p + 1]
ChunkSize(c) == end_vertex_of_echunk[c] - start_vertex_of_echunk[c]

\* The layer's vertices: the chunks cover them.
NumVertex == end_vertex_of_echunk[num_edge_chunk - 1]

\* The rows with an edge, and what the edges lead to (SparsityElimination).
NonEmpty(rows) == {r \in 1..Len(rows) : rows[r] # <<>>}
Neighbors(rows) ==
  UNION {{rows[r][j] : j \in 1..Len(rows[r])} : r \in NonEmpty(rows)}

\* The chunks follow one another, each has vertices, no more than the ring
\* holds, and its parts cover them (AddrMapper, Partition).  Every part has
\* an edge: true of the gcn and gin models, whose graphs have self-loops.
\* Without one the engine would wait for the features of no neighbour for ever.
ASSUME AggrAssumption ==
  /\ num_simd \in Nat \ {0}
  /\ num_feature_chunk \in Nat \ {0}
  /\ sz_slice \in Nat \ {0}
  /\ num_feature_chunk * sz_slice <= sz_aggr_vector
  /\ num_edge_chunk \in Nat \ {0}
  /\ start_vertex_of_echunk \in [Chunks -> Nat]
  /\ end_vertex_of_echunk \in [Chunks -> Nat]
  /\ start_vertex_of_echunk[0] = 0
  /\ \A c \in Chunks \ {0} :
       start_vertex_of_echunk[c] = end_vertex_of_echunk[c - 1]
  /\ \A c \in Chunks :
       /\ ChunkSize(c) > 0
       /\ ChunkSize(c) * sz_aggr_vector <= cap_edram
  /\ EdgeParts \in [Chunks -> Seq(Seq(Seq(Nat)))]
  /\ \A c \in Chunks :
       /\ NumPart(c) > 0
       /\ \A p \in 0..(NumPart(c) - 1) :
            Len(Rows(c, p)) = ChunkSize(c) /\ NonEmpty(Rows(c, p)) # {}

None == -1
Bufs == 0..1

PC == {"return", "simd", "edge", "input", "drain", "dispatch", "finish", "comb"}
DataType == {"EDGE", "INPUT_FEATURE", "AGGR_FEATURE"}

VARIABLES
  pc,
  core,              \* the SIMD core whose turn it is in this tick
  simds,
  ebuf, inbuf,       \* the edge and the input buffers
  edge_chunk_cnt,    \* chunks whose edges have been asked for
  event_out, event_in,
  is_done,
  aggr_buf,
  pending            \* events of each type that memory still owes

vars == <<pc, core, simds, ebuf, inbuf, edge_chunk_cnt, event_out, event_in,
          is_done, aggr_buf, pending>>

\* The fields of SPMA as SwitchState(IDLE) leaves them, the edge buffer's and
\* the input buffer's.  event_cnt_ is not touched by a switch of state.
IdleEbuf(cnt) ==
  [state |-> "IDLE", event_cnt |-> cnt, start_vertex |-> None,
   end_vertex |-> None, edge_chunk_id |-> 1, edge_part_cnt |-> 0]

IdleInbuf(cnt) ==
  [state |-> "IDLE", event_cnt |-> cnt, start_vertex |-> None,
   end_vertex |-> None, ebuf_ptr |-> None, input_edge |-> <<>>,
   vertex_ptr |-> None, feature_chunk_cnt |-> 0, non_empty_vertex |-> 0]

IdleSimd ==
  [state |-> "IDLE", vertex_id |-> None, feature_chunk_id |-> None,
   inbuf_ptr |-> None, depth |-> 0]

Init ==
  /\ pc = "return" /\ core = 0
  /\ simds = [i \in Simds |-> IdleSimd]
  /\ ebuf = [i \in Bufs |-> IdleEbuf(0)]
  /\ inbuf = [i \in Bufs |-> IdleInbuf(0)]
  /\ edge_chunk_cnt = 0
  /\ event_out = 0 /\ event_in = 0
  /\ is_done = FALSE
  /\ aggr_buf = InitBuf
  /\ pending = [t \in DataType |-> 0]

-----------------------------------------------------------------------------
\* The first buffer of a pair in the given state, None when there is none.
GetTargetBuf(bufs, state) ==
  IF bufs[0].state = state THEN 0
  ELSE IF bufs[1].state = state THEN 1 ELSE None

AllBufIdle(bufs) == \A i \in Bufs : bufs[i].state = "IDLE"

AddEvents(type, n) == pending' = [pending EXCEPT ![type] = @ + n]

-----------------------------------------------------------------------------
(* HandleReturnEvent, one action for each type of event.                   *)

ReturnEdge ==
  LET i == GetTargetBuf(ebuf, "FILLING")
      cnt == ebuf[i].event_cnt - 1
  IN  /\ pc = "return" /\ pending["EDGE"] > 0
      /\ AddEvents("EDGE", -1)
      /\ ebuf' = [ebuf EXCEPT ![i].event_cnt = cnt,
                              ![i].state = IF cnt = 0 THEN "READY" ELSE @]
      /\ UNCHANGED <<pc, core, simds, inbuf, edge_chunk_cnt, event_out,
                     event_in, is_done, aggr_buf>>

\* SwitchState(READY) points the buffer at its first vertex.
ReturnInput ==
  LET i == GetTargetBuf(inbuf, "FILLING")
      cnt == inbuf[i].event_cnt - 1
  IN  /\ pc = "return" /\ pending["INPUT_FEATURE"] > 0
      /\ AddEvents("INPUT_FEATURE", -1)
      /\ inbuf' = [inbuf EXCEPT
           ![i].event_cnt = cnt,
           ![i].state = IF cnt = 0 THEN "READY" ELSE @,
           ![i].vertex_ptr = IF cnt = 0 THEN inbuf[i].start_vertex ELSE @]
      /\ UNCHANGED <<pc, core, simds, ebuf, edge_chunk_cnt, event_out, event_in,
                     is_done, aggr_buf>>

ReturnAggr ==
  /\ pc = "return" /\ pending["AGGR_FEATURE"] > 0
  /\ AddEvents("AGGR_FEATURE", -1)
  /\ event_in' = event_in + 1
  /\ UNCHANGED <<pc, core, simds, ebuf, inbuf, edge_chunk_cnt, event_out,
                 is_done, aggr_buf>>

Tick ==
  /\ pc = "return"
  /\ pc' = "simd" /\ core' = 0
  /\ UNCHANGED <<simds, ebuf, inbuf, edge_chunk_cnt, event_out, event_in,
                 is_done, aggr_buf, pending>>

-----------------------------------------------------------------------------
(* ClockTick, the loop over the cores.                                     *)

NextCore ==
  /\ core' = (core + 1) % num_simd
  /\ pc' = IF core + 1 = num_simd THEN "edge" ELSE "simd"

\* The task of this core ends in this tick: its depth runs out.
TaskEnds == simds[core].state = "COMPUTING" /\ simds[core].depth - 1 <= 0

SimdComputes ==
  /\ pc = "simd" /\ ~TaskEnds
  /\ simds' = IF simds[core].state = "COMPUTING"
                THEN [simds EXCEPT ![core].depth = @ - 1]
                ELSE simds
  /\ NextCore
  /\ UNCHANGED <<ebuf, inbuf, edge_chunk_cnt, event_out, event_in, is_done,
                 aggr_buf, pending>>

\* The edge buffer after one more of its parts is through, and the ring: with
\* the last part the chunk is published and the buffer given back.
ConfirmPart(e) ==
  LET cnt == ebuf[e].event_cnt - 1
  IN  /\ ebuf' = [ebuf EXCEPT ![e] =
                    IF cnt = 0 THEN IdleEbuf(0) ELSE [@ EXCEPT !.event_cnt = cnt]]
      /\ aggr_buf' = IF cnt = 0
                       THEN ConfirmAggr(aggr_buf,
                              ebuf[e].end_vertex - ebuf[e].start_vertex)
                       ELSE aggr_buf

\* The core writes its slice back; with the last task of its part the input
\* buffer is given back.
SimdWritesBack ==
  LET i == simds[core].inbuf_ptr
      cnt == inbuf[i].event_cnt - 1
  IN  /\ pc = "simd" /\ TaskEnds
      /\ AddEvents("AGGR_FEATURE", 1)
      /\ event_out' = event_out + 1
      /\ inbuf' = [inbuf EXCEPT ![i] =
                     IF cnt = 0 THEN IdleInbuf(0) ELSE [@ EXCEPT !.event_cnt = cnt]]
      /\ IF cnt = 0 THEN ConfirmPart(inbuf[i].ebuf_ptr)
                    ELSE UNCHANGED <<ebuf, aggr_buf>>
      /\ simds' = [simds EXCEPT ![core] = IdleSimd]
      /\ NextCore
      /\ UNCHANGED <<edge_chunk_cnt, event_in, is_done>>

-----------------------------------------------------------------------------
(* GenDataFlow.                                                            *)

\* Ask for the edges of the next chunk.
CanFetchEdges ==
  /\ edge_chunk_cnt # num_edge_chunk
  /\ GetTargetBuf(ebuf, "IDLE") # None
  /\ GetTargetBuf(ebuf, "FILLING") = None

FetchEdges ==
  /\ pc = "edge" /\ ~is_done /\ CanFetchEdges
  /\ ebuf' = [ebuf EXCEPT ![GetTargetBuf(ebuf, "IDLE")] =
       [@ EXCEPT !.state = "FILLING", !.event_cnt = 1,
                 !.edge_chunk_id = edge_chunk_cnt,
                 !.start_vertex = start_vertex_of_echunk[edge_chunk_cnt],
                 !.end_vertex = end_vertex_of_echunk[edge_chunk_cnt]]]
  /\ AddEvents("EDGE", 1)
  /\ edge_chunk_cnt' = edge_chunk_cnt + 1
  /\ pc' = "input"
  /\ UNCHANGED <<core, simds, inbuf, event_out, event_in, is_done, aggr_buf>>

SkipEdges ==
  /\ pc = "edge" /\ ~is_done /\ ~CanFetchEdges
  /\ pc' = "input"
  /\ UNCHANGED <<core, simds, ebuf, inbuf, edge_chunk_cnt, event_out, event_in,
                 is_done, aggr_buf, pending>>

\* GenDataFlow returns at once when the engine is done.
Halted ==
  /\ pc = "edge" /\ is_done
  /\ pc' = "finish"
  /\ UNCHANGED <<core, simds, ebuf, inbuf, edge_chunk_cnt, event_out, event_in,
                 is_done, aggr_buf, pending>>

\* An input buffer is free to be filled.
InbufFree ==
  GetTargetBuf(inbuf, "IDLE") # None /\ GetTargetBuf(inbuf, "FILLING") = None

\* The input buffer being bound to part p of edge buffer e: it covers the
\* chunk's vertices up to the last one that has an edge in this part.
BoundInbuf(buf, e, p) ==
  LET rows == Rows(ebuf[e].edge_chunk_id, p)
      last == CHOOSE r \in NonEmpty(rows) : \A q \in NonEmpty(rows) : q <= r
  IN  [buf EXCEPT
        !.state = "FILLING",
        !.start_vertex = ebuf[e].start_vertex,
        !.end_vertex = ebuf[e].start_vertex + last,
        !.input_edge = rows,
        !.non_empty_vertex = @ + Cardinality(NonEmpty(rows)),
        !.ebuf_ptr = e,
        !.event_cnt = Cardinality(Neighbors(rows))]

\* One read for every neighbour of the part (SparsityElimination).
FillInbuf(e) ==
  LET i == GetTargetBuf(inbuf, "IDLE")
      filled == BoundInbuf(inbuf[i], e, ebuf[e].edge_part_cnt)
  IN  /\ inbuf' = [inbuf EXCEPT ![i] = filled]
      /\ AddEvents("INPUT_FEATURE", filled.event_cnt)

\* The chunk being aggregated has a part left.
FetchPart ==
  LET e == GetTargetBuf(ebuf, "DRAINING")
  IN  /\ pc = "input" /\ InbufFree /\ e # None
      /\ ebuf[e].edge_part_cnt < NumPart(ebuf[e].edge_chunk_id)
      /\ FillInbuf(e)
      /\ ebuf' = [ebuf EXCEPT ![e].edge_part_cnt = @ + 1]
      /\ pc' = "drain"
      /\ UNCHANGED <<core, simds, edge_chunk_cnt, event_out, event_in, is_done,
                     aggr_buf>>

\* No chunk is being aggregated: the ready one with the least start vertex,
\* if the ring has room for it.
ReadyEbufs == {i \in Bufs : ebuf[i].state = "READY"}

\* Mutant: the first ready buffer, as GetTargetBuf finds it.
NextEbuf_First == GetTargetBuf(ebuf, "READY")

NextEbuf ==
  CHOOSE i \in ReadyEbufs :
    \A j \in ReadyEbufs : ebuf[i].start_vertex <= ebuf[j].start_vertex

\* The vertices of the chunk in edge buffer e.
NumVertexOf(e) == ebuf[e].end_vertex - ebuf[e].start_vertex

CanStartChunk ==
  /\ GetTargetBuf(ebuf, "DRAINING") = None
  /\ ReadyEbufs # {}
  /\ WillAllocate(aggr_buf, NumVertexOf(NextEbuf))

StartChunk ==
  LET e == NextEbuf
  IN  /\ pc = "input" /\ InbufFree /\ CanStartChunk
      /\ FillInbuf(e)
      /\ ebuf' = [ebuf EXCEPT ![e].state = "DRAINING",
                              ![e].event_cnt = NumPart(ebuf[e].edge_chunk_id),
                              ![e].edge_part_cnt = @ + 1]
      /\ aggr_buf' = StartAggr(aggr_buf, NumVertexOf(e))
      /\ pc' = "drain"
      /\ UNCHANGED <<core, simds, edge_chunk_cnt, event_out, event_in, is_done>>

SkipInput ==
  LET e == GetTargetBuf(ebuf, "DRAINING")
  IN  /\ pc = "input"
      /\ \/ ~InbufFree
         \/ e # None /\ ebuf[e].edge_part_cnt >= NumPart(ebuf[e].edge_chunk_id)
         \/ e = None /\ ~CanStartChunk
      /\ pc' = "drain"
      /\ UNCHANGED <<core, simds, ebuf, inbuf, edge_chunk_cnt, event_out,
                     event_in, is_done, aggr_buf, pending>>

\* Mutants: a task for every row, with or without edges; one task for every
\* vertex, whatever the number of its slices.
Tasks_AllRows(buf) == Len(buf.input_edge) * num_feature_chunk
Tasks_OneSlice(buf) == buf.non_empty_vertex

\* The input buffer the cores work on: the one they are draining, else a
\* ready one, which from now on waits for all the tasks of its part.
Tasks(buf) == buf.non_empty_vertex * num_feature_chunk

StartDraining ==
  LET i == GetTargetBuf(inbuf, "READY")
  IN  /\ pc = "drain" /\ GetTargetBuf(inbuf, "DRAINING") = None /\ i # None
      /\ inbuf' = [inbuf EXCEPT ![i].event_cnt = Tasks(inbuf[i]),
                                ![i].state = "DRAINING"]
      /\ pc' = "dispatch"
      /\ UNCHANGED <<core, simds, ebuf, edge_chunk_cnt, event_out, event_in,
                     is_done, aggr_buf, pending>>

KeepDraining ==
  /\ pc = "drain"
  /\ \/ GetTargetBuf(inbuf, "DRAINING") # None
     \/ GetTargetBuf(inbuf, "READY") = None
  /\ pc' = "dispatch"
  /\ UNCHANGED <<core, simds, ebuf, inbuf, edge_chunk_cnt, event_out, event_in,
                 is_done, aggr_buf, pending>>

-----------------------------------------------------------------------------
(* The dispatch loop: tasks for idle cores.                                *)

IdleSimds == {i \in Simds : simds[i].state = "IDLE"}
GetIdleSIMD == CHOOSE i \in IdleSimds : \A j \in IdleSimds : i <= j

Draining == GetTargetBuf(inbuf, "DRAINING")

MoreTasks ==
  /\ Draining # None
  /\ IdleSimds # {}
  /\ inbuf[Draining].vertex_ptr < inbuf[Draining].end_vertex

\* The edges of the vertex the buffer points at.
Depth(buf) == Len(buf.input_edge[buf.vertex_ptr - buf.start_vertex + 1])

SkipVertex ==
  /\ pc = "dispatch" /\ MoreTasks /\ Depth(inbuf[Draining]) = 0
  /\ inbuf' = [inbuf EXCEPT ![Draining].vertex_ptr = @ + 1]
  /\ UNCHANGED <<pc, core, simds, ebuf, edge_chunk_cnt, event_out, event_in,
                 is_done, aggr_buf, pending>>

\* Mutants: the last slice is left out; the slice counter does not move on.
NextTask_OneLess(buf) ==
  IF buf.feature_chunk_cnt + 2 >= num_feature_chunk
    THEN [buf EXCEPT !.feature_chunk_cnt = 0, !.vertex_ptr = @ + 1]
    ELSE [buf EXCEPT !.feature_chunk_cnt = @ + 1]
NextTask_SameSlice(buf) ==
  IF buf.feature_chunk_cnt + 1 = num_feature_chunk
    THEN [buf EXCEPT !.feature_chunk_cnt = 0, !.vertex_ptr = @ + 1]
    ELSE buf

\* The next feature slice, and after the last one the next vertex.
NextTask(buf) ==
  IF buf.feature_chunk_cnt + 1 = num_feature_chunk
    THEN [buf EXCEPT !.feature_chunk_cnt = 0, !.vertex_ptr = @ + 1]
    ELSE [buf EXCEPT !.feature_chunk_cnt = @ + 1]

\* The core first reads the slice's partial sum back (READ_AGGR).
AssignTask ==
  /\ pc = "dispatch" /\ MoreTasks /\ Depth(inbuf[Draining]) > 0
  /\ simds' = [simds EXCEPT ![GetIdleSIMD] =
       [state |-> "COMPUTING", vertex_id |-> inbuf[Draining].vertex_ptr,
        feature_chunk_id |-> inbuf[Draining].feature_chunk_cnt,
        inbuf_ptr |-> Draining, depth |-> Depth(inbuf[Draining])]]
  /\ inbuf' = [inbuf EXCEPT ![Draining] = NextTask(@)]
  /\ AddEvents("AGGR_FEATURE", 1)
  /\ event_out' = event_out + 1
  /\ UNCHANGED <<pc, core, ebuf, edge_chunk_cnt, event_in, is_done, aggr_buf>>

DispatchEnds ==
  /\ pc = "dispatch" /\ ~MoreTasks
  /\ pc' = "finish"
  /\ UNCHANGED <<core, simds, ebuf, inbuf, edge_chunk_cnt, event_out, event_in,
                 is_done, aggr_buf, pending>>

-----------------------------------------------------------------------------
\* Mutant: write-backs that memory has not confirmed are not waited for.
NothingLeft_NoEvents == AllBufIdle(inbuf) /\ AllBufIdle(ebuf)

\* The end of ClockTick.  Once done, the engine stays done.
NothingLeft ==
  AllBufIdle(inbuf) /\ AllBufIdle(ebuf) /\ event_out = event_in

Finish ==
  /\ pc = "finish"
  /\ is_done' = (is_done \/ NothingLeft)
  /\ pc' = "comb"
  /\ UNCHANGED <<core, simds, ebuf, inbuf, edge_chunk_cnt, event_out, event_in,
                 aggr_buf, pending>>

-----------------------------------------------------------------------------
(* The combination engine's tick: it may take a batch or release the one   *)
(* it has, and ends.                                                       *)

CombTakes ==
  /\ pc = "comb"
  /\ aggr_buf.comb_ptr.first = aggr_buf.done_ptr.first
  /\ \E n \in 1..GetReadyVertexNum(aggr_buf) : aggr_buf' = StartComb(aggr_buf, n)
  /\ UNCHANGED <<pc, core, simds, ebuf, inbuf, edge_chunk_cnt, event_out, event_in,
                 is_done, pending>>

CombReleases ==
  /\ pc = "comb"
  /\ aggr_buf.comb_ptr.first # aggr_buf.done_ptr.first
  /\ aggr_buf' = ConfirmComb(aggr_buf,
                   aggr_buf.comb_ptr.first - aggr_buf.done_ptr.first)
  /\ UNCHANGED <<pc, core, simds, ebuf, inbuf, edge_chunk_cnt, event_out, event_in,
                 is_done, pending>>

CombEnds ==
  /\ pc = "comb"
  /\ pc' = "return"
  /\ UNCHANGED <<core, simds, ebuf, inbuf, edge_chunk_cnt, event_out, event_in,
                 is_done, aggr_buf, pending>>

-----------------------------------------------------------------------------
Return == ReturnEdge \/ ReturnInput \/ ReturnAggr

ClockTick ==
  \/ Tick \/ SimdComputes \/ SimdWritesBack
  \/ FetchEdges \/ SkipEdges \/ Halted
  \/ FetchPart \/ StartChunk \/ SkipInput
  \/ StartDraining \/ KeepDraining
  \/ SkipVertex \/ AssignTask \/ DispatchEnds
  \/ Finish \/ CombEnds

Next == Return \/ ClockTick \/ CombTakes \/ CombReleases

SafeSpec == Init /\ [][Next]_vars

-----------------------------------------------------------------------------
(* Properties.                                                             *)

\* One chunk is aggregated at a time, and in order, whichever of the two edge
\* buffers it is in: the chunk being drained is exactly the reserved part of
\* the ring, so that publishing it (ConfirmAggr) is publishing that part.
DrainInOrder ==
  /\ \A e \in Bufs : ebuf[e].state = "DRAINING" =>
       /\ ebuf[e].start_vertex = aggr_buf.ready_ptr.first
       /\ ebuf[e].end_vertex = aggr_buf.aggr_ptr.first
  /\ (\A e \in Bufs : ebuf[e].state # "DRAINING") =>
       aggr_buf.ready_ptr.first = aggr_buf.aggr_ptr.first

Busy == {i \in Simds : simds[i].state = "COMPUTING"}

\* The assertions on the write-back path (aggr.cpp:36, 50, aggr_buf.h:65): a
\* busy core's buffers are still being drained, and its vertex is neither
\* published nor beyond what has been reserved.
CoreSafe ==
  \A i \in Busy :
    LET ib == inbuf[simds[i].inbuf_ptr]
    IN  /\ ib.state = "DRAINING"
        /\ ebuf[ib.ebuf_ptr].state = "DRAINING"
        /\ simds[i].vertex_id >= aggr_buf.ready_ptr.first
        /\ simds[i].vertex_id < aggr_buf.aggr_ptr.first

\* A task's address is worked out twice, from whatever ready_ptr is then: to
\* read the partial sum (aggr.cpp:222) and to write it back (aggr.cpp:37).
\* Both times it is where the slice lives in the ring.
WriteBackInPlace ==
  \A i \in Busy :
    LET off == simds[i].feature_chunk_id * sz_slice
    IN  GetAggrWriteAddr(aggr_buf, simds[i].vertex_id, off)
          = (RingAddr(simds[i].vertex_id) + off) % cap_edram

\* No two cores accumulate into one slice at once: each reads the partial
\* sum when it is given the task and writes it back at the end.
SlicesDistinct ==
  \A i, j \in Busy :
    (simds[i].vertex_id = simds[j].vertex_id
       /\ simds[i].feature_chunk_id = simds[j].feature_chunk_id) => i = j

\* Cores work side by side, on buffers and vertices that stay.
CoresApart == CoreSafe /\ SlicesDistinct

\* The tasks an input buffer has not given out yet.
TasksLeft(buf) ==
  LET rows == {r \in NonEmpty(buf.input_edge) :
                 buf.start_vertex + r - 1 >= buf.vertex_ptr}
  IN  Cardinality(rows) * num_feature_chunk - buf.feature_chunk_cnt

\* The counters the engine gives buffers back by: an input buffer waits for
\* the tasks in the cores and those still to be given out, an edge buffer for
\* the parts in input buffers and those still to be fetched, and a buffer
\* being filled for what memory owes.
BufferAccounting ==
  /\ \A i \in Bufs :
       /\ inbuf[i].state = "DRAINING" =>
            inbuf[i].event_cnt =
              Cardinality({k \in Busy : simds[k].inbuf_ptr = i}) + TasksLeft(inbuf[i])
       /\ inbuf[i].state = "FILLING" =>
            inbuf[i].event_cnt = pending["INPUT_FEATURE"]
       /\ ebuf[i].state = "DRAINING" =>
            ebuf[i].event_cnt =
              Cardinality({k \in Bufs : inbuf[k].ebuf_ptr = i})
                + NumPart(ebuf[i].edge_chunk_id) - ebuf[i].edge_part_cnt
       /\ ebuf[i].state = "FILLING" => ebuf[i].event_cnt = pending["EDGE"]
  /\ GetTargetBuf(inbuf, "FILLING") = None => pending["INPUT_FEATURE"] = 0
  /\ GetTargetBuf(ebuf, "FILLING") = None => pending["EDGE"] = 0

\* w[q] + w[q + 1] + ... + w[n - 1].
SumFrom(w, n, q) ==
  LET f[k \in 0..n] == IF k = n THEN 0 ELSE w[k] + f[k + 1] IN f[q]

\* The tasks of the parts of chunk c from p on, and of all chunks from c on.
TasksOfPart(c, p) == Cardinality(NonEmpty(Rows(c, p))) * num_feature_chunk
TasksFromPart(c, p) ==
  SumFrom([q \in 0..(NumPart(c) - 1) |-> TasksOfPart(c, q)], NumPart(c), p)
TasksFromChunk(c) ==
  SumFrom([k \in Chunks |-> TasksFromPart(k, 0)], num_edge_chunk, c)

\* The tasks still in an input buffer, and those of the chunks from vertex v on.
TasksIn(buf) ==
  CASE buf.state = "IDLE" -> 0
    [] buf.state = "DRAINING" -> TasksLeft(buf)
    [] OTHER -> Tasks(buf)
ChunksFrom(v) == Cardinality({c \in Chunks : start_vertex_of_echunk[c] < v})

\* The tasks of the parts still to be asked for of the chunk being aggregated,
\* and of the chunks that have no room in the ring yet.
PartsLeft ==
  LET e == GetTargetBuf(ebuf, "DRAINING")
  IN  IF e = None THEN 0
      ELSE TasksFromPart(ebuf[e].edge_chunk_id, ebuf[e].edge_part_cnt)
ChunksLeft == TasksFromChunk(ChunksFrom(aggr_buf.aggr_ptr.first))

\* Every slice of every vertex is accumulated once for every part in which it
\* has an edge: the reads and writes issued so far, those of the tasks in the
\* cores, in the input buffers, in the parts and the chunks still to come
\* make up the layer, two events to a task.
TaskAccounting ==
  event_out + Cardinality(Busy)
    + 2 * (TasksIn(inbuf[0]) + TasksIn(inbuf[1]) + PartsLeft + ChunksLeft)
  = 2 * TasksFromChunk(0)

\* Buffers are given back by counters that are right, and of all the layer's
\* tasks none is lost or done twice.
Accounting == BufferAccounting /\ TaskAccounting

\* The engine does not stop early, in a moment when its buffers happen to be
\* idle: when it is done all is aggregated, published and confirmed.
DoneComplete ==
  is_done => /\ aggr_buf.ready_ptr.first = NumVertex
             /\ pending = [t \in DataType |-> 0]

\* The results of aggregated vertices are kept in the ring until they have
\* been combined (ResearchReport.pdf, 4.3 (2)): the ring never holds more than
\* its bytes.  WillAllocate does not see to it.
Retained == Occupancy(aggr_buf) <= cap_edram

=============================================================================
