------------------------------- MODULE AggrBuf -------------------------------
(***************************************************************************)
(* The aggregation buffer (hardware/aggr_buf.h): an eDRAM ring through     *)
(* which the aggregation engine hands vertices to the combination engine.  *)
(* Four pointers chase each other round the ring.  Each is a pair: how     *)
(* many vertices it has passed since the layer began (first) and the byte  *)
(* address it has reached (second).                                        *)
(*                                                                         *)
(*     done_ptr <= comb_ptr <= ready_ptr <= aggr_ptr                       *)
(*                                                                         *)
(* A vertex between done and comb is being combined, one between comb and  *)
(* ready waits for the combination engine, one between ready and aggr is   *)
(* being aggregated.  The module is a library of operators on one record;  *)
(* Aggr, Comb and HyGCN keep that record in a variable aggr_buf.           *)
(***************************************************************************)
EXTENDS Integers

CONSTANTS
  cap_edram,       \* the ring's bytes, SysConfig::cap_aggrbuf
  sz_aggr_vector   \* the bytes of one vertex, space_aligned_vertex(sz_block)

\* SysConfig asserts cap_aggrbuf > 0; a feature vector has at least one block.
ASSUME AggrBufAssumption ==
  /\ cap_edram \in Nat \ {0}
  /\ sz_aggr_vector \in Nat \ {0}

Ptr == [first : Nat, second : Nat]

AggrBufType == [aggr_ptr : Ptr, ready_ptr : Ptr, comb_ptr : Ptr, done_ptr : Ptr]

InitPtr == [first |-> 0, second |-> 0]

InitBuf ==
  [aggr_ptr |-> InitPtr, ready_ptr |-> InitPtr,
   comb_ptr |-> InitPtr, done_ptr |-> InitPtr]

\* A pointer moved past num_vertex vertices, its address wrapped to the ring.
Advance(ptr, num_vertex) ==
  [first  |-> ptr.first + num_vertex,
   second |-> (cap_edram + ptr.second + num_vertex * sz_aggr_vector) % cap_edram]

StartAggr(buf, num_vertex) ==
  [buf EXCEPT !.aggr_ptr = Advance(buf.aggr_ptr, num_vertex)]

ConfirmAggr(buf, num_vertex) ==
  [buf EXCEPT !.ready_ptr = Advance(buf.ready_ptr, num_vertex)]

StartComb(buf, num_vertex) ==
  [buf EXCEPT !.comb_ptr = Advance(buf.comb_ptr, num_vertex)]

ConfirmComb(buf, num_vertex) ==
  [buf EXCEPT !.done_ptr = Advance(buf.done_ptr, num_vertex)]

\* What WillAllocate calls the free space: a function of the two addresses
\* alone, so a full ring and an empty one look the same.
SpaceFree(buf) ==
  (cap_edram + buf.aggr_ptr.second - buf.done_ptr.second) % (cap_edram + 1)

WillAllocate(buf, num_vertex) == num_vertex * sz_aggr_vector <= SpaceFree(buf)

GetReadyVertexNum(buf) == buf.ready_ptr.first - buf.comb_ptr.first

\* Mutant: the offset is taken from the layer's start, not from ready_ptr's.
GetAggrWriteAddr_NoOffset(buf, vertex_id, part_off) ==
  (buf.ready_ptr.second + vertex_id * sz_aggr_vector + part_off) % cap_edram

\* The address of block part_off bytes into the vector of vertex_id.
GetAggrWriteAddr(buf, vertex_id, part_off) ==
  (buf.ready_ptr.second
     + (vertex_id - buf.ready_ptr.first) * sz_aggr_vector
     + part_off) % cap_edram

-----------------------------------------------------------------------------
\* The bytes held for vertices that are allocated and not yet combined.
Occupancy(buf) == (buf.aggr_ptr.first - buf.done_ptr.first) * sz_aggr_vector

\* The address every pointer must have after passing n vertices.
RingAddr(n) == (n * sz_aggr_vector) % cap_edram

OnRing(ptr) == ptr.second = RingAddr(ptr.first)
=============================================================================
