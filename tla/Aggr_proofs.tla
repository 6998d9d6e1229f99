---------------------------- MODULE Aggr_proofs ----------------------------
(***************************************************************************)
(* Proofs about Aggr: for every layer and graph, every number of cores,    *)
(* slices, chunks and parts and every ring, and with memory answering in   *)
(* any order, chunks are aggregated one at a time and in order, the cores  *)
(* work side by side on buffers and vertices that stay, buffers are given  *)
(* back by counters that are right, no task of the layer is lost or done   *)
(* twice, and the engine implements its part of VertexPipeline.            *)
(***************************************************************************)
EXTENDS Aggr, FiniteSetTheorems, TLAPS

-----------------------------------------------------------------------------
(* The ring's operators.                                                   *)

\* What a buffer is made of, and that moving one pointer moves no other.
LEMMA AdvanceType ==
  ASSUME NEW ptr \in Ptr, NEW n \in Nat
  PROVE  /\ Advance(ptr, n) \in Ptr
         /\ Advance(ptr, n).first = ptr.first + n
<1>1. n * sz_aggr_vector \in Nat
  BY AggrBufAssumption
<1>2. cap_edram + ptr.second + n * sz_aggr_vector \in Nat
  BY <1>1, AggrBufAssumption DEF Ptr
<1>3. ptr.first + n \in Nat
  BY DEF Ptr
<1>. QED
  BY <1>2, <1>3, AggrBufAssumption DEF Advance, Ptr

\* The remainder is the only number below c that differs from x by a
\* multiple of c.
LEMMA RemainderUnique ==
  ASSUME NEW c \in Nat \ {0}, NEW q \in Int, NEW r \in 0..(c - 1)
  PROVE  (q * c + r) % c = r
<1>. DEFINE x == q * c + r
            d == x \div c
            m == x % c
<1>1. x \in Int /\ d \in Int /\ m \in 0..(c - 1) /\ x = c * d + m
  OBVIOUS
<1>2. (q - d) * c = m - r
  BY <1>1
<1>3. CASE q - d >= 1
  <2>1. (q - d) * c >= c
    BY <1>1, <1>3
  <2>. QED
    BY <1>1, <1>2, <2>1
<1>4. CASE q - d <= -1
  <2>1. (q - d) * c <= -c
    BY <1>1, <1>4
  <2>. QED
    BY <1>1, <1>2, <2>1
<1>5. CASE q - d = 0
  BY <1>1, <1>2, <1>5
<1>. QED
  BY <1>1, <1>3, <1>4, <1>5

\* Quotient and remainder make up the number.
LEMMA DivMod ==
  ASSUME NEW c \in Nat \ {0}, NEW x \in Int
  PROVE  \E d \in Int, m \in 0..(c - 1) : m = x % c /\ x = d * c + m
<1>1. x \div c \in Int /\ x % c \in 0..(c - 1) /\ x = (x \div c) * c + (x % c)
  OBVIOUS
<1>. QED
  BY <1>1

\* A multiple of c does not change the remainder.
LEMMA RemainderShift ==
  ASSUME NEW c \in Nat \ {0}, NEW x \in Int, NEW k \in Int
  PROVE  (x + k * c) % c = x % c
<1>1. PICK d \in Int, m \in 0..(c - 1) : m = x % c /\ x = d * c + m
  BY DivMod
<1>2. (d + k) * c = d * c + k * c
  BY <1>1
<1>3. x + k * c = (d + k) * c + m
  BY <1>1, <1>2
<1>4. d + k \in Int
  BY <1>1
<1>5. ((d + k) * c + m) % c = m
  BY <1>1, <1>4, RemainderUnique
<1>. QED
  BY <1>1, <1>3, <1>5

\* A remainder may be taken before or after adding.
LEMMA RemainderAdd ==
  ASSUME NEW c \in Nat \ {0}, NEW a \in Nat, NEW b \in Nat
  PROVE  (c + (a % c) + b) % c = (a + b) % c
<1>1. PICK d \in Int, m \in 0..(c - 1) : m = a % c /\ a = d * c + m
  <2>1. a \in Int
    OBVIOUS
  <2>. QED
    BY <2>1, DivMod
<1>2. (1 - d) * c = c - d * c
  BY <1>1
<1>3. c + m + b = (a + b) + (1 - d) * c
  BY <1>1, <1>2
<1>4. a + b \in Int /\ 1 - d \in Int
  BY <1>1
<1>5. ((a + b) + (1 - d) * c) % c = (a + b) % c
  BY <1>4, RemainderShift
<1>. QED
  BY <1>1, <1>3, <1>5

\* A pointer that is where its vertex count puts it stays so when it moves,
\* through any number of turns of the ring.
LEMMA AdvanceOnRing ==
  ASSUME NEW ptr \in Ptr, NEW n \in Nat, OnRing(ptr)
  PROVE  OnRing(Advance(ptr, n))
<1>1. /\ ptr.first * sz_aggr_vector \in Nat
      /\ n * sz_aggr_vector \in Nat
      /\ cap_edram \in Nat \ {0}
  BY AggrBufAssumption DEF Ptr
<1>2. (ptr.first + n) * sz_aggr_vector =
        ptr.first * sz_aggr_vector + n * sz_aggr_vector
  BY AggrBufAssumption DEF Ptr
<1>3. (cap_edram + ((ptr.first * sz_aggr_vector) % cap_edram)
         + n * sz_aggr_vector) % cap_edram
      = (ptr.first * sz_aggr_vector + n * sz_aggr_vector) % cap_edram
  BY <1>1, RemainderAdd
<1>. QED
  BY <1>2, <1>3 DEF OnRing, RingAddr, Advance

\* An operation moves its own pointer and no other.
LEMMA InitBufType == InitBuf \in AggrBufType
BY DEF InitBuf, InitPtr, AggrBufType, Ptr

\* Reserving a slice (aggr_buf.h:36) leaves the pointers in the ring.
LEMMA StartAggrType ==
  ASSUME NEW buf \in AggrBufType, NEW n \in Nat
  PROVE  /\ StartAggr(buf, n) \in AggrBufType
         /\ StartAggr(buf, n).aggr_ptr = Advance(buf.aggr_ptr, n)
         /\ StartAggr(buf, n).aggr_ptr.first = buf.aggr_ptr.first + n
         /\ StartAggr(buf, n).ready_ptr = buf.ready_ptr
         /\ StartAggr(buf, n).comb_ptr = buf.comb_ptr
         /\ StartAggr(buf, n).done_ptr = buf.done_ptr
<1>1. buf.aggr_ptr \in Ptr
  BY DEF AggrBufType
<1>. QED
  BY <1>1, AdvanceType DEF StartAggr, AggrBufType

\* So does publishing one (aggr_buf.h:42),
LEMMA ConfirmAggrType ==
  ASSUME NEW buf \in AggrBufType, NEW n \in Nat
  PROVE  /\ ConfirmAggr(buf, n) \in AggrBufType
         /\ ConfirmAggr(buf, n).ready_ptr = Advance(buf.ready_ptr, n)
         /\ ConfirmAggr(buf, n).ready_ptr.first = buf.ready_ptr.first + n
         /\ ConfirmAggr(buf, n).aggr_ptr = buf.aggr_ptr
         /\ ConfirmAggr(buf, n).comb_ptr = buf.comb_ptr
         /\ ConfirmAggr(buf, n).done_ptr = buf.done_ptr
<1>1. buf.ready_ptr \in Ptr
  BY DEF AggrBufType
<1>. QED
  BY <1>1, AdvanceType DEF ConfirmAggr, AggrBufType

\* and taking one to be combined (aggr_buf.h:54),
LEMMA StartCombType ==
  ASSUME NEW buf \in AggrBufType, NEW n \in Nat
  PROVE  /\ StartComb(buf, n) \in AggrBufType
         /\ StartComb(buf, n).comb_ptr = Advance(buf.comb_ptr, n)
         /\ StartComb(buf, n).comb_ptr.first = buf.comb_ptr.first + n
         /\ StartComb(buf, n).aggr_ptr = buf.aggr_ptr
         /\ StartComb(buf, n).ready_ptr = buf.ready_ptr
         /\ StartComb(buf, n).done_ptr = buf.done_ptr
<1>1. buf.comb_ptr \in Ptr
  BY DEF AggrBufType
<1>. QED
  BY <1>1, AdvanceType DEF StartComb, AggrBufType

\* and giving it back (aggr_buf.h:59).
LEMMA ConfirmCombType ==
  ASSUME NEW buf \in AggrBufType, NEW n \in Nat
  PROVE  /\ ConfirmComb(buf, n) \in AggrBufType
         /\ ConfirmComb(buf, n).done_ptr = Advance(buf.done_ptr, n)
         /\ ConfirmComb(buf, n).done_ptr.first = buf.done_ptr.first + n
         /\ ConfirmComb(buf, n).aggr_ptr = buf.aggr_ptr
         /\ ConfirmComb(buf, n).ready_ptr = buf.ready_ptr
         /\ ConfirmComb(buf, n).comb_ptr = buf.comb_ptr
<1>1. buf.done_ptr \in Ptr
  BY DEF AggrBufType
<1>. QED
  BY <1>1, AdvanceType DEF ConfirmComb, AggrBufType

-----------------------------------------------------------------------------
(* The invariant.                                                          *)

BufState == {"IDLE", "FILLING", "READY", "DRAINING"}

EbufType ==
  [state : BufState, event_cnt : Int, start_vertex : Int, end_vertex : Int,
   edge_chunk_id : Int, edge_part_cnt : Int]
InbufType ==
  [state : BufState, event_cnt : Int, start_vertex : Int, end_vertex : Int,
   ebuf_ptr : Int, input_edge : Seq(Seq(Nat)), vertex_ptr : Int,
   feature_chunk_cnt : Int, non_empty_vertex : Int]
SimdType ==
  [state : {"IDLE", "COMPUTING"}, vertex_id : Int, feature_chunk_id : Int,
   inbuf_ptr : Int, depth : Int]

TypeInv ==
  /\ pc \in PC /\ core \in Simds
  /\ simds \in [Simds -> SimdType]
  /\ ebuf \in [Bufs -> EbufType]
  /\ inbuf \in [Bufs -> InbufType]
  /\ edge_chunk_cnt \in 0..num_edge_chunk
  /\ event_out \in Nat /\ event_in \in Nat
  /\ is_done \in BOOLEAN
  /\ aggr_buf \in AggrBufType
  /\ pending \in [DataType -> Nat]

\* The vertices of the first c chunks.
Bound(c) == IF c = 0 THEN 0 ELSE end_vertex_of_echunk[c - 1]

\* An edge buffer whose chunk has no room in the ring yet, and the number of
\* the first chunk that has none: chunks are asked for in order, and those
\* that wait are the last that have been asked for.
Waits(buf) == buf.state \in {"FILLING", "READY"}
Waiting(buf) == IF Waits(buf) THEN 1 ELSE 0
NextChunk == edge_chunk_cnt - Waiting(ebuf[0]) - Waiting(ebuf[1])

\* The buffer's fields are those of its chunk.
HoldsChunk(buf) ==
  /\ buf.edge_chunk_id \in Chunks
  /\ buf.start_vertex = start_vertex_of_echunk[buf.edge_chunk_id]
  /\ buf.end_vertex = end_vertex_of_echunk[buf.edge_chunk_id]

\* What an edge buffer holds when n is the first chunk without room and cnt
\* the first that has not been asked for.
EbufOK(buf, n, cnt) ==
  /\ buf.state # "IDLE" => HoldsChunk(buf)
  /\ Waits(buf) => /\ n <= buf.edge_chunk_id /\ buf.edge_chunk_id < cnt
                   /\ buf.edge_part_cnt = 0
  /\ buf.state = "FILLING" => buf.edge_chunk_id = cnt - 1
  /\ buf.state = "DRAINING" => /\ buf.edge_chunk_id = n - 1
                               /\ buf.edge_part_cnt \in 0..NumPart(n - 1)
  /\ buf.state = "IDLE" => buf.event_cnt = 0 /\ buf.edge_part_cnt = 0

EbufInv ==
  /\ \A e \in Bufs : EbufOK(ebuf[e], NextChunk, edge_chunk_cnt)
  /\ ebuf[0].state # "IDLE" /\ ebuf[1].state # "IDLE" =>
       ebuf[0].edge_chunk_id # ebuf[1].edge_chunk_id

\* The ring: what has been reserved are the chunks before the next, what has
\* been published those before the one being aggregated.
RingInv ==
  /\ OnRing(aggr_buf.ready_ptr)
  /\ aggr_buf.aggr_ptr.first = Bound(NextChunk)
  /\ \A e \in Bufs : ebuf[e].state = "DRAINING" =>
       aggr_buf.ready_ptr.first = ebuf[e].start_vertex
  /\ (\A e \in Bufs : ebuf[e].state # "DRAINING") =>
       aggr_buf.ready_ptr.first = aggr_buf.aggr_ptr.first
  /\ aggr_buf.done_ptr.first <= aggr_buf.comb_ptr.first
  /\ aggr_buf.comb_ptr.first <= aggr_buf.ready_ptr.first

\* An input buffer holds a part of the chunk that is being aggregated, up to
\* its last vertex with an edge.
PartOf(ib, eb) ==
  /\ eb.state = "DRAINING"
  /\ ib.start_vertex = eb.start_vertex
  /\ ib.start_vertex + Len(ib.input_edge) = eb.end_vertex
  /\ ib.end_vertex - ib.start_vertex \in NonEmpty(ib.input_edge)
  /\ \A r \in NonEmpty(ib.input_edge) : r <= ib.end_vertex - ib.start_vertex
  /\ ib.non_empty_vertex = Cardinality(NonEmpty(ib.input_edge))

\* The next task of an input buffer: none of a vertex that has no edge is
\* begun.
TaskPtrOK(ib) ==
  /\ ib.feature_chunk_cnt \in 0..(num_feature_chunk - 1)
  /\ ib.start_vertex <= ib.vertex_ptr /\ ib.vertex_ptr <= ib.end_vertex
  /\ ib.feature_chunk_cnt # 0 =>
       ib.vertex_ptr - ib.start_vertex + 1 \in NonEmpty(ib.input_edge)

InbufInv ==
  /\ \A i \in Bufs :
       /\ inbuf[i].state = "IDLE" => inbuf[i] = IdleInbuf(0)
       /\ inbuf[i].state # "IDLE" =>
            inbuf[i].ebuf_ptr \in Bufs /\ PartOf(inbuf[i], ebuf[inbuf[i].ebuf_ptr])
       /\ inbuf[i].state = "FILLING" => inbuf[i].feature_chunk_cnt = 0
       /\ inbuf[i].state = "READY" =>
            /\ inbuf[i].feature_chunk_cnt = 0
            /\ inbuf[i].vertex_ptr = inbuf[i].start_vertex
       /\ inbuf[i].state = "DRAINING" => TaskPtrOK(inbuf[i])
  /\ \A s \in {"FILLING", "DRAINING"} : ~(inbuf[0].state = s /\ inbuf[1].state = s)

\* A core works on a task that the buffer being drained has given out.
CoreOK(simd) ==
  LET ib == inbuf[simd.inbuf_ptr]
  IN  /\ simd.inbuf_ptr \in Bufs /\ ib.state = "DRAINING"
      /\ simd.feature_chunk_id \in 0..(num_feature_chunk - 1)
      /\ ib.start_vertex <= simd.vertex_id /\ simd.vertex_id < ib.end_vertex
      /\ \/ simd.vertex_id < ib.vertex_ptr
         \/ /\ simd.vertex_id = ib.vertex_ptr
            /\ simd.feature_chunk_id < ib.feature_chunk_cnt

CoreInv ==
  /\ \A k \in Simds : simds[k].state = "COMPUTING" => CoreOK(simds[k])
  /\ \A k, l \in Simds :
       /\ simds[k].state = "COMPUTING" /\ simds[l].state = "COMPUTING" /\ k # l
       => \/ simds[k].vertex_id # simds[l].vertex_id
          \/ simds[k].feature_chunk_id # simds[l].feature_chunk_id

\* The counters: tasks of an input buffer, parts of an edge buffer, events.
BusyOn(i) == {k \in Simds : simds[k].state = "COMPUTING" /\ simds[k].inbuf_ptr = i}
TaskInv ==
  \A i \in Bufs : inbuf[i].state = "DRAINING" =>
    inbuf[i].event_cnt = Cardinality(BusyOn(i)) + TasksLeft(inbuf[i])

On(ib, e) == IF ib.ebuf_ptr = e THEN 1 ELSE 0
PartInv ==
  \A e \in Bufs : ebuf[e].state = "DRAINING" =>
    ebuf[e].event_cnt = On(inbuf[0], e) + On(inbuf[1], e)
                          + NumPart(ebuf[e].edge_chunk_id) - ebuf[e].edge_part_cnt

EventInv ==
  /\ \A i \in Bufs : ebuf[i].state = "FILLING" => ebuf[i].event_cnt = pending["EDGE"]
  /\ (\A i \in Bufs : ebuf[i].state # "FILLING") => pending["EDGE"] = 0
  /\ \A i \in Bufs :
       inbuf[i].state = "FILLING" => inbuf[i].event_cnt = pending["INPUT_FEATURE"]
  /\ (\A i \in Bufs : inbuf[i].state # "FILLING") => pending["INPUT_FEATURE"] = 0
  /\ event_out = event_in + pending["AGGR_FEATURE"]

\* The engine's end is tested after it has asked for what is left to ask for.
DoneInv ==
  /\ pc \in {"input", "drain", "dispatch", "finish"} /\ ~is_done =>
       edge_chunk_cnt = num_edge_chunk \/ \E e \in Bufs : ebuf[e].state # "IDLE"
  /\ is_done => NothingLeft /\ edge_chunk_cnt = num_edge_chunk

IInv == TypeInv /\ EbufInv /\ RingInv /\ InbufInv /\ CoreInv /\ TaskInv /\ PartInv
          /\ EventInv /\ DoneInv

-----------------------------------------------------------------------------
(* Numbers and sets.                                                       *)

\* A set of natural numbers that is not empty has a smallest: among the
\* intervals from 0 to its elements one has no other inside it.
LEMMA Smallest ==
  ASSUME NEW S \in SUBSET Nat, S # {}
  PROVE  \E m \in S : \A k \in S : m <= k
<1>. DEFINE T == {0..k : k \in S}
<1>1. IsWellFoundedOn(StrictSubsetOrdering(Nat), FiniteSubsetsOf(Nat))
  BY FS_StrictSubsetOrderingWellFounded
<1>2. \A k \in S : IsFiniteSet(0..k) /\ 0..k \in SUBSET Nat
  <2>. SUFFICES ASSUME NEW k \in S PROVE IsFiniteSet(0..k) /\ 0..k \in SUBSET Nat
    OBVIOUS
  <2>1. 0 \in Int /\ k \in Int
    OBVIOUS
  <2>. QED
    BY <2>1, FS_Interval
<1>3. T \subseteq FiniteSubsetsOf(Nat) /\ T # {}
  BY <1>2 DEF FiniteSubsetsOf
<1>4. PICK x \in T : \A y \in T : ~(<<y, x>> \in StrictSubsetOrdering(Nat))
  <2>. HIDE DEF T
  <2>. QED
    BY <1>1, <1>3, WFMin
<1>5. PICK m \in S : x = 0..m
  OBVIOUS
<1>6. ASSUME NEW k \in S, k < m PROVE FALSE
  <2>1. 0..k \in T
    OBVIOUS
  <2>2. 0..k \subseteq 0..m /\ m \in 0..m /\ m \notin 0..k
    BY <1>6
  <2>3. 0..k \in SUBSET Nat /\ 0..m \in SUBSET Nat
    BY <1>2
  <2>4. <<0..k, 0..m>> \in StrictSubsetOrdering(Nat)
    BY <2>2, <2>3 DEF StrictSubsetOrdering
  <2>. QED
    BY <1>4, <1>5, <2>1, <2>4
<1>. QED
  BY <1>6

\* A set of two buffers is counted by asking each.
LEMMA TwoBuffers ==
  ASSUME NEW S \in SUBSET Bufs
  PROVE  Cardinality(S) = (IF 0 \in S THEN 1 ELSE 0) + (IF 1 \in S THEN 1 ELSE 0)
<1>. \A x \in S : x = 0 \/ x = 1
  BY DEF Bufs
<1>1. CASE 0 \in S /\ 1 \in S
  <2>1. S = {0} \cup {1} /\ 1 \notin {0}
    BY <1>1
  <2>2. IsFiniteSet({0}) /\ Cardinality({0}) = 1
    BY FS_Singleton
  <2>3. Cardinality({0} \cup {1}) = 2
    BY <2>1, <2>2, FS_AddElement
  <2>. QED
    BY <1>1, <2>1, <2>3
<1>2. CASE 0 \in S /\ 1 \notin S
  <2>1. S = {0}
    BY <1>2
  <2>. QED
    BY <1>2, <2>1, FS_Singleton
<1>3. CASE 0 \notin S /\ 1 \in S
  <2>1. S = {1}
    BY <1>3
  <2>. QED
    BY <1>3, <2>1, FS_Singleton
<1>4. CASE 0 \notin S /\ 1 \notin S
  <2>1. S = {}
    BY <1>4
  <2>. QED
    BY <1>4, <2>1, FS_EmptySet
<1>. QED
  BY <1>1, <1>2, <1>3, <1>4

-----------------------------------------------------------------------------
(* The layer.                                                              *)

\* Each chunk begins where the chunks before it end, and has vertices.
LEMMA ChunkBounds ==
  ASSUME NEW c \in Chunks
  PROVE  /\ Bound(c) = start_vertex_of_echunk[c] /\ Bound(c + 1) = end_vertex_of_echunk[c]
         /\ Bound(c) \in Nat /\ Bound(c + 1) \in Nat /\ Bound(c) < Bound(c + 1)
         /\ ChunkSize(c) = Bound(c + 1) - Bound(c)
<1>1. c \in Nat /\ c + 1 # 0 /\ (c + 1) - 1 = c /\ num_edge_chunk \in Nat
  BY AggrAssumption DEF Chunks
<1>2. /\ start_vertex_of_echunk[c] \in Nat /\ end_vertex_of_echunk[c] \in Nat
      /\ ChunkSize(c) > 0
  BY AggrAssumption
<1>3. start_vertex_of_echunk[c] < end_vertex_of_echunk[c]
  BY <1>2 DEF ChunkSize
<1>4. Bound(c) = start_vertex_of_echunk[c]
  <2>1. CASE c = 0
    BY <2>1, AggrAssumption DEF Bound
  <2>2. CASE c # 0
    BY <2>2, AggrAssumption DEF Bound
  <2>. QED
    BY <2>1, <2>2
<1>5. Bound(c + 1) = end_vertex_of_echunk[c]
  BY <1>1 DEF Bound
<1>. QED
  BY <1>2, <1>3, <1>4, <1>5 DEF ChunkSize

\* No chunk ends behind the layer: look at the last that would.
LEMMA BoundInLayer ==
  ASSUME NEW c \in 0..num_edge_chunk
  PROVE  Bound(c) \in Nat /\ Bound(c) <= NumVertex
<1>. PICK n : n = num_edge_chunk
  OBVIOUS
<1>1. n \in Nat \ {0} /\ c \in Nat
  BY AggrAssumption
<1>2. Bound(n) = NumVertex
  BY <1>1 DEF Bound, NumVertex
<1>3. \A k \in 0..n : Bound(k) \in Nat
  <2>. SUFFICES ASSUME NEW k \in 0..n PROVE Bound(k) \in Nat
    OBVIOUS
  <2>1. CASE k = 0
    BY <2>1 DEF Bound
  <2>2. CASE k # 0
    <3>1. k - 1 \in Chunks
      BY <1>1, <2>2 DEF Chunks
    <3>. QED
      BY <2>2, <3>1, AggrAssumption DEF Bound
  <2>. QED
    BY <2>1, <2>2
<1>4. ASSUME Bound(c) > Bound(n) PROVE FALSE
  <2>. DEFINE S == {d \in 0..n : Bound(n - d) > Bound(n)}
  <2>1. n - c \in S /\ S \in SUBSET Nat
    <3>1. n - (n - c) = c /\ n - c \in 0..n
      BY <1>1
    <3>. QED
      BY <1>4, <3>1
  <2>2. PICK d \in S : \A k \in S : d <= k
    BY <2>1, Smallest
  <2>3. d \in 1..n
    <3>1. d # 0
      <4>1. n - 0 = n
        BY <1>1
      <4>2. ~(Bound(n) > Bound(n))
        BY <1>1, <1>3
      <4>. QED
        BY <2>2, <4>1, <4>2
    <3>. QED
      BY <2>2, <3>1, <1>1
  <2>4. n - d \in Chunks /\ (n - d) + 1 = n - (d - 1) /\ d - 1 \in 0..n
    BY <1>1, <2>3 DEF Chunks
  <2>5. Bound(n - d) < Bound(n - (d - 1))
    BY <2>4, ChunkBounds
  <2>6. Bound(n - d) > Bound(n)
    BY <2>2
  <2>7. /\ Bound(n - d) \in Nat /\ Bound(n - (d - 1)) \in Nat /\ Bound(n) \in Nat
    BY <1>1, <1>3, <2>3
  <2>8. d - 1 \in S
    BY <2>4, <2>5, <2>6, <2>7
  <2>9. d <= d - 1
    BY <2>2, <2>8
  <2>. QED
    BY <2>3, <2>9
<1>. QED
  BY <1>1, <1>2, <1>3, <1>4

-----------------------------------------------------------------------------
(* Buffers, rows and tasks.                                                *)

\* GetTargetBuf finds a buffer in the state, if there is one.
LEMMA TargetBuf ==
  ASSUME NEW bufs, NEW s
  PROVE  LET i == GetTargetBuf(bufs, s)
         IN  /\ i # None => i \in Bufs /\ bufs[i].state = s
             /\ i = None => bufs[0].state # s /\ bufs[1].state # s
  BY DEF GetTargetBuf, None, Bufs

\* The rows with an edge are some of the rows, and finitely many.
LEMMA NonEmptyFinite ==
  ASSUME NEW rows \in Seq(Seq(Nat))
  PROVE  /\ NonEmpty(rows) \in SUBSET (1..Len(rows))
         /\ IsFiniteSet(NonEmpty(rows)) /\ Cardinality(NonEmpty(rows)) \in Nat
<1>1. 1 \in Int /\ Len(rows) \in Int
  OBVIOUS
<1>2. IsFiniteSet(1..Len(rows))
  BY <1>1, FS_Interval
<1>3. NonEmpty(rows) \in SUBSET (1..Len(rows))
  BY DEF NonEmpty
<1>4. IsFiniteSet(NonEmpty(rows))
  BY <1>2, <1>3, FS_Subset
<1>. QED
  BY <1>3, <1>4, FS_CardinalityType

\* A row belongs to them if it has an edge.
LEMMA NonEmptyRow ==
  ASSUME NEW rows \in Seq(Seq(Nat)), NEW r \in 1..Len(rows)
  PROVE  /\ Len(rows[r]) \in Nat
         /\ Len(rows[r]) = 0 <=> r \notin NonEmpty(rows)
<1>1. rows[r] \in Seq(Nat)
  OBVIOUS
<1>2. Len(rows[r]) = 0 <=> rows[r] = <<>>
  BY <1>1
<1>. QED
  BY <1>1, <1>2 DEF NonEmpty

\* The last row with an edge.
LEMMA LastRow ==
  ASSUME NEW rows \in Seq(Seq(Nat)), NonEmpty(rows) # {}
  PROVE  LET last == CHOOSE r \in NonEmpty(rows) : \A q \in NonEmpty(rows) : q <= r
         IN  last \in NonEmpty(rows) /\ \A q \in NonEmpty(rows) : q <= last
<1>. PICK n : n = Len(rows)
  OBVIOUS
<1>1. n \in Nat /\ NonEmpty(rows) \in SUBSET (1..n)
  BY NonEmptyFinite
<1>. DEFINE S == {n - r : r \in NonEmpty(rows)}
<1>2. S \in SUBSET Nat /\ S # {}
  BY <1>1
<1>3. PICK m \in S : \A k \in S : m <= k
  <2>. HIDE DEF S
  <2>. QED
    BY <1>2, Smallest
<1>4. PICK r \in NonEmpty(rows) : m = n - r
  OBVIOUS
<1>5. \A q \in NonEmpty(rows) : q <= r
  <2>. SUFFICES ASSUME NEW q \in NonEmpty(rows) PROVE q <= r
    OBVIOUS
  <2>1. n - r <= n - q
    BY <1>3, <1>4
  <2>. QED
    BY <1>1, <2>1
<1>. QED
  BY <1>5

\* There are finitely many cores.
LEMMA SimdsFinite == IsFiniteSet(Simds)
<1>1. 0 \in Int /\ num_simd - 1 \in Int
  BY AggrAssumption
<1>. QED
  BY <1>1, FS_Interval DEF Simds

\* The core that is given the next task is idle.
LEMMA IdleCore ==
  ASSUME IdleSimds # {}
  PROVE  GetIdleSIMD \in IdleSimds
<1>1. IdleSimds \in SUBSET Nat
  BY AggrAssumption DEF IdleSimds, Simds
<1>2. \E m \in IdleSimds : \A k \in IdleSimds : m <= k
  BY <1>1, Smallest
<1>. QED
  BY <1>2 DEF GetIdleSIMD

\* The rows of an input buffer whose tasks are not all given out.
RowsLeft(ib) == {r \in NonEmpty(ib.input_edge) : ib.start_vertex + r - 1 >= ib.vertex_ptr}

\* They are finitely many, and TasksLeft counts their slices.
LEMMA RowsLeftFinite ==
  ASSUME NEW ib \in InbufType
  PROVE  /\ IsFiniteSet(RowsLeft(ib)) /\ Cardinality(RowsLeft(ib)) \in Nat
         /\ TasksLeft(ib) =
              Cardinality(RowsLeft(ib)) * num_feature_chunk - ib.feature_chunk_cnt
<1>1. ib.input_edge \in Seq(Seq(Nat))
  BY DEF InbufType
<1>2. RowsLeft(ib) \in SUBSET NonEmpty(ib.input_edge)
  BY DEF RowsLeft
<1>3. IsFiniteSet(RowsLeft(ib))
  BY <1>1, <1>2, NonEmptyFinite, FS_Subset
<1>. QED
  BY <1>3, FS_CardinalityType DEF TasksLeft, RowsLeft

\* A vertex has been begun only if it has an edge, so no more slices are given
\* out than there are.
LEMMA TasksLeftNat ==
  ASSUME NEW ib \in InbufType, TaskPtrOK(ib)
  PROVE  TasksLeft(ib) \in Nat
<1>. PICK f, n, k : /\ f = ib.feature_chunk_cnt /\ n = num_feature_chunk
                    /\ k = Cardinality(RowsLeft(ib))
  OBVIOUS
<1>1. f \in 0..(n - 1) /\ n \in Nat \ {0} /\ k \in Nat /\ TasksLeft(ib) = k * n - f
  BY RowsLeftFinite, AggrAssumption DEF TaskPtrOK
<1>2. CASE f = 0
  <2>1. k * n \in Nat
    BY <1>1
  <2>. QED
    BY <1>1, <1>2, <2>1
<1>3. CASE f # 0
  <2>1. ib.vertex_ptr - ib.start_vertex + 1 \in RowsLeft(ib)
    BY <1>3 DEF TaskPtrOK, RowsLeft, InbufType
  <2>2. k # 0
    BY <2>1, RowsLeftFinite, FS_EmptySet
  <2>3. PICK j \in Nat : k = j + 1
    <3>1. k - 1 \in Nat /\ k = (k - 1) + 1
      BY <1>1, <2>2
    <3>. QED
      BY <3>1
  <2>4. k * n = j * n + n /\ j * n \in Nat
    BY <1>1, <2>3
  <2>. QED
    BY <1>1, <2>4
<1>. QED
  BY <1>2, <1>3

\* A buffer whose tasks are all still to come.
LEMMA TasksAtStart ==
  ASSUME NEW ib \in InbufType, ib.vertex_ptr = ib.start_vertex,
         ib.feature_chunk_cnt = 0,
         ib.non_empty_vertex = Cardinality(NonEmpty(ib.input_edge))
  PROVE  TasksLeft(ib) = Tasks(ib)
<1>1. NonEmpty(ib.input_edge) \in SUBSET (1..Len(ib.input_edge))
  BY NonEmptyFinite DEF InbufType
<1>2. RowsLeft(ib) = NonEmpty(ib.input_edge)
  BY <1>1 DEF RowsLeft, InbufType
<1>3. Cardinality(RowsLeft(ib)) * num_feature_chunk \in Nat
  BY RowsLeftFinite, AggrAssumption
<1>. QED
  BY <1>2, <1>3, RowsLeftFinite DEF Tasks

\* The vertex a buffer points at, before its end, is one of its rows.
LEMMA CurrentRow ==
  ASSUME NEW ib \in InbufType, ib.start_vertex <= ib.vertex_ptr,
         ib.vertex_ptr < ib.end_vertex,
         ib.end_vertex - ib.start_vertex \in NonEmpty(ib.input_edge)
  PROVE  LET r == ib.vertex_ptr - ib.start_vertex + 1
         IN  /\ r \in 1..Len(ib.input_edge)
             /\ Depth(ib) \in Nat
             /\ Depth(ib) = 0 <=> r \notin NonEmpty(ib.input_edge)
<1>. DEFINE r == ib.vertex_ptr - ib.start_vertex + 1
<1>1. ib.input_edge \in Seq(Seq(Nat))
  BY DEF InbufType
<1>2. ib.end_vertex - ib.start_vertex \in 1..Len(ib.input_edge)
  BY <1>1, NonEmptyFinite
<1>3. r \in 1..Len(ib.input_edge)
  BY <1>1, <1>2, SMTT(30) DEF InbufType
<1>. QED
  BY <1>1, <1>3, NonEmptyRow DEF Depth

\* Moving the pointers to the next task keeps a buffer a buffer.
LEMMA MoveTaskPtr ==
  ASSUME NEW ib \in InbufType, NEW v \in Int, NEW f \in Int
  PROVE  /\ [ib EXCEPT !.vertex_ptr = v] \in InbufType
         /\ [ib EXCEPT !.feature_chunk_cnt = f] \in InbufType
  BY DEF InbufType

\* Skipping a vertex without edges leaves the tasks as they are.
LEMMA TasksAfterSkip ==
  ASSUME NEW ib \in InbufType, TaskPtrOK(ib), ib.vertex_ptr < ib.end_vertex,
         ib.end_vertex - ib.start_vertex \in NonEmpty(ib.input_edge),
         Depth(ib) = 0,
         NEW jb, jb = [ib EXCEPT !.vertex_ptr = @ + 1]
  PROVE  jb \in InbufType /\ TaskPtrOK(jb) /\ TasksLeft(jb) = TasksLeft(ib)
<1>1. jb \in InbufType
  <2>1. ib.vertex_ptr + 1 \in Int
    BY DEF InbufType
  <2>2. jb = [ib EXCEPT !.vertex_ptr = ib.vertex_ptr + 1]
    OBVIOUS
  <2>. QED
    BY <2>1, <2>2, MoveTaskPtr
<1>. PICK r : r = ib.vertex_ptr - ib.start_vertex + 1
  OBVIOUS
<1>2. r \notin NonEmpty(ib.input_edge)
  BY CurrentRow DEF TaskPtrOK
<1>3. NonEmpty(ib.input_edge) \in SUBSET Int
  BY NonEmptyFinite DEF InbufType
<1>4. TaskPtrOK(jb)
  BY <1>2 DEF TaskPtrOK, InbufType
<1>5. RowsLeft(jb) = RowsLeft(ib)
  <2>1. \A q \in NonEmpty(ib.input_edge) :
          ib.start_vertex + q - 1 >= ib.vertex_ptr + 1
            <=> ib.start_vertex + q - 1 >= ib.vertex_ptr
    BY <1>2, <1>3 DEF InbufType
  <2>2. /\ jb.input_edge = ib.input_edge /\ jb.start_vertex = ib.start_vertex
        /\ jb.vertex_ptr = ib.vertex_ptr + 1
    BY DEF InbufType
  <2>. QED
    BY <2>1, <2>2 DEF RowsLeft
<1>6. jb.feature_chunk_cnt = ib.feature_chunk_cnt
  BY DEF InbufType
<1>. QED
  BY <1>1, <1>4, <1>5, <1>6, RowsLeftFinite

\* Giving out a task leaves one less, also when it is the vertex's last.
LEMMA TasksAfterNext ==
  ASSUME NEW ib \in InbufType, TaskPtrOK(ib), ib.vertex_ptr < ib.end_vertex,
         ib.end_vertex - ib.start_vertex \in NonEmpty(ib.input_edge),
         Depth(ib) > 0,
         NEW jb, jb = NextTask(ib)
  PROVE  jb \in InbufType /\ TaskPtrOK(jb) /\ TasksLeft(jb) = TasksLeft(ib) - 1
<1>. PICK r, n, f : /\ r = ib.vertex_ptr - ib.start_vertex + 1
                    /\ n = num_feature_chunk /\ f = ib.feature_chunk_cnt
  OBVIOUS
<1>1. r \in NonEmpty(ib.input_edge)
  BY CurrentRow DEF TaskPtrOK
<1>2. NonEmpty(ib.input_edge) \in SUBSET Int
  BY NonEmptyFinite DEF InbufType
<1>3. n \in Nat \ {0} /\ f \in 0..(n - 1)
  BY AggrAssumption DEF TaskPtrOK
<1>4. CASE f + 1 # n
  <2>1. jb = [ib EXCEPT !.feature_chunk_cnt = f + 1]
    BY <1>4 DEF NextTask
  <2>2. jb \in InbufType
    <3>1. f + 1 \in Int
      BY <1>3
    <3>. QED
      BY <2>1, <3>1, MoveTaskPtr
  <2>3. /\ jb.input_edge = ib.input_edge /\ jb.start_vertex = ib.start_vertex
        /\ jb.vertex_ptr = ib.vertex_ptr /\ jb.feature_chunk_cnt = f + 1
        /\ jb.end_vertex = ib.end_vertex
    BY <2>1 DEF InbufType
  <2>4. TaskPtrOK(jb)
    BY <1>1, <1>3, <1>4, <2>3 DEF TaskPtrOK
  <2>5. RowsLeft(jb) = RowsLeft(ib)
    BY <2>3 DEF RowsLeft
  <2>6. Cardinality(RowsLeft(ib)) * n \in Nat
    BY <1>3, RowsLeftFinite
  <2>7. /\ TasksLeft(jb) = Cardinality(RowsLeft(ib)) * n - (f + 1)
        /\ TasksLeft(ib) = Cardinality(RowsLeft(ib)) * n - f
    BY <2>2, <2>3, <2>5, RowsLeftFinite
  <2>. QED
    BY <1>3, <2>2, <2>4, <2>6, <2>7
<1>5. CASE f + 1 = n
  <2>1. jb = [ib EXCEPT !.feature_chunk_cnt = 0, !.vertex_ptr = ib.vertex_ptr + 1]
    BY <1>5 DEF NextTask
  <2>2. jb \in InbufType
    <3>. PICK v : v = ib.vertex_ptr + 1
      OBVIOUS
    <3>1. v \in Int /\ 0 \in Int
      BY DEF InbufType
    <3>2. jb = [ib EXCEPT !.feature_chunk_cnt = 0, !.vertex_ptr = v]
      BY <2>1
    <3>. QED
      BY <3>1, <3>2 DEF InbufType
  <2>3. /\ jb.input_edge = ib.input_edge /\ jb.start_vertex = ib.start_vertex
        /\ jb.vertex_ptr = ib.vertex_ptr + 1 /\ jb.feature_chunk_cnt = 0
        /\ jb.end_vertex = ib.end_vertex
    BY <2>1 DEF InbufType
  <2>4. TaskPtrOK(jb)
    BY <1>3, <2>3 DEF TaskPtrOK, InbufType
  <2>5. \A q \in NonEmpty(ib.input_edge) :
          ib.start_vertex + q - 1 >= ib.vertex_ptr + 1
            <=> ib.start_vertex + q - 1 >= ib.vertex_ptr /\ q # r
    BY <1>2, SMTT(30) DEF InbufType
  <2>6. RowsLeft(jb) = RowsLeft(ib) \ {r}
    BY <2>3, <2>5 DEF RowsLeft
  <2>7. r \in RowsLeft(ib)
    BY <1>1 DEF RowsLeft, InbufType
  <2>. PICK k, l : k = Cardinality(RowsLeft(ib)) /\ l = Cardinality(RowsLeft(jb))
    OBVIOUS
  <2>8. k \in Nat /\ l = k - 1
    <3>1. IsFiniteSet(RowsLeft(ib)) /\ k \in Nat
      BY RowsLeftFinite
    <3>. PICK S : S = RowsLeft(ib)
      OBVIOUS
    <3>2. Cardinality(S \ {r}) = Cardinality(S) - 1
      BY <2>7, <3>1, FS_RemoveElement
    <3>. QED
      BY <2>6, <3>1, <3>2
  <2>9. (k - 1) * n = k * n - n /\ k * n \in Int
    BY <1>3, <2>8
  <2>10. TasksLeft(jb) = l * n - 0 /\ TasksLeft(ib) = k * n - f
    BY <2>2, <2>3, RowsLeftFinite
  <2>. QED
    BY <1>3, <1>5, <2>2, <2>4, <2>8, <2>9, <2>10
<1>. QED
  BY <1>4, <1>5

-----------------------------------------------------------------------------
(* Steps that leave most of the state alone.                               *)

\* The engine's start.
LEMMA Initial == Init => IInv
<1>. SUFFICES ASSUME Init PROVE IInv
  OBVIOUS
<1>1. /\ 0 \in Simds /\ num_edge_chunk \in Nat \ {0} /\ cap_edram \in Nat \ {0}
      /\ sz_aggr_vector \in Nat
  BY AggrAssumption, AggrBufAssumption DEF Simds
<1>2. TypeInv
  <2>1. /\ IdleEbuf(0) \in EbufType /\ IdleInbuf(0) \in InbufType
        /\ IdleSimd \in SimdType
    BY DEF IdleEbuf, EbufType, IdleInbuf, InbufType, IdleSimd, SimdType, BufState, None
  <2>2. /\ simds \in [Simds -> SimdType] /\ ebuf \in [Bufs -> EbufType]
        /\ inbuf \in [Bufs -> InbufType]
    BY <2>1 DEF Init
  <2>3. aggr_buf \in AggrBufType
    BY InitBufType DEF Init
  <2>4. pending \in [DataType -> Nat]
    BY DEF Init
  <2>5. /\ edge_chunk_cnt \in 0..num_edge_chunk /\ event_out \in Nat /\ event_in \in Nat
        /\ core \in Simds
    BY <1>1 DEF Init
  <2>6. pc \in PC /\ is_done \in BOOLEAN
    BY DEF Init, PC
  <2>. QED
    BY <2>2, <2>3, <2>4, <2>5, <2>6 DEF TypeInv
<1>3. NextChunk = 0 /\ Bound(0) = 0
  BY DEF Init, NextChunk, Waiting, Waits, IdleEbuf, Bound, Bufs
<1>4. EbufInv
  BY DEF Init, EbufInv, EbufOK, IdleEbuf, Bufs, Waits
<1>5. RingInv
  <2>1. (0 * sz_aggr_vector) % cap_edram = 0
    BY <1>1
  <2>. QED
    BY <1>3, <2>1 DEF Init, RingInv, InitBuf, InitPtr, OnRing, RingAddr, IdleEbuf, Bufs
<1>6. InbufInv
  BY DEF Init, InbufInv, IdleInbuf, Bufs
<1>7. CoreInv /\ TaskInv /\ PartInv
  BY DEF Init, CoreInv, TaskInv, PartInv, IdleSimd, IdleInbuf, IdleEbuf, Bufs
<1>8. EventInv
  BY DEF Init, EventInv, IdleInbuf, IdleEbuf, Bufs, DataType
<1>9. DoneInv
  BY DEF Init, DoneInv
<1>. QED
  BY <1>2, <1>4, <1>5, <1>6, <1>7, <1>8, <1>9 DEF IInv

\* Steps that only pass the turn on.
LEMMA TurnStep ==
  ASSUME IInv, pc' \in PC, core' \in Simds, is_done' \in BOOLEAN,
         UNCHANGED <<simds, ebuf, inbuf, edge_chunk_cnt, event_out, event_in,
                     aggr_buf, pending>>,
         DoneInv'
  PROVE  IInv'
<1>1. TypeInv'
  BY DEF IInv, TypeInv
<1>2. EbufInv' /\ RingInv' /\ InbufInv' /\ PartInv'
  BY DEF IInv, EbufInv, RingInv, InbufInv, PartInv, NextChunk
<1>3. CoreInv' /\ TaskInv'
  BY DEF IInv, CoreInv, CoreOK, TaskInv, BusyOn
<1>4. EventInv'
  BY DEF IInv, EventInv
<1>. QED
  BY <1>1, <1>2, <1>3, <1>4 DEF IInv

\* Steps of the combination engine, which moves its two pointers of the ring.
LEMMA RingStep ==
  ASSUME IInv,
         UNCHANGED <<core, simds, ebuf, inbuf, edge_chunk_cnt, event_out, event_in,
                     is_done, pending>>,
         aggr_buf' \in AggrBufType, aggr_buf'.aggr_ptr = aggr_buf.aggr_ptr,
         aggr_buf'.ready_ptr = aggr_buf.ready_ptr,
         aggr_buf'.done_ptr.first <= aggr_buf'.comb_ptr.first,
         aggr_buf'.comb_ptr.first <= aggr_buf'.ready_ptr.first,
         pc' = pc
  PROVE  IInv'
<1>1. TypeInv'
  BY DEF IInv, TypeInv
<1>2. RingInv'
  BY DEF IInv, RingInv, NextChunk
<1>3. EbufInv' /\ InbufInv' /\ PartInv'
  BY DEF IInv, EbufInv, InbufInv, PartInv, NextChunk
<1>4. CoreInv' /\ TaskInv'
  BY DEF IInv, CoreInv, CoreOK, TaskInv, BusyOn
<1>5. EventInv'
  BY DEF IInv, EventInv
<1>6. DoneInv'
  BY DEF IInv, DoneInv, NothingLeft, AllBufIdle
<1>. QED
  BY <1>1, <1>2, <1>3, <1>4, <1>5, <1>6 DEF IInv

\* The combination engine takes what has been published and no more.
LEMMA CombTakesStep == IInv /\ CombTakes => IInv'
<1>. SUFFICES ASSUME IInv, CombTakes PROVE IInv'
  OBVIOUS
<1>1. aggr_buf \in AggrBufType
  BY DEF IInv, TypeInv
<1>2. PICK n \in 1..GetReadyVertexNum(aggr_buf) : aggr_buf' = StartComb(aggr_buf, n)
  BY DEF CombTakes
<1>3. /\ aggr_buf.ready_ptr.first \in Nat /\ aggr_buf.comb_ptr.first \in Nat
      /\ aggr_buf.done_ptr.first \in Nat
  BY <1>1 DEF AggrBufType, Ptr
<1>4. n \in Nat /\ aggr_buf.comb_ptr.first + n <= aggr_buf.ready_ptr.first
  BY <1>2, <1>3 DEF GetReadyVertexNum
<1>5. /\ aggr_buf' \in AggrBufType /\ aggr_buf'.aggr_ptr = aggr_buf.aggr_ptr
      /\ aggr_buf'.ready_ptr = aggr_buf.ready_ptr
      /\ aggr_buf'.done_ptr = aggr_buf.done_ptr
      /\ aggr_buf'.comb_ptr.first = aggr_buf.comb_ptr.first + n
  BY <1>1, <1>2, <1>4, StartCombType
<1>6. aggr_buf.done_ptr.first <= aggr_buf.comb_ptr.first
  BY DEF IInv, RingInv
<1>7. /\ aggr_buf'.done_ptr.first <= aggr_buf'.comb_ptr.first
      /\ aggr_buf'.comb_ptr.first <= aggr_buf'.ready_ptr.first
  BY <1>3, <1>4, <1>5, <1>6
<1>. QED
  BY <1>5, <1>7, RingStep DEF CombTakes

\* It gives back what it has taken.
LEMMA CombReleasesStep == IInv /\ CombReleases => IInv'
<1>. SUFFICES ASSUME IInv, CombReleases PROVE IInv'
  OBVIOUS
<1>1. aggr_buf \in AggrBufType
  BY DEF IInv, TypeInv
<1>. PICK n : n = aggr_buf.comb_ptr.first - aggr_buf.done_ptr.first
  OBVIOUS
<1>2. aggr_buf' = ConfirmComb(aggr_buf, n)
  BY DEF CombReleases
<1>3. /\ aggr_buf.ready_ptr.first \in Nat /\ aggr_buf.comb_ptr.first \in Nat
      /\ aggr_buf.done_ptr.first \in Nat
  BY <1>1 DEF AggrBufType, Ptr
<1>4. /\ aggr_buf.done_ptr.first <= aggr_buf.comb_ptr.first
      /\ aggr_buf.comb_ptr.first <= aggr_buf.ready_ptr.first
  BY DEF IInv, RingInv
<1>5. n \in Nat /\ aggr_buf.done_ptr.first + n = aggr_buf.comb_ptr.first
  BY <1>3, <1>4
<1>6. /\ aggr_buf' \in AggrBufType /\ aggr_buf'.aggr_ptr = aggr_buf.aggr_ptr
      /\ aggr_buf'.ready_ptr = aggr_buf.ready_ptr
      /\ aggr_buf'.comb_ptr = aggr_buf.comb_ptr
      /\ aggr_buf'.done_ptr.first = aggr_buf.done_ptr.first + n
  BY <1>1, <1>2, <1>5, ConfirmCombType
<1>7. /\ aggr_buf'.done_ptr.first <= aggr_buf'.comb_ptr.first
      /\ aggr_buf'.comb_ptr.first <= aggr_buf'.ready_ptr.first
  BY <1>3, <1>4, <1>5, <1>6
<1>. QED
  BY <1>6, <1>7, RingStep DEF CombReleases

\* The other steps that only pass the turn on; at the end of a tick the engine
\* may find that nothing is left.
LEMMA TurnSteps ==
  IInv /\ (Tick \/ SkipEdges \/ Halted \/ SkipInput \/ KeepDraining
             \/ DispatchEnds \/ Finish \/ CombEnds)
    => IInv'
<1>. SUFFICES ASSUME IInv,
                     Tick \/ SkipEdges \/ Halted \/ SkipInput \/ KeepDraining
                       \/ DispatchEnds \/ Finish \/ CombEnds
              PROVE  IInv'
  OBVIOUS
<1>1. /\ core \in Simds /\ 0 \in Simds /\ pc \in PC /\ is_done \in BOOLEAN
  BY AggrAssumption DEF IInv, TypeInv, Simds
<1>2. DoneInv
  BY DEF IInv
<1>3. CASE Tick
  <2>1. DoneInv'
    BY <1>2, <1>3 DEF Tick, DoneInv, NothingLeft, AllBufIdle
  <2>. QED
    BY <1>1, <1>3, <2>1, TurnStep DEF Tick, PC
<1>4. CASE SkipEdges
  <2>1. edge_chunk_cnt = num_edge_chunk \/ \E e \in Bufs : ebuf[e].state # "IDLE"
    BY <1>4 DEF SkipEdges, CanFetchEdges, GetTargetBuf, None, Bufs
  <2>2. DoneInv'
    BY <1>2, <1>4, <2>1 DEF SkipEdges, DoneInv, NothingLeft, AllBufIdle
  <2>. QED
    BY <1>1, <1>4, <2>2, TurnStep DEF SkipEdges, PC
<1>5. CASE Halted
  <2>1. DoneInv'
    BY <1>2, <1>5 DEF Halted, DoneInv, NothingLeft, AllBufIdle
  <2>. QED
    BY <1>1, <1>5, <2>1, TurnStep DEF Halted, PC
<1>6. CASE SkipInput
  <2>1. DoneInv'
    BY <1>2, <1>6 DEF SkipInput, DoneInv, NothingLeft, AllBufIdle
  <2>. QED
    BY <1>1, <1>6, <2>1, TurnStep DEF SkipInput, PC
<1>7. CASE KeepDraining
  <2>1. DoneInv'
    BY <1>2, <1>7 DEF KeepDraining, DoneInv, NothingLeft, AllBufIdle
  <2>. QED
    BY <1>1, <1>7, <2>1, TurnStep DEF KeepDraining, PC
<1>8. CASE DispatchEnds
  <2>1. DoneInv'
    BY <1>2, <1>8 DEF DispatchEnds, DoneInv, NothingLeft, AllBufIdle
  <2>. QED
    BY <1>1, <1>8, <2>1, TurnStep DEF DispatchEnds, PC
<1>9. CASE Finish
  <2>1. NothingLeft => edge_chunk_cnt = num_edge_chunk
    BY <1>2, <1>9 DEF Finish, DoneInv, NothingLeft, AllBufIdle
  <2>2. NothingLeft' <=> NothingLeft
    BY <1>9 DEF Finish, NothingLeft, AllBufIdle
  <2>3. is_done' => NothingLeft /\ edge_chunk_cnt = num_edge_chunk
    BY <1>2, <1>9, <2>1 DEF Finish, DoneInv
  <2>4. DoneInv'
    BY <1>9, <2>2, <2>3 DEF Finish, DoneInv
  <2>5. is_done' \in BOOLEAN
    BY <1>9 DEF Finish
  <2>. QED
    BY <1>1, <1>9, <2>4, <2>5, TurnStep DEF Finish, PC
<1>10. CASE CombEnds
  <2>1. DoneInv'
    BY <1>2, <1>10 DEF CombEnds, DoneInv, NothingLeft, AllBufIdle
  <2>. QED
    BY <1>1, <1>10, <2>1, TurnStep DEF CombEnds, PC
<1>. QED
  BY <1>3, <1>4, <1>5, <1>6, <1>7, <1>8, <1>9, <1>10

-----------------------------------------------------------------------------
(* Steps that change a buffer.                                             *)

\* Memory owes more or fewer events of one type.
LEMMA EventsStep ==
  ASSUME pending \in [DataType -> Nat], NEW t \in DataType, NEW n \in Int,
         pending[t] + n \in Nat, AddEvents(t, n)
  PROVE  /\ pending' \in [DataType -> Nat]
         /\ pending'[t] = pending[t] + n
         /\ \A u \in DataType : u # t => pending'[u] = pending[u]
  BY DEF AddEvents

\* One of the two edge buffers changes.
LEMMA EbufStep ==
  ASSUME ebuf \in [Bufs -> EbufType], NEW i \in Bufs, NEW nb \in EbufType,
         ebuf' = [ebuf EXCEPT ![i] = nb]
  PROVE  /\ ebuf' \in [Bufs -> EbufType] /\ ebuf'[i] = nb
         /\ \A j \in Bufs : j # i => ebuf'[j] = ebuf[j]
  OBVIOUS

\* One of the two input buffers changes.
LEMMA InbufStep ==
  ASSUME inbuf \in [Bufs -> InbufType], NEW i \in Bufs, NEW nb \in InbufType,
         inbuf' = [inbuf EXCEPT ![i] = nb]
  PROVE  /\ inbuf' \in [Bufs -> InbufType] /\ inbuf'[i] = nb
         /\ \A j \in Bufs : j # i => inbuf'[j] = inbuf[j]
  OBVIOUS

\* The two buffers are each other's other.
LEMMA OtherBuffer ==
  ASSUME NEW i \in Bufs
  PROVE  /\ 1 - i \in Bufs /\ 1 - i # i
         /\ \A j \in Bufs : j = i \/ j = 1 - i
         /\ i = 0 \/ i = 1
  BY DEF Bufs

\* No two edge buffers are being filled, none two are being drained.
LEMMA EbufsDiffer ==
  ASSUME TypeInv, EbufInv, NEW s \in {"FILLING", "DRAINING"},
         NEW i \in Bufs, NEW j \in Bufs, ebuf[i].state = s, ebuf[j].state = s
  PROVE  i = j
<1>1. i \in {0, 1} /\ j \in {0, 1}
  BY DEF Bufs
<1>2. ebuf[i].edge_chunk_id = ebuf[j].edge_chunk_id
  BY DEF EbufInv, EbufOK
<1>3. ebuf[i].state # "IDLE" /\ ebuf[j].state # "IDLE"
  OBVIOUS
<1>. QED
  BY <1>1, <1>2, <1>3 DEF EbufInv

\* Nor two input buffers.
LEMMA InbufsDiffer ==
  ASSUME InbufInv, NEW s \in {"FILLING", "DRAINING"},
         NEW i \in Bufs, NEW j \in Bufs, inbuf[i].state = s, inbuf[j].state = s
  PROVE  i = j
<1>1. i \in {0, 1} /\ j \in {0, 1}
  BY DEF Bufs
<1>. QED
  BY <1>1 DEF InbufInv

\* Memory hands back the edges.
LEMMA ReturnEdgeStep == IInv /\ ReturnEdge => IInv'
<1>. SUFFICES ASSUME IInv, ReturnEdge PROVE IInv'
  OBVIOUS
<1>. PICK i, b : i = GetTargetBuf(ebuf, "FILLING") /\ b = ebuf[i]
  OBVIOUS
<1>. PICK cnt, s : /\ cnt = b.event_cnt - 1
                   /\ s = IF cnt = 0 THEN "READY" ELSE "FILLING"
  OBVIOUS
<1>. DEFINE nb == [b EXCEPT !.event_cnt = cnt, !.state = s]
<1>1. pending["EDGE"] > 0 /\ pending["EDGE"] \in Nat /\ "EDGE" \in DataType
  BY DEF ReturnEdge, IInv, TypeInv, DataType
<1>2. /\ i \in Bufs /\ b.state = "FILLING" /\ b \in EbufType
      /\ b.event_cnt = pending["EDGE"]
  <2>1. ~(\A k \in Bufs : ebuf[k].state # "FILLING")
    BY <1>1 DEF IInv, EventInv
  <2>2. i # None
    BY <2>1, TargetBuf DEF Bufs
  <2>3. i \in Bufs /\ b.state = "FILLING"
    BY <2>2, TargetBuf
  <2>. QED
    BY <2>3 DEF IInv, EventInv, TypeInv
<1>3. /\ nb \in EbufType /\ nb.event_cnt = cnt /\ nb.state = s
      /\ nb.start_vertex = b.start_vertex /\ nb.end_vertex = b.end_vertex
      /\ nb.edge_chunk_id = b.edge_chunk_id /\ nb.edge_part_cnt = b.edge_part_cnt
  <2>1. cnt \in Int /\ s \in BufState
    BY <1>2 DEF EbufType, BufState
  <2>. QED
    BY <1>2, <2>1 DEF EbufType
<1>4. ebuf' = [ebuf EXCEPT ![i] = nb]
  BY <1>2 DEF ReturnEdge, IInv, TypeInv
<1>. PICK c : c = nb
  OBVIOUS
<1>. HIDE DEF nb
<1>5. /\ ebuf' \in [Bufs -> EbufType] /\ ebuf'[i] = c
      /\ \A j \in Bufs : j # i => ebuf'[j] = ebuf[j]
  BY <1>2, <1>3, <1>4, EbufStep DEF IInv, TypeInv
<1>6. /\ pending' \in [DataType -> Nat] /\ pending'["EDGE"] = cnt
      /\ pending'["INPUT_FEATURE"] = pending["INPUT_FEATURE"]
      /\ pending'["AGGR_FEATURE"] = pending["AGGR_FEATURE"]
  <2>1. pending["EDGE"] + (-1) \in Nat /\ -1 \in Int
    BY <1>1
  <2>2. AddEvents("EDGE", -1)
    BY DEF ReturnEdge
  <2>3. /\ pending' \in [DataType -> Nat]
        /\ pending'["EDGE"] = pending["EDGE"] + (-1)
        /\ \A u \in DataType : u # "EDGE" => pending'[u] = pending[u]
    BY <1>1, <2>1, <2>2, EventsStep DEF IInv, TypeInv
  <2>. QED
    BY <1>1, <1>2, <2>3 DEF DataType
<1>7. /\ UNCHANGED <<pc, core, simds, inbuf, edge_chunk_cnt, event_out, event_in,
                     is_done, aggr_buf>>
      /\ pc = "return"
  BY DEF ReturnEdge
<1>8. TypeInv'
  BY <1>5, <1>6, <1>7 DEF IInv, TypeInv
<1>9. NextChunk' = NextChunk
  <2>1. Waiting(c) = 1 /\ Waiting(b) = 1
    BY <1>2, <1>3 DEF Waiting, Waits
  <2>. QED
    BY <1>2, <1>5, <1>7, <2>1, OtherBuffer DEF NextChunk, Bufs
<1>10. c.state \in {"READY", "FILLING"} /\ (c.state = "READY" <=> cnt = 0)
  BY <1>3
<1>11. EbufInv'
  <2>1. EbufOK(b, NextChunk, edge_chunk_cnt)
    BY <1>2 DEF IInv, EbufInv
  <2>2. EbufOK(c, NextChunk, edge_chunk_cnt)
    BY <1>2, <1>3, <1>10, <2>1 DEF EbufOK, HoldsChunk, Waits
  <2>3. \A e \in Bufs : EbufOK(ebuf'[e], NextChunk', edge_chunk_cnt')
    BY <1>5, <1>7, <1>9, <2>2 DEF IInv, EbufInv
  <2>4. \A e \in Bufs : /\ ebuf'[e].state = "IDLE" <=> ebuf[e].state = "IDLE"
                        /\ ebuf'[e].edge_chunk_id = ebuf[e].edge_chunk_id
    BY <1>2, <1>3, <1>5, <1>10
  <2>5. 0 \in Bufs /\ 1 \in Bufs
    BY DEF Bufs
  <2>. QED
    BY <2>3, <2>4, <2>5 DEF IInv, EbufInv
<1>12. \A e \in Bufs : /\ ebuf'[e].state = "DRAINING" <=> ebuf[e].state = "DRAINING"
                       /\ ebuf[e].state = "DRAINING" => ebuf'[e] = ebuf[e]
  BY <1>2, <1>5, <1>10
<1>13. RingInv'
  BY <1>7, <1>9, <1>12 DEF IInv, RingInv
<1>14. InbufInv'
  BY <1>7, <1>12 DEF IInv, InbufInv, PartOf
<1>15. CoreInv' /\ TaskInv'
  BY <1>7 DEF IInv, CoreInv, CoreOK, TaskInv, BusyOn
<1>16. PartInv'
  BY <1>7, <1>12 DEF IInv, PartInv
<1>17. EventInv'
  <2>1. \A e \in Bufs : e # i => ebuf[e].state # "FILLING"
    BY <1>2, EbufsDiffer DEF IInv
  <2>2. \A e \in Bufs : ebuf'[e].state = "FILLING" => e = i
    BY <1>5, <2>1
  <2>3. \A e \in Bufs :
          ebuf'[e].state = "FILLING" => ebuf'[e].event_cnt = pending'["EDGE"]
    BY <1>3, <1>5, <1>6, <2>2
  <2>4. ebuf'[i].state # "FILLING" => pending'["EDGE"] = 0
    BY <1>5, <1>6, <1>10
  <2>. QED
    BY <1>2, <1>6, <1>7, <2>3, <2>4 DEF IInv, EventInv
<1>18. DoneInv'
  <2>1. ~is_done
    BY <1>2 DEF IInv, DoneInv, NothingLeft, AllBufIdle
  <2>. QED
    BY <1>7, <2>1 DEF DoneInv
<1>. QED
  BY <1>8, <1>11, <1>13, <1>14, <1>15, <1>16, <1>17, <1>18 DEF IInv

\* Steps that do not touch the cores nor the buffer they work on.
LEMMA CoresKept ==
  ASSUME CoreInv, TaskInv, UNCHANGED simds,
         \A j \in Bufs : /\ inbuf[j].state = "DRAINING" => inbuf'[j] = inbuf[j]
                         /\ inbuf'[j].state = "DRAINING" => inbuf[j].state = "DRAINING"
  PROVE  CoreInv' /\ TaskInv'
<1>1. \A i \in Bufs : BusyOn(i)' = BusyOn(i)
  BY DEF BusyOn
<1>2. TaskInv'
  <2>. SUFFICES ASSUME NEW i \in Bufs, inbuf'[i].state = "DRAINING"
                PROVE  inbuf'[i].event_cnt =
                         Cardinality(BusyOn(i)') + TasksLeft(inbuf'[i])
    BY DEF TaskInv
  <2>1. inbuf'[i] = inbuf[i] /\ inbuf[i].state = "DRAINING"
    OBVIOUS
  <2>. QED
    BY <1>1, <2>1 DEF TaskInv
<1>3. CoreInv'
  BY DEF CoreInv, CoreOK
<1>. QED
  BY <1>2, <1>3

\* Memory hands back a neighbour's features.
LEMMA ReturnInputStep == IInv /\ ReturnInput => IInv'
<1>. SUFFICES ASSUME IInv, ReturnInput PROVE IInv'
  OBVIOUS
<1>. PICK i, b : i = GetTargetBuf(inbuf, "FILLING") /\ b = inbuf[i]
  OBVIOUS
<1>. PICK cnt, s, v : /\ cnt = b.event_cnt - 1
                      /\ s = IF cnt = 0 THEN "READY" ELSE "FILLING"
                      /\ v = IF cnt = 0 THEN b.start_vertex ELSE b.vertex_ptr
  OBVIOUS
<1>. DEFINE nb == [b EXCEPT !.event_cnt = cnt, !.state = s, !.vertex_ptr = v]
<1>1. /\ pending["INPUT_FEATURE"] > 0 /\ pending["INPUT_FEATURE"] \in Nat
      /\ "INPUT_FEATURE" \in DataType
  BY DEF ReturnInput, IInv, TypeInv, DataType
<1>2. /\ i \in Bufs /\ b.state = "FILLING" /\ b \in InbufType
      /\ b.event_cnt = pending["INPUT_FEATURE"]
  <2>1. ~(\A k \in Bufs : inbuf[k].state # "FILLING")
    BY <1>1 DEF IInv, EventInv
  <2>2. i # None
    BY <2>1, TargetBuf DEF Bufs
  <2>3. i \in Bufs /\ b.state = "FILLING"
    BY <2>2, TargetBuf
  <2>. QED
    BY <2>3 DEF IInv, EventInv, TypeInv
<1>3. /\ nb \in InbufType /\ nb.event_cnt = cnt /\ nb.state = s /\ nb.vertex_ptr = v
      /\ nb.start_vertex = b.start_vertex /\ nb.end_vertex = b.end_vertex
      /\ nb.ebuf_ptr = b.ebuf_ptr /\ nb.input_edge = b.input_edge
      /\ nb.feature_chunk_cnt = b.feature_chunk_cnt
      /\ nb.non_empty_vertex = b.non_empty_vertex
  <2>1. cnt \in Int /\ s \in BufState /\ v \in Int
    BY <1>2 DEF InbufType, BufState
  <2>. QED
    BY <1>2, <2>1 DEF InbufType
<1>4. inbuf' = [inbuf EXCEPT ![i] = nb]
  BY <1>2 DEF ReturnInput, IInv, TypeInv
<1>. PICK c : c = nb
  OBVIOUS
<1>. HIDE DEF nb
<1>5. /\ inbuf' \in [Bufs -> InbufType] /\ inbuf'[i] = c
      /\ \A j \in Bufs : j # i => inbuf'[j] = inbuf[j]
  BY <1>2, <1>3, <1>4, InbufStep DEF IInv, TypeInv
<1>6. /\ pending' \in [DataType -> Nat] /\ pending'["INPUT_FEATURE"] = cnt
      /\ pending'["EDGE"] = pending["EDGE"]
      /\ pending'["AGGR_FEATURE"] = pending["AGGR_FEATURE"]
  <2>1. pending["INPUT_FEATURE"] + (-1) \in Nat /\ -1 \in Int
    BY <1>1
  <2>2. AddEvents("INPUT_FEATURE", -1)
    BY DEF ReturnInput
  <2>3. /\ pending' \in [DataType -> Nat]
        /\ pending'["INPUT_FEATURE"] = pending["INPUT_FEATURE"] + (-1)
        /\ \A u \in DataType : u # "INPUT_FEATURE" => pending'[u] = pending[u]
    BY <1>1, <2>1, <2>2, EventsStep DEF IInv, TypeInv
  <2>. QED
    BY <1>1, <1>2, <2>3 DEF DataType
<1>7. /\ UNCHANGED <<pc, core, simds, ebuf, edge_chunk_cnt, event_out, event_in,
                     is_done, aggr_buf>>
      /\ pc = "return"
  BY DEF ReturnInput
<1>8. TypeInv'
  BY <1>5, <1>6, <1>7 DEF IInv, TypeInv
<1>9. EbufInv' /\ RingInv'
  BY <1>7 DEF IInv, EbufInv, RingInv, NextChunk
<1>10. c.state \in {"READY", "FILLING"} /\ (c.state = "READY" <=> cnt = 0)
  BY <1>3
<1>11. \A j \in Bufs : j # i => inbuf[j].state # "FILLING"
  BY <1>2, InbufsDiffer DEF IInv
<1>12. InbufInv'
  <2>1. \A j \in Bufs :
          /\ inbuf'[j].state = "IDLE" => inbuf'[j] = IdleInbuf(0)
          /\ inbuf'[j].state # "IDLE" =>
               /\ inbuf'[j].ebuf_ptr \in Bufs
               /\ PartOf(inbuf'[j], ebuf'[inbuf'[j].ebuf_ptr])
    <3>1. b.ebuf_ptr \in Bufs /\ PartOf(b, ebuf[b.ebuf_ptr])
      BY <1>2 DEF IInv, InbufInv
    <3>2. c.ebuf_ptr \in Bufs /\ PartOf(c, ebuf[c.ebuf_ptr])
      BY <1>3, <3>1 DEF PartOf
    <3>3. c.state # "IDLE"
      BY <1>10
    <3>. QED
      BY <1>5, <1>7, <3>2, <3>3 DEF IInv, InbufInv
  <2>2. \A j \in Bufs :
          /\ inbuf'[j].state = "FILLING" => inbuf'[j].feature_chunk_cnt = 0
          /\ inbuf'[j].state = "READY" =>
               /\ inbuf'[j].feature_chunk_cnt = 0
               /\ inbuf'[j].vertex_ptr = inbuf'[j].start_vertex
          /\ inbuf'[j].state = "DRAINING" => TaskPtrOK(inbuf'[j])
    BY <1>2, <1>3, <1>5, <1>10 DEF IInv, InbufInv
  <2>3. \A s0 \in {"FILLING", "DRAINING"} :
          ~(inbuf'[0].state = s0 /\ inbuf'[1].state = s0)
    BY <1>2, <1>5, <1>10, <1>11, OtherBuffer DEF IInv, InbufInv, Bufs
  <2>. QED
    BY <2>1, <2>2, <2>3 DEF InbufInv
<1>13. CoreInv' /\ TaskInv'
  BY <1>2, <1>5, <1>7, <1>10, CoresKept DEF IInv
<1>14. PartInv'
  <2>1. \A j \in Bufs : inbuf'[j].ebuf_ptr = inbuf[j].ebuf_ptr
    BY <1>3, <1>5
  <2>2. 0 \in Bufs /\ 1 \in Bufs
    BY DEF Bufs
  <2>3. \A e : On(inbuf'[0], e) = On(inbuf[0], e) /\ On(inbuf'[1], e) = On(inbuf[1], e)
    BY <2>1, <2>2 DEF On
  <2>. QED
    BY <1>7, <2>3 DEF IInv, PartInv
<1>15. EventInv'
  <2>1. \A j \in Bufs : inbuf'[j].state = "FILLING" => j = i
    BY <1>5, <1>11
  <2>2. \A j \in Bufs :
          inbuf'[j].state = "FILLING" => inbuf'[j].event_cnt = pending'["INPUT_FEATURE"]
    BY <1>3, <1>5, <1>6, <2>1
  <2>3. inbuf'[i].state # "FILLING" => pending'["INPUT_FEATURE"] = 0
    BY <1>5, <1>6, <1>10
  <2>. QED
    BY <1>2, <1>6, <1>7, <2>2, <2>3 DEF IInv, EventInv
<1>16. DoneInv'
  <2>1. ~is_done
    BY <1>2 DEF IInv, DoneInv, NothingLeft, AllBufIdle
  <2>. QED
    BY <1>7, <2>1 DEF DoneInv
<1>. QED
  BY <1>8, <1>9, <1>12, <1>13, <1>14, <1>15, <1>16 DEF IInv

\* Memory confirms a read or a write of a slice.
LEMMA ReturnAggrStep == IInv /\ ReturnAggr => IInv'
<1>. SUFFICES ASSUME IInv, ReturnAggr PROVE IInv'
  OBVIOUS
<1>1. /\ pending["AGGR_FEATURE"] > 0 /\ pending["AGGR_FEATURE"] \in Nat
      /\ "AGGR_FEATURE" \in DataType
  BY DEF ReturnAggr, IInv, TypeInv, DataType
<1>2. /\ pending' \in [DataType -> Nat]
      /\ pending'["AGGR_FEATURE"] = pending["AGGR_FEATURE"] - 1
      /\ pending'["EDGE"] = pending["EDGE"]
      /\ pending'["INPUT_FEATURE"] = pending["INPUT_FEATURE"]
  <2>1. pending["AGGR_FEATURE"] + (-1) \in Nat /\ -1 \in Int
    BY <1>1
  <2>2. AddEvents("AGGR_FEATURE", -1)
    BY DEF ReturnAggr
  <2>3. /\ pending' \in [DataType -> Nat]
        /\ pending'["AGGR_FEATURE"] = pending["AGGR_FEATURE"] + (-1)
        /\ \A u \in DataType : u # "AGGR_FEATURE" => pending'[u] = pending[u]
    BY <1>1, <2>1, <2>2, EventsStep DEF IInv, TypeInv
  <2>. QED
    BY <1>1, <2>3 DEF DataType
<1>3. /\ UNCHANGED <<pc, core, simds, ebuf, inbuf, edge_chunk_cnt, event_out,
                     is_done, aggr_buf>>
      /\ pc = "return" /\ event_in' = event_in + 1
  BY DEF ReturnAggr
<1>4. event_in \in Nat /\ event_out = event_in + pending["AGGR_FEATURE"]
  BY DEF IInv, TypeInv, EventInv
<1>5. TypeInv'
  BY <1>2, <1>3, <1>4 DEF IInv, TypeInv
<1>6. EbufInv' /\ RingInv' /\ InbufInv' /\ PartInv'
  BY <1>3 DEF IInv, EbufInv, RingInv, InbufInv, PartInv, NextChunk
<1>7. CoreInv' /\ TaskInv'
  BY <1>3, CoresKept DEF IInv
<1>8. event_out' = event_in' + pending'["AGGR_FEATURE"]
  BY <1>1, <1>2, <1>3, <1>4
<1>9. EventInv'
  BY <1>2, <1>3, <1>8 DEF IInv, EventInv
<1>10. DoneInv'
  <2>1. ~is_done
    BY <1>1, <1>4 DEF IInv, DoneInv, NothingLeft
  <2>. QED
    BY <1>3, <2>1 DEF DoneInv
<1>. QED
  BY <1>5, <1>6, <1>7, <1>9, <1>10 DEF IInv

\* A core works on, or is idle.
LEMMA SimdComputesStep == IInv /\ SimdComputes => IInv'
<1>. SUFFICES ASSUME IInv, SimdComputes PROVE IInv'
  OBVIOUS
<1>1. /\ core \in Simds /\ num_simd \in Nat \ {0} /\ core \in Nat
  BY AggrAssumption DEF IInv, TypeInv, Simds
<1>2. core' \in Simds /\ pc' \in {"edge", "simd"} /\ pc = "simd"
  BY <1>1 DEF SimdComputes, NextCore, Simds
<1>3. simds \in [Simds -> SimdType]
  BY DEF IInv, TypeInv
<1>4. /\ simds' \in [Simds -> SimdType]
      /\ \A k \in Simds : /\ simds'[k].state = simds[k].state
                          /\ simds'[k].vertex_id = simds[k].vertex_id
                          /\ simds'[k].feature_chunk_id = simds[k].feature_chunk_id
                          /\ simds'[k].inbuf_ptr = simds[k].inbuf_ptr
  <2>1. CASE simds' = simds
    BY <1>3, <2>1
  <2>2. CASE simds' = [simds EXCEPT ![core].depth = @ - 1]
    <3>. PICK b, d : b = simds[core] /\ d = b.depth - 1
      OBVIOUS
    <3>. PICK c : c = [b EXCEPT !.depth = d]
      OBVIOUS
    <3>1. b \in SimdType /\ d \in Int
      BY <1>1, <1>3 DEF SimdType
    <3>2. /\ c \in SimdType /\ c.state = b.state /\ c.vertex_id = b.vertex_id
          /\ c.feature_chunk_id = b.feature_chunk_id /\ c.inbuf_ptr = b.inbuf_ptr
      BY <3>1 DEF SimdType
    <3>3. simds' = [simds EXCEPT ![core] = c]
      BY <1>1, <1>3, <2>2, <3>1 DEF SimdType
    <3>. QED
      BY <1>1, <1>3, <3>2, <3>3
  <2>. QED
    BY <2>1, <2>2 DEF SimdComputes
<1>5. UNCHANGED <<ebuf, inbuf, edge_chunk_cnt, event_out, event_in, is_done,
                  aggr_buf, pending>>
  BY DEF SimdComputes
<1>6. TypeInv'
  BY <1>2, <1>4, <1>5 DEF IInv, TypeInv, PC
<1>7. EbufInv' /\ RingInv' /\ InbufInv' /\ PartInv' /\ EventInv'
  BY <1>5 DEF IInv, EbufInv, RingInv, InbufInv, PartInv, EventInv, NextChunk
<1>8. CoreInv'
  BY <1>4, <1>5 DEF IInv, CoreInv, CoreOK
<1>9. TaskInv'
  <2>1. \A i : BusyOn(i)' = BusyOn(i)
    BY <1>4 DEF BusyOn
  <2>. QED
    BY <1>5, <2>1 DEF IInv, TaskInv
<1>10. DoneInv'
  BY <1>2, <1>5 DEF IInv, DoneInv, NothingLeft, AllBufIdle
<1>. QED
  BY <1>6, <1>7, <1>8, <1>9, <1>10 DEF IInv

\* The edges of the next chunk are asked for.
LEMMA FetchEdgesStep == IInv /\ FetchEdges => IInv'
<1>. SUFFICES ASSUME IInv, FetchEdges PROVE IInv'
  OBVIOUS
<1>. PICK i, b, n : /\ i = GetTargetBuf(ebuf, "IDLE") /\ b = ebuf[i]
                    /\ n = edge_chunk_cnt
  OBVIOUS
<1>. DEFINE nb == [b EXCEPT !.state = "FILLING", !.event_cnt = 1, !.edge_chunk_id = n,
                            !.start_vertex = start_vertex_of_echunk[n],
                            !.end_vertex = end_vertex_of_echunk[n]]
<1>1. /\ i \in Bufs /\ b.state = "IDLE" /\ b \in EbufType
      /\ b.event_cnt = 0 /\ b.edge_part_cnt = 0
  <2>1. i # None
    BY DEF FetchEdges, CanFetchEdges
  <2>2. i \in Bufs /\ b.state = "IDLE"
    BY <2>1, TargetBuf
  <2>. QED
    BY <2>2 DEF IInv, EbufInv, EbufOK, TypeInv
<1>2. \A j \in Bufs : ebuf[j].state # "FILLING"
  BY TargetBuf DEF FetchEdges, CanFetchEdges, Bufs
<1>3. n \in Chunks /\ n \in Nat /\ n + 1 \in 0..num_edge_chunk /\ n # num_edge_chunk
  BY AggrAssumption DEF IInv, TypeInv, FetchEdges, CanFetchEdges, Chunks
<1>4. /\ nb \in EbufType /\ nb.state = "FILLING" /\ nb.event_cnt = 1
      /\ nb.edge_chunk_id = n /\ nb.edge_part_cnt = 0
      /\ nb.start_vertex = start_vertex_of_echunk[n]
      /\ nb.end_vertex = end_vertex_of_echunk[n]
  <2>. PICK v, w : v = start_vertex_of_echunk[n] /\ w = end_vertex_of_echunk[n]
    OBVIOUS
  <2>1. v \in Int /\ w \in Int /\ n \in Int /\ 1 \in Int
    BY <1>3, AggrAssumption
  <2>2. nb = [b EXCEPT !.state = "FILLING", !.event_cnt = 1, !.edge_chunk_id = n,
                       !.start_vertex = v, !.end_vertex = w]
    OBVIOUS
  <2>3. "FILLING" \in BufState
    BY DEF BufState
  <2>. HIDE DEF nb
  <2>4. /\ nb.state = "FILLING" /\ nb.event_cnt = 1 /\ nb.edge_chunk_id = n
        /\ nb.start_vertex = v /\ nb.end_vertex = w
        /\ nb.edge_part_cnt = b.edge_part_cnt
    BY <1>1, <2>2 DEF EbufType
  <2>5. nb \in EbufType
    BY <1>1, <2>1, <2>2, <2>3 DEF EbufType
  <2>. QED
    BY <1>1, <2>4, <2>5
<1>5. ebuf' = [ebuf EXCEPT ![i] = nb]
  BY <1>1 DEF FetchEdges, IInv, TypeInv
<1>. PICK c : c = nb
  OBVIOUS
<1>. HIDE DEF nb
<1>6. /\ ebuf' \in [Bufs -> EbufType] /\ ebuf'[i] = c
      /\ \A j \in Bufs : j # i => ebuf'[j] = ebuf[j]
  BY <1>1, <1>4, <1>5, EbufStep DEF IInv, TypeInv
<1>7. pending["EDGE"] = 0
  BY <1>2 DEF IInv, EventInv
<1>8. /\ pending' \in [DataType -> Nat] /\ pending'["EDGE"] = 1
      /\ pending'["INPUT_FEATURE"] = pending["INPUT_FEATURE"]
      /\ pending'["AGGR_FEATURE"] = pending["AGGR_FEATURE"]
  <2>1. pending["EDGE"] + 1 \in Nat /\ 1 \in Int /\ "EDGE" \in DataType
    BY <1>7 DEF DataType
  <2>2. AddEvents("EDGE", 1)
    BY DEF FetchEdges
  <2>3. /\ pending' \in [DataType -> Nat]
        /\ pending'["EDGE"] = pending["EDGE"] + 1
        /\ \A u \in DataType : u # "EDGE" => pending'[u] = pending[u]
    BY <2>1, <2>2, EventsStep DEF IInv, TypeInv
  <2>. QED
    BY <1>7, <2>3 DEF DataType
<1>9. /\ UNCHANGED <<core, simds, inbuf, event_out, event_in, is_done, aggr_buf>>
      /\ pc' = "input" /\ edge_chunk_cnt' = n + 1 /\ ~is_done
  BY DEF FetchEdges
<1>10. TypeInv'
  BY <1>3, <1>6, <1>8, <1>9 DEF IInv, TypeInv, PC
<1>11. NextChunk' = NextChunk
  <2>1. Waiting(c) = 1 /\ Waiting(b) = 0
    BY <1>1, <1>4 DEF Waiting, Waits
  <2>2. /\ Waiting(ebuf[0]) \in Nat /\ Waiting(ebuf[1]) \in Nat
    BY DEF Waiting
  <2>3. CASE i = 0
    <3>1. ebuf'[0] = c /\ ebuf'[1] = ebuf[1]
      BY <1>6, <2>3 DEF Bufs
    <3>. QED
      BY <1>3, <1>9, <2>1, <2>2, <2>3, <3>1 DEF NextChunk
  <2>4. CASE i = 1
    <3>1. ebuf'[1] = c /\ ebuf'[0] = ebuf[0]
      BY <1>6, <2>4 DEF Bufs
    <3>. QED
      BY <1>3, <1>9, <2>1, <2>2, <2>4, <3>1 DEF NextChunk
  <2>. QED
    BY <1>1, <2>3, <2>4, OtherBuffer
<1>12. NextChunk <= n /\ NextChunk \in Int
  BY <1>3 DEF NextChunk, Waiting
<1>13. \A j \in Bufs : j # i =>
         /\ EbufOK(ebuf[j], NextChunk, n)
         /\ ebuf[j].edge_chunk_id < n \/ ebuf[j].state = "IDLE"
  <2>. SUFFICES ASSUME NEW j \in Bufs, j # i
                PROVE  /\ EbufOK(ebuf[j], NextChunk, n)
                       /\ ebuf[j].edge_chunk_id < n \/ ebuf[j].state = "IDLE"
    OBVIOUS
  <2>1. EbufOK(ebuf[j], NextChunk, n) /\ ebuf[j].state \in BufState
    BY DEF IInv, EbufInv, TypeInv, EbufType
  <2>. QED
    BY <1>3, <1>12, <2>1 DEF EbufOK, Waits, BufState
<1>14. EbufInv'
  <2>1. EbufOK(c, NextChunk, n + 1)
    BY <1>3, <1>4, <1>12 DEF EbufOK, HoldsChunk, Waits
  <2>2. \A j \in Bufs : j # i => EbufOK(ebuf[j], NextChunk, n + 1)
    <3>. SUFFICES ASSUME NEW j \in Bufs, j # i
                  PROVE  EbufOK(ebuf[j], NextChunk, n + 1)
      OBVIOUS
    <3>1. ebuf[j].edge_chunk_id \in Int
      BY DEF IInv, TypeInv, EbufType
    <3>. QED
      BY <1>2, <1>3, <1>13, <3>1 DEF EbufOK, HoldsChunk, Waits
  <2>3. \A e \in Bufs : EbufOK(ebuf'[e], NextChunk', edge_chunk_cnt')
    BY <1>6, <1>9, <1>11, <2>1, <2>2
  <2>4. \A j \in Bufs : j # i /\ ebuf'[j].state # "IDLE" => ebuf'[j].edge_chunk_id # n
    BY <1>3, <1>6, <1>13
  <2>5. ebuf'[i].edge_chunk_id = n
    BY <1>4, <1>6
  <2>6. 0 \in Bufs /\ 1 \in Bufs /\ 0 # 1
    BY DEF Bufs
  <2>7. ebuf'[0].state # "IDLE" /\ ebuf'[1].state # "IDLE" =>
          ebuf'[0].edge_chunk_id # ebuf'[1].edge_chunk_id
    BY <1>1, <2>4, <2>5, <2>6, OtherBuffer
  <2>. QED
    BY <2>3, <2>7 DEF EbufInv
<1>15. \A e \in Bufs : /\ ebuf'[e].state = "DRAINING" <=> ebuf[e].state = "DRAINING"
                       /\ ebuf[e].state = "DRAINING" => ebuf'[e] = ebuf[e]
  BY <1>1, <1>4, <1>6
<1>16. RingInv'
  BY <1>9, <1>11, <1>15 DEF IInv, RingInv
<1>17. InbufInv'
  BY <1>9, <1>15 DEF IInv, InbufInv, PartOf
<1>18. CoreInv' /\ TaskInv'
  BY <1>9, CoresKept DEF IInv
<1>19. PartInv'
  BY <1>9, <1>15 DEF IInv, PartInv
<1>20. EventInv'
  <2>1. \A e \in Bufs :
          ebuf'[e].state = "FILLING" => ebuf'[e].event_cnt = pending'["EDGE"]
    BY <1>2, <1>4, <1>6, <1>8
  <2>2. ebuf'[i].state = "FILLING"
    BY <1>4, <1>6
  <2>. QED
    BY <1>1, <1>8, <1>9, <2>1, <2>2 DEF IInv, EventInv
<1>21. DoneInv'
  BY <1>1, <1>4, <1>6, <1>9 DEF DoneInv
<1>. QED
  BY <1>10, <1>14, <1>16, <1>17, <1>18, <1>19, <1>20, <1>21 DEF IInv

\* The cores are given the next input buffer; none of them is at work.
LEMMA StartDrainingStep == IInv /\ StartDraining => IInv'
<1>. SUFFICES ASSUME IInv, StartDraining PROVE IInv'
  OBVIOUS
<1>. PICK i, b, t : i = GetTargetBuf(inbuf, "READY") /\ b = inbuf[i] /\ t = Tasks(b)
  OBVIOUS
<1>. DEFINE nb == [b EXCEPT !.event_cnt = t, !.state = "DRAINING"]
<1>1. /\ i \in Bufs /\ b.state = "READY" /\ b \in InbufType
      /\ b.feature_chunk_cnt = 0 /\ b.vertex_ptr = b.start_vertex
      /\ b.ebuf_ptr \in Bufs /\ PartOf(b, ebuf[b.ebuf_ptr])
  <2>1. i # None
    BY DEF StartDraining
  <2>2. i \in Bufs /\ b.state = "READY"
    BY <2>1, TargetBuf
  <2>. QED
    BY <2>2 DEF IInv, InbufInv, TypeInv
<1>2. \A j \in Bufs : inbuf[j].state # "DRAINING"
  BY TargetBuf DEF StartDraining, Bufs
<1>3. t \in Int
  BY <1>1, AggrAssumption DEF Tasks, InbufType
<1>4. /\ nb \in InbufType /\ nb.event_cnt = t /\ nb.state = "DRAINING"
      /\ nb.vertex_ptr = b.start_vertex
      /\ nb.start_vertex = b.start_vertex /\ nb.end_vertex = b.end_vertex
      /\ nb.ebuf_ptr = b.ebuf_ptr /\ nb.input_edge = b.input_edge
      /\ nb.feature_chunk_cnt = 0
      /\ nb.non_empty_vertex = b.non_empty_vertex
  BY <1>1, <1>3 DEF InbufType, BufState
<1>5. inbuf' = [inbuf EXCEPT ![i] = nb]
  BY <1>1 DEF StartDraining, IInv, TypeInv
<1>. PICK c : c = nb
  OBVIOUS
<1>. HIDE DEF nb
<1>6. /\ inbuf' \in [Bufs -> InbufType] /\ inbuf'[i] = c
      /\ \A j \in Bufs : j # i => inbuf'[j] = inbuf[j]
  BY <1>1, <1>4, <1>5, InbufStep DEF IInv, TypeInv
<1>7. /\ UNCHANGED <<core, simds, ebuf, edge_chunk_cnt, event_out, event_in,
                     is_done, aggr_buf, pending>>
      /\ pc = "drain" /\ pc' = "dispatch"
  BY DEF StartDraining
<1>8. TypeInv'
  BY <1>6, <1>7 DEF IInv, TypeInv, PC
<1>9. EbufInv' /\ RingInv'
  BY <1>7 DEF IInv, EbufInv, RingInv, NextChunk
<1>10. PartOf(c, ebuf[c.ebuf_ptr]) /\ c.ebuf_ptr \in Bufs
  BY <1>1, <1>4 DEF PartOf
<1>11. TaskPtrOK(c)
  <2>1. c.end_vertex - c.start_vertex \in 1..Len(c.input_edge)
    BY <1>4, <1>10, NonEmptyFinite DEF PartOf, InbufType
  <2>. QED
    BY <1>4, <2>1, AggrAssumption, SMTT(30) DEF TaskPtrOK, InbufType
<1>12. InbufInv'
  <2>1. \A j \in Bufs :
          /\ inbuf'[j].state = "IDLE" => inbuf'[j] = IdleInbuf(0)
          /\ inbuf'[j].state # "IDLE" =>
               /\ inbuf'[j].ebuf_ptr \in Bufs
               /\ PartOf(inbuf'[j], ebuf'[inbuf'[j].ebuf_ptr])
    BY <1>4, <1>6, <1>7, <1>10 DEF IInv, InbufInv
  <2>2. \A j \in Bufs :
          /\ inbuf'[j].state = "FILLING" => inbuf'[j].feature_chunk_cnt = 0
          /\ inbuf'[j].state = "READY" =>
               /\ inbuf'[j].feature_chunk_cnt = 0
               /\ inbuf'[j].vertex_ptr = inbuf'[j].start_vertex
          /\ inbuf'[j].state = "DRAINING" => TaskPtrOK(inbuf'[j])
    BY <1>4, <1>6, <1>11 DEF IInv, InbufInv
  <2>3. \A s \in {"FILLING", "DRAINING"} :
          ~(inbuf'[0].state = s /\ inbuf'[1].state = s)
    BY <1>1, <1>2, <1>4, <1>6, OtherBuffer DEF IInv, InbufInv, Bufs
  <2>. QED
    BY <2>1, <2>2, <2>3 DEF InbufInv
<1>13. \A k \in Simds : simds[k].state # "COMPUTING"
  BY <1>2 DEF IInv, CoreInv, CoreOK
<1>14. CoreInv'
  BY <1>7, <1>13 DEF CoreInv
<1>15. TaskInv'
  <2>1. \A j : BusyOn(j)' = {}
    BY <1>7, <1>13 DEF BusyOn
  <2>2. Cardinality({}) = 0
    BY FS_EmptySet
  <2>3. TasksLeft(c) = Tasks(c)
    BY <1>4, <1>10, TasksAtStart DEF PartOf
  <2>4. Tasks(c) = t
    BY <1>4 DEF Tasks
  <2>5. c.event_cnt = 0 + TasksLeft(c)
    BY <1>3, <1>4, <2>3, <2>4
  <2>6. \A j \in Bufs : inbuf'[j].state = "DRAINING" => j = i
    BY <1>2, <1>6
  <2>. QED
    BY <1>6, <2>1, <2>2, <2>5, <2>6 DEF TaskInv
<1>16. PartInv'
  <2>1. \A j \in Bufs : inbuf'[j].ebuf_ptr = inbuf[j].ebuf_ptr
    BY <1>4, <1>6
  <2>2. 0 \in Bufs /\ 1 \in Bufs
    BY DEF Bufs
  <2>3. \A e : On(inbuf'[0], e) = On(inbuf[0], e) /\ On(inbuf'[1], e) = On(inbuf[1], e)
    BY <2>1, <2>2 DEF On
  <2>. QED
    BY <1>7, <2>3 DEF IInv, PartInv
<1>17. EventInv'
  <2>1. \A j \in Bufs : /\ inbuf'[j].state = "FILLING" <=> inbuf[j].state = "FILLING"
                        /\ inbuf'[j].state = "FILLING" => inbuf'[j] = inbuf[j]
    BY <1>1, <1>4, <1>6
  <2>. QED
    BY <1>7, <2>1 DEF IInv, EventInv
<1>18. DoneInv'
  <2>1. ~is_done
    BY <1>1 DEF IInv, DoneInv, NothingLeft, AllBufIdle
  <2>. QED
    BY <1>7, <2>1 DEF IInv, DoneInv
<1>. QED
  BY <1>8, <1>9, <1>12, <1>14, <1>15, <1>16, <1>17, <1>18 DEF IInv

\* The next task of the buffer being drained moves on; its rows and its
\* counter stay.
LEMMA TaskMoves ==
  ASSUME IInv, UNCHANGED ebuf, NEW i \in Bufs, inbuf[i].state = "DRAINING",
         NEW c \in InbufType, TaskPtrOK(c), c.state = "DRAINING",
         c.start_vertex = inbuf[i].start_vertex, c.end_vertex = inbuf[i].end_vertex,
         c.ebuf_ptr = inbuf[i].ebuf_ptr, c.input_edge = inbuf[i].input_edge,
         c.non_empty_vertex = inbuf[i].non_empty_vertex,
         inbuf' = [inbuf EXCEPT ![i] = c]
  PROVE  /\ inbuf' \in [Bufs -> InbufType] /\ inbuf'[i] = c
         /\ \A j \in Bufs : j # i => inbuf'[j] = inbuf[j] /\ inbuf[j].state # "DRAINING"
         /\ InbufInv' /\ PartInv'
         /\ \A j \in Bufs : inbuf'[j].state = inbuf[j].state
<1>1. /\ inbuf' \in [Bufs -> InbufType] /\ inbuf'[i] = c
      /\ \A j \in Bufs : j # i => inbuf'[j] = inbuf[j]
  BY InbufStep DEF IInv, TypeInv
<1>2. \A j \in Bufs : j # i => inbuf[j].state # "DRAINING"
  BY InbufsDiffer DEF IInv
<1>3. \A j \in Bufs : /\ inbuf'[j].state = inbuf[j].state
                      /\ inbuf'[j].ebuf_ptr = inbuf[j].ebuf_ptr
  BY <1>1
<1>4. 0 \in Bufs /\ 1 \in Bufs
  BY DEF Bufs
<1>5. c.ebuf_ptr \in Bufs /\ PartOf(c, ebuf[c.ebuf_ptr])
  <2>1. inbuf[i].ebuf_ptr \in Bufs /\ PartOf(inbuf[i], ebuf[inbuf[i].ebuf_ptr])
    BY DEF IInv, InbufInv
  <2>. QED
    BY <2>1 DEF PartOf
<1>6. InbufInv'
  <2>1. \A j \in Bufs :
          /\ inbuf'[j].state = "IDLE" => inbuf'[j] = IdleInbuf(0)
          /\ inbuf'[j].state # "IDLE" =>
               /\ inbuf'[j].ebuf_ptr \in Bufs
               /\ PartOf(inbuf'[j], ebuf'[inbuf'[j].ebuf_ptr])
    BY <1>1, <1>5 DEF IInv, InbufInv
  <2>2. \A j \in Bufs :
          /\ inbuf'[j].state = "FILLING" => inbuf'[j].feature_chunk_cnt = 0
          /\ inbuf'[j].state = "READY" =>
               /\ inbuf'[j].feature_chunk_cnt = 0
               /\ inbuf'[j].vertex_ptr = inbuf'[j].start_vertex
          /\ inbuf'[j].state = "DRAINING" => TaskPtrOK(inbuf'[j])
    BY <1>1 DEF IInv, InbufInv
  <2>3. \A s \in {"FILLING", "DRAINING"} :
          ~(inbuf'[0].state = s /\ inbuf'[1].state = s)
    BY <1>3, <1>4 DEF IInv, InbufInv
  <2>. QED
    BY <2>1, <2>2, <2>3 DEF InbufInv
<1>7. PartInv'
  <2>1. \A e : On(inbuf'[0], e) = On(inbuf[0], e) /\ On(inbuf'[1], e) = On(inbuf[1], e)
    BY <1>3, <1>4 DEF On
  <2>. QED
    BY <2>1 DEF IInv, PartInv
<1>. QED
  BY <1>1, <1>2, <1>3, <1>6, <1>7

\* What is known of the buffer that tasks are taken from.
LEMMA DrainingBuffer ==
  ASSUME IInv, MoreTasks
  PROVE  /\ Draining \in Bufs /\ inbuf[Draining].state = "DRAINING"
         /\ inbuf[Draining] \in InbufType /\ TaskPtrOK(inbuf[Draining])
         /\ inbuf[Draining].vertex_ptr < inbuf[Draining].end_vertex
         /\ inbuf[Draining].end_vertex - inbuf[Draining].start_vertex
              \in NonEmpty(inbuf[Draining].input_edge)
         /\ ~is_done
<1>1. Draining \in Bufs /\ inbuf[Draining].state = "DRAINING"
  BY TargetBuf DEF MoreTasks, Draining
<1>2. inbuf[Draining] \in InbufType /\ TaskPtrOK(inbuf[Draining])
  BY <1>1 DEF IInv, TypeInv, InbufInv
<1>3. PartOf(inbuf[Draining], ebuf[inbuf[Draining].ebuf_ptr])
  BY <1>1 DEF IInv, InbufInv
<1>4. ~is_done
  BY <1>1 DEF IInv, DoneInv, NothingLeft, AllBufIdle
<1>. QED
  BY <1>1, <1>2, <1>3, <1>4 DEF PartOf, MoreTasks

\* A vertex without edges is passed over.
LEMMA SkipVertexStep == IInv /\ SkipVertex => IInv'
<1>. SUFFICES ASSUME IInv, SkipVertex PROVE IInv'
  OBVIOUS
<1>. PICK i, b : i = Draining /\ b = inbuf[i]
  OBVIOUS
<1>. PICK c : c = [b EXCEPT !.vertex_ptr = @ + 1]
  OBVIOUS
<1>1. /\ i \in Bufs /\ b.state = "DRAINING" /\ b \in InbufType /\ TaskPtrOK(b)
      /\ b.vertex_ptr < b.end_vertex /\ Depth(b) = 0 /\ ~is_done
      /\ b.end_vertex - b.start_vertex \in NonEmpty(b.input_edge)
  BY DrainingBuffer DEF SkipVertex
<1>2. c \in InbufType /\ TaskPtrOK(c) /\ TasksLeft(c) = TasksLeft(b)
  BY <1>1, TasksAfterSkip
<1>3. /\ c.state = b.state /\ c.event_cnt = b.event_cnt
      /\ c.start_vertex = b.start_vertex /\ c.end_vertex = b.end_vertex
      /\ c.ebuf_ptr = b.ebuf_ptr /\ c.input_edge = b.input_edge
      /\ c.feature_chunk_cnt = b.feature_chunk_cnt
      /\ c.non_empty_vertex = b.non_empty_vertex
      /\ c.vertex_ptr = b.vertex_ptr + 1
  BY <1>1 DEF InbufType
<1>4. inbuf' = [inbuf EXCEPT ![i] = c]
  BY <1>1 DEF SkipVertex, IInv, TypeInv
<1>5. UNCHANGED <<pc, core, simds, ebuf, edge_chunk_cnt, event_out, event_in,
                  is_done, aggr_buf, pending>>
  BY DEF SkipVertex
<1>6. /\ inbuf' \in [Bufs -> InbufType] /\ inbuf'[i] = c
      /\ \A j \in Bufs : j # i => inbuf'[j] = inbuf[j] /\ inbuf[j].state # "DRAINING"
      /\ InbufInv' /\ PartInv'
      /\ \A j \in Bufs : inbuf'[j].state = inbuf[j].state
  <2>1. /\ inbuf[i].state = "DRAINING" /\ c.state = "DRAINING" /\ UNCHANGED ebuf
        /\ c.start_vertex = inbuf[i].start_vertex /\ c.end_vertex = inbuf[i].end_vertex
        /\ c.ebuf_ptr = inbuf[i].ebuf_ptr /\ c.input_edge = inbuf[i].input_edge
        /\ c.non_empty_vertex = inbuf[i].non_empty_vertex
    BY <1>1, <1>3, <1>5
  <2>. QED
    BY <1>1, <1>2, <1>4, <2>1, TaskMoves
<1>7. TypeInv'
  BY <1>5, <1>6 DEF IInv, TypeInv
<1>8. EbufInv' /\ RingInv'
  BY <1>5 DEF IInv, EbufInv, RingInv, NextChunk
<1>9. CoreInv'
  <2>1. \A k \in Simds : simds[k].state = "COMPUTING" => CoreOK(simds[k])'
    <3>. SUFFICES ASSUME NEW k \in Simds, simds[k].state = "COMPUTING"
                  PROVE  CoreOK(simds[k])'
      OBVIOUS
    <3>. PICK t : t = simds[k]
      OBVIOUS
    <3>1. CoreOK(t) /\ simds'[k] = t
      BY <1>5 DEF IInv, CoreInv
    <3>2. t.inbuf_ptr = i
      BY <1>6, <3>1 DEF CoreOK
    <3>3. t.vertex_id \in Int
      BY DEF IInv, TypeInv, SimdType
    <3>4. \/ t.vertex_id < b.vertex_ptr
          \/ t.vertex_id = b.vertex_ptr /\ t.feature_chunk_id < b.feature_chunk_cnt
      BY <3>1, <3>2 DEF CoreOK
    <3>5. t.vertex_id < c.vertex_ptr
      BY <1>1, <1>3, <3>3, <3>4 DEF InbufType
    <3>6. /\ c.start_vertex <= t.vertex_id /\ t.vertex_id < c.end_vertex
          /\ t.feature_chunk_id \in 0..(num_feature_chunk - 1)
      BY <1>3, <3>1, <3>2 DEF CoreOK
    <3>7. c.state = "DRAINING" /\ inbuf'[i] = c
      BY <1>1, <1>3, <1>6
    <3>. QED
      BY <1>1, <3>1, <3>2, <3>5, <3>6, <3>7 DEF CoreOK
  <2>. QED
    BY <1>5, <2>1 DEF IInv, CoreInv
<1>10. TaskInv'
  <2>1. \A j : BusyOn(j)' = BusyOn(j)
    BY <1>5 DEF BusyOn
  <2>2. b.event_cnt = Cardinality(BusyOn(i)) + TasksLeft(b)
    BY <1>1 DEF IInv, TaskInv
  <2>3. c.event_cnt = Cardinality(BusyOn(i)) + TasksLeft(c)
    BY <1>2, <1>3, <2>2
  <2>. QED
    BY <1>6, <2>1, <2>3 DEF TaskInv
<1>11. EventInv'
  <2>1. \A j \in Bufs : inbuf[j].state = "FILLING" => inbuf'[j] = inbuf[j]
    BY <1>1, <1>6
  <2>. QED
    BY <1>5, <1>6, <2>1 DEF IInv, EventInv
<1>12. DoneInv'
  BY <1>1, <1>5 DEF IInv, DoneInv
<1>. QED
  BY <1>6, <1>7, <1>8, <1>9, <1>10, <1>11, <1>12 DEF IInv

\* An idle core is given the next task.
LEMMA AssignTaskStep == IInv /\ AssignTask => IInv'
<1>. SUFFICES ASSUME IInv, AssignTask PROVE IInv'
  OBVIOUS
<1>. PICK i, b, k : i = Draining /\ b = inbuf[i] /\ k = GetIdleSIMD
  OBVIOUS
<1>. PICK c, v, f, d : /\ c = NextTask(b) /\ v = b.vertex_ptr
                       /\ f = b.feature_chunk_cnt /\ d = Depth(b)
  OBVIOUS
<1>. PICK t : t = [state |-> "COMPUTING", vertex_id |-> v, feature_chunk_id |-> f,
                   inbuf_ptr |-> i, depth |-> d]
  OBVIOUS
<1>1. /\ i \in Bufs /\ b.state = "DRAINING" /\ b \in InbufType /\ TaskPtrOK(b)
      /\ v < b.end_vertex /\ d > 0 /\ ~is_done
      /\ b.end_vertex - b.start_vertex \in NonEmpty(b.input_edge)
  BY DrainingBuffer DEF AssignTask
<1>2. k \in Simds /\ simds[k].state = "IDLE"
  BY IdleCore DEF AssignTask, MoreTasks, IdleSimds
<1>3. c \in InbufType /\ TaskPtrOK(c) /\ TasksLeft(c) = TasksLeft(b) - 1
  BY <1>1, TasksAfterNext
<1>4. /\ v \in Int /\ d \in Nat /\ i \in Int
      /\ f \in 0..(num_feature_chunk - 1) /\ b.start_vertex <= v
  <2>1. d \in Nat
    BY <1>1, CurrentRow DEF TaskPtrOK
  <2>2. i \in Int
    BY <1>1 DEF Bufs
  <2>. QED
    BY <1>1, <2>1, <2>2 DEF TaskPtrOK, InbufType
<1>5. /\ c.state = b.state /\ c.event_cnt = b.event_cnt
      /\ c.start_vertex = b.start_vertex /\ c.end_vertex = b.end_vertex
      /\ c.ebuf_ptr = b.ebuf_ptr /\ c.input_edge = b.input_edge
      /\ c.non_empty_vertex = b.non_empty_vertex
      /\ \/ c.vertex_ptr = v /\ c.feature_chunk_cnt = f + 1
         \/ c.vertex_ptr = v + 1
  BY <1>1 DEF NextTask, InbufType
<1>6. inbuf' = [inbuf EXCEPT ![i] = c]
  BY <1>1 DEF AssignTask, IInv, TypeInv
<1>7. UNCHANGED <<pc, core, ebuf, edge_chunk_cnt, event_in, is_done, aggr_buf>>
  BY DEF AssignTask
<1>8. /\ inbuf' \in [Bufs -> InbufType] /\ inbuf'[i] = c
      /\ \A j \in Bufs : j # i => inbuf'[j] = inbuf[j] /\ inbuf[j].state # "DRAINING"
      /\ InbufInv' /\ PartInv'
      /\ \A j \in Bufs : inbuf'[j].state = inbuf[j].state
  <2>1. /\ inbuf[i].state = "DRAINING" /\ c.state = "DRAINING" /\ UNCHANGED ebuf
        /\ c.start_vertex = inbuf[i].start_vertex /\ c.end_vertex = inbuf[i].end_vertex
        /\ c.ebuf_ptr = inbuf[i].ebuf_ptr /\ c.input_edge = inbuf[i].input_edge
        /\ c.non_empty_vertex = inbuf[i].non_empty_vertex
    BY <1>1, <1>5, <1>7
  <2>. QED
    BY <1>1, <1>3, <1>6, <2>1, TaskMoves
<1>9. /\ t \in SimdType /\ t.state = "COMPUTING" /\ t.vertex_id = v
      /\ t.feature_chunk_id = f /\ t.inbuf_ptr = i
  BY <1>4 DEF SimdType
<1>10. /\ simds' \in [Simds -> SimdType] /\ simds'[k] = t
       /\ \A l \in Simds : l # k => simds'[l] = simds[l]
  <2>1. simds' = [simds EXCEPT ![k] = t]
    BY DEF AssignTask
  <2>2. simds \in [Simds -> SimdType]
    BY DEF IInv, TypeInv
  <2>. QED
    BY <1>2, <1>9, <2>1, <2>2
<1>11. /\ pending' \in [DataType -> Nat]
       /\ pending'["AGGR_FEATURE"] = pending["AGGR_FEATURE"] + 1
       /\ pending'["EDGE"] = pending["EDGE"]
       /\ pending'["INPUT_FEATURE"] = pending["INPUT_FEATURE"]
       /\ event_out' = event_out + 1 /\ event_out \in Nat
  <2>1. pending["AGGR_FEATURE"] + 1 \in Nat /\ 1 \in Int /\ "AGGR_FEATURE" \in DataType
    BY DEF DataType, IInv, TypeInv
  <2>2. AddEvents("AGGR_FEATURE", 1)
    BY DEF AssignTask
  <2>3. /\ pending' \in [DataType -> Nat]
        /\ pending'["AGGR_FEATURE"] = pending["AGGR_FEATURE"] + 1
        /\ \A u \in DataType : u # "AGGR_FEATURE" => pending'[u] = pending[u]
    BY <2>1, <2>2, EventsStep DEF IInv, TypeInv
  <2>. QED
    BY <2>3 DEF DataType, AssignTask, IInv, TypeInv
<1>12. TypeInv'
  BY <1>7, <1>8, <1>10, <1>11 DEF IInv, TypeInv
<1>13. EbufInv' /\ RingInv'
  BY <1>7 DEF IInv, EbufInv, RingInv, NextChunk
<1>14. \A l \in Simds : simds[l].state = "COMPUTING" =>
         /\ CoreOK(simds[l]) /\ simds[l].inbuf_ptr = i /\ l # k
         /\ simds[l].vertex_id \in Int /\ simds[l].feature_chunk_id \in Int
         /\ \/ simds[l].vertex_id < v
            \/ simds[l].vertex_id = v /\ simds[l].feature_chunk_id < f
  <2>. SUFFICES ASSUME NEW l \in Simds, simds[l].state = "COMPUTING"
                PROVE  /\ CoreOK(simds[l]) /\ simds[l].inbuf_ptr = i /\ l # k
                       /\ simds[l].vertex_id \in Int
                       /\ simds[l].feature_chunk_id \in Int
                       /\ \/ simds[l].vertex_id < v
                          \/ simds[l].vertex_id = v /\ simds[l].feature_chunk_id < f
    OBVIOUS
  <2>1. CoreOK(simds[l])
    BY DEF IInv, CoreInv
  <2>2. simds[l].inbuf_ptr = i
    BY <1>8, <2>1 DEF CoreOK
  <2>3. simds[l] \in SimdType
    BY DEF IInv, TypeInv
  <2>. QED
    BY <1>2, <2>1, <2>2, <2>3 DEF CoreOK, SimdType
<1>15. CoreInv'
  <2>1. \A l \in Simds : simds'[l].state = "COMPUTING" => CoreOK(simds[l])'
    <3>. SUFFICES ASSUME NEW l \in Simds, simds'[l].state = "COMPUTING"
                  PROVE  CoreOK(simds[l])'
      OBVIOUS
    <3>1. CASE l = k
      <4>1. simds'[l] = t
        BY <1>10, <3>1
      <4>2. v < c.vertex_ptr \/ (v = c.vertex_ptr /\ f < c.feature_chunk_cnt)
        BY <1>4, <1>5
      <4>. QED
        BY <1>1, <1>4, <1>5, <1>8, <1>9, <4>1, <4>2 DEF CoreOK
    <3>2. CASE l # k
      <4>. PICK u : u = simds[l]
        OBVIOUS
      <4>1. simds'[l] = u /\ u.state = "COMPUTING"
        BY <1>10, <3>2
      <4>2. /\ CoreOK(u) /\ u.inbuf_ptr = i
            /\ u.vertex_id \in Int /\ u.feature_chunk_id \in Int
            /\ u.vertex_id < v \/ (u.vertex_id = v /\ u.feature_chunk_id < f)
        BY <1>14, <4>1
      <4>3. \/ u.vertex_id < c.vertex_ptr
            \/ u.vertex_id = c.vertex_ptr /\ u.feature_chunk_id < c.feature_chunk_cnt
        BY <1>4, <1>5, <4>2
      <4>. QED
        BY <1>1, <1>5, <1>8, <4>1, <4>2, <4>3 DEF CoreOK
    <3>. QED
      BY <3>1, <3>2
  <2>2. \A l, m \in Simds :
          /\ simds'[l].state = "COMPUTING" /\ simds'[m].state = "COMPUTING" /\ l # m
          => \/ simds'[l].vertex_id # simds'[m].vertex_id
             \/ simds'[l].feature_chunk_id # simds'[m].feature_chunk_id
    <3>1. \A l \in Simds : l # k /\ simds'[l].state = "COMPUTING" =>
            simds'[l].vertex_id # v \/ simds'[l].feature_chunk_id # f
      BY <1>4, <1>10, <1>14
    <3>. QED
      BY <1>9, <1>10, <3>1 DEF IInv, CoreInv
  <2>. QED
    BY <2>1, <2>2 DEF CoreInv
<1>16. TaskInv'
  <2>1. BusyOn(i) \in SUBSET Simds /\ k \notin BusyOn(i)
    BY <1>2 DEF BusyOn
  <2>2. IsFiniteSet(BusyOn(i))
    BY <2>1, SimdsFinite, FS_Subset
  <2>3. BusyOn(i)' = BusyOn(i) \cup {k}
    BY <1>2, <1>9, <1>10 DEF BusyOn
  <2>4. /\ Cardinality(BusyOn(i) \cup {k}) = Cardinality(BusyOn(i)) + 1
        /\ Cardinality(BusyOn(i)) \in Nat
    BY <2>1, <2>2, FS_AddElement, FS_CardinalityType
  <2>5. b.event_cnt = Cardinality(BusyOn(i)) + TasksLeft(b)
    BY <1>1 DEF IInv, TaskInv
  <2>6. TasksLeft(b) \in Nat
    BY <1>1, TasksLeftNat
  <2>7. c.event_cnt = (Cardinality(BusyOn(i)) + 1) + TasksLeft(c)
    BY <1>3, <1>5, <2>4, <2>5, <2>6
  <2>. QED
    BY <1>8, <2>3, <2>4, <2>7 DEF TaskInv
<1>17. EventInv'
  <2>1. \A j \in Bufs : inbuf[j].state = "FILLING" => inbuf'[j] = inbuf[j]
    BY <1>1, <1>8
  <2>2. event_out' = event_in' + pending'["AGGR_FEATURE"]
    BY <1>7, <1>11 DEF IInv, EventInv, TypeInv, DataType
  <2>. QED
    BY <1>7, <1>8, <1>11, <2>1, <2>2 DEF IInv, EventInv
<1>18. DoneInv'
  BY <1>1, <1>7 DEF IInv, DoneInv
<1>. QED
  BY <1>8, <1>12, <1>13, <1>15, <1>16, <1>17, <1>18 DEF IInv

-----------------------------------------------------------------------------
(* The next part of a chunk, and the next chunk.                           *)

\* A part leads to finitely many neighbours, so that the reads can be counted.
LEMMA NeighborsFinite ==
  ASSUME NEW rows \in Seq(Seq(Nat))
  PROVE  Cardinality(Neighbors(rows)) \in Nat
<1>1. NonEmpty(rows) \in SUBSET (1..Len(rows)) /\ IsFiniteSet(NonEmpty(rows))
  BY NonEmptyFinite
<1>. DEFINE ends(r) == {rows[r][j] : j \in 1..Len(rows[r])}
            T == {ends(r) : r \in NonEmpty(rows)}
<1>2. \A S \in T : IsFiniteSet(S)
  <2>. SUFFICES ASSUME NEW r \in NonEmpty(rows) PROVE IsFiniteSet(ends(r))
    OBVIOUS
  <2>. PICK row : row = rows[r]
    OBVIOUS
  <2>1. row \in Seq(Nat)
    BY <1>1
  <2>. PICK n : n = Len(row)
    OBVIOUS
  <2>2. n \in Nat /\ 1 \in Int /\ n \in Int
    BY <2>1
  <2>3. IsFiniteSet(1..n)
    BY <2>2, FS_Interval
  <2>. DEFINE f == [j \in 1..n |-> row[j]]
              U == {row[j] : j \in 1..n}
  <2>4. f \in Surjection(1..n, U)
    BY DEF Surjection
  <2>5. IsFiniteSet(U)
    <3>. HIDE DEF f, U
    <3>. QED
      BY <2>3, <2>4, FS_Surjection
  <2>. QED
    BY <2>5
<1>3. IsFiniteSet(T)
  <2>. DEFINE f == [r \in NonEmpty(rows) |-> ends(r)]
  <2>1. f \in Surjection(NonEmpty(rows), T)
    BY DEF Surjection
  <2>. HIDE DEF f, T
  <2>. QED
    BY <1>1, <2>1, FS_Surjection
<1>4. IsFiniteSet(UNION T)
  <2>. HIDE DEF T
  <2>. QED
    BY <1>2, <1>3, FS_UNION
<1>5. Neighbors(rows) = UNION T
  BY DEF Neighbors
<1>. QED
  BY <1>4, <1>5, FS_CardinalityType

\* The input buffer bound to a part of an edge buffer's chunk.
LEMMA BoundPart ==
  ASSUME NEW ib, ib = IdleInbuf(0), NEW e \in Bufs, ebuf[e] \in EbufType,
         HoldsChunk(ebuf[e]),
         NEW p \in 0..(NumPart(ebuf[e].edge_chunk_id) - 1),
         NEW c, c = BoundInbuf(ib, e, p)
  PROVE  /\ c \in InbufType /\ c.state = "FILLING" /\ c.ebuf_ptr = e
         /\ c.feature_chunk_cnt = 0 /\ c.event_cnt \in Nat
         /\ \A eb : /\ eb.state = "DRAINING"
                    /\ eb.start_vertex = ebuf[e].start_vertex
                    /\ eb.end_vertex = ebuf[e].end_vertex
                    => PartOf(c, eb)
<1>. PICK n, v, w : /\ n = ebuf[e].edge_chunk_id /\ v = ebuf[e].start_vertex
                    /\ w = ebuf[e].end_vertex
  OBVIOUS
<1>. PICK rows : rows = Rows(n, p)
  OBVIOUS
<1>1. /\ n \in Chunks /\ v \in Int /\ w \in Int /\ w - v = ChunkSize(n)
  BY DEF HoldsChunk, EbufType, ChunkSize
<1>2. rows \in Seq(Seq(Nat)) /\ Len(rows) = w - v /\ NonEmpty(rows) # {}
  <2>1. EdgeParts[n] \in Seq(Seq(Seq(Nat)))
    BY <1>1, AggrAssumption
  <2>2. p + 1 \in 1..Len(EdgeParts[n])
    BY <2>1 DEF NumPart
  <2>3. rows \in Seq(Seq(Nat))
    BY <2>1, <2>2 DEF Rows
  <2>. QED
    BY <1>1, <2>3, AggrAssumption
<1>3. PICK last : last = CHOOSE r \in NonEmpty(rows) : \A q \in NonEmpty(rows) : q <= r
  OBVIOUS
<1>4. last \in NonEmpty(rows) /\ \A q \in NonEmpty(rows) : q <= last
  BY <1>2, <1>3, LastRow
<1>5. last \in Int
  BY <1>2, <1>4, NonEmptyFinite
<1>. PICK k, m, z : /\ k = Cardinality(NonEmpty(rows)) /\ m = Cardinality(Neighbors(rows))
                    /\ z = v + last
  OBVIOUS
<1>6. k \in Nat /\ m \in Nat /\ z \in Int /\ z - v = last
  <2>1. k \in Nat
    BY <1>2, NonEmptyFinite
  <2>2. m \in Nat
    BY <1>2, NeighborsFinite
  <2>3. v \in Int
    BY <1>1
  <2>4. v + last \in Int /\ (v + last) - v = last
    BY <1>5, <2>3
  <2>. QED
    BY <2>1, <2>2, <2>4
<1>7. c = [state |-> "FILLING", event_cnt |-> m, start_vertex |-> v, end_vertex |-> z,
           ebuf_ptr |-> e, input_edge |-> rows, vertex_ptr |-> None,
           feature_chunk_cnt |-> 0, non_empty_vertex |-> k]
  <2>1. c = [ib EXCEPT
               !.state = "FILLING", !.start_vertex = v, !.end_vertex = z,
               !.input_edge = rows, !.non_empty_vertex = @ + k, !.ebuf_ptr = e,
               !.event_cnt = m]
    BY <1>3 DEF BoundInbuf
  <2>2. ib.non_empty_vertex + k = k
    BY <1>6 DEF IdleInbuf
  <2>3. c = [ib EXCEPT
               !.state = "FILLING", !.start_vertex = v, !.end_vertex = z,
               !.input_edge = rows, !.non_empty_vertex = k, !.ebuf_ptr = e,
               !.event_cnt = m]
    BY <2>1, <2>2
  <2>. QED
    BY <2>3 DEF IdleInbuf
<1>8. c \in InbufType
  <2>1. "FILLING" \in BufState /\ e \in Int /\ None \in Int
    BY DEF BufState, Bufs, None
  <2>. QED
    BY <1>1, <1>2, <1>6, <1>7, <2>1 DEF InbufType
<1>9. \A eb : eb.state = "DRAINING" /\ eb.start_vertex = v /\ eb.end_vertex = w
                => PartOf(c, eb)
  <2>. SUFFICES ASSUME NEW eb, eb.state = "DRAINING", eb.start_vertex = v,
                       eb.end_vertex = w
                PROVE  PartOf(c, eb)
    OBVIOUS
  <2>1. /\ c.start_vertex = v /\ c.end_vertex = z /\ c.input_edge = rows
        /\ c.non_empty_vertex = k
    BY <1>7
  <2>2. v + Len(rows) = w
    BY <1>1, <1>2
  <2>. QED
    BY <1>4, <1>6, <2>1, <2>2 DEF PartOf
<1>. QED
  BY <1>6, <1>7, <1>8, <1>9

\* The features of a part's neighbours are asked for.
LEMMA PartAskedFor ==
  ASSUME IInv, InbufFree, NEW e \in Bufs, FillInbuf(e), HoldsChunk(ebuf[e]),
         ebuf[e].edge_part_cnt \in 0..(NumPart(ebuf[e].edge_chunk_id) - 1),
         NEW nb \in EbufType, ebuf' = [ebuf EXCEPT ![e] = nb],
         nb.state = "DRAINING", nb.start_vertex = ebuf[e].start_vertex,
         nb.end_vertex = ebuf[e].end_vertex,
         ebuf[e].state # "FILLING",
         UNCHANGED <<simds, event_out, event_in>>
  PROVE  /\ inbuf' \in [Bufs -> InbufType] /\ pending' \in [DataType -> Nat]
         /\ InbufInv' /\ CoreInv' /\ TaskInv' /\ EventInv'
         /\ \A d \in Bufs :
              On(inbuf'[0], d) + On(inbuf'[1], d) =
                On(inbuf[0], d) + On(inbuf[1], d) + (IF d = e THEN 1 ELSE 0)
<1>. PICK i, p : i = GetTargetBuf(inbuf, "IDLE") /\ p = ebuf[e].edge_part_cnt
  OBVIOUS
<1>. PICK b : b = inbuf[i]
  OBVIOUS
<1>. PICK c : c = BoundInbuf(b, e, p)
  OBVIOUS
<1>1. i \in Bufs /\ b.state = "IDLE" /\ b = IdleInbuf(0)
  <2>1. i # None
    BY DEF InbufFree
  <2>2. i \in Bufs /\ b.state = "IDLE"
    BY <2>1, TargetBuf
  <2>. QED
    BY <2>2 DEF IInv, InbufInv
<1>2. \A j \in Bufs : inbuf[j].state # "FILLING"
  BY TargetBuf DEF InbufFree, Bufs
<1>3. /\ c \in InbufType /\ c.state = "FILLING" /\ c.ebuf_ptr = e
      /\ c.feature_chunk_cnt = 0 /\ c.event_cnt \in Nat
      /\ PartOf(c, nb)
  <2>1. ebuf[e] \in EbufType
    BY DEF IInv, TypeInv
  <2>2. p \in 0..(NumPart(ebuf[e].edge_chunk_id) - 1)
    OBVIOUS
  <2>. QED
    BY <1>1, <2>1, <2>2, BoundPart
<1>4. inbuf' = [inbuf EXCEPT ![i] = c] /\ AddEvents("INPUT_FEATURE", c.event_cnt)
  BY DEF FillInbuf
<1>5. /\ inbuf' \in [Bufs -> InbufType] /\ inbuf'[i] = c
      /\ \A j \in Bufs : j # i => inbuf'[j] = inbuf[j]
  BY <1>1, <1>3, <1>4, InbufStep DEF IInv, TypeInv
<1>6. /\ pending' \in [DataType -> Nat] /\ pending'["INPUT_FEATURE"] = c.event_cnt
      /\ pending'["EDGE"] = pending["EDGE"]
      /\ pending'["AGGR_FEATURE"] = pending["AGGR_FEATURE"]
  <2>. PICK n : n = c.event_cnt
    OBVIOUS
  <2>1. pending["INPUT_FEATURE"] = 0
    BY <1>2 DEF IInv, EventInv
  <2>2. pending["INPUT_FEATURE"] + n \in Nat /\ n \in Int /\ "INPUT_FEATURE" \in DataType
    BY <1>3, <2>1 DEF DataType
  <2>3. AddEvents("INPUT_FEATURE", n)
    BY <1>4
  <2>4. /\ pending' \in [DataType -> Nat]
        /\ pending'["INPUT_FEATURE"] = pending["INPUT_FEATURE"] + n
        /\ \A u \in DataType : u # "INPUT_FEATURE" => pending'[u] = pending[u]
    BY <2>2, <2>3, EventsStep DEF IInv, TypeInv
  <2>. QED
    BY <1>3, <2>1, <2>4 DEF DataType
<1>7. /\ ebuf' \in [Bufs -> EbufType] /\ ebuf'[e] = nb
      /\ \A j \in Bufs : j # e => ebuf'[j] = ebuf[j]
  BY EbufStep DEF IInv, TypeInv
<1>8. InbufInv'
  <2>1. \A j \in Bufs : j # i /\ inbuf[j].state # "IDLE" =>
          inbuf[j].ebuf_ptr \in Bufs /\ PartOf(inbuf[j], ebuf'[inbuf[j].ebuf_ptr])
    <3>. SUFFICES ASSUME NEW j \in Bufs, inbuf[j].state # "IDLE"
                  PROVE  /\ inbuf[j].ebuf_ptr \in Bufs
                         /\ PartOf(inbuf[j], ebuf'[inbuf[j].ebuf_ptr])
      OBVIOUS
    <3>1. inbuf[j].ebuf_ptr \in Bufs /\ PartOf(inbuf[j], ebuf[inbuf[j].ebuf_ptr])
      BY DEF IInv, InbufInv
    <3>. QED
      BY <1>7, <3>1 DEF PartOf
  <2>2. \A j \in Bufs :
          /\ inbuf'[j].state = "IDLE" => inbuf'[j] = IdleInbuf(0)
          /\ inbuf'[j].state # "IDLE" =>
               /\ inbuf'[j].ebuf_ptr \in Bufs
               /\ PartOf(inbuf'[j], ebuf'[inbuf'[j].ebuf_ptr])
    BY <1>3, <1>5, <1>7, <2>1 DEF IInv, InbufInv
  <2>3. \A j \in Bufs :
          /\ inbuf'[j].state = "FILLING" => inbuf'[j].feature_chunk_cnt = 0
          /\ inbuf'[j].state = "READY" =>
               /\ inbuf'[j].feature_chunk_cnt = 0
               /\ inbuf'[j].vertex_ptr = inbuf'[j].start_vertex
          /\ inbuf'[j].state = "DRAINING" => TaskPtrOK(inbuf'[j])
    BY <1>3, <1>5 DEF IInv, InbufInv
  <2>4. \A s \in {"FILLING", "DRAINING"} :
          ~(inbuf'[0].state = s /\ inbuf'[1].state = s)
    BY <1>1, <1>2, <1>3, <1>5, OtherBuffer DEF IInv, InbufInv, Bufs
  <2>. QED
    BY <2>2, <2>3, <2>4 DEF InbufInv
<1>9. CoreInv' /\ TaskInv'
  BY <1>1, <1>3, <1>5, CoresKept DEF IInv
<1>10. EventInv'
  <2>1. \A j \in Bufs : /\ ebuf'[j].state = "FILLING" <=> ebuf[j].state = "FILLING"
                        /\ ebuf'[j].state = "FILLING" => ebuf'[j] = ebuf[j]
    BY <1>7
  <2>2. \A j \in Bufs : inbuf'[j].state = "FILLING" =>
          inbuf'[j].event_cnt = pending'["INPUT_FEATURE"]
    BY <1>2, <1>5, <1>6
  <2>3. inbuf'[i].state = "FILLING"
    BY <1>3, <1>5
  <2>. QED
    BY <1>1, <1>6, <2>1, <2>2, <2>3 DEF IInv, EventInv
<1>11. \A d \in Bufs :
         On(inbuf'[0], d) + On(inbuf'[1], d) =
           On(inbuf[0], d) + On(inbuf[1], d) + (IF d = e THEN 1 ELSE 0)
  <2>. SUFFICES ASSUME NEW d \in Bufs
                PROVE  On(inbuf'[0], d) + On(inbuf'[1], d) =
                         On(inbuf[0], d) + On(inbuf[1], d) + (IF d = e THEN 1 ELSE 0)
    OBVIOUS
  <2>1. On(b, d) = 0 /\ On(c, d) = IF d = e THEN 1 ELSE 0
    BY <1>1, <1>3 DEF On, IdleInbuf, None, Bufs
  <2>2. On(inbuf[0], d) \in Int /\ On(inbuf[1], d) \in Int
    BY DEF On
  <2>3. CASE i = 0
    <3>1. inbuf'[0] = c /\ inbuf'[1] = inbuf[1]
      BY <1>5, <2>3 DEF Bufs
    <3>. QED
      BY <2>1, <2>2, <2>3, <3>1
  <2>4. CASE i = 1
    <3>1. inbuf'[1] = c /\ inbuf'[0] = inbuf[0]
      BY <1>5, <2>4 DEF Bufs
    <3>. QED
      BY <2>1, <2>2, <2>4, <3>1
  <2>. QED
    BY <1>1, <2>3, <2>4, OtherBuffer
<1>. QED
  BY <1>5, <1>6, <1>8, <1>9, <1>10, <1>11

\* The next part of the chunk that is being aggregated.
LEMMA FetchPartStep == IInv /\ FetchPart => IInv'
<1>. SUFFICES ASSUME IInv, FetchPart PROVE IInv'
  OBVIOUS
<1>. PICK e, b : e = GetTargetBuf(ebuf, "DRAINING") /\ b = ebuf[e]
  OBVIOUS
<1>. PICK p, n : p = b.edge_part_cnt /\ n = b.edge_chunk_id
  OBVIOUS
<1>. DEFINE nb == [b EXCEPT !.edge_part_cnt = p + 1]
<1>1. /\ e \in Bufs /\ b.state = "DRAINING" /\ b \in EbufType /\ HoldsChunk(b)
      /\ n = NextChunk - 1 /\ p \in 0..(NumPart(n) - 1) /\ n \in Chunks
      /\ EbufOK(b, NextChunk, edge_chunk_cnt)
  <2>1. e \in Bufs /\ b.state = "DRAINING"
    BY TargetBuf DEF FetchPart
  <2>2. EbufOK(b, NextChunk, edge_chunk_cnt) /\ b \in EbufType
    BY <2>1 DEF IInv, EbufInv, TypeInv
  <2>3. HoldsChunk(b) /\ n = NextChunk - 1 /\ p \in 0..NumPart(n)
    BY <2>1, <2>2 DEF EbufOK
  <2>4. p < NumPart(n)
    BY DEF FetchPart
  <2>5. n \in Chunks
    BY <2>3 DEF HoldsChunk
  <2>6. NumPart(n) \in Nat
    BY <2>5, AggrAssumption DEF NumPart
  <2>. QED
    BY <2>1, <2>2, <2>3, <2>4, <2>5, <2>6
<1>2. NumPart(n) \in Nat
  BY <1>1, AggrAssumption DEF NumPart
<1>3. /\ nb \in EbufType /\ nb.state = b.state /\ nb.event_cnt = b.event_cnt
      /\ nb.start_vertex = b.start_vertex /\ nb.end_vertex = b.end_vertex
      /\ nb.edge_chunk_id = n /\ nb.edge_part_cnt = p + 1
  <2>1. p + 1 \in Int
    BY <1>1, <1>2
  <2>. QED
    BY <1>1, <2>1 DEF EbufType
<1>4. ebuf' = [ebuf EXCEPT ![e] = nb]
  BY DEF FetchPart
<1>. PICK c : c = nb
  OBVIOUS
<1>. HIDE DEF nb
<1>5. /\ ebuf' \in [Bufs -> EbufType] /\ ebuf'[e] = c
      /\ \A j \in Bufs : j # e => ebuf'[j] = ebuf[j]
  BY <1>1, <1>3, <1>4, EbufStep DEF IInv, TypeInv
<1>6. /\ UNCHANGED <<core, simds, edge_chunk_cnt, event_out, event_in, is_done, aggr_buf>>
      /\ pc' = "drain" /\ pc = "input" /\ InbufFree /\ FillInbuf(e)
  BY DEF FetchPart
<1>7. /\ inbuf' \in [Bufs -> InbufType] /\ pending' \in [DataType -> Nat]
      /\ InbufInv' /\ CoreInv' /\ TaskInv' /\ EventInv'
      /\ \A d \in Bufs :
           On(inbuf'[0], d) + On(inbuf'[1], d) =
             On(inbuf[0], d) + On(inbuf[1], d) + (IF d = e THEN 1 ELSE 0)
  <2>1. /\ HoldsChunk(ebuf[e]) /\ ebuf[e].state # "FILLING"
        /\ ebuf[e].edge_part_cnt \in 0..(NumPart(ebuf[e].edge_chunk_id) - 1)
        /\ c \in EbufType /\ ebuf' = [ebuf EXCEPT ![e] = c] /\ c.state = "DRAINING"
        /\ c.start_vertex = ebuf[e].start_vertex /\ c.end_vertex = ebuf[e].end_vertex
        /\ UNCHANGED <<simds, event_out, event_in>>
    BY <1>1, <1>3, <1>4, <1>6
  <2>. QED
    BY <1>1, <1>6, <2>1, PartAskedFor
<1>8. TypeInv'
  BY <1>5, <1>6, <1>7 DEF IInv, TypeInv, PC
<1>9. \A j \in Bufs : /\ ebuf'[j].state = ebuf[j].state
                      /\ ebuf'[j].start_vertex = ebuf[j].start_vertex
                      /\ ebuf'[j].edge_chunk_id = ebuf[j].edge_chunk_id
  BY <1>3, <1>5
<1>10. NextChunk' = NextChunk
  <2>1. 0 \in Bufs /\ 1 \in Bufs
    BY DEF Bufs
  <2>. QED
    BY <1>6, <1>9, <2>1 DEF NextChunk, Waiting, Waits
<1>11. EbufInv'
  <2>1. EbufOK(c, NextChunk, edge_chunk_cnt)
    <3>1. HoldsChunk(c)
      BY <1>1, <1>3 DEF HoldsChunk
    <3>2. NumPart(NextChunk - 1) = NumPart(n) /\ p + 1 \in 0..NumPart(n)
      BY <1>1, <1>2
    <3>. QED
      BY <1>1, <1>3, <3>1, <3>2 DEF EbufOK, Waits
  <2>2. \A j \in Bufs : EbufOK(ebuf'[j], NextChunk', edge_chunk_cnt')
    BY <1>5, <1>6, <1>10, <2>1 DEF IInv, EbufInv
  <2>3. 0 \in Bufs /\ 1 \in Bufs
    BY DEF Bufs
  <2>. QED
    BY <1>9, <2>2, <2>3 DEF IInv, EbufInv
<1>12. RingInv'
  BY <1>6, <1>9, <1>10 DEF IInv, RingInv
<1>13. \A j \in Bufs : j # e => ebuf[j].state # "DRAINING"
  BY <1>1, EbufsDiffer DEF IInv
<1>14. PartInv'
  <2>1. b.event_cnt = On(inbuf[0], e) + On(inbuf[1], e) + NumPart(n) - p
    BY <1>1 DEF IInv, PartInv
  <2>2. On(inbuf[0], e) \in Int /\ On(inbuf[1], e) \in Int
    BY DEF On
  <2>3. On(inbuf'[0], e) \in Int /\ On(inbuf'[1], e) \in Int
    BY DEF On
  <2>4. On(inbuf'[0], e) + On(inbuf'[1], e) = On(inbuf[0], e) + On(inbuf[1], e) + 1
    BY <1>1, <1>7
  <2>5. c.event_cnt =
          On(inbuf'[0], e) + On(inbuf'[1], e) + NumPart(n) - (p + 1)
    BY <1>1, <1>2, <1>3, <2>1, <2>2, <2>3, <2>4
  <2>. QED
    BY <1>3, <1>5, <1>13, <2>5 DEF PartInv
<1>15. DoneInv'
  <2>1. \E j \in Bufs : ebuf'[j].state # "IDLE"
    BY <1>1, <1>9
  <2>2. ~is_done
    BY <1>1 DEF IInv, DoneInv, NothingLeft, AllBufIdle
  <2>. QED
    BY <1>6, <2>1, <2>2 DEF DoneInv
<1>. QED
  BY <1>7, <1>8, <1>11, <1>12, <1>14, <1>15 DEF IInv

\* The chunk that is begun is the first that has no room yet.
LEMMA NextInOrder ==
  ASSUME IInv, CanStartChunk, NEW e, e = NextEbuf
  PROVE  /\ e \in Bufs /\ ebuf[e].state = "READY"
         /\ ebuf[e].edge_chunk_id = NextChunk
         /\ \A j \in Bufs : ebuf[j].state # "DRAINING"
<1>1. \A j \in Bufs : ebuf[j].state # "DRAINING"
  BY TargetBuf DEF CanStartChunk, Bufs
<1>2. ReadyEbufs # {} /\ ReadyEbufs \in SUBSET Bufs
  BY DEF CanStartChunk, ReadyEbufs
<1>3. \A j \in Bufs : ebuf[j].start_vertex \in Int
  BY DEF IInv, TypeInv, EbufType
<1>4. \E k \in ReadyEbufs :
        \A j \in ReadyEbufs : ebuf[k].start_vertex <= ebuf[j].start_vertex
  <2>1. PICK k \in ReadyEbufs : k \in Bufs
    BY <1>2
  <2>2. CASE 1 - k \in ReadyEbufs /\ ebuf[1 - k].start_vertex < ebuf[k].start_vertex
    <3>1. \A j \in ReadyEbufs : ebuf[1 - k].start_vertex <= ebuf[j].start_vertex
      BY <1>2, <1>3, <2>1, <2>2, OtherBuffer
    <3>. QED
      BY <2>2, <3>1
  <2>3. CASE ~(1 - k \in ReadyEbufs /\ ebuf[1 - k].start_vertex < ebuf[k].start_vertex)
    <3>1. \A j \in ReadyEbufs : ebuf[k].start_vertex <= ebuf[j].start_vertex
      BY <1>2, <1>3, <2>1, <2>3, OtherBuffer
    <3>. QED
      BY <3>1
  <2>. QED
    BY <2>2, <2>3
<1>5. /\ e \in ReadyEbufs
      /\ \A j \in ReadyEbufs : ebuf[e].start_vertex <= ebuf[j].start_vertex
  BY <1>4 DEF NextEbuf
<1>6. e \in Bufs /\ ebuf[e].state = "READY"
  BY <1>5 DEF ReadyEbufs
<1>. PICK o, cnt : o = 1 - e /\ cnt = edge_chunk_cnt
  OBVIOUS
<1>7. /\ o \in Bufs /\ o # e /\ cnt \in Nat
      /\ NextChunk = cnt - Waiting(ebuf[e]) - Waiting(ebuf[o])
  <2>1. o \in Bufs /\ o # e /\ (e = 0 \/ e = 1)
    BY <1>6, OtherBuffer
  <2>2. cnt \in Nat
    BY AggrAssumption DEF IInv, TypeInv
  <2>3. /\ e = 0 => o = 1
        /\ e = 1 => o = 0
    BY <2>1
  <2>4. Waiting(ebuf[0]) \in Int /\ Waiting(ebuf[1]) \in Int
    BY DEF Waiting
  <2>5. CASE e = 0
    BY <2>1, <2>2, <2>3, <2>4, <2>5 DEF NextChunk
  <2>6. CASE e = 1
    BY <2>1, <2>2, <2>3, <2>4, <2>6 DEF NextChunk
  <2>. QED
    BY <2>1, <2>2, <2>5, <2>6
<1>. PICK n, k, l : /\ n = NextChunk /\ k = ebuf[e].edge_chunk_id
                    /\ l = ebuf[o].edge_chunk_id
  OBVIOUS
<1>8. /\ k \in Chunks /\ k \in Nat /\ n <= k /\ k < cnt
      /\ ebuf[e].start_vertex = Bound(k) /\ Waiting(ebuf[e]) = 1
  <2>1. EbufOK(ebuf[e], n, cnt)
    BY <1>6 DEF IInv, EbufInv
  <2>2. HoldsChunk(ebuf[e]) /\ Waits(ebuf[e])
    BY <1>6, <2>1 DEF EbufOK, Waits
  <2>3. k \in Chunks /\ k \in Nat
    BY <2>2, AggrAssumption DEF HoldsChunk, Chunks
  <2>4. ebuf[e].start_vertex = Bound(k)
    BY <2>2, <2>3, ChunkBounds DEF HoldsChunk
  <2>. QED
    BY <2>1, <2>2, <2>3, <2>4 DEF EbufOK, Waiting
<1>9. CASE ~Waits(ebuf[o])
  BY <1>7, <1>8, <1>6, <1>1, <1>9 DEF Waiting
<1>10. CASE Waits(ebuf[o])
  <2>1. EbufOK(ebuf[o], n, cnt)
    BY <1>7 DEF IInv, EbufInv
  <2>2. /\ l \in Chunks /\ l \in Nat /\ n <= l /\ l < cnt /\ n = cnt - 2
        /\ ebuf[o].start_vertex = Bound(l)
    <3>1. HoldsChunk(ebuf[o])
      BY <1>10, <2>1 DEF EbufOK, Waits
    <3>2. l \in Chunks /\ l \in Nat
      BY <3>1, AggrAssumption DEF HoldsChunk, Chunks
    <3>3. ebuf[o].start_vertex = Bound(l)
      BY <3>1, <3>2, ChunkBounds DEF HoldsChunk
    <3>4. n = cnt - 2
      BY <1>7, <1>8, <1>10 DEF Waiting
    <3>. QED
      BY <1>10, <2>1, <3>2, <3>3, <3>4 DEF EbufOK
  <2>3. k # l
    <3>1. ebuf[e].state # "IDLE" /\ ebuf[o].state # "IDLE"
      BY <1>6, <1>10 DEF Waits
    <3>. QED
      BY <1>6, <1>7, <3>1, OtherBuffer DEF IInv, EbufInv
  <2>4. ASSUME k = n + 1 PROVE FALSE
    <3>1. l = n /\ k = l + 1
      BY <1>7, <1>8, <2>2, <2>3, <2>4
    <3>2. ebuf[o].state = "READY"
      BY <1>7, <1>10, <2>1, <2>2, <3>1 DEF EbufOK, Waits
    <3>3. Bound(k) <= Bound(l)
      BY <1>5, <1>7, <1>8, <2>2, <3>2 DEF ReadyEbufs
    <3>4. Bound(l) < Bound(k) /\ Bound(l) \in Nat /\ Bound(k) \in Nat
      BY <2>2, <3>1, ChunkBounds
    <3>. QED
      BY <3>3, <3>4
  <2>. QED
    BY <1>1, <1>6, <1>7, <1>8, <2>2, <2>4
<1>. QED
  BY <1>1, <1>6, <1>9, <1>10

\* The next chunk is begun: its room is reserved, its first part asked for.
LEMMA StartChunkStep == IInv /\ StartChunk => IInv'
<1>. SUFFICES ASSUME IInv, StartChunk PROVE IInv'
  OBVIOUS
<1>. PICK e, b : e = NextEbuf /\ b = ebuf[e]
  OBVIOUS
<1>. PICK n, k : n = b.edge_chunk_id /\ k = NumVertexOf(e)
  OBVIOUS
<1>. PICK m : m = NumPart(n)
  OBVIOUS
<1>. DEFINE nb == [b EXCEPT !.state = "DRAINING", !.event_cnt = m, !.edge_part_cnt = 1]
<1>1. /\ e \in Bufs /\ b.state = "READY" /\ n = NextChunk
      /\ \A j \in Bufs : ebuf[j].state # "DRAINING"
  BY NextInOrder DEF StartChunk
<1>2. /\ b \in EbufType /\ HoldsChunk(b) /\ n \in Chunks /\ n \in Nat
      /\ b.edge_part_cnt = 0 /\ n < edge_chunk_cnt
  <2>1. EbufOK(b, NextChunk, edge_chunk_cnt) /\ b \in EbufType
    BY <1>1 DEF IInv, EbufInv, TypeInv
  <2>2. HoldsChunk(b) /\ b.edge_part_cnt = 0 /\ n < edge_chunk_cnt
    BY <1>1, <2>1 DEF EbufOK, Waits
  <2>. QED
    BY <2>1, <2>2, AggrAssumption DEF HoldsChunk, Chunks
<1>3. m \in Nat \ {0}
  BY <1>2, AggrAssumption DEF NumPart
<1>4. /\ nb \in EbufType /\ nb.state = "DRAINING" /\ nb.event_cnt = m
      /\ nb.start_vertex = b.start_vertex /\ nb.end_vertex = b.end_vertex
      /\ nb.edge_chunk_id = n /\ nb.edge_part_cnt = 1
  <2>1. m \in Int /\ 1 \in Int /\ "DRAINING" \in BufState
    BY <1>3 DEF BufState
  <2>. QED
    BY <1>2, <2>1 DEF EbufType
<1>5. ebuf' = [ebuf EXCEPT ![e] = nb]
  <2>1. ebuf' = [ebuf EXCEPT ![e].state = "DRAINING", ![e].event_cnt = m,
                             ![e].edge_part_cnt = @ + 1]
    BY DEF StartChunk
  <2>2. ebuf' = [ebuf EXCEPT ![e] = [b EXCEPT !.state = "DRAINING", !.event_cnt = m,
                                              !.edge_part_cnt = b.edge_part_cnt + 1]]
    BY <1>1, <1>2, <2>1 DEF IInv, TypeInv, EbufType
  <2>3. b.edge_part_cnt + 1 = 1
    BY <1>2
  <2>. QED
    BY <2>2, <2>3
<1>. PICK c : c = nb
  OBVIOUS
<1>. HIDE DEF nb
<1>6. /\ ebuf' \in [Bufs -> EbufType] /\ ebuf'[e] = c
      /\ \A j \in Bufs : j # e => ebuf'[j] = ebuf[j]
  BY <1>1, <1>4, <1>5, EbufStep DEF IInv, TypeInv
<1>7. /\ UNCHANGED <<core, simds, edge_chunk_cnt, event_out, event_in, is_done>>
      /\ pc' = "drain" /\ pc = "input" /\ InbufFree /\ FillInbuf(e)
      /\ aggr_buf' = StartAggr(aggr_buf, k)
  BY DEF StartChunk
<1>8. /\ inbuf' \in [Bufs -> InbufType] /\ pending' \in [DataType -> Nat]
      /\ InbufInv' /\ CoreInv' /\ TaskInv' /\ EventInv'
      /\ \A d \in Bufs :
           On(inbuf'[0], d) + On(inbuf'[1], d) =
             On(inbuf[0], d) + On(inbuf[1], d) + (IF d = e THEN 1 ELSE 0)
  <2>1. /\ HoldsChunk(ebuf[e]) /\ ebuf[e].state # "FILLING"
        /\ ebuf[e].edge_part_cnt \in 0..(NumPart(ebuf[e].edge_chunk_id) - 1)
        /\ c \in EbufType /\ ebuf' = [ebuf EXCEPT ![e] = c] /\ c.state = "DRAINING"
        /\ c.start_vertex = ebuf[e].start_vertex /\ c.end_vertex = ebuf[e].end_vertex
        /\ UNCHANGED <<simds, event_out, event_in>>
    BY <1>1, <1>2, <1>3, <1>4, <1>5, <1>7
  <2>. QED
    BY <1>1, <1>7, <2>1, PartAskedFor
<1>9. /\ b.start_vertex = Bound(n) /\ b.end_vertex = Bound(n + 1)
      /\ k \in Nat /\ Bound(n) + k = Bound(n + 1)
  <2>1. /\ Bound(n) = start_vertex_of_echunk[n] /\ Bound(n + 1) = end_vertex_of_echunk[n]
        /\ Bound(n) \in Nat /\ Bound(n + 1) \in Nat /\ Bound(n) < Bound(n + 1)
    BY <1>2, ChunkBounds
  <2>2. b.start_vertex = Bound(n) /\ b.end_vertex = Bound(n + 1)
    BY <1>2, <2>1 DEF HoldsChunk
  <2>3. k = Bound(n + 1) - Bound(n)
    BY <2>2 DEF NumVertexOf
  <2>. QED
    BY <2>1, <2>2, <2>3
<1>10. /\ aggr_buf' \in AggrBufType
       /\ aggr_buf'.aggr_ptr.first = aggr_buf.aggr_ptr.first + k
       /\ aggr_buf'.ready_ptr = aggr_buf.ready_ptr
       /\ aggr_buf'.comb_ptr = aggr_buf.comb_ptr
       /\ aggr_buf'.done_ptr = aggr_buf.done_ptr
  BY <1>7, <1>9, StartAggrType DEF IInv, TypeInv
<1>11. TypeInv'
  BY <1>6, <1>7, <1>8, <1>10 DEF IInv, TypeInv, PC
<1>12. NextChunk' = n + 1
  <2>1. Waiting(c) = 0 /\ Waiting(b) = 1
    BY <1>1, <1>4 DEF Waiting, Waits
  <2>2. Waiting(ebuf[0]) \in Nat /\ Waiting(ebuf[1]) \in Nat /\ edge_chunk_cnt \in Int
    BY AggrAssumption DEF Waiting, IInv, TypeInv
  <2>3. CASE e = 0
    <3>1. ebuf'[0] = c /\ ebuf'[1] = ebuf[1]
      BY <1>6, <2>3 DEF Bufs
    <3>. QED
      BY <1>1, <1>7, <2>1, <2>2, <2>3, <3>1 DEF NextChunk
  <2>4. CASE e = 1
    <3>1. ebuf'[1] = c /\ ebuf'[0] = ebuf[0]
      BY <1>6, <2>4 DEF Bufs
    <3>. QED
      BY <1>1, <1>7, <2>1, <2>2, <2>4, <3>1 DEF NextChunk
  <2>. QED
    BY <1>1, <2>3, <2>4, OtherBuffer
<1>13. EbufInv'
  <2>1. EbufOK(c, n + 1, edge_chunk_cnt)
    <3>1. HoldsChunk(c)
      BY <1>2, <1>4 DEF HoldsChunk
    <3>2. (n + 1) - 1 = n /\ 1 \in 0..m
      BY <1>2, <1>3
    <3>. QED
      BY <1>4, <3>1, <3>2 DEF EbufOK, Waits
  <2>2. \A j \in Bufs : j # e /\ ebuf[j].state # "IDLE" => ebuf[j].edge_chunk_id # n
    BY <1>1, OtherBuffer DEF IInv, EbufInv, Bufs
  <2>3. \A j \in Bufs : j # e => EbufOK(ebuf[j], n + 1, edge_chunk_cnt)
    <3>. SUFFICES ASSUME NEW j \in Bufs, j # e
                  PROVE  EbufOK(ebuf[j], n + 1, edge_chunk_cnt)
      OBVIOUS
    <3>1. EbufOK(ebuf[j], n, edge_chunk_cnt) /\ ebuf[j].edge_chunk_id \in Int
      BY <1>1 DEF IInv, EbufInv, TypeInv, EbufType
    <3>2. Waits(ebuf[j]) => n + 1 <= ebuf[j].edge_chunk_id
      BY <1>2, <2>2, <3>1 DEF EbufOK, Waits
    <3>. QED
      BY <1>1, <3>1, <3>2 DEF EbufOK
  <2>4. \A j \in Bufs : EbufOK(ebuf'[j], NextChunk', edge_chunk_cnt')
    BY <1>6, <1>7, <1>12, <2>1, <2>3
  <2>5. ebuf'[0].state # "IDLE" /\ ebuf'[1].state # "IDLE" =>
          ebuf'[0].edge_chunk_id # ebuf'[1].edge_chunk_id
    <3>1. \A j \in Bufs : j # e /\ ebuf'[j].state # "IDLE" => ebuf'[j].edge_chunk_id # n
      BY <1>6, <2>2
    <3>2. ebuf'[e].edge_chunk_id = n
      BY <1>4, <1>6
    <3>3. 0 \in Bufs /\ 1 \in Bufs /\ 0 # 1
      BY DEF Bufs
    <3>. QED
      BY <1>1, <3>1, <3>2, <3>3, OtherBuffer
  <2>. QED
    BY <2>4, <2>5 DEF EbufInv
<1>14. RingInv'
  <2>1. aggr_buf'.aggr_ptr.first = Bound(NextChunk')
    BY <1>1, <1>9, <1>10, <1>12 DEF IInv, RingInv
  <2>2. aggr_buf'.ready_ptr.first = Bound(n)
    BY <1>1, <1>10 DEF IInv, RingInv
  <2>3. \A j \in Bufs : ebuf'[j].state = "DRAINING" =>
          aggr_buf'.ready_ptr.first = ebuf'[j].start_vertex
    BY <1>1, <1>4, <1>6, <1>9, <2>2
  <2>4. ebuf'[e].state = "DRAINING"
    BY <1>4, <1>6
  <2>. QED
    BY <1>1, <1>10, <2>1, <2>3, <2>4 DEF IInv, RingInv
<1>15. PartInv'
  <2>1. \A j \in Bufs : inbuf[j] = IdleInbuf(0)
    BY <1>1 DEF IInv, InbufInv, PartOf
  <2>2. On(inbuf[0], e) = 0 /\ On(inbuf[1], e) = 0
    BY <1>1, <2>1 DEF On, IdleInbuf, None, Bufs
  <2>3. On(inbuf'[0], e) + On(inbuf'[1], e) = 1
    BY <1>1, <1>8, <2>2
  <2>4. On(inbuf'[0], e) \in Int /\ On(inbuf'[1], e) \in Int
    BY DEF On
  <2>5. c.event_cnt = On(inbuf'[0], e) + On(inbuf'[1], e) + NumPart(c.edge_chunk_id)
                        - c.edge_part_cnt
    BY <1>3, <1>4, <2>3, <2>4
  <2>6. \A j \in Bufs : ebuf'[j].state = "DRAINING" => j = e
    BY <1>1, <1>6
  <2>. QED
    BY <1>6, <2>5, <2>6 DEF PartInv
<1>16. DoneInv'
  <2>1. \E j \in Bufs : ebuf'[j].state # "IDLE"
    BY <1>1, <1>4, <1>6
  <2>2. ~is_done
    BY <1>1 DEF IInv, DoneInv, NothingLeft, AllBufIdle
  <2>. QED
    BY <1>7, <2>1, <2>2 DEF DoneInv
<1>. QED
  BY <1>8, <1>11, <1>13, <1>14, <1>15, <1>16 DEF IInv

-----------------------------------------------------------------------------
(* A slice is written back; with the last task of its part the input buffer *)
(* goes, and with the last part of its chunk the edge buffer.               *)

\* The chunk goes on: it waits for one part less.
LEMMA PartGoes ==
  ASSUME IInv, NEW i \in Bufs, inbuf[i].state = "DRAINING",
         NEW e, e = inbuf[i].ebuf_ptr,
         NEW cnt, cnt = ebuf[e].event_cnt - 1, cnt # 0,
         inbuf' = [inbuf EXCEPT ![i] = IdleInbuf(0)],
         ebuf' = [ebuf EXCEPT ![e] = [@ EXCEPT !.event_cnt = cnt]],
         UNCHANGED <<edge_chunk_cnt, aggr_buf>>
  PROVE  /\ ebuf' \in [Bufs -> EbufType]
         /\ EbufInv' /\ RingInv' /\ InbufInv' /\ PartInv'
         /\ \A j \in Bufs : /\ ebuf'[j].state = "FILLING" <=> ebuf[j].state = "FILLING"
                            /\ ebuf[j].state = "FILLING" => ebuf'[j] = ebuf[j]
<1>. PICK b, eb : b = inbuf[i] /\ eb = ebuf[e]
  OBVIOUS
<1>. PICK c : c = [eb EXCEPT !.event_cnt = cnt]
  OBVIOUS
<1>1. e \in Bufs /\ PartOf(b, eb) /\ eb.state = "DRAINING" /\ eb \in EbufType
  <2>1. e \in Bufs /\ PartOf(b, eb)
    BY DEF IInv, InbufInv
  <2>. QED
    BY <2>1 DEF PartOf, IInv, TypeInv
<1>2. /\ c \in EbufType /\ c.state = "DRAINING" /\ c.event_cnt = cnt
      /\ c.start_vertex = eb.start_vertex /\ c.end_vertex = eb.end_vertex
      /\ c.edge_chunk_id = eb.edge_chunk_id /\ c.edge_part_cnt = eb.edge_part_cnt
  <2>1. cnt \in Int
    BY <1>1 DEF EbufType
  <2>. QED
    BY <1>1, <2>1 DEF EbufType
<1>3. ebuf' = [ebuf EXCEPT ![e] = c]
  BY <1>1
<1>4. /\ ebuf' \in [Bufs -> EbufType] /\ ebuf'[e] = c
      /\ \A j \in Bufs : j # e => ebuf'[j] = ebuf[j]
  BY <1>1, <1>2, <1>3, EbufStep DEF IInv, TypeInv
<1>5. inbuf'[i] = IdleInbuf(0) /\ \A j \in Bufs : j # i => inbuf'[j] = inbuf[j]
  BY DEF IInv, TypeInv
<1>6. \A j \in Bufs :
        /\ ebuf'[j].state = ebuf[j].state
        /\ ebuf'[j].edge_chunk_id = ebuf[j].edge_chunk_id
        /\ ebuf'[j].start_vertex = ebuf[j].start_vertex
        /\ ebuf'[j].end_vertex = ebuf[j].end_vertex
        /\ ebuf'[j].edge_part_cnt = ebuf[j].edge_part_cnt
        /\ ebuf[j].state # "DRAINING" => ebuf'[j] = ebuf[j]
  BY <1>1, <1>2, <1>4
<1>7. 0 \in Bufs /\ 1 \in Bufs
  BY DEF Bufs
<1>8. NextChunk' = NextChunk
  BY <1>6, <1>7 DEF NextChunk, Waiting, Waits
<1>9. EbufInv'
  <2>1. \A j \in Bufs : EbufOK(ebuf'[j], NextChunk', edge_chunk_cnt')
    <3>. SUFFICES ASSUME NEW j \in Bufs PROVE EbufOK(ebuf'[j], NextChunk, edge_chunk_cnt)
      BY <1>8
    <3>1. EbufOK(ebuf[j], NextChunk, edge_chunk_cnt)
      BY DEF IInv, EbufInv
    <3>2. ebuf[j].state = "IDLE" => ebuf'[j] = ebuf[j]
      BY <1>6
    <3>. QED
      BY <1>6, <3>1, <3>2 DEF EbufOK, HoldsChunk, Waits
  <2>. QED
    BY <1>6, <1>7, <2>1 DEF IInv, EbufInv
<1>10. RingInv'
  BY <1>6, <1>8 DEF IInv, RingInv
<1>11. InbufInv'
  <2>1. \A j \in Bufs : j # i /\ inbuf[j].state # "IDLE" =>
          inbuf[j].ebuf_ptr \in Bufs /\ PartOf(inbuf[j], ebuf'[inbuf[j].ebuf_ptr])
    <3>. SUFFICES ASSUME NEW j \in Bufs, inbuf[j].state # "IDLE"
                  PROVE  /\ inbuf[j].ebuf_ptr \in Bufs
                         /\ PartOf(inbuf[j], ebuf'[inbuf[j].ebuf_ptr])
      OBVIOUS
    <3>. PICK d : d = inbuf[j].ebuf_ptr
      OBVIOUS
    <3>1. d \in Bufs /\ PartOf(inbuf[j], ebuf[d])
      BY DEF IInv, InbufInv
    <3>2. PartOf(inbuf[j], ebuf'[d])
      BY <1>6, <3>1 DEF PartOf
    <3>. QED
      BY <3>1, <3>2
  <2>2. IdleInbuf(0).state = "IDLE"
    BY DEF IdleInbuf
  <2>3. \A j \in Bufs :
          /\ inbuf'[j].state = "IDLE" => inbuf'[j] = IdleInbuf(0)
          /\ inbuf'[j].state # "IDLE" =>
               /\ inbuf'[j].ebuf_ptr \in Bufs
               /\ PartOf(inbuf'[j], ebuf'[inbuf'[j].ebuf_ptr])
    BY <1>5, <2>1, <2>2 DEF IInv, InbufInv
  <2>4. \A j \in Bufs :
          /\ inbuf'[j].state = "FILLING" => inbuf'[j].feature_chunk_cnt = 0
          /\ inbuf'[j].state = "READY" =>
               /\ inbuf'[j].feature_chunk_cnt = 0
               /\ inbuf'[j].vertex_ptr = inbuf'[j].start_vertex
          /\ inbuf'[j].state = "DRAINING" => TaskPtrOK(inbuf'[j])
    BY <1>5, <2>2 DEF IInv, InbufInv
  <2>5. \A s \in {"FILLING", "DRAINING"} :
          ~(inbuf'[0].state = s /\ inbuf'[1].state = s)
    BY <1>5, <1>7, <2>2 DEF IInv, InbufInv
  <2>. QED
    BY <2>3, <2>4, <2>5 DEF InbufInv
<1>12. PartInv'
  <2>. PICK o, n, p : o = 1 - i /\ n = NumPart(eb.edge_chunk_id) /\ p = eb.edge_part_cnt
    OBVIOUS
  <2>1. On(IdleInbuf(0), e) = 0 /\ On(b, e) = 1 /\ On(inbuf[o], e) \in Int
    BY <1>1 DEF On, IdleInbuf, None, Bufs
  <2>2. o \in Bufs /\ inbuf'[o] = inbuf[o] /\ ((i = 0 /\ o = 1) \/ (i = 1 /\ o = 0))
    <3>1. o \in Bufs /\ o # i /\ (i = 0 \/ i = 1)
      BY OtherBuffer
    <3>2. inbuf'[o] = inbuf[o]
      BY <1>5, <3>1
    <3>. QED
      BY <3>1, <3>2
  <2>3. eb.event_cnt = On(inbuf[0], e) + On(inbuf[1], e) + n - p
    BY <1>1 DEF IInv, PartInv
  <2>4. n \in Int /\ p \in Int /\ eb.event_cnt \in Int
    <3>1. HoldsChunk(eb)
      BY <1>1 DEF IInv, EbufInv, EbufOK
    <3>2. n \in Int
      BY <3>1, AggrAssumption DEF HoldsChunk, NumPart
    <3>. QED
      BY <1>1, <3>2 DEF EbufType
  <2>5. cnt = On(inbuf'[0], e) + On(inbuf'[1], e) + n - p
    <3>1. CASE i = 0 /\ o = 1
      BY <1>5, <2>1, <2>2, <2>3, <2>4, <3>1
    <3>2. CASE i = 1 /\ o = 0
      BY <1>5, <2>1, <2>2, <2>3, <2>4, <3>2
    <3>. QED
      BY <2>2, <3>1, <3>2
  <2>6. \A j \in Bufs : ebuf'[j].state = "DRAINING" => j = e
    BY <1>1, <1>6, EbufsDiffer DEF IInv
  <2>. QED
    BY <1>2, <1>4, <2>5, <2>6 DEF PartInv
<1>. QED
  BY <1>4, <1>6, <1>9, <1>10, <1>11, <1>12

\* The chunk is published: the other input buffer is empty.
LEMMA ChunkGoes ==
  ASSUME IInv, NEW i \in Bufs, inbuf[i].state = "DRAINING",
         NEW e, e = inbuf[i].ebuf_ptr, ebuf[e].event_cnt = 1,
         inbuf' = [inbuf EXCEPT ![i] = IdleInbuf(0)],
         ebuf' = [ebuf EXCEPT ![e] = IdleEbuf(0)],
         aggr_buf' = ConfirmAggr(aggr_buf, ebuf[e].end_vertex - ebuf[e].start_vertex),
         UNCHANGED edge_chunk_cnt
  PROVE  /\ ebuf' \in [Bufs -> EbufType] /\ aggr_buf' \in AggrBufType
         /\ EbufInv' /\ RingInv' /\ InbufInv' /\ PartInv'
         /\ \A j \in Bufs : /\ ebuf'[j].state = "FILLING" <=> ebuf[j].state = "FILLING"
                            /\ ebuf[j].state = "FILLING" => ebuf'[j] = ebuf[j]
<1>. PICK b, eb, o : b = inbuf[i] /\ eb = ebuf[e] /\ o = 1 - i
  OBVIOUS
<1>. PICK id, k : id = eb.edge_chunk_id /\ k = eb.end_vertex - eb.start_vertex
  OBVIOUS
<1>1. e \in Bufs /\ PartOf(b, eb) /\ eb.state = "DRAINING" /\ eb \in EbufType
  <2>1. e \in Bufs /\ PartOf(b, eb)
    BY DEF IInv, InbufInv
  <2>. QED
    BY <2>1 DEF PartOf, IInv, TypeInv
<1>2. /\ HoldsChunk(eb) /\ id \in Chunks /\ id \in Nat
      /\ id = NextChunk - 1 /\ eb.edge_part_cnt \in 0..NumPart(id)
  <2>1. EbufOK(eb, NextChunk, edge_chunk_cnt)
    BY <1>1 DEF IInv, EbufInv
  <2>2. /\ HoldsChunk(eb) /\ id = NextChunk - 1
        /\ eb.edge_part_cnt \in 0..NumPart(NextChunk - 1)
    BY <1>1, <2>1 DEF EbufOK
  <2>. QED
    BY <2>2, AggrAssumption DEF HoldsChunk, Chunks
<1>3. /\ o \in Bufs /\ o # i /\ ((i = 0 /\ o = 1) \/ (i = 1 /\ o = 0))
      /\ \A j \in Bufs : j = i \/ j = o
  <2>1. o \in Bufs /\ o # i /\ (i = 0 \/ i = 1) /\ \A j \in Bufs : j = i \/ j = o
    BY OtherBuffer
  <2>. QED
    BY <2>1
<1>4. \A j \in Bufs : j # e => ebuf[j].state # "DRAINING"
  BY <1>1, EbufsDiffer DEF IInv
<1>5. inbuf[o] = IdleInbuf(0)
  <2>. SUFFICES ASSUME inbuf[o].state # "IDLE" PROVE FALSE
    BY <1>3 DEF IInv, InbufInv
  <2>1. inbuf[o].ebuf_ptr = e
    BY <1>3, <1>4 DEF IInv, InbufInv, PartOf
  <2>2. On(b, e) = 1 /\ On(inbuf[o], e) = 1
    BY <2>1 DEF On
  <2>3. eb.event_cnt = On(inbuf[0], e) + On(inbuf[1], e) + NumPart(id) - eb.edge_part_cnt
    BY <1>1 DEF IInv, PartInv
  <2>4. On(inbuf[0], e) + On(inbuf[1], e) = 2
    BY <1>3, <2>2
  <2>5. NumPart(id) \in Nat
    BY <1>2, AggrAssumption DEF NumPart
  <2>6. 1 = 2 + NumPart(id) - eb.edge_part_cnt
    BY <2>3, <2>4
  <2>. QED
    BY <1>2, <2>5, <2>6
<1>6. IdleEbuf(0) \in EbufType /\ IdleEbuf(0).state = "IDLE"
  BY DEF IdleEbuf, EbufType, BufState, None
<1>7. /\ ebuf' \in [Bufs -> EbufType] /\ ebuf'[e] = IdleEbuf(0)
      /\ \A j \in Bufs : j # e => ebuf'[j] = ebuf[j]
  BY <1>1, <1>6, EbufStep DEF IInv, TypeInv
<1>8. \A j \in Bufs : inbuf'[j] = IdleInbuf(0)
  <2>1. inbuf'[i] = IdleInbuf(0) /\ \A j \in Bufs : j # i => inbuf'[j] = inbuf[j]
    BY DEF IInv, TypeInv
  <2>. QED
    BY <1>3, <1>5, <2>1
<1>9. 0 \in Bufs /\ 1 \in Bufs
  BY DEF Bufs
<1>10. NextChunk' = NextChunk
  <2>1. \A j \in Bufs : Waits(ebuf'[j]) <=> Waits(ebuf[j])
    BY <1>1, <1>6, <1>7 DEF Waits
  <2>. QED
    BY <1>9, <2>1 DEF NextChunk, Waiting
<1>11. EbufInv'
  <2>1. EbufOK(IdleEbuf(0), NextChunk, edge_chunk_cnt)
    BY DEF EbufOK, IdleEbuf, Waits
  <2>2. \A j \in Bufs : EbufOK(ebuf'[j], NextChunk', edge_chunk_cnt')
    BY <1>7, <1>10, <2>1 DEF IInv, EbufInv
  <2>3. ebuf'[0].state # "IDLE" /\ ebuf'[1].state # "IDLE" =>
          ebuf'[0].edge_chunk_id # ebuf'[1].edge_chunk_id
    BY <1>1, <1>6, <1>7, <1>9 DEF Bufs
  <2>. QED
    BY <2>2, <2>3 DEF EbufInv
<1>12. /\ eb.start_vertex = Bound(id) /\ k \in Nat /\ Bound(id) + k = Bound(NextChunk)
       /\ Bound(id) \in Nat
  <2>1. /\ Bound(id) = start_vertex_of_echunk[id]
        /\ Bound(id + 1) = end_vertex_of_echunk[id]
        /\ Bound(id) \in Nat /\ Bound(id + 1) \in Nat /\ Bound(id) < Bound(id + 1)
    BY <1>2, ChunkBounds
  <2>2. eb.start_vertex = Bound(id) /\ eb.end_vertex = Bound(id + 1)
    BY <1>2, <2>1 DEF HoldsChunk
  <2>3. id + 1 = NextChunk
    <3>1. NextChunk \in Int
      BY AggrAssumption DEF NextChunk, Waiting, IInv, TypeInv
    <3>. QED
      BY <1>2, <3>1
  <2>. PICK v, w : v = Bound(id) /\ w = Bound(id + 1)
    OBVIOUS
  <2>4. k = w - v /\ Bound(NextChunk) = w /\ eb.start_vertex = v
    BY <2>2, <2>3
  <2>5. v \in Nat /\ w \in Nat /\ v < w
    BY <2>1
  <2>6. k \in Nat /\ v + k = w
    BY <2>4, <2>5
  <2>. QED
    BY <2>4, <2>5, <2>6
<1>13. /\ aggr_buf' \in AggrBufType
       /\ aggr_buf'.ready_ptr = Advance(aggr_buf.ready_ptr, k)
       /\ aggr_buf'.ready_ptr.first = aggr_buf.ready_ptr.first + k
       /\ aggr_buf'.aggr_ptr = aggr_buf.aggr_ptr
       /\ aggr_buf'.comb_ptr = aggr_buf.comb_ptr
       /\ aggr_buf'.done_ptr = aggr_buf.done_ptr
  <2>1. aggr_buf' = ConfirmAggr(aggr_buf, k) /\ k \in Nat
    BY <1>12
  <2>2. aggr_buf \in AggrBufType
    BY DEF IInv, TypeInv
  <2>. QED
    BY <2>1, <2>2, ConfirmAggrType
<1>14. /\ aggr_buf.ready_ptr \in Ptr /\ aggr_buf.ready_ptr.first = Bound(id)
       /\ aggr_buf.ready_ptr.first \in Nat /\ aggr_buf.comb_ptr.first \in Nat
  <2>1. aggr_buf.ready_ptr.first = Bound(id)
    BY <1>1, <1>12 DEF IInv, RingInv
  <2>. QED
    BY <2>1 DEF IInv, TypeInv, AggrBufType, Ptr
<1>15. RingInv'
  <2>1. OnRing(aggr_buf'.ready_ptr)
    BY <1>12, <1>13, <1>14, AdvanceOnRing DEF IInv, RingInv
  <2>2. aggr_buf'.ready_ptr.first = aggr_buf'.aggr_ptr.first
    BY <1>12, <1>13, <1>14 DEF IInv, RingInv
  <2>3. aggr_buf'.aggr_ptr.first = Bound(NextChunk')
    BY <1>10, <1>13 DEF IInv, RingInv
  <2>4. \A j \in Bufs : ebuf'[j].state # "DRAINING"
    BY <1>4, <1>6, <1>7
  <2>5. aggr_buf'.comb_ptr.first <= aggr_buf'.ready_ptr.first
    <3>1. aggr_buf.comb_ptr.first <= aggr_buf.ready_ptr.first
      BY DEF IInv, RingInv
    <3>. QED
      BY <1>12, <1>13, <1>14, <3>1, SMTT(30)
  <2>6. aggr_buf'.done_ptr.first <= aggr_buf'.comb_ptr.first
    BY <1>13 DEF IInv, RingInv
  <2>. QED
    BY <2>1, <2>2, <2>3, <2>4, <2>5, <2>6 DEF RingInv
<1>16. InbufInv'
  BY <1>8, <1>9 DEF InbufInv, IdleInbuf
<1>17. PartInv'
  BY <1>4, <1>6, <1>7 DEF PartInv
<1>18. \A j \in Bufs : /\ ebuf'[j].state = "FILLING" <=> ebuf[j].state = "FILLING"
                       /\ ebuf[j].state = "FILLING" => ebuf'[j] = ebuf[j]
  BY <1>1, <1>6, <1>7
<1>. QED
  BY <1>7, <1>11, <1>13, <1>15, <1>16, <1>17, <1>18

\* A core writes its slice back.
LEMMA SimdWritesBackStep == IInv /\ SimdWritesBack => IInv'
<1>. SUFFICES ASSUME IInv, SimdWritesBack PROVE IInv'
  OBVIOUS
<1>. PICK t, i : t = simds[core] /\ i = simds[core].inbuf_ptr
  OBVIOUS
<1>. PICK b, S : b = inbuf[i] /\ S = BusyOn(i)
  OBVIOUS
<1>. PICK cnt : cnt = b.event_cnt - 1
  OBVIOUS
<1>1. /\ core \in Simds /\ num_simd \in Nat \ {0} /\ core \in Nat
  BY AggrAssumption DEF IInv, TypeInv, Simds
<1>2. core' \in Simds /\ pc' \in {"edge", "simd"} /\ pc = "simd"
  BY <1>1 DEF SimdWritesBack, NextCore, Simds
<1>3. /\ t.state = "COMPUTING" /\ i \in Bufs /\ b.state = "DRAINING" /\ b \in InbufType
      /\ TaskPtrOK(b)
  <2>1. t.state = "COMPUTING"
    BY DEF SimdWritesBack, TaskEnds
  <2>2. CoreOK(t)
    BY <1>1, <2>1 DEF IInv, CoreInv
  <2>3. i \in Bufs /\ b.state = "DRAINING"
    BY <2>2 DEF CoreOK
  <2>. QED
    BY <2>1, <2>3 DEF IInv, TypeInv, InbufInv
<1>4. \A j \in Bufs : j # i => inbuf[j].state # "DRAINING"
  BY <1>3, InbufsDiffer DEF IInv
<1>5. \A k \in Simds : simds[k].state = "COMPUTING" => CoreOK(simds[k]) /\ k \in S
  <2>1. \A k \in Simds : simds[k].state = "COMPUTING" => CoreOK(simds[k])
    BY DEF IInv, CoreInv
  <2>2. \A k \in Simds : simds[k].state = "COMPUTING" => simds[k].inbuf_ptr = i
    BY <1>4, <2>1 DEF CoreOK
  <2>. QED
    BY <2>1, <2>2 DEF BusyOn
<1>6. /\ core \in S /\ IsFiniteSet(S) /\ Cardinality(S) \in Nat
      /\ Cardinality(S \ {core}) = Cardinality(S) - 1 /\ IsFiniteSet(S \ {core})
      /\ Cardinality(S \ {core}) \in Nat
  <2>1. S \in SUBSET Simds
    BY DEF BusyOn
  <2>2. core \in S
    BY <1>1, <1>3, <1>5
  <2>3. IsFiniteSet(S)
    BY <2>1, SimdsFinite, FS_Subset
  <2>. QED
    BY <2>2, <2>3, FS_RemoveElement, FS_CardinalityType
<1>7. b.event_cnt = Cardinality(S) + TasksLeft(b) /\ TasksLeft(b) \in Nat
  BY <1>3, TasksLeftNat DEF IInv, TaskInv
<1>8. /\ simds' \in [Simds -> SimdType] /\ simds'[core].state = "IDLE"
      /\ \A k \in Simds : k # core => simds'[k] = simds[k]
  <2>1. IdleSimd \in SimdType /\ IdleSimd.state = "IDLE"
    BY DEF IdleSimd, SimdType, None
  <2>2. simds' = [simds EXCEPT ![core] = IdleSimd]
    BY DEF SimdWritesBack
  <2>. QED
    BY <1>1, <2>1, <2>2 DEF IInv, TypeInv
<1>9. BusyOn(i)' = S \ {core}
  BY <1>8 DEF BusyOn
<1>10. /\ pending' \in [DataType -> Nat]
       /\ pending'["AGGR_FEATURE"] = pending["AGGR_FEATURE"] + 1
       /\ pending'["EDGE"] = pending["EDGE"]
       /\ pending'["INPUT_FEATURE"] = pending["INPUT_FEATURE"]
       /\ event_out' = event_out + 1 /\ event_out' \in Nat
  <2>1. pending["AGGR_FEATURE"] + 1 \in Nat /\ 1 \in Int /\ "AGGR_FEATURE" \in DataType
    BY DEF DataType, IInv, TypeInv
  <2>2. AddEvents("AGGR_FEATURE", 1)
    BY DEF SimdWritesBack
  <2>3. /\ pending' \in [DataType -> Nat]
        /\ pending'["AGGR_FEATURE"] = pending["AGGR_FEATURE"] + 1
        /\ \A u \in DataType : u # "AGGR_FEATURE" => pending'[u] = pending[u]
    BY <2>1, <2>2, EventsStep DEF IInv, TypeInv
  <2>. QED
    BY <2>3 DEF DataType, SimdWritesBack, IInv, TypeInv
<1>11. /\ UNCHANGED <<edge_chunk_cnt, event_in, is_done>> /\ ~is_done
       /\ inbuf' = [inbuf EXCEPT ![i] =
                      IF cnt = 0 THEN IdleInbuf(0) ELSE [@ EXCEPT !.event_cnt = cnt]]
       /\ IF cnt = 0 THEN ConfirmPart(b.ebuf_ptr) ELSE UNCHANGED <<ebuf, aggr_buf>>
  BY <1>3 DEF SimdWritesBack, IInv, DoneInv, NothingLeft, AllBufIdle
<1>12. DoneInv'
  BY <1>2, <1>11 DEF DoneInv
<1>13. event_out' = event_in' + pending'["AGGR_FEATURE"]
  BY <1>10, <1>11 DEF IInv, EventInv, TypeInv, DataType
<1>14. CASE cnt # 0
  <2>. PICK c : c = [b EXCEPT !.event_cnt = cnt]
    OBVIOUS
  <2>1. /\ c \in InbufType /\ c.state = b.state /\ c.event_cnt = cnt
        /\ c.start_vertex = b.start_vertex /\ c.end_vertex = b.end_vertex
        /\ c.ebuf_ptr = b.ebuf_ptr /\ c.input_edge = b.input_edge
        /\ c.non_empty_vertex = b.non_empty_vertex
        /\ c.vertex_ptr = b.vertex_ptr /\ c.feature_chunk_cnt = b.feature_chunk_cnt
    <3>1. cnt \in Int
      BY <1>3 DEF InbufType
    <3>. QED
      BY <1>3, <3>1 DEF InbufType
  <2>2. inbuf' = [inbuf EXCEPT ![i] = c] /\ UNCHANGED <<ebuf, aggr_buf>>
    BY <1>3, <1>11, <1>14
  <2>3. TaskPtrOK(c) /\ TasksLeft(c) = TasksLeft(b)
    BY <1>3, <2>1 DEF TaskPtrOK, TasksLeft
  <2>4. /\ inbuf' \in [Bufs -> InbufType] /\ inbuf'[i] = c
        /\ \A j \in Bufs : j # i => inbuf'[j] = inbuf[j] /\ inbuf[j].state # "DRAINING"
        /\ InbufInv' /\ PartInv'
        /\ \A j \in Bufs : inbuf'[j].state = inbuf[j].state
    <3>1. /\ inbuf[i].state = "DRAINING" /\ c.state = "DRAINING" /\ UNCHANGED ebuf
          /\ c.start_vertex = inbuf[i].start_vertex /\ c.end_vertex = inbuf[i].end_vertex
          /\ c.ebuf_ptr = inbuf[i].ebuf_ptr /\ c.input_edge = inbuf[i].input_edge
          /\ c.non_empty_vertex = inbuf[i].non_empty_vertex
      BY <1>3, <2>1, <2>2
    <3>. QED
      BY <1>3, <2>1, <2>2, <2>3, <3>1, TaskMoves
  <2>5. TypeInv'
    BY <1>2, <1>8, <1>10, <1>11, <2>2, <2>4 DEF IInv, TypeInv, PC
  <2>6. EbufInv' /\ RingInv'
    BY <1>11, <2>2 DEF IInv, EbufInv, RingInv, NextChunk
  <2>7. CoreInv'
    <3>1. \A k \in Simds : simds'[k].state = "COMPUTING" => CoreOK(simds[k])'
      <4>. SUFFICES ASSUME NEW k \in Simds, simds'[k].state = "COMPUTING"
                    PROVE  CoreOK(simds[k])'
        OBVIOUS
      <4>. PICK u : u = simds[k]
        OBVIOUS
      <4>1. simds'[k] = u /\ CoreOK(u) /\ u.inbuf_ptr = i
        BY <1>5, <1>8 DEF BusyOn
      <4>2. c.state = "DRAINING" /\ inbuf'[i] = c
        BY <1>3, <2>1, <2>4
      <4>3. /\ u.feature_chunk_id \in 0..(num_feature_chunk - 1)
            /\ c.start_vertex <= u.vertex_id /\ u.vertex_id < c.end_vertex
            /\ \/ u.vertex_id < c.vertex_ptr
               \/ u.vertex_id = c.vertex_ptr /\ u.feature_chunk_id < c.feature_chunk_cnt
        BY <2>1, <4>1 DEF CoreOK
      <4>. QED
        BY <1>3, <4>1, <4>2, <4>3 DEF CoreOK
    <3>2. \A k \in Simds : simds'[k].state = "COMPUTING" => simds'[k] = simds[k]
      BY <1>8
    <3>. QED
      BY <3>1, <3>2 DEF IInv, CoreInv
  <2>8. TaskInv'
    <3>1. cnt = Cardinality(S \ {core}) + TasksLeft(c)
      BY <1>6, <1>7, <2>3
    <3>. QED
      BY <1>9, <2>1, <2>4, <3>1 DEF TaskInv
  <2>9. EventInv'
    <3>1. \A j \in Bufs : inbuf[j].state = "FILLING" => inbuf'[j] = inbuf[j]
      BY <1>3, <2>4
    <3>2. \A j \in Bufs : inbuf'[j].state = "FILLING" <=> inbuf[j].state = "FILLING"
      BY <2>4
    <3>3. UNCHANGED ebuf /\ EventInv
      BY <2>2 DEF IInv
    <3>. QED
      BY <1>10, <1>13, <3>1, <3>2, <3>3 DEF EventInv
  <2>. QED
    BY <1>12, <2>4, <2>5, <2>6, <2>7, <2>8, <2>9 DEF IInv
<1>15. CASE cnt = 0
  <2>. PICK e : e = b.ebuf_ptr
    OBVIOUS
  <2>1. Cardinality(S \ {core}) = 0
    BY <1>6, <1>7, <1>15
  <2>2. S \ {core} = {}
    BY <1>6, <2>1, FS_EmptySet
  <2>3. \A k \in Simds : simds'[k].state # "COMPUTING"
    BY <1>5, <1>8, <2>2
  <2>4. inbuf' = [inbuf EXCEPT ![i] = IdleInbuf(0)] /\ ConfirmPart(e)
    BY <1>11, <1>15
  <2>5. /\ inbuf' \in [Bufs -> InbufType] /\ inbuf'[i] = IdleInbuf(0)
        /\ \A j \in Bufs : j # i => inbuf'[j] = inbuf[j]
    <3>1. IdleInbuf(0) \in InbufType
      BY DEF IdleInbuf, InbufType, BufState, None
    <3>. QED
      BY <1>3, <2>4, <3>1, InbufStep DEF IInv, TypeInv
  <2>6. /\ ebuf' \in [Bufs -> EbufType] /\ aggr_buf' \in AggrBufType
        /\ EbufInv' /\ RingInv' /\ InbufInv' /\ PartInv'
        /\ \A j \in Bufs : /\ ebuf'[j].state = "FILLING" <=> ebuf[j].state = "FILLING"
                           /\ ebuf[j].state = "FILLING" => ebuf'[j] = ebuf[j]
    <3>. PICK ecnt : ecnt = ebuf[e].event_cnt - 1
      OBVIOUS
    <3>0. inbuf[i].state = "DRAINING" /\ e = inbuf[i].ebuf_ptr /\ UNCHANGED edge_chunk_cnt
      BY <1>3, <1>11
    <3>1. CASE ecnt # 0
      <4>1. /\ ebuf' = [ebuf EXCEPT ![e] = [@ EXCEPT !.event_cnt = ecnt]]
            /\ UNCHANGED <<edge_chunk_cnt, aggr_buf>>
        BY <2>4, <3>0, <3>1 DEF ConfirmPart
      <4>2. aggr_buf' \in AggrBufType
        BY <4>1 DEF IInv, TypeInv
      <4>. QED
        BY <1>3, <2>4, <3>0, <3>1, <4>1, <4>2, PartGoes
    <3>2. CASE ecnt = 0
      <4>1. /\ ebuf' = [ebuf EXCEPT ![e] = IdleEbuf(0)]
            /\ aggr_buf' =
                 ConfirmAggr(aggr_buf, ebuf[e].end_vertex - ebuf[e].start_vertex)
        BY <2>4, <3>2 DEF ConfirmPart
      <4>2. ebuf[e].event_cnt = 1
        <5>1. ebuf[e].event_cnt \in Int
          BY <3>0, <1>3 DEF IInv, InbufInv, TypeInv, EbufType
        <5>. QED
          BY <3>2, <5>1
      <4>. QED
        BY <1>3, <2>4, <3>0, <4>1, <4>2, ChunkGoes
    <3>. QED
      BY <3>1, <3>2
  <2>7. TypeInv'
    BY <1>2, <1>8, <1>10, <1>11, <2>5, <2>6 DEF IInv, TypeInv, PC
  <2>8. CoreInv'
    BY <2>3 DEF CoreInv
  <2>9. \A j \in Bufs : /\ inbuf'[j].state # "DRAINING"
                        /\ inbuf'[j].state = "FILLING" <=> inbuf[j].state = "FILLING"
                        /\ inbuf[j].state = "FILLING" => inbuf'[j] = inbuf[j]
    BY <1>3, <1>4, <2>5 DEF IdleInbuf
  <2>10. TaskInv'
    BY <2>9 DEF TaskInv
  <2>11. EventInv'
    BY <1>10, <1>13, <2>6, <2>9 DEF IInv, EventInv
  <2>. QED
    BY <1>12, <2>6, <2>7, <2>8, <2>10, <2>11 DEF IInv
<1>. QED
  BY <1>14, <1>15

-----------------------------------------------------------------------------
(* The theorems.                                                           *)

\* Every step, and every stutter, keeps the invariant.
LEMMA NextInv == IInv /\ [Next]_vars => IInv'
<1>. SUFFICES ASSUME IInv, [Next]_vars PROVE IInv'
  OBVIOUS
<1>1. CASE Return
  BY <1>1, ReturnEdgeStep, ReturnInputStep, ReturnAggrStep DEF Return
<1>2. CASE ClockTick
  BY <1>2, SimdComputesStep, SimdWritesBackStep, FetchEdgesStep, FetchPartStep,
     StartChunkStep, StartDrainingStep, SkipVertexStep, AssignTaskStep, TurnSteps
     DEF ClockTick
<1>3. CASE CombTakes \/ CombReleases
  BY <1>3, CombTakesStep, CombReleasesStep
<1>4. CASE UNCHANGED vars
  <2>1. /\ UNCHANGED <<simds, ebuf, inbuf, edge_chunk_cnt, event_out, event_in,
                       aggr_buf, pending>>
        /\ pc' = pc /\ core' = core /\ is_done' = is_done
    BY <1>4 DEF vars
  <2>2. DoneInv'
    BY <2>1 DEF IInv, DoneInv, NothingLeft, AllBufIdle
  <2>3. pc' \in PC /\ core' \in Simds /\ is_done' \in BOOLEAN
    BY <2>1 DEF IInv, TypeInv
  <2>. QED
    BY <2>1, <2>2, <2>3, TurnStep
<1>. QED
  BY <1>1, <1>2, <1>3, <1>4 DEF Next

\* The invariant holds in every reachable state, for every layer, graph,
\* number of cores and slices and size of the ring.
THEOREM Invariance == SafeSpec => []IInv
BY Initial, NextInv, PTL DEF SafeSpec

\* The chunk being aggregated is the reserved part of the ring.
LEMMA DrainedChunk ==
  ASSUME IInv, NEW e \in Bufs, ebuf[e].state = "DRAINING"
  PROVE  /\ ebuf[e].start_vertex = aggr_buf.ready_ptr.first
         /\ ebuf[e].end_vertex = aggr_buf.aggr_ptr.first
         /\ ebuf[e].start_vertex \in Nat /\ ebuf[e].end_vertex \in Nat
         /\ ebuf[e].start_vertex < ebuf[e].end_vertex
<1>. PICK eb, n : eb = ebuf[e] /\ n = eb.edge_chunk_id
  OBVIOUS
<1>1. HoldsChunk(eb) /\ n = NextChunk - 1 /\ n \in Chunks
  BY DEF IInv, EbufInv, EbufOK, HoldsChunk
<1>2. NextChunk \in Int
  BY AggrAssumption DEF NextChunk, Waiting, IInv, TypeInv
<1>3. NextChunk = n + 1
  BY <1>1, <1>2
<1>4. /\ Bound(n) = start_vertex_of_echunk[n] /\ Bound(n + 1) = end_vertex_of_echunk[n]
      /\ Bound(n) \in Nat /\ Bound(n + 1) \in Nat /\ Bound(n) < Bound(n + 1)
  BY <1>1, ChunkBounds
<1>5. eb.start_vertex = Bound(n) /\ eb.end_vertex = Bound(n + 1)
  BY <1>1, <1>4 DEF HoldsChunk
<1>6. aggr_buf.aggr_ptr.first = Bound(n + 1) /\ aggr_buf.ready_ptr.first = eb.start_vertex
  BY <1>3 DEF IInv, RingInv
<1>. QED
  BY <1>4, <1>5, <1>6

\* One chunk at a time and in order, whichever buffer it is in and whenever
\* its edges came.
THEOREM ChunksDrainInOrder == SafeSpec => []DrainInOrder
<1>1. IInv => DrainInOrder
  BY DrainedChunk DEF IInv, RingInv, DrainInOrder
<1>. QED
  BY <1>1, Invariance, PTL

\* A busy core's buffers and vertex.
LEMMA BusyCore ==
  ASSUME IInv, NEW i \in Busy
  PROVE  /\ simds[i].inbuf_ptr \in Bufs
         /\ inbuf[simds[i].inbuf_ptr].state = "DRAINING"
         /\ inbuf[simds[i].inbuf_ptr].ebuf_ptr \in Bufs
         /\ ebuf[inbuf[simds[i].inbuf_ptr].ebuf_ptr].state = "DRAINING"
         /\ aggr_buf.ready_ptr.first \in Nat /\ simds[i].vertex_id \in Nat
         /\ aggr_buf.ready_ptr.first <= simds[i].vertex_id
         /\ simds[i].vertex_id < aggr_buf.aggr_ptr.first
         /\ simds[i].feature_chunk_id \in Nat
<1>. PICK t : t = simds[i]
  OBVIOUS
<1>. PICK ib : ib = inbuf[t.inbuf_ptr]
  OBVIOUS
<1>. PICK eb : eb = ebuf[ib.ebuf_ptr]
  OBVIOUS
<1>1. CoreOK(t) /\ t \in SimdType
  BY DEF Busy, IInv, CoreInv, TypeInv
<1>2. t.inbuf_ptr \in Bufs /\ ib.state = "DRAINING" /\ ib \in InbufType
  BY <1>1 DEF CoreOK, IInv, TypeInv
<1>3. ib.ebuf_ptr \in Bufs /\ PartOf(ib, eb)
  BY <1>2 DEF IInv, InbufInv
<1>4. /\ eb.start_vertex = aggr_buf.ready_ptr.first /\ eb.start_vertex \in Nat
      /\ eb.end_vertex = aggr_buf.aggr_ptr.first /\ eb.state = "DRAINING"
  BY <1>3, DrainedChunk DEF PartOf
<1>. PICK v, w, n : v = ib.start_vertex /\ w = ib.end_vertex /\ n = Len(ib.input_edge)
  OBVIOUS
<1>5. v \in Int /\ w \in Int /\ v = eb.start_vertex /\ v + n = eb.end_vertex
  BY <1>2, <1>3 DEF PartOf, InbufType
<1>6. w - v \in 1..n /\ n \in Nat
  BY <1>2, <1>3, NonEmptyFinite DEF PartOf, InbufType
<1>7. w <= eb.end_vertex
  BY <1>5, <1>6
<1>8. /\ v <= t.vertex_id /\ t.vertex_id < w /\ t.vertex_id \in Int
      /\ t.feature_chunk_id \in Nat
  BY <1>1, AggrAssumption DEF CoreOK, SimdType
<1>9. v \in Nat /\ eb.end_vertex \in Int
  BY <1>4, <1>5, <1>6
<1>. QED
  BY <1>2, <1>3, <1>4, <1>5, <1>7, <1>8, <1>9

\* The cores work side by side, on buffers that are being drained and on
\* slices that are not another core's.
THEOREM CoresStayApart == SafeSpec => []CoresApart
<1>1. ASSUME IInv PROVE CoreSafe
  BY <1>1, BusyCore DEF CoreSafe
<1>2. IInv => SlicesDistinct
  BY DEF IInv, CoreInv, SlicesDistinct, Busy
<1>. QED
  BY <1>1, <1>2, Invariance, PTL DEF CoresApart

\* An address need not be wrapped before something is added to it.
LEMMA RemainderSum ==
  ASSUME NEW c \in Nat \ {0}, NEW a \in Nat, NEW b \in Nat
  PROVE  ((a % c) + b) % c = (a + b) % c
<1>. PICK m : m = a % c
  OBVIOUS
<1>1. m \in Nat
  OBVIOUS
<1>2. (c + m + b) % c = (a + b) % c
  BY RemainderAdd
<1>3. m + b \in Int /\ 1 \in Int /\ (m + b) + 1 * c = c + m + b
  BY <1>1
<1>4. ((m + b) + 1 * c) % c = (m + b) % c
  BY <1>3, RemainderShift
<1>. QED
  BY <1>2, <1>3, <1>4

\* The address of a task is where its slice lives, whatever has been published
\* and released when it is worked out.
THEOREM SlicesInPlace == SafeSpec => []WriteBackInPlace
<1>1. ASSUME IInv PROVE WriteBackInPlace
  <2>. SUFFICES ASSUME NEW i \in Busy
                PROVE  GetAggrWriteAddr(aggr_buf, simds[i].vertex_id,
                                        simds[i].feature_chunk_id * sz_slice)
                       = (RingAddr(simds[i].vertex_id)
                            + simds[i].feature_chunk_id * sz_slice) % cap_edram
    BY DEF WriteBackInPlace
  <2>. PICK v, f, r : /\ v = simds[i].vertex_id /\ f = simds[i].feature_chunk_id
                      /\ r = aggr_buf.ready_ptr.first
    OBVIOUS
  <2>1. PICK off, sz, cap : off = f * sz_slice /\ sz = sz_aggr_vector /\ cap = cap_edram
    OBVIOUS
  <2>2. v \in Nat /\ f \in Nat /\ r \in Nat /\ r <= v
    BY <1>1, BusyCore
  <2>3. off \in Nat /\ sz \in Nat \ {0} /\ cap \in Nat \ {0}
    BY <2>2, <2>1, AggrAssumption, AggrBufAssumption
  <2>4. r * sz \in Nat /\ (v - r) * sz \in Nat /\ v * sz \in Nat
    <3>1. v - r \in Nat
      BY <2>2
    <3>. QED
      BY <2>2, <2>3, <3>1
  <2>5. r * sz + (v - r) * sz = v * sz
    BY <2>2, <2>3
  <2>6. PICK a, b, d : a = r * sz /\ b = (v - r) * sz /\ d = v * sz
    OBVIOUS
  <2>7. a \in Nat /\ b \in Nat /\ d \in Nat /\ a + b = d /\ b + off \in Nat
    BY <2>3, <2>4, <2>5, <2>6
  <2>8. ((a % cap) + (b + off)) % cap = (a + (b + off)) % cap
    BY <2>3, <2>7, RemainderSum
  <2>9. ((d % cap) + off) % cap = (d + off) % cap
    BY <2>3, <2>7, RemainderSum
  <2>10. a + (b + off) = d + off /\ a % cap \in Int
    BY <2>3, <2>7
  <2>11. aggr_buf.ready_ptr.second = a % cap
    BY <1>1, <2>1, <2>6 DEF IInv, RingInv, OnRing, RingAddr
  <2>12. GetAggrWriteAddr(aggr_buf, v, off) = ((a % cap) + b + off) % cap
    BY <2>11, <2>1, <2>6 DEF GetAggrWriteAddr
  <2>13. (a % cap) + b + off = (a % cap) + (b + off)
    BY <2>3, <2>7, <2>10
  <2>14. RingAddr(v) = d % cap
    BY <2>1, <2>6 DEF RingAddr
  <2>. QED
    BY <2>8, <2>9, <2>10, <2>12, <2>13, <2>14, <2>1
<1>. QED
  BY <1>1, Invariance, PTL

\* Buffers are given back by counters that are right.
THEOREM BuffersAccounted == SafeSpec => []BufferAccounting
<1>1. ASSUME IInv PROVE BufferAccounting
  <2>. USE <1>1
  <2>1. ASSUME NEW i \in Bufs, inbuf[i].state = "DRAINING"
        PROVE  inbuf[i].event_cnt =
                 Cardinality({k \in Busy : simds[k].inbuf_ptr = i}) + TasksLeft(inbuf[i])
    <3>1. {k \in Busy : simds[k].inbuf_ptr = i} = BusyOn(i)
      BY DEF Busy, BusyOn
    <3>. QED
      BY <2>1, <3>1 DEF IInv, TaskInv
  <2>2. ASSUME NEW i \in Bufs, ebuf[i].state = "DRAINING"
        PROVE  ebuf[i].event_cnt =
                 Cardinality({k \in Bufs : inbuf[k].ebuf_ptr = i})
                   + NumPart(ebuf[i].edge_chunk_id) - ebuf[i].edge_part_cnt
    <3>. PICK S : S = {k \in Bufs : inbuf[k].ebuf_ptr = i}
      OBVIOUS
    <3>1. S \in SUBSET Bufs
      OBVIOUS
    <3>2. Cardinality(S) = (IF 0 \in S THEN 1 ELSE 0) + (IF 1 \in S THEN 1 ELSE 0)
      BY <3>1, TwoBuffers
    <3>3. Cardinality(S) = On(inbuf[0], i) + On(inbuf[1], i)
      BY <3>2 DEF On, Bufs
    <3>4. ebuf[i].event_cnt = On(inbuf[0], i) + On(inbuf[1], i)
                                + NumPart(ebuf[i].edge_chunk_id) - ebuf[i].edge_part_cnt
      BY <2>2 DEF IInv, PartInv
    <3>. QED
      BY <3>3, <3>4
  <2>3. /\ GetTargetBuf(inbuf, "FILLING") = None => pending["INPUT_FEATURE"] = 0
        /\ GetTargetBuf(ebuf, "FILLING") = None => pending["EDGE"] = 0
    BY TargetBuf DEF IInv, EventInv, Bufs
  <2>4. \A i \in Bufs :
          /\ inbuf[i].state = "FILLING" => inbuf[i].event_cnt = pending["INPUT_FEATURE"]
          /\ ebuf[i].state = "FILLING" => ebuf[i].event_cnt = pending["EDGE"]
    BY DEF IInv, EventInv
  <2>. QED
    BY <2>1, <2>2, <2>3, <2>4 DEF BufferAccounting
<1>. QED
  BY <1>1, Invariance, PTL

\* When nothing is left, all is aggregated and published, and memory owes
\* nothing.
LEMMA DoneFacts ==
  ASSUME IInv, is_done
  PROVE  /\ aggr_buf.ready_ptr.first = NumVertex
         /\ pending = [t \in DataType |-> 0]
<1>1. /\ \A i \in Bufs : inbuf[i].state = "IDLE" /\ ebuf[i].state = "IDLE"
      /\ event_out = event_in /\ edge_chunk_cnt = num_edge_chunk
  BY DEF IInv, DoneInv, NothingLeft, AllBufIdle
<1>2. 0 \in Bufs /\ 1 \in Bufs /\ num_edge_chunk \in Nat \ {0}
  BY AggrAssumption DEF Bufs
<1>3. NextChunk = num_edge_chunk
  BY <1>1, <1>2 DEF NextChunk, Waiting, Waits
<1>4. aggr_buf.ready_ptr.first = Bound(num_edge_chunk)
  BY <1>1, <1>3 DEF IInv, RingInv
<1>5. Bound(num_edge_chunk) = NumVertex
  BY <1>2 DEF Bound, NumVertex
<1>6. /\ pending["EDGE"] = 0 /\ pending["INPUT_FEATURE"] = 0
      /\ event_out = event_in + pending["AGGR_FEATURE"]
  BY <1>1 DEF IInv, EventInv
<1>7. pending \in [DataType -> Nat] /\ event_in \in Nat
  BY DEF IInv, TypeInv
<1>8. pending["AGGR_FEATURE"] = 0
  <2>1. pending["AGGR_FEATURE"] \in Nat
    BY <1>7 DEF DataType
  <2>. QED
    BY <1>1, <1>6, <1>7, <2>1
<1>9. \A t \in DataType : pending[t] = 0
  BY <1>6, <1>8 DEF DataType
<1>10. pending = [t \in DataType |-> 0]
  BY <1>7, <1>9
<1>. QED
  BY <1>4, <1>5, <1>10

\* When the engine is done the whole layer has been aggregated and published.
THEOREM DoneIsComplete == SafeSpec => []DoneComplete
<1>1. ASSUME IInv PROVE DoneComplete
  BY <1>1, DoneFacts DEF DoneComplete
<1>. QED
  BY <1>1, Invariance, PTL

-----------------------------------------------------------------------------
(* The engine and the ring's contract.                                     *)

Pipeline == INSTANCE VertexPipeline WITH
  aggr <- aggr_buf.aggr_ptr.first, ready <- aggr_buf.ready_ptr.first,
  comb <- aggr_buf.comb_ptr.first, done <- aggr_buf.done_ptr.first

\* Some vertices of the layer are reserved, all that was reserved before being
\* published.
Reserves ==
  /\ aggr_buf.ready_ptr.first = aggr_buf.aggr_ptr.first
  /\ \E n \in 1..(NumVertex - aggr_buf.aggr_ptr.first) :
       WillAllocate(aggr_buf, n) /\ aggr_buf' = StartAggr(aggr_buf, n)

\* The step that begins a chunk does that, with the vertices of the chunk.
LEMMA StartReserves ==
  ASSUME IInv, StartChunk PROVE Pipeline!Reserve /\ Reserves
<1>. PICK e, b : e = NextEbuf /\ b = ebuf[e]
  OBVIOUS
<1>. PICK n, k : n = b.edge_chunk_id /\ k = NumVertexOf(e)
  OBVIOUS
<1>1. /\ e \in Bufs /\ b.state = "READY" /\ n = NextChunk
      /\ \A j \in Bufs : ebuf[j].state # "DRAINING"
  BY NextInOrder DEF StartChunk
<1>2. HoldsChunk(b) /\ n \in Chunks
  BY <1>1 DEF IInv, EbufInv, EbufOK, HoldsChunk
<1>. PICK v, w : v = Bound(n) /\ w = Bound(n + 1)
  OBVIOUS
<1>3. /\ v = start_vertex_of_echunk[n] /\ w = end_vertex_of_echunk[n]
      /\ v \in Nat /\ w \in Nat /\ v < w
  BY <1>2, ChunkBounds
<1>4. k = w - v /\ k \in Nat /\ v + k = w
  <2>1. k = w - v
    BY <1>2, <1>3 DEF HoldsChunk, NumVertexOf
  <2>. QED
    BY <1>3, <2>1
<1>5. w <= NumVertex /\ NumVertex \in Nat
  <2>. PICK m : m = num_edge_chunk
    OBVIOUS
  <2>1. n + 1 \in 0..m /\ m \in 0..m /\ m # 0
    <3>1. m \in Nat \ {0}
      BY AggrAssumption
    <3>2. n \in 0..(m - 1)
      BY <1>2 DEF Chunks
    <3>. QED
      BY <3>1, <3>2
  <2>2. w <= NumVertex
    BY <2>1, BoundInLayer
  <2>3. Bound(m) \in Nat /\ Bound(m) = NumVertex
    BY <2>1, BoundInLayer DEF Bound, NumVertex
  <2>. QED
    BY <2>2, <2>3
<1>6. aggr_buf.aggr_ptr.first = v /\ aggr_buf.ready_ptr.first = v
  BY <1>1 DEF IInv, RingInv
<1>7. /\ aggr_buf'.aggr_ptr.first = aggr_buf.aggr_ptr.first + k
      /\ aggr_buf'.ready_ptr = aggr_buf.ready_ptr
      /\ aggr_buf'.comb_ptr = aggr_buf.comb_ptr
      /\ aggr_buf'.done_ptr = aggr_buf.done_ptr
  <2>1. aggr_buf' = StartAggr(aggr_buf, k) /\ aggr_buf \in AggrBufType
    BY DEF StartChunk, IInv, TypeInv
  <2>. QED
    BY <1>4, <2>1, StartAggrType
<1>8. w \in (v + 1)..NumVertex
  BY <1>3, <1>5
<1>9. k \in 1..(NumVertex - v)
  BY <1>3, <1>4, <1>5
<1>10. WillAllocate(aggr_buf, k) /\ aggr_buf' = StartAggr(aggr_buf, k)
  BY DEF StartChunk, CanStartChunk
<1>11. Reserves
  BY <1>6, <1>9, <1>10 DEF Reserves
<1>. QED
  BY <1>4, <1>6, <1>7, <1>8, <1>11 DEF Pipeline!Reserve

\* All that is reserved is published.
Publishes ==
  /\ aggr_buf.ready_ptr.first # aggr_buf.aggr_ptr.first
  /\ aggr_buf' = ConfirmAggr(aggr_buf, aggr_buf.aggr_ptr.first - aggr_buf.ready_ptr.first)

\* The write-back that ends a chunk does that.
LEMMA WriteBackPublishes ==
  ASSUME IInv, SimdWritesBack, aggr_buf' # aggr_buf PROVE Pipeline!Publish /\ Publishes
<1>. PICK i : i = simds[core].inbuf_ptr
  OBVIOUS
<1>. PICK e : e = inbuf[i].ebuf_ptr
  OBVIOUS
<1>1. e \in Bufs /\ ebuf[e].state = "DRAINING"
  <2>1. core \in Busy
    BY DEF SimdWritesBack, TaskEnds, Busy, IInv, TypeInv
  <2>. QED
    BY <2>1, BusyCore
<1>. PICK v, w : v = ebuf[e].start_vertex /\ w = ebuf[e].end_vertex
  OBVIOUS
<1>2. /\ v = aggr_buf.ready_ptr.first /\ w = aggr_buf.aggr_ptr.first
      /\ v \in Nat /\ w \in Nat /\ v < w
  BY <1>1, DrainedChunk
<1>3. aggr_buf' = ConfirmAggr(aggr_buf, w - v)
  BY DEF SimdWritesBack, ConfirmPart
<1>4. w - v \in Nat /\ v + (w - v) = w
  BY <1>2
<1>5. aggr_buf \in AggrBufType
  BY DEF IInv, TypeInv
<1>6. /\ aggr_buf'.ready_ptr.first = aggr_buf.ready_ptr.first + (w - v)
      /\ aggr_buf'.aggr_ptr = aggr_buf.aggr_ptr
      /\ aggr_buf'.comb_ptr = aggr_buf.comb_ptr
      /\ aggr_buf'.done_ptr = aggr_buf.done_ptr
  BY <1>3, <1>4, <1>5, ConfirmAggrType
<1>7. Publishes
  BY <1>2, <1>3 DEF Publishes
<1>. QED
  BY <1>2, <1>4, <1>6, <1>7 DEF Pipeline!Publish

\* In its own tick the engine does nothing else to the ring.
LEMMA TickAtRing ==
  ASSUME IInv, ClockTick PROVE aggr_buf' = aggr_buf \/ Reserves \/ Publishes
<1>1. CASE StartChunk
  BY <1>1, StartReserves
<1>2. CASE SimdWritesBack
  BY <1>2, WriteBackPublishes
<1>3. CASE Tick \/ SimdComputes \/ FetchEdges \/ SkipEdges \/ Halted
  BY <1>3 DEF Tick, SimdComputes, FetchEdges, SkipEdges, Halted
<1>4. CASE FetchPart \/ SkipInput \/ StartDraining \/ KeepDraining
  BY <1>4 DEF FetchPart, SkipInput, StartDraining, KeepDraining
<1>5. CASE SkipVertex \/ AssignTask \/ DispatchEnds \/ Finish \/ CombEnds
  BY <1>5 DEF SkipVertex, AssignTask, DispatchEnds, Finish, CombEnds
<1>. QED
  BY <1>1, <1>2, <1>3, <1>4, <1>5 DEF ClockTick

\* With the combination engine's two steps the engine implements the safety
\* part of VertexPipeline: it reserves a chunk when the one before has been
\* published, stays in the layer, and publishes whole chunks.
THEOREM ImplementsPipeline == SafeSpec => Pipeline!SafeSpec
<1>1. Init => Pipeline!Init
  BY DEF Init, InitBuf, InitPtr, Pipeline!Init
<1>2. ASSUME IInv, [Next]_vars PROVE [Pipeline!Next]_Pipeline!vars
  <2>. USE <1>2
  <2>1. CASE aggr_buf' = aggr_buf
    BY <2>1 DEF Pipeline!vars
  <2>2. CASE StartChunk
    BY <2>2, StartReserves DEF Pipeline!Next
  <2>3. CASE SimdWritesBack
    BY <2>1, <2>3, WriteBackPublishes DEF Pipeline!Next
  <2>. PICK buf : buf = aggr_buf
    OBVIOUS
  <2>4. /\ buf \in AggrBufType
        /\ buf.comb_ptr.first \in Nat /\ buf.ready_ptr.first \in Nat
        /\ buf.done_ptr.first \in Nat
        /\ buf.done_ptr.first <= buf.comb_ptr.first
    BY DEF IInv, TypeInv, RingInv, AggrBufType, Ptr
  <2>5. CASE CombTakes
    <3>1. PICK n \in 1..GetReadyVertexNum(buf) : aggr_buf' = StartComb(buf, n)
      BY <2>5 DEF CombTakes
    <3>2. /\ n \in Nat
          /\ buf.comb_ptr.first + n \in (buf.comb_ptr.first + 1)..buf.ready_ptr.first
      BY <2>4, <3>1 DEF GetReadyVertexNum
    <3>3. /\ aggr_buf'.comb_ptr.first = buf.comb_ptr.first + n
          /\ aggr_buf'.aggr_ptr = buf.aggr_ptr /\ aggr_buf'.ready_ptr = buf.ready_ptr
          /\ aggr_buf'.done_ptr = buf.done_ptr
      BY <2>4, <3>1, <3>2, StartCombType
    <3>4. buf.comb_ptr.first = buf.done_ptr.first
      BY <2>5 DEF CombTakes
    <3>5. Pipeline!Take
      BY <3>2, <3>3, <3>4 DEF Pipeline!Take
    <3>. QED
      BY <3>5 DEF Pipeline!Next
  <2>6. CASE CombReleases
    <3>. PICK n : n = buf.comb_ptr.first - buf.done_ptr.first
      OBVIOUS
    <3>1. aggr_buf' = ConfirmComb(buf, n) /\ buf.comb_ptr.first # buf.done_ptr.first
      BY <2>6 DEF CombReleases
    <3>2. n \in Nat /\ buf.done_ptr.first + n = buf.comb_ptr.first
      BY <2>4
    <3>3. /\ aggr_buf'.done_ptr.first = buf.done_ptr.first + n
          /\ aggr_buf'.aggr_ptr = buf.aggr_ptr /\ aggr_buf'.ready_ptr = buf.ready_ptr
          /\ aggr_buf'.comb_ptr = buf.comb_ptr
      BY <2>4, <3>1, <3>2, ConfirmCombType
    <3>4. Pipeline!Release
      BY <3>1, <3>2, <3>3 DEF Pipeline!Release
    <3>. QED
      BY <3>4 DEF Pipeline!Next
  <2>7. CASE UNCHANGED vars
    BY <2>1, <2>7 DEF vars
  <2>8. CASE Return
    BY <2>1, <2>8 DEF Return, ReturnEdge, ReturnInput, ReturnAggr
  <2>9. CASE Tick \/ SimdComputes \/ FetchEdges \/ SkipEdges \/ Halted
    BY <2>1, <2>9 DEF Tick, SimdComputes, FetchEdges, SkipEdges, Halted
  <2>10. CASE FetchPart \/ SkipInput \/ StartDraining \/ KeepDraining
    BY <2>1, <2>10 DEF FetchPart, SkipInput, StartDraining, KeepDraining
  <2>11. CASE SkipVertex \/ AssignTask \/ DispatchEnds \/ Finish \/ CombEnds
    BY <2>1, <2>11 DEF SkipVertex, AssignTask, DispatchEnds, Finish, CombEnds
  <2>. QED
    BY <2>2, <2>3, <2>5, <2>6, <2>7, <2>8, <2>9, <2>10, <2>11 DEF Next, ClockTick
<1>. QED
  BY <1>1, <1>2, Invariance, PTL DEF SafeSpec, Pipeline!SafeSpec

-----------------------------------------------------------------------------
(* The sums of tasks.                                                      *)

\* A function that adds up n numbers from the end.
Sums(f, w, n) == f = [k \in 0..n |-> IF k = n THEN 0 ELSE w[k] + f[k + 1]]

\* There is one: there is no least number of numbers without.
LEMMA SumsExist ==
  ASSUME NEW n \in Nat, NEW w \in [0..(n - 1) -> Nat]
  PROVE  \E f \in [0..n -> Nat] : Sums(f, w, n)
<1>. DEFINE Last(f, d) ==
       /\ f \in [(n - d)..n -> Nat]
       /\ \A k \in (n - d)..n : f[k] = IF k = n THEN 0 ELSE w[k] + f[k + 1]
     S == {d \in 0..n : ~ \E f : Last(f, d)}
<1>1. S = {}
  <2>. SUFFICES ASSUME S # {} PROVE FALSE
    OBVIOUS
  <2>1. PICK m \in S : \A k \in S : m <= k
    <3>1. S \in SUBSET Nat
      OBVIOUS
    <3>. HIDE DEF S
    <3>. QED
      BY <3>1, Smallest
  <2>2. m \in 0..n /\ ~ \E f : Last(f, m)
    OBVIOUS
  <2>3. m # 0
    <3>. DEFINE z == [k \in n..n |-> 0]
    <3>1. z \in [n..n -> Nat] /\ \A k \in n..n : k = n /\ z[k] = 0
      OBVIOUS
    <3>2. n - 0 = n
      OBVIOUS
    <3>. HIDE DEF z
    <3>3. Last(z, 0)
      BY <3>1, <3>2
    <3>. QED
      BY <2>2, <3>3
  <2>4. m - 1 \in 0..n /\ m - 1 \notin S
    <3>1. m - 1 \in 0..n /\ ~(m <= m - 1)
      BY <2>2, <2>3
    <3>. HIDE DEF S
    <3>. QED
      BY <2>1, <3>1
  <2>5. PICK f : Last(f, m - 1)
    BY <2>4
  <2>. DEFINE a == n - m
              x == w[a] + f[a + 1]
              g == [k \in a..n |-> IF k = a THEN x ELSE f[k]]
  <2>6. a \in 0..(n - 1) /\ a + 1 = n - (m - 1) /\ a + 1 \in (n - (m - 1))..n
    BY <2>2, <2>3
  <2>7. x \in Nat
    BY <2>5, <2>6
  <2>8. \A k \in a..n : k # a => k \in (n - (m - 1))..n
    BY <2>2
  <2>9. g \in [a..n -> Nat]
    <3>. HIDE DEF a, x
    <3>. QED
      BY <2>5, <2>7, <2>8
  <2>10. ASSUME NEW k \in a..n PROVE g[k] = IF k = n THEN 0 ELSE w[k] + g[k + 1]
    <3>1. CASE k = a
      <4>1. k # n /\ k + 1 \in a..n /\ k + 1 # a
        BY <2>6, <3>1
      <4>. HIDE DEF a
      <4>2. g[k] = x /\ g[k + 1] = f[k + 1]
        BY <3>1, <4>1
      <4>. QED
        BY <3>1, <4>1, <4>2
    <3>2. CASE k # a
      <4>1. k \in (n - (m - 1))..n /\ (k # n => k + 1 \in a..n /\ k + 1 # a)
        BY <2>2, <2>8, <3>2
      <4>. HIDE DEF a
      <4>2. g[k] = f[k] /\ (k # n => g[k + 1] = f[k + 1])
        BY <3>2, <4>1
      <4>. QED
        BY <2>5, <4>1, <4>2
    <3>. QED
      BY <3>1, <3>2
  <2>11. Last(g, m)
    <3>. HIDE DEF g
    <3>. QED
      BY <2>9, <2>10
  <2>. QED
    BY <2>2, <2>11
<1>2. n \in 0..n
  OBVIOUS
<1>3. PICK f : Last(f, n)
  <2>1. SUFFICES ASSUME ~ \E f : Last(f, n) PROVE FALSE
    OBVIOUS
  <2>. HIDE DEF Last
  <2>2. n \in S
    BY <1>2, <2>1, Zenon
  <2>. QED
    BY <1>1, <2>2
<1>4. n - n = 0
  OBVIOUS
<1>5. f \in [0..n -> Nat] /\ \A k \in 0..n : f[k] = IF k = n THEN 0 ELSE w[k] + f[k + 1]
  BY <1>3, <1>4
<1>6. f = [k \in 0..n |-> IF k = n THEN 0 ELSE w[k] + f[k + 1]]
  BY <1>5
<1>. QED
  BY <1>5, <1>6 DEF Sums

\* SumFrom adds up what comes from q on.
LEMMA SumFromIs ==
  ASSUME NEW n \in Nat, NEW w \in [0..(n - 1) -> Nat]
  PROVE  /\ SumFrom(w, n, n) = 0
         /\ \A q \in 0..(n - 1) : /\ SumFrom(w, n, q) = w[q] + SumFrom(w, n, q + 1)
                                  /\ w[q] \in Nat
         /\ \A q \in 0..n : SumFrom(w, n, q) \in Nat
<1>. DEFINE f == CHOOSE g : Sums(g, w, n)
<1>1. Sums(f, w, n)
  BY SumsExist
<1>2. \A q : SumFrom(w, n, q) = f[q]
  BY DEF SumFrom, Sums
<1>. HIDE DEF f
<1>3. \A k \in 0..n : f[k] = IF k = n THEN 0 ELSE w[k] + f[k + 1]
  BY <1>1, Zenon DEF Sums
<1>4. n \in 0..n /\ \A q \in 0..(n - 1) : q \in 0..n /\ q # n /\ q + 1 \in 0..n
  OBVIOUS
<1>5. f[n] = 0 /\ \A q \in 0..(n - 1) : f[q] = w[q] + f[q + 1] /\ w[q] \in Nat
  BY <1>3, <1>4
<1>. DEFINE S == {d \in 0..n : f[n - d] \notin Nat}
<1>6. S = {}
  <2>. SUFFICES ASSUME S # {} PROVE FALSE
    OBVIOUS
  <2>1. PICK m \in S : \A k \in S : m <= k
    <3>1. S \in SUBSET Nat
      OBVIOUS
    <3>. HIDE DEF S
    <3>. QED
      BY <3>1, Smallest
  <2>2. m \in 0..n /\ f[n - m] \notin Nat /\ m # 0
    <3>1. n - 0 = n
      OBVIOUS
    <3>. QED
      BY <1>5, <3>1
  <2>3. m - 1 \in 0..n /\ m - 1 \notin S
    <3>1. m - 1 \in 0..n /\ ~(m <= m - 1)
      BY <2>2
    <3>. HIDE DEF S
    <3>. QED
      BY <2>1, <3>1
  <2>4. f[n - (m - 1)] \in Nat /\ n - m \in 0..(n - 1) /\ (n - m) + 1 = n - (m - 1)
    BY <2>2, <2>3
  <2>5. f[n - m] = w[n - m] + f[(n - m) + 1] /\ w[n - m] \in Nat
    BY <1>5, <2>4
  <2>. QED
    BY <2>2, <2>4, <2>5
<1>7. ASSUME NEW q \in 0..n PROVE f[q] \in Nat
  <2>1. n - q \in 0..n /\ n - (n - q) = q
    OBVIOUS
  <2>. QED
    BY <1>6, <2>1
<1>. QED
  BY <1>2, <1>5, <1>7

\* The tasks of a part, of the parts of a chunk, and of the chunks.
LEMMA PartTasks ==
  ASSUME NEW c \in Chunks
  PROVE  /\ NumPart(c) \in Nat \ {0} /\ TasksFromPart(c, NumPart(c)) = 0
         /\ \A p \in 0..(NumPart(c) - 1) :
              /\ TasksOfPart(c, p) \in Nat
              /\ TasksFromPart(c, p) = TasksOfPart(c, p) + TasksFromPart(c, p + 1)
         /\ \A p \in 0..NumPart(c) : TasksFromPart(c, p) \in Nat
<1>. PICK n, w : n = NumPart(c) /\ w = [q \in 0..(n - 1) |-> TasksOfPart(c, q)]
  OBVIOUS
<1>1. n \in Nat \ {0}
  BY AggrAssumption DEF NumPart
<1>2. ASSUME NEW p \in 0..(n - 1) PROVE TasksOfPart(c, p) \in Nat
  <2>1. EdgeParts[c] \in Seq(Seq(Seq(Nat))) /\ p + 1 \in 1..Len(EdgeParts[c])
    BY <1>1, AggrAssumption DEF NumPart
  <2>2. Rows(c, p) \in Seq(Seq(Nat))
    BY <2>1 DEF Rows
  <2>3. Cardinality(NonEmpty(Rows(c, p))) \in Nat /\ num_feature_chunk \in Nat
    BY <2>2, NonEmptyFinite, AggrAssumption
  <2>. QED
    BY <2>3 DEF TasksOfPart
<1>3. w \in [0..(n - 1) -> Nat] /\ \A p \in 0..(n - 1) : w[p] = TasksOfPart(c, p)
  BY <1>2
<1>4. \A p : TasksFromPart(c, p) = SumFrom(w, n, p)
  BY DEF TasksFromPart
<1>5. /\ SumFrom(w, n, n) = 0
      /\ \A p \in 0..(n - 1) : SumFrom(w, n, p) = w[p] + SumFrom(w, n, p + 1)
      /\ \A p \in 0..n : SumFrom(w, n, p) \in Nat
  BY <1>1, <1>3, SumFromIs
<1>. QED
  BY <1>1, <1>2, <1>3, <1>4, <1>5

\* A chunk's tasks come before those of the chunks behind it.
LEMMA ChunkTasks ==
  /\ \A c \in Chunks :
       /\ TasksFromChunk(c) = TasksFromPart(c, 0) + TasksFromChunk(c + 1)
       /\ TasksFromPart(c, 0) \in Nat
  /\ \A c \in 0..num_edge_chunk : TasksFromChunk(c) \in Nat
<1>. PICK n, w : n = num_edge_chunk /\ w = [k \in Chunks |-> TasksFromPart(k, 0)]
  OBVIOUS
<1>1. n \in Nat \ {0} /\ Chunks = 0..(n - 1)
  BY AggrAssumption DEF Chunks
<1>2. ASSUME NEW c \in Chunks PROVE TasksFromPart(c, 0) \in Nat
  <2>1. 0 \in 0..NumPart(c)
    BY PartTasks
  <2>. QED
    BY <2>1, PartTasks
<1>3. w \in [0..(n - 1) -> Nat] /\ \A c \in 0..(n - 1) : w[c] = TasksFromPart(c, 0)
  BY <1>1, <1>2
<1>4. \A c : TasksFromChunk(c) = SumFrom(w, n, c)
  BY DEF TasksFromChunk
<1>5. /\ \A c \in 0..(n - 1) : SumFrom(w, n, c) = w[c] + SumFrom(w, n, c + 1)
      /\ \A c \in 0..n : SumFrom(w, n, c) \in Nat
  BY <1>1, <1>3, SumFromIs
<1>. QED
  BY <1>1, <1>2, <1>3, <1>4, <1>5

-----------------------------------------------------------------------------
(* The chunks before a vertex.                                             *)

\* The chunks' bounds grow: look at the first that would not.
LEMMA BoundsGrow ==
  ASSUME NEW a \in 0..num_edge_chunk, NEW b \in 0..num_edge_chunk, a < b
  PROVE  Bound(a) < Bound(b)
<1>. PICK n : n = num_edge_chunk
  OBVIOUS
<1>1. n \in Nat \ {0} /\ a \in Nat /\ b \in Nat /\ Chunks = 0..(n - 1)
  BY AggrAssumption DEF Chunks
<1>2. \A k \in 0..n : Bound(k) \in Nat
  BY BoundInLayer
<1>. DEFINE S == {d \in 1..(n - a) : ~(Bound(a) < Bound(a + d))}
<1>3. S = {}
  <2>. SUFFICES ASSUME S # {} PROVE FALSE
    OBVIOUS
  <2>1. PICK m \in S : \A k \in S : m <= k
    <3>1. S \in SUBSET Nat
      BY <1>1
    <3>. HIDE DEF S
    <3>. QED
      BY <3>1, Smallest
  <2>2. m \in 1..(n - a) /\ ~(Bound(a) < Bound(a + m))
    OBVIOUS
  <2>3. PICK c : c = a + (m - 1)
    OBVIOUS
  <2>4. c \in Chunks /\ c + 1 = a + m /\ c \in 0..n /\ a + m \in 0..n /\ a \in 0..n
    BY <1>1, <2>2, <2>3
  <2>5. Bound(c) < Bound(c + 1)
    BY <2>4, ChunkBounds
  <2>6. Bound(a) <= Bound(c)
    <3>1. CASE m = 1
      <4>1. c = a
        BY <1>1, <2>3, <3>1
      <4>. QED
        BY <1>2, <2>4, <4>1
    <3>2. CASE m # 1
      <4>1. m - 1 \in 1..(n - a) /\ ~(m <= m - 1)
        BY <1>1, <2>2, <3>2
      <4>2. m - 1 \notin S
        <5>. HIDE DEF S
        <5>. QED
          BY <2>1, <4>1
      <4>3. Bound(a) < Bound(c)
        BY <2>3, <4>1, <4>2
      <4>. QED
        BY <1>2, <2>4, <4>3
    <3>. QED
      BY <3>1, <3>2
  <2>7. Bound(a) \in Nat /\ Bound(c) \in Nat /\ Bound(a + m) \in Nat
    BY <1>2, <2>4
  <2>. QED
    BY <2>2, <2>4, <2>5, <2>6, <2>7
<1>4. b - a \in 1..(n - a) /\ a + (b - a) = b
  BY <1>1
<1>. QED
  BY <1>3, <1>4

\* So counting the chunks that begin before the n-th gives n.
LEMMA ChunksCounted ==
  ASSUME NEW n \in 0..num_edge_chunk
  PROVE  ChunksFrom(Bound(n)) = n
<1>. PICK N : N = num_edge_chunk
  OBVIOUS
<1>1. N \in Nat \ {0} /\ n \in 0..N /\ Chunks = 0..(N - 1)
  BY AggrAssumption DEF Chunks
<1>2. ASSUME NEW c \in Chunks PROVE start_vertex_of_echunk[c] < Bound(n) <=> c < n
  <2>1. start_vertex_of_echunk[c] = Bound(c) /\ c \in 0..N
    BY <1>1, ChunkBounds
  <2>2. Bound(c) \in Nat /\ Bound(n) \in Nat
    BY <1>1, <2>1, BoundInLayer
  <2>3. c < n => Bound(c) < Bound(n)
    BY <1>1, <2>1, BoundsGrow
  <2>4. n < c => Bound(n) < Bound(c)
    BY <1>1, <2>1, BoundsGrow
  <2>5. c < n \/ n < c \/ n = c
    BY <1>1, <2>1
  <2>6. CASE c < n
    BY <2>1, <2>3, <2>6
  <2>7. CASE ~(c < n)
    <3>1. ~(Bound(c) < Bound(n))
      BY <2>2, <2>4, <2>5, <2>7
    <3>. QED
      BY <2>1, <2>7, <3>1
  <2>. QED
    BY <2>6, <2>7
<1>3. {c \in Chunks : start_vertex_of_echunk[c] < Bound(n)} = {c \in Chunks : c < n}
  BY <1>2
<1>4. {c \in Chunks : c < n} = 0..(n - 1)
  BY <1>1
<1>5. Cardinality(0..(n - 1)) = n
  <2>1. 0 \in Int /\ n - 1 \in Int
    BY <1>1
  <2>2. Cardinality(0..(n - 1)) = IF 0 > n - 1 THEN 0 ELSE (n - 1) - 0 + 1
    BY <2>1, FS_Interval
  <2>. QED
    BY <1>1, <2>2
<1>. QED
  BY <1>3, <1>4, <1>5 DEF ChunksFrom

-----------------------------------------------------------------------------
(* The work that is left.                                                  *)

\* The tasks in input buffers, in parts to be asked for and in chunks that
\* have no room yet; WorkInv is TaskAccounting with the latter by number.
Held == TasksIn(inbuf[0]) + TasksIn(inbuf[1])
Later == TasksFromChunk(NextChunk)
WorkInv ==
  event_out + Cardinality(Busy) + 2 * (Held + PartsLeft + Later)
    = 2 * TasksFromChunk(0)

\* These are numbers; PartsLeft counts the parts of the chunk being drained.
WorkTyped ==
  /\ event_out \in Nat /\ Cardinality(Busy) \in Nat /\ IsFiniteSet(Busy)
  /\ \A i \in Bufs : TasksIn(inbuf[i]) \in Nat
  /\ NextChunk \in 0..num_edge_chunk /\ Later \in Nat
  /\ PartsLeft \in Nat
  /\ \A e \in Bufs : ebuf[e].state = "DRAINING" =>
       PartsLeft = TasksFromPart(ebuf[e].edge_chunk_id, ebuf[e].edge_part_cnt)
  /\ (\A e \in Bufs : ebuf[e].state # "DRAINING") => PartsLeft = 0

\* All of them are what WorkTyped says in every state the engine can be in.
LEMMA WorkTypes == IInv => WorkTyped
<1>. SUFFICES ASSUME IInv PROVE WorkTyped
  OBVIOUS
<1>0. num_edge_chunk \in Nat \ {0} /\ 0 \in Bufs /\ 1 \in Bufs /\ num_feature_chunk \in Nat
  BY AggrAssumption DEF Bufs
<1>1. event_out \in Nat /\ Cardinality(Busy) \in Nat /\ IsFiniteSet(Busy)
  <2>1. Busy \in SUBSET Simds
    BY DEF Busy
  <2>2. IsFiniteSet(Busy)
    BY <2>1, SimdsFinite, FS_Subset
  <2>. QED
    BY <2>2, FS_CardinalityType DEF IInv, TypeInv
<1>2. ASSUME NEW i \in Bufs PROVE TasksIn(inbuf[i]) \in Nat
  <2>. PICK b : b = inbuf[i]
    OBVIOUS
  <2>1. b \in InbufType /\ b.state \in BufState
    BY DEF IInv, TypeInv, InbufType
  <2>2. CASE b.state = "IDLE"
    BY <2>2 DEF TasksIn
  <2>3. CASE b.state = "DRAINING"
    <3>1. TaskPtrOK(b)
      BY <2>3 DEF IInv, InbufInv
    <3>2. TasksIn(b) = TasksLeft(b)
      BY <2>3 DEF TasksIn
    <3>. QED
      BY <2>1, <3>1, <3>2, TasksLeftNat
  <2>4. CASE b.state # "IDLE" /\ b.state # "DRAINING"
    <3>1. PartOf(b, ebuf[b.ebuf_ptr])
      BY <2>4 DEF IInv, InbufInv
    <3>2. b.input_edge \in Seq(Seq(Nat))
      BY <2>1 DEF InbufType
    <3>3. b.non_empty_vertex \in Nat
      BY <3>1, <3>2, NonEmptyFinite DEF PartOf
    <3>4. TasksIn(b) = Tasks(b)
      BY <2>4 DEF TasksIn
    <3>. QED
      BY <1>0, <3>3, <3>4 DEF Tasks
  <2>. QED
    BY <2>2, <2>3, <2>4
<1>3. NextChunk \in 0..num_edge_chunk
  <2>1. \A e \in Bufs : Waits(ebuf[e]) =>
          ebuf[e].edge_chunk_id \in Nat /\ ebuf[e].edge_chunk_id < edge_chunk_cnt
    BY <1>0 DEF IInv, EbufInv, EbufOK, HoldsChunk, Waits, Chunks
  <2>2. Waits(ebuf[0]) /\ Waits(ebuf[1]) => ebuf[0].edge_chunk_id # ebuf[1].edge_chunk_id
    BY DEF IInv, EbufInv, Waits
  <2>3. edge_chunk_cnt \in 0..num_edge_chunk
    BY DEF IInv, TypeInv
  <2>. QED
    BY <1>0, <2>1, <2>2, <2>3 DEF NextChunk, Waiting
<1>4. Later \in Nat
  BY <1>3, ChunkTasks DEF Later
<1>5. ASSUME NEW e \in Bufs, ebuf[e].state = "DRAINING"
      PROVE  /\ PartsLeft = TasksFromPart(ebuf[e].edge_chunk_id, ebuf[e].edge_part_cnt)
             /\ PartsLeft \in Nat
  <2>. PICK d : d = GetTargetBuf(ebuf, "DRAINING")
    OBVIOUS
  <2>1. d # None /\ d \in Bufs /\ ebuf[d].state = "DRAINING"
    BY <1>5, TargetBuf DEF Bufs
  <2>2. d = e
    BY <1>5, <2>1, EbufsDiffer DEF IInv
  <2>3. PartsLeft = TasksFromPart(ebuf[e].edge_chunk_id, ebuf[e].edge_part_cnt)
    BY <2>1, <2>2 DEF PartsLeft
  <2>4. /\ ebuf[e].edge_chunk_id \in Chunks
        /\ ebuf[e].edge_part_cnt \in 0..NumPart(ebuf[e].edge_chunk_id)
    BY <1>5 DEF IInv, EbufInv, EbufOK, HoldsChunk
  <2>. QED
    BY <2>3, <2>4, PartTasks
<1>6. ASSUME \A e \in Bufs : ebuf[e].state # "DRAINING" PROVE PartsLeft = 0
  <2>1. GetTargetBuf(ebuf, "DRAINING") = None
    BY <1>6, TargetBuf
  <2>. QED
    BY <2>1 DEF PartsLeft
<1>7. PartsLeft \in Nat
  BY <1>5, <1>6
<1>. QED
  BY <1>1, <1>2, <1>3, <1>4, <1>5, <1>6, <1>7 DEF WorkTyped

\* The first chunk without room is the one the ring ends at.
LEMMA WorkCounted == IInv /\ WorkInv => TaskAccounting
<1>. SUFFICES ASSUME IInv, WorkInv PROVE TaskAccounting
  OBVIOUS
<1>1. WorkTyped
  BY WorkTypes
<1>2. ChunksFrom(aggr_buf.aggr_ptr.first) = NextChunk
  BY <1>1, ChunksCounted DEF WorkTyped, IInv, RingInv
<1>3. ChunksLeft = Later
  BY <1>2 DEF ChunksLeft, Later
<1>4. /\ 0 \in Bufs /\ 1 \in Bufs
  BY DEF Bufs
<1>5. /\ TasksIn(inbuf[0]) \in Nat /\ TasksIn(inbuf[1]) \in Nat
      /\ PartsLeft \in Nat /\ Later \in Nat
  BY <1>1, <1>4 DEF WorkTyped
<1>6. Held + PartsLeft + Later
        = TasksIn(inbuf[0]) + TasksIn(inbuf[1]) + PartsLeft + ChunksLeft
  BY <1>3, <1>5 DEF Held
<1>. QED
  BY <1>6 DEF WorkInv, TaskAccounting

\* Nothing is given out before the first step.
LEMMA WorkAtStart == Init => WorkInv
<1>. SUFFICES ASSUME Init PROVE WorkInv
  OBVIOUS
<1>1. Busy = {} /\ Cardinality({}) = 0
  BY FS_EmptySet DEF Init, Busy, IdleSimd
<1>2. Held = 0
  BY DEF Init, Held, TasksIn, IdleInbuf, Bufs
<1>3. PartsLeft = 0
  BY DEF Init, PartsLeft, GetTargetBuf, IdleEbuf, Bufs, None
<1>4. NextChunk = 0
  BY DEF Init, NextChunk, Waiting, Waits, IdleEbuf, Bufs
<1>5. TasksFromChunk(0) \in Nat
  BY ChunkTasks, AggrAssumption
<1>. PICK t : t = TasksFromChunk(0)
  OBVIOUS
<1>6. Later = t /\ t \in Nat /\ event_out = 0
  BY <1>4, <1>5 DEF Later, Init
<1>7. event_out + Cardinality(Busy) + 2 * (Held + PartsLeft + Later) = 2 * t
  BY <1>1, <1>2, <1>3, <1>6
<1>. QED
  BY <1>7 DEF WorkInv

\* One input buffer changes, and what is counted stays.
LEMMA WorkStep ==
  ASSUME WorkInv, WorkTyped, WorkTyped', NEW i \in Bufs,
         \A j \in Bufs : j # i => inbuf'[j] = inbuf[j],
         event_out' + Cardinality(Busy')
           + 2 * (TasksIn(inbuf'[i]) + PartsLeft' + Later')
         = event_out + Cardinality(Busy) + 2 * (TasksIn(inbuf[i]) + PartsLeft + Later)
  PROVE  WorkInv'
<1>. PICK t, T, o, O : /\ t = TasksIn(inbuf[i]) /\ T = TasksIn(inbuf'[i])
                       /\ o = TasksIn(inbuf[1 - i]) /\ O = TasksIn(inbuf'[1 - i])
  OBVIOUS
<1>1. O = o
  BY OtherBuffer
<1>2. t \in Nat /\ T \in Nat /\ o \in Nat
  BY OtherBuffer DEF WorkTyped
<1>3. Held = t + o /\ Held' = T + o
  <2>1. CASE i = 0
    <3>1. /\ t = TasksIn(inbuf[0]) /\ T = TasksIn(inbuf'[0])
          /\ o = TasksIn(inbuf[1]) /\ o = TasksIn(inbuf'[1])
      <4>1. 1 - i = 1
        BY <2>1
      <4>. QED
        BY <1>1, <2>1, <4>1
    <3>. QED
      BY <3>1 DEF Held
  <2>2. CASE i = 1
    <3>1. /\ t = TasksIn(inbuf[1]) /\ T = TasksIn(inbuf'[1])
          /\ o = TasksIn(inbuf[0]) /\ o = TasksIn(inbuf'[0])
      <4>1. 1 - i = 0
        BY <2>2
      <4>. QED
        BY <1>1, <2>2, <4>1
    <3>2. Held = o + t /\ Held' = o + T
      BY <3>1 DEF Held
    <3>. QED
      BY <1>2, <3>2
  <2>. QED
    BY <2>1, <2>2, OtherBuffer
<1>. PICK a, A, k, K, p, P, l, L :
       /\ a = event_out /\ A = event_out'
       /\ k = Cardinality(Busy) /\ K = Cardinality(Busy')
       /\ p = PartsLeft /\ P = PartsLeft' /\ l = Later /\ L = Later'
  OBVIOUS
<1>4. /\ a \in Nat /\ A \in Nat /\ k \in Nat /\ K \in Nat
      /\ p \in Nat /\ P \in Nat /\ l \in Nat /\ L \in Nat
  BY DEF WorkTyped
<1>5. A + K + 2 * (T + P + L) = a + k + 2 * (t + p + l)
  OBVIOUS
<1>6. A + K + 2 * (T + o + P + L) = a + k + 2 * (t + o + p + l)
  BY <1>2, <1>4, <1>5
<1>7. a + k + 2 * (t + o + p + l) = 2 * TasksFromChunk(0)
  BY <1>3 DEF WorkInv
<1>. QED
  BY <1>3, <1>6, <1>7 DEF WorkInv

\* Steps that leave the parts and the chunks to come as they are.
LEMMA PartsKept ==
  ASSUME WorkTyped, WorkTyped',
         \A e \in Bufs :
           /\ ebuf'[e].state = "DRAINING" <=> ebuf[e].state = "DRAINING"
           /\ ebuf[e].state = "DRAINING" =>
                /\ ebuf'[e].edge_chunk_id = ebuf[e].edge_chunk_id
                /\ ebuf'[e].edge_part_cnt = ebuf[e].edge_part_cnt
  PROVE  PartsLeft' = PartsLeft
<1>1. CASE \A e \in Bufs : ebuf[e].state # "DRAINING"
  <2>1. \A e \in Bufs : ebuf'[e].state # "DRAINING"
    BY <1>1
  <2>. QED
    BY <1>1, <2>1 DEF WorkTyped
<1>2. CASE \E e \in Bufs : ebuf[e].state = "DRAINING"
  <2>1. PICK e \in Bufs : ebuf[e].state = "DRAINING"
    BY <1>2
  <2>2. /\ ebuf'[e].state = "DRAINING"
        /\ ebuf'[e].edge_chunk_id = ebuf[e].edge_chunk_id
        /\ ebuf'[e].edge_part_cnt = ebuf[e].edge_part_cnt
    BY <2>1
  <2>3. PartsLeft = TasksFromPart(ebuf[e].edge_chunk_id, ebuf[e].edge_part_cnt)
    BY <2>1 DEF WorkTyped
  <2>4. PartsLeft' = TasksFromPart(ebuf'[e].edge_chunk_id, ebuf'[e].edge_part_cnt)
    BY <2>2 DEF WorkTyped
  <2>. QED
    BY <2>2, <2>3, <2>4
<1>. QED
  BY <1>1, <1>2

\* Steps that give out no task and take none in.
LEMMA QuietWork ==
  ASSUME WorkInv, UNCHANGED <<inbuf, event_out>>, Busy' = Busy,
         PartsLeft' = PartsLeft, NextChunk' = NextChunk
  PROVE  WorkInv'
<1>1. Held' = Held
  BY DEF Held
<1>2. Later' = Later
  BY DEF Later
<1>. QED
  BY <1>1, <1>2 DEF WorkInv

\* Steps that touch neither cores nor buffers.
LEMMA TurnWork ==
  ASSUME WorkInv, UNCHANGED <<simds, ebuf, inbuf, edge_chunk_cnt, event_out>>
  PROVE  WorkInv'
<1>1. Busy' = Busy
  BY DEF Busy
<1>2. PartsLeft' = PartsLeft /\ NextChunk' = NextChunk
  BY DEF PartsLeft, NextChunk
<1>. QED
  BY <1>1, <1>2, QuietWork

\* Edges come back, and the next are asked for: no chunk gets room.
LEMMA EdgesWork ==
  ASSUME IInv, WorkInv, WorkTyped, WorkTyped', ReturnEdge \/ FetchEdges
  PROVE  WorkInv'
<1>1. UNCHANGED <<simds, inbuf, event_out>>
  BY DEF ReturnEdge, FetchEdges
<1>2. Busy' = Busy
  BY <1>1 DEF Busy
<1>3. PartsLeft' = PartsLeft /\ NextChunk' = NextChunk
  <2>. PICK i, b : /\ i = GetTargetBuf(ebuf, IF ReturnEdge THEN "FILLING" ELSE "IDLE")
                   /\ b = ebuf'[i]
    OBVIOUS
  <2>0. ebuf \in [Bufs -> EbufType] /\ edge_chunk_cnt \in Int
    BY AggrAssumption DEF IInv, TypeInv
  <2>1. CASE ReturnEdge
    <3>1. pending["EDGE"] > 0 /\ pending["EDGE"] \in Nat /\ "EDGE" \in DataType
      BY <2>1 DEF ReturnEdge, IInv, TypeInv, DataType
    <3>2. ~(\A k \in Bufs : ebuf[k].state # "FILLING")
      BY <3>1 DEF IInv, EventInv
    <3>3. i = GetTargetBuf(ebuf, "FILLING") /\ i # None
      BY <2>1, <3>2, TargetBuf DEF Bufs
    <3>4. i \in Bufs /\ ebuf[i].state = "FILLING"
      BY <3>3, TargetBuf
    <3>5. /\ b.state \in {"FILLING", "READY"}
          /\ \A j \in Bufs : j # i => ebuf'[j] = ebuf[j]
          /\ edge_chunk_cnt' = edge_chunk_cnt
      BY <2>0, <2>1, <3>3, <3>4 DEF ReturnEdge, EbufType
    <3>6. PartsLeft' = PartsLeft
      BY <3>4, <3>5, PartsKept
    <3>7. \A j \in Bufs : Waiting(ebuf'[j]) = Waiting(ebuf[j])
      BY <3>4, <3>5 DEF Waiting, Waits
    <3>. QED
      BY <3>5, <3>6, <3>7 DEF NextChunk, Bufs
  <2>2. CASE ~ReturnEdge
    <3>1. FetchEdges
      BY <2>2
    <3>2. i = GetTargetBuf(ebuf, "IDLE") /\ i # None
      BY <2>2, <3>1 DEF FetchEdges, CanFetchEdges
    <3>3. i \in Bufs /\ ebuf[i].state = "IDLE"
      BY <3>2, TargetBuf
    <3>4. /\ b.state = "FILLING"
          /\ \A j \in Bufs : j # i => ebuf'[j] = ebuf[j]
          /\ edge_chunk_cnt' = edge_chunk_cnt + 1
      BY <2>0, <3>1, <3>2, <3>3 DEF FetchEdges, EbufType
    <3>5. PartsLeft' = PartsLeft
      BY <3>3, <3>4, PartsKept
    <3>6. /\ Waiting(ebuf'[i]) = 1 /\ Waiting(ebuf[i]) = 0
          /\ \A j \in Bufs : j # i => Waiting(ebuf'[j]) = Waiting(ebuf[j])
      BY <3>3, <3>4 DEF Waiting, Waits
    <3>7. \A j \in Bufs : Waiting(ebuf[j]) \in Int
      BY DEF Waiting
    <3>8. NextChunk' = NextChunk
      <4>1. CASE i = 0
        <5>1. 1 \in Bufs /\ 1 # i
          BY <4>1 DEF Bufs
        <5>. QED
          BY <2>0, <3>4, <3>6, <3>7, <4>1, <5>1 DEF NextChunk
      <4>2. CASE i = 1
        <5>1. 0 \in Bufs /\ 0 # i
          BY <4>2 DEF Bufs
        <5>. QED
          BY <2>0, <3>4, <3>6, <3>7, <4>2, <5>1 DEF NextChunk
      <4>. QED
        BY <3>3, <4>1, <4>2, OtherBuffer
    <3>. QED
      BY <3>5, <3>8
  <2>. QED
    BY <2>1, <2>2
<1>. QED
  BY <1>1, <1>2, <1>3, QuietWork

\* A core computes on.
LEMMA ComputeWork ==
  ASSUME IInv, WorkInv, SimdComputes
  PROVE  WorkInv'
<1>1. UNCHANGED <<ebuf, inbuf, edge_chunk_cnt, event_out>>
  BY DEF SimdComputes
<1>2. \A k \in Simds : simds'[k].state = simds[k].state
  BY DEF SimdComputes, IInv, TypeInv, SimdType
<1>3. Busy' = Busy
  BY <1>2 DEF Busy
<1>4. PartsLeft' = PartsLeft /\ NextChunk' = NextChunk
  BY <1>1 DEF PartsLeft, NextChunk
<1>. QED
  BY <1>1, <1>3, <1>4, QuietWork

\* A part is through: all its tasks are still to be given out.
LEMMA ReturnWork ==
  ASSUME IInv, IInv', WorkInv, WorkTyped, WorkTyped', ReturnInput
  PROVE  WorkInv'
<1>. PICK i, b, c : /\ i = GetTargetBuf(inbuf, "FILLING") /\ b = inbuf[i]
                    /\ c = inbuf'[i]
  OBVIOUS
<1>1. i \in Bufs /\ b.state = "FILLING" /\ b \in InbufType
  <2>1. pending["INPUT_FEATURE"] > 0 /\ pending["INPUT_FEATURE"] \in Nat
    BY DEF ReturnInput, IInv, TypeInv, DataType
  <2>2. ~(\A k \in Bufs : inbuf[k].state # "FILLING")
    BY <2>1 DEF IInv, EventInv
  <2>3. i # None
    BY <2>2, TargetBuf DEF Bufs
  <2>. QED
    BY <2>3, TargetBuf DEF IInv, TypeInv
<1>2. /\ c.state \in {"FILLING", "READY"} /\ c.non_empty_vertex = b.non_empty_vertex
      /\ \A j \in Bufs : j # i => inbuf'[j] = inbuf[j]
  BY <1>1 DEF ReturnInput, IInv, TypeInv, InbufType
<1>3. TasksIn(c) = TasksIn(b)
  BY <1>1, <1>2 DEF TasksIn, Tasks
<1>4. UNCHANGED <<simds, ebuf, edge_chunk_cnt, event_out>>
  BY DEF ReturnInput
<1>5. Busy' = Busy /\ PartsLeft' = PartsLeft /\ Later' = Later
  BY <1>4 DEF Busy, PartsLeft, Later, NextChunk
<1>. QED
  BY <1>1, <1>2, <1>3, <1>4, <1>5, WorkStep

\* The cores turn to the part.
LEMMA DrainWork ==
  ASSUME IInv, IInv', WorkInv, WorkTyped, WorkTyped', StartDraining
  PROVE  WorkInv'
<1>. PICK i, b, c : /\ i = GetTargetBuf(inbuf, "READY") /\ b = inbuf[i]
                    /\ c = inbuf'[i]
  OBVIOUS
<1>1. i \in Bufs /\ b.state = "READY" /\ b \in InbufType
  <2>1. i # None
    BY DEF StartDraining
  <2>. QED
    BY <2>1, TargetBuf DEF IInv, TypeInv
<1>2. PartOf(b, ebuf[b.ebuf_ptr]) /\ b.feature_chunk_cnt = 0 /\ b.vertex_ptr = b.start_vertex
  BY <1>1 DEF IInv, InbufInv
<1>3. /\ c.state = "DRAINING" /\ c.start_vertex = b.start_vertex
      /\ c.vertex_ptr = b.vertex_ptr /\ c.feature_chunk_cnt = b.feature_chunk_cnt
      /\ c.input_edge = b.input_edge /\ c.non_empty_vertex = b.non_empty_vertex
      /\ \A j \in Bufs : j # i => inbuf'[j] = inbuf[j]
  BY <1>1 DEF StartDraining, IInv, TypeInv, InbufType
<1>4. TasksLeft(b) = Tasks(b)
  BY <1>1, <1>2, TasksAtStart DEF PartOf
<1>5. TasksIn(c) = TasksIn(b)
  <2>1. TasksIn(c) = TasksLeft(c) /\ TasksIn(b) = Tasks(b)
    BY <1>1, <1>3 DEF TasksIn
  <2>2. TasksLeft(c) = TasksLeft(b)
    BY <1>3 DEF TasksLeft
  <2>. QED
    BY <1>4, <2>1, <2>2
<1>6. UNCHANGED <<simds, ebuf, edge_chunk_cnt, event_out>>
  BY DEF StartDraining
<1>7. Busy' = Busy /\ PartsLeft' = PartsLeft /\ Later' = Later
  BY <1>6 DEF Busy, PartsLeft, Later, NextChunk
<1>. QED
  BY <1>1, <1>3, <1>5, <1>6, <1>7, WorkStep

\* A vertex without edges has no task.
LEMMA SkipWork ==
  ASSUME IInv, IInv', WorkInv, WorkTyped, WorkTyped', SkipVertex
  PROVE  WorkInv'
<1>. PICK i, b : i = Draining /\ b = inbuf[i]
  OBVIOUS
<1>. PICK c : c = [b EXCEPT !.vertex_ptr = @ + 1]
  OBVIOUS
<1>1. /\ i \in Bufs /\ b.state = "DRAINING" /\ b \in InbufType /\ TaskPtrOK(b)
      /\ b.vertex_ptr < b.end_vertex /\ Depth(b) = 0
      /\ b.end_vertex - b.start_vertex \in NonEmpty(b.input_edge)
  BY DrainingBuffer DEF SkipVertex
<1>2. c \in InbufType /\ TasksLeft(c) = TasksLeft(b) /\ c.state = b.state
  <2>1. c.state = b.state
    BY <1>1 DEF InbufType
  <2>. QED
    BY <1>1, <2>1, TasksAfterSkip
<1>3. inbuf' = [inbuf EXCEPT ![i] = c]
  BY <1>1 DEF SkipVertex, IInv, TypeInv
<1>4. inbuf'[i] = c /\ \A j \in Bufs : j # i => inbuf'[j] = inbuf[j]
  BY <1>1, <1>2, <1>3, InbufStep DEF IInv, TypeInv
<1>5. TasksIn(c) = TasksIn(b)
  BY <1>1, <1>2 DEF TasksIn
<1>6. UNCHANGED <<simds, ebuf, edge_chunk_cnt, event_out>>
  BY DEF SkipVertex
<1>7. Busy' = Busy /\ PartsLeft' = PartsLeft /\ Later' = Later
  BY <1>6 DEF Busy, PartsLeft, Later, NextChunk
<1>. QED
  BY <1>1, <1>4, <1>5, <1>6, <1>7, WorkStep

\* A task given out is one less to be given out, one more in the cores, and
\* one of its two events.
LEMMA AssignWork ==
  ASSUME IInv, IInv', WorkInv, WorkTyped, WorkTyped', AssignTask
  PROVE  WorkInv'
<1>. PICK i, b, k : i = Draining /\ b = inbuf[i] /\ k = GetIdleSIMD
  OBVIOUS
<1>. PICK c : c = NextTask(b)
  OBVIOUS
<1>1. /\ i \in Bufs /\ b.state = "DRAINING" /\ b \in InbufType /\ TaskPtrOK(b)
      /\ b.vertex_ptr < b.end_vertex /\ Depth(b) > 0
      /\ b.end_vertex - b.start_vertex \in NonEmpty(b.input_edge)
  BY DrainingBuffer DEF AssignTask
<1>2. c \in InbufType /\ TasksLeft(c) = TasksLeft(b) - 1
  BY <1>1, TasksAfterNext
<1>3. c.state = b.state
  BY <1>1 DEF NextTask, InbufType
<1>4. inbuf' = [inbuf EXCEPT ![i] = c]
  BY <1>1 DEF AssignTask, IInv, TypeInv
<1>5. inbuf'[i] = c /\ \A j \in Bufs : j # i => inbuf'[j] = inbuf[j]
  BY <1>1, <1>2, <1>4, InbufStep DEF IInv, TypeInv
<1>6. TasksIn(c) = TasksLeft(c) /\ TasksIn(b) = TasksLeft(b)
  BY <1>1, <1>3 DEF TasksIn
<1>7. UNCHANGED <<ebuf, edge_chunk_cnt>> /\ event_out' = event_out + 1
  BY DEF AssignTask
<1>8. PartsLeft' = PartsLeft /\ Later' = Later
  BY <1>7 DEF PartsLeft, Later, NextChunk
<1>9. Cardinality(Busy') = Cardinality(Busy) + 1
  <2>1. k \in Simds /\ simds[k].state = "IDLE"
    BY IdleCore DEF AssignTask, MoreTasks, IdleSimds
  <2>2. /\ simds'[k].state = "COMPUTING"
        /\ \A l \in Simds : l # k => simds'[l] = simds[l]
    BY <2>1 DEF AssignTask, IInv, TypeInv
  <2>3. Busy' = Busy \cup {k} /\ k \notin Busy
    BY <2>1, <2>2 DEF Busy
  <2>. QED
    BY <2>3, FS_AddElement DEF WorkTyped
<1>. PICK a, n, t, p, l : /\ a = event_out /\ n = Cardinality(Busy) /\ t = TasksLeft(b)
                          /\ p = PartsLeft /\ l = Later
  OBVIOUS
<1>10. a \in Nat /\ n \in Nat /\ t \in Nat /\ p \in Nat /\ l \in Nat
  BY <1>1, <1>6 DEF WorkTyped
<1>11. (a + 1) + (n + 1) + 2 * ((t - 1) + p + l) = a + n + 2 * (t + p + l)
  BY <1>10
<1>. QED
  BY <1>1, <1>2, <1>5, <1>6, <1>7, <1>8, <1>9, <1>11, WorkStep

\* A part asked for is in an input buffer.
LEMMA FillWork ==
  ASSUME IInv, InbufFree, NEW e \in Bufs, FillInbuf(e),
         NEW n \in Chunks, n = ebuf[e].edge_chunk_id,
         NEW p \in 0..(NumPart(n) - 1), p = ebuf[e].edge_part_cnt
  PROVE  \E i \in Bufs :
           /\ TasksIn(inbuf[i]) = 0 /\ TasksIn(inbuf'[i]) = TasksOfPart(n, p)
           /\ \A j \in Bufs : j # i => inbuf'[j] = inbuf[j]
<1>. PICK i, b, c : i = GetTargetBuf(inbuf, "IDLE") /\ b = inbuf[i] /\ c = BoundInbuf(b, e, p)
  OBVIOUS
<1>. PICK m : m = Cardinality(NonEmpty(Rows(n, p)))
  OBVIOUS
<1>1. i \in Bufs /\ b.state = "IDLE" /\ b = IdleInbuf(0)
  <2>1. i # None
    BY DEF InbufFree
  <2>2. i \in Bufs /\ b.state = "IDLE"
    BY <2>1, TargetBuf
  <2>. QED
    BY <2>2 DEF IInv, InbufInv
<1>2. TasksIn(b) = 0
  BY <1>1 DEF TasksIn
<1>3. inbuf'[i] = c /\ \A j \in Bufs : j # i => inbuf'[j] = inbuf[j]
  BY <1>1 DEF FillInbuf, IInv, TypeInv
<1>4. c.state = "FILLING" /\ c.non_empty_vertex = 0 + m
  BY <1>1 DEF BoundInbuf, IdleInbuf
<1>5. 0 + m = m
  <2>1. EdgeParts[n] \in Seq(Seq(Seq(Nat)))
    BY AggrAssumption
  <2>2. p + 1 \in 1..Len(EdgeParts[n])
    BY <2>1 DEF NumPart
  <2>3. Rows(n, p) \in Seq(Seq(Nat))
    BY <2>1, <2>2 DEF Rows
  <2>. QED
    BY <2>3, NonEmptyFinite
<1>6. TasksIn(c) = TasksOfPart(n, p)
  BY <1>4, <1>5 DEF TasksIn, Tasks, TasksOfPart
<1>. QED
  BY <1>1, <1>2, <1>3, <1>6

\* The next part of the chunk being drained is asked for.
LEMMA FetchWork ==
  ASSUME IInv, IInv', WorkInv, WorkTyped, WorkTyped', FetchPart
  PROVE  WorkInv'
<1>. PICK e : e = GetTargetBuf(ebuf, "DRAINING")
  OBVIOUS
<1>. PICK n, p : n = ebuf[e].edge_chunk_id /\ p = ebuf[e].edge_part_cnt
  OBVIOUS
<1>1. /\ e \in Bufs /\ ebuf[e].state = "DRAINING" /\ ebuf[e] \in EbufType
      /\ n \in Chunks /\ p \in 0..(NumPart(n) - 1)
  <2>1. e \in Bufs /\ ebuf[e].state = "DRAINING"
    BY TargetBuf DEF FetchPart
  <2>2. n \in Chunks /\ p \in 0..NumPart(n)
    BY <2>1 DEF IInv, EbufInv, EbufOK, HoldsChunk
  <2>3. p < NumPart(n)
    BY DEF FetchPart
  <2>4. NumPart(n) \in Nat
    BY <2>2, AggrAssumption DEF NumPart
  <2>. QED
    BY <2>1, <2>2, <2>3, <2>4 DEF IInv, TypeInv
<1>2. /\ UNCHANGED <<simds, edge_chunk_cnt, event_out>> /\ InbufFree /\ FillInbuf(e)
      /\ ebuf' = [ebuf EXCEPT ![e].edge_part_cnt = @ + 1]
  BY DEF FetchPart
<1>3. /\ ebuf'[e].state = "DRAINING" /\ ebuf'[e].edge_chunk_id = n
      /\ ebuf'[e].edge_part_cnt = p + 1
      /\ \A j \in Bufs : ebuf'[j].state = ebuf[j].state
  BY <1>1, <1>2 DEF IInv, TypeInv, EbufType
<1>4. Busy' = Busy
  BY <1>2 DEF Busy
<1>5. Later' = Later
  <2>1. NextChunk' = NextChunk
    BY <1>2, <1>3 DEF NextChunk, Waiting, Waits, Bufs
  <2>. QED
    BY <2>1 DEF Later
<1>6. PartsLeft = TasksFromPart(n, p) /\ PartsLeft' = TasksFromPart(n, p + 1)
  BY <1>1, <1>3 DEF WorkTyped
<1>7. TasksFromPart(n, p) = TasksOfPart(n, p) + TasksFromPart(n, p + 1)
  BY <1>1, PartTasks
<1>8. PICK i \in Bufs :
        /\ TasksIn(inbuf[i]) = 0 /\ TasksIn(inbuf'[i]) = TasksOfPart(n, p)
        /\ \A j \in Bufs : j # i => inbuf'[j] = inbuf[j]
  BY <1>1, <1>2, FillWork
<1>. PICK x, y, l : x = TasksOfPart(n, p) /\ y = TasksFromPart(n, p + 1) /\ l = Later
  OBVIOUS
<1>9. x \in Nat /\ y \in Nat /\ l \in Nat
  BY <1>6, <1>8 DEF WorkTyped
<1>10. x + y + l = 0 + (x + y) + l
  BY <1>9
<1>11. TasksIn(inbuf'[i]) + PartsLeft' + Later' = TasksIn(inbuf[i]) + PartsLeft + Later
  BY <1>5, <1>6, <1>7, <1>8, <1>10
<1>12. event_out' = event_out /\ Cardinality(Busy') = Cardinality(Busy)
  BY <1>2, <1>4
<1>. QED
  BY <1>8, <1>11, <1>12, WorkStep

\* The next chunk has room: its first part is asked for, the others are left.
LEMMA StartWork ==
  ASSUME IInv, IInv', WorkInv, WorkTyped, WorkTyped', StartChunk
  PROVE  WorkInv'
<1>. PICK e : e = NextEbuf
  OBVIOUS
<1>. PICK n, p : n = ebuf[e].edge_chunk_id /\ p = ebuf[e].edge_part_cnt
  OBVIOUS
<1>1. /\ e \in Bufs /\ ebuf[e].state = "READY" /\ n = NextChunk
      /\ \A j \in Bufs : ebuf[j].state # "DRAINING"
  BY NextInOrder DEF StartChunk
<1>2. /\ ebuf[e] \in EbufType /\ n \in Chunks /\ n \in Nat /\ p = 0
      /\ 0 \in 0..(NumPart(n) - 1)
  <2>1. n \in Chunks /\ p = 0
    BY <1>1 DEF IInv, EbufInv, EbufOK, HoldsChunk, Waits
  <2>2. NumPart(n) \in Nat \ {0}
    BY <2>1, AggrAssumption DEF NumPart
  <2>. QED
    BY <1>1, <2>1, <2>2, AggrAssumption DEF IInv, TypeInv, Chunks
<1>3. /\ UNCHANGED <<simds, edge_chunk_cnt, event_out>> /\ InbufFree /\ FillInbuf(e)
      /\ ebuf' = [ebuf EXCEPT ![e].state = "DRAINING",
                              ![e].event_cnt = NumPart(ebuf[e].edge_chunk_id),
                              ![e].edge_part_cnt = @ + 1]
  BY DEF StartChunk
<1>4. /\ ebuf'[e].state = "DRAINING" /\ ebuf'[e].edge_chunk_id = n
      /\ ebuf'[e].edge_part_cnt = 1
      /\ \A j \in Bufs : j # e => ebuf'[j] = ebuf[j]
  <2>. PICK b, m : b = ebuf[e] /\ m = NumPart(n)
    OBVIOUS
  <2>1. ebuf \in [Bufs -> EbufType] /\ b \in EbufType
    BY <1>2 DEF IInv, TypeInv
  <2>2. ebuf' = [ebuf EXCEPT ![e] = [b EXCEPT !.state = "DRAINING", !.event_cnt = m,
                                              !.edge_part_cnt = b.edge_part_cnt + 1]]
    BY <1>1, <1>3, <2>1 DEF EbufType
  <2>3. b.edge_part_cnt + 1 = 1
    BY <1>2
  <2>4. ebuf' = [ebuf EXCEPT ![e] = [b EXCEPT !.state = "DRAINING", !.event_cnt = m,
                                              !.edge_part_cnt = 1]]
    BY <2>2, <2>3
  <2>5. ebuf'[e] = [b EXCEPT !.state = "DRAINING", !.event_cnt = m, !.edge_part_cnt = 1]
    BY <1>1, <2>1, <2>4
  <2>6. \A j \in Bufs : j # e => ebuf'[j] = ebuf[j]
    BY <1>1, <2>1, <2>4
  <2>. QED
    BY <2>1, <2>5, <2>6 DEF EbufType
<1>5. Busy' = Busy
  BY <1>3 DEF Busy
<1>6. NextChunk' = n + 1
  <2>1. /\ Waiting(ebuf'[e]) = 0 /\ Waiting(ebuf[e]) = 1
        /\ \A j \in Bufs : j # e => Waiting(ebuf'[j]) = Waiting(ebuf[j])
    BY <1>1, <1>4 DEF Waiting, Waits
  <2>2. \A j \in Bufs : Waiting(ebuf[j]) \in Int
    BY DEF Waiting
  <2>3. edge_chunk_cnt \in Int /\ edge_chunk_cnt' = edge_chunk_cnt
    BY <1>3, AggrAssumption DEF IInv, TypeInv
  <2>4. CASE e = 0
    <3>1. 1 \in Bufs /\ 1 # e
      BY <2>4 DEF Bufs
    <3>. QED
      BY <1>1, <2>1, <2>2, <2>3, <2>4, <3>1 DEF NextChunk
  <2>5. CASE e = 1
    <3>1. 0 \in Bufs /\ 0 # e
      BY <2>5 DEF Bufs
    <3>. QED
      BY <1>1, <2>1, <2>2, <2>3, <2>5, <3>1 DEF NextChunk
  <2>. QED
    BY <1>1, <2>4, <2>5, OtherBuffer
<1>7. /\ Later = TasksFromPart(n, 0) + TasksFromChunk(n + 1)
      /\ Later' = TasksFromChunk(n + 1)
  BY <1>1, <1>2, <1>6, ChunkTasks DEF Later
<1>8. PartsLeft = 0 /\ PartsLeft' = TasksFromPart(n, 1)
  BY <1>1, <1>4 DEF WorkTyped
<1>9. TasksFromPart(n, 0) = TasksOfPart(n, 0) + TasksFromPart(n, 1)
  <2>1. 0 + 1 = 1
    OBVIOUS
  <2>2. TasksFromPart(n, 0) = TasksOfPart(n, 0) + TasksFromPart(n, 0 + 1)
    BY <1>2, PartTasks
  <2>. QED
    BY <2>1, <2>2
<1>10. PICK i \in Bufs :
         /\ TasksIn(inbuf[i]) = 0 /\ TasksIn(inbuf'[i]) = TasksOfPart(n, 0)
         /\ \A j \in Bufs : j # i => inbuf'[j] = inbuf[j]
  BY <1>1, <1>2, <1>3, FillWork
<1>. PICK x, y, l : /\ x = TasksOfPart(n, 0) /\ y = TasksFromPart(n, 1)
                    /\ l = TasksFromChunk(n + 1)
  OBVIOUS
<1>11. x \in Nat /\ y \in Nat /\ l \in Nat
  BY <1>7, <1>8, <1>10 DEF WorkTyped
<1>12. x + y + l = 0 + 0 + ((x + y) + l)
  BY <1>11
<1>13. TasksIn(inbuf'[i]) + PartsLeft' + Later' = TasksIn(inbuf[i]) + PartsLeft + Later
  BY <1>7, <1>8, <1>9, <1>10, <1>12
<1>14. event_out' = event_out /\ Cardinality(Busy') = Cardinality(Busy)
  BY <1>3, <1>5
<1>. QED
  BY <1>10, <1>13, <1>14, WorkStep

\* A chunk that waits for one more part, which is in an input buffer, has none
\* left to be asked for.
LEMMA AllPartsIn ==
  ASSUME NEW e, NEW eb, NEW n \in Chunks,
         eb.edge_part_cnt \in 0..NumPart(n), eb.event_cnt = 1,
         eb.event_cnt = On(inbuf[0], e) + On(inbuf[1], e) + NumPart(n) - eb.edge_part_cnt,
         On(inbuf[0], e) + On(inbuf[1], e) >= 1
  PROVE  eb.edge_part_cnt = NumPart(n)
<1>1. On(inbuf[0], e) \in 0..1 /\ On(inbuf[1], e) \in 0..1
  BY DEF On
<1>2. NumPart(n) \in Nat
  BY PartTasks
<1>. QED
  BY <1>1, <1>2

\* A task done: it leaves the cores, with the second of its events.  A buffer
\* given back had no task left to give out, a chunk published no part.
LEMMA WriteBackWork ==
  ASSUME IInv, IInv', WorkInv, WorkTyped, WorkTyped', SimdWritesBack
  PROVE  WorkInv'
<1>. PICK t, i : t = simds[core] /\ i = simds[core].inbuf_ptr
  OBVIOUS
<1>. PICK b, S : b = inbuf[i] /\ S = BusyOn(i)
  OBVIOUS
<1>. PICK cnt, e : cnt = b.event_cnt - 1 /\ e = b.ebuf_ptr
  OBVIOUS
<1>1. /\ core \in Simds /\ t.state = "COMPUTING" /\ i \in Bufs /\ b.state = "DRAINING"
      /\ b \in InbufType /\ TaskPtrOK(b) /\ e \in Bufs /\ ebuf[e].state = "DRAINING"
  <2>1. core \in Simds /\ t.state = "COMPUTING"
    BY DEF SimdWritesBack, TaskEnds, IInv, TypeInv
  <2>2. CoreOK(t)
    BY <2>1 DEF IInv, CoreInv
  <2>3. i \in Bufs /\ b.state = "DRAINING"
    BY <2>2 DEF CoreOK
  <2>4. b \in InbufType /\ TaskPtrOK(b)
    BY <2>3 DEF IInv, TypeInv, InbufInv
  <2>5. e \in Bufs /\ PartOf(b, ebuf[e])
    BY <2>3 DEF IInv, InbufInv
  <2>. QED
    BY <2>1, <2>3, <2>4, <2>5 DEF PartOf
<1>2. /\ simds' = [simds EXCEPT ![core] = IdleSimd]
      /\ event_out' = event_out + 1 /\ edge_chunk_cnt' = edge_chunk_cnt
      /\ inbuf' = [inbuf EXCEPT ![i] =
                     IF cnt = 0 THEN IdleInbuf(0) ELSE [@ EXCEPT !.event_cnt = cnt]]
      /\ IF cnt = 0 THEN ConfirmPart(e) ELSE UNCHANGED <<ebuf, aggr_buf>>
  BY DEF SimdWritesBack
<1>3. Cardinality(Busy') = Cardinality(Busy) - 1
  <2>1. /\ simds'[core].state = "IDLE"
        /\ \A k \in Simds : k # core => simds'[k] = simds[k]
    BY <1>1, <1>2 DEF IInv, TypeInv, IdleSimd
  <2>2. Busy' = Busy \ {core} /\ core \in Busy
    BY <1>1, <2>1 DEF Busy
  <2>. QED
    BY <2>2, FS_RemoveElement DEF WorkTyped
<1>4. \A j \in Bufs : j # i => inbuf'[j] = inbuf[j]
  BY <1>1, <1>2 DEF IInv, TypeInv
<1>5. TasksIn(inbuf'[i]) = TasksIn(b)
  <2>1. TasksIn(b) = TasksLeft(b)
    BY <1>1 DEF TasksIn
  <2>2. CASE cnt = 0
    <3>1. inbuf'[i] = IdleInbuf(0)
      BY <1>1, <1>2, <2>2 DEF IInv, TypeInv
    <3>2. TasksIn(inbuf'[i]) = 0
      BY <3>1 DEF TasksIn, IdleInbuf
    <3>3. core \in S /\ IsFiniteSet(S) /\ Cardinality(S) \in Nat
      <4>1. S \in SUBSET Simds /\ core \in S
        BY <1>1 DEF BusyOn
      <4>. QED
        BY <4>1, SimdsFinite, FS_Subset, FS_CardinalityType
    <3>4. Cardinality(S) # 0
      BY <3>3, FS_EmptySet
    <3>5. b.event_cnt = Cardinality(S) + TasksLeft(b) /\ TasksLeft(b) \in Nat
      BY <1>1, TasksLeftNat DEF IInv, TaskInv
    <3>6. b.event_cnt \in Int
      BY <1>1 DEF InbufType
    <3>7. TasksLeft(b) = 0
      BY <2>2, <3>3, <3>4, <3>5, <3>6
    <3>. QED
      BY <2>1, <3>2, <3>7
  <2>3. CASE cnt # 0
    <3>. PICK c : c = [b EXCEPT !.event_cnt = cnt]
      OBVIOUS
    <3>1. inbuf'[i] = c
      BY <1>1, <1>2, <2>3 DEF IInv, TypeInv
    <3>2. /\ c.state = b.state /\ c.start_vertex = b.start_vertex
          /\ c.vertex_ptr = b.vertex_ptr /\ c.feature_chunk_cnt = b.feature_chunk_cnt
          /\ c.input_edge = b.input_edge
      BY <1>1 DEF InbufType
    <3>3. TasksLeft(c) = TasksLeft(b)
      BY <3>2 DEF TasksLeft
    <3>4. TasksIn(c) = TasksLeft(c)
      BY <1>1, <3>2 DEF TasksIn
    <3>. QED
      BY <2>1, <3>1, <3>3, <3>4
  <2>. QED
    BY <2>2, <2>3
<1>6. PartsLeft' = PartsLeft /\ NextChunk' = NextChunk
  <2>. PICK eb, d : eb = ebuf[e] /\ d = ebuf[e].event_cnt - 1
    OBVIOUS
  <2>1. ebuf \in [Bufs -> EbufType] /\ eb \in EbufType
    BY <1>1 DEF IInv, TypeInv
  <2>2. CASE cnt # 0
    <3>1. ebuf' = ebuf
      BY <1>2, <2>2
    <3>. QED
      BY <1>2, <3>1 DEF PartsLeft, NextChunk
  <2>3. CASE cnt = 0 /\ d # 0
    <3>. PICK c : c = [eb EXCEPT !.event_cnt = d]
      OBVIOUS
    <3>1. ebuf' = [ebuf EXCEPT ![e] = c]
      BY <1>1, <1>2, <2>1, <2>3 DEF ConfirmPart
    <3>2. /\ c.state = eb.state /\ c.edge_chunk_id = eb.edge_chunk_id
          /\ c.edge_part_cnt = eb.edge_part_cnt
      BY <2>1 DEF EbufType
    <3>3. ebuf'[e] = c /\ \A j \in Bufs : j # e => ebuf'[j] = ebuf[j]
      BY <1>1, <2>1, <3>1
    <3>4. \A j \in Bufs : /\ ebuf'[j].state = ebuf[j].state
                          /\ ebuf'[j].edge_chunk_id = ebuf[j].edge_chunk_id
                          /\ ebuf'[j].edge_part_cnt = ebuf[j].edge_part_cnt
      BY <3>2, <3>3
    <3>5. PartsLeft' = PartsLeft
      BY <3>4, PartsKept
    <3>6. NextChunk' = NextChunk
      BY <1>2, <3>4 DEF NextChunk, Waiting, Waits, Bufs
    <3>. QED
      BY <3>5, <3>6
  <2>4. CASE cnt = 0 /\ d = 0
    <3>. PICK n, p : n = eb.edge_chunk_id /\ p = eb.edge_part_cnt
      OBVIOUS
    <3>1. ebuf' = [ebuf EXCEPT ![e] = IdleEbuf(0)]
      BY <1>1, <1>2, <2>1, <2>4 DEF ConfirmPart
    <3>2. ebuf'[e].state = "IDLE" /\ \A j \in Bufs : j # e => ebuf'[j] = ebuf[j]
      BY <1>1, <2>1, <3>1 DEF IdleEbuf
    <3>3. \A j \in Bufs : j # e => ebuf[j].state # "DRAINING"
      BY <1>1, EbufsDiffer DEF IInv
    <3>4. \A j \in Bufs : ebuf'[j].state # "DRAINING"
      BY <3>2, <3>3
    <3>5. PartsLeft' = 0
      BY <3>4 DEF WorkTyped
    <3>6. n \in Chunks /\ p \in 0..NumPart(n)
      BY <1>1 DEF IInv, EbufInv, EbufOK, HoldsChunk
    <3>7. NumPart(n) \in Nat /\ TasksFromPart(n, NumPart(n)) = 0
      BY <3>6, PartTasks
    <3>8. eb.event_cnt = On(inbuf[0], e) + On(inbuf[1], e) + NumPart(n) - p
      BY <1>1 DEF IInv, PartInv
    <3>9. On(inbuf[0], e) + On(inbuf[1], e) >= 1
      <4>1. On(inbuf[i], e) = 1
        BY DEF On
      <4>2. On(inbuf[0], e) \in 0..1 /\ On(inbuf[1], e) \in 0..1
        BY DEF On
      <4>3. i = 0 \/ i = 1
        BY <1>1, OtherBuffer
      <4>. QED
        BY <4>1, <4>2, <4>3
    <3>10. On(inbuf[0], e) \in 0..1 /\ On(inbuf[1], e) \in 0..1
      BY DEF On
    <3>11. p = NumPart(n)
      <4>1. eb.event_cnt = 1
        BY <2>1, <2>4 DEF EbufType
      <4>2. eb.edge_part_cnt \in 0..NumPart(n)
        BY <3>6
      <4>3. eb.event_cnt = On(inbuf[0], e) + On(inbuf[1], e) + NumPart(n) - eb.edge_part_cnt
        BY <3>8
      <4>4. n \in Chunks
        BY <3>6
      <4>. QED
        BY <3>9, <4>1, <4>2, <4>3, <4>4, AllPartsIn
    <3>12. PartsLeft = 0
      <4>1. PartsLeft = TasksFromPart(n, p)
        BY <1>1 DEF WorkTyped
      <4>. QED
        BY <3>7, <3>11, <4>1
    <3>13. \A j \in Bufs : Waiting(ebuf'[j]) = Waiting(ebuf[j])
      BY <1>1, <3>2 DEF Waiting, Waits
    <3>14. NextChunk' = NextChunk
      BY <1>2, <3>13 DEF NextChunk, Bufs
    <3>. QED
      BY <3>5, <3>12, <3>14
  <2>. QED
    BY <2>2, <2>3, <2>4
<1>7. Later' = Later
  BY <1>6 DEF Later
<1>. PICK a, k, x : a = event_out /\ k = Cardinality(Busy) /\ x = TasksIn(b) + PartsLeft + Later
  OBVIOUS
<1>8. a \in Nat /\ k \in Nat /\ x \in Nat
  BY <1>1 DEF WorkTyped
<1>9. (a + 1) + (k - 1) + 2 * x = a + k + 2 * x
  BY <1>8
<1>. QED
  BY <1>1, <1>2, <1>3, <1>4, <1>5, <1>6, <1>7, <1>9, WorkStep

\* Every step keeps the count, given the invariant before and after it.
LEMMA NextWork == IInv /\ IInv' /\ WorkInv /\ [Next]_vars => WorkInv'
<1>. SUFFICES ASSUME IInv, IInv', WorkInv, [Next]_vars PROVE WorkInv'
  OBVIOUS
<1>1. WorkTyped
  BY WorkTypes
<1>2. WorkTyped'
  <2>1. IInv' => WorkTyped'
    BY WorkTypes, PTL
  <2>. QED
    BY <2>1
<1>3. CASE Return
  <2>1. CASE ReturnAggr
    BY <2>1, TurnWork DEF ReturnAggr
  <2>. QED
    BY <1>1, <1>2, <1>3, <2>1, EdgesWork, ReturnWork DEF Return
<1>4. CASE ClockTick
  <2>1. CASE Tick \/ SkipEdges \/ Halted \/ SkipInput \/ KeepDraining \/ DispatchEnds
               \/ Finish \/ CombEnds
    BY <2>1, TurnWork
       DEF Tick, SkipEdges, Halted, SkipInput, KeepDraining, DispatchEnds, Finish, CombEnds
  <2>2. CASE SimdComputes \/ SimdWritesBack \/ FetchEdges \/ FetchPart
    BY <1>1, <1>2, <2>2, ComputeWork, WriteBackWork, EdgesWork, FetchWork
  <2>3. CASE StartChunk \/ StartDraining \/ SkipVertex \/ AssignTask
    BY <1>1, <1>2, <2>3, StartWork, DrainWork, SkipWork, AssignWork
  <2>. QED
    BY <1>4, <2>1, <2>2, <2>3 DEF ClockTick
<1>5. CASE CombTakes \/ CombReleases
  BY <1>5, TurnWork DEF CombTakes, CombReleases
<1>6. CASE UNCHANGED vars
  BY <1>6, TurnWork DEF vars
<1>. QED
  BY <1>3, <1>4, <1>5, <1>6 DEF Next

\* No task of the layer is lost or done twice, and buffers are given back by
\* counters that are right.
THEOREM AllAccounted == SafeSpec => []Accounting
<1>1. Init => WorkInv
  BY WorkAtStart
<1>2. IInv /\ IInv' /\ WorkInv /\ [Next]_vars => WorkInv'
  BY NextWork
<1>3. IInv /\ WorkInv => TaskAccounting
  BY WorkCounted
<1>4. TaskAccounting /\ BufferAccounting => Accounting
  BY DEF Accounting
<1>. QED
  BY <1>1, <1>2, <1>3, <1>4, Invariance, BuffersAccounted, PTL DEF SafeSpec

=============================================================================
