----------------------------- MODULE Cuts_proofs -----------------------------
(***************************************************************************)
(* Proofs about Cuts, for every layer, every graph and every capacity of   *)
(* the buffers.  The scan that cuts a layer into edge chunks covers it and *)
(* each chunk fits; the tiles cover the weights, fit the buffers and are   *)
(* read once; the parts of a chunk are its edges, each once and in order,  *)
(* and the neighbours of each fit an input buffer.  The graph keeps its    *)
(* edges in whatever is done to it, and its pages hold them; the drivers   *)
(* leave nothing out of a trace or an array.  Addresses that the mapping   *)
(* tells apart are apart in the DRAM, and all its bytes have one.          *)
(***************************************************************************)
EXTENDS Cuts, FiniteSetTheorems, SequenceTheorems, WellFoundedInduction, TLAPS

\* The smaller of two numbers is one of them.
LEMMA MinOfTwo ==
  ASSUME NEW a \in Nat \ {0}, NEW b \in Nat \ {0}
  PROVE  Min({a, b}) \in Nat \ {0} /\ Min({a, b}) <= a /\ Min({a, b}) <= b
<1>1. \E x \in {a, b} : \A y \in {a, b} : x =< y
  <2>1. CASE a <= b
    BY <2>1
  <2>2. CASE b <= a
    BY <2>2
  <2>. QED
    BY <2>1, <2>2
<1>2. Min({a, b}) \in {a, b} /\ \A y \in {a, b} : Min({a, b}) =< y
  BY <1>1 DEF Min
<1>. QED
  BY <1>2

\* What goes into something at least once.
LEMMA DivPositive ==
  ASSUME NEW n \in Nat, NEW m \in Nat \ {0}, m <= n
  PROVE  n \div m \in Nat \ {0}
<1>. DEFINE d == n \div m
            r == n % m
<1>1. d \in Int /\ r \in 0..(m - 1) /\ n = m * d + r
  OBVIOUS
<1>2. CASE d <= 0
  <2>1. m * d <= 0
    BY <1>1, <1>2
  <2>. QED
    BY <1>1, <2>1
<1>. QED
  BY <1>1, <1>2

\* A size that was rounded up is no smaller than it was.
LEMMA UpperAlignPositive ==
  ASSUME NEW n \in Nat \ {0}, NEW m \in Nat \ {0}
  PROVE  UpperAlign(n, m) \in Nat \ {0}
<1>1. CeilDiv(n, m) \in Nat \ {0}
  BY DivPositive, m <= n + m - 1, n + m - 1 \in Nat DEF CeilDiv
<1>2. \A k \in Nat \ {0} : k * m \in Nat \ {0}
  OBVIOUS
<1>. QED
  BY <1>1, <1>2 DEF UpperAlign

\* The fields of a configuration that the scan uses, and that a chunk may have
\* a vertex at all: the aggregation buffer holds one (ele_aggr_w_interval).
LEMMA Sizes ==
  ASSUME hy \in HyConfigs
  PROVE  /\ num_vertex \in Nat \ {0} /\ space_edge_chunk \in Nat \ {0}
         /\ hy.idx_bytes \in Nat \ {0} /\ hy.data_bytes \in Nat \ {0}
         /\ max_vertex \in Nat \ {0}
<1>1. \A f \in Fields : hy[f] \in Nat \ {0}
  BY TileConfigAssumption
<1>2. /\ num_vertex \in Nat \ {0} /\ space_edge_chunk \in Nat \ {0}
      /\ hy.idx_bytes \in Nat \ {0} /\ hy.data_bytes \in Nat \ {0}
      /\ hy.block_size \in Nat \ {0} /\ hy.weight_h \in Nat \ {0}
      /\ hy.cap_inbuf \in Nat \ {0} /\ hy.cap_aggrbuf \in Nat \ {0}
  BY <1>1 DEF num_vertex, space_edge_chunk, Fields
<1>3. hy.data_bytes * hy.weight_h \in Nat \ {0}
  BY <1>2
<1>4. space_aligned_vertex \in Nat \ {0}
  BY <1>2, <1>3, UpperAlignPositive DEF space_aligned_vertex
<1>5. space_aligned_vertex <= hy.cap_aggrbuf
  <2>1. space_aligned_vertex <= Min({hy.cap_inbuf, hy.cap_aggrbuf})
    BY TileConfigAssumption DEF space_aligned_vertex
  <2>2. /\ Min({hy.cap_inbuf, hy.cap_aggrbuf}) <= hy.cap_aggrbuf
        /\ Min({hy.cap_inbuf, hy.cap_aggrbuf}) \in Nat
    BY <1>2, MinOfTwo
  <2>. QED
    BY <1>2, <1>4, <2>1, <2>2
<1>6. hy.cap_aggrbuf \div space_aligned_vertex \in Nat \ {0}
  BY <1>2, <1>4, <1>5, DivPositive
<1>7. CeilDiv(hy.num_vertex, 2) \in Nat \ {0}
  <2>1. hy.num_vertex \in Nat \ {0}
    BY <1>2 DEF num_vertex
  <2>. QED
    BY <2>1, DivPositive, 2 <= hy.num_vertex + 2 - 1, hy.num_vertex + 2 - 1 \in Nat
    DEF CeilDiv
<1>8. max_vertex \in Nat \ {0}
  BY <1>6, <1>7, MinOfTwo DEF max_vertex, ele_aggr_w_interval
<1>. QED
  BY <1>2, <1>8

-----------------------------------------------------------------------------
\* The types, with what the scan has reached and filled.
TypeInv ==
  /\ hy \in HyConfigs
  /\ pc \in {"tile", "scan", "done", "abort"}
  /\ degree \in [Vertices -> Nat]
  /\ i \in 0..num_vertex
  /\ edge_size \in 0..space_edge_chunk /\ vertex_size \in 0..max_vertex
  /\ end_vertex_of_echunk \in Seq(Nat)

\* Chunks are closed only when they have vertices: the chunk being filled has
\* bytes if and only if it has vertices, since a vertex has an index at least.
FillInv ==
  /\ edge_size = 0 <=> vertex_size = 0
  /\ pc # "done" => LastEnd + vertex_size = i
  /\ pc = "done" => LastEnd = num_vertex

\* The chunks closed follow one another and the aggregation buffer takes each.
ChunksInv ==
  \A k \in 1..NumChunk :
    StartOf(k) < EndOf(k) /\ EndOf(k) - StartOf(k) <= max_vertex

IInv == TypeInv /\ FillInv /\ ChunksInv

\* The sizes are those of the configuration, which no step changes.
LEMMA SizesKept ==
  ASSUME hy' = hy
  PROVE  /\ num_vertex' = num_vertex /\ space_edge_chunk' = space_edge_chunk
         /\ max_vertex' = max_vertex /\ Vertices' = Vertices
<1>1. num_vertex' = num_vertex /\ space_edge_chunk' = space_edge_chunk
  BY DEF num_vertex, space_edge_chunk
<1>2. space_aligned_vertex' = space_aligned_vertex
  BY DEF space_aligned_vertex
<1>3. max_vertex' = max_vertex
  BY <1>2 DEF max_vertex, ele_aggr_w_interval
<1>4. Vertices' = Vertices
  BY <1>1 DEF Vertices
<1>. QED
  BY <1>1, <1>3, <1>4

\* A vertex takes some of the edge buffer.
LEMMA EdgeInfoPositive ==
  ASSUME hy \in HyConfigs, degree \in [Vertices -> Nat], NEW v \in Vertices
  PROVE  EdgeInfo(v) \in Nat \ {0}
<1>1. hy.idx_bytes \in Nat \ {0} /\ hy.idx_bytes + hy.data_bytes \in Nat /\ degree[v] \in Nat
  BY Sizes
<1>2. degree[v] * (hy.idx_bytes + hy.data_bytes) \in Nat
  BY <1>1
<1>. QED
  BY <1>1, <1>2 DEF EdgeInfo

\* Closing a chunk of at least one vertex, and at most max_vertex, that begins
\* where the last one ended, keeps the chunks in order.
LEMMA AppendChunk ==
  ASSUME IInv, hy' = hy, NEW e \in Nat,
         LastEnd < e, e - LastEnd <= max_vertex,
         end_vertex_of_echunk' = Append(end_vertex_of_echunk, e)
  PROVE  /\ end_vertex_of_echunk' \in Seq(Nat)
         /\ LastEnd' = e /\ ChunksInv'
<1>. DEFINE s == end_vertex_of_echunk
<1>0. PICK n \in Nat : n = Len(s)
  BY DEF IInv, TypeInv
<1>1. s \in Seq(Nat) /\ n = Len(s)
  BY <1>0 DEF IInv, TypeInv
<1>2. max_vertex \in Nat /\ max_vertex' = max_vertex
  BY SizesKept, Sizes DEF IInv, TypeInv
<1>3. s' \in Seq(Nat) /\ Len(s') = n + 1 /\ s'[n + 1] = e
  BY <1>1
<1>4. \A k \in 1..n : s'[k] = s[k]
  BY <1>1
<1>5. LastEnd' = e
  BY <1>1, <1>3 DEF LastEnd, EndOf, NumChunk
<1>6. ASSUME NEW k \in 1..n
      PROVE  StartOf(k)' < EndOf(k)' /\ EndOf(k)' - StartOf(k)' <= max_vertex'
  <2>1. EndOf(k)' = EndOf(k) /\ StartOf(k)' = StartOf(k)
    BY <1>1, <1>4 DEF StartOf, EndOf
  <2>. QED
    BY <1>1, <1>2, <2>1 DEF IInv, ChunksInv, NumChunk
<1>7. StartOf(n + 1)' = LastEnd /\ EndOf(n + 1)' = e
  <2>1. EndOf(n + 1)' = e
    BY <1>3 DEF EndOf
  <2>2. CASE n = 0
    <3>1. StartOf(n + 1)' = 0
      BY <2>2 DEF StartOf
    <3>2. LastEnd = 0
      BY <1>1, <2>2 DEF LastEnd, NumChunk
    <3>. QED
      BY <2>1, <3>1, <3>2
  <2>3. CASE n # 0
    <3>1. n \in 1..n /\ n + 1 # 1 /\ (n + 1) - 1 = n
      BY <2>3
    <3>. QED
      BY <1>1, <1>4, <2>1, <2>3, <3>1 DEF StartOf, EndOf, LastEnd, NumChunk
  <2>. QED
    BY <2>1, <2>2, <2>3
<1>8. \A k \in 1..(n + 1) : StartOf(k)' < EndOf(k)' /\ EndOf(k)' - StartOf(k)' <= max_vertex'
  <2>. SUFFICES ASSUME NEW k \in 1..(n + 1)
                PROVE  StartOf(k)' < EndOf(k)' /\ EndOf(k)' - StartOf(k)' <= max_vertex'
    OBVIOUS
  <2>1. k \in 1..n \/ k = n + 1
    BY <1>1
  <2>2. CASE k = n + 1
    <3>1. /\ StartOf(n + 1)' < EndOf(n + 1)'
          /\ EndOf(n + 1)' - StartOf(n + 1)' <= max_vertex'
      BY <1>2, <1>7
    <3>. QED
      BY <2>2, <3>1
  <2>. QED
    BY <1>6, <2>1, <2>2
<1>9. ChunksInv'
  BY <1>3, <1>8 DEF ChunksInv, NumChunk
<1>. QED
  BY <1>3, <1>5, <1>9

\* Where the last chunk ended is not beyond the vertex reached.
LEMMA LastEndType ==
  ASSUME IInv, pc # "done"
  PROVE  LastEnd \in Nat /\ LastEnd + vertex_size = i /\ LastEnd <= i
<1>1. LastEnd \in Nat
  BY DEF IInv, TypeInv, LastEnd, EndOf, NumChunk
<1>. QED
  BY <1>1, Sizes DEF IInv, TypeInv, FillInv

-----------------------------------------------------------------------------
\* The invariant holds before the tiles are cut.
LEMMA InitHolds == Init => IInv
<1>. SUFFICES ASSUME Init PROVE IInv
  OBVIOUS
<1>1. /\ num_vertex \in Nat \ {0} /\ space_edge_chunk \in Nat \ {0}
      /\ max_vertex \in Nat \ {0}
  BY Sizes DEF Init
<1>2. TypeInv
  BY <1>1 DEF Init, TypeInv
<1>3. FillInv
  BY DEF Init, FillInv, LastEnd, NumChunk
<1>4. ChunksInv
  BY DEF Init, ChunksInv, NumChunk
<1>. QED
  BY <1>2, <1>3, <1>4 DEF IInv

\* Cutting the tiles, the scan begins or the program exits.
LEMMA CutTilesKeeps == ASSUME IInv, CutTiles PROVE IInv'
<1>1. hy' = hy /\ degree' \in [Vertices -> Nat] /\ pc' \in {"abort", "scan"}
      /\ UNCHANGED <<i, edge_size, vertex_size, end_vertex_of_echunk>>
  BY AddrMapperAssumption DEF CutTiles
<1>2. TypeInv'
  BY <1>1, SizesKept DEF IInv, TypeInv
<1>3. LastEnd' = LastEnd
  BY <1>1 DEF LastEnd, EndOf, NumChunk
<1>4. FillInv'
  BY <1>1, <1>3 DEF IInv, FillInv, CutTiles
<1>5. ChunksInv'
  BY <1>1, SizesKept DEF IInv, ChunksInv, NumChunk, StartOf, EndOf
<1>. QED
  BY <1>2, <1>4, <1>5 DEF IInv

\* The exit for a vertex that does not fit leaves the chunks alone.
LEMMA TooBigKeeps == ASSUME IInv, TooBig PROVE IInv'
<1>1. TypeInv'
  BY SizesKept DEF IInv, TypeInv, TooBig
<1>2. LastEnd' = LastEnd
  BY DEF TooBig, LastEnd, EndOf, NumChunk
<1>3. FillInv'
  BY <1>2 DEF IInv, FillInv, TooBig
<1>4. ChunksInv'
  BY SizesKept DEF IInv, ChunksInv, TooBig, NumChunk, StartOf, EndOf
<1>. QED
  BY <1>1, <1>3, <1>4 DEF IInv

\* The chunk that is full has a vertex: an empty one has room for any vertex
\* that fits the edge buffer.
LEMMA CloseChunkKeeps == ASSUME IInv, CloseChunk PROVE IInv'
<1>1. /\ max_vertex \in Nat \ {0} /\ space_edge_chunk \in Nat \ {0}
      /\ num_vertex \in Nat \ {0}
  BY Sizes DEF IInv, TypeInv
<1>2. i \in Vertices
  BY <1>1 DEF IInv, TypeInv, CloseChunk, Vertices
<1>3. EdgeInfo(i) \in Nat \ {0}
  BY <1>2, EdgeInfoPositive DEF IInv, TypeInv
<1>4. vertex_size # 0
  <2>. SUFFICES ASSUME vertex_size = 0 PROVE FALSE
    OBVIOUS
  <2>1. edge_size = 0
    BY DEF IInv, FillInv
  <2>. QED
    BY <1>1, <1>3, <2>1 DEF CloseChunk, ChunkFull
<1>5. LastEnd < i /\ i - LastEnd <= max_vertex /\ i \in Nat
  BY <1>1, <1>4, LastEndType DEF IInv, TypeInv, CloseChunk
<1>6. end_vertex_of_echunk' \in Seq(Nat) /\ LastEnd' = i /\ ChunksInv'
  BY <1>5, AppendChunk DEF CloseChunk
<1>7. TypeInv'
  BY <1>1, <1>6, SizesKept DEF IInv, TypeInv, CloseChunk
<1>8. FillInv'
  BY <1>5, <1>6 DEF FillInv, CloseChunk
<1>. QED
  BY <1>6, <1>7, <1>8 DEF IInv

\* A vertex is added only while there is room for it, of both sizes.
LEMMA AddVertexKeeps == ASSUME IInv, AddVertex PROVE IInv'
<1>1. /\ max_vertex \in Nat \ {0} /\ space_edge_chunk \in Nat \ {0}
      /\ num_vertex \in Nat \ {0}
  BY Sizes DEF IInv, TypeInv
<1>2. i \in Vertices
  BY <1>1 DEF IInv, TypeInv, AddVertex, Vertices
<1>3. EdgeInfo(i) \in Nat \ {0}
  BY <1>2, EdgeInfoPositive DEF IInv, TypeInv
<1>4. TypeInv'
  BY <1>1, <1>3, SizesKept DEF IInv, TypeInv, AddVertex, ChunkFull
<1>5. LastEnd' = LastEnd
  BY DEF AddVertex, LastEnd, EndOf, NumChunk
<1>6. FillInv'
  <2>1. /\ LastEnd \in Nat /\ LastEnd + vertex_size = i
        /\ edge_size \in Nat /\ vertex_size \in Nat /\ i \in Nat
    BY <1>1, LastEndType DEF IInv, TypeInv, AddVertex
  <2>2. edge_size' # 0 /\ vertex_size' # 0
    BY <1>3, <2>1 DEF AddVertex
  <2>3. pc' = "scan" /\ LastEnd' + vertex_size' = i'
    BY <1>5, <2>1 DEF AddVertex
  <2>. QED
    BY <2>2, <2>3 DEF FillInv
<1>7. ChunksInv'
  BY SizesKept DEF IInv, ChunksInv, AddVertex, NumChunk, StartOf, EndOf
<1>. QED
  BY <1>4, <1>6, <1>7 DEF IInv

\* If the chunk being filled has no bytes it has no vertices: the last chunk
\* closed ends with the layer.
LEMMA LastChunkKeeps == ASSUME IInv, LastChunk PROVE IInv'
<1>1. max_vertex \in Nat /\ num_vertex \in Nat /\ i = num_vertex
  BY Sizes DEF IInv, TypeInv, LastChunk
<1>2. CASE edge_size # 0
  <2>1. vertex_size # 0
    BY <1>2 DEF IInv, FillInv
  <2>2. LastEnd < num_vertex /\ num_vertex - LastEnd <= max_vertex
    BY <1>1, <2>1, LastEndType DEF IInv, TypeInv, LastChunk
  <2>3. end_vertex_of_echunk' \in Seq(Nat) /\ LastEnd' = num_vertex /\ ChunksInv'
    BY <1>1, <1>2, <2>2, AppendChunk DEF LastChunk
  <2>4. TypeInv'
    BY <2>3, SizesKept DEF IInv, TypeInv, LastChunk
  <2>5. FillInv'
    BY <2>3, SizesKept DEF IInv, FillInv, LastChunk
  <2>. QED
    BY <2>3, <2>4, <2>5 DEF IInv
<1>3. CASE edge_size = 0
  <2>1. LastEnd = num_vertex
    BY <1>1, <1>3, LastEndType DEF IInv, FillInv, LastChunk
  <2>2. LastEnd' = LastEnd
    BY <1>3 DEF LastChunk, LastEnd, EndOf, NumChunk
  <2>3. TypeInv'
    BY <1>3, SizesKept DEF IInv, TypeInv, LastChunk
  <2>4. FillInv'
    BY <2>1, <2>2, SizesKept DEF IInv, FillInv, LastChunk
  <2>5. ChunksInv'
    BY <1>3, SizesKept DEF IInv, ChunksInv, LastChunk, NumChunk, StartOf, EndOf
  <2>. QED
    BY <2>3, <2>4, <2>5 DEF IInv
<1>. QED
  BY <1>2, <1>3

\* The invariant of the scan holds in every reachable state.
THEOREM Invariance == SafeSpec => []IInv
<1>1. IInv /\ [Next]_vars => IInv'
  <2>. SUFFICES ASSUME IInv, [Next]_vars PROVE IInv'
    OBVIOUS
  <2>1. CASE UNCHANGED vars
    <3>1. hy' = hy
      BY <2>1 DEF vars
    <3>2. TypeInv'
      BY <2>1, <3>1, SizesKept DEF vars, IInv, TypeInv
    <3>3. FillInv'
      BY <2>1, <3>1, SizesKept DEF vars, IInv, FillInv, LastEnd, EndOf, NumChunk
    <3>4. ChunksInv'
      BY <2>1, <3>1, SizesKept DEF vars, IInv, ChunksInv, NumChunk, StartOf, EndOf
    <3>. QED
      BY <3>2, <3>3, <3>4 DEF IInv
  <2>. QED
    BY <2>1, CutTilesKeeps, TooBigKeeps, CloseChunkKeeps, AddVertexKeeps,
       LastChunkKeeps DEF Next
<1>. QED
  BY InitHolds, <1>1, PTL DEF SafeSpec

\* For every layer, every graph and every size of the buffers, the chunks cut
\* by AddrMapper (config.cpp:138-173) follow one another from vertex 0, each
\* has vertices and no more than the aggregation buffer takes, and at the end
\* they cover the layer.
THEOREM ScanCovers == SafeSpec => []ChunksCover
<1>1. IInv => ChunksCover
  <2>. SUFFICES ASSUME IInv PROVE ChunksCover
    OBVIOUS
  <2>. QED
    BY Sizes DEF IInv, TypeInv, FillInv, ChunksInv, ChunksCover
<1>. QED
  BY <1>1, Invariance, PTL

-----------------------------------------------------------------------------
(* What the chunks hold.  The bytes of the open chunk are those of its     *)
(* vertices, so that the test which closes it says what would not have     *)
(* fitted; for that BytesBefore has to be shown to be what it says.        *)

\* A set of natural numbers that is not empty has a smallest.
LEMMA Smallest ==
  ASSUME NEW S \in SUBSET Nat, S # {}
  PROVE  \E m \in S : \A k \in S : m <= k
<1>. DEFINE T == {0..k : k \in S}
<1>1. IsWellFoundedOn(StrictSubsetOrdering(Nat), FiniteSubsetsOf(Nat))
  BY FS_StrictSubsetOrderingWellFounded
<1>2. \A k \in S : IsFiniteSet(0..k) /\ 0..k \in SUBSET Nat
  <2>. SUFFICES ASSUME NEW k \in S PROVE IsFiniteSet(0..k) /\ 0..k \in SUBSET Nat
    OBVIOUS
  <2>1. 0 \in Int /\ k \in Int
    OBVIOUS
  <2>. QED
    BY <2>1, FS_Interval
<1>3. T \subseteq FiniteSubsetsOf(Nat) /\ T # {}
  BY <1>2 DEF FiniteSubsetsOf
<1>4. PICK x \in T : \A y \in T : ~(<<y, x>> \in StrictSubsetOrdering(Nat))
  <2>. HIDE DEF T
  <2>. QED
    BY <1>1, <1>3, WFMin
<1>5. PICK m \in S : x = 0..m
  OBVIOUS
<1>6. ASSUME NEW k \in S, k < m PROVE FALSE
  <2>1. 0..k \in T
    OBVIOUS
  <2>2. 0..k \subseteq 0..m /\ m \in 0..m /\ m \notin 0..k
    BY <1>6
  <2>3. <<0..k, 0..m>> \in StrictSubsetOrdering(Nat)
    BY <1>6, <2>2 DEF StrictSubsetOrdering
  <2>. QED
    BY <1>4, <1>5, <2>1, <2>3
<1>. QED
  BY <1>6

\* A function that adds up the bytes of the first n vertices.
Adds(g, n) ==
  g = [v \in 0..n |-> IF v = 0 THEN 0 ELSE g[v - 1] + EdgeInfo(v - 1)]

\* There is one, for as many vertices as the layer has.
LEMMA AddsExists ==
  ASSUME hy \in HyConfigs, degree \in [Vertices -> Nat], NEW n \in 0..num_vertex
  PROVE  \E g \in [0..n -> Nat] : Adds(g, n)
<1>. DEFINE S == {m \in 0..num_vertex : ~ \E g \in [0..m -> Nat] : Adds(g, m)}
<1>0. num_vertex \in Nat
  BY Sizes
<1>. SUFFICES ASSUME S # {} PROVE FALSE
  OBVIOUS
<1>1. PICK m \in S : \A k \in S : m <= k
  <2>1. S \in SUBSET Nat
    BY <1>0
  <2>. HIDE DEF S
  <2>. QED
    BY <2>1, Smallest
<1>2. m \in 0..num_vertex /\ ~ \E g \in [0..m -> Nat] : Adds(g, m)
  OBVIOUS
<1>3. m # 0
  <2>. DEFINE z == [v \in 0..0 |-> 0]
  <2>1. z \in [0..0 -> Nat] /\ Adds(z, 0)
    BY DEF Adds
  <2>. QED
    BY <1>2, <2>1
<1>4. m - 1 \in 0..num_vertex /\ m - 1 \notin S
  <2>1. m - 1 \in 0..num_vertex /\ ~(m <= m - 1)
    BY <1>0, <1>2, <1>3
  <2>. HIDE DEF S
  <2>. QED
    BY <1>1, <2>1
<1>5. PICK f \in [0..(m - 1) -> Nat] : Adds(f, m - 1)
  BY <1>4
<1>6. EdgeInfo(m - 1) \in Nat
  <2>1. m - 1 \in Vertices
    BY <1>0, <1>2, <1>3 DEF Vertices
  <2>. QED
    BY <2>1, EdgeInfoPositive
<1>. DEFINE g == [v \in 0..m |-> IF v = m THEN f[m - 1] + EdgeInfo(m - 1) ELSE f[v]]
<1>7. g \in [0..m -> Nat]
  BY <1>0, <1>2, <1>3, <1>6
<1>8. Adds(g, m)
  <2>1. ASSUME NEW v \in 0..m
        PROVE  g[v] = IF v = 0 THEN 0 ELSE g[v - 1] + EdgeInfo(v - 1)
    <3>1. CASE v = m
      BY <1>0, <1>2, <1>3, <3>1
    <3>2. CASE v # m
      <4>1. v \in 0..(m - 1) /\ g[v] = f[v]
        BY <1>2, <3>2
      <4>2. f[v] = IF v = 0 THEN 0 ELSE f[v - 1] + EdgeInfo(v - 1)
        BY <1>5, <4>1 DEF Adds
      <4>3. v # 0 => v - 1 \in 0..m /\ g[v - 1] = f[v - 1]
        BY <1>2, <4>1
      <4>. QED
        BY <4>1, <4>2, <4>3
    <3>. QED
      BY <3>1, <3>2
  <2>. HIDE DEF g
  <2>. QED
    BY <1>7, <2>1 DEF Adds
<1>. QED
  BY <1>2, <1>7, <1>8

\* So BytesBefore adds up what its definition says.
LEMMA BytesAddUp ==
  ASSUME hy \in HyConfigs, degree \in [Vertices -> Nat]
  PROVE  /\ \A v \in 0..num_vertex : BytesBefore[v] \in Int
         /\ \A v \in Vertices : BytesBefore[v + 1] = BytesBefore[v] + EdgeInfo(v)
<1>0. num_vertex \in Nat
  BY Sizes
<1>1. \E g : Adds(g, num_vertex)
  BY <1>0, AddsExists
<1>2. BytesBefore = CHOOSE g : Adds(g, num_vertex)
  BY DEF BytesBefore, Adds
<1>3. Adds(BytesBefore, num_vertex)
  BY <1>1, <1>2
<1>4. \A v \in 0..num_vertex :
        BytesBefore[v] = IF v = 0 THEN 0 ELSE BytesBefore[v - 1] + EdgeInfo(v - 1)
  BY <1>3 DEF Adds
<1>5. \A v \in Vertices : v + 1 \in 0..num_vertex /\ v + 1 # 0 /\ (v + 1) - 1 = v
  BY <1>0 DEF Vertices
<1>6. \A v \in Vertices : BytesBefore[v + 1] = BytesBefore[v] + EdgeInfo(v)
  BY <1>4, <1>5
<1>7. \A v \in 0..num_vertex : BytesBefore[v] \in Int
  <2>. DEFINE S == {v \in 0..num_vertex : BytesBefore[v] \notin Int}
  <2>. SUFFICES ASSUME S # {} PROVE FALSE
    OBVIOUS
  <2>1. PICK m \in S : \A k \in S : m <= k
    <3>1. S \in SUBSET Nat
      BY <1>0
    <3>. HIDE DEF S
    <3>. QED
      BY <3>1, Smallest
  <2>2. m # 0
    BY <1>4
  <2>3. m - 1 \in 0..num_vertex /\ m - 1 \in Vertices
    BY <1>0, <2>2 DEF Vertices
  <2>4. BytesBefore[m - 1] \in Int
    BY <2>1, <2>3
  <2>5. EdgeInfo(m - 1) \in Int
    BY <2>3, EdgeInfoPositive
  <2>6. BytesBefore[m] = BytesBefore[m - 1] + EdgeInfo(m - 1)
    BY <1>4, <2>2
  <2>. QED
    BY <2>4, <2>5, <2>6
<1>. QED
  BY <1>6, <1>7

\* The next state's graph has bytes too.
LEMMA NextBytes == TypeInv' => (BytesBefore[0] \in Int)'
<1>1. TypeInv => BytesBefore[0] \in Int
  BY Sizes, BytesAddUp DEF TypeInv
<1>. QED
  BY <1>1, PTL

\* The bytes of a chunk that begins at vertex u, and of one that takes v too.
LEMMA EdgeBytesOfNext ==
  ASSUME hy \in HyConfigs, degree \in [Vertices -> Nat],
         NEW u \in 0..num_vertex, NEW v \in Vertices
  PROVE  /\ EdgeBytes(u, u) = 0
         /\ EdgeBytes(u, v + 1) = EdgeBytes(u, v) + EdgeInfo(v)
<1>1. v \in 0..num_vertex
  BY Sizes DEF Vertices
<1>2. BytesBefore[u] \in Int /\ BytesBefore[v] \in Int /\ EdgeInfo(v) \in Int
  BY <1>1, BytesAddUp, EdgeInfoPositive
<1>3. BytesBefore[v + 1] = BytesBefore[v] + EdgeInfo(v)
  BY BytesAddUp
<1>. QED
  BY <1>2, <1>3 DEF EdgeBytes

\* The bytes of the graph stay what they are while it does.
LEMMA BytesKept ==
  ASSUME hy' = hy, degree' = degree
  PROVE  BytesBefore' = BytesBefore
<1>1. num_vertex' = num_vertex /\ hy'.idx_bytes = hy.idx_bytes /\ hy'.data_bytes = hy.data_bytes
  BY SizesKept
<1>. QED
  BY <1>1 DEF BytesBefore, EdgeInfo

\* A chunk fits, and the vertex after it does not.
Fits(k) == EdgeBytes(StartOf(k), EndOf(k)) <= space_edge_chunk
Greedy(k) ==
  \/ EdgeBytes(StartOf(k), EndOf(k) + 1) > space_edge_chunk
  \/ EndOf(k) - StartOf(k) = max_vertex

\* Of the chunks closed in the scan all are greedy; the one that is closed at
\* its end is the last.
FitInv ==
  /\ pc = "tile" => i = 0 /\ edge_size = 0 /\ end_vertex_of_echunk = <<>>
  /\ pc = "scan" => edge_size = EdgeBytes(LastEnd, i)
  /\ \A k \in 1..NumChunk : Fits(k)
  /\ \A k \in 1..(NumChunk - 1) : Greedy(k)
  /\ pc # "done" /\ NumChunk > 0 => Greedy(NumChunk)

\* The chunks closed before stay as they are.
LEMMA ChunksKept ==
  ASSUME hy' = hy, degree' = degree, NEW k \in Nat,
         StartOf(k)' = StartOf(k), EndOf(k)' = EndOf(k)
  PROVE  Fits(k)' = Fits(k) /\ Greedy(k)' = Greedy(k)
<1>1. space_edge_chunk' = space_edge_chunk /\ max_vertex' = max_vertex
      /\ BytesBefore' = BytesBefore
  BY SizesKept, BytesKept
<1>. QED
  BY <1>1 DEF Fits, Greedy, EdgeBytes

\* A chunk that is closed is where the open one was, before it are the others.
LEMMA AppendPlaces ==
  ASSUME IInv, NEW n \in Nat, n = NumChunk, NEW e \in Nat,
         end_vertex_of_echunk' = Append(end_vertex_of_echunk, e)
  PROVE  /\ NumChunk' = n + 1
         /\ \A k \in 1..n : StartOf(k)' = StartOf(k) /\ EndOf(k)' = EndOf(k)
         /\ StartOf(n + 1)' = LastEnd /\ EndOf(n + 1)' = e
<1>. DEFINE s == end_vertex_of_echunk
<1>1. s \in Seq(Nat) /\ n = Len(s)
  BY DEF IInv, TypeInv, NumChunk
<1>2. Len(s') = n + 1 /\ s'[n + 1] = e /\ \A k \in 1..n : s'[k] = s[k]
  BY <1>1
<1>3. ASSUME NEW k \in 1..n PROVE StartOf(k)' = StartOf(k) /\ EndOf(k)' = EndOf(k)
  <2>1. k = 1 \/ k - 1 \in 1..n
    OBVIOUS
  <2>. QED
    BY <1>2, <2>1 DEF StartOf, EndOf
<1>4. StartOf(n + 1)' = LastEnd /\ EndOf(n + 1)' = e
  <2>1. CASE n = 0
    BY <1>1, <1>2, <2>1 DEF StartOf, EndOf, LastEnd, NumChunk
  <2>2. CASE n # 0
    <3>1. n \in 1..n /\ n + 1 # 1 /\ (n + 1) - 1 = n
      BY <2>2
    <3>. QED
      BY <1>1, <1>2, <2>2, <3>1 DEF StartOf, EndOf, LastEnd, NumChunk
  <2>. QED
    BY <2>1, <2>2
<1>. QED
  BY <1>2, <1>3, <1>4 DEF NumChunk

\* Closing the open chunk keeps the chunks fitting, if it fits.
LEMMA AppendFits ==
  ASSUME IInv, FitInv, hy' = hy, degree' = degree, pc = "scan", i \in Nat,
         end_vertex_of_echunk' = Append(end_vertex_of_echunk, i)
  PROVE  /\ \A k \in 1..NumChunk' : Fits(k)'
         /\ \A k \in 1..(NumChunk' - 1) : Greedy(k)'
<1>1. PICK n \in Nat : n = NumChunk
  BY DEF IInv, TypeInv, NumChunk
<1>2. /\ NumChunk' = n + 1
      /\ \A k \in 1..n : StartOf(k)' = StartOf(k) /\ EndOf(k)' = EndOf(k)
      /\ StartOf(n + 1)' = LastEnd /\ EndOf(n + 1)' = i
  BY <1>1, AppendPlaces
<1>3. \A k \in 1..n : Fits(k)' /\ Greedy(k)'
  <2>. SUFFICES ASSUME NEW k \in 1..n PROVE Fits(k)' /\ Greedy(k)'
    OBVIOUS
  <2>1. Fits(k)' = Fits(k) /\ Greedy(k)' = Greedy(k)
    BY <1>2, ChunksKept
  <2>2. Fits(k) /\ Greedy(k)
    <3>1. k \in 1..(n - 1) \/ (k = n /\ n > 0)
      OBVIOUS
    <3>. QED
      BY <1>1, <3>1 DEF FitInv
  <2>. QED
    BY <2>1, <2>2
<1>4. Fits(n + 1)'
  <2>1. edge_size = EdgeBytes(LastEnd, i) /\ edge_size <= space_edge_chunk
    BY Sizes DEF FitInv, IInv, TypeInv
  <2>2. BytesBefore' = BytesBefore /\ space_edge_chunk' = space_edge_chunk
    BY SizesKept, BytesKept
  <2>. QED
    BY <1>2, <2>1, <2>2 DEF Fits, EdgeBytes
<1>5. \A k \in 1..(n + 1) : Fits(k)'
  <2>. SUFFICES ASSUME NEW k \in 1..(n + 1) PROVE Fits(k)'
    OBVIOUS
  <2>1. k \in 1..n \/ k = n + 1
    OBVIOUS
  <2>. QED
    BY <1>3, <1>4, <2>1
<1>. QED
  BY <1>2, <1>3, <1>5

\* The steps that close no chunk keep those there are, and whether the last one
\* is greedy.
LEMMA SameChunksFit ==
  ASSUME IInv, FitInv, hy' = hy, degree' = degree,
         UNCHANGED end_vertex_of_echunk
  PROVE  /\ \A k \in 1..NumChunk' : Fits(k)'
         /\ \A k \in 1..(NumChunk' - 1) : Greedy(k)'
         /\ pc # "done" /\ NumChunk' > 0 => Greedy(NumChunk)'
<1>1. PICK n \in Nat : n = NumChunk /\ n = NumChunk'
  BY DEF IInv, TypeInv, NumChunk
<1>2. ASSUME NEW k \in Nat PROVE Fits(k)' = Fits(k) /\ Greedy(k)' = Greedy(k)
  <2>1. StartOf(k)' = StartOf(k) /\ EndOf(k)' = EndOf(k)
    BY DEF StartOf, EndOf
  <2>. QED
    BY <2>1, ChunksKept
<1>3. \A k \in 1..n : Fits(k)'
  BY <1>1, <1>2 DEF FitInv
<1>4. \A k \in 1..(n - 1) : Greedy(k)'
  <2>. SUFFICES ASSUME NEW k \in 1..(n - 1) PROVE Greedy(k)'
    OBVIOUS
  <2>1. Greedy(k)
    BY <1>1 DEF FitInv
  <2>2. Greedy(k)' = Greedy(k)
    BY <1>2
  <2>. QED
    BY <2>1, <2>2
<1>5. pc # "done" /\ n > 0 => Greedy(n)'
  <2>1. pc # "done" /\ n > 0 => Greedy(n)
    BY <1>1 DEF FitInv, Greedy
  <2>2. Greedy(n)' = Greedy(n)
    BY <1>2
  <2>. QED
    BY <2>1, <2>2
<1>6. Greedy(n)' = Greedy(NumChunk)'
  BY <1>1 DEF Greedy, StartOf, EndOf
<1>. QED
  BY <1>1, <1>3, <1>4, <1>5, <1>6

\* Every step keeps the fitting of the chunks.
LEMMA FitKept == ASSUME IInv, FitInv, Next, IInv' PROVE FitInv'
<1>0. /\ hy \in HyConfigs /\ degree \in [Vertices -> Nat] /\ i \in Nat
      /\ num_vertex \in Nat \ {0} /\ max_vertex \in Nat \ {0}
      /\ space_edge_chunk \in Nat \ {0}
      /\ edge_size \in Nat /\ vertex_size \in 0..max_vertex
      /\ end_vertex_of_echunk \in Seq(Nat) /\ NumChunk \in Nat
  BY Sizes DEF IInv, TypeInv, NumChunk
<1>1. CASE CutTiles
  <2>1. /\ hy' = hy /\ i' = 0 /\ edge_size' = 0 /\ end_vertex_of_echunk' = <<>>
        /\ pc' \in {"abort", "scan"}
    BY <1>1 DEF CutTiles, FitInv
  <2>2. NumChunk' = 0 /\ LastEnd' = 0
    BY <2>1 DEF NumChunk, LastEnd
  <2>3. EdgeBytes(LastEnd, i)' = 0
    <3>1. (BytesBefore[0] \in Int)'
      BY NextBytes DEF IInv
    <3>. QED
      BY <2>1, <2>2, <3>1 DEF EdgeBytes
  <2>. QED
    BY <2>1, <2>2, <2>3 DEF FitInv
<1>2. CASE TooBig
  <2>1. /\ hy' = hy /\ degree' = degree /\ pc = "scan" /\ pc' = "abort"
        /\ UNCHANGED end_vertex_of_echunk
    BY <1>2 DEF TooBig
  <2>. QED
    BY <2>1, SameChunksFit DEF FitInv
<1>3. CASE CloseChunk
  <2>1. /\ hy' = hy /\ degree' = degree /\ pc = "scan" /\ pc' = "scan" /\ i' = i
        /\ i < num_vertex /\ ChunkFull
        /\ end_vertex_of_echunk' = Append(end_vertex_of_echunk, i)
        /\ edge_size' = 0 /\ vertex_size' = 0
    BY <1>3 DEF CloseChunk
  <2>2. /\ \A k \in 1..NumChunk' : Fits(k)'
        /\ \A k \in 1..(NumChunk' - 1) : Greedy(k)'
    BY <1>0, <2>1, AppendFits
  <2>3. PICK n \in Nat : n = NumChunk
    BY <1>0
  <2>4. /\ NumChunk' = n + 1 /\ StartOf(n + 1)' = LastEnd /\ EndOf(n + 1)' = i
    BY <1>0, <2>1, <2>3, AppendPlaces
  <2>5. /\ LastEnd \in 0..num_vertex /\ i \in Vertices /\ i - LastEnd = vertex_size
    BY <1>0, <2>1, LastEndType DEF Vertices, IInv, TypeInv
  <2>6. /\ EdgeBytes(LastEnd, i + 1) = edge_size + EdgeInfo(i)
        /\ EdgeBytes(i, i) = 0
    <3>1. EdgeBytes(LastEnd, i + 1) = EdgeBytes(LastEnd, i) + EdgeInfo(i)
      BY <1>0, <2>5, EdgeBytesOfNext
    <3>2. i \in 0..num_vertex
      BY <1>0, <2>1
    <3>3. EdgeBytes(i, i) = 0
      BY <1>0, <2>5, <3>2, EdgeBytesOfNext
    <3>. QED
      BY <2>1, <3>1, <3>3 DEF FitInv
  <2>7. /\ BytesBefore' = BytesBefore /\ space_edge_chunk' = space_edge_chunk
        /\ max_vertex' = max_vertex
    BY <2>1, SizesKept, BytesKept
  <2>8. Greedy(n + 1)'
    <3>1. EdgeBytes(LastEnd, i + 1) > space_edge_chunk \/ i - LastEnd = max_vertex
      BY <1>0, <2>1, <2>5, <2>6 DEF ChunkFull
    <3>. QED
      BY <2>4, <2>7, <3>1 DEF Greedy, EdgeBytes
  <2>9. LastEnd' = i /\ EdgeBytes(LastEnd, i)' = 0
    <3>1. LastEnd' = i
      <4>1. LastEnd' = EndOf(n + 1)'
        BY <2>3, <2>4 DEF LastEnd, EndOf
      <4>. QED
        BY <2>4, <4>1
    <3>. QED
      BY <2>1, <2>6, <2>7, <3>1 DEF EdgeBytes
  <2>10. Greedy(NumChunk)'
    BY <2>4, <2>8 DEF Greedy, StartOf, EndOf
  <2>. QED
    BY <2>1, <2>2, <2>9, <2>10 DEF FitInv
<1>4. CASE AddVertex
  <2>1. /\ hy' = hy /\ degree' = degree /\ pc = "scan" /\ pc' = "scan" /\ i' = i + 1
        /\ i < num_vertex /\ edge_size' = edge_size + EdgeInfo(i)
        /\ UNCHANGED end_vertex_of_echunk
    BY <1>4 DEF AddVertex
  <2>2. LastEnd \in 0..num_vertex /\ i \in Vertices
    BY <1>0, <2>1, LastEndType, SMTT(30) DEF Vertices, IInv, TypeInv
  <2>3. EdgeBytes(LastEnd, i + 1) = edge_size + EdgeInfo(i)
    <3>1. EdgeBytes(LastEnd, i + 1) = EdgeBytes(LastEnd, i) + EdgeInfo(i)
      BY <1>0, <2>2, EdgeBytesOfNext
    <3>. QED
      BY <2>1, <3>1 DEF FitInv
  <2>4. LastEnd' = LastEnd /\ BytesBefore' = BytesBefore
    BY <2>1, BytesKept DEF LastEnd, NumChunk, EndOf
  <2>5. edge_size' = EdgeBytes(LastEnd, i)'
    BY <2>1, <2>3, <2>4 DEF EdgeBytes
  <2>. QED
    BY <2>1, <2>5, SameChunksFit DEF FitInv
<1>5. CASE LastChunk
  <2>1. hy' = hy /\ degree' = degree /\ pc = "scan" /\ pc' = "done"
    BY <1>5 DEF LastChunk
  <2>2. i = num_vertex
    BY <1>0, <1>5 DEF LastChunk, IInv, TypeInv
  <2>3. CASE edge_size # 0
    <3>1. end_vertex_of_echunk' = Append(end_vertex_of_echunk, i)
      BY <1>5, <2>2, <2>3 DEF LastChunk
    <3>2. /\ \A k \in 1..NumChunk' : Fits(k)'
          /\ \A k \in 1..(NumChunk' - 1) : Greedy(k)'
      BY <1>0, <2>1, <3>1, AppendFits
    <3>. QED
      BY <2>1, <3>2 DEF FitInv
  <2>4. CASE edge_size = 0
    <3>1. UNCHANGED end_vertex_of_echunk
      BY <1>5, <2>4 DEF LastChunk
    <3>. QED
      BY <2>1, <3>1, SameChunksFit DEF FitInv
  <2>. QED
    BY <2>3, <2>4
<1>. QED
  BY <1>1, <1>2, <1>3, <1>4, <1>5 DEF Next

\* For every layer, every graph and every size of the buffers, the edges of a
\* chunk fit the edge buffer, and no chunk was closed that had room for the
\* next vertex (config.cpp:148-160).
THEOREM ScanFits == SafeSpec => []ChunksFit
<1>1. Init => FitInv
  <2>. SUFFICES ASSUME Init PROVE FitInv
    OBVIOUS
  <2>1. pc = "tile" /\ i = 0 /\ edge_size = 0 /\ end_vertex_of_echunk = <<>>
    BY DEF Init
  <2>2. NumChunk = 0
    BY <2>1 DEF NumChunk
  <2>. QED
    BY <2>1, <2>2 DEF FitInv
<1>2. IInv /\ FitInv /\ [Next]_vars /\ IInv' => FitInv'
  <2>. SUFFICES ASSUME IInv, FitInv, [Next]_vars, IInv' PROVE FitInv'
    OBVIOUS
  <2>1. CASE UNCHANGED vars
    <3>1. hy' = hy /\ degree' = degree /\ pc' = pc /\ i' = i /\ edge_size' = edge_size
          /\ UNCHANGED end_vertex_of_echunk
      BY <2>1 DEF vars
    <3>2. BytesBefore' = BytesBefore /\ LastEnd' = LastEnd
      BY <3>1, BytesKept DEF LastEnd, NumChunk, EndOf
    <3>. QED
      BY <3>1, <3>2, SameChunksFit DEF FitInv, EdgeBytes
  <2>. QED
    BY <2>1, FitKept
<1>3. IInv /\ FitInv => ChunksFit
  BY DEF FitInv, ChunksFit, Fits, Greedy
<1>. QED
  BY <1>1, <1>2, <1>3, Invariance, PTL DEF SafeSpec

-----------------------------------------------------------------------------
(* The cut of the weights.                                                 *)

\* A product grows with its factors.
LEMMA TimesGrows ==
  ASSUME NEW a \in Int, NEW b \in Int, NEW c \in Nat, a <= b
  PROVE  a * c <= b * c
<1>. DEFINE e == b - a
<1>1. e \in Nat /\ b = a + e
  OBVIOUS
<1>. HIDE DEF e
<1>2. e * c \in Nat
  BY <1>1
<1>3. (a + e) * c = a * c + e * c
  BY <1>1
<1>. QED
  BY <1>1, <1>2, <1>3

\* And with both of them.
LEMMA SquareGrows ==
  ASSUME NEW a \in Nat, NEW b \in Nat, NEW c \in Nat, a <= c, b <= c
  PROVE  a * b <= c * c
<1>1. a * b <= c * b
  BY TimesGrows
<1>2. b * c <= c * c
  BY TimesGrows
<1>3. c * b = b * c
  OBVIOUS
<1>4. a * b \in Nat /\ c * b \in Nat /\ c * c \in Nat
  OBVIOUS
<1>. QED
  BY <1>1, <1>2, <1>3, <1>4

\* Of two products with one factor the larger has the larger other factor.
LEMMA TimesLess ==
  ASSUME NEW a \in Int, NEW b \in Int, NEW c \in Nat, a * c < b * c
  PROVE  a < b
<1>. SUFFICES ASSUME b <= a PROVE FALSE
  OBVIOUS
<1>1. b * c <= a * c /\ a * c \in Int /\ b * c \in Int
  BY TimesGrows
<1>. QED
  BY <1>1

\* What a division gives, and leaves.
LEMMA DivIs ==
  ASSUME NEW n \in Nat, NEW m \in Nat \ {0}
  PROVE  /\ n \div m \in Nat
         /\ (n \div m) * m <= n /\ n < (n \div m) * m + m
<1>. DEFINE d == n \div m
            r == n % m
<1>1. d \in Int /\ r \in 0..(m - 1) /\ n = m * d + r
  OBVIOUS
<1>2. m * d = d * m
  BY <1>1
<1>3. d >= 0
  <2>. SUFFICES ASSUME d <= 0 - 1 PROVE FALSE
    BY <1>1
  <2>1. d * m <= (0 - 1) * m
    BY <1>1, TimesGrows
  <2>2. (0 - 1) * m = 0 - m
    OBVIOUS
  <2>. QED
    BY <1>1, <1>2, <2>1, <2>2
<1>4. d * m \in Int /\ d * m + r = n
  BY <1>1, <1>2
<1>. QED
  BY <1>1, <1>3, <1>4

\* A multiple leaves nothing, and is what is divided by the quotient.
LEMMA MultipleIs ==
  ASSUME NEW k \in Nat, NEW m \in Nat \ {0}
  PROVE  (k * m) % m = 0 /\ (k * m) \div m = k
<1>. DEFINE n == k * m
            d == n \div m
<1>0. n \in Nat
  OBVIOUS
<1>1. n % m \in 0..(m - 1) /\ n = m * d + (n % m) /\ d \in Nat
  <2>. HIDE DEF n
  <2>. QED
    BY <1>0, DivIs
<1>2. d * m <= n /\ n < d * m + m
  BY <1>0, DivIs
<1>3. (d + 1) * m = d * m + m
  BY <1>1
<1>4. k < d + 1
  BY <1>0, <1>1, <1>2, <1>3, TimesLess
<1>5. d = k
  <2>. SUFFICES ASSUME d < k PROVE FALSE
    BY <1>1, <1>4
  <2>1. (d + 1) * m <= k * m
    BY <1>1, TimesGrows
  <2>. QED
    BY <1>1, <1>4
<1>6. m * d = k * m
  BY <1>5
<1>. QED
  BY <1>0, <1>1, <1>5, <1>6

\* As many chunks as CeilDiv says cover the whole, and one less does not.
LEMMA CeilIs ==
  ASSUME NEW n \in Nat \ {0}, NEW m \in Nat \ {0}
  PROVE  /\ CeilDiv(n, m) \in Nat \ {0}
         /\ (CeilDiv(n, m) - 1) * m < n /\ n <= CeilDiv(n, m) * m
<1>. DEFINE q == CeilDiv(n, m)
<1>1. q \in Nat \ {0}
  BY DivPositive, m <= n + m - 1, n + m - 1 \in Nat DEF CeilDiv
<1>2. q * m <= n + m - 1 /\ n + m - 1 < q * m + m
  BY DivIs, n + m - 1 \in Nat DEF CeilDiv
<1>. HIDE DEF q
<1>3. (q - 1) * m = q * m - m /\ q * m \in Nat
  BY <1>1
<1>4. (q - 1) * m < n /\ n <= q * m
  BY <1>2, <1>3
<1>. QED
  BY <1>1, <1>4 DEF q

\* No other number does.
LEMMA CeilUnique ==
  ASSUME NEW n \in Nat \ {0}, NEW m \in Nat \ {0}, NEW q \in Nat \ {0},
         (q - 1) * m < n, n <= q * m
  PROVE  CeilDiv(n, m) = q
<1>. DEFINE c == CeilDiv(n, m)
<1>1. c \in Nat \ {0} /\ (c - 1) * m < n /\ n <= c * m
  BY CeilIs
<1>. HIDE DEF c
<1>2. /\ c * m \in Nat /\ q * m \in Nat
      /\ (c - 1) * m \in Int /\ (q - 1) * m \in Int
      /\ c - 1 \in Int /\ q - 1 \in Int
  BY <1>1
<1>3. (c - 1) * m < q * m /\ (q - 1) * m < c * m
  BY <1>1, <1>2
<1>4. c - 1 < q /\ q - 1 < c
  BY <1>1, <1>2, <1>3, TimesLess
<1>5. c = q
  BY <1>1, <1>4
<1>. QED
  BY <1>5 DEF c

\* What is rounded down to a multiple is one, is no more than it was, and has
\* a multiple in it if it had.
LEMMA LowerIs ==
  ASSUME NEW n \in Nat, NEW m \in Nat \ {0}
  PROVE  /\ LowerAlign(n, m) \in Nat /\ LowerAlign(n, m) <= n
         /\ LowerAlign(n, m) % m = 0
         /\ m <= n => m <= LowerAlign(n, m)
<1>. DEFINE d == n \div m
<1>1. d \in Nat /\ d * m <= n
  BY DivIs
<1>2. m <= n => d \in Nat \ {0}
  BY DivPositive
<1>. HIDE DEF d
<1>3. d * m \in Nat /\ (d * m) % m = 0
  BY <1>1, MultipleIs
<1>4. ASSUME m <= n PROVE m <= d * m
  <2>1. 1 <= d
    BY <1>2, <1>4
  <2>2. 1 * m <= d * m
    BY <1>1, <2>1, TimesGrows
  <2>. QED
    BY <2>2
<1>5. LowerAlign(n, m) = d * m
  BY DEF LowerAlign, d
<1>. QED
  BY <1>1, <1>3, <1>4, <1>5

\* What is rounded up is a multiple and has a multiple in it.
LEMMA UpperIs ==
  ASSUME NEW n \in Nat \ {0}, NEW m \in Nat \ {0}
  PROVE  /\ UpperAlign(n, m) \in Nat \ {0} /\ m <= UpperAlign(n, m)
         /\ UpperAlign(n, m) % m = 0
<1>. DEFINE q == CeilDiv(n, m)
<1>1. q \in Nat \ {0}
  BY CeilIs
<1>. HIDE DEF q
<1>2. 1 * m <= q * m
  BY <1>1, TimesGrows
<1>3. (q * m) % m = 0
  BY <1>1, MultipleIs
<1>4. UpperAlign(n, m) = q * m
  BY DEF UpperAlign, q
<1>. QED
  BY <1>1, <1>2, <1>3, <1>4

\* A block has elements, the weight buffer has room for a square of blocks, and
\* the matrix rounded up has whole blocks.
LEMMA TileSizes ==
  ASSUME hy \in HyConfigs
  PROVE  /\ hy.data_bytes \in Nat \ {0} /\ hy.cap_wbuf \in Nat \ {0}
         /\ hy.cap_comb_inbuf \in Nat \ {0} /\ hy.cap_outbuf \in Nat \ {0}
         /\ ele_block \in Nat \ {0} /\ hy.block_size = ele_block * hy.data_bytes
         /\ ele_wbuf \in Nat /\ ele_wbuf * hy.data_bytes <= hy.cap_wbuf
         /\ hy.cap_wbuf < ele_wbuf * hy.data_bytes + hy.data_bytes
         /\ ele_block * ele_block <= ele_wbuf
         /\ hy.weight_h \in Nat \ {0} /\ hy.weight_w \in Nat \ {0}
<1>. DEFINE d == hy.data_bytes
            B == hy.block_size
            b == ele_block
            E == ele_wbuf
            C == hy.cap_wbuf
<1>1. \A f \in Fields : hy[f] \in Nat \ {0}
  BY TileConfigAssumption
<1>2. /\ d \in Nat \ {0} /\ B \in Nat \ {0} /\ C \in Nat \ {0}
      /\ hy.cap_comb_inbuf \in Nat \ {0} /\ hy.cap_outbuf \in Nat \ {0}
      /\ hy.weight_h \in Nat \ {0} /\ hy.weight_w \in Nat \ {0}
  BY <1>1 DEF Fields
<1>3. B % d = 0 /\ B * b <= C
  BY TileConfigAssumption DEF ele_block
<1>4. b \in Nat /\ B = d * b + (B % d)
  <2>1. b = B \div d
    BY DEF ele_block
  <2>. HIDE DEF d, B, b
  <2>. QED
    BY <1>2, <2>1, DivIs
<1>5. E \in Nat /\ E * d <= C /\ C < E * d + d
  BY <1>2, DivIs DEF ele_wbuf
<1>. HIDE DEF d, B, b, E, C
<1>6. B = b * d
  BY <1>2, <1>3, <1>4
<1>7. b # 0
  BY <1>2, <1>6
<1>8. b * b <= E
  <2>. SUFFICES ASSUME E + 1 <= b * b PROVE FALSE
    BY <1>4, <1>5
  <2>1. (E + 1) * d <= (b * b) * d /\ b * b \in Nat
    BY <1>2, <1>4, <1>5, TimesGrows
  <2>2. (E + 1) * d = E * d + d /\ (b * b) * d = (b * d) * b /\ E * d \in Nat
    BY <1>2, <1>4, <1>5
  <2>3. (b * b) * d <= C
    BY <1>3, <1>6, <2>2
  <2>. QED
    BY <1>2, <1>5, <2>1, <2>2, <2>3
<1>. QED
  BY <1>2, <1>4, <1>5, <1>6, <1>7, <1>8 DEF d, B, b, E, C

\* The square has whole blocks, one at least, and fits the buffer.
LEMMA SquareFits ==
  ASSUME hy \in HyConfigs
  PROVE  /\ SquareChunk \in Nat \ {0} /\ ele_block <= SquareChunk
         /\ SquareChunk % ele_block = 0
         /\ SquareChunk * SquareChunk <= ele_wbuf
<1>. DEFINE b == ele_block
            E == ele_wbuf
            T == {k \in 1..E : k * k <= E}
            above == {n \in Nat : \A k \in T : k <= n}
            K == Max(T)
<1>1. b \in Nat \ {0} /\ E \in Nat /\ b * b <= E
  BY TileSizes
<1>. HIDE DEF b, E
<1>2. b \in T
  <2>1. 1 * b <= b * b
    BY <1>1, TimesGrows
  <2>. QED
    BY <1>1, <2>1
<1>3. PICK m \in above : \A k \in above : m <= k
  <2>1. E \in above
    BY <1>1
  <2>. QED
    BY <2>1, Smallest
<1>4. m \in T
  <2>. SUFFICES ASSUME m \notin T PROVE FALSE
    OBVIOUS
  <2>1. m # 0
    BY <1>1, <1>2
  <2>2. m - 1 \in above
    BY <1>1, <1>3, <2>1
  <2>. QED
    BY <1>3, <2>2
<1>5. \E x \in T : \A y \in T : x >= y
  BY <1>3, <1>4
<1>6. K \in T /\ \A y \in T : K >= y
  <2>. HIDE DEF T
  <2>. QED
    BY <1>5 DEF Max
<1>. HIDE DEF K
<1>7. K \in Nat /\ K * K <= E /\ b <= K
  BY <1>1, <1>2, <1>6
<1>8. SquareChunk = LowerAlign(K, b)
  BY DEF SquareChunk, K, E, b
<1>9. /\ LowerAlign(K, b) \in Nat /\ LowerAlign(K, b) <= K
      /\ LowerAlign(K, b) % b = 0 /\ b <= LowerAlign(K, b)
  BY <1>1, <1>7, LowerIs
<1>10. LowerAlign(K, b) * LowerAlign(K, b) <= K * K
  BY <1>7, <1>9, SquareGrows
<1>11. LowerAlign(K, b) * LowerAlign(K, b) \in Nat /\ K * K \in Nat
  BY <1>7, <1>9
<1>12. LowerAlign(K, b) * LowerAlign(K, b) <= E
  BY <1>1, <1>7, <1>10, <1>11
<1>. QED
  BY <1>1, <1>8, <1>9, <1>12 DEF b, E

\* A strip of whole blocks beside a side that is shorter than the square.
LEMMA StripFits ==
  ASSUME NEW E \in Nat, NEW S \in Nat, NEW b \in Nat \ {0}, NEW x \in Nat \ {0},
         S * S <= E, b <= S, x < S
  PROVE  /\ LowerAlign(E \div x, b) \in Nat \ {0} /\ LowerAlign(E \div x, b) % b = 0
         /\ x * LowerAlign(E \div x, b) <= E
<1>. DEFINE q == E \div x
            w == LowerAlign(q, b)
<1>1. q \in Nat /\ q * x <= E /\ E < q * x + x
  BY DivIs
<1>. HIDE DEF q
<1>2. b <= q
  <2>1. b * x <= S * S
    BY SquareGrows
  <2>2. (q + 1) * x = q * x + x
    BY <1>1
  <2>3. b * x < (q + 1) * x
    <3>1. b * x \in Nat /\ S * S \in Nat /\ q * x \in Nat
      BY <1>1
    <3>. QED
      BY <1>1, <2>1, <2>2, <3>1
  <2>4. b < q + 1
    BY <1>1, <2>3, TimesLess
  <2>. QED
    BY <1>1, <2>4
<1>3. w \in Nat /\ w <= q /\ w % b = 0 /\ b <= w
  BY <1>1, <1>2, LowerIs
<1>. HIDE DEF w
<1>4. w * x <= q * x
  BY <1>1, <1>3, TimesGrows
<1>5. w * x = x * w /\ w * x \in Nat /\ q * x \in Nat
  BY <1>1, <1>3
<1>6. x * w <= E /\ w # 0
  BY <1>1, <1>3, <1>4, <1>5
<1>. QED
  BY <1>3, <1>6 DEF w, q

\* Whatever the matrix, a case of the cut applies, and what it chooses has whole
\* blocks, one at least, and fits the buffer.
LEMMA ChunkFits ==
  ASSUME hy \in HyConfigs
  PROVE  /\ Chunk # NoChunk
         /\ Chunk.h \in Nat \ {0} /\ Chunk.w \in Nat \ {0}
         /\ Chunk.h % ele_block = 0 /\ Chunk.w % ele_block = 0
         /\ Chunk.h * Chunk.w * hy.data_bytes <= hy.cap_wbuf
<1>. DEFINE H == aligned_weight_h
            W == aligned_weight_w
            S == SquareChunk
            b == ele_block
            E == ele_wbuf
            d == hy.data_bytes
            C == hy.cap_wbuf
<1>1. /\ d \in Nat \ {0} /\ C \in Nat /\ b \in Nat \ {0} /\ E \in Nat
      /\ E * d <= C
  BY TileSizes
<1>2. /\ H \in Nat \ {0} /\ H % b = 0
      /\ W \in Nat \ {0} /\ W % b = 0
  BY TileSizes, UpperIs DEF aligned_weight_h, aligned_weight_w
<1>3. S \in Nat \ {0} /\ b <= S /\ S % b = 0 /\ S * S <= E
  BY SquareFits
<1>4. ASSUME NEW h \in Nat \ {0}, NEW w \in Nat \ {0}, h % b = 0, w % b = 0,
             h * w * d <= C, Chunk = [h |-> h, w |-> w]
      PROVE  /\ Chunk # NoChunk
             /\ Chunk.h \in Nat \ {0} /\ Chunk.w \in Nat \ {0}
             /\ Chunk.h % b = 0 /\ Chunk.w % b = 0
             /\ Chunk.h * Chunk.w * d <= C
  <2>. HIDE DEF d, C, b
  <2>1. Chunk.h = h /\ Chunk.w = w /\ NoChunk.h = 0
    BY <1>4 DEF NoChunk
  <2>. QED
    BY <1>4, <2>1
<1>5. ASSUME NEW h \in Nat \ {0}, NEW w \in Nat \ {0}, h * w <= E PROVE h * w * d <= C
  <2>. HIDE DEF d, C, E
  <2>1. (h * w) * d <= E * d /\ (h * w) * d \in Nat /\ E * d \in Nat
    BY <1>1, <1>5, TimesGrows
  <2>. QED
    BY <1>1, <2>1
<1>6. CASE H * W * d <= C
  <2>1. Chunk = [h |-> H, w |-> W]
    BY <1>6 DEF Chunk
  <2>. HIDE DEF H, W
  <2>. QED
    BY <1>2, <1>4, <1>6, <2>1
<1>7. CASE ~(H * W * d <= C)
  <2>1. ~(H * W <= E)
    <3>. HIDE DEF H, W, E, d, C
    <3>. QED
      BY <1>2, <1>5, <1>7
  <2>2. CASE H >= S /\ W >= S
    <3>1. ~(H < S /\ W > S) /\ ~(W < S /\ H > S)
      <4>. HIDE DEF H, W, S
      <4>. QED
        BY <1>2, <1>3, <2>2
    <3>2. Chunk = [h |-> S, w |-> S]
      BY <1>7, <2>2, <3>1 DEF Chunk
    <3>3. S * S * d <= C
      BY <1>3, <1>5
    <3>. HIDE DEF S
    <3>. QED
      BY <1>3, <1>4, <3>2, <3>3
  <2>3. CASE H < S /\ W > S
    <3>1. ~(H >= S /\ W >= S)
      <4>. HIDE DEF H, W, S
      <4>. QED
        BY <1>2, <1>3, <2>3
    <3>2. ~(W < S /\ H > S)
      <4>. HIDE DEF H, W, S
      <4>. QED
        BY <1>2, <1>3, <2>3
    <3>3. Chunk = [h |-> H, w |-> LowerAlign(E \div H, b)]
      BY <1>7, <2>3, <3>1, <3>2 DEF Chunk
    <3>4. /\ LowerAlign(E \div H, b) \in Nat \ {0} /\ LowerAlign(E \div H, b) % b = 0
          /\ H * LowerAlign(E \div H, b) <= E
      BY <1>1, <1>2, <1>3, <2>3, StripFits
    <3>. DEFINE L == LowerAlign(E \div H, b)
    <3>. HIDE DEF L
    <3>5. H * L * d <= C
      BY <1>2, <1>5, <3>4 DEF L
    <3>. HIDE DEF H
    <3>. QED
      BY <1>2, <1>4, <3>3, <3>4, <3>5 DEF L
  <2>4. CASE W < S /\ H > S
    <3>1. ~(H >= S /\ W >= S)
      <4>. HIDE DEF H, W, S
      <4>. QED
        BY <1>2, <1>3, <2>4
    <3>2. ~(H < S /\ W > S)
      <4>. HIDE DEF H, W, S
      <4>. QED
        BY <1>2, <1>3, <2>4
    <3>3. Chunk = [h |-> LowerAlign(E \div W, b), w |-> W]
      BY <1>7, <2>4, <3>1, <3>2 DEF Chunk
    <3>4. /\ LowerAlign(E \div W, b) \in Nat \ {0} /\ LowerAlign(E \div W, b) % b = 0
          /\ W * LowerAlign(E \div W, b) <= E
      BY <1>1, <1>2, <1>3, <2>4, StripFits
    <3>. DEFINE L == LowerAlign(E \div W, b)
    <3>. HIDE DEF L
    <3>5. W * L <= E /\ L \in Nat
      BY <3>4 DEF L
    <3>6. L * W <= E
      <4>. HIDE DEF W
      <4>1. W * L = L * W
        BY <1>2, <3>5
      <4>. QED
        BY <3>5, <4>1
    <3>7. L * W * d <= C
      BY <1>2, <1>5, <3>4, <3>6 DEF L
    <3>. HIDE DEF W
    <3>. QED
      BY <1>2, <1>4, <3>3, <3>4, <3>7 DEF L
  <2>5. CASE ~(H >= S /\ W >= S) /\ ~(H < S /\ W > S) /\ ~(W < S /\ H > S)
    <3>. HIDE DEF H, W, S, E
    <3>1. H <= S /\ W <= S
      BY <1>2, <1>3, <2>5
    <3>2. H * W <= S * S
      BY <1>2, <1>3, <3>1, SquareGrows
    <3>3. H * W <= E
      <4>1. H * W \in Nat /\ S * S \in Nat
        BY <1>2, <1>3
      <4>. QED
        BY <1>1, <1>3, <3>2, <4>1
    <3>. QED
      BY <2>1, <3>3
  <2>. QED
    BY <2>2, <2>3, <2>4, <2>5
<1>. QED
  BY <1>6, <1>7

\* The smaller of two quotients, times its divisor, fits both.
LEMMA SmallerQuotient ==
  ASSUME NEW a \in Nat, NEW x \in Nat \ {0}, NEW c \in Nat, NEW y \in Nat \ {0}
  PROVE  /\ Min({a \div x, c \div y}) * x <= a
         /\ Min({a \div x, c \div y}) * y <= c
<1>. DEFINE p == a \div x
            q == c \div y
            m == Min({p, q})
<1>1. p \in Nat /\ p * x <= a /\ q \in Nat /\ q * y <= c
  BY DivIs
<1>. HIDE DEF p, q
<1>2. \E z \in {p, q} : \A u \in {p, q} : z =< u
  <2>1. p <= q \/ q <= p
    BY <1>1
  <2>2. CASE p <= q
    BY <1>1, <2>2
  <2>3. CASE q <= p
    BY <1>1, <2>3
  <2>. QED
    BY <2>1, <2>2, <2>3
<1>3. m \in {p, q} /\ \A u \in {p, q} : m =< u
  BY <1>2 DEF Min
<1>. HIDE DEF m
<1>4. m \in Nat /\ m <= p /\ m <= q
  BY <1>1, <1>3
<1>5. m * x <= p * x /\ m * y <= q * y
  BY <1>1, <1>4, TimesGrows
<1>6. m * x \in Nat /\ p * x \in Nat /\ m * y \in Nat /\ q * y \in Nat
  BY <1>1, <1>4
<1>7. m * x <= a /\ m * y <= c
  BY <1>1, <1>5, <1>6
<1>. QED
  BY <1>7 DEF m, p, q

\* The chunks of the weights cover the matrix, none is empty, and a batch of
\* rows fits the engine's buffers.
LEMMA TilesFitAll == ASSUME hy \in HyConfigs PROVE TilesFit
<1>1. /\ Chunk # NoChunk
      /\ Chunk.h \in Nat \ {0} /\ Chunk.w \in Nat \ {0}
      /\ Chunk.h % ele_block = 0 /\ Chunk.w % ele_block = 0
      /\ space_weight_block <= hy.cap_wbuf
  BY ChunkFits DEF space_weight_block
<1>2. aligned_weight_h \in Nat \ {0} /\ aligned_weight_w \in Nat \ {0}
  BY TileSizes, UpperIs DEF aligned_weight_h, aligned_weight_w
<1>3. /\ (num_comb_h_chunk - 1) * Chunk.h < aligned_weight_h
      /\ (num_comb_w_chunk - 1) * Chunk.w < aligned_weight_w
      /\ aligned_weight_h <= num_comb_h_chunk * Chunk.h
      /\ aligned_weight_w <= num_comb_w_chunk * Chunk.w
  BY <1>1, <1>2, CeilIs DEF num_comb_h_chunk, num_comb_w_chunk
<1>4. /\ sz_comb_batch * sz_comb_h_chunk <= hy.cap_comb_inbuf
      /\ sz_comb_batch * sz_comb_w_chunk <= hy.cap_outbuf
  <2>1. sz_comb_h_chunk \in Nat \ {0} /\ sz_comb_w_chunk \in Nat \ {0}
    <3>1. hy.data_bytes \in Nat \ {0}
      BY TileSizes
    <3>2. \A k \in Nat \ {0} : k * hy.data_bytes \in Nat \ {0}
      BY <3>1
    <3>. QED
      BY <1>1, <3>2 DEF sz_comb_h_chunk, sz_comb_w_chunk
  <2>2. hy.cap_comb_inbuf \in Nat /\ hy.cap_outbuf \in Nat
    BY TileSizes
  <2>. QED
    BY <2>1, <2>2, SmallerQuotient DEF sz_comb_batch
<1>. QED
  BY <1>1, <1>3, <1>4 DEF TilesFit

-----------------------------------------------------------------------------
(* What is read of the tiles.                                              *)

\* The pairs of a digit below n and a number below m are the numbers below
\* n * m: u * n + v.
LEMMA Digits ==
  ASSUME NEW m \in Nat, NEW n \in Nat \ {0}
  PROVE  /\ \A u \in 0..(m - 1), v \in 0..(n - 1) : u * n + v \in 0..(m * n - 1)
         /\ \A k \in 0..(m * n - 1) :
              \E u \in 0..(m - 1), v \in 0..(n - 1) : k = u * n + v
<1>1. m * n \in Nat
  OBVIOUS
<1>2. ASSUME NEW u \in 0..(m - 1), NEW v \in 0..(n - 1)
      PROVE  u * n + v \in 0..(m * n - 1)
  <2>1. (u + 1) * n <= m * n
    BY TimesGrows
  <2>2. (u + 1) * n = u * n + n /\ u * n \in Nat
    OBVIOUS
  <2>. QED
    BY <1>1, <2>1, <2>2
<1>3. ASSUME NEW k \in 0..(m * n - 1)
      PROVE  \E u \in 0..(m - 1), v \in 0..(n - 1) : k = u * n + v
  <2>. DEFINE u == k \div n
              v == k - u * n
  <2>1. u \in Nat /\ u * n <= k /\ k < u * n + n
    BY <1>1, DivIs
  <2>. HIDE DEF u
  <2>2. u * n \in Nat
    BY <2>1
  <2>3. v \in 0..(n - 1) /\ k = u * n + v
    BY <1>1, <2>1, <2>2
  <2>4. u * n < m * n
    BY <1>1, <2>1, <2>2
  <2>5. u < m
    BY <2>1, <2>4, TimesLess
  <2>6. u \in 0..(m - 1)
    BY <2>1, <2>5
  <2>. HIDE DEF v
  <2>. QED
    BY <2>3, <2>6
<1>. QED
  BY <1>2, <1>3

\* Rows of nh by nw chunks of h rows each are numbered in the order they lie in.
RowsInOrder(nh, nw, h) ==
  /\ \A c \in 0..(nh - 1), o \in 0..(nw - 1), r \in 0..(h - 1) :
       (c * nw + o) * h + r \in 0..((nh * nw) * h - 1)
  /\ \A k \in 0..((nh * nw) * h - 1) :
       \E c \in 0..(nh - 1), o \in 0..(nw - 1), r \in 0..(h - 1) :
         k = (c * nw + o) * h + r

\* Every number of a row is used, and no other.
LEMMA RowsNumbered ==
  ASSUME NEW nh \in Nat \ {0}, NEW nw \in Nat \ {0}, NEW h \in Nat \ {0}
  PROVE  RowsInOrder(nh, nw, h)
<1>. DEFINE m == nh * nw
<1>1. m \in Nat
  OBVIOUS
<1>2. /\ \A c \in 0..(nh - 1), o \in 0..(nw - 1) : c * nw + o \in 0..(m - 1)
      /\ \A k \in 0..(m - 1) :
           \E c \in 0..(nh - 1), o \in 0..(nw - 1) : k = c * nw + o
  BY Digits
<1>. HIDE DEF m
<1>3. /\ \A u \in 0..(m - 1), v \in 0..(h - 1) : u * h + v \in 0..(m * h - 1)
      /\ \A k \in 0..(m * h - 1) :
           \E u \in 0..(m - 1), v \in 0..(h - 1) : k = u * h + v
  BY <1>1, Digits
<1>. DEFINE F(c, o, r) == (c * nw + o) * h + r
            N == 0..(m * h - 1)
<1>4. ASSUME NEW c \in 0..(nh - 1), NEW o \in 0..(nw - 1), NEW r \in 0..(h - 1)
      PROVE  F(c, o, r) \in N
  <2>. DEFINE u == c * nw + o
  <2>1. u \in 0..(m - 1)
    BY <1>2
  <2>. HIDE DEF u
  <2>2. u * h + r \in N
    BY <1>3, <2>1
  <2>. QED
    BY <2>2 DEF u
<1>5. ASSUME NEW k \in N
      PROVE  \E c \in 0..(nh - 1), o \in 0..(nw - 1), r \in 0..(h - 1) : k = F(c, o, r)
  <2>1. PICK u \in 0..(m - 1), v \in 0..(h - 1) : k = u * h + v
    BY <1>3
  <2>2. PICK c \in 0..(nh - 1), o \in 0..(nw - 1) : u = c * nw + o
    BY <1>2
  <2>3. k = F(c, o, v)
    BY <2>1, <2>2
  <2>. HIDE DEF F
  <2>. QED
    BY <2>3
<1>. QED
  BY <1>4, <1>5 DEF RowsInOrder, m

\* The first n multiples of x, from 0.
Multiples(n, x) == {k * x : k \in 0..(n - 1)}

\* They are n.
LEMMA MultiplesCounted ==
  ASSUME NEW N \in Nat \ {0}, NEW x \in Nat \ {0}
  PROVE  Cardinality(Multiples(N, x)) = N
<1>. DEFINE S == 0..(N - 1)
            T == {k * x : k \in S}
            f == [k \in S |-> k * x]
<1>1. IsFiniteSet(S) /\ Cardinality(S) = N
  <2>1. 0 \in Int /\ N - 1 \in Int /\ 0 <= N - 1
    OBVIOUS
  <2>2. IsFiniteSet(0..(N - 1)) /\ Cardinality(0..(N - 1)) = (N - 1) - 0 + 1
    BY <2>1, FS_Interval
  <2>. QED
    BY <2>2
<1>2. ASSUME NEW j \in S, NEW k \in S, j * x = k * x PROVE j = k
  <2>1. ~(j * x < k * x) /\ ~(k * x < j * x)
    BY <1>2
  <2>2. ASSUME j < k PROVE FALSE
    <3>1. (j + 1) * x <= k * x
      BY <2>2, TimesGrows
    <3>2. (j + 1) * x = j * x + x /\ j * x \in Nat
      OBVIOUS
    <3>. QED
      BY <1>2, <3>1, <3>2
  <2>3. ASSUME k < j PROVE FALSE
    <3>1. (k + 1) * x <= j * x
      BY <2>3, TimesGrows
    <3>2. (k + 1) * x = k * x + x /\ k * x \in Nat
      OBVIOUS
    <3>. QED
      BY <1>2, <3>1, <3>2
  <2>. QED
    BY <2>2, <2>3
<1>3. f \in Bijection(S, T)
  <2>1. f \in [S -> T] /\ \A t \in T : \E k \in S : f[k] = t
    OBVIOUS
  <2>2. \A j, k \in S : f[j] = f[k] => j = k
    BY <1>2
  <2>. HIDE DEF f, S, T
  <2>. QED
    BY <2>1, <2>2 DEF Bijection, Injection, Surjection, IsInjective
<1>. HIDE DEF f, S, T
<1>4. Cardinality(T) = Cardinality(S)
  BY <1>1, <1>3, FS_Bijection DEF ExistsBijection
<1>. QED
  BY <1>1, <1>4 DEF S, T, Multiples

\* The bytes of a vector rounded up to whole blocks are those of its elements
\* rounded up to the elements of whole blocks.
LEMMA VectorIsMatrixHeight ==
  ASSUME hy \in HyConfigs
  PROVE  /\ space_aligned_vertex = aligned_weight_h * hy.data_bytes
         /\ aligned_weight_h \in Nat \ {0}
<1>. DEFINE d == hy.data_bytes
            b == ele_block
            n == hy.weight_h
            q == CeilDiv(n, b)
<1>1. d \in Nat \ {0} /\ b \in Nat \ {0} /\ n \in Nat \ {0} /\ hy.block_size = b * d
  BY TileSizes
<1>2. space_aligned_vertex = UpperAlign(d * n, b * d) /\ aligned_weight_h = q * b
  BY <1>1 DEF space_aligned_vertex, aligned_weight_h, UpperAlign
<1>. HIDE DEF d, b, n
<1>3. q \in Nat \ {0} /\ (q - 1) * b < n /\ n <= q * b
  BY <1>1, CeilIs
<1>. HIDE DEF q
<1>4. /\ b * d \in Nat \ {0} /\ d * n \in Nat \ {0}
      /\ q * b \in Nat \ {0} /\ (q - 1) * b \in Int
  BY <1>1, <1>3
<1>5. d * n = n * d /\ ((q - 1) * b) * d = (q - 1) * (b * d) /\ (q * b) * d = q * (b * d)
  BY <1>1, <1>3
<1>6. d * n <= q * (b * d)
  BY <1>1, <1>3, <1>4, <1>5, TimesGrows
<1>7. (q - 1) * (b * d) < d * n
  <2>1. ((q - 1) * b + 1) * d <= n * d
    BY <1>1, <1>3, <1>4, TimesGrows
  <2>. DEFINE p == (q - 1) * b
  <2>2. p \in Int /\ (p + 1) * d <= n * d /\ p * d = (q - 1) * (b * d)
    BY <1>4, <1>5, <2>1
  <2>. HIDE DEF p
  <2>3. (p + 1) * d = p * d + d /\ p * d \in Int
    BY <1>1, <2>2
  <2>. QED
    BY <1>1, <1>4, <1>5, <2>2, <2>3
<1>8. CeilDiv(d * n, b * d) = q
  BY <1>3, <1>4, <1>6, <1>7, CeilUnique
<1>9. UpperAlign(d * n, b * d) = (q * b) * d
  BY <1>5, <1>8 DEF UpperAlign
<1>. QED
  BY <1>2, <1>4, <1>9 DEF d

\* Every byte of the weights is read once, and every byte of a vector.
LEMMA TilesRead == ASSUME hy \in HyConfigs PROVE ReadsTile
<1>. DEFINE h == Chunk.h
            w == Chunk.w
            d == hy.data_bytes
            nh == num_comb_h_chunk
            nw == num_comb_w_chunk
            x == sz_comb_w_chunk
            N == (nh * nw) * h
            V == space_aligned_vertex
            H == aligned_weight_h
<1>1. h \in Nat \ {0} /\ w \in Nat \ {0} /\ d \in Nat \ {0}
  BY ChunkFits, TileSizes
<1>2. V = H * d /\ H \in Nat \ {0}
  BY VectorIsMatrixHeight
<1>3. nh \in Nat \ {0} /\ (nh - 1) * h < H
  BY <1>1, <1>2, CeilIs DEF num_comb_h_chunk
<1>4. nw \in Nat \ {0}
  <2>1. aligned_weight_w \in Nat \ {0}
    BY TileSizes, UpperIs DEF aligned_weight_w
  <2>. QED
    BY <1>1, <2>1, CeilIs DEF num_comb_w_chunk
<1>5. x = w * d /\ space_weight_block = h * w * d /\ sz_comb_h_chunk = h * d
  BY DEF sz_comb_w_chunk, space_weight_block, sz_comb_h_chunk
<1>6. space_aligned_weight = h * w * d * nh * nw
  BY <1>5 DEF space_aligned_weight
<1>7. /\ InputChunks = 0..(nh - 1) /\ OutputChunks = 0..(nw - 1)
      /\ \A c, o, r : WeightAddr(c, o, r) = (c * nw + o) * (h * w * d) + r * (w * d)
      /\ \A c : FeatureAddr(c) = c * (h * d)
      /\ \A c : FeatureBytes(c) = IF c = nh - 1 THEN V - c * (h * d) ELSE h * d
  BY <1>5 DEF InputChunks, OutputChunks, WeightAddr, FeatureAddr, FeatureBytes
<1>. HIDE DEF h, w, d, nh, nw, V, H, x
<1>8. x \in Nat \ {0} /\ N \in Nat \ {0}
  <2>1. nh * nw \in Nat \ {0}
    BY <1>3, <1>4
  <2>. QED
    BY <1>1, <1>5, <2>1
<1>9. space_aligned_weight \div x = N
  <2>1. space_aligned_weight = N * x
    BY <1>1, <1>3, <1>4, <1>5, <1>6
  <2>. HIDE DEF N
  <2>. QED
    BY <1>8, <2>1, MultipleIs
<1>10. ASSUME NEW c \in InputChunks, NEW o \in OutputChunks, NEW r \in 0..(h - 1)
       PROVE  WeightAddr(c, o, r) = ((c * nw + o) * h + r) * x
  <2>1. c \in Nat /\ o \in Nat /\ r \in Nat
    BY <1>1, <1>3, <1>4, <1>7
  <2>. DEFINE k == c * nw + o
  <2>2. k \in Nat /\ WeightAddr(c, o, r) = k * (h * w * d) + r * (w * d)
    BY <1>4, <1>7, <2>1
  <2>. HIDE DEF k
  <2>3. k * (h * w * d) + r * (w * d) = (k * h + r) * (w * d)
    BY <1>1, <2>1, <2>2
  <2>. QED
    BY <1>5, <2>2, <2>3 DEF k
<1>. DEFINE R == {WeightAddr(c, o, r) :
                       c \in InputChunks, o \in OutputChunks, r \in 0..(h - 1)}
<1>11. R = Multiples(N, x)
  <2>0. /\ \A c \in InputChunks, o \in OutputChunks, r \in 0..(h - 1) :
              (c * nw + o) * h + r \in 0..(N - 1)
        /\ \A k \in 0..(N - 1) :
              \E c \in InputChunks, o \in OutputChunks, r \in 0..(h - 1) :
                k = (c * nw + o) * h + r
    <3>1. /\ \A c \in 0..(nh - 1), o \in 0..(nw - 1), r \in 0..(h - 1) :
                (c * nw + o) * h + r \in 0..(N - 1)
          /\ \A k \in 0..(N - 1) :
                \E c \in 0..(nh - 1), o \in 0..(nw - 1), r \in 0..(h - 1) :
                  k = (c * nw + o) * h + r
      <4>1. RowsInOrder(nh, nw, h)
        BY <1>1, <1>3, <1>4, RowsNumbered
      <4>. QED
        BY <4>1, Zenon DEF RowsInOrder
    <3>. QED
      BY <1>7, <3>1, Zenon
  <2>. HIDE DEF N
  <2>1. ASSUME NEW c \in InputChunks, NEW o \in OutputChunks, NEW r \in 0..(h - 1)
        PROVE  \E k \in 0..(N - 1) : WeightAddr(c, o, r) = k * x
    <3>1. (c * nw + o) * h + r \in 0..(N - 1)
      BY <2>0
    <3>. QED
      BY <1>10, <3>1, Zenon
  <2>2. ASSUME NEW k \in 0..(N - 1)
        PROVE  \E c \in InputChunks, o \in OutputChunks, r \in 0..(h - 1) :
                 WeightAddr(c, o, r) = k * x
    <3>1. PICK c \in InputChunks, o \in OutputChunks, r \in 0..(h - 1) :
            k = (c * nw + o) * h + r
      BY <2>0
    <3>2. WeightAddr(c, o, r) = k * x
      BY <1>10, <3>1, Zenon
    <3>. QED
      BY <3>2
  <2>. QED
    BY <2>1, <2>2 DEF Multiples
<1>12. Cardinality(R) = N
  <2>. HIDE DEF N, R
  <2>. QED
    BY <1>8, <1>11, MultiplesCounted
<1>13. ASSUME NEW c \in InputChunks
       PROVE  /\ FeatureBytes(c) > 0
              /\ FeatureAddr(c) + FeatureBytes(c) =
                   IF c + 1 \in InputChunks THEN FeatureAddr(c + 1) ELSE V
  <2>1. c \in 0..(nh - 1) /\ c \in Nat
    BY <1>3, <1>7
  <2>2. h * d \in Nat \ {0} /\ V \in Nat
    BY <1>1, <1>2
  <2>3. CASE c = nh - 1
    <3>1. c + 1 \notin InputChunks
      BY <1>3, <1>7, <2>3
    <3>2. FeatureAddr(c) = c * (h * d) /\ FeatureBytes(c) = V - c * (h * d)
      BY <1>7, <2>3
    <3>3. (c * h + 1) * d <= H * d
      BY <1>1, <1>2, <1>3, <2>1, <2>3, TimesGrows
    <3>4. (c * h + 1) * d = c * (h * d) + d /\ c * (h * d) \in Nat
      BY <1>1, <2>1
    <3>. QED
      BY <1>1, <1>2, <2>2, <3>1, <3>2, <3>3, <3>4
  <2>4. CASE c # nh - 1
    <3>1. c + 1 \in InputChunks
      BY <1>3, <1>7, <2>1, <2>4
    <3>2. FeatureAddr(c) = c * (h * d) /\ FeatureBytes(c) = h * d
      BY <1>7, <2>4
    <3>3. FeatureAddr(c + 1) = (c + 1) * (h * d)
      BY <1>7
    <3>4. (c + 1) * (h * d) = c * (h * d) + h * d
      BY <2>1, <2>2
    <3>. QED
      BY <2>2, <3>1, <3>2, <3>3, <3>4
  <2>. QED
    BY <2>3, <2>4
<1>14. N = nh * nw * h
  OBVIOUS
<1>. HIDE DEF N, R
<1>15. x > 0 /\ R = Multiples(space_aligned_weight \div x, x)
  BY <1>8, <1>9, <1>11
<1>16. Cardinality(R) = num_comb_h_chunk * num_comb_w_chunk * Chunk.h
  BY <1>12, <1>14 DEF nh, nw, h
<1>17. \A c \in InputChunks :
         /\ FeatureBytes(c) > 0
         /\ FeatureAddr(c) + FeatureBytes(c) =
              IF c + 1 \in InputChunks THEN FeatureAddr(c + 1) ELSE space_aligned_vertex
  BY <1>13 DEF V
<1>. DEFINE Rows == {WeightAddr(c, o, r) :
                       c \in InputChunks, o \in OutputChunks, r \in 0..(Chunk.h - 1)}
<1>18. R = Rows
  BY DEF R, h
<1>19. Rows = {k * sz_comb_w_chunk :
                 k \in 0..((space_aligned_weight \div sz_comb_w_chunk) - 1)}
  <2>. HIDE DEF Rows
  <2>. QED
    BY <1>15, <1>18 DEF Multiples, x
<1>20. Cardinality(Rows) = num_comb_h_chunk * num_comb_w_chunk * Chunk.h
  <2>. HIDE DEF Rows
  <2>. QED
    BY <1>16, <1>18
<1>21. sz_comb_w_chunk > 0
  BY <1>15 DEF x
<1>. DEFINE A == /\ sz_comb_w_chunk > 0
                  /\ Rows = {k * sz_comb_w_chunk :
                               k \in 0..((space_aligned_weight \div sz_comb_w_chunk) - 1)}
                  /\ Cardinality(Rows) = num_comb_h_chunk * num_comb_w_chunk * Chunk.h
            B == \A c \in InputChunks :
                   /\ FeatureBytes(c) > 0
                   /\ FeatureAddr(c) + FeatureBytes(c) =
                        IF c + 1 \in InputChunks THEN FeatureAddr(c + 1)
                                                 ELSE space_aligned_vertex
<1>22. A
  <2>. HIDE DEF Rows
  <2>. QED
    BY <1>19, <1>20, <1>21
<1>23. B
  BY <1>17
<1>24. ReadsTile = (pc = "tile" => A /\ B)
  BY DEF ReadsTile
<1>. HIDE DEF A, B
<1>. QED
  BY <1>22, <1>23, <1>24

\* For every layer and all sizes of the buffers that TileConfigAssumption
\* allows, the chunks of weights cover the matrix and none is empty, each fits
\* the weight buffer, a batch fits the engine's, the last else of the cut is
\* never reached (config.cpp, TileConfig), and every byte of the weights and of
\* a vector is read once (comb.cpp, FetchWeights and FetchFeatures).
THEOREM TilesCovered == SafeSpec => []TilesCover
<1>1. IInv => TilesCover
  BY TilesFitAll, TilesRead DEF IInv, TypeInv, TilesCover
<1>. QED
  BY <1>1, Invariance, PTL

-----------------------------------------------------------------------------
(* The parts of a chunk's edges.                                           *)

\* The rows of a chunk, those in which nothing falls, and those without
\* repetitions.
PartRows == [P!RowIds -> Seq(P!Vertices)]
Ascending(rows) == \A r \in P!RowIds : P!Sorted(rows[r])
Repeats(row) == \E j, k \in 1..Len(row) : j # k /\ row[j] = row[k]
NoneRepeats(rows) == \A r \in P!RowIds : ~Repeats(rows[r])

\* The sizes are positive.
LEMMA PartSizes ==
  /\ raw_num_vertex \in Nat \ {0} /\ ele_h_interval \in Nat \ {0} /\ P!RowIds \subseteq Nat
  BY CutsAssumption DEF P!PartitionAssumption, P!RowIds

\* A least element there is.
LEMMA LeastIs ==
  ASSUME NEW S \in SUBSET Nat, S # {}
  PROVE  P!Least(S) \in S /\ \A y \in S : P!Least(S) <= y
  BY Smallest DEF P!Least

\* The window begins at the least head of a row.
LEMMA WindowBegins ==
  ASSUME edge_set \in PartRows
  PROVE  /\ P!StartEdge \in Nat /\ P!EndEdge = P!StartEdge + ele_h_interval
         /\ \A r \in P!NonEmptyRows(edge_set) : P!StartEdge <= edge_set[r][1]
         /\ P!NonEmptyRows(edge_set) # {} =>
              \E r \in P!NonEmptyRows(edge_set) : edge_set[r][1] = P!StartEdge
<1>. DEFINE S == {raw_num_vertex} \cup {edge_set[r][1] : r \in P!NonEmptyRows(edge_set)}
<1>1. \A r \in P!NonEmptyRows(edge_set) : edge_set[r][1] \in P!Vertices
  BY DEF PartRows, P!NonEmptyRows
<1>2. S \in SUBSET Nat /\ raw_num_vertex \in S
  BY <1>1, PartSizes DEF P!Vertices
<1>3. P!StartEdge \in S /\ \A y \in S : P!StartEdge <= y
  <2>. HIDE DEF S
  <2>1. P!Least(S) \in S /\ \A y \in S : P!Least(S) <= y
    BY <1>2, LeastIs
  <2>. QED
    BY <2>1 DEF P!StartEdge, S
<1>4. P!NonEmptyRows(edge_set) # {} => P!StartEdge # raw_num_vertex
  BY <1>1, <1>3, PartSizes DEF P!Vertices
<1>. QED
  BY <1>2, <1>3, <1>4 DEF P!EndEdge

\* A row stops at the first edge that it has to.
LEMMA RowStops ==
  ASSUME NEW row \in Seq(P!Vertices)
  PROVE  /\ P!StopPoint(row) \in 0..Len(row) /\ P!StopsAt(row, P!StopPoint(row))
         /\ \A j \in 0..(P!StopPoint(row) - 1) : ~P!StopsAt(row, j)
<1>. DEFINE S == {j \in 0..Len(row) : P!StopsAt(row, j)}
<1>1. Len(row) \in S
  BY DEF P!StopsAt
<1>2. S \in SUBSET Nat /\ S # {}
  BY <1>1
<1>3. P!StopPoint(row) \in S /\ \A y \in S : P!StopPoint(row) <= y
  <2>. HIDE DEF S
  <2>1. P!Least(S) \in S /\ \A y \in S : P!Least(S) <= y
    BY <1>2, LeastIs
  <2>. QED
    BY <2>1 DEF P!StopPoint, S
<1>4. ASSUME NEW j \in 0..(P!StopPoint(row) - 1), P!StopsAt(row, j) PROVE FALSE
  <2>1. j \in S
    BY <1>3, <1>4
  <2>2. P!StopPoint(row) <= j
    BY <1>3, <2>1
  <2>. QED
    BY <1>3, <2>2
<1>. QED
  BY <1>3, <1>4

\* What a row gives up and what it keeps are the row, in order.
LEMMA RowCut ==
  ASSUME NEW row \in Seq(P!Vertices), P!Sorted(row)
  PROVE  /\ P!Given(row) \in Seq(P!Vertices) /\ P!Rest(row) \in Seq(P!Vertices)
         /\ Len(P!Given(row)) = P!StopPoint(row)
         /\ \A j \in 1..Len(P!Given(row)) : P!Given(row)[j] = row[j]
         /\ Len(P!Rest(row)) = Len(row) - P!StopPoint(row)
         /\ \A j \in 1..Len(P!Rest(row)) : P!Rest(row)[j] = row[P!StopPoint(row) + j]
         /\ P!Given(row) \o P!Rest(row) = row
         /\ P!Sorted(P!Rest(row))
         /\ ~Repeats(row) => ~Repeats(P!Rest(row))
<1>. PICK p : p = P!StopPoint(row)
  OBVIOUS
<1>1. p \in 0..Len(row)
  BY RowStops
<1>2. /\ P!Given(row) = SubSeq(row, 1, p) /\ P!Rest(row) = SubSeq(row, p + 1, Len(row))
  BY DEF P!Given, P!Rest
<1>3. /\ P!Given(row) \in Seq(P!Vertices) /\ P!Rest(row) \in Seq(P!Vertices)
      /\ Len(P!Given(row)) = p /\ \A j \in 1..p : P!Given(row)[j] = row[j]
      /\ Len(P!Rest(row)) = Len(row) - p
      /\ \A j \in 1..(Len(row) - p) : P!Rest(row)[j] = row[p + j]
  BY <1>1, <1>2
<1>4. P!Given(row) \o P!Rest(row) = row
  <2>. PICK g, s : g = P!Given(row) /\ s = P!Rest(row)
    OBVIOUS
  <2>1. /\ g \in Seq(P!Vertices) /\ s \in Seq(P!Vertices) /\ Len(g) = p /\ Len(s) = Len(row) - p
        /\ \A j \in 1..p : g[j] = row[j]
        /\ \A j \in 1..(Len(row) - p) : s[j] = row[p + j]
    BY <1>3
  <2>2. /\ g \o s \in Seq(P!Vertices) /\ Len(g \o s) = Len(row)
        /\ \A j \in 1..Len(row) : (g \o s)[j] = IF j <= p THEN g[j] ELSE s[j - p]
    BY <1>1, <2>1, ConcatProperties
  <2>3. \A j \in 1..Len(row) : (g \o s)[j] = row[j]
    <3>. SUFFICES ASSUME NEW j \in 1..Len(row) PROVE (g \o s)[j] = row[j]
      OBVIOUS
    <3>1. CASE j <= p
      BY <1>1, <2>1, <2>2, <3>1
    <3>2. CASE j > p
      <4>1. j - p \in 1..(Len(row) - p) /\ p + (j - p) = j
        BY <1>1, <3>2
      <4>2. s[j - p] = row[p + (j - p)]
        BY <2>1, <4>1
      <4>3. ~(j <= p)
        BY <1>1, <3>2
      <4>4. (g \o s)[j] = s[j - p]
        BY <2>2, <4>3
      <4>. QED
        BY <4>1, <4>2, <4>4
    <3>3. j <= p \/ j > p
      BY <1>1
    <3>. QED
      BY <3>1, <3>2, <3>3
  <2>. QED
    BY <2>2, <2>3, SeqEqual
<1>5. \A j \in 1..(Len(row) - p) : p + j \in 1..Len(row)
  BY <1>1
<1>6. P!Sorted(P!Rest(row)) /\ (~Repeats(row) => ~Repeats(P!Rest(row)))
  <2>. SUFFICES ASSUME NEW j \in 1..Len(P!Rest(row)), NEW k \in 1..Len(P!Rest(row))
                PROVE  /\ j <= k => P!Rest(row)[j] <= P!Rest(row)[k]
                       /\ j # k /\ ~Repeats(row) => P!Rest(row)[j] # P!Rest(row)[k]
    BY DEF P!Sorted, Repeats
  <2>1. P!Rest(row)[j] = row[p + j] /\ P!Rest(row)[k] = row[p + k]
    BY <1>3
  <2>2. /\ p + j \in 1..Len(row) /\ p + k \in 1..Len(row) /\ (j <= k => p + j <= p + k)
        /\ (j # k => p + j # p + k)
    BY <1>1, <1>3, <1>5
  <2>. QED
    BY <2>1, <2>2 DEF P!Sorted, Repeats
<1>. QED
  BY <1>3, <1>4, <1>6

\* Without repetitions the vertices of a row rise by one at least.
LEMMA RowRises ==
  ASSUME NEW row \in Seq(P!Vertices), P!Sorted(row), ~Repeats(row), NEW n \in 1..Len(row)
  PROVE  row[1] + n - 1 <= row[n]
<1>. DEFINE S == {j \in 1..Len(row) : row[j] < row[1] + j - 1}
<1>0. \A j \in 1..Len(row) : row[j] \in Nat
  BY PartSizes DEF P!Vertices
<1>. SUFFICES ASSUME S # {} PROVE FALSE
  BY <1>0
<1>1. PICK m \in S : \A k \in S : m <= k
  <2>1. S \in SUBSET Nat
    OBVIOUS
  <2>. HIDE DEF S
  <2>. QED
    BY <2>1, Smallest
<1>2. m # 1 /\ m \in 1..Len(row)
  BY <1>0
<1>3. m - 1 \in 1..Len(row) /\ m - 1 \notin S
  <2>1. m - 1 \in 1..Len(row) /\ ~(m <= m - 1)
    BY <1>2
  <2>. HIDE DEF S
  <2>. QED
    BY <1>1, <2>1
<1>4. PICK a, b, c : a = row[1] /\ b = row[m - 1] /\ c = row[m]
  OBVIOUS
<1>5. a \in Nat /\ b \in Nat /\ c \in Nat
  BY <1>0, <1>2, <1>3, <1>4
<1>6. b <= c /\ b # c
  <2>1. m - 1 <= m /\ m - 1 # m
    BY <1>2
  <2>. HIDE DEF S
  <2>. QED
    BY <1>2, <1>3, <1>4, <2>1 DEF P!Sorted, Repeats
<1>7. c < a + m - 1 /\ ~(b < a + (m - 1) - 1) /\ m \in Nat
  BY <1>2, <1>3, <1>4
<1>. QED
  BY <1>5, <1>6, <1>7

\* What a row gives up lies in the window; without repetitions, what it keeps
\* lies behind it.
LEMMA RowInWindow ==
  ASSUME edge_set \in PartRows, NEW row \in Seq(P!Vertices), P!Sorted(row),
         row # <<>> => P!StartEdge <= row[1]
  PROVE  /\ \A j \in 1..Len(P!Given(row)) : P!Given(row)[j] \in P!StartEdge..(P!EndEdge - 1)
         /\ ~Repeats(row) => \A j \in 1..Len(P!Rest(row)) : P!EndEdge <= P!Rest(row)[j]
         /\ row # <<>> /\ row[1] = P!StartEdge => P!Given(row) # <<>>
<1>. PICK p : p = P!StopPoint(row)
  OBVIOUS
<1>1. /\ p \in 0..Len(row) /\ P!StopsAt(row, p) /\ \A j \in 0..(p - 1) : ~P!StopsAt(row, j)
  BY RowStops
<1>2. /\ P!StartEdge \in Nat /\ P!EndEdge = P!StartEdge + ele_h_interval
      /\ ele_h_interval \in Nat \ {0}
  BY WindowBegins, PartSizes
<1>3. \A j \in 1..Len(row) : row[j] \in Nat /\ row[1] <= row[j]
  BY PartSizes DEF P!Vertices, P!Sorted
<1>4. /\ Len(P!Given(row)) = p /\ \A j \in 1..p : P!Given(row)[j] = row[j]
      /\ Len(P!Rest(row)) = Len(row) - p
      /\ \A j \in 1..(Len(row) - p) : P!Rest(row)[j] = row[p + j]
      /\ P!Given(row) \in Seq(P!Vertices)
  BY RowCut
<1>5. ASSUME NEW j \in 1..p PROVE row[j] \in P!StartEdge..(P!EndEdge - 1)
  <2>1. j - 1 \in 0..(p - 1) /\ j \in 1..Len(row) /\ (j - 1) + 1 = j
    BY <1>1
  <2>2. ~(row[j] >= P!EndEdge)
    BY <1>1, <2>1 DEF P!StopsAt
  <2>. QED
    BY <1>2, <1>3, <2>1, <2>2
<1>6. ASSUME ~Repeats(row), NEW j \in 1..(Len(row) - p) PROVE P!EndEdge <= row[p + j]
  <2>1. p + j \in 1..Len(row) /\ p + 1 \in 1..Len(row) /\ p + 1 <= p + j
    BY <1>1
  <2>2. row[p + 1] <= row[p + j]
    BY <2>1 DEF P!Sorted
  <2>3. CASE p = ele_h_interval
    <3>1. row[1] + (p + 1) - 1 <= row[p + 1]
      BY <1>6, <2>1, RowRises
    <3>. QED
      BY <1>1, <1>2, <1>3, <2>1, <2>2, <2>3, <3>1
  <2>4. CASE row[p + 1] >= P!EndEdge
    BY <1>2, <1>3, <2>1, <2>2, <2>4
  <2>. QED
    BY <1>1, <2>1, <2>3, <2>4 DEF P!StopsAt
<1>7. ASSUME row # <<>>, row[1] = P!StartEdge PROVE P!Given(row) # <<>>
  <2>1. ~P!StopsAt(row, 0)
    BY <1>2, <1>3, <1>7 DEF P!StopsAt
  <2>. QED
    BY <1>1, <1>4, <2>1
<1>. QED
  BY <1>4, <1>5, <1>6, <1>7

\* f is what Joined puts together of row r, part after part.
Joins(f, parts, r) ==
  f = [k \in 0..Len(parts) |-> IF k = 0 THEN <<>> ELSE f[k - 1] \o parts[k][r]]

\* There is such a function: there is no smallest number of parts without.
LEMMA JoinsExists ==
  ASSUME NEW parts \in Seq(PartRows), NEW r \in P!RowIds
  PROVE  \E f \in [0..Len(parts) -> Seq(P!Vertices)] : Joins(f, parts, r)
<1>. DEFINE Upto(f, n) ==
       /\ f \in [0..n -> Seq(P!Vertices)]
       /\ \A k \in 0..n : f[k] = IF k = 0 THEN <<>> ELSE f[k - 1] \o parts[k][r]
     S == {n \in 0..Len(parts) : ~ \E f : Upto(f, n)}
<1>1. S = {}
  <2>. SUFFICES ASSUME S # {} PROVE FALSE
    OBVIOUS
  <2>1. PICK m \in S : \A k \in S : m <= k
    <3>1. S \in SUBSET Nat
      OBVIOUS
    <3>. HIDE DEF S
    <3>. QED
      BY <3>1, Smallest
  <2>2. m \in 0..Len(parts) /\ ~ \E f : Upto(f, m)
    OBVIOUS
  <2>3. m # 0
    <3>. DEFINE z == [k \in 0..0 |-> <<>>]
    <3>1. z \in [0..0 -> Seq(P!Vertices)] /\ z[0] = <<>> /\ \A k \in 0..0 : k = 0
      OBVIOUS
    <3>2. Upto(z, 0)
      BY <3>1
    <3>. QED
      BY <2>2, <3>2
  <2>4. m - 1 \in 0..Len(parts) /\ m - 1 \notin S
    <3>1. m - 1 \in 0..Len(parts) /\ ~(m <= m - 1)
      BY <2>2, <2>3
    <3>. HIDE DEF S
    <3>. QED
      BY <2>1, <3>1
  <2>5. PICK f : Upto(f, m - 1)
    BY <2>4
  <2>6. parts[m][r] \in Seq(P!Vertices)
    <3>1. m \in 1..Len(parts)
      BY <2>2, <2>3
    <3>. QED
      BY <3>1 DEF PartRows
  <2>7. f[m - 1] \in Seq(P!Vertices)
    BY <2>2, <2>3, <2>5
  <2>. DEFINE g == [k \in 0..m |-> IF k = m THEN f[m - 1] \o parts[m][r] ELSE f[k]]
  <2>8. g \in [0..m -> Seq(P!Vertices)]
    <3>1. f[m - 1] \o parts[m][r] \in Seq(P!Vertices)
      BY <2>6, <2>7, ConcatProperties
    <3>2. \A k \in 0..m : k # m => k \in 0..(m - 1)
      BY <2>2
    <3>. QED
      BY <2>5, <3>1, <3>2
  <2>9. ASSUME NEW k \in 0..m
        PROVE  g[k] = IF k = 0 THEN <<>> ELSE g[k - 1] \o parts[k][r]
    <3>1. CASE k = m
      <4>1. m - 1 \in 0..m /\ m - 1 # m /\ m \in 0..m
        BY <2>2, <2>3
      <4>2. g[m - 1] = f[m - 1] /\ g[m] = f[m - 1] \o parts[m][r]
        BY <4>1
      <4>. QED
        BY <2>3, <3>1, <4>2
    <3>2. CASE k # m
      <4>1. k \in 0..(m - 1) /\ (k # 0 => k - 1 \in 0..m /\ k - 1 # m)
        BY <2>2, <3>2
      <4>2. g[k] = f[k] /\ (k # 0 => g[k - 1] = f[k - 1])
        BY <3>2, <4>1
      <4>. QED
        BY <2>5, <4>1, <4>2
    <3>. QED
      BY <3>1, <3>2
  <2>10. Upto(g, m)
    BY <2>8, <2>9
  <2>. QED
    BY <2>2, <2>10
<1>2. Len(parts) \notin S
  BY <1>1
<1>3. PICK f : Upto(f, Len(parts))
  BY <1>2
<1>. QED
  BY <1>3 DEF Joins

\* f puts the first n parts together.
JoinsUpto(f, parts, r, n) ==
  \A k \in 0..n : f[k] = IF k = 0 THEN <<>> ELSE f[k - 1] \o parts[k][r]

\* No other function does,
LEMMA JoinsUnique ==
  ASSUME NEW parts \in Seq(PartRows), NEW r, NEW n \in Nat, NEW f, NEW g,
         JoinsUpto(f, parts, r, n), JoinsUpto(g, parts, r, n)
  PROVE  \A k \in 0..n : f[k] = g[k]
<1>. DEFINE S == {k \in 0..n : f[k] # g[k]}
<1>. SUFFICES ASSUME S # {} PROVE FALSE
  OBVIOUS
<1>1. PICK m \in S : \A k \in S : m <= k
  <2>1. S \in SUBSET Nat
    OBVIOUS
  <2>. HIDE DEF S
  <2>. QED
    BY <2>1, Smallest
<1>2. m \in 0..n /\ f[m] # g[m] /\ m # 0
  <2>1. 0 \in 0..n
    OBVIOUS
  <2>2. f[0] = <<>> /\ g[0] = <<>>
    BY <2>1 DEF JoinsUpto
  <2>. QED
    BY <2>2
<1>3. m - 1 \in 0..n /\ m - 1 \notin S
  <2>1. m - 1 \in 0..n /\ ~(m <= m - 1)
    BY <1>2
  <2>. HIDE DEF S
  <2>. QED
    BY <1>1, <2>1
<1>4. f[m - 1] = g[m - 1]
  BY <1>3
<1>. QED
  BY <1>2, <1>4 DEF JoinsUpto

\* so that Joined is what it puts together in the end.
LEMMA JoinedIs ==
  ASSUME NEW parts \in Seq(PartRows), NEW r \in P!RowIds,
         NEW f \in [0..Len(parts) -> Seq(P!Vertices)], Joins(f, parts, r)
  PROVE  P!Joined(parts, r) = f[Len(parts)]
<1>. DEFINE upto == CHOOSE h : Joins(h, parts, r)
<1>1. Joins(upto, parts, r)
  OBVIOUS
<1>2. P!Joined(parts, r) = upto[Len(parts)]
  BY DEF P!Joined, Joins
<1>3. JoinsUpto(upto, parts, r, Len(parts)) /\ JoinsUpto(f, parts, r, Len(parts))
  <2>. HIDE DEF upto
  <2>. QED
    BY <1>1 DEF Joins, JoinsUpto
<1>4. Len(parts) \in Nat
  OBVIOUS
<1>5. \A k \in 0..Len(parts) : upto[k] = f[k]
  <2>. HIDE DEF upto
  <2>. QED
    BY <1>3, <1>4, JoinsUnique
<1>6. Len(parts) \in 0..Len(parts)
  BY <1>4
<1>. QED
  BY <1>2, <1>5, <1>6

\* No parts have no edges;
LEMMA JoinedEmpty == \A r \in P!RowIds : P!Joined(<<>>, r) = <<>>
<1>. SUFFICES ASSUME NEW r \in P!RowIds PROVE P!Joined(<<>>, r) = <<>>
  OBVIOUS
<1>1. <<>> \in Seq(PartRows) /\ Len(<<>>) = 0
  OBVIOUS
<1>2. PICK f \in [0..Len(<<>>) -> Seq(P!Vertices)] : Joins(f, <<>>, r)
  BY <1>1, JoinsExists
<1>3. f[0] = <<>>
  BY <1>1, <1>2 DEF Joins
<1>. QED
  BY <1>1, <1>2, <1>3, JoinedIs

\* a part more adds its own at the end.
LEMMA JoinedAppend ==
  ASSUME NEW parts \in Seq(PartRows), NEW rows \in PartRows, NEW r \in P!RowIds
  PROVE  /\ P!Joined(parts, r) \in Seq(P!Vertices)
         /\ P!Joined(Append(parts, rows), r) = P!Joined(parts, r) \o rows[r]
<1>. PICK more, n : more = Append(parts, rows) /\ n = Len(parts)
  OBVIOUS
<1>1. /\ more \in Seq(PartRows) /\ n \in Nat /\ Len(more) = n + 1 /\ more[n + 1] = rows
      /\ \A k \in 1..n : more[k] = parts[k]
  OBVIOUS
<1>2. PICK f \in [0..n -> Seq(P!Vertices)] : Joins(f, parts, r)
  BY JoinsExists
<1>3. PICK g \in [0..(n + 1) -> Seq(P!Vertices)] : Joins(g, more, r)
  <2>1. \E g \in [0..Len(more) -> Seq(P!Vertices)] : Joins(g, more, r)
    BY <1>1, JoinsExists
  <2>. QED
    BY <1>1, <2>1
<1>4. /\ \A k \in 0..n : f[k] = IF k = 0 THEN <<>> ELSE f[k - 1] \o parts[k][r]
      /\ \A k \in 0..(n + 1) : g[k] = IF k = 0 THEN <<>> ELSE g[k - 1] \o more[k][r]
  BY <1>1, <1>2, <1>3 DEF Joins
<1>5. \A k \in 0..n : g[k] = IF k = 0 THEN <<>> ELSE g[k - 1] \o parts[k][r]
  <2>1. \A k \in 0..n : k \in 0..(n + 1) /\ (k # 0 => k \in 1..n)
    BY <1>1
  <2>. QED
    BY <1>1, <1>4, <2>1
<1>6. JoinsUpto(f, parts, r, n) /\ JoinsUpto(g, parts, r, n)
  BY <1>4, <1>5 DEF JoinsUpto
<1>7. g[n] = f[n]
  <2>1. \A k \in 0..n : f[k] = g[k]
    BY <1>1, <1>6, JoinsUnique
  <2>2. n \in 0..n
    BY <1>1
  <2>. QED
    BY <2>1, <2>2
<1>8. g[n + 1] = g[n] \o rows[r]
  <2>1. n + 1 \in 0..(n + 1) /\ n + 1 # 0 /\ (n + 1) - 1 = n
    BY <1>1
  <2>. QED
    BY <1>1, <1>4, <2>1
<1>9. P!Joined(parts, r) = f[n] /\ P!Joined(more, r) = g[n + 1]
  <2>1. f \in [0..Len(parts) -> Seq(P!Vertices)] /\ g \in [0..Len(more) -> Seq(P!Vertices)]
    BY <1>1, <1>2, <1>3
  <2>2. P!Joined(parts, r) = f[Len(parts)]
    BY <1>2, <2>1, JoinedIs
  <2>3. P!Joined(more, r) = g[Len(more)]
    BY <1>1, <1>3, <2>1, JoinedIs
  <2>. QED
    BY <1>1, <2>2, <2>3
<1>10. P!Joined(more, r) = P!Joined(parts, r) \o rows[r]
  BY <1>7, <1>8, <1>9
<1>11. P!Joined(parts, r) \in Seq(P!Vertices)
  <2>1. n \in 0..n
    BY <1>1
  <2>. QED
    BY <1>2, <1>9, <2>1
<1>. QED
  BY <1>1, <1>10, <1>11

\* Of two sets of vertices, one lies before the other.
Before(S, T) == \A x \in S, y \in T : x < y

\* What is left of a row is in order, as the row was.
PartTypeInv ==
  /\ part_pc \in {"cut", "done"}
  /\ edges \in PartRows /\ edge_set \in PartRows /\ partitions \in Seq(PartRows)
  /\ Ascending(edge_set)

\* The neighbours of a part lie in a window.
PartWindowInv ==
  \A p \in 1..P!NumPart :
    \E s \in Nat : P!Neighbors(partitions[p]) \subseteq s..(s + ele_h_interval - 1)

\* As long as there are parts to be cut, there is an edge for the next.
EdgesLeft ==
  (\E r \in P!RowIds : edges[r] # <<>>) /\ part_pc = "cut" => P!NonEmptyRows(edge_set) # {}

\* Without repetitions the parts follow one another.
PartOrderInv ==
  NoneRepeats(edges) =>
    /\ NoneRepeats(edge_set)
    /\ \A p \in 1..P!NumPart : Before(P!Neighbors(partitions[p]), P!Neighbors(edge_set))
    /\ \A p, q \in 1..P!NumPart :
         p < q => Before(P!Neighbors(partitions[p]), P!Neighbors(partitions[q]))

PartInv == PartTypeInv /\ P!Lossless /\ PartWindowInv /\ EdgesLeft /\ P!PartsHaveEdges /\ PartOrderInv

\* A chunk as the graph has it, and no parts.
LEMMA PartInitHolds == P!Init => PartInv
<1>. SUFFICES ASSUME P!Init PROVE PartInv
  OBVIOUS
<1>1. edges \in PartRows /\ edge_set = edges /\ Ascending(edges)
  <2>1. \A row \in P!Row : row \in Seq(P!Vertices)
    BY CutsAssumption DEF P!PartitionAssumption, P!Row
  <2>. QED
    BY <2>1 DEF P!Init, PartRows, Ascending
<1>2. partitions = <<>> /\ P!NumPart = 0 /\ 1..P!NumPart = {}
  BY DEF P!Init, P!NumPart
<1>3. PartTypeInv
  BY <1>1, <1>2 DEF P!Init, PartTypeInv
<1>4. P!Lossless
  <2>1. \A r \in P!RowIds : <<>> \o edges[r] = edges[r]
    BY <1>1, ConcatEmptySeq DEF PartRows
  <2>. QED
    BY <1>1, <1>2, <2>1, JoinedEmpty DEF P!Lossless
<1>5. PartWindowInv /\ EdgesLeft /\ P!PartsHaveEdges /\ PartOrderInv
  BY <1>1, <1>2 DEF PartWindowInv, EdgesLeft, P!PartsHaveEdges, PartOrderInv, P!NonEmptyRows
<1>. QED
  BY <1>3, <1>4, <1>5 DEF PartInv

\* A turn of the loop, row by row.
LEMMA CutRows ==
  ASSUME PartInv, P!Cut, NEW part, part = [r \in P!RowIds |-> P!Given(edge_set[r])]
  PROVE  /\ part \in PartRows /\ partitions' = Append(partitions, part)
         /\ edge_set' \in PartRows /\ Ascending(edge_set')
         /\ \A r \in P!RowIds : part[r] \o edge_set'[r] = edge_set[r]
         /\ P!Neighbors(part) \subseteq P!Neighbors(edge_set)
         /\ P!Neighbors(edge_set') \subseteq P!Neighbors(edge_set)
         /\ P!StartEdge \in Nat
         /\ P!Neighbors(part) \subseteq P!StartEdge..(P!StartEdge + ele_h_interval - 1)
         /\ P!NonEmptyRows(edge_set) # {} => P!NonEmptyRows(part) # {}
         /\ NoneRepeats(edge_set) =>
              NoneRepeats(edge_set') /\ Before(P!Neighbors(part), P!Neighbors(edge_set'))
<1>0. edge_set \in PartRows /\ \A r \in P!RowIds : edge_set[r] \in Seq(P!Vertices) /\ P!Sorted(edge_set[r])
  BY DEF PartInv, PartTypeInv, PartRows, Ascending
<1>. PICK rest : rest = edge_set'
  OBVIOUS
<1>1. /\ partitions' = Append(partitions, part)
      /\ rest = [r \in P!RowIds |-> P!Rest(edge_set[r])]
  BY DEF P!Cut
<1>2. \A r \in P!RowIds :
        LET row == edge_set[r]
        IN  /\ P!Given(row) \in Seq(P!Vertices) /\ P!Rest(row) \in Seq(P!Vertices)
            /\ Len(P!Given(row)) = P!StopPoint(row)
            /\ \A j \in 1..Len(P!Given(row)) : P!Given(row)[j] = row[j]
            /\ Len(P!Rest(row)) = Len(row) - P!StopPoint(row)
            /\ \A j \in 1..Len(P!Rest(row)) : P!Rest(row)[j] = row[P!StopPoint(row) + j]
            /\ P!Given(row) \o P!Rest(row) = row
            /\ P!Sorted(P!Rest(row))
            /\ ~Repeats(row) => ~Repeats(P!Rest(row))
            /\ P!StopPoint(row) \in 0..Len(row)
  BY <1>0, RowCut, RowStops
<1>3. part \in PartRows /\ rest \in PartRows /\ Ascending(rest)
  BY <1>1, <1>2 DEF PartRows, Ascending
<1>4. \A r \in P!RowIds : part[r] \o rest[r] = edge_set[r]
  BY <1>1, <1>2
<1>5. \A r \in P!RowIds : part[r] = P!Given(edge_set[r]) /\ rest[r] = P!Rest(edge_set[r])
  BY <1>1
<1>6. P!Neighbors(part) \subseteq P!Neighbors(edge_set)
  <2>. SUFFICES ASSUME NEW r \in P!RowIds, NEW j \in 1..Len(part[r])
                PROVE  part[r][j] \in P!Neighbors(edge_set)
    BY DEF P!Neighbors
  <2>1. j \in 1..Len(edge_set[r]) /\ part[r][j] = edge_set[r][j]
    BY <1>0, <1>2, <1>5
  <2>. QED
    BY <2>1 DEF P!Neighbors
<1>7. P!Neighbors(rest) \subseteq P!Neighbors(edge_set)
  <2>. SUFFICES ASSUME NEW r \in P!RowIds, NEW j \in 1..Len(rest[r])
                PROVE  rest[r][j] \in P!Neighbors(edge_set)
    BY DEF P!Neighbors
  <2>. PICK p : p = P!StopPoint(edge_set[r])
    OBVIOUS
  <2>1. p \in 0..Len(edge_set[r]) /\ Len(rest[r]) = Len(edge_set[r]) - p
        /\ rest[r][j] = edge_set[r][p + j]
    BY <1>2, <1>5
  <2>2. p + j \in 1..Len(edge_set[r])
    BY <1>0, <2>1
  <2>. QED
    BY <2>1, <2>2 DEF P!Neighbors
<1>8. /\ P!StartEdge \in Nat /\ P!EndEdge = P!StartEdge + ele_h_interval
      /\ \A r \in P!NonEmptyRows(edge_set) : P!StartEdge <= edge_set[r][1]
      /\ P!NonEmptyRows(edge_set) # {} =>
           \E r \in P!NonEmptyRows(edge_set) : edge_set[r][1] = P!StartEdge
  BY <1>0, WindowBegins
<1>9. \A r \in P!RowIds :
        LET row == edge_set[r]
        IN  /\ \A j \in 1..Len(P!Given(row)) : P!Given(row)[j] \in P!StartEdge..(P!EndEdge - 1)
            /\ ~Repeats(row) => \A j \in 1..Len(P!Rest(row)) : P!EndEdge <= P!Rest(row)[j]
            /\ row # <<>> /\ row[1] = P!StartEdge => P!Given(row) # <<>>
  BY <1>0, <1>8, RowInWindow DEF P!NonEmptyRows
<1>10. P!Neighbors(part) \subseteq P!StartEdge..(P!EndEdge - 1)
  BY <1>5, <1>9 DEF P!Neighbors
<1>11. P!NonEmptyRows(edge_set) # {} => P!NonEmptyRows(part) # {}
  BY <1>5, <1>8, <1>9 DEF P!NonEmptyRows
<1>12. ASSUME NoneRepeats(edge_set)
       PROVE  NoneRepeats(rest) /\ Before(P!Neighbors(part), P!Neighbors(rest))
  <2>1. NoneRepeats(rest)
    BY <1>2, <1>5, <1>12 DEF NoneRepeats
  <2>2. \A y \in P!Neighbors(rest) : P!EndEdge <= y /\ y \in Nat
    <3>. SUFFICES ASSUME NEW r \in P!RowIds, NEW j \in 1..Len(rest[r])
                  PROVE  P!EndEdge <= rest[r][j] /\ rest[r][j] \in Nat
      BY DEF P!Neighbors
    <3>1. P!EndEdge <= rest[r][j]
      BY <1>5, <1>9, <1>12 DEF NoneRepeats
    <3>2. rest[r][j] \in P!Vertices
      BY <1>3 DEF PartRows
    <3>. QED
      BY <3>1, <3>2, PartSizes DEF P!Vertices
  <2>3. \A x \in P!Neighbors(part) : x \in P!StartEdge..(P!EndEdge - 1)
    BY <1>10
  <2>4. P!EndEdge \in Nat
    BY <1>8, PartSizes
  <2>. QED
    BY <1>8, <2>1, <2>2, <2>3, <2>4 DEF Before
<1>13. P!Neighbors(part) \subseteq P!StartEdge..(P!StartEdge + ele_h_interval - 1)
  BY <1>8, <1>10, PartSizes
<1>. QED
  BY <1>1, <1>3, <1>4, <1>6, <1>7, <1>8, <1>11, <1>12, <1>13

\* What a row gives up may be put to what it gave up before.
LEMMA JoinedCut ==
  ASSUME NEW parts \in Seq(PartRows), NEW rows \in PartRows, NEW r \in P!RowIds,
         NEW rest \in Seq(P!Vertices)
  PROVE  P!Joined(Append(parts, rows), r) \o rest = P!Joined(parts, r) \o (rows[r] \o rest)
<1>1. P!Joined(parts, r) \in Seq(P!Vertices) /\ rows[r] \in Seq(P!Vertices)
  BY JoinedAppend DEF PartRows
<1>2. \A s, t \in Seq(P!Vertices) : (s \o t) \o rest = s \o (t \o rest)
  BY ConcatAssociative
<1>3. (P!Joined(parts, r) \o rows[r]) \o rest = P!Joined(parts, r) \o (rows[r] \o rest)
  BY <1>1, <1>2
<1>4. P!Joined(Append(parts, rows), r) = P!Joined(parts, r) \o rows[r]
  BY JoinedAppend
<1>. QED
  BY <1>3, <1>4

\* A turn of the loop keeps the invariant.
LEMMA CutKeeps == ASSUME PartInv, P!Cut PROVE PartInv'
<1>. PICK part : part = [r \in P!RowIds |-> P!Given(edge_set[r])]
  OBVIOUS
<1>. PICK rest, parts, n : rest = edge_set' /\ parts = partitions' /\ n = P!NumPart
  OBVIOUS
<1>1. /\ part \in PartRows /\ parts = Append(partitions, part)
      /\ rest \in PartRows /\ Ascending(rest)
      /\ \A r \in P!RowIds : part[r] \o rest[r] = edge_set[r]
      /\ P!Neighbors(part) \subseteq P!Neighbors(edge_set)
      /\ P!Neighbors(rest) \subseteq P!Neighbors(edge_set)
      /\ P!StartEdge \in Nat
      /\ P!Neighbors(part) \subseteq P!StartEdge..(P!StartEdge + ele_h_interval - 1)
      /\ P!NonEmptyRows(edge_set) # {} => P!NonEmptyRows(part) # {}
      /\ NoneRepeats(edge_set) =>
           NoneRepeats(rest) /\ Before(P!Neighbors(part), P!Neighbors(rest))
  BY CutRows
<1>2. /\ partitions \in Seq(PartRows) /\ edge_set \in PartRows /\ edges \in PartRows
      /\ edges' = edges /\ part_pc = "cut" /\ part_pc' \in {"cut", "done"}
      /\ part_pc' = "cut" => P!NonEmptyRows(rest) # {}
  BY DEF PartInv, PartTypeInv, P!Cut
<1>3. /\ n \in Nat /\ P!NumPart' = n + 1 /\ parts \in Seq(PartRows) /\ parts[n + 1] = part
      /\ \A p \in 1..n : parts[p] = partitions[p]
  BY <1>1, <1>2 DEF P!NumPart
<1>4. PartTypeInv'
  BY <1>1, <1>2, <1>3 DEF PartTypeInv, Ascending
<1>5. P!Lossless'
  <2>. SUFFICES ASSUME NEW r \in P!RowIds PROVE P!Joined(parts, r) \o rest[r] = edges[r]
    BY <1>2 DEF P!Lossless
  <2>1. rest[r] \in Seq(P!Vertices)
    BY <1>1 DEF PartRows
  <2>2. P!Joined(partitions, r) \o edge_set[r] = edges[r] /\ part[r] \o rest[r] = edge_set[r]
    BY <1>1 DEF PartInv, P!Lossless
  <2>3. P!Joined(Append(partitions, part), r) \o rest[r]
          = P!Joined(partitions, r) \o (part[r] \o rest[r])
    BY <1>1, <1>2, <2>1, JoinedCut
  <2>. QED
    BY <1>1, <2>2, <2>3
<1>6. PartWindowInv'
  <2>. SUFFICES ASSUME NEW p \in 1..(n + 1)
                PROVE  \E s \in Nat : P!Neighbors(parts[p]) \subseteq s..(s + ele_h_interval - 1)
    BY <1>3 DEF PartWindowInv
  <2>1. CASE p = n + 1
    BY <1>1, <1>3, <2>1
  <2>2. CASE p # n + 1
    <3>1. p \in 1..n /\ p \in 1..P!NumPart
      BY <1>3, <2>2
    <3>. QED
      BY <1>3, <3>1 DEF PartInv, PartWindowInv
  <2>. QED
    BY <2>1, <2>2
<1>7. EdgesLeft'
  BY <1>2 DEF EdgesLeft
<1>8. P!PartsHaveEdges'
  <2>. SUFFICES ASSUME \E r \in P!RowIds : edges[r] # <<>>, NEW p \in 1..(n + 1)
                PROVE  P!NonEmptyRows(parts[p]) # {}
    BY <1>2, <1>3 DEF P!PartsHaveEdges
  <2>1. CASE p = n + 1
    BY <1>1, <1>2, <1>3, <2>1 DEF PartInv, EdgesLeft
  <2>2. CASE p # n + 1
    <3>1. p \in 1..n /\ p \in 1..P!NumPart
      BY <1>3, <2>2
    <3>. QED
      BY <1>3, <3>1 DEF PartInv, P!PartsHaveEdges
  <2>. QED
    BY <2>1, <2>2
<1>9. PartOrderInv'
  <2>. SUFFICES ASSUME NoneRepeats(edges)
                PROVE  /\ NoneRepeats(rest)
                       /\ \A p \in 1..(n + 1) : Before(P!Neighbors(parts[p]), P!Neighbors(rest))
                       /\ \A p, q \in 1..(n + 1) :
                            p < q => Before(P!Neighbors(parts[p]), P!Neighbors(parts[q]))
    BY <1>2, <1>3 DEF PartOrderInv, NoneRepeats
  <2>1. /\ NoneRepeats(edge_set)
        /\ \A p \in 1..n : Before(P!Neighbors(partitions[p]), P!Neighbors(edge_set))
        /\ \A p, q \in 1..n :
             p < q => Before(P!Neighbors(partitions[p]), P!Neighbors(partitions[q]))
    BY DEF PartInv, PartOrderInv
  <2>2. \A p \in 1..n : /\ Before(P!Neighbors(parts[p]), P!Neighbors(rest))
                        /\ Before(P!Neighbors(parts[p]), P!Neighbors(part))
    BY <1>1, <1>3, <2>1 DEF Before
  <2>3. ASSUME NEW p \in 1..(n + 1) PROVE Before(P!Neighbors(parts[p]), P!Neighbors(rest))
    <3>1. p = n + 1 \/ p \in 1..n
      BY <1>3
    <3>. QED
      BY <1>1, <1>3, <2>1, <2>2, <3>1
  <2>4. ASSUME NEW p \in 1..(n + 1), NEW q \in 1..(n + 1), p < q
        PROVE  Before(P!Neighbors(parts[p]), P!Neighbors(parts[q]))
    <3>1. p \in 1..n /\ (q = n + 1 \/ q \in 1..n)
      BY <1>3, <2>4
    <3>. QED
      BY <1>3, <2>1, <2>2, <2>4, <3>1
  <2>. QED
    BY <1>1, <2>1, <2>3, <2>4
<1>. QED
  BY <1>4, <1>5, <1>6, <1>7, <1>8, <1>9 DEF PartInv

\* Each instance of a library module has its own copy of what it defines.
LEMMA SameCardinality == \A S : P!Cardinality(S) = Cardinality(S)
  BY DEF P!Cardinality, Cardinality

\* After every turn of the loop the parts, in windows that follow one another,
\* and the edges that are left are those of the chunk.
THEOREM PartsInvariance == P!SafeSpec => []PartInv
<1>1. PartInv /\ [P!Next]_P!vars => PartInv'
  <2>. SUFFICES ASSUME PartInv, [P!Next]_P!vars PROVE PartInv'
    OBVIOUS
  <2>1. CASE UNCHANGED P!vars
    <3>1. UNCHANGED <<part_pc, edges, edge_set, partitions>>
      BY <2>1 DEF P!vars
    <3>2. PartTypeInv' /\ P!Lossless'
      BY <3>1 DEF PartInv, PartTypeInv, P!Lossless, P!Joined, Ascending, PartRows
    <3>3. PartWindowInv' /\ EdgesLeft'
      BY <3>1 DEF PartInv, PartWindowInv, EdgesLeft, P!NumPart
    <3>4. P!PartsHaveEdges' /\ PartOrderInv'
      BY <3>1 DEF PartInv, P!PartsHaveEdges, PartOrderInv, P!NumPart
    <3>. QED
      BY <3>2, <3>3, <3>4 DEF PartInv
  <2>. QED
    BY <2>1, CutKeeps DEF P!Next
<1>. QED
  BY <1>1, PartInitHolds, PTL DEF P!SafeSpec

\* For every chunk, however its rows repeat a vertex, no edge is lost, given to
\* two parts or put out of order; and if they repeat none, no vertex is a
\* neighbour in two parts, so that each is read once (aggr.cpp, Partition).
THEOREM PartsKeepEdges == P!SafeSpec => []PartsLossless
<1>1. PartInv => P!NoneReadTwice
  <2>. SUFFICES ASSUME PartInv, NEW p \in 1..P!NumPart, NEW q \in 1..P!NumPart, p # q,
                       \A r \in P!RowIds : \A j, k \in 1..Len(edges[r]) :
                         j # k => edges[r][j] # edges[r][k]
                PROVE  P!Neighbors(partitions[p]) \cap P!Neighbors(partitions[q]) = {}
    BY DEF P!NoneReadTwice
  <2>1. NoneRepeats(edges)
    BY DEF NoneRepeats, Repeats
  <2>2. \/ Before(P!Neighbors(partitions[p]), P!Neighbors(partitions[q]))
        \/ Before(P!Neighbors(partitions[q]), P!Neighbors(partitions[p]))
    <3>1. p < q \/ q < p
      OBVIOUS
    <3>. QED
      BY <2>1, <3>1 DEF PartInv, PartOrderInv
  <2>3. ASSUME NEW k \in 1..P!NumPart PROVE P!Neighbors(partitions[k]) \subseteq Nat
    <3>1. PICK s \in Nat : P!Neighbors(partitions[k]) \subseteq s..(s + ele_h_interval - 1)
      BY DEF PartInv, PartWindowInv
    <3>. QED
      BY <3>1, PartSizes
  <2>. QED
    BY <2>2, <2>3 DEF Before
<1>2. PartInv => PartsLossless
  BY <1>1 DEF PartsLossless, PartInv
<1>. QED
  BY <1>2, PartsInvariance, PTL

\* For every chunk and every input buffer, the neighbours of a part fit the
\* buffer, and no part is empty unless the chunk is: the loop of Partition gets
\* on with every turn.
THEOREM PartsFitBuffers == P!SafeSpec => []PartsFit
<1>1. PartInv => P!NeighborsFit
  <2>. SUFFICES ASSUME PartInv, NEW p \in 1..P!NumPart
                PROVE  P!Cardinality(P!Neighbors(partitions[p])) <= ele_h_interval
    BY DEF P!NeighborsFit
  <2>1. PICK s \in Nat : P!Neighbors(partitions[p]) \subseteq s..(s + ele_h_interval - 1)
    BY DEF PartInv, PartWindowInv
  <2>. PICK e : e = s + ele_h_interval - 1
    OBVIOUS
  <2>2. s \in Int /\ e \in Int /\ s <= e /\ e - s + 1 = ele_h_interval
    BY PartSizes
  <2>3. IsFiniteSet(s..e) /\ Cardinality(s..e) = e - s + 1
    BY <2>2, FS_Interval
  <2>4. P!Cardinality(P!Neighbors(partitions[p])) = Cardinality(P!Neighbors(partitions[p]))
    BY SameCardinality
  <2>. QED
    BY <2>1, <2>2, <2>3, <2>4, FS_Subset
<1>2. PartInv => PartsFit
  BY <1>1 DEF PartsFit, PartInv
<1>. QED
  BY <1>2, PartsInvariance, PTL

-----------------------------------------------------------------------------
(* Lists, loaded line by line. *)

\* A set of numbers that never begins is empty.
LEMMA Climb ==
  ASSUME NEW S \in SUBSET Nat, 0 \notin S, \A k \in Nat : k + 1 \in S => k \in S
  PROVE  S = {}
<1>1. SUFFICES ASSUME S # {} PROVE FALSE
  BY <1>1
<1>2. PICK m \in S : \A k \in S : m <= k
  BY <1>1, Smallest
<1>3. m - 1 \in Nat /\ (m - 1) + 1 = m /\ ~(m <= m - 1)
  <2>1. m \in Nat /\ m # 0
    BY <1>2
  <2>. QED
    BY <2>1
<1>. QED
  BY <1>2, <1>3

\* A line of a file, and the lists of all vertices.
Links == G!Vertices \X G!Vertices
Lists == [G!Vertices -> Seq(G!Vertices)]

\* The lists after k lines of a file: of every vertex what it is linked to.
Loading(f, file, v, this, other, n) ==
  /\ f = [k \in 0..n |-> f[k]]
  /\ f[0] = <<>>
  /\ \A k \in 1..n : f[k] = IF file[k][this] = v THEN Append(f[k - 1], file[k][other])
                                                  ELSE f[k - 1]

\* There is such a function, for the loop goes from line to line;
LEMMA LoadingExists ==
  ASSUME NEW file \in Seq(Links), NEW v, NEW this, NEW other, NEW n \in Nat
  PROVE  \E f : Loading(f, file, v, this, other, n)
<1>. DEFINE S == {m \in Nat : ~ \E f : Loading(f, file, v, this, other, m)}
<1>1. SUFFICES ASSUME S # {} PROVE FALSE
  BY <1>1
<1>2. PICK m \in S : \A k \in S : m <= k
  <2>1. S \in SUBSET Nat
    OBVIOUS
  <2>. HIDE DEF S
  <2>. QED
    BY <1>1, <2>1, Smallest
<1>3. CASE m = 0
  <2>. DEFINE f == [k \in 0..0 |-> <<>>]
  <2>1. Loading(f, file, v, this, other, 0)
    <3>1. f = [k \in 0..0 |-> f[k]] /\ f[0] = <<>>
      OBVIOUS
    <3>. HIDE DEF f
    <3>. QED
      BY <3>1 DEF Loading
  <2>. QED
    BY <1>3, <2>1
<1>4. CASE m # 0
  <2>1. m - 1 \in Nat /\ m - 1 \notin S
    BY <1>2, <1>4
  <2>2. PICK f : Loading(f, file, v, this, other, m - 1)
    BY <2>1
  <2>. DEFINE g == [k \in 0..m |-> IF k < m THEN f[k]
                                   ELSE IF file[m][this] = v THEN Append(f[m - 1], file[m][other])
                                   ELSE f[m - 1]]
  <2>3. g = [k \in 0..m |-> g[k]] /\ g[0] = <<>>
    BY <1>4, <2>1, <2>2 DEF Loading
  <2>4. ASSUME NEW k \in 1..m
        PROVE  g[k] = IF file[k][this] = v THEN Append(g[k - 1], file[k][other]) ELSE g[k - 1]
    <3>1. CASE k = m
      <4>1. g[k - 1] = f[m - 1]
        BY <2>1, <3>1
      <4>. QED
        BY <3>1, <4>1
    <3>2. CASE k # m
      <4>1. k \in 1..(m - 1) /\ k < m /\ k - 1 < m /\ k - 1 \in 0..m /\ k \in 0..m
        BY <2>1, <3>2
      <4>2. f[k] = IF file[k][this] = v THEN Append(f[k - 1], file[k][other]) ELSE f[k - 1]
        BY <2>2, <4>1 DEF Loading
      <4>. QED
        BY <4>1, <4>2
    <3>. QED
      BY <3>1, <3>2
  <2>5. Loading(g, file, v, this, other, m)
    <3>. HIDE DEF g
    <3>. QED
      BY <2>3, <2>4 DEF Loading
  <2>. QED
    BY <2>5
<1>. QED
  BY <1>3, <1>4

\* What is appended may be anything that is in lists.
LEMMA AppendedTo ==
  ASSUME NEW s \in Seq(G!Vertices), NEW x \in G!Vertices
  PROVE  Append(s, x) \in Seq(G!Vertices)
  OBVIOUS

(* What a loop works out step by step.                                     *)

\* f holds what comes out of a after each of n steps.
Steps(f, n, a, g) == f[0] = a /\ \A k \in 1..n : f[k] = g[k][f[k - 1]]

\* There is a function that takes the steps g one after another.
LEMMA StepsExist ==
  ASSUME NEW n \in Nat, NEW A, NEW a \in A, NEW g \in [1..n -> [A -> A]]
  PROVE  \E f \in [0..n -> A] : Steps(f, n, a, g)
<1>. DEFINE S == {m \in 0..n : ~ \E f \in [0..m -> A] : Steps(f, m, a, g)}
<1>1. SUFFICES ASSUME S # {} PROVE FALSE
  BY <1>1
<1>2. PICK m \in S : \A k \in S : m <= k
  <2>1. S \in SUBSET Nat
    OBVIOUS
  <2>. HIDE DEF S
  <2>. QED
    BY <1>1, <2>1, Smallest
<1>3. CASE m = 0
  <2>. DEFINE f == [k \in 0..0 |-> a]
  <2>1. f \in [0..0 -> A] /\ f[0] = a /\ ~ \E k \in 1..0 : TRUE
    OBVIOUS
  <2>2. Steps(f, 0, a, g)
    <3>. HIDE DEF f
    <3>. QED
      BY <2>1 DEF Steps
  <2>. QED
    BY <1>3, <2>1, <2>2
<1>4. CASE m # 0
  <2>1. m \in 1..n /\ m - 1 \in 0..n /\ m - 1 \notin S
    BY <1>2, <1>4
  <2>2. PICK f \in [0..(m - 1) -> A] : Steps(f, m - 1, a, g)
    BY <2>1
  <2>. DEFINE h == [k \in 0..m |-> IF k = m THEN g[m][f[m - 1]] ELSE f[k]]
  <2>3. g[m] \in [A -> A] /\ f[m - 1] \in A
    BY <2>1
  <2>4. h \in [0..m -> A]
    <3>1. g[m][f[m - 1]] \in A
      BY <2>3
    <3>2. \A k \in 0..m : k = m \/ k \in 0..(m - 1)
      BY <2>1
    <3>. QED
      BY <3>1, <3>2
  <2>5. h[0] = a
    BY <1>4, <2>1, <2>2 DEF Steps
  <2>6. ASSUME NEW k \in 1..m PROVE h[k] = g[k][h[k - 1]]
    <3>1. CASE k = m
      <4>1. h[k] = g[m][f[m - 1]] /\ h[k - 1] = f[m - 1]
        BY <2>1, <3>1
      <4>. QED
        BY <3>1, <4>1
    <3>2. CASE k # m
      <4>1. k \in 1..(m - 1) /\ k \in 0..m /\ k - 1 \in 0..m /\ k - 1 # m
        BY <2>1, <3>2
      <4>2. f[k] = g[k][f[k - 1]]
        BY <2>2, <4>1 DEF Steps
      <4>3. h[k] = f[k] /\ h[k - 1] = f[k - 1]
        BY <3>2, <4>1
      <4>. QED
        BY <4>2, <4>3
    <3>. QED
      BY <3>1, <3>2
  <2>7. Steps(h, m, a, g)
    <3>. HIDE DEF h
    <3>. QED
      BY <2>5, <2>6 DEF Steps
  <2>. QED
    BY <2>1, <2>4, <2>7, <1>2
<1>. QED
  BY <1>3, <1>4

\* Nothing else comes out.
LEMMA StepsUnique ==
  ASSUME NEW n \in Nat, NEW a, NEW g, NEW f, NEW h, Steps(f, n, a, g), Steps(h, n, a, g)
  PROVE  \A k \in 0..n : f[k] = h[k]
<1>. DEFINE S == {k \in 0..n : f[k] # h[k]}
<1>1. SUFFICES ASSUME S # {} PROVE FALSE
  BY <1>1
<1>2. PICK m \in S : \A k \in S : m <= k
  <2>1. S \in SUBSET Nat
    OBVIOUS
  <2>. HIDE DEF S
  <2>. QED
    BY <1>1, <2>1, Smallest
<1>3. m \in 0..n /\ f[m] # h[m]
  OBVIOUS
<1>4. m # 0
  BY <1>3 DEF Steps
<1>5. m \in 1..n /\ m - 1 \in 0..n /\ m - 1 \notin S
  <2>1. m \in 1..n /\ m - 1 \in 0..n /\ ~(m <= m - 1)
    BY <1>3, <1>4
  <2>. HIDE DEF S
  <2>. QED
    BY <1>2, <2>1
<1>6. f[m - 1] = h[m - 1]
  BY <1>5
<1>. QED
  BY <1>3, <1>5, <1>6 DEF Steps

-----------------------------------------------------------------------------
(* Sequences put one behind the other.                                     *)

\* What each of them does to those before it.
Behind(seqs, E) == [k \in 1..Len(seqs) |-> [s \in Seq(E) |-> s \o seqs[k]]]

\* Each sequence is put behind what there is.
LEMMA BehindType ==
  ASSUME NEW E, NEW seqs \in Seq(Seq(E))
  PROVE  /\ Behind(seqs, E) \in [1..Len(seqs) -> [Seq(E) -> Seq(E)]]
         /\ \A k \in 1..Len(seqs) : \A s \in Seq(E) : Behind(seqs, E)[k][s] = s \o seqs[k]
<1>1. \A k \in 1..Len(seqs) : seqs[k] \in Seq(E)
  OBVIOUS
<1>2. \A s, t \in Seq(E) : s \o t \in Seq(E)
  OBVIOUS
<1>. QED
  BY <1>1, <1>2 DEF Behind

\* What FlattenSeq gives is what putting the sequences one behind another comes to.
LEMMA FlattenIs ==
  ASSUME NEW E, NEW seqs \in Seq(Seq(E)), NEW f \in [0..Len(seqs) -> Seq(E)],
         Steps(f, Len(seqs), <<>>, Behind(seqs, E))
  PROVE  G!FlattenSeq(seqs) = f[Len(seqs)]
<1>. DEFINE n == Len(seqs)
            Is(h) == h = [at \in 1..Len(seqs) |-> IF at = 1 THEN seqs[at] ELSE h[at - 1] \o seqs[at]]
<1>0. n \in Nat
  OBVIOUS
<1>1. CASE n = 0
  <2>1. seqs = <<>>
    BY <1>1
  <2>2. f[0] = <<>>
    BY DEF Steps
  <2>. QED
    BY <1>1, <2>1, <2>2 DEF G!FlattenSeq
<1>2. CASE n # 0
  <2>1. /\ f[0] = <<>>
        /\ \A k \in 1..n : f[k] = f[k - 1] \o seqs[k]
    <3>1. \A k \in 1..n : f[k - 1] \in Seq(E)
      <4>1. \A k \in 1..n : k - 1 \in 0..n
        BY <1>0
      <4>. QED
        BY <4>1
    <3>2. \A k \in 1..n : f[k] = Behind(seqs, E)[k][f[k - 1]]
      BY DEF Steps
    <3>3. \A k \in 1..n : \A s \in Seq(E) : Behind(seqs, E)[k][s] = s \o seqs[k]
      BY BehindType
    <3>4. f[0] = <<>>
      BY DEF Steps
    <3>. HIDE DEF n
    <3>. QED
      BY <3>1, <3>2, <3>3, <3>4
  <2>2. Is([at \in 1..n |-> f[at]])
    <3>1. seqs[1] \in Seq(E)
      BY <1>0, <1>2
    <3>2. f[1] = seqs[1]
      <4>1. 1 \in 1..n /\ 1 - 1 = 0
        BY <1>0, <1>2
      <4>2. f[1] = f[0] \o seqs[1]
        BY <2>1, <4>1
      <4>3. PICK s \in Seq(E) : s = seqs[1]
        BY <3>1
      <4>4. <<>> \o s = s
        OBVIOUS
      <4>. QED
        BY <2>1, <4>2, <4>3, <4>4
    <3>3. \A at \in 1..n : at # 1 => at - 1 \in 1..n
      BY <1>0
    <3>. QED
      BY <2>1, <3>2, <3>3
  <2>3. PICK h : h = CHOOSE g : Is(g)
    OBVIOUS
  <2>4. Is(h)
    <3>1. \E g : Is(g)
      BY <2>2
    <3>. HIDE DEF Is
    <3>. QED
      BY <2>3, <3>1
  <2>5. G!FlattenSeq(seqs) = h[n]
    BY <1>2, <2>3 DEF G!FlattenSeq
  <2>. DEFINE e == [k \in 0..n |-> IF k = 0 THEN <<>> ELSE h[k]]
  <2>6. Steps(e, n, <<>>, Behind(seqs, E))
    <3>1. \A at \in 1..n : h[at] = IF at = 1 THEN seqs[at] ELSE h[at - 1] \o seqs[at]
      BY <2>4
    <3>2. \A k \in 1..n : e[k] = h[k] /\ (k = 1 => e[k - 1] = <<>>) /\ (k # 1 => e[k - 1] = h[k - 1])
      BY <1>0
    <3>3. \A k \in 1..n : seqs[k] \in Seq(E)
      OBVIOUS
    <3>4. \A k \in 1..n : e[k] = e[k - 1] \o seqs[k]
      <4>. HIDE DEF e
      <4>1. \A s \in Seq(E) : <<>> \o s = s
        OBVIOUS
      <4>. QED
        BY <3>1, <3>2, <3>3, <4>1
    <3>5. e[0] = <<>>
      BY <1>0
    <3>6. \A k \in 0..n : e[k] \in Seq(E)
      <4>. DEFINE S == {k \in 0..n : e[k] \notin Seq(E)}
      <4>1. SUFFICES ASSUME S # {} PROVE FALSE
        BY <4>1
      <4>. HIDE DEF e
      <4>2. PICK m \in S : \A k \in S : m <= k
        <5>1. S \in SUBSET Nat
          BY <1>0
        <5>. HIDE DEF S
        <5>. QED
          BY <4>1, <5>1, Smallest
      <4>3. m # 0
        <5>1. <<>> \in Seq(E)
          OBVIOUS
        <5>2. m \in S
          BY <4>2
        <5>. QED
          BY <3>5, <5>1, <5>2
      <4>4. m \in 1..n /\ m - 1 \in 0..n /\ m - 1 \notin S
        <5>1. m \in 1..n /\ m - 1 \in 0..n /\ ~(m <= m - 1)
          BY <1>0, <4>3
        <5>. HIDE DEF S
        <5>. QED
          BY <4>2, <5>1
      <4>5. e[m - 1] \in Seq(E) /\ e[m] = e[m - 1] \o seqs[m] /\ seqs[m] \in Seq(E)
        BY <3>3, <3>4, <4>4
      <4>6. \A s, t \in Seq(E) : s \o t \in Seq(E)
        OBVIOUS
      <4>7. e[m] \in Seq(E)
        BY <4>5, <4>6
      <4>8. e[m] \notin Seq(E)
        BY <4>2
      <4>. QED
        BY <4>7, <4>8
    <3>. HIDE DEF e
    <3>7. \A k \in 1..n : e[k] = Behind(seqs, E)[k][e[k - 1]]
      <4>1. \A k \in 1..n : k - 1 \in 0..n
        BY <1>0
      <4>2. \A k \in 1..n : \A s \in Seq(E) : Behind(seqs, E)[k][s] = s \o seqs[k]
        BY BehindType
      <4>. HIDE DEF n
      <4>. QED
        BY <3>4, <3>6, <4>1, <4>2
    <3>. QED
      BY <3>5, <3>7 DEF Steps
  <2>7. e[n] = f[n]
    <3>1. n \in 0..n
      BY <1>0
    <3>. HIDE DEF e
    <3>. QED
      BY <1>0, <2>6, <3>1, StepsUnique
  <2>8. e[n] = h[n]
    BY <1>0, <1>2
  <2>. QED
    BY <2>5, <2>7, <2>8
<1>. QED
  BY <1>1, <1>2

\* One more goes behind what the others are together.
LEMMA FlattenAppend ==
  ASSUME NEW E, NEW seqs \in Seq(Seq(E)), NEW s \in Seq(E)
  PROVE  /\ G!FlattenSeq(seqs) \in Seq(E)
         /\ G!FlattenSeq(Append(seqs, s)) = G!FlattenSeq(seqs) \o s
<1>. PICK more, n : more = Append(seqs, s) /\ n = Len(seqs)
  OBVIOUS
<1>1. /\ more \in Seq(Seq(E)) /\ n \in Nat /\ Len(more) = n + 1 /\ more[n + 1] = s
      /\ \A k \in 1..n : more[k] = seqs[k]
  OBVIOUS
<1>2. PICK f \in [0..n -> Seq(E)] : Steps(f, n, <<>>, Behind(seqs, E))
  <2>1. <<>> \in Seq(E) /\ Behind(seqs, E) \in [1..n -> [Seq(E) -> Seq(E)]]
    BY BehindType
  <2>. QED
    BY <1>1, <2>1, StepsExist
<1>3. PICK h \in [0..(n + 1) -> Seq(E)] : Steps(h, n + 1, <<>>, Behind(more, E))
  <2>1. <<>> \in Seq(E)
    OBVIOUS
  <2>2. Behind(more, E) \in [1..Len(more) -> [Seq(E) -> Seq(E)]]
    BY <1>1, BehindType
  <2>3. n + 1 \in Nat /\ Len(more) = n + 1
    BY <1>1
  <2>4. PICK A, g : A = Seq(E) /\ g = Behind(more, E)
    OBVIOUS
  <2>5. <<>> \in A /\ g \in [1..(n + 1) -> [A -> A]]
    BY <2>1, <2>2, <2>3, <2>4
  <2>6. \E h \in [0..(n + 1) -> A] : Steps(h, n + 1, <<>>, g)
    BY <2>3, <2>5, StepsExist
  <2>. QED
    BY <2>4, <2>6
<1>4. \A k \in 1..n : Behind(more, E)[k] = Behind(seqs, E)[k]
  <2>1. \A k \in 1..n : k \in 1..(n + 1)
    BY <1>1
  <2>. QED
    BY <1>1, <2>1 DEF Behind
<1>5. Steps(h, n, <<>>, Behind(seqs, E))
  <2>1. \A k \in 1..n : k \in 1..(n + 1)
    BY <1>1
  <2>. QED
    BY <1>3, <1>4, <2>1 DEF Steps
<1>6. h[n] = f[n]
  <2>1. n \in 0..n /\ n \in Nat
    BY <1>1
  <2>2. PICK a, g : a = <<>> /\ g = Behind(seqs, E)
    OBVIOUS
  <2>3. Steps(f, n, a, g) /\ Steps(h, n, a, g)
    BY <1>2, <1>5, <2>2
  <2>4. \A k \in 0..n : f[k] = h[k]
    <3>1. n \in Nat
      BY <2>1
    <3>2. ASSUME NEW b, NEW e, NEW x, NEW y, Steps(x, n, b, e), Steps(y, n, b, e)
          PROVE  \A k \in 0..n : x[k] = y[k]
      BY ONLY <3>1, <3>2, StepsUnique
    <3>. QED
      BY <2>3, <3>2
  <2>. QED
    BY <2>1, <2>4
<1>7. h[n + 1] = h[n] \o s
  <2>1. n + 1 \in 1..(n + 1) /\ (n + 1) - 1 = n /\ h[n] \in Seq(E)
    BY <1>1
  <2>2. h[n + 1] = Behind(more, E)[n + 1][h[n]]
    BY <1>3, <2>1 DEF Steps
  <2>3. Behind(more, E)[n + 1][h[n]] = h[n] \o more[n + 1]
    <3>1. \A k \in 1..Len(more) : \A r \in Seq(E) : Behind(more, E)[k][r] = r \o more[k]
      <4>1. more \in Seq(Seq(E))
        BY <1>1
      <4>. QED
        BY ONLY <4>1, BehindType
    <3>2. n + 1 \in 1..Len(more)
      BY <1>1
    <3>. QED
      BY <2>1, <3>1, <3>2
  <2>. QED
    BY <1>1, <2>2, <2>3
<1>8. G!FlattenSeq(seqs) = f[n]
  BY <1>2, FlattenIs
<1>9. G!FlattenSeq(more) = h[n + 1]
  <2>1. h \in [0..Len(more) -> Seq(E)] /\ Steps(h, Len(more), <<>>, Behind(more, E))
    BY <1>1, <1>3
  <2>2. G!FlattenSeq(more) = h[Len(more)]
    BY <1>1, <2>1, FlattenIs
  <2>. QED
    BY <1>1, <2>2
<1>10. f[n] \in Seq(E)
  BY <1>1
<1>. QED
  BY <1>6, <1>7, <1>8, <1>9, <1>10

\* There is nothing in no sequences.
LEMMA FlattenEmpty == G!FlattenSeq(<<>>) = <<>>
  BY DEF G!FlattenSeq

-----------------------------------------------------------------------------
(* How often something is in a list.                                       *)

\* The loader counts as everybody does.
LEMMA GraphCardinality == \A S : G!Cardinality(S) = Cardinality(S)
  BY DEF G!Cardinality, Cardinality

\* How often w is in a list is the number of its places.
LEMMA TimesIs == \A s, w : G!Times(s, w) = Cardinality({k \in DOMAIN s : s[k] = w})
  BY GraphCardinality DEF G!Times

\* The places are finitely many, and none in an empty list.
LEMMA TimesType ==
  ASSUME NEW E, NEW s \in Seq(E), NEW w
  PROVE  /\ IsFiniteSet({k \in DOMAIN s : s[k] = w}) /\ G!Times(s, w) \in Nat
         /\ G!Times(<<>>, w) = 0
<1>1. DOMAIN s = 1..Len(s) /\ Len(s) \in Int /\ 1 \in Int
  OBVIOUS
<1>2. IsFiniteSet(1..Len(s))
  BY <1>1, FS_Interval
<1>3. IsFiniteSet({k \in DOMAIN s : s[k] = w})
  <2>1. {k \in DOMAIN s : s[k] = w} \in SUBSET (1..Len(s))
    BY <1>1
  <2>. QED
    BY <1>2, <2>1, FS_Subset
<1>4. {k \in DOMAIN <<>> : <<>>[k] = w} = {}
  OBVIOUS
<1>. QED
  BY <1>3, <1>4, TimesIs, FS_CardinalityType, FS_EmptySet

\* One list behind the other: w is there as often as in both.
LEMMA TimesConcat ==
  ASSUME NEW E, NEW s \in Seq(E), NEW t \in Seq(E), NEW w
  PROVE  G!Times(s \o t, w) = G!Times(s, w) + G!Times(t, w)
<1>. DEFINE m == Len(s)
            n == Len(t)
            A == {k \in 1..m : s[k] = w}
            B == {k \in 1..n : t[k] = w}
            C == {m + k : k \in B}
<1>1. /\ m \in Nat /\ n \in Nat /\ DOMAIN s = 1..m /\ DOMAIN t = 1..n
      /\ DOMAIN (s \o t) = 1..(m + n)
      /\ \A k \in 1..m : (s \o t)[k] = s[k]
      /\ \A k \in 1..n : (s \o t)[m + k] = t[k]
  OBVIOUS
<1>2. {k \in DOMAIN (s \o t) : (s \o t)[k] = w} = A \cup C
  <2>1. ASSUME NEW k \in 1..(m + n) PROVE (s \o t)[k] = w <=> k \in A \cup C
    <3>1. CASE k \in 1..m
      <4>1. k \notin C
        BY <1>1, <3>1
      <4>. QED
        BY <1>1, <3>1, <4>1
    <3>2. CASE k \notin 1..m
      <4>1. k - m \in 1..n /\ m + (k - m) = k
        BY <1>1, <3>2
      <4>2. (s \o t)[k] = t[k - m]
        BY <1>1, <4>1
      <4>3. k \in C <=> k - m \in B
        BY <1>1, <4>1
      <4>. QED
        BY <3>2, <4>1, <4>2, <4>3
    <3>. QED
      BY <3>1, <3>2
  <2>2. A \cup C \subseteq 1..(m + n)
    BY <1>1
  <2>. QED
    BY <1>1, <2>1, <2>2
<1>3. A \cap C = {}
  BY <1>1
<1>4. /\ IsFiniteSet(A) /\ Cardinality(A) = G!Times(s, w)
      /\ IsFiniteSet(B) /\ Cardinality(B) = G!Times(t, w)
  BY <1>1, TimesType, TimesIs
<1>5. IsFiniteSet(C) /\ Cardinality(C) = Cardinality(B)
  <2>. DEFINE f == [k \in B |-> m + k]
  <2>1. f \in Bijection(B, C)
    BY <1>1 DEF Bijection, Injection, Surjection, IsInjective
  <2>2. ExistsBijection(B, C)
    BY <2>1 DEF ExistsBijection
  <2>. QED
    BY <1>4, <2>2, FS_Bijection
<1>6. Cardinality(A \cup C) = Cardinality(A) + Cardinality(C)
  <2>. HIDE DEF A, C
  <2>1. Cardinality(A \cap C) = 0
    BY <1>3, FS_EmptySet
  <2>2. Cardinality(A \cup C) = Cardinality(A) + Cardinality(C) - Cardinality(A \cap C)
    BY <1>4, <1>5, FS_Union
  <2>3. Cardinality(A) \in Nat /\ Cardinality(C) \in Nat
    BY <1>4, <1>5, FS_CardinalityType
  <2>. QED
    BY <2>1, <2>2, <2>3
<1>. QED
  BY <1>2, <1>4, <1>5, <1>6, TimesIs

-----------------------------------------------------------------------------
(* Lists, and the file they are loaded from. *)

\* One more, or as many as before.
LEMMA TimesAppend ==
  ASSUME NEW E, NEW s \in Seq(E), NEW x \in E, NEW w
  PROVE  G!Times(Append(s, x), w) = IF x = w THEN G!Times(s, w) + 1 ELSE G!Times(s, w)
<1>. PICK r, n : r = Append(s, x) /\ n = Len(s)
  OBVIOUS
<1>. DEFINE A == {k \in DOMAIN s : s[k] = w}
            B == {k \in DOMAIN r : r[k] = w}
<1>1. /\ n \in Nat /\ DOMAIN s = 1..n /\ DOMAIN r = 1..(n + 1) /\ r[n + 1] = x
      /\ \A k \in 1..n : r[k] = s[k]
  BY AppendProperties
<1>2. B = IF x = w THEN A \cup {n + 1} ELSE A
  <2>1. \A k \in 1..(n + 1) : k \in 1..n \/ k = n + 1
    BY <1>1
  <2>2. \A k \in 1..n : k \in 1..(n + 1)
    BY <1>1
  <2>3. n + 1 \in 1..(n + 1)
    BY <1>1
  <2>. QED
    BY <1>1, <2>1, <2>2, <2>3
<1>3. n + 1 \notin A
  BY <1>1
<1>4. IsFiniteSet(A) /\ Cardinality(A) = G!Times(s, w) /\ Cardinality(B) = G!Times(r, w)
  BY TimesType, TimesIs
<1>5. IsFiniteSet(A \cup {n + 1}) /\ Cardinality(A \cup {n + 1}) = Cardinality(A) + 1
  <2>. HIDE DEF A
  <2>. QED
    BY <1>3, <1>4, FS_AddElement
<1>. QED
  <2>. HIDE DEF A, B
  <2>. QED
    BY <1>2, <1>4, <1>5

\* The lines up to the mth that link v to w.
Linked(file, v, this, other, w, k) == file[k][this] = v /\ file[k][other] = w
LinesOf(file, v, this, other, w, m) == {k \in 1..m : Linked(file, v, this, other, w, k)}

Often(file, v, this, other, w, m) == Cardinality(LinesOf(file, v, this, other, w, m))

CountsOn(file, v, this, other, w, m) ==
  Often(file, v, this, other, w, m + 1) =
    IF Linked(file, v, this, other, w, m + 1) THEN Often(file, v, this, other, w, m) + 1
                                               ELSE Often(file, v, this, other, w, m)

\* Line by line: how often an edge is in the first m lines.
LEMMA NextLineOf ==
  ASSUME NEW file, NEW v, NEW this, NEW other, NEW w, NEW m \in Nat
  PROVE  /\ Often(file, v, this, other, w, 0) = 0
         /\ Often(file, v, this, other, w, m) \in Nat
         /\ CountsOn(file, v, this, other, w, m)
<1>. DEFINE Of(k) == LinesOf(file, v, this, other, w, k)
            Is == Linked(file, v, this, other, w, m + 1)
<1>1. Of(0) = {}
  BY DEF LinesOf
<1>2. IsFiniteSet(Of(m))
  <2>1. IsFiniteSet(1..m)
    BY FS_Interval
  <2>2. Of(m) \in SUBSET (1..m)
    BY DEF LinesOf
  <2>. QED
    BY <2>1, <2>2, FS_Subset
<1>3. Of(m + 1) = IF Is THEN Of(m) \cup {m + 1} ELSE Of(m)
  <2>1. 1..(m + 1) = (1..m) \cup {m + 1}
    OBVIOUS
  <2>. QED
    BY <2>1 DEF LinesOf
<1>4. m + 1 \notin Of(m)
  BY DEF LinesOf
<1>5. Cardinality(Of(m) \cup {m + 1}) = Cardinality(Of(m)) + 1
  <2>. HIDE DEF Of
  <2>. QED
    BY <1>2, <1>4, FS_AddElement
<1>6. Cardinality(Of(m)) \in Nat
  <2>. HIDE DEF Of
  <2>. QED
    BY <1>2, FS_CardinalityType
<1>7. Cardinality(Of(m + 1)) = IF Is THEN Cardinality(Of(m)) + 1 ELSE Cardinality(Of(m))
  <2>. HIDE DEF Of, Is
  <2>. QED
    BY <1>3, <1>5
<1>. QED
  BY <1>1, <1>6, <1>7, FS_EmptySet DEF Often, CountsOn

LoadsOften(f, file, v, this, other, w, n) ==
  \A m \in 0..n : f[m] \in Seq(G!Vertices) /\ G!Times(f[m], w) = Often(file, v, this, other, w, m)

\* What is loaded of n lines is in the list as often as in the lines.
LEMMA LoadedOften ==
  ASSUME NEW file \in Seq(Links), NEW v, NEW this \in 1..2, NEW other \in 1..2, NEW w,
         NEW n, n = Len(file), NEW f, Loading(f, file, v, this, other, n)
  PROVE  LoadsOften(f, file, v, this, other, w, n)
<1>. DEFINE Of(k) == Often(file, v, this, other, w, k)
            Holds(m) == f[m] \in Seq(G!Vertices) /\ G!Times(f[m], w) = Of(m)
            S == {m \in 0..n : ~Holds(m)}
<1>0. n \in Nat /\ \A k \in 1..n : file[k] \in Links
  OBVIOUS
<1>1. S \in SUBSET Nat
  BY <1>0
<1>2. 0 \notin S
  <2>1. f[0] = <<>>
    BY DEF Loading
  <2>2. <<>> \in Seq(G!Vertices) /\ G!Times(<<>>, w) = 0
    <3>1. <<>> \in Seq(G!Vertices)
      OBVIOUS
    <3>. QED
      BY <3>1, TimesType
  <2>3. Of(0) = 0
    BY NextLineOf
  <2>. QED
    BY <2>1, <2>2, <2>3
<1>3. ASSUME NEW m \in Nat, m + 1 \in S PROVE m \in S
  <2>1. SUFFICES ASSUME m \notin S PROVE FALSE
    OBVIOUS
  <2>2. m + 1 \in 0..n /\ m + 1 \in 1..n /\ m \in 0..n /\ (m + 1) - 1 = m
    BY <1>0, <1>3
  <2>3. Holds(m) /\ ~Holds(m + 1)
    BY <1>3, <2>1, <2>2
  <2>4. f[m + 1] = IF file[m + 1][this] = v THEN Append(f[m], file[m + 1][other]) ELSE f[m]
    BY <2>2 DEF Loading
  <2>5. Of(m + 1) = IF file[m + 1][this] = v /\ file[m + 1][other] = w THEN Of(m) + 1 ELSE Of(m)
    <3>1. CountsOn(file, v, this, other, w, m)
      BY NextLineOf
    <3>. QED
      BY <3>1 DEF CountsOn, Linked
  <2>6. file[m + 1][other] \in G!Vertices
    <3>1. file[m + 1] \in Links
      BY <1>0, <2>2
    <3>. QED
      BY <3>1 DEF Links
  <2>7. PICK x : x = file[m + 1][other]
    OBVIOUS
  <2>8. f[m] \in Seq(G!Vertices) /\ G!Times(f[m], w) = Of(m)
    BY <2>3
  <2>9. Append(f[m], x) \in Seq(G!Vertices)
    BY <2>6, <2>7, <2>8, AppendedTo
  <2>10. G!Times(Append(f[m], x), w) = IF x = w THEN G!Times(f[m], w) + 1 ELSE G!Times(f[m], w)
    BY <2>6, <2>7, <2>8, TimesAppend
  <2>11. Holds(m + 1)
    <3>. HIDE DEF Of
    <3>1. CASE file[m + 1][this] = v
      BY <2>4, <2>5, <2>7, <2>8, <2>9, <2>10, <3>1
    <3>2. CASE file[m + 1][this] # v
      BY <2>4, <2>5, <2>8, <3>2
    <3>. QED
      BY <3>1, <3>2
  <2>. QED
    BY <2>3, <2>11
<1>4. S = {}
  <2>. HIDE DEF S
  <2>. QED
    BY <1>1, <1>2, <1>3, Climb
<1>. QED
  BY <1>4 DEF LoadsOften

\* LinkedTo is what such a function comes to.
LEMMA LinkedToEnds ==
  ASSUME NEW file \in Seq(Links), NEW v, NEW this \in 1..2, NEW other \in 1..2,
         NEW n, n = Len(file), NEW f, Loading(f, file, v, this, other, n)
  PROVE  G!LinkedTo(file, v, this, other) = f[n]
<1>. DEFINE Is(h) == h = [k \in 0..Len(file) |->
                            IF k = 0 THEN <<>>
                            ELSE IF file[k][this] = v THEN Append(h[k - 1], file[k][other])
                                                       ELSE h[k - 1]]
            S(h) == {m \in 0..n : h[m] # f[m]}
<1>0. n \in Nat
  OBVIOUS
<1>1. ASSUME NEW h, Is(h) PROVE Loading(h, file, v, this, other, n)
  <2>1. \A k \in 0..n : h[k] = IF k = 0 THEN <<>>
                               ELSE IF file[k][this] = v THEN Append(h[k - 1], file[k][other])
                                                          ELSE h[k - 1]
    BY <1>1
  <2>2. h = [k \in 0..n |-> h[k]]
    BY <1>1
  <2>3. 0 \in 0..n /\ \A k \in 1..n : k \in 0..n /\ k # 0
    BY <1>0
  <2>. QED
    BY <2>1, <2>2, <2>3 DEF Loading
<1>2. Is(f)
  <2>1. \A k \in 0..n : f[k] = IF k = 0 THEN <<>>
                               ELSE IF file[k][this] = v THEN Append(f[k - 1], file[k][other])
                                                          ELSE f[k - 1]
    <3>1. f[0] = <<>> /\ \A k \in 1..n : f[k] = IF file[k][this] = v
                                                THEN Append(f[k - 1], file[k][other])
                                                ELSE f[k - 1]
      BY DEF Loading
    <3>2. \A k \in 0..n : k = 0 \/ k \in 1..n
      BY <1>0
    <3>3. \A k \in 1..n : k # 0
      BY <1>0
    <3>. QED
      BY <3>1, <3>2, <3>3
  <2>2. f = [k \in 0..n |-> f[k]]
    BY DEF Loading
  <2>. QED
    BY <2>1, <2>2
<1>3. PICK h : h = CHOOSE g : Is(g)
  OBVIOUS
<1>4. Is(h)
  <2>. HIDE DEF Is
  <2>. QED
    BY <1>2, <1>3
<1>5. G!LinkedTo(file, v, this, other) = h[n]
  BY <1>3 DEF G!LinkedTo
<1>6. Loading(h, file, v, this, other, n)
  <2>. HIDE DEF Is
  <2>. QED
    BY <1>1, <1>4
<1>7. S(h) = {}
  <2>1. S(h) \in SUBSET Nat
    BY <1>0
  <2>2. 0 \notin S(h)
    BY <1>6 DEF Loading
  <2>3. ASSUME NEW m \in Nat, m + 1 \in S(h) PROVE m \in S(h)
    <3>1. SUFFICES ASSUME m \notin S(h) PROVE FALSE
      OBVIOUS
    <3>2. m + 1 \in 1..n /\ m \in 0..n /\ (m + 1) - 1 = m
      BY <1>0, <2>3
    <3>3. h[m] = f[m] /\ h[m + 1] # f[m + 1]
      BY <2>3, <3>1, <3>2
    <3>4. \A k \in 1..n : h[k] = IF file[k][this] = v THEN Append(h[k - 1], file[k][other])
                                                       ELSE h[k - 1]
      BY <1>6 DEF Loading
    <3>5. \A k \in 1..n : f[k] = IF file[k][this] = v THEN Append(f[k - 1], file[k][other])
                                                       ELSE f[k - 1]
      BY DEF Loading
    <3>. QED
      BY <3>2, <3>3, <3>4, <3>5
  <2>. HIDE DEF S
  <2>. QED
    BY <2>1, <2>2, <2>3, Climb
<1>8. n \in 0..n
  BY <1>0
<1>. QED
  BY <1>5, <1>7, <1>8

\* An edge is in the lists as often as in the file.
LEMMA LoadedTimes ==
  ASSUME NEW file \in Seq(Links), NEW u \in G!Vertices, NEW v \in G!Vertices
  PROVE  /\ G!Targets(file, u) \in Seq(G!Vertices) /\ G!Sources(file, v) \in Seq(G!Vertices)
         /\ G!Times(G!Targets(file, u), v) = G!Times(file, <<u, v>>)
         /\ G!Times(G!Sources(file, v), u) = G!Times(file, <<u, v>>)
<1>. PICK n : n = Len(file)
  OBVIOUS
<1>0. n \in Nat /\ n \in 0..n /\ DOMAIN file = 1..n /\ \A k \in 1..n : file[k] \in Links
  OBVIOUS
<1>1. PICK f : Loading(f, file, u, 1, 2, n)
  BY <1>0, LoadingExists
<1>2. PICK g : Loading(g, file, v, 2, 1, n)
  BY <1>0, LoadingExists
<1>3. G!Targets(file, u) = f[n] /\ G!Sources(file, v) = g[n]
  BY <1>1, <1>2, LinkedToEnds DEF G!Targets, G!Sources
<1>4. /\ f[n] \in Seq(G!Vertices)
      /\ G!Times(f[n], v) = Often(file, u, 1, 2, v, n)
  <2>1. 1 \in 1..2 /\ 2 \in 1..2
    OBVIOUS
  <2>2. LoadsOften(f, file, u, 1, 2, v, n)
    BY <1>1, <2>1, LoadedOften
  <2>. QED
    BY <1>0, <2>2 DEF LoadsOften
<1>5. /\ g[n] \in Seq(G!Vertices)
      /\ G!Times(g[n], u) = Often(file, v, 2, 1, u, n)
  <2>1. 1 \in 1..2 /\ 2 \in 1..2
    OBVIOUS
  <2>2. LoadsOften(g, file, v, 2, 1, u, n)
    BY <1>2, <2>1, LoadedOften
  <2>. QED
    BY <1>0, <2>2 DEF LoadsOften
<1>6. \A k \in 1..n : file[k] = <<u, v>> <=> file[k][1] = u /\ file[k][2] = v
  BY <1>0 DEF Links
<1>7. /\ LinesOf(file, u, 1, 2, v, n) = {k \in DOMAIN file : file[k] = <<u, v>>}
      /\ LinesOf(file, v, 2, 1, u, n) = {k \in DOMAIN file : file[k] = <<u, v>>}
  BY <1>0, <1>6 DEF LinesOf, Linked
<1>8. G!Times(file, <<u, v>>) = Cardinality({k \in DOMAIN file : file[k] = <<u, v>>})
  BY TimesIs
<1>. QED
  BY <1>3, <1>4, <1>5, <1>7, <1>8 DEF Often

\* What is in a list is there at least once.
LEMMA TimesIn ==
  ASSUME NEW E, NEW s \in Seq(E), NEW w
  PROVE  w \in G!ToSet(s) <=> G!Times(s, w) # 0
<1>. DEFINE A == {k \in DOMAIN s : s[k] = w}
<1>1. IsFiniteSet(A) /\ G!Times(s, w) = Cardinality(A)
  BY TimesType, TimesIs
<1>2. w \in G!ToSet(s) <=> A # {}
  BY DEF G!ToSet
<1>. HIDE DEF A
<1>. QED
  BY <1>1, <1>2, FS_EmptySet

\* The targets of a vertex are those the file gives it,
LEMMA TargetsAre ==
  ASSUME NEW file \in Seq(Links), NEW v \in G!Vertices
  PROVE  /\ G!Targets(file, v) \in Seq(G!Vertices)
         /\ \A w \in G!Vertices : w \in G!ToSet(G!Targets(file, v)) <=> <<v, w>> \in G!ToSet(file)
<1>1. G!Targets(file, v) \in Seq(G!Vertices)
  BY LoadedTimes
<1>2. ASSUME NEW w \in G!Vertices
      PROVE  w \in G!ToSet(G!Targets(file, v)) <=> <<v, w>> \in G!ToSet(file)
  <2>1. PICK s, e : s = G!Targets(file, v) /\ e = <<v, w>>
    OBVIOUS
  <2>2. G!Times(s, w) = G!Times(file, e)
    BY <2>1, LoadedTimes
  <2>3. s \in Seq(G!Vertices)
    BY <1>1, <2>1
  <2>4. (w \in G!ToSet(s) <=> G!Times(s, w) # 0) /\ (e \in G!ToSet(file) <=> G!Times(file, e) # 0)
    BY <2>3, TimesIn
  <2>. QED
    BY <2>1, <2>2, <2>4
<1>. QED
  BY <1>1, <1>2

\* and so are its sources.
LEMMA SourcesAre ==
  ASSUME NEW file \in Seq(Links), NEW v \in G!Vertices
  PROVE  /\ G!Sources(file, v) \in Seq(G!Vertices)
         /\ \A u \in G!Vertices : u \in G!ToSet(G!Sources(file, v)) <=> <<u, v>> \in G!ToSet(file)
<1>1. G!Sources(file, v) \in Seq(G!Vertices)
  BY LoadedTimes
<1>2. ASSUME NEW u \in G!Vertices
      PROVE  u \in G!ToSet(G!Sources(file, v)) <=> <<u, v>> \in G!ToSet(file)
  <2>1. PICK s, e : s = G!Sources(file, v) /\ e = <<u, v>>
    OBVIOUS
  <2>2. G!Times(s, u) = G!Times(file, e)
    BY <2>1, LoadedTimes
  <2>3. s \in Seq(G!Vertices)
    BY <1>1, <2>1
  <2>4. (u \in G!ToSet(s) <=> G!Times(s, u) # 0) /\ (e \in G!ToSet(file) <=> G!Times(file, e) # 0)
    BY <2>3, TimesIn
  <2>. QED
    BY <2>1, <2>2, <2>4
<1>. QED
  BY <1>1, <1>2

-----------------------------------------------------------------------------
(* Vertices in ascending order.                                            *)

Ascends(list) == \A j, k \in DOMAIN list : j < k => list[j] < list[k]
Ordered(S, list) == list \in [1..Cardinality(S) -> S] /\ Ascends(list)

\* Every set of vertices can be put in order.
LEMMA OrderedExists ==
  ASSUME NEW n \in Nat, NEW S \in SUBSET (0..(n - 1))
  PROVE  IsFiniteSet(S) /\ \E list : Ordered(S, list)
<1>. DEFINE Some(R) == \E list : Ordered(R, list)
            T == {m \in Nat : \E R \in SUBSET (0..(m - 1)) : ~Some(R)}
<1>1. \A m \in Nat : \A R \in SUBSET (0..(m - 1)) : IsFiniteSet(R)
  <2>. SUFFICES ASSUME NEW m \in Nat, NEW R \in SUBSET (0..(m - 1)) PROVE IsFiniteSet(R)
    OBVIOUS
  <2>1. 0 \in Int /\ m - 1 \in Int
    OBVIOUS
  <2>2. IsFiniteSet(0..(m - 1))
    BY <2>1, FS_Interval
  <2>. QED
    BY <2>2, FS_Subset
<1>2. T \in SUBSET Nat
  OBVIOUS
<1>3. 0 \notin T
  <2>1. \A R \in SUBSET (0..(0 - 1)) : R = {}
    OBVIOUS
  <2>2. Ordered({}, <<>>)
    BY FS_EmptySet DEF Ordered, Ascends
  <2>. QED
    BY <2>1, <2>2
<1>4. ASSUME NEW m \in Nat, m + 1 \in T PROVE m \in T
  <2>1. SUFFICES ASSUME m \notin T PROVE FALSE
    OBVIOUS
  <2>2. \A R \in SUBSET (0..(m - 1)) : Some(R)
    BY <2>1
  <2>3. PICK R \in SUBSET (0..((m + 1) - 1)) : ~Some(R)
    BY <1>4
  <2>. DEFINE Q == R \ {m}
  <2>4. Q \in SUBSET (0..(m - 1))
    OBVIOUS
  <2>5. PICK list : Ordered(Q, list)
    BY <2>2, <2>4
  <2>6. R = Q \cup {m} /\ m \in R
    <3>1. R # Q
      <4>. HIDE DEF Q
      <4>. QED
        BY <2>2, <2>3, <2>4
    <3>. QED
      BY <3>1
  <2>7. IsFiniteSet(Q)
    BY <1>1, <2>4
  <2>8. Cardinality(R) = Cardinality(Q) + 1 /\ Cardinality(Q) \in Nat
    <3>1. m \notin Q
      OBVIOUS
    <3>. HIDE DEF Q
    <3>. QED
      BY <2>6, <2>7, <3>1, FS_AddElement, FS_CardinalityType
  <2>9. PICK c : c = Cardinality(Q)
    OBVIOUS
  <2>. DEFINE more == [k \in 1..(c + 1) |-> IF k = c + 1 THEN m ELSE list[k]]
  <2>10. c \in Nat /\ Cardinality(R) = c + 1
    BY <2>8, <2>9
  <2>11. /\ DOMAIN list = 1..c
         /\ \A k \in 1..c : list[k] \in Q
         /\ \A j, k \in 1..c : j < k => list[j] < list[k]
    <3>1. list \in [1..c -> Q] /\ Ascends(list)
      BY <2>5, <2>9 DEF Ordered
    <3>. HIDE DEF Q
    <3>. QED
      BY <3>1 DEF Ascends
  <2>12. \A k \in 1..(c + 1) : k = c + 1 \/ k \in 1..c
    BY <2>10
  <2>13. more \in [1..(c + 1) -> R]
    <3>. HIDE DEF Q
    <3>. QED
      BY <2>6, <2>10, <2>11, <2>12
  <2>14. \A k \in 1..c : more[k] = list[k] /\ list[k] < m
    <3>1. \A q \in Q : q < m
      OBVIOUS
    <3>2. \A k \in 1..c : k \in 1..(c + 1) /\ k # c + 1
      BY <2>10
    <3>. HIDE DEF Q
    <3>. QED
      BY <2>11, <3>1, <3>2
  <2>15. more[c + 1] = m
    BY <2>10
  <2>16. ASSUME NEW j \in 1..(c + 1), NEW k \in 1..(c + 1), j < k PROVE more[j] < more[k]
    <3>1. j \in 1..c
      BY <2>10, <2>16
    <3>. HIDE DEF more, Q
    <3>. QED
      BY <2>11, <2>12, <2>14, <2>15, <2>16, <3>1
  <2>17. Ordered(R, more)
    <3>. HIDE DEF more, Q
    <3>1. DOMAIN more = 1..(c + 1)
      BY <2>13
    <3>. QED
      BY <2>10, <2>13, <2>16, <3>1 DEF Ordered, Ascends
  <2>. QED
    BY <2>3, <2>17
<1>5. T = {}
  <2>. HIDE DEF T
  <2>. QED
    BY <1>2, <1>3, <1>4, Climb
<1>6. Some(S)
  <2>. HIDE DEF Some
  <2>. QED
    BY <1>5
<1>. QED
  BY <1>1, <1>6

\* The order is the one the definition chooses.
LEMMA InOrderDef ==
  \A S : G!InOrder(S) = CHOOSE list \in [1..Cardinality(S) -> S] :
                        \A j, k \in DOMAIN list : j < k => list[j] < list[k]
  BY GraphCardinality DEF G!InOrder

\* Every vertex of the set is there, once.
LEMMA InOrderIs ==
  ASSUME NEW S \in SUBSET G!Vertices
  PROVE  /\ G!InOrder(S) \in Seq(G!Vertices)
         /\ Ascends(G!InOrder(S))
         /\ \A u : G!Times(G!InOrder(S), u) = IF u \in S THEN 1 ELSE 0
<1>1. IsFiniteSet(S) /\ \E list : Ordered(S, list)
  <2>1. graph_num_vertex \in Nat
    BY CutsAssumption DEF G!GraphAssumption
  <2>2. S \in SUBSET (0..(graph_num_vertex - 1))
    BY DEF G!Vertices
  <2>. QED
    BY <2>1, <2>2, OrderedExists
<1>2. PICK l, c : l = G!InOrder(S) /\ c = Cardinality(S)
  OBVIOUS
<1>3. l \in [1..c -> S] /\ Ascends(l)
  <2>1. \E list \in [1..c -> S] : \A j, k \in DOMAIN list : j < k => list[j] < list[k]
    BY <1>1, <1>2 DEF Ordered, Ascends
  <2>2. l = CHOOSE list \in [1..c -> S] : \A j, k \in DOMAIN list : j < k => list[j] < list[k]
    BY <1>2, InOrderDef
  <2>. QED
    BY <2>1, <2>2 DEF Ascends
<1>4. c \in Nat
  BY <1>1, <1>2, FS_CardinalityType
<1>5. \A j, k \in 1..c : l[j] = l[k] => j = k
  <2>. SUFFICES ASSUME NEW j \in 1..c, NEW k \in 1..c, l[j] = l[k] PROVE j = k
    OBVIOUS
  <2>1. l[j] \in Int /\ l[k] \in Int
    <3>1. S \subseteq Int
      BY CutsAssumption DEF G!GraphAssumption, G!Vertices
    <3>. QED
      BY <1>3, <3>1
  <2>2. DOMAIN l = 1..c
    BY <1>3
  <2>3. ~(j < k) /\ ~(k < j)
    BY <1>3, <2>1, <2>2 DEF Ascends
  <2>. QED
    BY <1>4, <2>3
<1>6. \A u \in S : \E k \in 1..c : l[k] = u
  <2>1. l \in Injection(1..c, S)
    BY <1>3, <1>5 DEF Injection, IsInjective
  <2>2. Cardinality(1..c) = c
    <3>1. 1 \in Int /\ c \in Int
      BY <1>4
    <3>2. Cardinality(1..c) = IF 1 > c THEN 0 ELSE c - 1 + 1
      BY <3>1, FS_Interval
    <3>. QED
      BY <1>4, <3>2
  <2>3. l \in Surjection(1..c, S)
    BY <1>1, <1>2, <2>1, <2>2, FS_Injection
  <2>. QED
    BY <2>3 DEF Surjection
<1>7. l \in Seq(G!Vertices)
  <2>1. \A k \in 1..c : l[k] \in G!Vertices
    BY <1>3
  <2>2. l = [k \in 1..c |-> l[k]]
    BY <1>3
  <2>. QED
    BY <1>3, <1>4, <2>1, SeqDef
<1>8. ASSUME NEW u PROVE G!Times(l, u) = IF u \in S THEN 1 ELSE 0
  <2>. DEFINE A == {k \in DOMAIN l : l[k] = u}
  <2>0. DOMAIN l = 1..c /\ G!Times(l, u) = Cardinality(A)
    BY <1>3, TimesIs
  <2>1. CASE u \in S
    <3>1. PICK k \in 1..c : l[k] = u
      BY <1>6, <2>1
    <3>2. A = {k}
      BY <1>5, <2>0, <3>1
    <3>3. Cardinality({k}) = 1
      BY FS_Singleton
    <3>. HIDE DEF A
    <3>. QED
      BY <2>0, <2>1, <3>2, <3>3
  <2>2. CASE u \notin S
    <3>1. A = {}
      BY <1>3, <2>0, <2>2
    <3>. HIDE DEF A
    <3>. QED
      BY <2>0, <2>2, <3>1, FS_EmptySet
  <2>. QED
    BY <2>1, <2>2
<1>. QED
  BY <1>2, <1>3, <1>7, <1>8

-----------------------------------------------------------------------------
(* The places of the lists.                                                *)

\* A place is a vertex and a number in its list,
LEMMA PlacesIs ==
  \A lists, v, k : <<v, k>> \in G!Places(lists) <=> v \in G!Vertices /\ k \in DOMAIN lists[v]
  BY DEF G!Places

\* and nothing else is.
LEMMA PlacesPairs ==
  \A lists, p : p \in G!Places(lists) => \E v \in G!Vertices : \E k \in DOMAIN lists[v] : p = <<v, k>>
  BY DEF G!Places

\* The edges of the lists are their places, counted.
LEMMA NumEdgesIs == \A lists : G!NumEdges(lists) = Cardinality(G!Places(lists))
  BY GraphCardinality DEF G!NumEdges

\* Lists that differ at one vertex, where one of them has one more.
LEMMA OneMore ==
  ASSUME NEW these, NEW those, NEW u \in G!Vertices, NEW c \in Nat,
         IsFiniteSet(G!Places(these)),
         DOMAIN these[u] = 1..c, DOMAIN those[u] = 1..(c + 1),
         \A v \in G!Vertices : v # u => DOMAIN those[v] = DOMAIN these[v]
  PROVE  IsFiniteSet(G!Places(those)) /\ G!NumEdges(those) = G!NumEdges(these) + 1
<1>1. <<u, c + 1>> \notin G!Places(these)
  BY PlacesIs
<1>2. G!Places(those) = G!Places(these) \cup {<<u, c + 1>>}
  <2>1. ASSUME NEW v, NEW k
        PROVE  <<v, k>> \in G!Places(those) <=> <<v, k>> \in G!Places(these) \/ <<v, k>> = <<u, c + 1>>
    <3>1. k \in 1..(c + 1) <=> k \in 1..c \/ k = c + 1
      OBVIOUS
    <3>2. CASE v = u
      BY <3>1, <3>2, PlacesIs
    <3>3. CASE v # u
      BY <3>3, PlacesIs
    <3>. QED
      BY <3>2, <3>3
  <2>2. \A p \in G!Places(those) : p \in G!Places(these) \cup {<<u, c + 1>>}
    <3>. SUFFICES ASSUME NEW p \in G!Places(those) PROVE p \in G!Places(these) \cup {<<u, c + 1>>}
      OBVIOUS
    <3>1. PICK v, k : p = <<v, k>>
      BY PlacesPairs
    <3>. QED
      BY <2>1, <3>1
  <2>3. \A p \in G!Places(these) : p \in G!Places(those)
    <3>. SUFFICES ASSUME NEW p \in G!Places(these) PROVE p \in G!Places(those)
      OBVIOUS
    <3>1. PICK v, k : p = <<v, k>>
      BY PlacesPairs
    <3>. QED
      BY <2>1, <3>1
  <2>4. <<u, c + 1>> \in G!Places(those)
    BY <2>1
  <2>. QED
    BY <2>2, <2>3, <2>4
<1>. QED
  BY <1>1, <1>2, NumEdgesIs, FS_AddElement

\* Every line of the file gives one place.
Partly(F, n) == [v \in G!Vertices |-> F[v][n]]

\* The lists of targets, loaded from a file, have as many edges as it has lines.
LEMMA LoadedCount ==
  ASSUME NEW file \in Seq(Links)
  PROVE  G!NumEdges([v \in G!Vertices |-> G!Targets(file, v)]) = Len(file)
<1>. PICK n : n = Len(file)
  OBVIOUS
<1>. DEFINE F == [v \in G!Vertices |-> CHOOSE f : Loading(f, file, v, 1, 2, n)]
            Holds(m) == IsFiniteSet(G!Places(Partly(F, m))) /\ G!NumEdges(Partly(F, m)) = m
            S == {m \in 0..n : ~Holds(m)}
<1>0. n \in Nat /\ n \in 0..n /\ DOMAIN file = 1..n /\ \A k \in 1..n : file[k] \in Links
  OBVIOUS
<1>1. \A v \in G!Vertices : Loading(F[v], file, v, 1, 2, n)
  <2>. SUFFICES ASSUME NEW v \in G!Vertices PROVE Loading(F[v], file, v, 1, 2, n)
    OBVIOUS
  <2>1. \E f : Loading(f, file, v, 1, 2, n)
    BY <1>0, LoadingExists
  <2>2. F[v] = CHOOSE f : Loading(f, file, v, 1, 2, n)
    OBVIOUS
  <2>. QED
    BY <2>1, <2>2
<1>. HIDE DEF F
<1>2. \A v \in G!Vertices : G!Targets(file, v) = F[v][n]
  <2>. SUFFICES ASSUME NEW v \in G!Vertices PROVE G!Targets(file, v) = F[v][n]
    OBVIOUS
  <2>1. PICK f : f = F[v]
    OBVIOUS
  <2>2. Loading(f, file, v, 1, 2, n)
    BY <1>1, <2>1
  <2>3. G!LinkedTo(file, v, 1, 2) = f[n]
    BY <2>2, LinkedToEnds
  <2>. QED
    BY <2>1, <2>3 DEF G!Targets
<1>3. \A v \in G!Vertices, m \in 0..n : F[v][m] \in Seq(G!Vertices)
  <2>. SUFFICES ASSUME NEW v \in G!Vertices, NEW m \in 0..n PROVE F[v][m] \in Seq(G!Vertices)
    OBVIOUS
  <2>1. PICK f : f = F[v]
    OBVIOUS
  <2>2. Loading(f, file, v, 1, 2, n)
    BY <1>1, <2>1
  <2>3. LoadsOften(f, file, v, 1, 2, v, n)
    <3>1. 1 \in 1..2 /\ 2 \in 1..2
      OBVIOUS
    <3>. QED
      BY <2>2, <3>1, LoadedOften
  <2>. QED
    BY <2>1, <2>3 DEF LoadsOften
<1>4. S \in SUBSET Nat
  BY <1>0
<1>5. 0 \notin S
  <2>1. \A v \in G!Vertices : F[v][0] = <<>>
    BY <1>1 DEF Loading
  <2>2. \A v \in G!Vertices : DOMAIN Partly(F, 0)[v] = {}
    BY <2>1 DEF Partly
  <2>3. G!Places(Partly(F, 0)) = {}
    BY <2>2, PlacesPairs
  <2>. QED
    BY <2>3, NumEdgesIs, FS_EmptySet
<1>6. ASSUME NEW m \in Nat, m + 1 \in S PROVE m \in S
  <2>1. SUFFICES ASSUME m \notin S PROVE FALSE
    OBVIOUS
  <2>2. m + 1 \in 1..n /\ m + 1 \in 0..n /\ m \in 0..n /\ (m + 1) - 1 = m
    BY <1>0, <1>6
  <2>3. Holds(m) /\ ~Holds(m + 1)
    BY <1>6, <2>1, <2>2
  <2>4. PICK u, x : u = file[m + 1][1] /\ x = file[m + 1][2]
    OBVIOUS
  <2>5. u \in G!Vertices /\ x \in G!Vertices
    <3>1. file[m + 1] \in Links
      BY <1>0, <2>2
    <3>. QED
      BY <2>4, <3>1 DEF Links
  <2>6. \A v \in G!Vertices : F[v][m + 1] = IF u = v THEN Append(F[v][m], x) ELSE F[v][m]
    <3>. SUFFICES ASSUME NEW v \in G!Vertices
         PROVE  F[v][m + 1] = IF u = v THEN Append(F[v][m], x) ELSE F[v][m]
      OBVIOUS
    <3>1. PICK f : f = F[v]
      OBVIOUS
    <3>2. Loading(f, file, v, 1, 2, n)
      BY <1>1, <3>1
    <3>3. f[m + 1] = IF file[m + 1][1] = v THEN Append(f[(m + 1) - 1], file[m + 1][2])
                                            ELSE f[(m + 1) - 1]
      BY <2>2, <3>2 DEF Loading
    <3>. QED
      BY <2>2, <2>4, <3>1, <3>3
  <2>7. PICK these, those, s : these = Partly(F, m) /\ those = Partly(F, m + 1) /\ s = F[u][m]
    OBVIOUS
  <2>8. PICK c : c = Len(s)
    OBVIOUS
  <2>9. s \in Seq(G!Vertices)
    BY <1>3, <2>2, <2>5, <2>7
  <2>10. c \in Nat /\ DOMAIN s = 1..c /\ DOMAIN Append(s, x) = 1..(c + 1)
    BY <2>5, <2>8, <2>9
  <2>11. these[u] = s /\ those[u] = Append(s, x)
    BY <2>5, <2>6, <2>7 DEF Partly
  <2>12. \A v \in G!Vertices : v # u => DOMAIN those[v] = DOMAIN these[v]
    BY <2>6, <2>7 DEF Partly
  <2>13. IsFiniteSet(G!Places(these)) /\ G!NumEdges(these) = m
    BY <2>3, <2>7
  <2>14. IsFiniteSet(G!Places(those)) /\ G!NumEdges(those) = m + 1
    <3>1. DOMAIN these[u] = 1..c /\ DOMAIN those[u] = 1..(c + 1)
      BY <2>10, <2>11
    <3>2. IsFiniteSet(G!Places(those)) /\ G!NumEdges(those) = G!NumEdges(these) + 1
      BY <2>5, <2>10, <2>12, <2>13, <3>1, OneMore
    <3>. QED
      BY <2>13, <3>2
  <2>. QED
    BY <2>3, <2>7, <2>14
<1>7. S = {}
  <2>. HIDE DEF S
  <2>. QED
    BY <1>4, <1>5, <1>6, Climb
<1>8. [v \in G!Vertices |-> G!Targets(file, v)] = Partly(F, n)
  BY <1>2 DEF Partly
<1>. QED
  BY <1>0, <1>7, <1>8

-----------------------------------------------------------------------------
(* New numbers.                                                            *)

Renaming(new) == new \in [G!Vertices -> G!Vertices]
                 /\ G!ToSet([k \in 1..graph_num_vertex |-> new[k - 1]]) = G!Vertices
OldOf(new, w) == CHOOSE v \in G!Vertices : new[v] = w

\* No two vertices have the same new number, and every number is one's.
LEMMA RenamingIs ==
  ASSUME NEW new, Renaming(new)
  PROVE  /\ \A w \in G!Vertices : OldOf(new, w) \in G!Vertices /\ new[OldOf(new, w)] = w
         /\ \A v \in G!Vertices : OldOf(new, new[v]) = v
<1>0. graph_num_vertex \in Nat \ {0} /\ new \in [G!Vertices -> G!Vertices]
  BY CutsAssumption DEF G!GraphAssumption, Renaming
<1>1. \A w \in G!Vertices : \E v \in G!Vertices : new[v] = w
  <2>. SUFFICES ASSUME NEW w \in G!Vertices PROVE \E v \in G!Vertices : new[v] = w
    OBVIOUS
  <2>. DEFINE s == [k \in 1..graph_num_vertex |-> new[k - 1]]
  <2>1. PICK k \in DOMAIN s : s[k] = w
    <3>1. w \in G!ToSet(s)
      BY DEF Renaming
    <3>. HIDE DEF s
    <3>. QED
      BY <3>1 DEF G!ToSet
  <2>2. k \in 1..graph_num_vertex /\ k - 1 \in G!Vertices /\ new[k - 1] = w
    BY <1>0, <2>1 DEF G!Vertices
  <2>. QED
    BY <2>2
<1>2. IsFiniteSet(G!Vertices)
  <2>1. 0 \in Int /\ graph_num_vertex - 1 \in Int
    BY <1>0
  <2>. QED
    BY <2>1, FS_Interval DEF G!Vertices
<1>3. new \in Injection(G!Vertices, G!Vertices)
  <2>1. new \in Surjection(G!Vertices, G!Vertices)
    BY <1>0, <1>1 DEF Surjection
  <2>. QED
    BY <1>2, <2>1, FS_SurjSameCardinalityImpliesInj
<1>4. \A v, w \in G!Vertices : new[v] = new[w] => v = w
  BY <1>3 DEF Injection, IsInjective
<1>5. \A w \in G!Vertices : OldOf(new, w) \in G!Vertices /\ new[OldOf(new, w)] = w
  BY <1>1 DEF OldOf
<1>6. ASSUME NEW v \in G!Vertices PROVE OldOf(new, new[v]) = v
  <2>1. new[v] \in G!Vertices
    BY <1>0
  <2>2. OldOf(new, new[v]) \in G!Vertices /\ new[OldOf(new, new[v])] = new[v]
    BY <1>5, <2>1
  <2>. QED
    BY <1>4, <2>2
<1>. QED
  BY <1>5, <1>6

\* With new numbers an edge is there as often as it was with the old ones.
LEMMA RenamedIs ==
  ASSUME NEW lists \in Lists, NEW new, Renaming(new), NEW w \in G!Vertices
  PROVE  /\ G!Renamed(lists, new)[w] \in Seq(G!Vertices)
         /\ DOMAIN G!Renamed(lists, new)[w] = DOMAIN lists[OldOf(new, w)]
         /\ \A u \in G!Vertices : G!Times(G!Renamed(lists, new)[w], u) = G!Times(lists[OldOf(new, w)], OldOf(new, u))
<1>0. new \in [G!Vertices -> G!Vertices]
  BY DEF Renaming
<1>1. PICK l : l = lists[OldOf(new, w)]
  OBVIOUS
<1>2. OldOf(new, w) \in G!Vertices
  BY RenamingIs
<1>3. l \in Seq(G!Vertices)
  BY <1>1, <1>2 DEF Lists
<1>4. G!Renamed(lists, new)[w] = [k \in DOMAIN l |-> new[l[k]]]
  BY <1>1 DEF G!Renamed, OldOf
<1>5. PICK n : n = Len(l)
  OBVIOUS
<1>6. n \in Nat /\ DOMAIN l = 1..n /\ \A k \in 1..n : l[k] \in G!Vertices
  BY <1>3, <1>5
<1>7. PICK r : r = [k \in 1..n |-> new[l[k]]]
  OBVIOUS
<1>8. r = G!Renamed(lists, new)[w] /\ DOMAIN r = 1..n
  BY <1>4, <1>6, <1>7
<1>9. r \in Seq(G!Vertices)
  <2>1. \A k \in 1..n : new[l[k]] \in G!Vertices
    BY <1>0, <1>6
  <2>2. r \in [1..n -> G!Vertices]
    BY <1>7, <2>1
  <2>. QED
    BY <1>6, <2>2, SeqDef
<1>10. ASSUME NEW u \in G!Vertices PROVE G!Times(r, u) = G!Times(l, OldOf(new, u))
  <2>1. \A k \in 1..n : r[k] = u <=> l[k] = OldOf(new, u)
    <3>. SUFFICES ASSUME NEW k \in 1..n PROVE r[k] = u <=> l[k] = OldOf(new, u)
      OBVIOUS
    <3>1. r[k] = new[l[k]] /\ l[k] \in G!Vertices
      BY <1>6, <1>7
    <3>2. new[OldOf(new, u)] = u /\ OldOf(new, new[l[k]]) = l[k]
      BY <3>1, RenamingIs
    <3>. QED
      BY <3>1, <3>2
  <2>2. {k \in DOMAIN r : r[k] = u} = {k \in DOMAIN l : l[k] = OldOf(new, u)}
    BY <1>6, <1>8, <2>1
  <2>. QED
    BY <2>2, TimesIs
<1>. QED
  BY <1>1, <1>6, <1>8, <1>9, <1>10

\* As many edges as before.
LEMMA RenamedCount ==
  ASSUME NEW lists \in Lists, NEW new, Renaming(new), IsFiniteSet(G!Places(lists))
  PROVE  G!NumEdges(G!Renamed(lists, new)) = G!NumEdges(lists)
<1>. PICK more, A, B : more = G!Renamed(lists, new) /\ A = G!Places(lists) /\ B = G!Places(more)
  OBVIOUS
<1>0. new \in [G!Vertices -> G!Vertices]
  BY DEF Renaming
<1>1. \A w \in G!Vertices : DOMAIN more[w] = DOMAIN lists[OldOf(new, w)]
  BY RenamedIs
<1>2. \A v \in G!Vertices : new[v] \in G!Vertices /\ OldOf(new, new[v]) = v
  BY <1>0, RenamingIs
<1>3. \A w \in G!Vertices : OldOf(new, w) \in G!Vertices /\ new[OldOf(new, w)] = w
  BY RenamingIs
<1>4. /\ \A v, k : <<v, k>> \in A <=> v \in G!Vertices /\ k \in DOMAIN lists[v]
      /\ \A v, k : <<v, k>> \in B <=> v \in G!Vertices /\ k \in DOMAIN more[v]
  BY PlacesIs
<1>5. /\ \A p \in A : \E v, k : p = <<v, k>>
      /\ \A p \in B : \E v, k : p = <<v, k>>
  BY PlacesPairs
<1>. DEFINE f == [p \in A |-> <<new[p[1]], p[2]>>]
<1>6. \A v, k : <<v, k>> \in A => f[<<v, k>>] = <<new[v], k>>
  OBVIOUS
<1>7. \A p \in A : f[p] \in B
  <2>. SUFFICES ASSUME NEW p \in A PROVE f[p] \in B
    OBVIOUS
  <2>1. PICK v, k : p = <<v, k>>
    BY <1>5
  <2>2. v \in G!Vertices /\ k \in DOMAIN lists[v]
    BY <1>4, <2>1
  <2>3. <<new[v], k>> \in B
    BY <1>1, <1>2, <1>4, <2>2
  <2>. HIDE DEF f
  <2>. QED
    BY <1>6, <2>1, <2>3
<1>8. \A p, q \in A : f[p] = f[q] => p = q
  <2>. SUFFICES ASSUME NEW p \in A, NEW q \in A, f[p] = f[q] PROVE p = q
    OBVIOUS
  <2>1. PICK v, k : p = <<v, k>>
    BY <1>5
  <2>2. PICK u, j : q = <<u, j>>
    BY <1>5
  <2>3. <<new[v], k>> = <<new[u], j>>
    <3>. HIDE DEF f
    <3>. QED
      BY <1>6, <2>1, <2>2
  <2>4. v \in G!Vertices /\ u \in G!Vertices
    BY <1>4, <2>1, <2>2
  <2>5. new[v] = new[u] /\ k = j
    BY <2>3
  <2>6. v = u
    BY <1>2, <2>4, <2>5
  <2>. QED
    BY <2>1, <2>2, <2>5, <2>6
<1>9. \A q \in B : \E p \in A : f[p] = q
  <2>. SUFFICES ASSUME NEW q \in B PROVE \E p \in A : f[p] = q
    OBVIOUS
  <2>1. PICK w, k : q = <<w, k>>
    BY <1>5
  <2>2. w \in G!Vertices /\ k \in DOMAIN more[w]
    BY <1>4, <2>1
  <2>3. PICK v : v = OldOf(new, w)
    OBVIOUS
  <2>4. v \in G!Vertices /\ new[v] = w /\ k \in DOMAIN lists[v]
    BY <1>1, <1>3, <2>2, <2>3
  <2>5. <<v, k>> \in A
    BY <1>4, <2>4
  <2>6. f[<<v, k>>] = <<new[v], k>>
    BY <1>6, <2>5
  <2>. HIDE DEF f
  <2>. QED
    BY <2>1, <2>4, <2>5, <2>6
<1>10. f \in Bijection(A, B)
  <2>1. f \in [A -> B]
    BY <1>7
  <2>. HIDE DEF f
  <2>. QED
    BY <1>8, <1>9, <2>1 DEF Bijection, Injection, Surjection, IsInjective
<1>11. ExistsBijection(A, B)
  BY <1>10 DEF ExistsBijection
<1>12. Cardinality(B) = Cardinality(A)
  BY <1>11, FS_Bijection
<1>. QED
  BY <1>12, NumEdgesIs

-----------------------------------------------------------------------------
(* The file that is dumped.                                                *)

\* The lines of one vertex.
RowOf(lists, v) == [j \in DOMAIN lists[v] |-> <<v, lists[v][j]>>]

\* The lines that are written for a vertex are its edges, each as often as its list has it.
LEMMA RowIs ==
  ASSUME NEW lists \in Lists, NEW v \in G!Vertices
  PROVE  /\ RowOf(lists, v) \in Seq(Links)
         /\ Len(RowOf(lists, v)) = Len(lists[v])
         /\ \A w, u \in G!Vertices :
              G!Times(RowOf(lists, v), <<w, u>>) = IF w = v THEN G!Times(lists[v], u) ELSE 0
<1>1. PICK l : l = lists[v]
  OBVIOUS
<1>2. l \in Seq(G!Vertices)
  BY <1>1 DEF Lists
<1>3. PICK n : n = Len(l)
  OBVIOUS
<1>4. n \in Nat /\ DOMAIN l = 1..n /\ \A k \in 1..n : l[k] \in G!Vertices
  BY <1>2, <1>3
<1>5. PICK r : r = [j \in 1..n |-> <<v, l[j]>>]
  OBVIOUS
<1>6. r = RowOf(lists, v)
  BY <1>1, <1>4, <1>5 DEF RowOf
<1>7. r \in [1..n -> Links] /\ DOMAIN r = 1..n
  BY <1>4, <1>5 DEF Links
<1>8. r \in Seq(Links) /\ Len(r) = n
  BY <1>4, <1>7, SeqDef
<1>9. ASSUME NEW w \in G!Vertices, NEW u \in G!Vertices
      PROVE  G!Times(r, <<w, u>>) = IF w = v THEN G!Times(l, u) ELSE 0
  <2>1. \A k \in 1..n : r[k] = <<w, u>> <=> v = w /\ l[k] = u
    BY <1>5
  <2>2. CASE w = v
    <3>1. {k \in DOMAIN r : r[k] = <<w, u>>} = {k \in DOMAIN l : l[k] = u}
      BY <1>4, <1>7, <2>1, <2>2
    <3>. QED
      BY <2>2, <3>1, TimesIs
  <2>3. CASE w # v
    <3>1. {k \in DOMAIN r : r[k] = <<w, u>>} = {}
      BY <1>7, <2>1, <2>3
    <3>. QED
      BY <2>3, <3>1, TimesIs, FS_EmptySet
  <2>. QED
    BY <2>2, <2>3
<1>. QED
  BY <1>1, <1>3, <1>6, <1>8, <1>9

\* The lines of one vertex more.
LEMMA RowsMore ==
  ASSUME NEW lists \in Lists, NEW n \in 0..graph_num_vertex
  PROVE  /\ G!RowsOf(lists, n) \in Seq(Seq(Links))
         /\ n < graph_num_vertex =>
              /\ G!RowsOf(lists, n + 1) = Append(G!RowsOf(lists, n), RowOf(lists, n))
              /\ G!FlattenSeq(G!RowsOf(lists, n + 1)) = G!FlattenSeq(G!RowsOf(lists, n)) \o RowOf(lists, n)
         /\ G!FlattenSeq(G!RowsOf(lists, n)) \in Seq(Links)
         /\ G!FlattenSeq(G!RowsOf(lists, 0)) = <<>>
<1>0. graph_num_vertex \in Nat /\ n \in Nat
  BY CutsAssumption DEF G!GraphAssumption
<1>1. \A m \in 0..graph_num_vertex : G!RowsOf(lists, m) = [k \in 1..m |-> RowOf(lists, k - 1)]
  BY DEF G!RowsOf, RowOf
<1>2. \A m \in 0..graph_num_vertex : \A k \in 1..m : k - 1 \in G!Vertices
  BY <1>0 DEF G!Vertices
<1>3. \A m \in 0..graph_num_vertex :
        /\ G!RowsOf(lists, m) \in Seq(Seq(Links))
        /\ G!RowsOf(lists, m) \in [1..m -> Seq(Links)]
  <2>. SUFFICES ASSUME NEW m \in 0..graph_num_vertex
       PROVE  /\ G!RowsOf(lists, m) \in Seq(Seq(Links))
              /\ G!RowsOf(lists, m) \in [1..m -> Seq(Links)]
    OBVIOUS
  <2>1. \A k \in 1..m : RowOf(lists, k - 1) \in Seq(Links)
    BY <1>2, RowIs
  <2>2. G!RowsOf(lists, m) \in [1..m -> Seq(Links)]
    BY <1>1, <2>1
  <2>3. m \in Nat
    BY <1>0
  <2>. QED
    BY <2>2, <2>3, SeqDef
<1>4. ASSUME n < graph_num_vertex
      PROVE  /\ G!RowsOf(lists, n + 1) = Append(G!RowsOf(lists, n), RowOf(lists, n))
             /\ RowOf(lists, n) \in Seq(Links)
  <2>1. n \in G!Vertices /\ n + 1 \in 0..graph_num_vertex
    BY <1>0, <1>4 DEF G!Vertices
  <2>2. RowOf(lists, n) \in Seq(Links)
    BY <2>1, RowIs
  <2>3. PICK a, b, x : a = G!RowsOf(lists, n) /\ b = G!RowsOf(lists, n + 1) /\ x = RowOf(lists, n)
    OBVIOUS
  <2>4. a = [k \in 1..n |-> RowOf(lists, k - 1)] /\ b = [k \in 1..(n + 1) |-> RowOf(lists, k - 1)]
    BY <1>1, <2>1, <2>3
  <2>5. /\ a \in Seq(Seq(Links)) /\ a \in [1..n -> Seq(Links)]
        /\ b \in Seq(Seq(Links)) /\ b \in [1..(n + 1) -> Seq(Links)]
        /\ x \in Seq(Links)
    BY <1>3, <2>1, <2>2, <2>3
  <2>6. Len(a) = n /\ Len(b) = n + 1
    BY <1>0, <2>5
  <2>7. PICK c : c = Append(a, x)
    OBVIOUS
  <2>8. c \in Seq(Seq(Links)) /\ Len(c) = n + 1 /\ c[n + 1] = x /\ \A k \in 1..n : c[k] = a[k]
    BY <2>5, <2>6, <2>7, AppendProperties
  <2>9. \A k \in 1..(n + 1) : b[k] = c[k]
    <3>. SUFFICES ASSUME NEW k \in 1..(n + 1) PROVE b[k] = c[k]
      OBVIOUS
    <3>1. CASE k \in 1..n
      BY <2>4, <2>8, <3>1
    <3>2. CASE k = n + 1
      <4>1. k - 1 = n
        BY <1>0, <3>2
      <4>2. b[k] = RowOf(lists, k - 1)
        BY <2>4
      <4>. QED
        BY <2>3, <2>8, <3>2, <4>1, <4>2
    <3>. QED
      BY <1>0, <3>1, <3>2
  <2>10. b = c
    BY <2>5, <2>6, <2>8, <2>9, SeqEqual
  <2>. QED
    BY <2>2, <2>3, <2>7, <2>10
<1>5. G!RowsOf(lists, 0) = <<>>
  <2>1. 0 \in 0..graph_num_vertex
    BY <1>0
  <2>2. G!RowsOf(lists, 0) = [k \in 1..0 |-> RowOf(lists, k - 1)]
    BY <1>1, <2>1
  <2>. QED
    BY <2>2
<1>6. PICK a, x : a = G!RowsOf(lists, n) /\ x = RowOf(lists, n)
  OBVIOUS
<1>7. a \in Seq(Seq(Links))
  BY <1>3, <1>6
<1>8. G!FlattenSeq(a) \in Seq(Links)
  <2>1. <<>> \in Seq(Links)
    OBVIOUS
  <2>. QED
    BY <1>7, <2>1, FlattenAppend
<1>9. ASSUME n < graph_num_vertex PROVE G!FlattenSeq(Append(a, x)) = G!FlattenSeq(a) \o x
  <2>1. x \in Seq(Links)
    BY <1>4, <1>6, <1>9
  <2>. QED
    BY <1>7, <2>1, FlattenAppend
<1>. QED
  BY <1>4, <1>5, <1>6, <1>7, <1>8, <1>9, FlattenEmpty

\* Every edge is dumped as often as it is in the lists.
LEMMA DumpTimes ==
  ASSUME NEW lists \in Lists
  PROVE  /\ G!DumpEdge(lists) \in Seq(Links)
         /\ \A v, u \in G!Vertices : G!Times(G!DumpEdge(lists), <<v, u>>) = G!Times(lists[v], u)
<1>. DEFINE Flat(n) == G!FlattenSeq(G!RowsOf(lists, n))
            Holds(n) == \A v, u \in G!Vertices :
                          G!Times(Flat(n), <<v, u>>) = IF v < n THEN G!Times(lists[v], u) ELSE 0
            S == {n \in 0..graph_num_vertex : ~Holds(n)}
<1>0. graph_num_vertex \in Nat /\ \A v \in G!Vertices : v \in Nat /\ v < graph_num_vertex
  BY CutsAssumption DEF G!GraphAssumption, G!Vertices
<1>1. \A n \in 0..graph_num_vertex :
        /\ Flat(n) \in Seq(Links) /\ Flat(0) = <<>>
        /\ n < graph_num_vertex => Flat(n + 1) = Flat(n) \o RowOf(lists, n)
  BY RowsMore
<1>. HIDE DEF Flat
<1>2. S \in SUBSET Nat
  BY <1>0
<1>3. 0 \notin S
  <2>1. \A w : G!Times(<<>>, w) = 0
    <3>1. <<>> \in Seq(Links)
      OBVIOUS
    <3>. QED
      BY <3>1, TimesType
  <2>2. Flat(0) = <<>>
    BY <1>0, <1>1
  <2>3. \A v \in G!Vertices : ~(v < 0)
    BY <1>0
  <2>. QED
    BY <2>1, <2>2, <2>3
<1>4. ASSUME NEW n \in Nat, n + 1 \in S PROVE n \in S
  <2>1. SUFFICES ASSUME n \notin S PROVE FALSE
    OBVIOUS
  <2>2. n \in 0..graph_num_vertex /\ n < graph_num_vertex /\ n \in G!Vertices
    BY <1>0, <1>4 DEF G!Vertices
  <2>3. Holds(n) /\ ~Holds(n + 1)
    BY <1>4, <2>1, <2>2
  <2>4. PICK s, t : s = Flat(n) /\ t = RowOf(lists, n)
    OBVIOUS
  <2>5. s \in Seq(Links) /\ t \in Seq(Links) /\ Flat(n + 1) = s \o t
    BY <1>1, <2>2, <2>4, RowIs
  <2>6. ASSUME NEW v \in G!Vertices, NEW u \in G!Vertices
        PROVE  G!Times(Flat(n + 1), <<v, u>>) = IF v < n + 1 THEN G!Times(lists[v], u) ELSE 0
    <3>0. PICK w : w = <<v, u>>
      OBVIOUS
    <3>1. G!Times(s \o t, w) = G!Times(s, w) + G!Times(t, w)
      BY <2>5, TimesConcat
    <3>2. G!Times(s, w) = IF v < n THEN G!Times(lists[v], u) ELSE 0
      BY <2>3, <2>4, <3>0
    <3>3. G!Times(t, w) = IF v = n THEN G!Times(lists[n], u) ELSE 0
      BY <2>2, <2>4, <3>0, RowIs
    <3>4. \A x \in G!Vertices : G!Times(lists[x], u) \in Nat
      <4>1. \A x \in G!Vertices : lists[x] \in Seq(G!Vertices)
        BY DEF Lists
      <4>. QED
        BY <4>1, TimesType
    <3>5. v \in Nat /\ n \in Nat /\ (v < n + 1 <=> v < n \/ v = n)
      BY <1>0
    <3>6. PICK a, b : a = G!Times(lists[v], u) /\ b = G!Times(Flat(n + 1), <<v, u>>)
      OBVIOUS
    <3>7. a \in Nat /\ b = G!Times(s, w) + G!Times(t, w)
      BY <2>5, <3>0, <3>1, <3>4, <3>6
    <3>8. CASE v = n
      <4>1. G!Times(s, w) = 0 /\ G!Times(t, w) = a
        BY <3>2, <3>3, <3>5, <3>6, <3>8
      <4>2. b = a
        BY <3>7, <4>1
      <4>. QED
        BY <3>5, <3>6, <3>8, <4>2
    <3>9. CASE v # n
      <4>1. G!Times(s, w) = (IF v < n THEN a ELSE 0) /\ G!Times(t, w) = 0
        BY <3>2, <3>3, <3>6, <3>9
      <4>2. b = IF v < n THEN a ELSE 0
        BY <3>7, <4>1
      <4>. QED
        BY <3>5, <3>6, <3>9, <4>2
    <3>. QED
      BY <3>8, <3>9
  <2>. QED
    BY <2>3, <2>6
<1>5. S = {}
  <2>. HIDE DEF S
  <2>. QED
    BY <1>2, <1>3, <1>4, Climb
<1>6. Holds(graph_num_vertex) /\ graph_num_vertex \in 0..graph_num_vertex
  BY <1>0, <1>5
<1>7. G!DumpEdge(lists) = Flat(graph_num_vertex)
  BY DEF G!DumpEdge, Flat
<1>. QED
  BY <1>0, <1>1, <1>6, <1>7

-----------------------------------------------------------------------------
(* The edges are those of the file. *)

SourceLists(file) == [v \in G!Vertices |-> G!Sources(file, v)]
TargetLists(file) == [v \in G!Vertices |-> G!Targets(file, v)]

KeptType ==
  /\ graph_edge \in Seq(Links) /\ sample_csv \in Seq(Links)
  /\ adj \in Lists /\ r_adj \in Lists /\ sampled \in Lists

\* What is loaded is what the file says, and what comes of it.
LoadedInv ==
  /\ load_pc \in {"init", "loaded"} => num_edge = Len(graph_edge)
  /\ load_pc = "loaded" => adj = TargetLists(graph_edge) /\ r_adj = SourceLists(graph_edge)
  /\ load_pc = "reordered" => G!AdjacencyDual
  /\ G!Normalised

\* What was sampled has been dumped.
SampleInv ==
  /\ load_pc \in {"sampled", "reloaded"} =>
       /\ \A v \in G!Vertices :
            /\ Len(sampled[v]) \in {0, sample_size}
            /\ Len(sampled[v]) = 0 <=> \A u \in G!Vertices : <<u, v>> \notin G!ToSet(graph_edge)
            /\ \A u \in G!ToSet(sampled[v]) : <<u, v>> \in G!ToSet(graph_edge)
       /\ sample_csv = G!DumpEdge(sampled)
  /\ load_pc = "reloaded" => r_adj = SourceLists(sample_csv)

KeptInv == KeptType /\ LoadedInv /\ SampleInv

\* Both lists are loaded with the edges of the file, each as often as it is there.
LEMMA ListsAre ==
  ASSUME NEW file \in Seq(Links)
  PROVE  /\ SourceLists(file) \in Lists /\ TargetLists(file) \in Lists
         /\ \A u, v \in G!Vertices :
              /\ G!Times(TargetLists(file)[u], v) = G!Times(file, <<u, v>>)
              /\ G!Times(SourceLists(file)[v], u) = G!Times(file, <<u, v>>)
         /\ G!NumEdges(TargetLists(file)) = Len(file)
<1>1. \A v \in G!Vertices : /\ G!Sources(file, v) \in Seq(G!Vertices) /\ G!Targets(file, v) \in Seq(G!Vertices)
                            /\ SourceLists(file)[v] = G!Sources(file, v)
                            /\ TargetLists(file)[v] = G!Targets(file, v)
  BY LoadedTimes DEF SourceLists, TargetLists
<1>2. SourceLists(file) \in Lists /\ TargetLists(file) \in Lists
  BY <1>1 DEF Lists, SourceLists, TargetLists
<1>3. \A u, v \in G!Vertices :
        /\ G!Times(TargetLists(file)[u], v) = G!Times(file, <<u, v>>)
        /\ G!Times(SourceLists(file)[v], u) = G!Times(file, <<u, v>>)
  <2>. SUFFICES ASSUME NEW u \in G!Vertices, NEW v \in G!Vertices
       PROVE  /\ G!Times(TargetLists(file)[u], v) = G!Times(file, <<u, v>>)
              /\ G!Times(SourceLists(file)[v], u) = G!Times(file, <<u, v>>)
    OBVIOUS
  <2>1. /\ G!Times(G!Targets(file, u), v) = G!Times(file, <<u, v>>)
        /\ G!Times(G!Sources(file, v), u) = G!Times(file, <<u, v>>)
    BY LoadedTimes
  <2>2. TargetLists(file)[u] = G!Targets(file, u) /\ SourceLists(file)[v] = G!Sources(file, v)
    BY <1>1
  <2>. QED
    BY <2>1, <2>2
<1>4. G!NumEdges(TargetLists(file)) = Len(file)
  BY LoadedCount DEF TargetLists
<1>. QED
  BY <1>2, <1>3, <1>4

\* The places of any lists of a graph are finitely many.
LEMMA PlacesFinite ==
  ASSUME NEW lists \in Lists
  PROVE  IsFiniteSet(G!Places(lists))
<1>. DEFINE Upto(n) == {p \in G!Places(lists) : p[1] < n}
            S == {n \in 0..graph_num_vertex : ~IsFiniteSet(Upto(n))}
<1>0. graph_num_vertex \in Nat /\ \A v \in G!Vertices : v \in Nat /\ v < graph_num_vertex
  BY CutsAssumption DEF G!GraphAssumption, G!Vertices
<1>1. \A p \in G!Places(lists) : p[1] \in G!Vertices /\ p[2] \in DOMAIN lists[p[1]] /\ p = <<p[1], p[2]>>
  BY PlacesPairs
<1>2. S \in SUBSET Nat
  BY <1>0
<1>3. 0 \notin S
  <2>1. Upto(0) = {}
    BY <1>0, <1>1
  <2>. QED
    BY <2>1, FS_EmptySet
<1>4. ASSUME NEW n \in Nat, n + 1 \in S PROVE n \in S
  <2>1. SUFFICES ASSUME n \notin S PROVE FALSE
    OBVIOUS
  <2>2. n \in 0..graph_num_vertex /\ n < graph_num_vertex /\ n \in G!Vertices
    BY <1>0, <1>4 DEF G!Vertices
  <2>3. IsFiniteSet(Upto(n)) /\ ~IsFiniteSet(Upto(n + 1))
    BY <1>4, <2>1, <2>2
  <2>. DEFINE Last == {p \in G!Places(lists) : p[1] = n}
  <2>4. Upto(n + 1) = Upto(n) \cup Last
    <3>1. \A v \in G!Vertices : v < n + 1 <=> v < n \/ v = n
      BY <1>0
    <3>. QED
      BY <1>1, <3>1
  <2>5. PICK l, c : l = lists[n] /\ c = Len(l)
    OBVIOUS
  <2>6. l \in Seq(G!Vertices) /\ c \in Nat /\ DOMAIN l = 1..c
    <3>1. l \in Seq(G!Vertices)
      BY <2>2, <2>5 DEF Lists
    <3>. QED
      BY <2>5, <3>1
  <2>7. IsFiniteSet(Last)
    <3>. DEFINE f == [k \in 1..c |-> <<n, k>>]
    <3>1. \A k \in 1..c : <<n, k>> \in Last
      BY <2>2, <2>5, <2>6, PlacesIs
    <3>2. f \in [1..c -> Last]
      BY <3>1
    <3>3. \A p \in Last : \E k \in 1..c : f[k] = p
      <4>. SUFFICES ASSUME NEW p \in Last PROVE \E k \in 1..c : f[k] = p
        OBVIOUS
      <4>1. p[2] \in 1..c /\ p = <<n, p[2]>>
        BY <1>1, <2>5, <2>6
      <4>. QED
        BY <4>1
    <3>4. f \in Surjection(1..c, Last)
      <4>. HIDE DEF f, Last
      <4>. QED
        BY <3>2, <3>3 DEF Surjection
    <3>5. IsFiniteSet(1..c)
      BY <2>6, FS_Interval
    <3>. HIDE DEF f, Last
    <3>. QED
      BY <3>4, <3>5, FS_Surjection
  <2>8. PICK A, B : A = Upto(n) /\ B = Last
    OBVIOUS
  <2>9. IsFiniteSet(A) /\ IsFiniteSet(B) /\ Upto(n + 1) = A \cup B
    BY <2>3, <2>4, <2>7, <2>8
  <2>10. IsFiniteSet(A \cup B)
    BY <2>9, FS_Union
  <2>. QED
    BY <2>3, <2>9, <2>10
<1>5. S = {}
  <2>. HIDE DEF S
  <2>. QED
    BY <1>2, <1>3, <1>4, Climb
<1>6. IsFiniteSet(Upto(graph_num_vertex))
  BY <1>0, <1>5
<1>7. Upto(graph_num_vertex) = G!Places(lists)
  BY <1>0, <1>1
<1>. QED
  BY <1>6, <1>7

\* At the beginning there is the file only.
LEMMA KeptBegins == G!Init => KeptInv
<1>. SUFFICES ASSUME G!Init PROVE KeptInv
  OBVIOUS
<1>1. graph_edge \in Seq(Links) /\ sample_csv \in Seq(Links)
  <2>1. <<>> \in Seq(Links)
    OBVIOUS
  <2>. QED
    BY <2>1, CutsAssumption DEF G!GraphAssumption, G!Init, Links
<1>2. G!NoEdges \in Lists
  <2>1. <<>> \in Seq(G!Vertices)
    OBVIOUS
  <2>. QED
    BY <2>1 DEF G!NoEdges, Lists
<1>. QED
  BY <1>1, <1>2 DEF G!Init, KeptInv, KeptType, LoadedInv, SampleInv, G!Normalised

\* LoadGraph: the lists of targets and of sources are those of the same lines.
LEMMA LoadKeeps == ASSUME KeptInv, G!LoadGraph PROVE KeptInv'
<1>1. /\ load_pc = "init" /\ load_pc' = "loaded"
      /\ adj' = TargetLists(graph_edge) /\ r_adj' = SourceLists(graph_edge)
      /\ UNCHANGED <<graph_edge, num_edge, sampled, sample_csv>>
  BY DEF G!LoadGraph, G!sampleVars, TargetLists, SourceLists
<1>2. graph_edge \in Seq(Links) /\ num_edge = Len(graph_edge)
  BY <1>1 DEF KeptInv, KeptType, LoadedInv
<1>3. adj' \in Lists /\ r_adj' \in Lists
  BY <1>1, <1>2, ListsAre
<1>4. KeptType'
  BY <1>1, <1>3 DEF KeptInv, KeptType
<1>5. /\ TargetLists(graph_edge)' = TargetLists(graph_edge)
      /\ SourceLists(graph_edge)' = SourceLists(graph_edge)
  BY <1>1
<1>. QED
  BY <1>1, <1>2, <1>4, <1>5 DEF KeptInv, LoadedInv, SampleInv, G!Normalised

\* GetGcnNormGraph: each vertex and its sources, in order, each once.
LEMMA NormKeeps == ASSUME KeptInv, G!GetGcnNormGraph PROVE KeptInv'
<1>1. /\ load_pc = "loaded" /\ load_pc' = "normalised"
      /\ r_adj' = [v \in G!Vertices |-> G!InOrder(G!SelfAndSources(v))]
      /\ num_edge' = G!NumEdges(r_adj') /\ adj' = G!NoEdges
      /\ UNCHANGED <<graph_edge, sampled, sample_csv>>
  BY DEF G!GetGcnNormGraph, G!sampleVars
<1>2. /\ graph_edge \in Seq(Links) /\ r_adj = SourceLists(graph_edge)
  BY <1>1 DEF KeptInv, KeptType, LoadedInv
<1>3. \A v \in G!Vertices :
        /\ G!SelfAndSources(v) \in SUBSET G!Vertices
        /\ \A u \in G!Vertices : u \in G!SelfAndSources(v) <=> u = v \/ <<u, v>> \in G!ToSet(graph_edge)
  <2>. SUFFICES ASSUME NEW v \in G!Vertices
       PROVE  /\ G!SelfAndSources(v) \in SUBSET G!Vertices
              /\ \A u \in G!Vertices : u \in G!SelfAndSources(v) <=> u = v \/ <<u, v>> \in G!ToSet(graph_edge)
    OBVIOUS
  <2>1. PICK s : s = G!Sources(graph_edge, v)
    OBVIOUS
  <2>2. r_adj[v] = s
    BY <1>2, <2>1 DEF SourceLists
  <2>3. s \in Seq(G!Vertices) /\ \A u \in G!Vertices : u \in G!ToSet(s) <=> <<u, v>> \in G!ToSet(graph_edge)
    BY <1>2, <2>1, SourcesAre
  <2>4. G!ToSet(s) \subseteq G!Vertices
    BY <2>3 DEF G!ToSet
  <2>5. G!SelfAndSources(v) = G!ToSet(s) \cup {v}
    BY <2>2 DEF G!SelfAndSources
  <2>. QED
    BY <2>3, <2>4, <2>5
<1>4. \A v \in G!Vertices :
        /\ r_adj'[v] \in Seq(G!Vertices) /\ Ascends(r_adj'[v])
        /\ \A u \in G!Vertices : G!Times(r_adj'[v], u) =
                                 IF u = v \/ <<u, v>> \in G!ToSet(graph_edge) THEN 1 ELSE 0
  <2>. SUFFICES ASSUME NEW v \in G!Vertices
       PROVE  /\ r_adj'[v] \in Seq(G!Vertices) /\ Ascends(r_adj'[v])
              /\ \A u \in G!Vertices : G!Times(r_adj'[v], u) =
                                       IF u = v \/ <<u, v>> \in G!ToSet(graph_edge) THEN 1 ELSE 0
    OBVIOUS
  <2>1. PICK S : S = G!SelfAndSources(v)
    OBVIOUS
  <2>2. r_adj'[v] = G!InOrder(S)
    BY <1>1, <2>1
  <2>3. S \in SUBSET G!Vertices
    BY <1>3, <2>1
  <2>4. /\ G!InOrder(S) \in Seq(G!Vertices) /\ Ascends(G!InOrder(S))
        /\ \A u : G!Times(G!InOrder(S), u) = IF u \in S THEN 1 ELSE 0
    BY <2>3, InOrderIs
  <2>5. \A u \in G!Vertices : u \in S <=> u = v \/ <<u, v>> \in G!ToSet(graph_edge)
    BY <1>3, <2>1
  <2>. QED
    BY <2>2, <2>4, <2>5
<1>5. r_adj' \in Lists
  <2>1. r_adj' = [v \in G!Vertices |-> r_adj'[v]]
    BY <1>1
  <2>. QED
    BY <1>4, <2>1 DEF Lists
<1>6. adj' \in Lists
  <2>1. <<>> \in Seq(G!Vertices)
    OBVIOUS
  <2>. QED
    BY <1>1, <2>1 DEF G!NoEdges, Lists
<1>7. KeptType'
  BY <1>1, <1>5, <1>6 DEF KeptInv, KeptType
<1>8. G!Normalised'
  <2>1. G!NumEdges(r_adj)' = G!NumEdges(r_adj')
    OBVIOUS
  <2>2. \A v \in G!Vertices : \A j, k \in DOMAIN r_adj'[v] : j < k => r_adj'[v][j] < r_adj'[v][k]
    BY <1>4 DEF Ascends
  <2>3. \A v, u \in G!Vertices : G!Times(r_adj[v], u)' = G!Times(r_adj'[v], u)
    OBVIOUS
  <2>4. \A v, u \in G!Vertices : G!Times(r_adj'[v], u) = 1 <=> u = v \/ <<u, v>> \in G!ToSet(graph_edge)
    <3>. SUFFICES ASSUME NEW v \in G!Vertices, NEW u \in G!Vertices
         PROVE  G!Times(r_adj'[v], u) = 1 <=> u = v \/ <<u, v>> \in G!ToSet(graph_edge)
      OBVIOUS
    <3>1. G!Times(r_adj'[v], u) = IF u = v \/ <<u, v>> \in G!ToSet(graph_edge) THEN 1 ELSE 0
      BY <1>4
    <3>. QED
      BY <3>1
  <2>5. G!ToSet(graph_edge)' = G!ToSet(graph_edge)
    BY <1>1
  <2>. QED
    BY <1>1, <2>1, <2>2, <2>3, <2>4, <2>5 DEF G!Normalised
<1>. QED
  BY <1>1, <1>7, <1>8 DEF KeptInv, LoadedInv, SampleInv

\* GetSampleGraph: what is drawn are sources, and the file has what was drawn.
LEMMA SampleKeeps == ASSUME KeptInv, G!GetSampleGraph PROVE KeptInv'
<1>1. /\ load_pc = "loaded" /\ load_pc' = "sampled"
      /\ sample_csv' = G!DumpEdge(sampled')
      /\ UNCHANGED <<graph_edge, adj, r_adj, num_edge>>
  BY DEF G!GetSampleGraph, G!rawVars
<1>2. graph_edge \in Seq(Links) /\ r_adj = SourceLists(graph_edge) /\ r_adj \in Lists
  BY <1>1 DEF KeptInv, KeptType, LoadedInv
<1>3. PICK size, draws :
        /\ size \in SampleSizes /\ draws \in [G!Vertices -> [1..size -> G!Vertices]]
        /\ sample_size' = size
        /\ \A v \in G!Vertices : r_adj[v] # <<>> => G!ToSet(draws[v]) \subseteq G!ToSet(r_adj[v])
        /\ sampled' = [v \in G!Vertices |-> IF r_adj[v] = <<>> THEN <<>> ELSE draws[v]]
  BY DEF G!GetSampleGraph
<1>4. size \in Nat \ {0}
  BY <1>3, CutsAssumption DEF G!GraphAssumption
<1>5. \A v \in G!Vertices :
        /\ sampled'[v] \in Seq(G!Vertices)
        /\ Len(sampled'[v]) \in {0, size}
        /\ Len(sampled'[v]) = 0 <=> \A u \in G!Vertices : <<u, v>> \notin G!ToSet(graph_edge)
        /\ \A u \in G!ToSet(sampled'[v]) : <<u, v>> \in G!ToSet(graph_edge)
  <2>. SUFFICES ASSUME NEW v \in G!Vertices
       PROVE  /\ sampled'[v] \in Seq(G!Vertices)
              /\ Len(sampled'[v]) \in {0, size}
              /\ Len(sampled'[v]) = 0 <=> \A u \in G!Vertices : <<u, v>> \notin G!ToSet(graph_edge)
              /\ \A u \in G!ToSet(sampled'[v]) : <<u, v>> \in G!ToSet(graph_edge)
    OBVIOUS
  <2>1. PICK s, t, d : s = G!Sources(graph_edge, v) /\ t = sampled'[v] /\ d = draws[v]
    OBVIOUS
  <2>2. r_adj[v] = s
    BY <1>2, <2>1 DEF SourceLists
  <2>3. s \in Seq(G!Vertices) /\ \A u \in G!Vertices : u \in G!ToSet(s) <=> <<u, v>> \in G!ToSet(graph_edge)
    BY <1>2, <2>1, SourcesAre
  <2>4. t = IF s = <<>> THEN <<>> ELSE d
    BY <1>3, <2>1, <2>2
  <2>5. d \in [1..size -> G!Vertices]
    BY <1>3, <2>1
  <2>6. d \in Seq(G!Vertices) /\ Len(d) = size
    BY <1>4, <2>5, SeqDef
  <2>7. CASE s = <<>>
    <3>1. t = <<>> /\ G!ToSet(s) = {} /\ G!ToSet(t) = {}
      BY <2>4, <2>7 DEF G!ToSet
    <3>2. \A u \in G!Vertices : <<u, v>> \notin G!ToSet(graph_edge)
      BY <2>3, <3>1
    <3>3. t \in Seq(G!Vertices) /\ Len(t) = 0
      BY <3>1
    <3>. QED
      BY <2>1, <3>1, <3>2, <3>3
  <2>8. CASE s # <<>>
    <3>1. t = d
      BY <2>4, <2>8
    <3>2. G!ToSet(d) \subseteq G!ToSet(s)
      BY <1>3, <2>1, <2>2, <2>8
    <3>3. G!ToSet(d) \subseteq G!Vertices
      BY <2>5 DEF G!ToSet
    <3>4. \A u \in G!ToSet(d) : <<u, v>> \in G!ToSet(graph_edge)
      BY <2>3, <3>2, <3>3
    <3>5. \E u \in G!Vertices : u \in G!ToSet(s)
      <4>1. 1 \in DOMAIN s /\ s[1] \in G!Vertices
        BY <2>3, <2>8
      <4>2. s[1] \in G!ToSet(s)
        BY <4>1 DEF G!ToSet
      <4>. QED
        BY <4>1, <4>2
    <3>6. Len(t) # 0
      BY <1>4, <2>6, <3>1
    <3>. QED
      BY <2>1, <2>3, <2>6, <3>1, <3>4, <3>5, <3>6
  <2>. QED
    BY <2>7, <2>8
<1>6. sampled' \in Lists
  <2>1. sampled' = [v \in G!Vertices |-> sampled'[v]]
    BY <1>3
  <2>. QED
    BY <1>5, <2>1 DEF Lists
<1>7. sample_csv' \in Seq(Links)
  BY <1>1, <1>6, DumpTimes
<1>8. KeptType'
  BY <1>1, <1>6, <1>7 DEF KeptInv, KeptType
<1>9. SampleInv'
  <2>1. G!DumpEdge(sampled)' = G!DumpEdge(sampled')
    OBVIOUS
  <2>2. G!ToSet(graph_edge)' = G!ToSet(graph_edge)
    BY <1>1
  <2>3. \A v \in G!Vertices : G!ToSet(sampled[v])' = G!ToSet(sampled'[v]) /\ Len(sampled[v])' = Len(sampled'[v])
    OBVIOUS
  <2>. QED
    BY <1>1, <1>3, <1>5, <2>1, <2>2, <2>3 DEF SampleInv
<1>. QED
  BY <1>1, <1>8, <1>9 DEF KeptInv, LoadedInv, G!Normalised

\* LoadSampleGraph: the file is read with its two ends exchanged.
LEMMA ReloadKeeps == ASSUME KeptInv, G!LoadSampleGraph PROVE KeptInv'
<1>1. /\ load_pc = "sampled" /\ load_pc' = "reloaded"
      /\ r_adj' = SourceLists(sample_csv) /\ adj' = G!NoEdges
      /\ UNCHANGED <<graph_edge, sample_size, sampled, sample_csv>>
  BY DEF G!LoadSampleGraph, G!sampleVars, SourceLists
<1>2. sample_csv \in Seq(Links)
  BY DEF KeptInv, KeptType
<1>3. r_adj' \in Lists
  BY <1>1, <1>2, ListsAre
<1>4. adj' \in Lists
  <2>1. <<>> \in Seq(G!Vertices)
    OBVIOUS
  <2>. QED
    BY <1>1, <2>1 DEF G!NoEdges, Lists
<1>5. KeptType'
  BY <1>1, <1>3, <1>4 DEF KeptInv, KeptType
<1>6. SampleInv'
  <2>1. G!DumpEdge(sampled)' = G!DumpEdge(sampled) /\ SourceLists(sample_csv)' = SourceLists(sample_csv)
    BY <1>1
  <2>2. G!ToSet(graph_edge)' = G!ToSet(graph_edge)
    BY <1>1
  <2>3. \A v \in G!Vertices : G!ToSet(sampled[v])' = G!ToSet(sampled[v]) /\ Len(sampled[v])' = Len(sampled[v])
    BY <1>1
  <2>. QED
    BY <1>1, <2>1, <2>2, <2>3 DEF KeptInv, SampleInv
<1>. QED
  BY <1>1, <1>5, <1>6 DEF KeptInv, LoadedInv, G!Normalised

\* The two directions say the same of a graph that was loaded,
LEMMA LoadedDual ==
  ASSUME KeptInv, load_pc = "loaded"
  PROVE  /\ \A u, v \in G!Vertices : G!Times(adj[u], v) = G!Times(r_adj[v], u)
         /\ G!NumEdges(adj) = num_edge
<1>1. PICK file : file = graph_edge
  OBVIOUS
<1>2. /\ file \in Seq(Links) /\ num_edge = Len(file)
      /\ adj = TargetLists(file) /\ r_adj = SourceLists(file)
  BY <1>1 DEF KeptInv, KeptType, LoadedInv
<1>3. \A u, v \in G!Vertices : G!Times(TargetLists(file)[u], v) = G!Times(SourceLists(file)[v], u)
  <2>. SUFFICES ASSUME NEW u \in G!Vertices, NEW v \in G!Vertices
       PROVE  G!Times(TargetLists(file)[u], v) = G!Times(SourceLists(file)[v], u)
    OBVIOUS
  <2>1. /\ G!Times(TargetLists(file)[u], v) = G!Times(file, <<u, v>>)
        /\ G!Times(SourceLists(file)[v], u) = G!Times(file, <<u, v>>)
    BY <1>2, ListsAre
  <2>. QED
    BY <2>1
<1>4. G!NumEdges(TargetLists(file)) = Len(file)
  BY <1>2, ListsAre
<1>. QED
  BY <1>2, <1>3, <1>4

\* and with new numbers.
LEMMA ReorderKeeps == ASSUME KeptInv, G!Reorder PROVE KeptInv'
<1>1. /\ load_pc = "loaded" /\ load_pc' = "reordered"
      /\ UNCHANGED <<graph_edge, num_edge, sampled, sample_csv>>
  BY DEF G!Reorder, G!sampleVars
<1>2. PICK new : /\ Renaming(new)
                 /\ adj' = G!Renamed(adj, new) /\ r_adj' = G!Renamed(r_adj, new)
  BY DEF G!Reorder, Renaming
<1>3. adj \in Lists /\ r_adj \in Lists
  BY DEF KeptInv, KeptType
<1>4. ASSUME NEW lists \in Lists PROVE G!Renamed(lists, new) \in Lists
  <2>1. \A w \in G!Vertices : G!Renamed(lists, new)[w] \in Seq(G!Vertices)
    BY <1>2, RenamedIs
  <2>2. G!Renamed(lists, new) = [w \in G!Vertices |-> G!Renamed(lists, new)[w]]
    BY DEF G!Renamed
  <2>. QED
    BY <2>1, <2>2 DEF Lists
<1>5. KeptType'
  BY <1>1, <1>2, <1>3, <1>4 DEF KeptInv, KeptType
<1>6. \A u, v \in G!Vertices : G!Times(adj'[u], v) = G!Times(r_adj'[v], u)
  <2>. SUFFICES ASSUME NEW u \in G!Vertices, NEW v \in G!Vertices
       PROVE  G!Times(adj'[u], v) = G!Times(r_adj'[v], u)
    OBVIOUS
  <2>1. PICK x, y : x = OldOf(new, u) /\ y = OldOf(new, v)
    OBVIOUS
  <2>2. x \in G!Vertices /\ y \in G!Vertices
    BY <1>2, <2>1, RenamingIs
  <2>3. G!Times(G!Renamed(adj, new)[u], v) = G!Times(adj[x], y)
    BY <1>2, <1>3, <2>1, RenamedIs
  <2>4. G!Times(G!Renamed(r_adj, new)[v], u) = G!Times(r_adj[y], x)
    BY <1>2, <1>3, <2>1, RenamedIs
  <2>5. G!Times(adj[x], y) = G!Times(r_adj[y], x)
    BY <1>1, <2>2, LoadedDual
  <2>. QED
    BY <1>2, <2>3, <2>4, <2>5
<1>7. G!NumEdges(adj') = num_edge'
  <2>1. IsFiniteSet(G!Places(adj))
    BY <1>3, PlacesFinite
  <2>2. G!NumEdges(G!Renamed(adj, new)) = G!NumEdges(adj)
    BY <1>2, <1>3, <2>1, RenamedCount
  <2>3. G!NumEdges(adj) = num_edge
    BY <1>1, LoadedDual
  <2>. QED
    BY <1>1, <1>2, <2>2, <2>3
<1>8. G!AdjacencyDual'
  <2>1. G!NumEdges(adj)' = G!NumEdges(adj')
    OBVIOUS
  <2>2. \A u, v \in G!Vertices : G!Times(adj[u], v)' = G!Times(adj'[u], v) /\ G!Times(r_adj[v], u)' = G!Times(r_adj'[v], u)
    OBVIOUS
  <2>. QED
    BY <1>6, <1>7, <2>1, <2>2 DEF G!AdjacencyDual
<1>. QED
  BY <1>1, <1>5, <1>8 DEF KeptInv, LoadedInv, SampleInv, G!Normalised

\* The other functions leave the lists alone.
LEMMA OthersKeep ==
  ASSUME KeptInv, UNCHANGED <<graph_edge, adj, r_adj, sampled, sample_csv>>,
         load_pc' \notin {"init", "loaded", "reordered", "normalised", "sampled", "reloaded"}
  PROVE  KeptInv'
  BY DEF KeptInv, KeptType, LoadedInv, SampleInv, G!Normalised

\* Whatever leaves the graph alone keeps what is said of it.
LEMMA StutterKeeps == ASSUME KeptInv, UNCHANGED G!vars PROVE KeptInv'
<1>1. UNCHANGED <<load_pc, graph_edge, adj, r_adj, num_edge, sample_size, sampled, sample_csv>>
  BY DEF G!vars, G!rawVars, G!sampleVars
<1>2. KeptType'
  BY <1>1 DEF KeptInv, KeptType
<1>3. G!AdjacencyDual' <=> G!AdjacencyDual
  BY <1>1 DEF G!AdjacencyDual
<1>4. G!Normalised' <=> G!Normalised
  BY <1>1 DEF G!Normalised
<1>5. SampleInv' <=> SampleInv
  BY <1>1 DEF SampleInv
<1>6. /\ TargetLists(graph_edge)' = TargetLists(graph_edge)
      /\ SourceLists(graph_edge)' = SourceLists(graph_edge)
  BY <1>1
<1>. QED
  BY <1>1, <1>2, <1>3, <1>4, <1>5, <1>6 DEF KeptInv, LoadedInv

\* So does every step.
LEMMA KeptKeeps == ASSUME KeptInv, [G!Next]_(G!vars) PROVE KeptInv'
<1>1. CASE G!HashGraph \/ G!CountEdges
  BY <1>1, OthersKeep DEF G!HashGraph, G!CountEdges, G!rawVars, G!sampleVars
<1>2. CASE G!SelfLoopLess \/ G!ToUndirected
  BY <1>2, OthersKeep DEF G!SelfLoopLess, G!ToUndirected, G!rawVars, G!sampleVars
<1>3. CASE G!GenEdgeLayout \/ G!Sentinel
  BY <1>3, OthersKeep DEF G!GenEdgeLayout, G!Sentinel, G!rawVars, G!sampleVars
<1>4. CASE G!FillRow \/ G!FillEdge \/ G!NextRow
  BY <1>4, OthersKeep DEF G!FillRow, G!FillEdge, G!NextRow, G!rawVars, G!sampleVars
<1>. QED
  BY <1>1, <1>2, <1>3, <1>4, LoadKeeps, NormKeeps, SampleKeeps, ReloadKeeps, ReorderKeeps,
     StutterKeeps DEF G!Next

\* Whatever was done to the graph, the lists are those of the file: each edge in both of
\* them as often as in the file after LoadGraph and Reorder, the sources and the vertex
\* after GetGcnNormGraph, what was drawn after GetSampleGraph.
THEOREM KeptInvariance == G!SafeSpec => []KeptInv
<1>. QED
  BY KeptBegins, KeptKeeps, PTL DEF G!SafeSpec

\* The graph that goes to the accelerator joins the vertices that the file joins: loaded
\* and renamed with every edge as often as in the file and in both directions, normalised
\* once and with the vertex itself (graph.cpp, LoadGraph, GetGcnNormGraph, Reorder); a
\* sample has sources only, as many as asked for, and the file it goes through loses,
\* doubles and makes up none, although it turns them round (ReloadSame).
THEOREM GraphKept == G!SafeSpec => []EdgesKept
<1>1. ASSUME KeptInv PROVE EdgesKept
  <2>1. G!AdjacencyDual
    <3>1. ASSUME load_pc = "loaded" PROVE G!AdjacencyDual
      BY <3>1, <1>1, LoadedDual DEF G!AdjacencyDual
    <3>2. ASSUME load_pc = "reordered" PROVE G!AdjacencyDual
      BY <3>2, <1>1 DEF KeptInv, LoadedInv
    <3>3. ASSUME load_pc \notin {"loaded", "reordered"} PROVE G!AdjacencyDual
      BY <3>3 DEF G!AdjacencyDual
    <3>. QED
      BY <3>1, <3>2, <3>3
  <2>2. G!Normalised
    BY <1>1 DEF KeptInv, LoadedInv
  <2>3. ASSUME load_pc = "reloaded", NEW u \in G!Vertices, NEW v \in G!Vertices
        PROVE  G!Times(r_adj[u], v) = G!Times(sampled[v], u)
    <3>1. PICK file, lists : file = sample_csv /\ lists = sampled
      OBVIOUS
    <3>2. /\ lists \in Lists /\ file = G!DumpEdge(lists) /\ file \in Seq(Links)
          /\ r_adj = SourceLists(file)
      BY <1>1, <2>3, <3>1 DEF KeptInv, KeptType, SampleInv
    <3>3. G!Times(SourceLists(file)[u], v) = G!Times(file, <<v, u>>)
      BY <3>2, ListsAre
    <3>4. G!Times(G!DumpEdge(lists), <<v, u>>) = G!Times(lists[v], u)
      BY <3>2, DumpTimes
    <3>. QED
      BY <3>1, <3>2, <3>3, <3>4
  <2>4. load_pc = "reloaded" =>
          \A u, v \in G!Vertices : G!Times(r_adj[u], v) + G!Times(r_adj[v], u)
                                     = G!Times(sampled[u], v) + G!Times(sampled[v], u)
    <3>. SUFFICES ASSUME load_pc = "reloaded", NEW u \in G!Vertices, NEW v \in G!Vertices
         PROVE  G!Times(r_adj[u], v) + G!Times(r_adj[v], u)
                  = G!Times(sampled[u], v) + G!Times(sampled[v], u)
      OBVIOUS
    <3>1. /\ G!Times(r_adj[u], v) = G!Times(sampled[v], u)
          /\ G!Times(r_adj[v], u) = G!Times(sampled[u], v)
      BY <2>3
    <3>2. G!Times(sampled[u], v) \in Nat /\ G!Times(sampled[v], u) \in Nat
      <4>1. sampled[u] \in Seq(G!Vertices) /\ sampled[v] \in Seq(G!Vertices)
        BY <1>1 DEF KeptInv, KeptType, Lists
      <4>. QED
        BY <4>1, TimesType
    <3>. QED
      BY <3>1, <3>2
  <2>5. G!SampleKept
    BY <1>1, <2>4 DEF G!SampleKept, KeptInv, SampleInv
  <2>. QED
    BY <2>1, <2>2, <2>5 DEF EdgesKept, G!EdgesKept
<1>. QED
  BY <1>1, KeptInvariance, PTL

-----------------------------------------------------------------------------
(* The undirected graph. *)

\* An edge of the file.
LinkedIn(u, v) == <<u, v>> \in G!ToSet(graph_edge)

\* The types of what the loop of ToUndirected reads.
GraphType ==
  /\ graph_edge \in Seq(Links)
  /\ adj \in Lists
  /\ hash_adj \in [G!Vertices -> SUBSET G!Vertices]
  /\ src \in 0..graph_num_vertex

\* What is loaded is what the file says.
AdjInv ==
  load_pc = "loaded" =>
    \A u, v \in G!Vertices : v \in G!ToSet(adj[u]) <=> LinkedIn(u, v)

\* Every edge of the sets is one of the file, in one direction or the other, and
\* none but a self loop is missing; those of the vertices the loop has been
\* through have their reverse.
SetsInv ==
  load_pc \in {"hashed", "undirected"} =>
    \A u, v \in G!Vertices :
      /\ v \in hash_adj[u] => LinkedIn(u, v) \/ LinkedIn(v, u)
      /\ LinkedIn(u, v) /\ u # v => v \in hash_adj[u]
      /\ v \in hash_adj[u] /\ u < src => u \in hash_adj[v]

\* At the end all vertices have been gone through and the edges counted.
DoneInv == load_pc = "undirected" => src = graph_num_vertex /\ num_edge = G!Edges(hash_adj)

\* The inductive invariant of the undirected graph.
GraphInv == GraphType /\ AdjInv /\ SetsInv /\ DoneInv

\* A file there is, and nothing loaded.
LEMMA GraphBegins == G!Init => GraphInv
<1>. SUFFICES ASSUME G!Init PROVE GraphInv
  OBVIOUS
<1>1. graph_num_vertex \in Nat \ {0} /\ graph_edge \in Seq(Links)
  BY CutsAssumption DEF G!GraphAssumption, G!Init, Links
<1>2. <<>> \in Seq(G!Vertices) /\ G!NoEdges \in Lists
  BY DEF G!NoEdges, Lists
<1>3. load_pc = "init"
  BY DEF G!Init
<1>. QED
  BY <1>1, <1>2, <1>3 DEF G!Init, GraphInv, GraphType, AdjInv, SetsInv, DoneInv

\* One turn of the loop, which goes through a set while others grow.
LEMMA TurnKeeps == ASSUME GraphInv, G!ToUndirected PROVE GraphInv'
<1>0. /\ graph_num_vertex \in Nat \ {0} /\ src \in G!Vertices
      /\ src + 1 \in 0..graph_num_vertex /\ src \in Nat
  BY CutsAssumption DEF G!GraphAssumption, GraphInv, GraphType, G!ToUndirected, G!Vertices
<1>1. hash_adj \in [G!Vertices -> SUBSET G!Vertices]
  BY DEF GraphInv, GraphType
<1>2. /\ hash_adj' = G!Back(src) /\ src' = src + 1 /\ load_pc = "hashed" /\ load_pc' = "hashed"
      /\ graph_edge' = graph_edge /\ adj' = adj
  BY DEF G!ToUndirected, G!rawVars
<1>3. \A w \in G!Vertices : hash_adj'[w] = IF w \in hash_adj[src] THEN hash_adj[w] \cup {src}
                                                                 ELSE hash_adj[w]
  BY <1>2 DEF G!Back
<1>4. hash_adj' \in [G!Vertices -> SUBSET G!Vertices]
  BY <1>0, <1>1, <1>2 DEF G!Back
<1>5. GraphType'
  BY <1>0, <1>2, <1>4 DEF GraphInv, GraphType
<1>6. ASSUME NEW u \in G!Vertices, NEW v \in G!Vertices
      PROVE  /\ v \in hash_adj[u] => LinkedIn(u, v) \/ LinkedIn(v, u)
             /\ LinkedIn(u, v) /\ u # v => v \in hash_adj[u]
             /\ v \in hash_adj[u] /\ u < src => u \in hash_adj[v]
  BY <1>2 DEF GraphInv, SetsInv
<1>7. \A u, v \in G!Vertices : LinkedIn(u, v)' <=> LinkedIn(u, v)
  BY <1>2 DEF LinkedIn
<1>8. ASSUME NEW u \in G!Vertices, NEW v \in G!Vertices
      PROVE  /\ v \in hash_adj'[u] => LinkedIn(u, v) \/ LinkedIn(v, u)
             /\ LinkedIn(u, v) /\ u # v => v \in hash_adj'[u]
             /\ v \in hash_adj'[u] /\ u < src' => u \in hash_adj'[v]
  <2>1. \A w \in G!Vertices : hash_adj[w] \subseteq hash_adj'[w]
    BY <1>3
  <2>2. v \in hash_adj'[u] <=> v \in hash_adj[u] \/ (v = src /\ u \in hash_adj[src])
    BY <1>3
  <2>3. v \in hash_adj'[u] => LinkedIn(u, v) \/ LinkedIn(v, u)
    <3>1. CASE v \in hash_adj[u]
      BY <3>1, <1>6
    <3>2. CASE v = src /\ u \in hash_adj[src]
      BY <3>2, <1>0, <1>6
    <3>. QED
      BY <2>2, <3>1, <3>2
  <2>4. v \in hash_adj'[u] /\ u < src' => u \in hash_adj'[v]
    <3>. SUFFICES ASSUME v \in hash_adj'[u], u < src' PROVE u \in hash_adj'[v]
      OBVIOUS
    <3>0. u = src \/ u < src
      BY <1>0, <1>2 DEF G!Vertices
    <3>1. CASE v \in hash_adj[u]
      <4>1. CASE u < src
        BY <1>6, <2>1, <3>1, <4>1
      <4>2. CASE u = src
        BY <1>3, <3>1, <4>2
      <4>. QED
        BY <3>0, <4>1, <4>2
    <3>2. CASE v = src /\ u \in hash_adj[src]
      BY <2>1, <3>2
    <3>. QED
      BY <2>2, <3>1, <3>2
  <2>. QED
    BY <1>6, <2>1, <2>3, <2>4
<1>9. SetsInv'
  BY <1>7, <1>8 DEF SetsInv
<1>. QED
  BY <1>2, <1>5, <1>9 DEF GraphInv, AdjInv, DoneInv

\* Whatever is called next.
LEMMA GraphKeeps == ASSUME GraphInv, [G!Next]_(G!vars) PROVE GraphInv'
<1>. USE DEF GraphInv
<1>0. graph_num_vertex \in Nat \ {0} /\ <<>> \in Seq(G!Vertices) /\ G!NoEdges \in Lists
  BY CutsAssumption DEF G!GraphAssumption, G!NoEdges, Lists
\* LoadGraph puts the file's edges into the lists.
<1>1. CASE G!LoadGraph
  <2>1. /\ adj' = [v \in G!Vertices |-> G!Targets(graph_edge, v)]
        /\ load_pc' = "loaded" /\ graph_edge' = graph_edge /\ hash_adj' = hash_adj /\ src' = src
    BY <1>1 DEF G!LoadGraph, G!hashVars
  <2>2. \A v \in G!Vertices :
          /\ G!Targets(graph_edge, v) \in Seq(G!Vertices)
          /\ \A w \in G!Vertices : w \in G!ToSet(G!Targets(graph_edge, v)) <=> LinkedIn(v, w)
    BY TargetsAre DEF GraphType, LinkedIn
  <2>3. GraphType'
    BY <2>1, <2>2 DEF GraphType, Lists
  <2>4. \A u, v \in G!Vertices : v \in G!ToSet(adj'[u]) <=> LinkedIn(u, v)'
    BY <2>1, <2>2 DEF LinkedIn
  <2>. QED
    BY <2>1, <2>3, <2>4 DEF AdjInv, SetsInv, DoneInv
\* GetGcnNormGraph and LoadSampleGraph leave no outgoing edges.
<1>2. CASE G!GetGcnNormGraph \/ G!LoadSampleGraph
  <2>1. /\ adj' = G!NoEdges /\ load_pc' \in {"normalised", "reloaded"}
        /\ UNCHANGED <<graph_edge, hash_adj, src>>
    BY <1>2 DEF G!GetGcnNormGraph, G!LoadSampleGraph, G!hashVars
  <2>. QED
    BY <1>0, <2>1 DEF GraphType, AdjInv, SetsInv, DoneInv
<1>3. CASE G!GetSampleGraph
  <2>1. load_pc' = "sampled" /\ UNCHANGED <<graph_edge, adj, hash_adj, src>>
    BY <1>3 DEF G!GetSampleGraph, G!hashVars, G!rawVars
  <2>. QED
    BY <2>1 DEF GraphType, AdjInv, SetsInv, DoneInv
\* Reorder gives the vertices of the lists their new numbers.
<1>4. CASE G!Reorder
  <2>1. PICK new \in {f \in [G!Vertices -> G!Vertices] :
                       G!ToSet([k \in 1..graph_num_vertex |-> f[k - 1]]) = G!Vertices} :
          adj' = G!Renamed(adj, new)
    BY <1>4 DEF G!Reorder
  <2>2. load_pc' = "reordered" /\ UNCHANGED <<graph_edge, hash_adj, src>>
    BY <1>4 DEF G!Reorder, G!hashVars
  <2>3. \A w \in G!Vertices : (CHOOSE v \in G!Vertices : new[v] = w) \in G!Vertices
    <3>. SUFFICES ASSUME NEW w \in G!Vertices PROVE \E v \in G!Vertices : new[v] = w
      OBVIOUS
    <3>. DEFINE s == [k \in 1..graph_num_vertex |-> new[k - 1]]
    <3>1. PICK k \in DOMAIN s : s[k] = w
      <4>1. w \in G!ToSet(s)
        BY <2>1
      <4>. HIDE DEF s
      <4>. QED
        BY <4>1 DEF G!ToSet
    <3>2. k \in 1..graph_num_vertex /\ k - 1 \in G!Vertices /\ new[k - 1] = w
      BY <1>0, <3>1 DEF G!Vertices
    <3>. QED
      BY <3>2
  <2>4. ASSUME NEW list \in Seq(G!Vertices)
        PROVE  [k \in DOMAIN list |-> new[list[k]]] \in Seq(G!Vertices)
    <3>1. Len(list) \in Nat /\ DOMAIN list = 1..Len(list) /\ \A k \in 1..Len(list) : list[k] \in G!Vertices
      OBVIOUS
    <3>2. \A k \in 1..Len(list) : new[list[k]] \in G!Vertices
      BY <2>1, <3>1
    <3>. QED
      BY <3>1, <3>2, SeqDef
  <2>5. \A w \in G!Vertices : adj[CHOOSE v \in G!Vertices : new[v] = w] \in Seq(G!Vertices)
    BY <2>3 DEF GraphType, Lists
  <2>6. adj' \in Lists
    <3>1. \A w \in G!Vertices :
            LET list == adj[CHOOSE v \in G!Vertices : new[v] = w]
            IN  [k \in DOMAIN list |-> new[list[k]]] \in Seq(G!Vertices)
      BY <2>4, <2>5
    <3>. QED
      BY <2>1, <3>1 DEF G!Renamed, Lists
  <2>. QED
    BY <2>2, <2>6 DEF GraphType, AdjInv, SetsInv, DoneInv
\* HashGraph makes sets of the lists.
<1>5. CASE G!HashGraph
  <2>1. /\ load_pc = "loaded" /\ hash_adj' = [v \in G!Vertices |-> G!ToSet(adj[v])]
        /\ src' = 0 /\ load_pc' = "hashed" /\ UNCHANGED <<graph_edge, adj>>
    BY <1>5 DEF G!HashGraph, G!rawVars
  <2>2. \A v \in G!Vertices : G!ToSet(adj[v]) \in SUBSET G!Vertices
    <3>1. \A v \in G!Vertices : adj[v] \in Seq(G!Vertices)
      BY DEF GraphType, Lists
    <3>. QED
      BY <3>1 DEF G!ToSet
  <2>3. GraphType'
    BY <1>0, <2>1, <2>2 DEF GraphType
  <2>4. \A u, v \in G!Vertices : v \in hash_adj'[u] <=> LinkedIn(u, v)'
    BY <2>1 DEF AdjInv, LinkedIn
  <2>5. \A u \in G!Vertices : ~(u < src')
    BY <1>0, <2>1 DEF G!Vertices
  <2>6. SetsInv'
    <3>. SUFFICES ASSUME NEW u \in G!Vertices, NEW v \in G!Vertices
         PROVE  /\ v \in hash_adj'[u] => LinkedIn(u, v)' \/ LinkedIn(v, u)'
                /\ LinkedIn(u, v)' /\ u # v => v \in hash_adj'[u]
                /\ v \in hash_adj'[u] /\ u < src' => u \in hash_adj'[v]
      BY DEF SetsInv
    <3>. QED
      BY <2>4, <2>5
  <2>. QED
    BY <2>1, <2>3, <2>6 DEF AdjInv, DoneInv
\* Self loops are the edges that SetsInv does not ask for.
<1>6. CASE G!SelfLoopLess
  <2>1. /\ load_pc = "hashed" /\ src = 0 /\ hash_adj' = [v \in G!Vertices |-> hash_adj[v] \ {v}]
        /\ UNCHANGED <<load_pc, graph_edge, adj, src>>
    BY <1>6 DEF G!SelfLoopLess, G!rawVars
  <2>2. GraphType'
    BY <2>1 DEF GraphType
  <2>3. \A u \in G!Vertices : ~(u < src')
    BY <1>0, <2>1 DEF G!Vertices
  <2>4. \A u, v \in G!Vertices : LinkedIn(u, v)' <=> LinkedIn(u, v)
    BY <2>1 DEF LinkedIn
  <2>5. \A u, v \in G!Vertices : v \in hash_adj'[u] <=> v \in hash_adj[u] /\ v # u
    BY <2>1
  <2>6. SetsInv'
    <3>. SUFFICES ASSUME NEW u \in G!Vertices, NEW v \in G!Vertices
         PROVE  /\ v \in hash_adj'[u] => LinkedIn(u, v)' \/ LinkedIn(v, u)'
                /\ LinkedIn(u, v)' /\ u # v => v \in hash_adj'[u]
                /\ v \in hash_adj'[u] /\ u < src' => u \in hash_adj'[v]
      BY DEF SetsInv
    <3>. QED
      BY <2>1, <2>3, <2>4, <2>5 DEF SetsInv
  <2>. QED
    BY <2>1, <2>2, <2>6 DEF AdjInv, DoneInv
<1>7. CASE G!ToUndirected
  BY <1>7, TurnKeeps
<1>8. CASE G!CountEdges
  <2>1. /\ load_pc = "hashed" /\ src = graph_num_vertex /\ num_edge' = G!Edges(hash_adj)
        /\ load_pc' = "undirected" /\ UNCHANGED <<graph_edge, adj, hash_adj, src>>
    BY <1>8 DEF G!CountEdges, G!hashVars
  <2>2. (\A u, v \in G!Vertices : LinkedIn(u, v)' <=> LinkedIn(u, v))
    BY <2>1 DEF LinkedIn
  <2>3. G!Edges(hash_adj)' = G!Edges(hash_adj)
    BY <2>1
  <2>. QED
    BY <2>1, <2>2, <2>3 DEF GraphType, AdjInv, SetsInv, DoneInv
\* The layout and what else may be called changes neither.
<1>9. CASE G!GenEdgeLayout
  <2>1. load_pc' = "layout" /\ UNCHANGED <<graph_edge, adj, hash_adj, src>>
    BY <1>9 DEF G!GenEdgeLayout, G!hashVars, G!rawVars
  <2>. QED
    BY <2>1 DEF GraphType, AdjInv, SetsInv, DoneInv
<1>10. CASE G!FillRow \/ G!FillEdge \/ G!NextRow
  <2>1. load_pc = "layout" /\ UNCHANGED <<load_pc, graph_edge, adj, hash_adj, src>>
    BY <1>10 DEF G!FillRow, G!FillEdge, G!NextRow, G!hashVars, G!rawVars
  <2>. QED
    BY <2>1 DEF GraphType, AdjInv, SetsInv, DoneInv
<1>11. CASE G!Sentinel
  <2>1. load_pc' = "pages" /\ UNCHANGED <<graph_edge, adj, hash_adj, src>>
    BY <1>11 DEF G!Sentinel, G!hashVars, G!rawVars
  <2>. QED
    BY <2>1 DEF GraphType, AdjInv, SetsInv, DoneInv
<1>12. CASE UNCHANGED G!vars
  <2>1. UNCHANGED <<load_pc, graph_edge, adj, num_edge, hash_adj, src>>
    BY <1>12 DEF G!vars, G!rawVars, G!hashVars
  <2>2. G!Edges(hash_adj)' = G!Edges(hash_adj) /\ \A u, v \in G!Vertices : LinkedIn(u, v)' <=> LinkedIn(u, v)
    BY <2>1 DEF LinkedIn
  <2>. QED
    BY <2>1, <2>2 DEF GraphType, AdjInv, SetsInv, DoneInv
<1>. QED
  BY <1>1, <1>2, <1>3, <1>4, <1>5, <1>6, <1>7, <1>8, <1>9, <1>10, <1>11, <1>12 DEF G!Next

\* Whatever functions are called and in what order: the lists are what the file
\* says when they are made into sets, and the sets keep its edges.
THEOREM GraphInvariance == G!SafeSpec => []GraphInv
<1>. QED
  BY GraphBegins, GraphKeeps, PTL DEF G!SafeSpec

\* For every file of edges: the undirected graph has the edges of the file and
\* their reverses, and no others, although each turn of the loop puts edges into
\* sets that a later turn goes through (graph.cpp:214-226).
THEOREM GraphUndirected == G!SafeSpec => []Undirected
<1>1. ASSUME GraphInv PROVE Undirected
  <2>. SUFFICES ASSUME load_pc = "undirected" PROVE
         /\ \A u, v \in G!Vertices :
              /\ v \in hash_adj[u] <=> u \in hash_adj[v]
              /\ v \in hash_adj[u] => {<<u, v>>, <<v, u>>} \cap G!ToSet(graph_edge) # {}
              /\ <<u, v>> \in G!ToSet(graph_edge) /\ u # v => v \in hash_adj[u]
         /\ num_edge = G!Edges(hash_adj)
    BY DEF Undirected, G!Undirected
  <2>1. src = graph_num_vertex /\ num_edge = G!Edges(hash_adj)
    BY <1>1 DEF GraphInv, DoneInv
  <2>2. \A u \in G!Vertices : u < src
    BY <2>1, CutsAssumption DEF G!GraphAssumption, G!Vertices
  <2>3. \A u, v \in G!Vertices :
          /\ v \in hash_adj[u] => <<u, v>> \in G!ToSet(graph_edge) \/ <<v, u>> \in G!ToSet(graph_edge)
          /\ <<u, v>> \in G!ToSet(graph_edge) /\ u # v => v \in hash_adj[u]
          /\ v \in hash_adj[u] => u \in hash_adj[v]
    BY <1>1, <2>2 DEF GraphInv, SetsInv, LinkedIn
  <2>. QED
    BY <2>1, <2>3
<1>. QED
  BY <1>1, GraphInvariance, PTL

-----------------------------------------------------------------------------
(* What is read of a page.                                                 *)

\* Pages are pairs of cells; what is read, a row and edges.
Cells == Seq(Int)
EdgeSeqs == Seq(Int \X Int)
Readings == [row : Int, edges : EdgeSeqs]
Nothing == [row |-> -2, edges |-> <<>>]

Read1(cell, type, so_far) ==
  IF type = -1 THEN [row |-> cell, edges |-> so_far.edges]
               ELSE [row |-> so_far.row, edges |-> Append(so_far.edges, <<so_far.row, cell>>)]

\* A pair of cells, read, gives a row and edges again.
LEMMA ReadType ==
  ASSUME NEW cell \in Int, NEW type \in Int, NEW a \in Readings
  PROVE  Read1(cell, type, a) \in Readings
<1>1. a.row \in Int /\ a.edges \in EdgeSeqs
  BY DEF Readings
<1>2. <<a.row, cell>> \in Int \X Int
  BY <1>1
<1>3. Append(a.edges, <<a.row, cell>>) \in EdgeSeqs
  BY <1>1, <1>2 DEF EdgeSeqs
<1>. QED
  BY <1>1, <1>3 DEF Read1, Readings

\* Of an empty page there is neither.
LEMMA NothingType == Nothing \in Readings
<1>1. <<>> \in EdgeSeqs
  BY DEF EdgeSeqs
<1>. QED
  BY <1>1 DEF Nothing, Readings

\* What each pair does to what was read before it.
PairsOf(page, n) == [k \in 1..n |-> [a \in Readings |-> Read1(page[2 * k - 1], page[2 * k], a)]]

\* Each pair of a page is one step of the reading.
LEMMA PairsType ==
  ASSUME NEW page \in Cells, NEW n \in Nat, Len(page) = 2 * n
  PROVE  /\ PairsOf(page, n) \in [1..n -> [Readings -> Readings]]
         /\ \A k \in 1..n : \A a \in Readings :
              PairsOf(page, n)[k][a] = Read1(page[2 * k - 1], page[2 * k], a)
<1>1. \A k \in 1..n : page[2 * k - 1] \in Int /\ page[2 * k] \in Int
  <2>. SUFFICES ASSUME NEW k \in 1..n PROVE page[2 * k - 1] \in Int /\ page[2 * k] \in Int
    OBVIOUS
  <2>1. 2 * k - 1 \in 1..Len(page) /\ 2 * k \in 1..Len(page)
    OBVIOUS
  <2>. QED
    BY <2>1 DEF Cells
<1>2. \A k \in 1..n : \A a \in Readings : Read1(page[2 * k - 1], page[2 * k], a) \in Readings
  BY <1>1, ReadType
<1>. QED
  BY <1>2 DEF PairsOf

\* What is read of a page is what reading it pair by pair comes to.
LEMMA ReadingIs ==
  ASSUME NEW page \in Cells, NEW n \in Nat, Len(page) = 2 * n,
         NEW f \in [0..n -> Readings], Steps(f, n, Nothing, PairsOf(page, n))
  PROVE  G!Reading(page) = f[n]
<1>. DEFINE Is(h) == h = [k \in 0..(Len(page) \div 2) |->
               IF k = 0 THEN [row |-> -2, edges |-> <<>>]
               ELSE LET cell == page[2 * k - 1]
                    IN  IF page[2 * k] = -1
                          THEN [row |-> cell, edges |-> h[k - 1].edges]
                          ELSE [row |-> h[k - 1].row,
                                edges |-> Append(h[k - 1].edges, <<h[k - 1].row, cell>>)]]
<1>1. Len(page) \div 2 = n
  OBVIOUS
<1>2. ASSUME NEW h
      PROVE  Is(h) <=> h = [k \in 0..n |-> IF k = 0 THEN Nothing
                                           ELSE Read1(page[2 * k - 1], page[2 * k], h[k - 1])]
  BY <1>1 DEF Nothing, Read1
<1>. HIDE DEF Is
<1>3. \A k \in 1..n : k - 1 \in 0..n /\ k \in 0..n /\ k # 0
  OBVIOUS
<1>4. \A k \in 0..n : k = 0 \/ k \in 1..n
  OBVIOUS
<1>5. \A k \in 1..n : \A a \in Readings : PairsOf(page, n)[k][a] = Read1(page[2 * k - 1], page[2 * k], a)
  BY PairsType
<1>6. Is(f)
  <2>1. \A k \in 1..n : f[k] = Read1(page[2 * k - 1], page[2 * k], f[k - 1])
    <3>1. \A k \in 1..n : f[k - 1] \in Readings
      BY <1>3
    <3>2. \A k \in 1..n : f[k] = PairsOf(page, n)[k][f[k - 1]]
      BY DEF Steps
    <3>. QED
      BY <1>5, <3>1, <3>2
  <2>2. f[0] = Nothing
    BY DEF Steps
  <2>3. f = [k \in 0..n |-> f[k]]
    OBVIOUS
  <2>4. \A k \in 0..n : f[k] = IF k = 0 THEN Nothing ELSE Read1(page[2 * k - 1], page[2 * k], f[k - 1])
    BY <1>3, <1>4, <2>1, <2>2
  <2>. QED
    BY <1>2, <2>3, <2>4
<1>7. PICK h : h = CHOOSE g : Is(g)
  OBVIOUS
<1>8. Is(h)
  BY <1>6, <1>7
<1>9. G!Reading(page) = h[n]
  BY <1>1, <1>7 DEF G!Reading, Is
<1>10. \A k \in 0..n : h[k] = IF k = 0 THEN Nothing ELSE Read1(page[2 * k - 1], page[2 * k], h[k - 1])
  BY <1>2, <1>8
<1>11. h[0] = Nothing /\ \A k \in 1..n : h[k] = Read1(page[2 * k - 1], page[2 * k], h[k - 1])
  <2>1. 0 \in 0..n
    OBVIOUS
  <2>. QED
    BY <1>3, <1>10, <2>1
<1>. DEFINE S == {k \in 0..n : h[k] # f[k]}
<1>12. S \in SUBSET Nat
  OBVIOUS
<1>13. 0 \notin S
  BY <1>11 DEF Steps
<1>14. ASSUME NEW m \in Nat, m + 1 \in S PROVE m \in S
  <2>1. SUFFICES ASSUME m \notin S PROVE FALSE
    OBVIOUS
  <2>2. m + 1 \in 1..n /\ m \in 0..n /\ (m + 1) - 1 = m
    BY <1>14
  <2>3. h[m] = f[m] /\ h[m + 1] # f[m + 1]
    BY <1>14, <2>1, <2>2
  <2>4. h[m + 1] = Read1(page[2 * (m + 1) - 1], page[2 * (m + 1)], h[m])
    BY <1>11, <2>2
  <2>5. f[m + 1] = PairsOf(page, n)[m + 1][f[m]]
    BY <2>2 DEF Steps
  <2>6. f[m] \in Readings
    BY <2>2
  <2>7. PairsOf(page, n)[m + 1][f[m]] = Read1(page[2 * (m + 1) - 1], page[2 * (m + 1)], f[m])
    BY <1>5, <2>2, <2>6
  <2>. QED
    BY <2>3, <2>4, <2>5, <2>7
<1>15. S = {}
  <2>. HIDE DEF S
  <2>. QED
    BY <1>12, <1>13, <1>14, Climb
<1>16. n \in 0..n
  OBVIOUS
<1>. QED
  BY <1>9, <1>15, <1>16

\* One more pair.
LEMMA ReadingPair ==
  ASSUME NEW page \in Cells, NEW n \in Nat, Len(page) = 2 * n, NEW cell \in Int, NEW type \in Int
  PROVE  /\ page \o <<cell, type>> \in Cells /\ Len(page \o <<cell, type>>) = 2 * (n + 1)
         /\ G!Reading(page) \in Readings
         /\ G!Reading(page \o <<cell, type>>) = Read1(cell, type, G!Reading(page))
<1>. PICK more : more = page \o <<cell, type>>
  OBVIOUS
<1>1. /\ more \in Cells /\ Len(more) = 2 * n + 2
      /\ more[2 * n + 1] = cell /\ more[2 * n + 2] = type
      /\ \A k \in 1..(2 * n) : more[k] = page[k]
  <2>1. <<cell, type>> \in Seq(Int) /\ page \in Seq(Int) /\ Len(<<cell, type>>) = 2
    BY DEF Cells
  <2>2. PICK t : t = <<cell, type>>
    OBVIOUS
  <2>3. t \in Seq(Int) /\ Len(t) = 2 /\ t[1] = cell /\ t[2] = type /\ more = page \o t
    BY <2>1, <2>2
  <2>4. /\ page \o t \in Seq(Int) /\ Len(page \o t) = 2 * n + 2
        /\ \A at \in 1..(2 * n + 2) : (page \o t)[at] = IF at <= 2 * n THEN page[at] ELSE t[at - 2 * n]
    <3>1. /\ page \o t \in Seq(Int) /\ Len(page \o t) = Len(page) + Len(t)
          /\ \A at \in 1..(Len(page) + Len(t)) :
               (page \o t)[at] = IF at <= Len(page) THEN page[at] ELSE t[at - Len(page)]
      BY <2>1, <2>3, ConcatProperties
    <3>. QED
      BY <2>3, <3>1
  <2>5. 2 * n + 1 \in 1..(2 * n + 2) /\ 2 * n + 2 \in 1..(2 * n + 2) /\ ~(2 * n + 1 <= 2 * n)
        /\ ~(2 * n + 2 <= 2 * n) /\ (2 * n + 1) - 2 * n = 1 /\ (2 * n + 2) - 2 * n = 2
    OBVIOUS
  <2>6. \A k \in 1..(2 * n) : k \in 1..(2 * n + 2) /\ k <= 2 * n
    OBVIOUS
  <2>7. \A k \in 1..(2 * n) : more[k] = page[k]
    BY <2>3, <2>4, <2>6
  <2>8. more[2 * n + 1] = cell /\ more[2 * n + 2] = type
    BY <2>3, <2>4, <2>5
  <2>. QED
    BY <2>3, <2>4, <2>7, <2>8 DEF Cells
<1>2. n + 1 \in Nat /\ Len(more) = 2 * (n + 1) /\ 2 * (n + 1) = 2 * n + 2
  BY <1>1
<1>3. PICK f \in [0..n -> Readings] : Steps(f, n, Nothing, PairsOf(page, n))
  <2>1. PairsOf(page, n) \in [1..n -> [Readings -> Readings]]
    BY PairsType
  <2>2. PICK A, a, g : A = Readings /\ a = Nothing /\ g = PairsOf(page, n)
    OBVIOUS
  <2>3. a \in A /\ g \in [1..n -> [A -> A]]
    BY <2>1, <2>2, NothingType
  <2>4. \E h \in [0..n -> A] : Steps(h, n, a, g)
    BY <2>3, StepsExist
  <2>. QED
    BY <2>2, <2>4
<1>4. PICK h \in [0..(n + 1) -> Readings] : Steps(h, n + 1, Nothing, PairsOf(more, n + 1))
  <2>1. PairsOf(more, n + 1) \in [1..(n + 1) -> [Readings -> Readings]]
    BY <1>1, <1>2, PairsType
  <2>2. PICK A, a, g, m : A = Readings /\ a = Nothing /\ g = PairsOf(more, n + 1) /\ m = n + 1
    OBVIOUS
  <2>3. a \in A /\ g \in [1..m -> [A -> A]] /\ m \in Nat
    BY <1>2, <2>1, <2>2, NothingType
  <2>4. \E e \in [0..m -> A] : Steps(e, m, a, g)
    BY <2>3, StepsExist
  <2>. QED
    BY <2>2, <2>4
<1>5. \A k \in 1..n : PairsOf(more, n + 1)[k] = PairsOf(page, n)[k]
  <2>1. \A k \in 1..n : k \in 1..(n + 1) /\ 2 * k - 1 \in 1..(2 * n) /\ 2 * k \in 1..(2 * n)
    OBVIOUS
  <2>2. \A k \in 1..n : more[2 * k - 1] = page[2 * k - 1] /\ more[2 * k] = page[2 * k]
    BY <1>1, <2>1
  <2>. QED
    BY <2>1, <2>2 DEF PairsOf
<1>6. Steps(h, n, Nothing, PairsOf(page, n))
  <2>1. \A k \in 1..n : k \in 1..(n + 1)
    OBVIOUS
  <2>. QED
    BY <1>4, <1>5, <2>1 DEF Steps
<1>7. h[n] = f[n]
  <2>1. PICK a, g : a = Nothing /\ g = PairsOf(page, n)
    OBVIOUS
  <2>2. Steps(f, n, a, g) /\ Steps(h, n, a, g)
    BY <1>3, <1>6, <2>1
  <2>3. ASSUME NEW b, NEW e, NEW x, NEW y, Steps(x, n, b, e), Steps(y, n, b, e)
        PROVE  \A k \in 0..n : x[k] = y[k]
    BY ONLY n \in Nat, <2>3, StepsUnique
  <2>4. n \in 0..n
    OBVIOUS
  <2>. QED
    BY <2>2, <2>3, <2>4
<1>8. G!Reading(page) = f[n]
  BY <1>3, ReadingIs
<1>9. G!Reading(more) = h[n + 1]
  BY <1>1, <1>2, <1>4, ReadingIs
<1>10. f[n] \in Readings
  OBVIOUS
<1>11. h[n + 1] = Read1(cell, type, h[n])
  <2>1. n + 1 \in 1..(n + 1) /\ (n + 1) - 1 = n
    OBVIOUS
  <2>2. h[n + 1] = PairsOf(more, n + 1)[n + 1][h[n]]
    BY <1>4, <2>1 DEF Steps
  <2>3. \A k \in 1..(n + 1) : \A a \in Readings :
          PairsOf(more, n + 1)[k][a] = Read1(more[2 * k - 1], more[2 * k], a)
    BY <1>1, <1>2, PairsType
  <2>4. PairsOf(more, n + 1)[n + 1][h[n]] = Read1(more[2 * (n + 1) - 1], more[2 * (n + 1)], h[n])
    BY <1>7, <1>10, <2>1, <2>3
  <2>5. 2 * (n + 1) - 1 = 2 * n + 1 /\ 2 * (n + 1) = 2 * n + 2
    OBVIOUS
  <2>. QED
    BY <1>1, <2>2, <2>4, <2>5
<1>. QED
  BY <1>1, <1>2, <1>7, <1>8, <1>9, <1>10, <1>11

\* Nothing is read of an empty page.
LEMMA ReadingEmpty == G!Reading(<<>>) = Nothing /\ <<>> \in Cells /\ Len(<<>>) = 0
<1>1. <<>> \in Cells /\ Len(<<>>) = 2 * 0
  BY DEF Cells
<1>2. PICK f : f = [k \in 0..0 |-> Nothing]
  OBVIOUS
<1>3. f \in [0..0 -> Readings] /\ f[0] = Nothing
  BY <1>2, NothingType
<1>4. Steps(f, 0, Nothing, PairsOf(<<>>, 0))
  <2>1. \A k \in 1..0 : FALSE
    OBVIOUS
  <2>. QED
    BY <1>3, <2>1 DEF Steps
<1>5. G!Reading(<<>>) = f[0]
  <2>1. PICK page, n : page = <<>> /\ n = 0
    OBVIOUS
  <2>2. page \in Cells /\ n \in Nat /\ Len(page) = 2 * n /\ f \in [0..n -> Readings]
        /\ Steps(f, n, Nothing, PairsOf(page, n))
    BY <1>1, <1>3, <1>4, <2>1
  <2>3. G!Reading(page) = f[n]
    BY <2>2, ReadingIs
  <2>. QED
    BY <2>1, <2>3
<1>. QED
  BY <1>1, <1>3, <1>5

-----------------------------------------------------------------------------
(* What is read of many pages.                                             *)

\* Whole pairs.
Page(page) == page \in Cells /\ \E n \in Nat : Len(page) = 2 * n

EdgesRead(pages) == G!FlattenSeq([p \in DOMAIN pages |-> G!EdgesOf(pages[p])])

\* A page of pairs gives edges, and the row that it ends in.
LEMMA PageRead ==
  ASSUME NEW page, Page(page)
  PROVE  G!Reading(page) \in Readings /\ G!EdgesOf(page) \in EdgeSeqs /\ G!Reading(page).row \in Int
<1>1. PICK n \in Nat : Len(page) = 2 * n
  BY DEF Page
<1>2. G!Reading(page) \in Readings
  <2>1. page \in Cells /\ 0 \in Int
    BY DEF Page
  <2>. QED
    BY <1>1, <2>1, ReadingPair
<1>. QED
  BY <1>2 DEF G!EdgesOf, Readings

\* A pair more on a page.
LEMMA PagePair ==
  ASSUME NEW page, Page(page), NEW cell \in Int, NEW type \in Int
  PROVE  /\ Page(page \o <<cell, type>>)
         /\ Len(page \o <<cell, type>>) = Len(page) + 2
         /\ type = -1 => /\ G!EdgesOf(page \o <<cell, type>>) = G!EdgesOf(page)
                         /\ G!Reading(page \o <<cell, type>>).row = cell
         /\ type # -1 => /\ G!EdgesOf(page \o <<cell, type>>) =
                              Append(G!EdgesOf(page), <<G!Reading(page).row, cell>>)
                         /\ G!Reading(page \o <<cell, type>>).row = G!Reading(page).row
<1>1. PICK n \in Nat : Len(page) = 2 * n
  BY DEF Page
<1>2. PICK more : more = page \o <<cell, type>>
  OBVIOUS
<1>3. /\ more \in Cells /\ Len(more) = 2 * (n + 1)
      /\ G!Reading(more) = Read1(cell, type, G!Reading(page))
  <2>1. page \in Cells
    BY DEF Page
  <2>. QED
    BY <1>1, <1>2, <2>1, ReadingPair
<1>4. Page(more) /\ Len(more) = Len(page) + 2
  <2>1. n + 1 \in Nat
    OBVIOUS
  <2>. QED
    BY <1>1, <1>3, <2>1 DEF Page
<1>5. CASE type = -1
  BY <1>2, <1>3, <1>4, <1>5 DEF Read1, G!EdgesOf
<1>6. CASE type # -1
  <2>1. PICK r, s : r = G!Reading(page) /\ s = G!Reading(more)
    OBVIOUS
  <2>2. s = [row |-> r.row, edges |-> Append(r.edges, <<r.row, cell>>)]
    BY <1>3, <1>6, <2>1 DEF Read1
  <2>3. s.row = r.row /\ s.edges = Append(r.edges, <<r.row, cell>>)
    BY <2>2
  <2>. QED
    BY <1>2, <1>4, <1>6, <2>1, <2>3 DEF G!EdgesOf
<1>. QED
  BY <1>5, <1>6

\* An empty page is a page, without edges.
LEMMA PageEmpty == Page(<<>>) /\ G!EdgesOf(<<>>) = <<>> /\ Len(<<>>) = 0
<1>1. Len(<<>>) = 2 * 0
  BY ReadingEmpty
<1>2. Page(<<>>)
  BY <1>1, ReadingEmpty DEF Page
<1>. QED
  BY <1>2, ReadingEmpty DEF G!EdgesOf, Nothing

\* A page more.
AllPages(pages) == pages \in Seq(Cells) /\ \A p \in 1..Len(pages) : Page(pages[p])

\* One more page: its edges come behind those of the others.
LEMMA PagesMore ==
  ASSUME NEW pages, AllPages(pages), NEW page, Page(page)
  PROVE  /\ AllPages(Append(pages, page))
         /\ EdgesRead(pages) \in EdgeSeqs
         /\ EdgesRead(Append(pages, page)) = EdgesRead(pages) \o G!EdgesOf(page)
<1>1. PICK n, more : n = Len(pages) /\ more = Append(pages, page)
  OBVIOUS
<1>2. pages \in Seq(Cells) /\ page \in Cells
  BY DEF AllPages, Page
<1>3. /\ more \in Seq(Cells) /\ Len(more) = n + 1 /\ more[n + 1] = page /\ n \in Nat
      /\ \A k \in 1..n : more[k] = pages[k]
  BY <1>1, <1>2, AppendProperties
<1>4. \A k \in 1..(n + 1) : k \in 1..n \/ k = n + 1
  BY <1>3
<1>5. \A k \in 1..(n + 1) : Page(more[k])
  BY <1>1, <1>3, <1>4 DEF AllPages
<1>6. AllPages(more)
  BY <1>3, <1>5 DEF AllPages
<1>7. PICK a, b, x : /\ a = [p \in 1..n |-> G!EdgesOf(pages[p])]
                     /\ b = [p \in 1..(n + 1) |-> G!EdgesOf(more[p])]
                     /\ x = G!EdgesOf(page)
  OBVIOUS
<1>8. DOMAIN pages = 1..n /\ DOMAIN more = 1..(n + 1)
  BY <1>1, <1>2, <1>3
<1>9. EdgesRead(pages) = G!FlattenSeq(a) /\ EdgesRead(more) = G!FlattenSeq(b)
  BY <1>7, <1>8 DEF EdgesRead
<1>10. a \in [1..n -> EdgeSeqs] /\ b \in [1..(n + 1) -> EdgeSeqs] /\ x \in EdgeSeqs
  <2>1. \A k \in 1..n : G!EdgesOf(pages[k]) \in EdgeSeqs
    BY <1>1, PageRead DEF AllPages
  <2>2. \A k \in 1..(n + 1) : G!EdgesOf(more[k]) \in EdgeSeqs
    BY <1>5, PageRead
  <2>3. G!EdgesOf(page) \in EdgeSeqs
    BY PageRead
  <2>. QED
    BY <1>7, <2>1, <2>2, <2>3
<1>11. a \in Seq(EdgeSeqs) /\ Len(a) = n /\ b \in Seq(EdgeSeqs) /\ Len(b) = n + 1
  BY <1>3, <1>10, SeqDef
<1>12. PICK c : c = Append(a, x)
  OBVIOUS
<1>13. c \in Seq(EdgeSeqs) /\ Len(c) = n + 1 /\ c[n + 1] = x /\ \A k \in 1..n : c[k] = a[k]
  BY <1>10, <1>11, <1>12, AppendProperties
<1>14. \A k \in 1..(n + 1) : b[k] = c[k]
  <2>. SUFFICES ASSUME NEW k \in 1..(n + 1) PROVE b[k] = c[k]
    OBVIOUS
  <2>1. b[k] = G!EdgesOf(more[k])
    BY <1>7
  <2>2. CASE k \in 1..n
    BY <1>3, <1>7, <1>13, <2>1, <2>2
  <2>3. CASE k = n + 1
    BY <1>3, <1>7, <1>13, <2>1, <2>3
  <2>. QED
    BY <1>4, <2>2, <2>3
<1>15. b = c
  BY <1>11, <1>13, <1>14, SeqEqual
<1>16. G!FlattenSeq(a) \in EdgeSeqs /\ G!FlattenSeq(Append(a, x)) = G!FlattenSeq(a) \o x
  <2>1. PICK E : E = Int \X Int
    OBVIOUS
  <2>2. a \in Seq(Seq(E)) /\ x \in Seq(E)
    BY <1>10, <1>11, <2>1 DEF EdgeSeqs
  <2>3. G!FlattenSeq(a) \in Seq(E) /\ G!FlattenSeq(Append(a, x)) = G!FlattenSeq(a) \o x
    BY <2>2, FlattenAppend
  <2>. QED
    BY <2>1, <2>3 DEF EdgeSeqs
<1>. QED
  BY <1>1, <1>6, <1>7, <1>9, <1>12, <1>15, <1>16

\* No pages, no edges.
LEMMA NoPages == AllPages(<<>>) /\ EdgesRead(<<>>) = <<>>
<1>1. AllPages(<<>>)
  <2>1. <<>> \in Seq(Cells) /\ \A p \in 1..Len(<<>>) : FALSE
    OBVIOUS
  <2>. QED
    BY <2>1 DEF AllPages
<1>2. [p \in DOMAIN <<>> |-> G!EdgesOf(<<>>[p])] = <<>>
  OBVIOUS
<1>. QED
  BY <1>1, <1>2, FlattenEmpty DEF EdgesRead

-----------------------------------------------------------------------------
(* The layout.                                                             *)

\* What can be read, all pages put away and the one that is filled.
ReadAll == EdgesRead(edge_pages_) \o G!EdgesOf(current_page_cells_)

\* What has been laid out of the lists: the rows before row, and of it col edges.
LaidOut == G!FlattenSeq(G!RowsOf(r_adj, layout_row)) \o SubSeq(RowOf(r_adj, layout_row), 1, layout_col)

PagesType ==
  /\ r_adj \in Lists
  /\ Page(current_page_cells_) /\ AllPages(edge_pages_)
  /\ layout_row \in 0..graph_num_vertex /\ layout_col \in Int /\ layout_col >= -1
  /\ layout_row < graph_num_vertex => layout_col <= Len(r_adj[layout_row])
  /\ layout_row = graph_num_vertex => layout_col = -1
  /\ ele_per_page \in Nat
  /\ load_pc \notin {"layout", "pages"} => layout_row = 0 /\ layout_col = -1 /\ current_page_cells_ = <<>>

PagesSize ==
  /\ Len(current_page_cells_) <= ele_per_page
  /\ load_pc = "layout" =>
       /\ ele_per_page \in PageSizes
       /\ \A p \in 1..Len(edge_pages_) : Len(edge_pages_[p]) = ele_per_page
  /\ load_pc = "pages" => \A p \in 1..(Len(edge_pages_) - 1) : Len(edge_pages_[p]) = ele_per_page

\* A page that is gone on with names the row.
PagesRead ==
  /\ load_pc = "layout" => /\ ReadAll = LaidOut
                           /\ layout_col >= 0 => G!Reading(current_page_cells_).row = layout_row
  /\ load_pc = "pages" => EdgesRead(edge_pages_) = G!DumpEdge(r_adj)

PagesInv == PagesType /\ PagesSize /\ PagesRead

\* Behind two sequences is behind the second.
LEMMA ConcatAppend ==
  ASSUME NEW E, NEW s \in Seq(E), NEW t \in Seq(E), NEW e \in E
  PROVE  s \o Append(t, e) = Append(s \o t, e)
<1>1. PICK a, b : a = s \o Append(t, e) /\ b = Append(s \o t, e)
  OBVIOUS
<1>2. a \in Seq(E) /\ b \in Seq(E) /\ Len(a) = Len(b) /\ Len(a) = Len(s) + Len(t) + 1
  BY <1>1
<1>3. ASSUME NEW at \in 1..Len(a) PROVE a[at] = b[at]
  BY <1>1, <1>2
<1>. QED
  BY <1>1, <1>2, <1>3, SeqEqual

\* The edges of a graph are pairs of numbers.
LEMMA LinksAreInts ==
  /\ Links \subseteq Int \X Int
  /\ \A s \in Seq(Links) : s \in EdgeSeqs
<1>1. Links \subseteq Int \X Int
  BY CutsAssumption DEF G!GraphAssumption, Links, G!Vertices
<1>. QED
  BY <1>1, SeqMonotonic DEF EdgeSeqs

\* What FillEdgePage and Sentinel put away, and the page they go on with.
PutPages == IF G!PageFull THEN Append(edge_pages_, current_page_cells_) ELSE edge_pages_
PutPage == IF G!PageFull THEN <<>> ELSE current_page_cells_

\* A full page is put away: no edge is lost of it, and a pair more fits into the page
\* at hand; into an empty one the head of a row, too.
LEMMA PutAway ==
  ASSUME PagesInv, load_pc = "layout"
  PROVE  /\ AllPages(PutPages) /\ Page(PutPage)
         /\ \A p \in 1..Len(PutPages) : Len(PutPages[p]) = ele_per_page
         /\ Len(PutPage) + 2 <= ele_per_page
         /\ PutPage = <<>> => Len(PutPage) + 4 <= ele_per_page
         /\ PutPage = <<>> \/ PutPage = current_page_cells_
         /\ EdgesRead(PutPages) \o G!EdgesOf(PutPage) = ReadAll
         /\ EdgesRead(PutPages) \in EdgeSeqs
<1>1. /\ Page(current_page_cells_) /\ AllPages(edge_pages_)
      /\ Len(current_page_cells_) <= ele_per_page /\ ele_per_page \in PageSizes
      /\ \A p \in 1..Len(edge_pages_) : Len(edge_pages_[p]) = ele_per_page
  BY DEF PagesInv, PagesType, PagesSize
<1>2. ele_per_page \in Nat /\ ele_per_page % 2 = 0 /\ ele_per_page >= 4
  BY <1>1, CutsAssumption DEF G!GraphAssumption
<1>3. EdgesRead(edge_pages_) \in EdgeSeqs /\ G!EdgesOf(current_page_cells_) \in EdgeSeqs
  BY <1>1, PagesMore, PageRead
<1>4. CASE G!PageFull
  <2>1. PutPages = Append(edge_pages_, current_page_cells_) /\ PutPage = <<>>
    BY <1>4 DEF PutPages, PutPage
  <2>2. /\ AllPages(PutPages)
        /\ EdgesRead(PutPages) = EdgesRead(edge_pages_) \o G!EdgesOf(current_page_cells_)
    BY <1>1, <2>1, PagesMore
  <2>3. EdgesRead(PutPages) = ReadAll /\ EdgesRead(PutPages) \in EdgeSeqs
    <3>1. \A s, t \in EdgeSeqs : s \o t \in EdgeSeqs
      BY DEF EdgeSeqs
    <3>. QED
      BY <1>3, <2>2, <3>1 DEF ReadAll
  <2>4. EdgesRead(PutPages) \o G!EdgesOf(PutPage) = EdgesRead(PutPages)
    <3>1. G!EdgesOf(PutPage) = <<>>
      BY <2>1, PageEmpty
    <3>2. \A s \in EdgeSeqs : s \o <<>> = s
      BY DEF EdgeSeqs
    <3>. QED
      BY <2>3, <3>1, <3>2
  <2>5. \A p \in 1..Len(PutPages) : Len(PutPages[p]) = ele_per_page
    <3>1. PICK n, page, pages, more : /\ n = Len(pages) /\ page = current_page_cells_
                                      /\ pages = edge_pages_ /\ more = PutPages
      OBVIOUS
    <3>2. pages \in Seq(Cells) /\ page \in Cells /\ Len(page) = ele_per_page
      BY <1>1, <1>4, <3>1 DEF AllPages, Page, G!PageFull
    <3>3. more = Append(pages, page)
      BY <2>1, <3>1
    <3>4. /\ n \in Nat /\ Len(more) = n + 1 /\ more[n + 1] = page
          /\ \A k \in 1..n : more[k] = pages[k]
      BY <3>1, <3>2, <3>3, AppendProperties
    <3>5. \A k \in 1..(n + 1) : k \in 1..n \/ k = n + 1
      BY <3>4
    <3>. QED
      BY <1>1, <3>1, <3>2, <3>4, <3>5
  <2>6. Len(PutPage) = 0
    BY <2>1, PageEmpty
  <2>. QED
    BY <1>2, <2>1, <2>2, <2>3, <2>4, <2>5, <2>6, PageEmpty
<1>5. CASE ~G!PageFull
  <2>1. PutPages = edge_pages_ /\ PutPage = current_page_cells_
    BY <1>5 DEF PutPages, PutPage
  <2>2. PICK n \in Nat : Len(current_page_cells_) = 2 * n
    BY <1>1 DEF Page
  <2>3. Len(current_page_cells_) # ele_per_page
    BY <1>5 DEF G!PageFull
  <2>4. Len(PutPage) + 2 <= ele_per_page
    BY <1>1, <1>2, <2>1, <2>2, <2>3
  <2>5. PutPage = <<>> => Len(PutPage) + 4 <= ele_per_page
    BY <1>2, PageEmpty
  <2>. QED
    BY <1>1, <1>3, <2>1, <2>4, <2>5 DEF ReadAll
<1>. QED
  BY <1>4, <1>5

\* A head names the row and takes nothing from what is read.
LEMMA HeadRead ==
  ASSUME NEW page, Page(page), NEW r \in Int
  PROVE  /\ Page(page \o G!Head1(r)) /\ Len(page \o G!Head1(r)) = Len(page) + 2
         /\ G!EdgesOf(page \o G!Head1(r)) = G!EdgesOf(page)
         /\ G!Reading(page \o G!Head1(r)).row = r
  BY PagePair DEF G!Head1

\* An edge that is put on a page is read as one of the row at hand.
LEMMA EdgeRead ==
  ASSUME NEW page, Page(page), NEW c \in Int
  PROVE  /\ Page(page \o G!Edge1(c)) /\ Len(page \o G!Edge1(c)) = Len(page) + 2
         /\ G!EdgesOf(page \o G!Edge1(c)) = Append(G!EdgesOf(page), <<G!Reading(page).row, c>>)
         /\ G!Reading(page \o G!Edge1(c)).row = G!Reading(page).row
  BY PagePair DEF G!Edge1

\* At the beginning there are no pages.
LEMMA PagesBegin == G!Init => PagesInv
<1>. SUFFICES ASSUME G!Init PROVE PagesInv
  OBVIOUS
<1>1. graph_num_vertex \in Nat \ {0}
  BY CutsAssumption DEF G!GraphAssumption
<1>2. r_adj \in Lists
  <2>1. <<>> \in Seq(G!Vertices)
    OBVIOUS
  <2>. QED
    BY <2>1 DEF G!Init, G!NoEdges, Lists
<1>3. /\ load_pc = "init" /\ layout_row = 0 /\ layout_col = -1
      /\ current_page_cells_ = <<>> /\ edge_pages_ = <<>>
      /\ ele_per_page = 0
  BY DEF G!Init
<1>4. \A v \in G!Vertices : Len(r_adj[v]) \in Nat
  BY <1>2 DEF Lists
<1>5. Page(current_page_cells_) /\ Len(current_page_cells_) = 0 /\ AllPages(edge_pages_)
  BY <1>3, PageEmpty, NoPages
<1>6. PagesType
  <2>1. 0 \in G!Vertices
    BY <1>1 DEF G!Vertices
  <2>. QED
    BY <1>1, <1>2, <1>3, <1>4, <1>5, <2>1 DEF PagesType
<1>. QED
  BY <1>3, <1>5, <1>6 DEF PagesInv, PagesSize, PagesRead

\* GenEdgeLayout: the first page is empty.
LEMMA LayoutKeeps == ASSUME PagesInv, G!GenEdgeLayout PROVE PagesInv'
<1>1. /\ load_pc \in {"loaded", "normalised"} /\ load_pc' = "layout" /\ ele_per_page' \in PageSizes
      /\ edge_pages_' = <<>> /\ UNCHANGED <<r_adj, layout_row, layout_col, current_page_cells_>>
  BY DEF G!GenEdgeLayout, G!rawVars
<1>2. layout_row = 0 /\ layout_col = -1 /\ current_page_cells_ = <<>> /\ r_adj \in Lists
  BY <1>1 DEF PagesInv, PagesType
<1>3. ele_per_page' \in Nat
  BY <1>1, CutsAssumption DEF G!GraphAssumption
<1>4. Page(current_page_cells_)' /\ AllPages(edge_pages_)' /\ Len(current_page_cells_') = 0
  BY <1>1, <1>2, PageEmpty, NoPages
<1>5. PagesType'
  BY <1>1, <1>2, <1>3, <1>4 DEF PagesInv, PagesType
<1>6. PagesSize'
  <2>1. \A p \in 1..Len(edge_pages_') : FALSE
    BY <1>1
  <2>. QED
    BY <1>1, <1>3, <1>4, <2>1 DEF PagesSize
<1>7. PagesRead'
  <2>1. EdgesRead(edge_pages_') = <<>> /\ G!EdgesOf(current_page_cells_') = <<>>
    BY <1>1, <1>2, NoPages, PageEmpty
  <2>2. ReadAll' = <<>>
    BY <2>1 DEF ReadAll
  <2>3. G!FlattenSeq(G!RowsOf(r_adj, 0)) = <<>>
    <3>1. 0 \in 0..graph_num_vertex
      BY CutsAssumption DEF G!GraphAssumption
    <3>. QED
      BY <1>2, <3>1, RowsMore
  <2>4. SubSeq(RowOf(r_adj, 0), 1, -1) = <<>>
    BY SubSeqEmpty
  <2>5. LaidOut' = <<>>
    <3>1. layout_row' = 0 /\ layout_col' = -1 /\ r_adj' = r_adj
      BY <1>1, <1>2
    <3>2. LaidOut' = G!FlattenSeq(G!RowsOf(r_adj', layout_row'))
                     \o SubSeq(RowOf(r_adj', layout_row'), 1, layout_col')
      BY DEF LaidOut
    <3>. QED
      BY <2>3, <2>4, <3>1, <3>2
  <2>. QED
    BY <1>1, <1>2, <2>2, <2>5 DEF PagesRead
<1>. QED
  BY <1>5, <1>6, <1>7 DEF PagesInv

\* FillRow: a head has no edge.
LEMMA FillRowKeeps == ASSUME PagesInv, G!FillRow PROVE PagesInv'
<1>1. /\ load_pc = "layout" /\ load_pc' = "layout" /\ layout_row \in G!Vertices
      /\ layout_col = -1 /\ layout_col' = 0
      /\ edge_pages_' = PutPages /\ current_page_cells_' = G!WithHead(PutPage, layout_row, TRUE) \o <<>>
      /\ UNCHANGED <<r_adj, layout_row, ele_per_page>>
  BY DEF G!FillRow, G!FillEdgePage, PutPages, PutPage, G!rawVars
<1>2. PICK page : page = PutPage \o G!Head1(layout_row)
  OBVIOUS
<1>3. /\ AllPages(PutPages) /\ Page(PutPage)
      /\ \A p \in 1..Len(PutPages) : Len(PutPages[p]) = ele_per_page
      /\ Len(PutPage) + 2 <= ele_per_page
      /\ EdgesRead(PutPages) \o G!EdgesOf(PutPage) = ReadAll
  BY <1>1, PutAway
<1>4. layout_row \in Int /\ layout_row < graph_num_vertex /\ layout_row \in 0..graph_num_vertex
  BY <1>1, CutsAssumption DEF G!GraphAssumption, G!Vertices
<1>5. Page(page) /\ Len(page) = Len(PutPage) + 2 /\ G!EdgesOf(page) = G!EdgesOf(PutPage)
      /\ G!Reading(page).row = layout_row
  BY <1>2, <1>3, <1>4, HeadRead
<1>6. current_page_cells_' = page
  <2>1. G!WithHead(PutPage, layout_row, TRUE) = page
    BY <1>2 DEF G!WithHead
  <2>2. page \in Seq(Int)
    BY <1>5 DEF Page, Cells
  <2>3. page \o <<>> = page
    BY <2>2
  <2>. QED
    BY <1>1, <2>1, <2>3
<1>7. PagesType'
  <2>1. Len(r_adj[layout_row]) \in Nat
    BY <1>1 DEF PagesInv, PagesType, Lists
  <2>2. Page(current_page_cells_)' /\ AllPages(edge_pages_)'
    BY <1>1, <1>3, <1>5, <1>6
  <2>. QED
    <3>1. r_adj' \in Lists /\ ele_per_page' \in Nat
      BY <1>1 DEF PagesInv, PagesType
    <3>2. layout_col' \in Int /\ layout_col' >= -1 /\ layout_col' <= Len(r_adj'[layout_row'])
      BY <1>1, <2>1
    <3>3. layout_row' \in 0..graph_num_vertex /\ layout_row' # graph_num_vertex /\ load_pc' = "layout"
      BY <1>1, <1>4
    <3>. QED
      BY <2>2, <3>1, <3>2, <3>3 DEF PagesType
<1>8. PagesSize'
  BY <1>1, <1>3, <1>5, <1>6 DEF PagesInv, PagesSize
<1>9. PagesRead'
  <2>1. ReadAll' = ReadAll
    BY <1>1, <1>3, <1>5, <1>6 DEF ReadAll
  <2>2. SubSeq(RowOf(r_adj, layout_row), 1, -1) = <<>> /\ SubSeq(RowOf(r_adj, layout_row), 1, 0) = <<>>
    BY SubSeqEmpty
  <2>3. LaidOut' = LaidOut
    <3>1. LaidOut' = G!FlattenSeq(G!RowsOf(r_adj', layout_row'))
                     \o SubSeq(RowOf(r_adj', layout_row'), 1, layout_col')
      BY DEF LaidOut
    <3>. QED
      BY <1>1, <2>2, <3>1 DEF LaidOut
  <2>4. G!Reading(current_page_cells_)'.row = layout_row'
    BY <1>1, <1>5, <1>6
  <2>5. ReadAll = LaidOut
    BY <1>1 DEF PagesInv, PagesRead
  <2>. QED
    BY <1>1, <2>1, <2>3, <2>4, <2>5 DEF PagesRead
<1>. QED
  BY <1>7, <1>8, <1>9 DEF PagesInv

\* FillEdge: the edge is read behind the others, with its row, also on a new page.
LEMMA FillEdgeKeeps == ASSUME PagesInv, G!FillEdge PROVE PagesInv'
<1>. PICK c : c = r_adj[layout_row][layout_col + 1]
  OBVIOUS
<1>1. /\ load_pc = "layout" /\ load_pc' = "layout"
      /\ layout_row \in G!Vertices /\ layout_col + 1 \in DOMAIN r_adj[layout_row]
      /\ layout_col' = layout_col + 1
      /\ edge_pages_' = PutPages /\ current_page_cells_' = G!WithHead(PutPage, layout_row, FALSE) \o G!Edge1(c)
      /\ UNCHANGED <<r_adj, layout_row, ele_per_page>>
  BY DEF G!FillEdge, G!FillEdgePage, PutPages, PutPage, G!rawVars
<1>2. PICK page : page = G!WithHead(PutPage, layout_row, FALSE)
  OBVIOUS
<1>3. /\ AllPages(PutPages) /\ Page(PutPage)
      /\ \A p \in 1..Len(PutPages) : Len(PutPages[p]) = ele_per_page
      /\ Len(PutPage) + 2 <= ele_per_page
      /\ PutPage = <<>> => Len(PutPage) + 4 <= ele_per_page
      /\ PutPage = <<>> \/ PutPage = current_page_cells_
      /\ EdgesRead(PutPages) \o G!EdgesOf(PutPage) = ReadAll
      /\ EdgesRead(PutPages) \in EdgeSeqs
  BY <1>1, PutAway
<1>4. layout_row \in Int /\ layout_row < graph_num_vertex /\ layout_row \in 0..graph_num_vertex
  BY <1>1, CutsAssumption DEF G!GraphAssumption, G!Vertices
<1>5. PICK l, n : l = r_adj[layout_row] /\ n = Len(l)
  OBVIOUS
<1>6. l \in Seq(G!Vertices) /\ n \in Nat /\ DOMAIN l = 1..n
  <2>1. l \in Seq(G!Vertices)
    BY <1>1, <1>5 DEF PagesInv, PagesType, Lists
  <2>. QED
    BY <1>5, <2>1
<1>7. layout_col \in Int /\ layout_col >= 0 /\ layout_col + 1 \in 1..n /\ c \in G!Vertices /\ c \in Int
  <2>1. layout_col \in Int /\ layout_col + 1 \in 1..n
    BY <1>1, <1>5, <1>6 DEF PagesInv, PagesType
  <2>2. c \in G!Vertices
    BY <1>5, <1>6, <2>1
  <2>. QED
    BY <2>1, <2>2, CutsAssumption DEF G!GraphAssumption, G!Vertices
<1>8. G!Reading(current_page_cells_).row = layout_row /\ ReadAll = LaidOut
  BY <1>1, <1>7 DEF PagesInv, PagesRead
<1>9. /\ Page(page) /\ Len(page) + 2 <= ele_per_page /\ G!EdgesOf(page) = G!EdgesOf(PutPage)
      /\ G!Reading(page).row = layout_row
  <2>1. CASE PutPage = <<>>
    <3>1. page = PutPage \o G!Head1(layout_row)
      BY <1>2, <2>1 DEF G!WithHead
    <3>2. /\ Page(page) /\ Len(page) = Len(PutPage) + 2 /\ G!EdgesOf(page) = G!EdgesOf(PutPage)
          /\ G!Reading(page).row = layout_row
      BY <1>3, <1>4, <3>1, HeadRead
    <3>3. Len(PutPage) = 0 /\ ele_per_page \in Nat
      BY <2>1, PageEmpty DEF PagesInv, PagesType
    <3>. QED
      BY <1>3, <2>1, <3>2, <3>3
  <2>2. CASE PutPage # <<>>
    <3>1. page = PutPage /\ PutPage = current_page_cells_
      BY <1>2, <1>3, <2>2 DEF G!WithHead
    <3>. QED
      BY <1>3, <1>8, <3>1
  <2>. QED
    BY <2>1, <2>2
<1>10. PICK next : next = page \o G!Edge1(c)
  OBVIOUS
<1>11. /\ current_page_cells_' = next /\ Page(next) /\ Len(next) = Len(page) + 2
       /\ G!EdgesOf(next) = Append(G!EdgesOf(PutPage), <<layout_row, c>>) /\ G!Reading(next).row = layout_row
  BY <1>1, <1>2, <1>7, <1>9, <1>10, EdgeRead
<1>12. PagesType'
  <2>1. r_adj' \in Lists /\ ele_per_page' \in Nat
    BY <1>1 DEF PagesInv, PagesType
  <2>2. layout_col' \in Int /\ layout_col' >= -1 /\ layout_col' <= n /\ n = Len(r_adj'[layout_row'])
    BY <1>1, <1>5, <1>6, <1>7
  <2>3. layout_row' \in 0..graph_num_vertex /\ layout_row' # graph_num_vertex /\ load_pc' = "layout"
    BY <1>1, <1>4
  <2>4. Page(current_page_cells_)' /\ AllPages(edge_pages_)'
    BY <1>1, <1>3, <1>11
  <2>. QED
    BY <2>1, <2>2, <2>3, <2>4 DEF PagesType
<1>13. PagesSize'
  BY <1>1, <1>3, <1>9, <1>11 DEF PagesInv, PagesSize
\* The edge comes behind all that can be read, and is the next of its row.
<1>14. ReadAll' = Append(ReadAll, <<layout_row, c>>)
  <2>1. ReadAll' = EdgesRead(PutPages) \o Append(G!EdgesOf(PutPage), <<layout_row, c>>)
    BY <1>1, <1>11 DEF ReadAll
  <2>2. PICK E, s, t, e : E = Int \X Int /\ s = EdgesRead(PutPages) /\ t = G!EdgesOf(PutPage)
                          /\ e = <<layout_row, c>>
    OBVIOUS
  <2>3. s \in Seq(E) /\ t \in Seq(E) /\ e \in E
    <3>1. G!EdgesOf(PutPage) \in EdgeSeqs
      BY <1>3, PageRead
    <3>. QED
      BY <1>3, <1>4, <1>7, <2>2, <3>1 DEF EdgeSeqs
  <2>4. s \o Append(t, e) = Append(s \o t, e)
    BY <2>3, ConcatAppend
  <2>. QED
    BY <1>3, <2>1, <2>2, <2>4
<1>15. LaidOut' = Append(LaidOut, <<layout_row, c>>)
  <2>1. PICK r, f, e : /\ r = RowOf(r_adj, layout_row) /\ f = G!FlattenSeq(G!RowsOf(r_adj, layout_row))
                       /\ e = <<layout_row, c>>
    OBVIOUS
  <2>2. r_adj \in Lists
    BY DEF PagesInv, PagesType
  <2>3. r \in Seq(Links) /\ Len(r) = n
    BY <1>1, <1>5, <2>1, <2>2, RowIs
  <2>4. f \in Seq(Links)
    BY <1>4, <2>1, <2>2, RowsMore
  <2>5. r[layout_col + 1] = e
    BY <1>5, <1>6, <1>7, <2>1 DEF RowOf
  <2>6. PICK s, t : s = SubSeq(r, 1, layout_col) /\ t = SubSeq(r, 1, layout_col + 1)
    OBVIOUS
  <2>7. e \in Links
    BY <1>1, <1>7, <2>1 DEF Links
  <2>8. s \in Seq(Links) /\ t = Append(s, e)
    <3>1. /\ 1 \in 1..Len(r) /\ layout_col + 1 \in 1..Len(r) /\ (layout_col + 1) - 1 = layout_col
      BY <1>6, <1>7, <2>3
    <3>2. t = s \o <<r[layout_col + 1]>>
      BY <2>3, <2>6, <3>1, SubSeqRecursiveSecond
    <3>3. s \in Seq(Links)
      <4>1. \A at \in 1..layout_col : r[at] \in Links
        BY <1>6, <1>7, <2>3
      <4>2. 1 \in Int
        OBVIOUS
      <4>. QED
        BY <1>7, <2>6, <4>1, <4>2, SubSeqProperties
    <3>4. s \o <<e>> = Append(s, e)
      BY <2>7, <3>3
    <3>. QED
      BY <2>5, <3>2, <3>3, <3>4
  <2>9. f \o Append(s, e) = Append(f \o s, e)
    BY <2>4, <2>7, <2>8, ConcatAppend
  <2>10. LaidOut' = G!FlattenSeq(G!RowsOf(r_adj', layout_row'))
                    \o SubSeq(RowOf(r_adj', layout_row'), 1, layout_col')
    BY DEF LaidOut
  <2>. QED
    BY <1>1, <2>1, <2>6, <2>8, <2>9, <2>10 DEF LaidOut
<1>16. PagesRead'
  <2>1. G!Reading(current_page_cells_)'.row = layout_row'
    BY <1>1, <1>11
  <2>. QED
    BY <1>1, <1>8, <1>14, <1>15, <2>1 DEF PagesRead
<1>. QED
  BY <1>12, <1>13, <1>16 DEF PagesInv

\* NextRow: all of the row was laid out.
LEMMA NextRowKeeps == ASSUME PagesInv, G!NextRow PROVE PagesInv'
<1>1. /\ load_pc = "layout" /\ load_pc' = "layout"
      /\ layout_row \in G!Vertices /\ layout_col = Len(r_adj[layout_row])
      /\ layout_row' = layout_row + 1 /\ layout_col' = -1
      /\ UNCHANGED <<r_adj, ele_per_page, current_page_cells_, edge_pages_>>
  BY DEF G!NextRow, G!rawVars
<1>2. /\ graph_num_vertex \in Nat /\ layout_row \in Nat /\ layout_row < graph_num_vertex
      /\ layout_row \in 0..graph_num_vertex /\ layout_row + 1 \in 0..graph_num_vertex
  BY <1>1, CutsAssumption DEF G!GraphAssumption, G!Vertices
<1>3. r_adj \in Lists
  BY DEF PagesInv, PagesType
<1>4. PagesType'
  <2>1. layout_row + 1 < graph_num_vertex => Len(r_adj[layout_row + 1]) \in Nat
    <3>1. layout_row + 1 < graph_num_vertex => layout_row + 1 \in G!Vertices
      BY <1>2 DEF G!Vertices
    <3>. QED
      BY <1>3, <3>1 DEF Lists
  <2>2. Page(current_page_cells_)' /\ AllPages(edge_pages_)'
    BY <1>1 DEF PagesInv, PagesType
  <2>3. layout_row' < graph_num_vertex => layout_col' <= Len(r_adj'[layout_row'])
    BY <1>1, <2>1
  <2>4. /\ r_adj' \in Lists /\ ele_per_page' \in Nat /\ layout_row' \in 0..graph_num_vertex
        /\ layout_col' = -1 /\ load_pc' = "layout"
    BY <1>1, <1>2, <1>3 DEF PagesInv, PagesType
  <2>. QED
    BY <2>2, <2>3, <2>4 DEF PagesType
<1>5. PagesSize'
  BY <1>1 DEF PagesInv, PagesSize
<1>6. PagesRead'
  <2>1. ReadAll' = ReadAll /\ ReadAll = LaidOut
    BY <1>1 DEF PagesInv, PagesRead, ReadAll
  <2>2. PICK r, f : r = RowOf(r_adj, layout_row) /\ f = G!FlattenSeq(G!RowsOf(r_adj, layout_row))
    OBVIOUS
  <2>3. r \in Seq(Links) /\ Len(r) = layout_col
    BY <1>1, <1>3, <2>2, RowIs
  <2>4. SubSeq(r, 1, layout_col) = r
    BY <2>3, SubSeqFull
  <2>5. G!FlattenSeq(G!RowsOf(r_adj, layout_row + 1)) = f \o r
    BY <1>2, <1>3, <2>2, RowsMore
  <2>6. f \o r \in Seq(Links)
    <3>1. f \in Seq(Links)
      BY <1>2, <1>3, <2>2, RowsMore
    <3>. QED
      BY <2>3, <3>1
  <2>7. SubSeq(RowOf(r_adj, layout_row + 1), 1, -1) = <<>>
    BY SubSeqEmpty
  <2>8. (f \o r) \o <<>> = f \o r
    <3>1. PICK s : s = f \o r
      OBVIOUS
    <3>. QED
      BY <2>6, <3>1
  <2>9. LaidOut' = G!FlattenSeq(G!RowsOf(r_adj', layout_row'))
                   \o SubSeq(RowOf(r_adj', layout_row'), 1, layout_col')
    BY DEF LaidOut
  <2>10. LaidOut' = f \o r
    BY <1>1, <2>5, <2>7, <2>8, <2>9
  <2>11. LaidOut = f \o r
    BY <2>2, <2>4 DEF LaidOut
  <2>. QED
    BY <1>1, <2>1, <2>10, <2>11 DEF PagesRead
<1>. QED
  BY <1>4, <1>5, <1>6 DEF PagesInv

\* Sentinel: the last page is put away with nothing lost.
LEMMA SentinelKeeps == ASSUME PagesInv, G!Sentinel PROVE PagesInv'
<1>1. /\ load_pc = "layout" /\ load_pc' = "pages"
      /\ layout_row = graph_num_vertex /\ current_page_cells_' = <<>>
      /\ UNCHANGED <<r_adj, layout_row, layout_col, ele_per_page>>
  BY DEF G!Sentinel, G!rawVars
<1>2. PICK page, pages, last : page = PutPage /\ pages = PutPages /\ last = page \o G!Head1(-1)
  OBVIOUS
<1>3. /\ AllPages(pages) /\ Page(page)
      /\ \A p \in 1..Len(pages) : Len(pages[p]) = ele_per_page
      /\ EdgesRead(pages) \o G!EdgesOf(page) = ReadAll
  BY <1>1, <1>2, PutAway
<1>4. Page(last) /\ G!EdgesOf(last) = G!EdgesOf(page)
  BY <1>2, <1>3, HeadRead
<1>5. edge_pages_' = Append(pages, last)
  <2>1. G!WithHead(page, -1, TRUE) = last
    BY <1>2 DEF G!WithHead
  <2>2. edge_pages_' = edge_pages_ \o (IF G!PageFull THEN <<current_page_cells_>> ELSE <<>>) \o <<last>>
    BY <1>2, <2>1 DEF G!Sentinel, PutPage
  <2>3. edge_pages_ \in Seq(Cells) /\ current_page_cells_ \in Cells
    BY DEF PagesInv, PagesType, AllPages, Page
  <2>4. edge_pages_ \o (IF G!PageFull THEN <<current_page_cells_>> ELSE <<>>) = pages
    <3>1. CASE G!PageFull
      <4>1. pages = Append(edge_pages_, current_page_cells_)
        BY <1>2, <3>1 DEF PutPages
      <4>2. edge_pages_ \o <<current_page_cells_>> = Append(edge_pages_, current_page_cells_)
        BY <2>3
      <4>. QED
        BY <3>1, <4>1, <4>2
    <3>2. CASE ~G!PageFull
      <4>1. pages = edge_pages_
        BY <1>2, <3>2 DEF PutPages
      <4>2. edge_pages_ \o <<>> = edge_pages_
        BY <2>3
      <4>. QED
        BY <3>2, <4>1, <4>2
    <3>. QED
      BY <3>1, <3>2
  <2>5. pages \in Seq(Cells) /\ last \in Cells
    BY <1>3, <1>4 DEF AllPages, Page
  <2>6. pages \o <<last>> = Append(pages, last)
    BY <2>5
  <2>. QED
    BY <2>2, <2>4, <2>6
<1>6. AllPages(edge_pages_)' /\ EdgesRead(edge_pages_') = ReadAll
  <2>1. /\ AllPages(Append(pages, last))
        /\ EdgesRead(Append(pages, last)) = EdgesRead(pages) \o G!EdgesOf(last)
    BY <1>3, <1>4, PagesMore
  <2>. QED
    BY <1>3, <1>4, <1>5, <2>1
<1>7. PagesType'
  <2>1. Page(current_page_cells_)'
    BY <1>1, PageEmpty
  <2>. QED
    BY <1>1, <1>6, <2>1 DEF PagesInv, PagesType
<1>8. PagesSize'
  <2>1. Len(current_page_cells_') = 0 /\ ele_per_page' \in Nat
    BY <1>1, PageEmpty DEF PagesInv, PagesType
  <2>2. PICK n, more : n = Len(pages) /\ more = Append(pages, last)
    OBVIOUS
  <2>3. pages \in Seq(Cells) /\ last \in Cells
    BY <1>3, <1>4 DEF AllPages, Page
  <2>4. n \in Nat /\ Len(more) = n + 1 /\ \A k \in 1..n : more[k] = pages[k]
    BY <2>2, <2>3, AppendProperties
  <2>5. (n + 1) - 1 = n
    BY <2>4
  <2>6. \A p \in 1..(Len(more) - 1) : Len(more[p]) = ele_per_page
    BY <1>3, <2>2, <2>4, <2>5
  <2>. QED
    BY <1>1, <1>5, <2>1, <2>2, <2>6 DEF PagesSize
<1>9. PagesRead'
  <2>1. ReadAll = LaidOut /\ layout_col = -1 /\ r_adj \in Lists
    BY <1>1 DEF PagesInv, PagesType, PagesRead
  <2>2. SubSeq(RowOf(r_adj, layout_row), 1, -1) = <<>>
    BY SubSeqEmpty
  <2>3. PICK f : f = G!FlattenSeq(G!RowsOf(r_adj, layout_row))
    OBVIOUS
  <2>4. f \in Seq(Links)
    <3>1. layout_row \in 0..graph_num_vertex
      BY <1>1, CutsAssumption DEF G!GraphAssumption
    <3>. QED
      BY <2>1, <2>3, <3>1, RowsMore
  <2>5. f \o <<>> = f
    BY <2>4
  <2>6. LaidOut = f
    BY <2>1, <2>2, <2>3, <2>5 DEF LaidOut
  <2>7. G!DumpEdge(r_adj) = f
    BY <1>1, <2>3 DEF G!DumpEdge
  <2>8. G!DumpEdge(r_adj)' = G!DumpEdge(r_adj)
    BY <1>1
  <2>. QED
    BY <1>1, <1>6, <2>1, <2>6, <2>7, <2>8 DEF PagesRead
<1>. QED
  BY <1>7, <1>8, <1>9 DEF PagesInv

\* Nothing is laid out by the functions before.
LEMMA BeforeLayout ==
  ASSUME PagesInv, load_pc \notin {"layout", "pages"}, load_pc' \notin {"layout", "pages"}, r_adj' \in Lists,
         UNCHANGED G!layoutVars
  PROVE  PagesInv'
<1>1. /\ layout_row = 0 /\ layout_col = -1
      /\ UNCHANGED <<ele_per_page, layout_row, layout_col, current_page_cells_, edge_pages_>>
  BY DEF PagesInv, PagesType, G!layoutVars
<1>2. graph_num_vertex \in Nat \ {0} /\ 0 \in G!Vertices
  BY CutsAssumption DEF G!GraphAssumption, G!Vertices
<1>3. Len(r_adj'[0]) \in Nat
  BY <1>2 DEF Lists
<1>4. /\ Page(current_page_cells_)' /\ AllPages(edge_pages_)' /\ ele_per_page' \in Nat
      /\ current_page_cells_' = <<>>
  BY <1>1 DEF PagesInv, PagesType
<1>5. PagesType'
  BY <1>1, <1>2, <1>3, <1>4 DEF PagesType
<1>6. PagesSize'
  BY <1>1 DEF PagesInv, PagesSize
<1>. QED
  BY <1>5, <1>6 DEF PagesInv, PagesRead

\* So every step keeps the pages.
LEMMA PagesKeep == ASSUME PagesInv, KeptInv', [G!Next]_(G!vars) PROVE PagesInv'
<1>0. r_adj' \in Lists
  BY DEF KeptInv, KeptType
<1>1. CASE G!LoadGraph \/ G!GetGcnNormGraph \/ G!GetSampleGraph \/ G!LoadSampleGraph
  BY <1>0, <1>1, BeforeLayout DEF G!LoadGraph, G!GetGcnNormGraph, G!GetSampleGraph, G!LoadSampleGraph
<1>2. CASE G!Reorder \/ G!HashGraph \/ G!SelfLoopLess \/ G!ToUndirected \/ G!CountEdges
  BY <1>0, <1>2, BeforeLayout DEF G!Reorder, G!HashGraph, G!SelfLoopLess, G!ToUndirected, G!CountEdges
<1>3. CASE UNCHANGED G!vars
  <2>1. UNCHANGED <<load_pc, r_adj, ele_per_page, layout_row, layout_col, current_page_cells_, edge_pages_>>
    BY <1>3 DEF G!vars, G!rawVars, G!layoutVars
  <2>2. PagesType' <=> PagesType
    BY <2>1 DEF PagesType
  <2>3. PagesSize' <=> PagesSize
    BY <2>1 DEF PagesSize
  <2>4. PagesRead' <=> PagesRead
    BY <2>1 DEF PagesRead, ReadAll, LaidOut
  <2>. QED
    BY <2>2, <2>3, <2>4 DEF PagesInv
<1>. QED
  BY <1>1, <1>2, <1>3, LayoutKeeps, FillRowKeeps, FillEdgeKeeps, NextRowKeeps, SentinelKeeps
     DEF G!Next

\* What is on the pages, put away and at hand, is what was laid out so far.
THEOREM PagesInvariance == G!SafeSpec => []PagesInv
<1>1. KeptInv /\ PagesInv /\ [G!Next]_(G!vars) => KeptInv' /\ PagesInv'
  BY KeptKeeps, PagesKeep
<1>2. G!Init => KeptInv /\ PagesInv
  BY KeptBegins, PagesBegin
<1>. QED
  BY <1>1, <1>2, PTL DEF G!SafeSpec

\* EdgeCompress loses no edge: its pages, read one by one, give the edges of the graph in
\* their order, each with its row, although pages end within rows; and no page grows
\* past its end.
THEOREM GraphPages == G!SafeSpec => []PagesDecode
<1>1. ASSUME PagesInv PROVE PagesDecode
  BY <1>1 DEF PagesInv, PagesSize, PagesRead, EdgesRead, PagesDecode, G!PagesDecode
<1>. QED
  BY <1>1, PagesInvariance, PTL

-----------------------------------------------------------------------------
(* Powers of two, and the logarithm.                                        *)

\* Doubled from number to number, up to n.
Doubling(f, n) ==
  /\ f \in [0..n -> Nat] /\ f[0] = 1
  /\ \A k \in 1..n : f[k] = 2 * f[k - 1]

\* A set of numbers with 0, and with the next of each, has all.
LEMMA Upward ==
  ASSUME NEW S \in SUBSET Nat, 0 \in S, \A k \in Nat : k \in S => k + 1 \in S
  PROVE  S = Nat
<1>. DEFINE T == Nat \ S
<1>1. T \in SUBSET Nat /\ 0 \notin T /\ \A k \in Nat : k + 1 \in T => k \in T
  OBVIOUS
<1>2. T = {}
  <2>. HIDE DEF T
  <2>. QED
    BY <1>1, Climb
<1>. QED
  BY <1>2

\* Up to every number there is such a function,
LEMMA DoublingExists ==
  \A n \in Nat : \E f : Doubling(f, n)
<1>. DEFINE S == {n \in Nat : \E f : Doubling(f, n)}
<1>1. 0 \in S
  <2>. DEFINE f == [k \in 0..0 |-> 1]
  <2>1. f \in [0..0 -> Nat] /\ f[0] = 1
    OBVIOUS
  <2>. HIDE DEF f
  <2>2. Doubling(f, 0)
    BY <2>1 DEF Doubling
  <2>. QED
    BY <2>2
<1>2. ASSUME NEW k \in Nat, k \in S PROVE k + 1 \in S
  <2>1. PICK f : Doubling(f, k)
    BY <1>2
  <2>2. f \in [0..k -> Nat] /\ f[0] = 1 /\ \A j \in 1..k : f[j] = 2 * f[j - 1]
    BY <2>1 DEF Doubling
  <2>. DEFINE g == [j \in 0..(k + 1) |-> IF j = k + 1 THEN 2 * f[k] ELSE f[j]]
  <2>3. f[k] \in Nat /\ k \in 0..k
    BY <2>2
  <2>4. g \in [0..(k + 1) -> Nat]
    <3>1. ASSUME NEW j \in 0..(k + 1)
          PROVE  (IF j = k + 1 THEN 2 * f[k] ELSE f[j]) \in Nat
      <4>1. j # k + 1 => j \in 0..k
        OBVIOUS
      <4>. QED
        BY <2>2, <2>3, <4>1
    <3>. QED
      BY <3>1
  <2>5. g[0] = 1
    BY <2>2
  <2>6. ASSUME NEW j \in 1..(k + 1) PROVE g[j] = 2 * g[j - 1]
    <3>1. j - 1 \in 0..k /\ j - 1 # k + 1 /\ j - 1 \in 0..(k + 1) /\ j \in 0..(k + 1)
      OBVIOUS
    <3>2. g[j - 1] = f[j - 1]
      BY <3>1
    <3>3. CASE j = k + 1
      BY <3>1, <3>2, <3>3
    <3>4. CASE j # k + 1
      <4>1. j \in 1..k
        BY <3>4
      <4>2. f[j] = 2 * f[j - 1]
        BY <2>2, <4>1
      <4>. QED
        BY <3>1, <3>2, <3>4, <4>2
    <3>. QED
      BY <3>3, <3>4
  <2>. HIDE DEF g
  <2>7. Doubling(g, k + 1)
    BY <2>4, <2>5, <2>6 DEF Doubling
  <2>. QED
    BY <2>7
<1>3. S = Nat
  <2>1. S \in SUBSET Nat
    OBVIOUS
  <2>. HIDE DEF S
  <2>. QED
    BY <1>1, <1>2, <2>1, Upward
<1>. QED
  BY <1>3

\* and two of them agree as far as both go.
LEMMA DoublingUnique ==
  ASSUME NEW m \in Nat, NEW n \in Nat, NEW f, NEW g, Doubling(f, m), Doubling(g, n)
  PROVE  \A k \in Nat : k <= m /\ k <= n => f[k] = g[k]
<1>. DEFINE S == {k \in Nat : k <= m /\ k <= n => f[k] = g[k]}
<1>1. 0 \in S
  BY DEF Doubling
<1>2. ASSUME NEW k \in Nat, k \in S PROVE k + 1 \in S
  <2>. SUFFICES ASSUME k + 1 <= m, k + 1 <= n PROVE f[k + 1] = g[k + 1]
    OBVIOUS
  <2>1. k + 1 \in 1..m /\ k + 1 \in 1..n /\ (k + 1) - 1 = k
    OBVIOUS
  <2>2. f[k + 1] = 2 * f[k] /\ g[k + 1] = 2 * g[k]
    BY <2>1 DEF Doubling
  <2>3. f[k] = g[k]
    BY <1>2
  <2>. QED
    BY <2>2, <2>3
<1>3. S = Nat
  <2>1. S \in SUBSET Nat
    OBVIOUS
  <2>. HIDE DEF S
  <2>. QED
    BY <1>1, <1>2, <2>1, Upward
<1>. QED
  BY <1>3

\* TwoTo is doubled from number to number.
LEMMA TwoToIs ==
  /\ M!TwoTo[0] = 1
  /\ \A n \in Nat : M!TwoTo[n] \in Nat \ {0} /\ M!TwoTo[n + 1] = 2 * M!TwoTo[n]
<1>. DEFINE Upto(n) == CHOOSE f : Doubling(f, n)
            Power == [n \in Nat |-> Upto(n)[n]]
<1>1. \A n \in Nat : Doubling(Upto(n), n)
  BY DoublingExists
<1>. HIDE DEF Upto
<1>2. \A n \in Nat : Power[n] \in Nat
  BY <1>1 DEF Doubling
<1>3. Power[0] = 1
  BY <1>1 DEF Doubling
<1>4. ASSUME NEW n \in Nat, n # 0 PROVE Power[n] = 2 * Power[n - 1]
  <2>1. n - 1 \in Nat /\ n \in 1..n /\ n - 1 <= n
    BY <1>4
  <2>2. Upto(n)[n] = 2 * Upto(n)[n - 1]
    BY <1>1, <2>1 DEF Doubling
  <2>3. Doubling(Upto(n), n) /\ Doubling(Upto(n - 1), n - 1)
    BY <1>1, <2>1
  <2>4. Upto(n)[n - 1] = Upto(n - 1)[n - 1]
    BY <2>1, <2>3, DoublingUnique
  <2>. QED
    BY <2>1, <2>2, <2>4
<1>5. Power = [n \in Nat |-> IF n = 0 THEN 1 ELSE 2 * Power[n - 1]]
  <2>1. \A n \in Nat : Power[n] = IF n = 0 THEN 1 ELSE 2 * Power[n - 1]
    BY <1>3, <1>4
  <2>2. Power = [n \in Nat |-> Power[n]]
    OBVIOUS
  <2>. HIDE DEF Power
  <2>. QED
    BY <2>1, <2>2
<1>. HIDE DEF Power
<1>6. M!TwoTo = [n \in Nat |-> IF n = 0 THEN 1 ELSE 2 * M!TwoTo[n - 1]]
  <2>1. M!TwoTo = CHOOSE f : f = [n \in Nat |-> IF n = 0 THEN 1 ELSE 2 * f[n - 1]]
    BY DEF M!TwoTo
  <2>. QED
    BY <1>5, <2>1
<1>7. M!TwoTo[0] = 1 /\ \A n \in Nat : n # 0 => M!TwoTo[n] = 2 * M!TwoTo[n - 1]
  BY <1>6
<1>8. ASSUME NEW n \in Nat PROVE M!TwoTo[n + 1] = 2 * M!TwoTo[n]
  <2>1. n + 1 \in Nat /\ n + 1 # 0 /\ (n + 1) - 1 = n
    OBVIOUS
  <2>. QED
    BY <1>7, <2>1
<1>. DEFINE S == {n \in Nat : M!TwoTo[n] \in Nat \ {0}}
<1>9. 0 \in S /\ \A k \in Nat : k \in S => k + 1 \in S
  <2>1. \A k \in Nat : M!TwoTo[k] \in Nat \ {0} => 2 * M!TwoTo[k] \in Nat \ {0}
    OBVIOUS
  <2>. QED
    BY <1>7, <1>8, <2>1
<1>10. S = Nat
  <2>1. S \in SUBSET Nat
    OBVIOUS
  <2>. HIDE DEF S
  <2>. QED
    BY <1>9, <2>1, Upward
<1>. QED
  BY <1>7, <1>8, <1>10

\* What is put behind another number of bits is multiplied.
LEMMA TwoToPlus ==
  ASSUME NEW m \in Nat
  PROVE  \A n \in Nat : M!TwoTo[m + n] = M!TwoTo[m] * M!TwoTo[n]
<1>. DEFINE S == {n \in Nat : M!TwoTo[m + n] = M!TwoTo[m] * M!TwoTo[n]}
<1>1. 0 \in S
  <2>1. m + 0 = m /\ M!TwoTo[0] = 1 /\ M!TwoTo[m] \in Nat
    BY TwoToIs
  <2>. QED
    BY <2>1
<1>2. ASSUME NEW k \in Nat, k \in S PROVE k + 1 \in S
  <2>1. m + (k + 1) = (m + k) + 1 /\ m + k \in Nat
    OBVIOUS
  <2>2. M!TwoTo[m + (k + 1)] = 2 * M!TwoTo[m + k] /\ M!TwoTo[k + 1] = 2 * M!TwoTo[k]
    BY <2>1, TwoToIs
  <2>3. PICK x \in Nat, y \in Nat : x = M!TwoTo[m] /\ y = M!TwoTo[k]
    BY TwoToIs
  <2>4. 2 * (x * y) = x * (2 * y)
    OBVIOUS
  <2>. QED
    BY <1>2, <2>2, <2>3, <2>4
<1>3. S = Nat
  <2>1. S \in SUBSET Nat
    OBVIOUS
  <2>. HIDE DEF S
  <2>. QED
    BY <1>1, <1>2, <2>1, Upward
<1>. QED
  BY <1>3

\* More bits, a larger number.
LEMMA TwoToGrows ==
  ASSUME NEW m \in Nat, NEW n \in Nat, m <= n
  PROVE  M!TwoTo[m] <= M!TwoTo[n]
<1>1. n - m \in Nat /\ m + (n - m) = n
  OBVIOUS
<1>2. M!TwoTo[n] = M!TwoTo[m] * M!TwoTo[n - m]
  BY <1>1, TwoToPlus
<1>3. PICK x \in Nat, y \in Nat \ {0} : x = M!TwoTo[m] /\ y = M!TwoTo[n - m]
  BY <1>1, TwoToIs
<1>4. 1 * x <= y * x /\ y * x = x * y /\ 1 * x = x
  BY TimesGrows
<1>. QED
  BY <1>2, <1>3, <1>4

\* No number reaches its power.
LEMMA TwoToAbove == \A n \in Nat : n < M!TwoTo[n]
<1>. DEFINE S == {n \in Nat : n < M!TwoTo[n]}
<1>1. 0 \in S
  BY TwoToIs
<1>2. ASSUME NEW k \in Nat, k \in S PROVE k + 1 \in S
  <2>1. M!TwoTo[k] \in Nat /\ k < M!TwoTo[k] /\ M!TwoTo[k + 1] = 2 * M!TwoTo[k]
    BY <1>2, TwoToIs
  <2>. QED
    BY <2>1
<1>3. S = Nat
  <2>1. S \in SUBSET Nat
    OBVIOUS
  <2>. HIDE DEF S
  <2>. QED
    BY <1>1, <1>2, <2>1, Upward
<1>. QED
  BY <1>3

\* The logarithm is that of the largest power that is no larger,
LEMMA LogIs ==
  ASSUME NEW n \in Nat \ {0}
  PROVE  /\ M!LogBase2(n) \in Nat
         /\ M!TwoTo[M!LogBase2(n)] <= n /\ n < M!TwoTo[M!LogBase2(n) + 1]
<1>. DEFINE S == {k \in Nat : n < M!TwoTo[k + 1]}
<1>1. n \in S
  <2>1. n < M!TwoTo[n] /\ M!TwoTo[n] <= M!TwoTo[n + 1] /\ M!TwoTo[n] \in Nat /\ M!TwoTo[n + 1] \in Nat
    BY TwoToAbove, TwoToGrows, TwoToIs
  <2>. QED
    BY <2>1
<1>2. PICK m \in S : \A k \in S : m <= k
  <2>1. S \in SUBSET Nat /\ S # {}
    BY <1>1
  <2>. HIDE DEF S
  <2>. QED
    BY <2>1, Smallest
<1>3. m \in 0..n
  BY <1>1, <1>2
<1>4. M!TwoTo[m] <= n
  <2>1. CASE m = 0
    BY <2>1, TwoToIs
  <2>2. CASE m # 0
    <3>1. m - 1 \in Nat /\ m - 1 \notin S /\ (m - 1) + 1 = m
      BY <1>2, <2>2
    <3>2. M!TwoTo[m] \in Nat
      BY TwoToIs
    <3>. QED
      BY <3>1, <3>2
  <2>. QED
    BY <2>1, <2>2
<1>5. \E k \in 0..n : M!TwoTo[k] <= n /\ n < M!TwoTo[k + 1]
  BY <1>2, <1>3, <1>4
<1>6. PICK l : l = M!LogBase2(n)
  OBVIOUS
<1>7. l \in 0..n /\ M!TwoTo[l] <= n /\ n < M!TwoTo[l + 1]
  BY <1>5, <1>6 DEF M!LogBase2
<1>. QED
  BY <1>6, <1>7

\* and there is one only.
LEMMA LogUnique ==
  ASSUME NEW n \in Nat \ {0}, NEW k \in Nat, M!TwoTo[k] <= n, n < M!TwoTo[k + 1]
  PROVE  M!LogBase2(n) = k
<1>1. PICK l \in Nat : l = M!LogBase2(n) /\ M!TwoTo[l] <= n /\ n < M!TwoTo[l + 1]
  BY LogIs
<1>2. M!TwoTo[l] \in Nat /\ M!TwoTo[k] \in Nat /\ M!TwoTo[l + 1] \in Nat /\ M!TwoTo[k + 1] \in Nat
  BY TwoToIs
<1>3. ASSUME l < k PROVE FALSE
  <2>1. l + 1 \in Nat /\ l + 1 <= k
    BY <1>3
  <2>2. M!TwoTo[l + 1] <= M!TwoTo[k]
    BY <2>1, TwoToGrows
  <2>. QED
    BY <1>1, <1>2, <2>2
<1>4. ASSUME k < l PROVE FALSE
  <2>1. k + 1 \in Nat /\ k + 1 <= l
    BY <1>4
  <2>2. M!TwoTo[k + 1] <= M!TwoTo[l]
    BY <2>1, TwoToGrows
  <2>. QED
    BY <1>1, <1>2, <2>2
<1>. QED
  BY <1>1, <1>3, <1>4

\* A larger number has no smaller logarithm.
LEMMA LogGrows ==
  ASSUME NEW m \in Nat \ {0}, NEW n \in Nat \ {0}, m <= n
  PROVE  M!LogBase2(m) <= M!LogBase2(n)
<1>1. PICK k \in Nat : k = M!LogBase2(m) /\ M!TwoTo[k] <= m
  BY LogIs
<1>2. PICK l \in Nat : l = M!LogBase2(n) /\ n < M!TwoTo[l + 1]
  BY LogIs
<1>3. ASSUME l < k PROVE FALSE
  <2>1. l + 1 \in Nat /\ l + 1 <= k
    BY <1>3
  <2>2. M!TwoTo[l + 1] <= M!TwoTo[k] /\ M!TwoTo[l + 1] \in Nat /\ M!TwoTo[k] \in Nat
    BY <2>1, TwoToGrows, TwoToIs
  <2>. QED
    BY <1>1, <1>2, <2>2
<1>. QED
  BY <1>1, <1>2, <1>3

\* The logarithm of what is shifted to the left.
LEMMA LogOfShifted ==
  ASSUME NEW n \in Nat \ {0}, NEW k \in Nat
  PROVE  M!LogBase2(n * M!TwoTo[k]) = M!LogBase2(n) + k
<1>1. PICK l \in Nat : l = M!LogBase2(n) /\ M!TwoTo[l] <= n /\ n < M!TwoTo[l + 1]
  BY LogIs
<1>2. PICK x \in Nat, y \in Nat, p \in Nat \ {0} :
        x = M!TwoTo[l] /\ y = M!TwoTo[l + 1] /\ p = M!TwoTo[k]
  <2>1. M!TwoTo[l] \in Nat /\ M!TwoTo[l + 1] \in Nat /\ M!TwoTo[k] \in Nat \ {0}
    BY TwoToIs
  <2>. QED
    BY <2>1
<1>3. M!TwoTo[l + k] = x * p /\ M!TwoTo[(l + k) + 1] = y * p
  <2>1. (l + k) + 1 = (l + 1) + k /\ l + 1 \in Nat
    OBVIOUS
  <2>2. M!TwoTo[l + k] = M!TwoTo[l] * M!TwoTo[k]
    BY TwoToPlus
  <2>3. M!TwoTo[(l + 1) + k] = M!TwoTo[l + 1] * M!TwoTo[k]
    BY <2>1, TwoToPlus
  <2>. QED
    BY <1>2, <2>1, <2>2, <2>3
<1>4. x * p <= n * p
  BY <1>1, <1>2, TimesGrows
<1>5. n * p < y * p
  <2>1. (n + 1) * p <= y * p
    BY <1>1, <1>2, TimesGrows
  <2>2. (n + 1) * p = n * p + p /\ n * p \in Nat /\ y * p \in Nat
    OBVIOUS
  <2>. QED
    BY <2>1, <2>2
<1>6. n * p \in Nat \ {0}
  <2>1. 1 * p <= n * p /\ n * p \in Nat
    BY TimesGrows
  <2>. QED
    BY <2>1
<1>7. l + k \in Nat
  OBVIOUS
<1>8. M!LogBase2(n * p) = l + k
  BY <1>3, <1>4, <1>5, <1>6, <1>7, LogUnique
<1>. QED
  BY <1>1, <1>2, <1>8

\* The logarithm of a power.
LEMMA LogOfPower ==
  ASSUME NEW n, M!IsPowerOfTwo(n)
  PROVE  n \in Nat \ {0} /\ M!LogBase2(n) \in Nat /\ n = M!TwoTo[M!LogBase2(n)]
<1>1. PICK k \in 0..n : n = M!TwoTo[k]
  BY DEF M!IsPowerOfTwo
<1>2. k \in Nat
  OBVIOUS
<1>3. n \in Nat \ {0} /\ M!TwoTo[k + 1] = 2 * M!TwoTo[k]
  BY <1>1, <1>2, TwoToIs
<1>4. M!LogBase2(n) = k
  <2>1. M!TwoTo[k] <= n /\ n < M!TwoTo[k + 1]
    BY <1>1, <1>3
  <2>. QED
    BY <1>2, <1>3, <2>1, LogUnique
<1>. QED
  BY <1>1, <1>2, <1>3, <1>4

-----------------------------------------------------------------------------
(* The bits of a number.                                                    *)

\* The quotient is known by its bounds.
LEMMA QuotientIs ==
  ASSUME NEW n \in Nat, NEW m \in Nat \ {0}, NEW q \in Nat, q * m <= n, n < q * m + m
  PROVE  n \div m = q
<1>1. PICK d \in Nat : d = n \div m /\ d * m <= n /\ n < d * m + m
  BY DivIs
<1>2. (q + 1) * m = q * m + m /\ (d + 1) * m = d * m + m /\ q * m \in Nat /\ d * m \in Nat
  BY <1>1
<1>3. d < q + 1
  <2>1. d * m < (q + 1) * m
    BY <1>1, <1>2
  <2>. QED
    BY <1>1, <2>1, TimesLess
<1>4. q < d + 1
  <2>1. q * m < (d + 1) * m
    BY <1>1, <1>2
  <2>. QED
    BY <1>1, <2>1, TimesLess
<1>. QED
  BY <1>1, <1>3, <1>4

\* The remainder is what the quotient leaves.
LEMMA RemainderIs ==
  ASSUME NEW n \in Nat, NEW m \in Nat \ {0}
  PROVE  n % m \in 0..(m - 1) /\ n = (n \div m) * m + (n % m)
<1>1. PICK d, r : d = n \div m /\ r = n % m
  OBVIOUS
<1>2. d \in Nat
  BY <1>1, DivIs
<1>3. r \in 0..(m - 1) /\ n = m * d + r
  BY <1>1
<1>4. m * d = d * m
  BY <1>2
<1>. QED
  BY <1>1, <1>3, <1>4

\* A number below another one is its own remainder.
LEMMA OwnRemainder ==
  ASSUME NEW n \in Nat, NEW m \in Nat \ {0}, n < m
  PROVE  n % m = n
<1>1. n \div m = 0
  <2>1. 0 * m = 0
    OBVIOUS
  <2>. QED
    BY <2>1, QuotientIs
<1>2. n = 0 * m + (n % m) /\ n % m \in Nat
  BY <1>1, RemainderIs
<1>. QED
  BY <1>2

\* k multiples of m put to l.
Multiplied(n, k, m, l) == n \div m = k + (l \div m) /\ n % m = l % m

\* Whole multiples are in the quotient and not in the remainder.
LEMMA MultipleAdded ==
  ASSUME NEW k \in Nat, NEW l \in Nat, NEW m \in Nat \ {0}, NEW n, n = k * m + l
  PROVE  Multiplied(n, k, m, l)
<1>1. PICK d \in Nat : d = l \div m /\ d * m <= l /\ l < d * m + m
  BY DivIs
<1>2. (k + d) * m = k * m + d * m /\ k * m \in Nat /\ d * m \in Nat
  BY <1>1
<1>3. n \in Nat
  BY <1>2
<1>4. n \div m = k + d
  <2>1. (k + d) * m <= n /\ n < (k + d) * m + m /\ k + d \in Nat
    BY <1>1, <1>2, <1>3
  <2>. QED
    BY <2>1, QuotientIs
<1>5. n % m \in Nat /\ l % m \in Nat
  BY <1>3, RemainderIs
<1>6. n = (k + d) * m + (n % m) /\ l = d * m + (l % m)
  BY <1>1, <1>3, <1>4, RemainderIs
<1>7. n % m = l % m
  BY <1>2, <1>3, <1>5, <1>6
<1>. QED
  BY <1>1, <1>3, <1>4, <1>7 DEF Multiplied

\* w bits from the bit p on.
Bits(x, p, w) == (x \div M!TwoTo[p]) % M!TwoTo[w]

\* Bits below q are those of what is left of a number below q.
LEMMA BitsBelow ==
  ASSUME NEW x \in Nat, NEW p \in Nat, NEW w \in Nat, NEW q \in Nat, p + w <= q
  PROVE  Bits(x % M!TwoTo[q], p, w) = Bits(x, p, w)
<1>1. M!TwoTo[p] \in Nat \ {0} /\ M!TwoTo[w] \in Nat \ {0} /\ M!TwoTo[q] \in Nat \ {0}
  BY TwoToIs
<1>2. PICK a \in Nat \ {0}, m \in Nat \ {0}, b \in Nat \ {0} :
        a = M!TwoTo[p] /\ m = M!TwoTo[w] /\ b = M!TwoTo[q]
  BY <1>1
<1>3. PICK c \in Nat : b = (c * m) * a
  <2>1. q - (p + w) \in Nat /\ p + w \in Nat /\ q = (p + w) + (q - (p + w))
    OBVIOUS
  <2>2. PICK c \in Nat : c = M!TwoTo[q - (p + w)]
    BY <2>1, TwoToIs
  <2>3. M!TwoTo[q] = M!TwoTo[p + w] * M!TwoTo[q - (p + w)]
    BY <2>1, TwoToPlus
  <2>4. M!TwoTo[p + w] = M!TwoTo[p] * M!TwoTo[w]
    BY TwoToPlus
  <2>5. b = (a * m) * c
    BY <1>2, <2>2, <2>3, <2>4
  <2>6. (a * m) * c = (c * m) * a
    OBVIOUS
  <2>. QED
    BY <2>5, <2>6
<1>4. PICK h \in Nat, l \in Nat : h = x \div b /\ l = x % b /\ x = h * b + l
  <2>1. x \div b \in Nat
    BY DivIs
  <2>2. x % b \in Nat /\ x = (x \div b) * b + (x % b)
    BY RemainderIs
  <2>. QED
    BY <2>1, <2>2
<1>5. h * b = ((h * c) * m) * a
  <2>1. h * ((c * m) * a) = ((h * c) * m) * a
    OBVIOUS
  <2>. QED
    BY <1>3, <2>1
<1>6. PICK g \in Nat : g = (h * c) * m
  OBVIOUS
<1>7. x = g * a + l
  BY <1>4, <1>5, <1>6
<1>8. x \div a = g + (l \div a) /\ l \div a \in Nat
  <2>1. Multiplied(x, g, a, l)
    BY <1>7, MultipleAdded
  <2>. QED
    BY <2>1, DivIs DEF Multiplied
<1>9. (g + (l \div a)) % m = (l \div a) % m
  <2>1. PICK k \in Nat, e \in Nat : k = h * c /\ e = l \div a
    BY <1>8
  <2>2. PICK n : n = k * m + e
    OBVIOUS
  <2>3. Multiplied(n, k, m, e)
    BY <2>2, MultipleAdded
  <2>. QED
    BY <1>6, <2>1, <2>2, <2>3 DEF Multiplied
<1>. QED
  BY <1>2, <1>4, <1>8, <1>9 DEF Bits

\* The highest bits of a number are what it is divided by the others.
LEMMA BitsOnTop ==
  ASSUME NEW p \in Nat, NEW w \in Nat, NEW x \in 0..(M!TwoTo[p + w] - 1)
  PROVE  /\ x \div M!TwoTo[p] \in Nat /\ x \div M!TwoTo[p] < M!TwoTo[w]
         /\ Bits(x, p, w) = x \div M!TwoTo[p]
<1>1. M!TwoTo[p] \in Nat \ {0} /\ M!TwoTo[w] \in Nat \ {0}
  BY TwoToIs
<1>2. PICK a \in Nat \ {0}, m \in Nat \ {0} : a = M!TwoTo[p] /\ m = M!TwoTo[w]
  BY <1>1
<1>3. M!TwoTo[p + w] = a * m
  BY <1>2, TwoToPlus
<1>4. a * m = m * a /\ a * m \in Nat
  OBVIOUS
<1>5. x \in Nat /\ x < m * a
  BY <1>3, <1>4
<1>6. PICK d \in Nat : d = x \div a /\ d * a <= x
  BY <1>5, DivIs
<1>7. d < m
  <2>1. d * a < m * a
    <3>1. d * a \in Nat /\ m * a \in Nat
      OBVIOUS
    <3>. QED
      BY <1>5, <1>6, <3>1
  <2>. QED
    BY <2>1, TimesLess
<1>8. d % m = d
  BY <1>7, OwnRemainder
<1>. QED
  BY <1>2, <1>6, <1>7, <1>8 DEF Bits

\* Fields at some bits tell the numbers of p bits apart.
TellApart(S, at, width, p) ==
  \A x, y \in 0..(M!TwoTo[p] - 1) :
    (\A f \in S : Bits(x, at[f], width[f]) = Bits(y, at[f], width[f])) => x = y

\* With one more field on top they tell more apart.
LEMMA OneMoreField ==
  ASSUME NEW S, NEW at, NEW width, NEW p \in Nat,
         \A f \in S : at[f] \in Nat /\ width[f] \in Nat /\ at[f] + width[f] <= p,
         TellApart(S, at, width, p),
         NEW t, NEW next, \A f \in S : next[f] = at[f], next[t] = p, width[t] \in Nat
  PROVE  TellApart(S \cup {t}, next, width, p + width[t])
<1>1. PICK w \in Nat : w = width[t]
  OBVIOUS
<1>2. SUFFICES ASSUME NEW x \in 0..(M!TwoTo[p + w] - 1), NEW y \in 0..(M!TwoTo[p + w] - 1),
                      \A f \in S \cup {t} :
                        Bits(x, next[f], width[f]) = Bits(y, next[f], width[f])
               PROVE  x = y
  BY <1>1 DEF TellApart
<1>3. p + w \in Nat /\ M!TwoTo[p + w] \in Nat /\ x \in Nat /\ y \in Nat /\ M!TwoTo[p] \in Nat \ {0}
  BY TwoToIs
<1>4. x \div M!TwoTo[p] = y \div M!TwoTo[p]
  <2>1. Bits(x, p, w) = Bits(y, p, w)
    BY <1>1, <1>2
  <2>2. Bits(x, p, w) = x \div M!TwoTo[p] /\ Bits(y, p, w) = y \div M!TwoTo[p]
    BY BitsOnTop
  <2>. QED
    BY <2>1, <2>2
<1>5. PICK a, b : a = x % M!TwoTo[p] /\ b = y % M!TwoTo[p]
  OBVIOUS
<1>6. /\ a \in 0..(M!TwoTo[p] - 1) /\ b \in 0..(M!TwoTo[p] - 1)
      /\ x = (x \div M!TwoTo[p]) * M!TwoTo[p] + a /\ y = (y \div M!TwoTo[p]) * M!TwoTo[p] + b
  BY <1>3, <1>5, RemainderIs
<1>7. ASSUME NEW f \in S
      PROVE  Bits(a, at[f], width[f]) = Bits(b, at[f], width[f])
  <2>1. /\ Bits(a, at[f], width[f]) = Bits(x, at[f], width[f])
        /\ Bits(b, at[f], width[f]) = Bits(y, at[f], width[f])
    <3>1. at[f] \in Nat /\ width[f] \in Nat /\ at[f] + width[f] <= p
      OBVIOUS
    <3>. QED
      BY <1>3, <1>5, <3>1, BitsBelow
  <2>2. Bits(x, at[f], width[f]) = Bits(y, at[f], width[f])
    BY <1>2
  <2>. QED
    BY <2>1, <2>2
<1>8. a = b
  BY <1>6, <1>7 DEF TellApart
<1>. QED
  BY <1>4, <1>6, <1>8

-----------------------------------------------------------------------------
(* The sizes.                                                               *)

\* A division without a remainder.
LEMMA Exactly ==
  ASSUME NEW n \in Nat \ {0}, NEW m \in Nat \ {0}, n % m = 0
  PROVE  n \div m \in Nat \ {0} /\ (n \div m) * m = n
<1>1. PICK d \in Nat : d = n \div m
  BY DivIs
<1>2. n = d * m + 0 /\ d * m \in Nat
  BY <1>1, RemainderIs
<1>3. d # 0
  <2>1. 0 * m = 0
    OBVIOUS
  <2>. QED
    BY <1>2, <2>1
<1>. QED
  BY <1>1, <1>2, <1>3

\* Numbers from one on have a product from one on.
LEMMA ProductIs ==
  ASSUME NEW a \in Nat \ {0}, NEW b \in Nat \ {0}
  PROVE  a * b \in Nat \ {0}
<1>1. 1 * b <= a * b /\ a * b \in Nat
  BY TimesGrows
<1>. QED
  BY <1>1

\* What is read of the structure.
Columns == config.columns
Bytes == config.device_width \div 8          \* of a device
KiloRows == config.rows \div Kilo
Devices == config.bus_width \div config.device_width
BusBytes == config.bus_width \div 8

\* The numbers of the structure.
LEMMA Structured ==
  ASSUME config \in Structures
  PROVE  /\ config.channels \in Nat \ {0} /\ config.bankgroups \in Nat \ {0}
         /\ config.banks_per_group \in Nat \ {0} /\ config.rows \in Nat \ {0}
         /\ config.columns \in Nat \ {0} /\ config.device_width \in Nat \ {0}
         /\ config.bus_width \in Nat \ {0} /\ config.BL \in Nat \ {0}
         /\ config.channel_size \in Nat \ {0} /\ Kilo \in Nat \ {0}
         /\ config.bus_width % config.device_width = 0 /\ config.device_width % 8 = 0
         /\ config.rows % Kilo = 0
         /\ (Columns * Bytes * KiloRows) % Kilo = 0
         /\ config.BL <= config.columns
  BY CutsAssumption DEF M!AddressMapAssumption, Columns, Bytes, KiloRows

\* What divides them leaves nothing.
LEMMA Divided ==
  ASSUME config \in Structures
  PROVE  /\ Columns \in Nat \ {0}
         /\ Bytes \in Nat \ {0} /\ Bytes * 8 = config.device_width
         /\ KiloRows \in Nat \ {0} /\ KiloRows * Kilo = config.rows
         /\ Devices \in Nat \ {0} /\ Devices * config.device_width = config.bus_width
         /\ BusBytes \in Nat \ {0} /\ BusBytes * 8 = config.bus_width
         /\ Devices * Bytes = BusBytes
<1>1. Columns \in Nat \ {0}
  BY Structured DEF Columns
<1>2. Bytes \in Nat \ {0} /\ Bytes * 8 = config.device_width
  <2>1. 8 \in Nat \ {0}
    OBVIOUS
  <2>. QED
    BY <2>1, Structured, Exactly DEF Bytes
<1>3. KiloRows \in Nat \ {0} /\ KiloRows * Kilo = config.rows
  BY Structured, Exactly DEF KiloRows
<1>4. Devices \in Nat \ {0} /\ Devices * config.device_width = config.bus_width
  BY Structured, Exactly DEF Devices
<1>5. (Devices * Bytes) * 8 = config.bus_width
  <2>1. PICK n \in Nat, b \in Nat : n = Devices /\ b = Bytes
    BY <1>2, <1>4
  <2>2. (n * b) * 8 = n * (b * 8)
    OBVIOUS
  <2>. QED
    BY <1>2, <1>4, <2>1, <2>2
<1>6. PICK e \in Nat \ {0} : e = Devices * Bytes
  BY <1>2, <1>4, ProductIs
<1>7. BusBytes = e
  <2>1. 8 \in Nat \ {0} /\ (e * 8) \div 8 = e
    OBVIOUS
  <2>. QED
    BY <1>5, <1>6, <2>1 DEF BusBytes
<1>. QED
  BY <1>1, <1>2, <1>3, <1>4, <1>5, <1>6, <1>7

\* A page, a bank and a rank: nothing is lost to a megabyte that is not whole.
LEMMA SizesAre ==
  ASSUME config \in Structures
  PROVE  /\ M!page_size = Columns * Bytes
         /\ M!megs_per_bank \in Nat \ {0}
         /\ M!megs_per_bank * Kilo = Columns * Bytes * KiloRows
         /\ M!banks \in Nat \ {0}
         /\ M!megs_per_rank = M!megs_per_bank * M!banks * Devices /\ M!megs_per_rank \in Nat \ {0}
         /\ M!request_size_bytes = BusBytes * config.BL /\ M!request_size_bytes \in Nat \ {0}
<1>1. M!page_size = Columns * Bytes
  <2>1. PICK c \in Nat, b \in Nat : c = Columns /\ b = Bytes
    BY Divided
  <2>2. config.columns * config.device_width = c * (b * 8)
    BY <2>1, Divided DEF Columns
  <2>3. c * (b * 8) = (c * b) * 8 /\ c * b \in Nat
    OBVIOUS
  <2>4. PICK e \in Nat : e = c * b
    BY <2>3
  <2>5. (e * 8) \div 8 = e
    OBVIOUS
  <2>. QED
    BY <2>1, <2>2, <2>3, <2>4, <2>5 DEF M!page_size
<1>2. PICK n \in Nat \ {0} : n = Columns * Bytes * KiloRows
  <2>1. Columns * Bytes \in Nat \ {0}
    BY Divided, ProductIs
  <2>. QED
    BY <2>1, Divided, ProductIs
<1>3. M!megs_per_bank = n \div Kilo
  BY <1>1, <1>2 DEF M!megs_per_bank, KiloRows
<1>4. M!megs_per_bank \in Nat \ {0} /\ M!megs_per_bank * Kilo = n
  BY <1>2, <1>3, Structured, Exactly
<1>5. M!banks \in Nat \ {0}
  BY Structured, ProductIs DEF M!banks
<1>6. M!megs_per_rank = M!megs_per_bank * M!banks * Devices
  BY DEF M!megs_per_rank, Devices
<1>7. M!megs_per_bank * M!banks \in Nat \ {0}
  BY <1>4, <1>5, ProductIs
<1>8. M!megs_per_rank \in Nat \ {0}
  BY <1>6, <1>7, Divided, ProductIs
<1>9. M!request_size_bytes = BusBytes * config.BL
  BY DEF M!request_size_bytes, BusBytes
<1>10. M!request_size_bytes \in Nat \ {0}
  BY <1>9, Divided, Structured, ProductIs
<1>. QED
  BY <1>1, <1>2, <1>4, <1>5, <1>6, <1>8, <1>9, <1>10

-----------------------------------------------------------------------------
(* The fields.                                                              *)

\* How many of each there are, and their bits.
LEMMA WidthsAre ==
  ASSUME config \in Structures, ranks \in Nat \ {0}, NEW f \in M!Fields
  PROVE  M!Count(f) \in Nat \ {0} /\ M!Width(f) \in Nat /\ M!TwoTo[M!Width(f)] <= M!Count(f)
<1>1. CASE f = "ch"
  BY <1>1, Structured, LogIs DEF M!Width, M!Count
<1>2. CASE f = "ra"
  BY <1>2, Structured, LogIs DEF M!Width, M!Count
<1>3. CASE f = "bg"
  BY <1>3, Structured, LogIs DEF M!Width, M!Count
<1>4. CASE f = "ba"
  BY <1>4, Structured, LogIs DEF M!Width, M!Count
<1>5. CASE f = "ro"
  BY <1>5, Structured, LogIs DEF M!Width, M!Count
<1>6. CASE f = "co"
  <2>1. config.columns \in Nat \ {0} /\ config.BL \in Nat \ {0} /\ config.BL <= config.columns
    BY Structured
  <2>2. PICK k \in Nat : k = M!LogBase2(config.columns) /\ M!TwoTo[k] <= config.columns
    BY <2>1, LogIs
  <2>3. PICK l \in Nat : l = M!LogBase2(config.BL)
    BY <2>1, LogIs
  <2>4. l <= k
    BY <2>1, <2>2, <2>3, LogGrows
  <2>5. k - l \in Nat /\ k - l <= k
    BY <2>4
  <2>6. M!TwoTo[k - l] <= M!TwoTo[k] /\ M!TwoTo[k - l] \in Nat /\ M!TwoTo[k] \in Nat
    BY <2>5, TwoToGrows, TwoToIs
  <2>7. M!Width(f) = k - l /\ M!Count(f) = config.columns
    BY <1>6, <2>2, <2>3 DEF M!Width, M!Count
  <2>. QED
    BY <2>1, <2>2, <2>5, <2>6, <2>7
<1>. QED
  BY <1>1, <1>2, <1>3, <1>4, <1>5, <1>6 DEF M!Fields

-----------------------------------------------------------------------------
(* Where the fields are.                                                    *)

\* Six fields.
LEMMA SixFields == IsFiniteSet(M!Fields) /\ Cardinality(M!Fields) = 6
<1>1. IsFiniteSet({}) /\ Cardinality({}) = 0
  BY FS_EmptySet
<1>2. IsFiniteSet({} \cup {"ch"}) /\ Cardinality({} \cup {"ch"}) = 1
  BY <1>1, FS_AddElement
<1>3. IsFiniteSet({"ch"} \cup {"ra"}) /\ Cardinality({"ch"} \cup {"ra"}) = 2
  <2>1. {} \cup {"ch"} = {"ch"} /\ "ra" \notin {"ch"}
    OBVIOUS
  <2>. QED
    BY <1>2, <2>1, FS_AddElement
<1>4. /\ IsFiniteSet({"ch", "ra"} \cup {"bg"}) /\ Cardinality({"ch", "ra"} \cup {"bg"}) = 3
  <2>1. {"ch"} \cup {"ra"} = {"ch", "ra"} /\ "bg" \notin {"ch", "ra"}
    OBVIOUS
  <2>. QED
    BY <1>3, <2>1, FS_AddElement
<1>5. /\ IsFiniteSet({"ch", "ra", "bg"} \cup {"ba"})
      /\ Cardinality({"ch", "ra", "bg"} \cup {"ba"}) = 4
  <2>1. {"ch", "ra"} \cup {"bg"} = {"ch", "ra", "bg"} /\ "ba" \notin {"ch", "ra", "bg"}
    OBVIOUS
  <2>. QED
    BY <1>4, <2>1, FS_AddElement
<1>6. /\ IsFiniteSet({"ch", "ra", "bg", "ba"} \cup {"ro"})
      /\ Cardinality({"ch", "ra", "bg", "ba"} \cup {"ro"}) = 5
  <2>1. /\ {"ch", "ra", "bg"} \cup {"ba"} = {"ch", "ra", "bg", "ba"}
        /\ "ro" \notin {"ch", "ra", "bg", "ba"}
    OBVIOUS
  <2>. QED
    BY <1>5, <2>1, FS_AddElement
<1>7. /\ IsFiniteSet({"ch", "ra", "bg", "ba", "ro"} \cup {"co"})
      /\ Cardinality({"ch", "ra", "bg", "ba", "ro"} \cup {"co"}) = 6
  <2>1. /\ {"ch", "ra", "bg", "ba"} \cup {"ro"} = {"ch", "ra", "bg", "ba", "ro"}
        /\ "co" \notin {"ch", "ra", "bg", "ba", "ro"}
    OBVIOUS
  <2>. QED
    BY <1>6, <2>1, FS_AddElement
<1>8. M!Fields = {"ch", "ra", "bg", "ba", "ro"} \cup {"co"}
  BY DEF M!Fields
<1>. QED
  BY <1>7, <1>8

\* Six names of six fields: each once.
LEMMA MappingIs ==
  ASSUME NEW m \in Mappings
  PROVE  /\ m \in [1..6 -> M!Fields] /\ \A f \in M!Fields : \E k \in 1..6 : m[k] = f
         /\ \A j, k \in 1..6 : m[j] = m[k] => j = k
<1>1. m \in [1..6 -> M!Fields] /\ \A f \in M!Fields : \E k \in 1..6 : m[k] = f
  BY CutsAssumption DEF M!AddressMapAssumption
<1>2. IsFiniteSet(1..6) /\ Cardinality(1..6) = 6
  <2>1. 1 \in Int /\ 6 \in Int /\ 6 - 1 + 1 = 6 /\ ~(1 > 6)
    OBVIOUS
  <2>. QED
    BY <2>1, FS_Interval
<1>3. m \in Surjection(1..6, M!Fields)
  BY <1>1 DEF Surjection
<1>4. m \in Injection(1..6, M!Fields)
  BY <1>2, <1>3, SixFields, FS_SurjSameCardinalityImpliesInj
<1>. QED
  BY <1>1, <1>4 DEF Injection, IsInjective

\* The fields that have their bits, and how many these are.
Placed == M!Fields \ {fields[k] : k \in 1..Len(fields)}
WidthOf == [f \in M!Fields |-> M!Width(f)]
Taken(S, f) == IF f \in S THEN M!Width(f) ELSE 0
AllTaken(S) ==
  Taken(S, "ch") + Taken(S, "ra") + Taken(S, "bg") + Taken(S, "ba") + Taken(S, "ro") + Taken(S, "co")

MapType ==
  /\ map_pc \in {"size", "fields", "done"}
  /\ config \in Structures /\ channel_size \in Nat
  /\ fields \in Seq(M!Fields) /\ \A j, k \in 1..Len(fields) : fields[j] = fields[k] => j = k
  /\ field_pos \in [M!Fields -> Nat] /\ pos \in Nat
  /\ map_pc = "size" => Placed = {} /\ pos = 0
  /\ map_pc = "done" => fields = <<>>

\* The channel is whole ranks.
RanksInv ==
  map_pc # "size" => ranks \in Nat \ {0} /\ channel_size = ranks * M!megs_per_rank

\* What has been placed lies below the next position, fills it, and tells apart
\* what has so many bits.
BitsInv ==
  map_pc # "size" =>
    /\ \A f \in Placed : field_pos[f] + M!Width(f) <= pos
    /\ TellApart(Placed, field_pos, WidthOf, pos)
    /\ pos = AllTaken(Placed)

MapInv == MapType /\ RanksInv /\ BitsInv

\* At the beginning nothing is placed.
LEMMA MapBegins == M!Init => MapInv
<1>. SUFFICES ASSUME M!Init PROVE MapInv
  OBVIOUS
<1>1. /\ map_pc = "size" /\ config \in Structures /\ channel_size = config.channel_size
      /\ fields \in Mappings /\ field_pos = [f \in M!Fields |-> 0] /\ pos = 0
  BY DEF M!Init
<1>2. channel_size \in Nat
  BY <1>1, Structured
<1>3. /\ fields \in [1..6 -> M!Fields] /\ \A f \in M!Fields : \E k \in 1..6 : fields[k] = f
      /\ \A j, k \in 1..6 : fields[j] = fields[k] => j = k
  BY <1>1, MappingIs
<1>4. fields \in Seq(M!Fields) /\ Len(fields) = 6
  <2>1. 6 \in Nat
    OBVIOUS
  <2>2. fields \in Seq(M!Fields) /\ DOMAIN fields = 1..6
    <3>1. Seq(M!Fields) = UNION {[1..n -> M!Fields] : n \in Nat}
      BY SeqDef
    <3>2. [1..6 -> M!Fields] \in {[1..n -> M!Fields] : n \in Nat}
      BY <2>1
    <3>. QED
      BY <1>3, <3>1, <3>2
  <2>. QED
    BY <2>1, <2>2, LenProperties
<1>5. Placed = {}
  BY <1>3, <1>4 DEF Placed
<1>6. MapType
  BY <1>1, <1>2, <1>3, <1>4, <1>5 DEF MapType
<1>. QED
  BY <1>1, <1>6 DEF MapInv, RanksInv, BitsInv

\* CalculateSize: there is a rank.
LEMMA SizeKeeps == ASSUME MapInv, M!CalculateSize PROVE MapInv'
<1>1. /\ map_pc = "size" /\ map_pc' = "fields"
      /\ ranks' = IF M!megs_per_rank > channel_size THEN 1 ELSE channel_size \div M!megs_per_rank
      /\ channel_size' = ranks' * M!megs_per_rank
      /\ UNCHANGED <<config, fields, field_pos, pos>>
  BY DEF M!CalculateSize
<1>2. MapType
  BY DEF MapInv
<1>3. config \in Structures /\ channel_size \in Nat /\ Placed = {} /\ pos = 0
  BY <1>1, <1>2 DEF MapType
<1>4. PICK m \in Nat \ {0} : m = M!megs_per_rank
  BY <1>3, SizesAre
<1>5. ranks' \in Nat \ {0}
  <2>1. CASE m > channel_size
    BY <1>1, <1>4, <2>1
  <2>2. CASE ~(m > channel_size)
    <3>1. ranks' = channel_size \div m
      BY <1>1, <1>4, <2>2
    <3>2. PICK d \in Nat : d = channel_size \div m /\ channel_size < d * m + m
      BY <1>3, DivIs
    <3>3. d # 0
      <4>1. 0 * m = 0
        OBVIOUS
      <4>. QED
        BY <1>3, <2>2, <3>2, <4>1
    <3>. QED
      BY <3>1, <3>2, <3>3
  <2>. QED
    BY <2>1, <2>2
<1>6. M!megs_per_rank' = M!megs_per_rank
  BY <1>1 DEF M!megs_per_rank, M!megs_per_bank, M!banks, M!page_size
<1>7. RanksInv'
  BY <1>1, <1>5, <1>6 DEF RanksInv
<1>8. Placed' = {}
  BY <1>1, <1>3 DEF Placed
<1>9. channel_size' \in Nat
  BY <1>1, <1>4, <1>5
<1>10. MapType'
  BY <1>1, <1>2, <1>3, <1>8, <1>9 DEF MapType
<1>11. pos' = 0
  BY <1>1, <1>3
<1>12. BitsInv'
  <2>1. pos' = AllTaken(Placed)'
    BY <1>8, <1>11 DEF AllTaken, Taken
  <2>2. TellApart({}, field_pos', WidthOf', 0)
    <3>1. 0..(M!TwoTo[0] - 1) = {0}
      BY TwoToIs
    <3>. QED
      BY <3>1 DEF TellApart
  <2>3. TellApart(Placed, field_pos, WidthOf, pos)'
    BY <1>8, <1>11, <2>2 DEF TellApart, Bits
  <2>. QED
    BY <1>8, <2>1, <2>3 DEF BitsInv
<1>. QED
  BY <1>7, <1>10, <1>12 DEF MapInv

\* One more field, so many more bits.
LEMMA OneMoreTaken ==
  ASSUME NEW S, NEW t \in M!Fields, t \notin S, \A f \in M!Fields : M!Width(f) \in Nat
  PROVE  AllTaken(S \cup {t}) = AllTaken(S) + M!Width(t) /\ AllTaken(S) \in Nat
<1>1. \A f \in M!Fields : Taken(S, f) \in Nat
  BY DEF Taken
<1>2. \A f \in M!Fields : f # t => Taken(S \cup {t}, f) = Taken(S, f)
  BY DEF Taken
<1>3. Taken(S, t) = 0 /\ Taken(S \cup {t}, t) = M!Width(t) /\ M!Width(t) \in Nat
  BY DEF Taken
<1>4. /\ "ch" \in M!Fields /\ "ra" \in M!Fields /\ "bg" \in M!Fields
      /\ "ba" \in M!Fields /\ "ro" \in M!Fields /\ "co" \in M!Fields
      /\ t \in {"ch", "ra", "bg", "ba", "ro", "co"}
  BY DEF M!Fields
<1>5. PICK a \in Nat, b \in Nat, c \in Nat, d \in Nat, e \in Nat, h \in Nat :
        /\ a = Taken(S, "ch") /\ b = Taken(S, "ra") /\ c = Taken(S, "bg")
        /\ d = Taken(S, "ba") /\ e = Taken(S, "ro") /\ h = Taken(S, "co")
  BY <1>1, <1>4
<1>6. PICK w \in Nat : w = M!Width(t)
  BY <1>3
<1>7. AllTaken(S) = a + b + c + d + e + h
  BY <1>5 DEF AllTaken
<1>. DEFINE T == S \cup {t}
<1>8. AllTaken(T) = Taken(T, "ch") + Taken(T, "ra") + Taken(T, "bg")
                    + Taken(T, "ba") + Taken(T, "ro") + Taken(T, "co")
  BY DEF AllTaken
<1>9. /\ Taken(T, "ch") = IF t = "ch" THEN w ELSE a
      /\ Taken(T, "ra") = IF t = "ra" THEN w ELSE b
      /\ Taken(T, "bg") = IF t = "bg" THEN w ELSE c
      /\ Taken(T, "ba") = IF t = "ba" THEN w ELSE d
      /\ Taken(T, "ro") = IF t = "ro" THEN w ELSE e
      /\ Taken(T, "co") = IF t = "co" THEN w ELSE h
  BY <1>2, <1>3, <1>4, <1>5, <1>6
<1>10. /\ t = "ch" => a = 0
       /\ t = "ra" => b = 0
       /\ t = "bg" => c = 0
       /\ t = "ba" => d = 0
       /\ t = "ro" => e = 0
       /\ t = "co" => h = 0
  BY <1>3, <1>5
<1>. HIDE DEF T
<1>11. AllTaken(T) = AllTaken(S) + w
  <2>1. CASE t = "ch"
    BY <1>7, <1>8, <1>9, <1>10, <2>1
  <2>2. CASE t = "ra"
    BY <1>7, <1>8, <1>9, <1>10, <2>2
  <2>3. CASE t = "bg"
    BY <1>7, <1>8, <1>9, <1>10, <2>3
  <2>4. CASE t = "ba"
    BY <1>7, <1>8, <1>9, <1>10, <2>4
  <2>5. CASE t = "ro"
    BY <1>7, <1>8, <1>9, <1>10, <2>5
  <2>6. CASE t = "co"
    BY <1>7, <1>8, <1>9, <1>10, <2>6
  <2>. QED
    BY <1>4, <2>1, <2>2, <2>3, <2>4, <2>5, <2>6
<1>. QED
  BY <1>6, <1>7, <1>11 DEF T

\* PlaceField: the field is put on top of those that are placed.
LEMMA PlaceKeeps == ASSUME MapInv, M!PlaceField PROVE MapInv'
<1>1. PICK t : t = fields[Len(fields)]
  OBVIOUS
<1>2. /\ map_pc = "fields" /\ fields # <<>>
      /\ field_pos' = [field_pos EXCEPT ![t] = pos] /\ pos' = pos + M!Width(t)
      /\ fields' = SubSeq(fields, 1, Len(fields) - 1)
      /\ UNCHANGED <<map_pc, config, ranks, channel_size>>
  BY <1>1 DEF M!PlaceField
<1>3. /\ config \in Structures /\ channel_size \in Nat /\ field_pos \in [M!Fields -> Nat]
      /\ pos \in Nat /\ fields \in Seq(M!Fields)
      /\ \A j, k \in 1..Len(fields) : fields[j] = fields[k] => j = k
  BY DEF MapInv, MapType
<1>4. PICK n \in Nat : n + 1 = Len(fields)
  <2>1. Len(fields) \in Nat /\ Len(fields) # 0
    BY <1>2, <1>3
  <2>2. Len(fields) - 1 \in Nat /\ (Len(fields) - 1) + 1 = Len(fields)
    BY <2>1
  <2>. QED
    BY <2>2
<1>5. t = fields[n + 1] /\ t \in M!Fields
  BY <1>1, <1>3, <1>4
<1>6. fields' \in Seq(M!Fields) /\ Len(fields') = n /\ \A k \in 1..n : fields'[k] = fields[k]
  BY <1>2, <1>3, <1>4
<1>7. t \notin Placed
  BY <1>4, <1>5 DEF Placed
<1>8. Placed' = Placed \cup {t}
  <2>1. {fields'[k] : k \in 1..n} = {fields[k] : k \in 1..n}
    BY <1>6
  <2>2. {fields[k] : k \in 1..(n + 1)} = {fields[k] : k \in 1..n} \cup {t}
    BY <1>5
  <2>3. t \notin {fields[k] : k \in 1..n}
    BY <1>3, <1>4, <1>5
  <2>4. Placed' = M!Fields \ {fields'[k] : k \in 1..n}
    BY <1>6 DEF Placed
  <2>5. Placed = M!Fields \ {fields[k] : k \in 1..(n + 1)}
    BY <1>4 DEF Placed
  <2>. QED
    BY <1>5, <2>1, <2>2, <2>3, <2>4, <2>5
<1>9. ranks \in Nat \ {0} /\ channel_size = ranks * M!megs_per_rank
  BY <1>2 DEF MapInv, RanksInv
<1>10. \A f \in M!Fields : M!Width(f) \in Nat
  BY <1>3, <1>9, WidthsAre
<1>11. Placed \subseteq M!Fields
  BY DEF Placed
<1>12. \A f \in M!Fields : M!Width(f)' = M!Width(f)
  BY <1>2 DEF M!Width
<1>13. WidthOf' = WidthOf /\ \A f \in M!Fields : WidthOf[f] = M!Width(f)
  BY <1>12 DEF WidthOf
<1>14. MapType'
  <2>1. field_pos' \in [M!Fields -> Nat] /\ pos' \in Nat
    BY <1>2, <1>3, <1>5, <1>10
  <2>2. ASSUME NEW j \in 1..n, NEW k \in 1..n, fields'[j] = fields'[k] PROVE j = k
    <3>1. j \in 1..(n + 1) /\ k \in 1..(n + 1)
      BY <1>4
    <3>2. fields'[j] = fields[j] /\ fields'[k] = fields[k]
      BY <1>6
    <3>. QED
      BY <1>3, <1>4, <2>2, <3>1, <3>2
  <2>. QED
    BY <1>2, <1>3, <1>6, <2>1, <2>2 DEF MapType
<1>15. RanksInv'
  <2>1. M!megs_per_rank' = M!megs_per_rank
    BY <1>2 DEF M!megs_per_rank, M!megs_per_bank, M!banks, M!page_size
  <2>. QED
    BY <1>2, <1>9, <2>1 DEF RanksInv
<1>16. /\ \A f \in Placed : field_pos[f] + M!Width(f) <= pos
       /\ TellApart(Placed, field_pos, WidthOf, pos) /\ pos = AllTaken(Placed)
  BY <1>2 DEF MapInv, BitsInv
<1>17. ASSUME NEW f \in Placed' PROVE (field_pos[f] + M!Width(f) <= pos)'
  <2>1. f \in M!Fields
    BY <1>5, <1>8, <1>11
  <2>2. CASE f = t
    BY <1>2, <1>3, <1>5, <1>10, <1>12, <2>2
  <2>3. CASE f # t
    <3>1. f \in Placed /\ field_pos'[f] = field_pos[f]
      BY <1>2, <1>3, <1>8, <2>1, <2>3
    <3>2. field_pos[f] \in Nat /\ M!Width(f) \in Nat /\ M!Width(t) \in Nat
      BY <1>3, <1>5, <1>10, <2>1
    <3>. QED
      BY <1>2, <1>3, <1>12, <1>16, <2>1, <3>1, <3>2
  <2>. QED
    BY <2>2, <2>3
<1>18. TellApart(Placed', field_pos', WidthOf, pos')
  <2>1. PICK S, w, at, next :
          S = Placed /\ w = WidthOf /\ at = field_pos /\ next = field_pos'
    OBVIOUS
  <2>2. \A f \in S : at[f] \in Nat /\ w[f] \in Nat /\ at[f] + w[f] <= pos
    BY <1>3, <1>10, <1>11, <1>13, <1>16, <2>1
  <2>3. \A f \in S : next[f] = at[f]
    BY <1>2, <1>3, <1>7, <1>11, <2>1
  <2>4. next[t] = pos /\ w[t] \in Nat /\ pos' = pos + w[t]
    BY <1>2, <1>3, <1>5, <1>10, <1>13, <2>1
  <2>5. TellApart(S, at, w, pos) /\ pos \in Nat
    BY <1>3, <1>16, <2>1
  <2>6. TellApart(S \cup {t}, next, w, pos + w[t])
    BY <2>2, <2>3, <2>4, <2>5, OneMoreField
  <2>. QED
    BY <1>8, <2>1, <2>4, <2>6
<1>19. pos' = AllTaken(Placed)'
  <2>1. AllTaken(Placed \cup {t}) = AllTaken(Placed) + M!Width(t)
    BY <1>5, <1>7, <1>10, OneMoreTaken
  <2>2. AllTaken(Placed)' = AllTaken(Placed')
    <3>1. \A f \in M!Fields : Taken(Placed, f)' = Taken(Placed', f)
      BY <1>12 DEF Taken
    <3>. QED
      BY <3>1 DEF AllTaken, M!Fields
  <2>. QED
    BY <1>2, <1>8, <1>16, <2>1, <2>2
<1>20. BitsInv'
  <2>1. TellApart(Placed, field_pos, WidthOf, pos)'
    BY <1>13, <1>18 DEF TellApart, Bits
  <2>. QED
    BY <1>17, <1>19, <2>1 DEF BitsInv
<1>. QED
  BY <1>14, <1>15, <1>20 DEF MapInv

\* The last field has its place.
LEMMA PlacedKeeps == ASSUME MapInv, M!AllPlaced \/ UNCHANGED M!vars PROVE MapInv'
<1>1. /\ UNCHANGED <<config, ranks, channel_size, fields, field_pos, pos>>
      /\ \/ map_pc = "fields" /\ map_pc' = "done" /\ fields = <<>>
         \/ map_pc' = map_pc
  BY DEF M!AllPlaced, M!vars
<1>2. M!megs_per_rank' = M!megs_per_rank /\ Placed' = Placed
  BY <1>1 DEF M!megs_per_rank, M!megs_per_bank, M!banks, M!page_size, Placed
<1>3. \A f \in M!Fields : M!Width(f)' = M!Width(f)
  BY <1>1 DEF M!Width
<1>4. WidthOf' = WidthOf
  BY <1>3 DEF WidthOf
<1>5. AllTaken(Placed)' = AllTaken(Placed)
  <2>1. \A f \in M!Fields : Taken(Placed, f)' = Taken(Placed, f)
    BY <1>2, <1>3 DEF Taken
  <2>. QED
    BY <2>1 DEF AllTaken, M!Fields
<1>6. MapType'
  BY <1>1, <1>2 DEF MapInv, MapType
<1>7. RanksInv'
  BY <1>1, <1>2 DEF MapInv, RanksInv
<1>8. BitsInv'
  <2>. SUFFICES ASSUME map_pc' # "size" PROVE
         /\ \A f \in Placed : (field_pos[f] + M!Width(f) <= pos)'
         /\ TellApart(Placed, field_pos, WidthOf, pos)'
         /\ pos' = AllTaken(Placed)'
    BY <1>2 DEF BitsInv
  <2>1. map_pc # "size"
    BY <1>1
  <2>2. /\ \A f \in Placed : field_pos[f] + M!Width(f) <= pos
        /\ TellApart(Placed, field_pos, WidthOf, pos) /\ pos = AllTaken(Placed)
    BY <2>1 DEF MapInv, BitsInv
  <2>3. TellApart(Placed, field_pos, WidthOf, pos)'
    BY <1>1, <1>2, <1>4, <2>2 DEF TellApart, Bits
  <2>4. Placed \subseteq M!Fields
    BY DEF Placed
  <2>. QED
    BY <1>1, <1>3, <1>5, <2>2, <2>3, <2>4
<1>. QED
  BY <1>6, <1>7, <1>8 DEF MapInv

\* The inductive invariant of the loop over the fields: those placed lie side by
\* side from bit 0, and the bits below the next position are theirs.
THEOREM MapInvariance == M!SafeSpec => []MapInv
<1>1. ASSUME MapInv, [M!Next]_(M!vars) PROVE MapInv'
  BY <1>1, SizeKeeps, PlaceKeeps, PlacedKeeps DEF M!Next
<1>. QED
  BY <1>1, MapBegins, PTL DEF M!SafeSpec

-----------------------------------------------------------------------------
(* What the mapping tells apart, and how much memory that is.               *)

\* The bytes of one request are at one place: the bits of its number.
LEMMA OneRequest ==
  ASSUME NEW k \in Nat, NEW u \in Nat \ {0}
  PROVE  (k * u) \div u = k /\ ((k * u) + u - 1) \div u = k /\ k * u \in Nat
<1>1. PICK n \in Nat : n = k * u
  OBVIOUS
<1>2. n \div u = k
  BY <1>1, QuotientIs
<1>3. n + u - 1 \in Nat /\ k * u <= n + u - 1 /\ n + u - 1 < k * u + u
  BY <1>1
<1>4. (n + u - 1) \div u = k
  BY <1>3, QuotientIs
<1>. QED
  BY <1>1, <1>2, <1>4

\* The fields of the requests.
LEMMA FieldsOf ==
  ASSUME MapInv, map_pc = "done", NEW k \in Nat, NEW x,
         x = k * M!TwoTo[M!shift_bits] \/ x = (k * M!TwoTo[M!shift_bits]) + M!TwoTo[M!shift_bits] - 1,
         NEW f \in M!Fields
  PROVE  /\ M!Field(f, x) = Bits(k, field_pos[f], WidthOf[f])
         /\ M!Field(f, x) < M!Count(f)
<1>1. /\ config \in Structures /\ ranks \in Nat \ {0} /\ field_pos \in [M!Fields -> Nat]
  BY DEF MapInv, MapType, RanksInv
<1>2. M!shift_bits \in Nat
  BY <1>1, SizesAre, LogIs DEF M!shift_bits
<1>3. PICK u \in Nat \ {0} : u = M!TwoTo[M!shift_bits]
  BY <1>2, TwoToIs
<1>4. x \div u = k
  BY <1>3, OneRequest
<1>5. PICK w \in Nat : w = M!Width(f) /\ M!Count(f) \in Nat /\ M!TwoTo[w] <= M!Count(f)
  BY <1>1, WidthsAre
<1>6. WidthOf[f] = w
  BY <1>5 DEF WidthOf
<1>7. M!Field(f, x) = Bits(k, field_pos[f], WidthOf[f])
  BY <1>3, <1>4, <1>5, <1>6 DEF M!Field, Bits
<1>8. PICK p \in Nat \ {0}, q \in Nat \ {0} : p = M!TwoTo[field_pos[f]] /\ q = M!TwoTo[w]
  BY <1>1, TwoToIs
<1>9. k \div p \in Nat
  BY DivIs
<1>10. (k \div p) % q \in 0..(q - 1)
  BY <1>9, RemainderIs
<1>11. M!Field(f, x) = (k \div p) % q
  BY <1>6, <1>7, <1>8 DEF Bits
<1>. QED
  BY <1>5, <1>7, <1>8, <1>10, <1>11

\* The places are counted as everybody counts.
LEMMA PlacesCardinality == \A S : M!Cardinality(S) = Cardinality(S)
  BY DEF M!Cardinality, Cardinality

\* As many places as there are numbers with so many bits.
LEMMA PlacesOf ==
  ASSUME MapInv, map_pc = "done"
  PROVE  M!PlacesApart
<1>1. /\ config \in Structures /\ ranks \in Nat \ {0} /\ field_pos \in [M!Fields -> Nat]
      /\ pos \in Nat /\ fields = <<>>
  BY DEF MapInv, MapType, RanksInv
<1>2. Placed = M!Fields
  BY <1>1 DEF Placed
<1>3. TellApart(M!Fields, field_pos, WidthOf, pos)
  BY <1>2 DEF MapInv, BitsInv
<1>4. PICK T \in Nat \ {0} : T = M!TwoTo[pos]
  BY <1>1, TwoToIs
<1>5. M!shift_bits \in Nat
  BY <1>1, SizesAre, LogIs DEF M!shift_bits
<1>6. PICK u \in Nat \ {0} : u = M!TwoTo[M!shift_bits]
  BY <1>5, TwoToIs
<1>. DEFINE places == {M!AddressMapping(a) : a \in {k * u : k \in 0..(T - 1)}}
            g == [k \in 0..(T - 1) |-> M!AddressMapping(k * u)]
<1>7. IsFiniteSet(0..(T - 1)) /\ Cardinality(0..(T - 1)) = T
  <2>1. 0 \in Int /\ T - 1 \in Int /\ ~(0 > T - 1) /\ (T - 1) - 0 + 1 = T
    OBVIOUS
  <2>. QED
    BY <2>1, FS_Interval
<1>8. ASSUME NEW j \in 0..(T - 1), NEW k \in 0..(T - 1), g[j] = g[k] PROVE j = k
  <2>1. M!AddressMapping(j * u) = M!AddressMapping(k * u)
    BY <1>8
  <2>2. \A f \in M!Fields : M!Field(f, j * u) = M!Field(f, k * u)
    BY <2>1 DEF M!AddressMapping
  <2>3. j \in Nat /\ k \in Nat
    OBVIOUS
  <2>4. \A f \in M!Fields : /\ M!Field(f, j * u) = Bits(j, field_pos[f], WidthOf[f])
                            /\ M!Field(f, k * u) = Bits(k, field_pos[f], WidthOf[f])
    BY <1>6, <2>3, FieldsOf
  <2>. QED
    BY <1>3, <1>4, <2>2, <2>4 DEF TellApart
<1>9. g \in Bijection(0..(T - 1), places)
  <2>1. g \in [0..(T - 1) -> places] /\ \A y \in places : \E k \in 0..(T - 1) : g[k] = y
    OBVIOUS
  <2>. HIDE DEF g, places
  <2>. QED
    BY <1>8, <2>1 DEF Bijection, Injection, Surjection, IsInjective
<1>10. Cardinality(places) = T
  <2>. HIDE DEF g, places
  <2>. QED
    BY <1>7, <1>9, FS_Bijection DEF ExistsBijection
<1>11. ASSUME NEW a \in {k * u : k \in 0..(T - 1)}
       PROVE  /\ \A f \in M!Fields : M!Field(f, a) < M!Count(f)
              /\ M!AddressMapping(a + u - 1) = M!AddressMapping(a)
  <2>1. PICK k \in 0..(T - 1) : a = k * u
    OBVIOUS
  <2>2. k \in Nat
    OBVIOUS
  <2>3. \A f \in M!Fields : /\ M!Field(f, a) = Bits(k, field_pos[f], WidthOf[f])
                            /\ M!Field(f, a) < M!Count(f)
    BY <1>6, <2>1, <2>2, FieldsOf
  <2>4. a + u - 1 = (k * u) + u - 1
    BY <2>1
  <2>5. \A f \in M!Fields : M!Field(f, a + u - 1) = Bits(k, field_pos[f], WidthOf[f])
    BY <1>6, <2>2, <2>4, FieldsOf
  <2>. QED
    BY <2>3, <2>5 DEF M!AddressMapping
<1>. QED
  BY <1>4, <1>6, <1>10, <1>11, PlacesCardinality DEF M!PlacesApart

\* Two factors that are no larger.
LEMMA ProductGrows ==
  ASSUME NEW a \in Nat, NEW b \in Nat, NEW c \in Nat, NEW d \in Nat, a <= c, b <= d
  PROVE  a * b <= c * d
<1>1. a * b <= c * b
  BY TimesGrows
<1>2. b * c <= d * c
  BY TimesGrows
<1>3. b * c = c * b /\ d * c = c * d /\ a * b \in Nat /\ c * b \in Nat /\ c * d \in Nat
  OBVIOUS
<1>. QED
  BY <1>1, <1>2, <1>3

\* Six numbers, and what they are together.
Bottom(a, b, c, d, e) == (((a * b) * c) * d) * e

\* With the rows, the banks and the ranks, no more than there are.
LEMMA BottomGrows ==
  ASSUME NEW a \in Nat, NEW b \in Nat, NEW c \in Nat, NEW d \in Nat, NEW e \in Nat,
         NEW k \in Nat, NEW l \in Nat, NEW m \in Nat, NEW n \in Nat, NEW o \in Nat,
         a <= k, b <= l, c <= m, d <= n, e <= o
  PROVE  /\ Bottom(a, b, c, d, e) \in Nat /\ Bottom(k, l, m, n, o) \in Nat
         /\ Bottom(a, b, c, d, e) <= Bottom(k, l, m, n, o)
<1>1. PICK p \in Nat, q \in Nat : p = a * b /\ q = k * l /\ p <= q
  BY ProductGrows
<1>2. PICK r \in Nat, s \in Nat : r = p * c /\ s = q * m /\ r <= s
  BY <1>1, ProductGrows
<1>3. PICK t \in Nat, u \in Nat : t = r * d /\ u = s * n /\ t <= u
  BY <1>2, ProductGrows
<1>4. t * e <= u * o /\ t * e \in Nat /\ u * o \in Nat
  BY <1>3, ProductGrows
<1>. QED
  BY <1>1, <1>2, <1>3, <1>4 DEF Bottom

\* The bits of five fields.
LEMMA BottomIs ==
  ASSUME NEW a \in Nat, NEW b \in Nat, NEW c \in Nat, NEW d \in Nat, NEW e \in Nat
  PROVE  M!TwoTo[a + b + c + d + e]
           = Bottom(M!TwoTo[a], M!TwoTo[b], M!TwoTo[c], M!TwoTo[d], M!TwoTo[e])
<1>1. PICK p \in Nat : p = a + b /\ M!TwoTo[p] = M!TwoTo[a] * M!TwoTo[b]
  BY TwoToPlus
<1>2. PICK q \in Nat : q = p + c /\ M!TwoTo[q] = M!TwoTo[p] * M!TwoTo[c]
  BY TwoToPlus
<1>3. PICK r \in Nat : r = q + d /\ M!TwoTo[r] = M!TwoTo[q] * M!TwoTo[d]
  BY TwoToPlus
<1>4. M!TwoTo[r + e] = M!TwoTo[r] * M!TwoTo[e]
  BY TwoToPlus
<1>5. a + b + c + d + e = r + e
  BY <1>1, <1>2, <1>3
<1>. QED
  BY <1>1, <1>2, <1>3, <1>4, <1>5 DEF Bottom

\* The bytes of the memory.
LEMMA MemoryIs ==
  ASSUME config \in Structures, ranks \in Nat \ {0}, channel_size = ranks * M!megs_per_rank
  PROVE  config.channels * channel_size * Kilo * Kilo
           = Bottom(config.channels, ranks, config.bankgroups, config.banks_per_group,
                    config.rows) * (Columns * BusBytes)
<1>1. PICK ch \in Nat, ra \in Nat, bg \in Nat, ba \in Nat, ro \in Nat, kilo \in Nat :
        /\ ch = config.channels /\ ra = ranks /\ bg = config.bankgroups
        /\ ba = config.banks_per_group /\ ro = config.rows /\ kilo = Kilo
  BY Structured
<1>2. PICK co \in Nat, by \in Nat, kr \in Nat, de \in Nat, bu \in Nat :
        /\ co = Columns /\ by = Bytes /\ kr = KiloRows /\ de = Devices /\ bu = BusBytes
        /\ kr * kilo = ro /\ de * by = bu
  BY <1>1, Divided
<1>3. PICK mb \in Nat, mr \in Nat, bk \in Nat :
        /\ mb = M!megs_per_bank /\ mr = M!megs_per_rank /\ bk = M!banks
        /\ mb * kilo = co * by * kr /\ mr = mb * bk * de
  BY <1>1, <1>2, SizesAre
<1>4. bk = bg * ba
  BY <1>1, <1>3 DEF M!banks
<1>5. ch * (ra * mr) * kilo * kilo = ((ch * ra) * bk) * de * (mb * kilo) * kilo
  BY <1>3
<1>6. ((ch * ra) * bk) * de * (co * by * kr) * kilo
        = ((ch * ra) * bk) * (kr * kilo) * (co * (de * by))
  OBVIOUS
<1>7. ((ch * ra) * bk) * (kr * kilo) * (co * (de * by)) = ((ch * ra) * bk) * ro * (co * bu)
  BY <1>2
<1>8. ((ch * ra) * bk) * ro = Bottom(ch, ra, bg, ba, ro)
  BY <1>4 DEF Bottom
<1>. QED
  BY <1>1, <1>2, <1>3, <1>5, <1>6, <1>7, <1>8

\* Eight is a power of two.
LEMMA BusPower ==
  ASSUME NEW b \in Nat \ {0}, M!IsPowerOfTwo(b * 8)
  PROVE  b = M!TwoTo[M!LogBase2(b)] /\ M!LogBase2(b) \in Nat
<1>1. PICK j \in Nat : b * 8 = M!TwoTo[j]
  BY DEF M!IsPowerOfTwo
<1>2. M!TwoTo[0] = 1 /\ M!TwoTo[1] = 2 /\ M!TwoTo[2] = 4 /\ M!TwoTo[3] = 8
  <2>1. /\ M!TwoTo[0] = 1 /\ M!TwoTo[0 + 1] = 2 * M!TwoTo[0] /\ M!TwoTo[1 + 1] = 2 * M!TwoTo[1]
        /\ M!TwoTo[2 + 1] = 2 * M!TwoTo[2]
    BY TwoToIs
  <2>2. 0 + 1 = 1 /\ 1 + 1 = 2 /\ 2 + 1 = 3
    OBVIOUS
  <2>. QED
    BY <2>1, <2>2
<1>3. j >= 3
  <2>1. b * 8 >= 8
    OBVIOUS
  <2>2. CASE j = 0
    BY <1>1, <1>2, <2>1, <2>2
  <2>3. CASE j = 1
    BY <1>1, <1>2, <2>1, <2>3
  <2>4. CASE j = 2
    BY <1>1, <1>2, <2>1, <2>4
  <2>. QED
    BY <2>2, <2>3, <2>4
<1>4. PICK at_bit \in Nat : j = 3 + at_bit
  <2>1. j - 3 \in Nat /\ j = 3 + (j - 3)
    BY <1>3
  <2>. QED
    BY <2>1
<1>5. M!TwoTo[3 + at_bit] = M!TwoTo[3] * M!TwoTo[at_bit] /\ M!TwoTo[at_bit] \in Nat
  <2>1. 3 \in Nat
    OBVIOUS
  <2>. QED
    BY <2>1, TwoToPlus, TwoToIs
<1>6. b = M!TwoTo[at_bit]
  BY <1>1, <1>2, <1>4, <1>5
<1>7. M!TwoTo[at_bit + 1] = 2 * M!TwoTo[at_bit]
  BY TwoToIs
<1>8. M!LogBase2(b) = at_bit
  BY <1>6, <1>7, LogUnique
<1>. QED
  BY <1>6, <1>8

\* What is cut off a request, and what the columns keep: the bits of a row, if
\* the burst or the bus is a power of two.
LEMMA RowBits ==
  ASSUME config \in Structures, M!IsPowerOfTwo(config.BL) \/ M!IsPowerOfTwo(config.bus_width)
  PROVE  /\ M!LogBase2(Columns) \in Nat /\ M!LogBase2(BusBytes) \in Nat
         /\ M!shift_bits \in Nat
         /\ M!Width("co") + M!shift_bits = M!LogBase2(Columns) + M!LogBase2(BusBytes)
<1>1. /\ Columns \in Nat \ {0} /\ BusBytes \in Nat \ {0} /\ config.BL \in Nat \ {0}
      /\ BusBytes * 8 = config.bus_width
  BY Structured, Divided
<1>2. /\ M!LogBase2(Columns) \in Nat /\ M!LogBase2(BusBytes) \in Nat /\ M!LogBase2(config.BL) \in Nat
  BY <1>1, LogIs
<1>3. M!shift_bits = M!LogBase2(BusBytes * config.BL)
  BY SizesAre DEF M!shift_bits
<1>4. M!Width("co") = M!LogBase2(Columns) - M!LogBase2(config.BL)
  BY DEF M!Width, Columns
<1>5. M!shift_bits = M!LogBase2(BusBytes) + M!LogBase2(config.BL)
  <2>1. CASE M!IsPowerOfTwo(config.BL)
    <3>1. config.BL = M!TwoTo[M!LogBase2(config.BL)]
      BY <2>1, LogOfPower
    <3>. QED
      BY <1>1, <1>2, <1>3, <3>1, LogOfShifted
  <2>2. CASE M!IsPowerOfTwo(config.bus_width)
    <3>1. BusBytes = M!TwoTo[M!LogBase2(BusBytes)]
      BY <1>1, <2>2, BusPower
    <3>2. PICK b \in Nat \ {0}, l \in Nat \ {0} : b = BusBytes /\ l = config.BL
      BY <1>1
    <3>3. b * l = l * b
      OBVIOUS
    <3>4. M!LogBase2(l * M!TwoTo[M!LogBase2(b)]) = M!LogBase2(l) + M!LogBase2(b)
      BY <1>2, <3>2, LogOfShifted
    <3>. QED
      BY <1>2, <1>3, <3>1, <3>2, <3>3, <3>4
  <2>. QED
    BY <2>1, <2>2
<1>. QED
  BY <1>2, <1>4, <1>5

\* The bytes of a row, and those that have an address in it.
LEMMA RowBytes ==
  ASSUME config \in Structures, M!IsPowerOfTwo(config.BL) \/ M!IsPowerOfTwo(config.bus_width)
  PROVE  /\ M!shift_bits \in Nat
         /\ M!TwoTo[M!Width("co") + M!shift_bits] \in Nat
         /\ Columns * BusBytes \in Nat
         /\ M!TwoTo[M!Width("co") + M!shift_bits] <= Columns * BusBytes
         /\ M!IsPowerOfTwo(config.bus_width) /\ M!IsPowerOfTwo(Columns)
              => M!TwoTo[M!Width("co") + M!shift_bits] = Columns * BusBytes
<1>1. /\ Columns \in Nat \ {0} /\ BusBytes \in Nat \ {0} /\ BusBytes * 8 = config.bus_width
  BY Divided
<1>2. PICK k \in Nat, l \in Nat :
        /\ k = M!LogBase2(Columns) /\ l = M!LogBase2(BusBytes)
        /\ M!Width("co") + M!shift_bits = k + l /\ M!shift_bits \in Nat
  BY RowBits
<1>3. PICK x \in Nat, y \in Nat : x = M!TwoTo[k] /\ y = M!TwoTo[l] /\ M!TwoTo[k + l] = x * y
  BY TwoToIs, TwoToPlus
<1>4. x <= Columns /\ y <= BusBytes
  BY <1>1, <1>2, <1>3, LogIs
<1>5. x * y <= Columns * BusBytes /\ x * y \in Nat /\ Columns * BusBytes \in Nat
  BY <1>1, <1>4, ProductGrows
<1>6. ASSUME M!IsPowerOfTwo(config.bus_width), M!IsPowerOfTwo(Columns)
      PROVE  x = Columns /\ y = BusBytes
  <2>1. BusBytes = y
    BY <1>1, <1>2, <1>3, <1>6, BusPower
  <2>2. Columns = x
    BY <1>2, <1>3, <1>6, LogOfPower
  <2>. QED
    BY <2>1, <2>2
<1>. QED
  BY <1>2, <1>3, <1>5, <1>6

\* The bytes that have an address, against those of the memory.
LEMMA BytesOf ==
  ASSUME MapInv, map_pc = "done"
  PROVE  M!AllUsed
<1>1. /\ config \in Structures /\ ranks \in Nat \ {0} /\ channel_size = ranks * M!megs_per_rank
      /\ fields = <<>>
  BY DEF MapInv, MapType, RanksInv
<1>2. pos = AllTaken(M!Fields)
  <2>1. Placed = M!Fields
    BY <1>1 DEF Placed
  <2>. QED
    BY <2>1 DEF MapInv, BitsInv
<1>3. \A f \in M!Fields : M!Count(f) \in Nat /\ M!Width(f) \in Nat /\ M!TwoTo[M!Width(f)] <= M!Count(f)
  BY <1>1, WidthsAre
<1>4. PICK a \in Nat, b \in Nat, c \in Nat, d \in Nat, e \in Nat, h \in Nat :
        /\ a = M!Width("ch") /\ b = M!Width("ra") /\ c = M!Width("bg")
        /\ d = M!Width("ba") /\ e = M!Width("ro") /\ h = M!Width("co")
  BY <1>3 DEF M!Fields
<1>5. pos = (a + b + c + d + e) + h
  BY <1>2, <1>4 DEF AllTaken, Taken, M!Fields
<1>6. /\ M!Count("ch") = config.channels /\ M!Count("ra") = ranks /\ M!Count("bg") = config.bankgroups
      /\ M!Count("ba") = config.banks_per_group /\ M!Count("ro") = config.rows
      /\ M!Count("co") = Columns
  BY DEF M!Count, Columns
<1>. DEFINE low == Bottom(M!TwoTo[a], M!TwoTo[b], M!TwoTo[c], M!TwoTo[d], M!TwoTo[e])
            all == Bottom(config.channels, ranks, config.bankgroups, config.banks_per_group,
                          config.rows)
            memory == config.channels * channel_size * Kilo * Kilo
<1>7. M!TwoTo[a + b + c + d + e] = low
  BY BottomIs
<1>8. low \in Nat /\ all \in Nat /\ low <= all
  <2>1. /\ M!TwoTo[a] \in Nat /\ M!TwoTo[b] \in Nat /\ M!TwoTo[c] \in Nat
        /\ M!TwoTo[d] \in Nat /\ M!TwoTo[e] \in Nat
    BY TwoToIs
  <2>2. /\ config.channels \in Nat /\ ranks \in Nat /\ config.bankgroups \in Nat
        /\ config.banks_per_group \in Nat /\ config.rows \in Nat
    BY <1>1, Structured
  <2>3. /\ M!TwoTo[a] <= config.channels /\ M!TwoTo[b] <= ranks /\ M!TwoTo[c] <= config.bankgroups
        /\ M!TwoTo[d] <= config.banks_per_group /\ M!TwoTo[e] <= config.rows
    BY <1>3, <1>4, <1>6 DEF M!Fields
  <2>. QED
    BY <2>1, <2>2, <2>3, BottomGrows
<1>9. memory = all * (Columns * BusBytes)
  BY <1>1, MemoryIs
<1>10. ASSUME M!IsPowerOfTwo(config.BL) \/ M!IsPowerOfTwo(config.bus_width)
       PROVE  /\ M!TwoTo[pos + M!shift_bits] = low * M!TwoTo[h + M!shift_bits]
              /\ M!TwoTo[h + M!shift_bits] \in Nat /\ Columns * BusBytes \in Nat
              /\ M!TwoTo[h + M!shift_bits] <= Columns * BusBytes
              /\ M!IsPowerOfTwo(config.bus_width) /\ M!IsPowerOfTwo(Columns)
                   => M!TwoTo[h + M!shift_bits] = Columns * BusBytes
  <2>1. /\ M!shift_bits \in Nat
        /\ M!TwoTo[h + M!shift_bits] \in Nat /\ Columns * BusBytes \in Nat
        /\ M!TwoTo[h + M!shift_bits] <= Columns * BusBytes
        /\ M!IsPowerOfTwo(config.bus_width) /\ M!IsPowerOfTwo(Columns)
             => M!TwoTo[h + M!shift_bits] = Columns * BusBytes
    BY <1>1, <1>4, <1>10, RowBytes
  <2>2. PICK l \in Nat, s \in Nat, r \in Nat :
          l = a + b + c + d + e /\ s = M!shift_bits /\ r = h + s
    BY <2>1
  <2>3. pos + M!shift_bits = l + r
    BY <1>5, <2>2
  <2>4. M!TwoTo[l + r] = M!TwoTo[l] * M!TwoTo[r]
    BY TwoToPlus
  <2>5. M!TwoTo[pos + M!shift_bits] = low * M!TwoTo[h + M!shift_bits]
    <3>. HIDE DEF low
    <3>. QED
      BY <1>7, <2>2, <2>3, <2>4
  <2>. QED
    BY <2>1, <2>5
<1>11. ASSUME \A f \in M!Fields : M!IsPowerOfTwo(M!Count(f)) PROVE low = all
  <2>1. ASSUME NEW f \in M!Fields, f # "co" PROVE M!TwoTo[M!Width(f)] = M!Count(f)
    <3>1. M!Count(f) = M!TwoTo[M!LogBase2(M!Count(f))]
      BY <1>11, LogOfPower
    <3>2. M!Width(f) = M!LogBase2(M!Count(f))
      BY <2>1 DEF M!Width, M!Count, M!Fields
    <3>. QED
      BY <3>1, <3>2
  <2>2. /\ M!TwoTo[a] = config.channels /\ M!TwoTo[b] = ranks /\ M!TwoTo[c] = config.bankgroups
        /\ M!TwoTo[d] = config.banks_per_group /\ M!TwoTo[e] = config.rows
    BY <1>4, <1>6, <2>1 DEF M!Fields
  <2>. QED
    BY <2>2
<1>. HIDE DEF low, all, memory
<1>12. ASSUME M!IsPowerOfTwo(config.BL) \/ M!IsPowerOfTwo(config.bus_width)
       PROVE  M!TwoTo[pos + M!shift_bits] <= memory
  <2>1. PICK y \in Nat, z \in Nat : y = M!TwoTo[h + M!shift_bits] /\ z = Columns * BusBytes /\ y <= z
    BY <1>10, <1>12
  <2>2. low * y <= all * z
    BY <1>8, <2>1, ProductGrows
  <2>. QED
    BY <1>9, <1>10, <1>12, <2>1, <2>2
<1>13. ASSUME M!IsPowerOfTwo(config.BL), M!IsPowerOfTwo(config.bus_width),
              \A f \in M!Fields : M!IsPowerOfTwo(M!Count(f))
       PROVE  M!TwoTo[pos + M!shift_bits] = memory
  <2>1. M!IsPowerOfTwo(Columns)
    BY <1>6, <1>13 DEF M!Fields
  <2>. QED
    BY <1>9, <1>10, <1>11, <1>13, <2>1
<1>. QED
  BY <1>12, <1>13 DEF M!AllUsed, memory

\* Two addresses that the mapping tells apart are at different places of the
\* memory, and no place is without an address when all numbers are powers.
THEOREM MapPlacesApart == M!SafeSpec => []PlacesApart
<1>1. MapInv => PlacesApart
  <2>1. CASE map_pc = "done"
    BY <2>1, PlacesOf, BytesOf DEF PlacesApart
  <2>2. CASE map_pc # "done"
    BY <2>2 DEF PlacesApart, M!PlacesApart, M!AllUsed
  <2>. QED
    BY <2>1, <2>2
<1>. QED
  BY <1>1, MapInvariance, PTL

-----------------------------------------------------------------------------
(* The driver that reads a trace.                                          *)

Lines == [addr : Nat, is_write : BOOLEAN, added_cycle : 0..MaxClk]

\* The types of what TraceBasedCPU uses.
TraceType ==
  /\ lines \in Seq(Lines) /\ lines # <<>>
  /\ newline \in BOOLEAN /\ get_next_ \in BOOLEAN /\ eof \in BOOLEAN
  /\ line_pos \in 0..Len(lines)
  /\ fed \in Seq(Lines)

\* Between two ticks the line that was read last has been fed, or is offered
\* again; only at the end of the file is it read a second time.
LinesRead ==
  /\ line_pos > 0 => trans_ = lines[line_pos] \/ (eof /\ line_pos = Len(lines))
  /\ ~eof /\ get_next_ => Len(fed) = line_pos
  /\ ~eof /\ ~get_next_ => Len(fed) = line_pos - 1
  /\ eof => Len(fed) \in (Len(lines) - 1)..(Len(lines) + 1)

\* What the memory was given.
LinesFed ==
  \A k \in 1..Len(fed) :
    fed[k] = IF k <= Len(lines) THEN lines[k] ELSE [D!Last EXCEPT !.is_write = FALSE]

\* The inductive invariant: only a CPU that reads a trace is concerned.
TraceInv == cpu = "trace" => TraceType /\ LinesRead /\ LinesFed

-----------------------------------------------------------------------------
\* A trace has lines, of the right kind.
LEMMA TraceBegins == D!Init => TraceInv
<1>. SUFFICES ASSUME D!Init, cpu = "trace" PROVE TraceType /\ LinesRead /\ LinesFed
  BY DEF TraceInv
<1>1. lines \in Seq(Lines) /\ lines # <<>>
  BY CutsAssumption DEF D!CPUAssumption, D!Init, Lines
<1>2. Len(lines) \in Nat \ {0}
  BY <1>1
<1>3. newline \in BOOLEAN /\ get_next_ /\ get_next_ \in BOOLEAN /\ ~eof /\ eof \in BOOLEAN
  BY DEF D!Init
<1>4. line_pos = 0 /\ fed = <<>>
  BY DEF D!Init
<1>5. TraceType
  BY <1>1, <1>2, <1>3, <1>4 DEF TraceType
<1>6. LinesRead
  BY <1>3, <1>4 DEF LinesRead
<1>7. LinesFed
  BY <1>4 DEF LinesFed
<1>. QED
  BY <1>5, <1>6, <1>7

\* What is read next is the next line, or the last one again as a read.
LEMMA ReadKeeps ==
  ASSUME TraceType, LinesRead, ~eof, get_next_, D!ReadLine
  PROVE  /\ trans_' \in Lines /\ line_pos' \in 0..Len(lines) /\ eof' \in BOOLEAN
         /\ Len(fed) = line_pos
         /\ \/ line_pos' = line_pos + 1 /\ trans_' = lines[line_pos + 1] /\ (eof' => line_pos' = Len(lines))
            \/ /\ line_pos' = line_pos /\ line_pos = Len(lines) /\ eof'
               /\ trans_' = [D!Last EXCEPT !.is_write = FALSE]
<1>1. Len(lines) \in Nat \ {0} /\ \A k \in 1..Len(lines) : lines[k] \in Lines
  BY DEF TraceType
<1>2. line_pos \in 0..Len(lines) /\ Len(fed) = line_pos
  BY DEF TraceType, LinesRead
<1>3. CASE line_pos < Len(lines)
  <2>1. trans_' = lines[line_pos + 1] /\ line_pos' = line_pos + 1 /\ eof' = D!AtEnd
    BY <1>3 DEF D!ReadLine, D!NextLine
  <2>2. D!AtEnd => line_pos + 1 = Len(lines)
    BY <1>1, <1>2, <1>3 DEF D!AtEnd
  <2>3. D!AtEnd \in BOOLEAN
    BY DEF D!AtEnd, TraceType
  <2>. QED
    BY <1>1, <1>2, <1>3, <2>1, <2>2, <2>3
<1>4. CASE line_pos = Len(lines)
  <2>1. trans_ = D!Last
    BY <1>1, <1>4 DEF LinesRead, D!Last
  <2>2. trans_' = [D!Last EXCEPT !.is_write = FALSE] /\ line_pos' = line_pos /\ eof'
    <3>1. D!AtEnd
      BY <1>4 DEF D!AtEnd
    <3>2. trans_' = D!NextLine /\ eof' = D!AtEnd
      BY DEF D!ReadLine
    <3>3. line_pos' = line_pos
      BY <1>1, <1>4 DEF D!ReadLine
    <3>4. D!NextLine = [D!Last EXCEPT !.is_write = FALSE]
      BY <1>1, <1>4, <2>1 DEF D!NextLine
    <3>. QED
      BY <3>1, <3>2, <3>3, <3>4
  <2>3. D!Last \in Lines
    BY <1>1 DEF D!Last
  <2>4. [D!Last EXCEPT !.is_write = FALSE] \in Lines
    BY <2>3 DEF Lines
  <2>. QED
    BY <1>1, <1>2, <1>4, <2>2, <2>4
<1>. QED
  BY <1>1, <1>2, <1>3, <1>4

\* A line that is accepted goes where it belongs.
LEMMA AppendKeeps ==
  ASSUME TraceType, LinesFed, lines' = lines, NEW line \in Lines,
         line = IF Len(fed) + 1 <= Len(lines) THEN lines[Len(fed) + 1]
                                              ELSE [D!Last EXCEPT !.is_write = FALSE],
         fed' = Append(fed, line)
  PROVE  fed' \in Seq(Lines) /\ Len(fed') = Len(fed) + 1 /\ LinesFed'
<1>1. fed \in Seq(Lines) /\ Len(fed) \in Nat
  BY DEF TraceType
<1>2. fed' \in Seq(Lines) /\ Len(fed') = Len(fed) + 1
  BY <1>1
<1>3. \A k \in 1..Len(fed) : fed'[k] = fed[k]
  BY <1>1
<1>4. fed'[Len(fed) + 1] = line
  BY <1>1
<1>5. \A k \in 1..Len(fed') : k \in 1..Len(fed) \/ k = Len(fed) + 1
  BY <1>1, <1>2
<1>6. D!Last' = D!Last
  BY DEF D!Last
<1>. QED
  BY <1>2, <1>3, <1>4, <1>5, <1>6 DEF LinesFed

\* A tick of the trace-based CPU keeps the invariant.
LEMMA TraceKeeps == ASSUME TraceInv, D!TraceTick PROVE TraceInv'
<1>1. cpu = "trace" /\ TraceType /\ LinesRead /\ LinesFed /\ lines' = lines /\ newline' = newline
  BY DEF D!TraceTick, TraceInv
<1>2. D!Last' = D!Last /\ Len(lines) \in Nat \ {0} /\ fed \in Seq(Lines) /\ Len(fed) \in Nat
  BY <1>1 DEF D!Last, TraceType
<1>3. CASE eof
  BY <1>1, <1>2, <1>3 DEF D!TraceTick, TraceInv, TraceType, LinesRead, LinesFed
<1>4. CASE ~eof
  <2>1. D!ReadLine /\ \E accepts \in BOOLEAN : D!Offer(accepts)
    BY <1>4 DEF D!TraceTick
  <2>2. PICK accepted \in BOOLEAN :
          /\ get_next_' = accepted
          /\ fed' = IF accepted THEN Append(fed, trans_') ELSE fed
    BY <2>1 DEF D!Offer
  <2>3. /\ trans_' \in Lines /\ line_pos' \in 0..Len(lines) /\ eof' \in BOOLEAN
        /\ trans_' = IF Len(fed) + 1 <= Len(lines) THEN lines[Len(fed) + 1]
                                                  ELSE [D!Last EXCEPT !.is_write = FALSE]
        /\ \/ line_pos' = Len(fed) + 1 /\ trans_' = lines[line_pos'] /\ (eof' => line_pos' = Len(lines))
           \/ line_pos' = Len(fed) /\ line_pos' = Len(lines) /\ eof'
    <3>1. CASE get_next_
      BY <1>1, <1>2, <1>4, <2>1, <3>1, ReadKeeps
    <3>2. CASE ~get_next_
      <4>1. trans_' = trans_ /\ line_pos' = line_pos /\ eof' = eof
        BY <2>1, <3>2 DEF D!ReadLine
      <4>2. line_pos \in 1..Len(lines) /\ Len(fed) = line_pos - 1 /\ trans_ = lines[line_pos]
        BY <1>1, <1>2, <1>4, <3>2 DEF TraceType, LinesRead
      <4>3. lines[line_pos] \in Lines
        BY <1>1, <4>2 DEF TraceType
      <4>. QED
        BY <1>1, <1>2, <1>4, <4>1, <4>2, <4>3 DEF TraceType
    <3>. QED
      BY <3>1, <3>2
  <2>4. fed' \in Seq(Lines) /\ LinesFed' /\ Len(fed') = IF accepted THEN Len(fed) + 1 ELSE Len(fed)
    <3>1. CASE accepted
      BY <1>1, <2>2, <2>3, <3>1, AppendKeeps
    <3>2. CASE ~accepted
      BY <1>1, <1>2, <2>2, <3>2 DEF LinesFed
    <3>. QED
      BY <3>1, <3>2
  <2>5. TraceType'
    BY <1>1, <2>2, <2>3, <2>4 DEF TraceType
  <2>6. LinesRead'
    BY <1>1, <1>2, <2>2, <2>3, <2>4 DEF LinesRead
  <2>. QED
    BY <2>4, <2>5, <2>6 DEF TraceInv
<1>. QED
  BY <1>3, <1>4

\* For every trace and every memory, whatever it refuses and when, the lines
\* are given to it in their order and none is skipped for the next; only the
\* last line can be left out or given twice (cpu.cc:73-90).
THEOREM OrderKept == D!SafeSpec => []TraceInOrder
<1>1. TraceInv /\ [D!Next]_(D!vars) => TraceInv'
  <2>. SUFFICES ASSUME TraceInv, [D!Next]_(D!vars) PROVE TraceInv'
    OBVIOUS
  <2>1. CASE UNCHANGED D!vars
    BY <2>1 DEF D!vars, D!traceVars, D!streamVars, TraceInv, TraceType, LinesRead, LinesFed, D!Last
  <2>2. CASE D!TraceTick
    BY <2>2, TraceKeeps
  <2>3. CASE D!StreamTick \/ D!RandomTick
    BY <2>3 DEF D!StreamTick, D!RandomTick, TraceInv
  <2>. QED
    BY <2>1, <2>2, <2>3 DEF D!Next
<1>2. TraceInv => TraceInOrder
  <2>. SUFFICES ASSUME TraceInv, cpu = "trace"
                PROVE  /\ Len(fed) <= Len(lines) + 1 /\ LinesFed
                       /\ eof => Len(fed) >= Len(lines) - 1
    BY DEF TraceInOrder, D!TraceInOrder, LinesFed
  <2>1. Len(fed) \in Nat /\ Len(lines) \in Nat /\ line_pos \in 0..Len(lines)
    BY DEF TraceInv, TraceType
  <2>. QED
    BY <2>1 DEF TraceInv, TraceType, LinesRead
<1>. QED
  BY TraceBegins, <1>1, <1>2, PTL DEF D!SafeSpec
-----------------------------------------------------------------------------
(* StreamCPU: where in the arrays it is, and what has been given of the    *)
(* element it is at.                                                       *)

Arrays == {"a", "b", "c"}
Accesses == [base : Nat, element : Nat, array : Arrays]

One(s, array) == IF array \in s THEN 1 ELSE 0
HowMany(s) == One(s, "a") + One(s, "b") + One(s, "c")

\* The elements that have been given whole.
Elapsed == IF base = 0 THEN 0 ELSE (base - 1) * Elements + offset_

\* From place k on the memory has been given element e of arrays b, as far as
\* s goes, and nothing else.
Filled(f, k, b, e, s) ==
  /\ \A at \in (k + 1)..Len(f) : \E x \in s : f[at] = D!Access(b, e, x)
  /\ \A x \in s : \E at \in (k + 1)..Len(f) : f[at] = D!Access(b, e, x)

\* The three accesses of the j-th element.
Group(f, j) ==
  {f[3 * j - 2], f[3 * j - 1], f[3 * j]}
    = {D!Access((j - 1) \div Elements + 1, (j - 1) % Elements, array) : array \in Arrays}

StreamType ==
  /\ clk_ \in 0..MaxClk /\ base \in Nat /\ offset_ \in 0..Elements
  /\ inserted_ \in SUBSET Arrays /\ inserted_ # Arrays
  /\ fed \in Seq(Accesses)

\* An element that is begun is one of the arrays chosen last; the flags are down
\* whenever arrays are chosen anew.
StreamInv ==
  /\ StreamType
  /\ clk_ = 0 <=> base = 0
  /\ base = 0 => offset_ = 0
  /\ base = 0 \/ offset_ = Elements => inserted_ = {}
  /\ Len(fed) = 3 * Elapsed + HowMany(inserted_)
  /\ \A j \in 1..Elapsed : Group(fed, j)
  /\ Filled(fed, 3 * Elapsed, base, offset_, inserted_)

\* RandomCPU has given every address it has made up but for the one in hand.
RandomInv ==
  /\ base \in Nat /\ get_next_ \in BOOLEAN /\ fed \in Seq(Accesses)
  /\ Len(fed) = IF get_next_ THEN base ELSE base - 1
  /\ \A k \in 1..Len(fed) : fed[k].base = k

ElementInv ==
  /\ cpu = "stream" => StreamInv
  /\ cpu = "random" => RandomInv

\* Quotient and remainder of a number that is given by them.
LEMMA DivisionUnique ==
  ASSUME NEW c \in Nat \ {0}, NEW q \in Int, NEW r \in 0..(c - 1)
  PROVE  (q * c + r) \div c = q /\ (q * c + r) % c = r
<1>. DEFINE x == q * c + r
            d == x \div c
            m == x % c
<1>1. x \in Int /\ d \in Int /\ m \in 0..(c - 1) /\ x = d * c + m
  OBVIOUS
<1>2. (q - d) * c = m - r
  <2>1. (q - d) * c = q * c - d * c
    BY <1>1
  <2>. QED
    BY <1>1, <2>1
<1>. HIDE DEF x, d, m
<1>3. q - d \in Int
  BY <1>1
<1>4. \A k \in Int : k * c > -c /\ k * c < c => k = 0
  <2>1. \A k \in Int : k >= 1 => k * c >= c
    OBVIOUS
  <2>2. \A k \in Int : k <= -1 => k * c <= -c
    OBVIOUS
  <2>. QED
    BY <2>1, <2>2
<1>5. q - d = 0
  BY <1>1, <1>2, <1>3, <1>4
<1>. QED
  BY <1>1, <1>2, <1>5 DEF x, d, m

\* Joined to what was given of the element before, it is what has been given of
\* it now.
LEMMA FilledJoin ==
  ASSUME NEW f \in Seq(Accesses), NEW g \in Seq(Accesses), NEW k \in Nat, k <= Len(f),
         NEW b, NEW e, NEW s, NEW t, Filled(f, k, b, e, s), Filled(g, 0, b, e, t)
  PROVE  Filled(f \o g, k, b, e, s \cup t)
<1>1. /\ Len(f) \in Nat /\ Len(g) \in Nat /\ Len(f \o g) = Len(f) + Len(g)
      /\ \A at \in 1..Len(f) : (f \o g)[at] = f[at]
      /\ \A at \in 1..Len(g) : (f \o g)[Len(f) + at] = g[at]
  OBVIOUS
<1>2. ASSUME NEW at \in (k + 1)..Len(f \o g)
      PROVE  \E x \in s \cup t : (f \o g)[at] = D!Access(b, e, x)
  <2>1. CASE at <= Len(f)
    BY <1>1, <2>1 DEF Filled
  <2>2. CASE at > Len(f)
    <3>1. at - Len(f) \in 1..Len(g) /\ (f \o g)[at] = g[at - Len(f)]
      BY <1>1, <2>2
    <3>2. at - Len(f) \in (0 + 1)..Len(g)
      BY <3>1
    <3>3. \A j \in (0 + 1)..Len(g) : \E x \in t : g[j] = D!Access(b, e, x)
      BY DEF Filled
    <3>4. PICK x \in t : g[at - Len(f)] = D!Access(b, e, x)
      BY <3>2, <3>3
    <3>. QED
      BY <3>1, <3>4
  <2>. QED
    BY <1>1, <2>1, <2>2
<1>3. ASSUME NEW x \in s \cup t
      PROVE  \E at \in (k + 1)..Len(f \o g) : (f \o g)[at] = D!Access(b, e, x)
  <2>1. CASE x \in s
    <3>1. PICK at \in (k + 1)..Len(f) : f[at] = D!Access(b, e, x)
      BY <2>1 DEF Filled
    <3>. QED
      BY <1>1, <3>1
  <2>2. CASE x \in t
    <3>1. PICK at \in (0 + 1)..Len(g) : g[at] = D!Access(b, e, x)
      BY <2>2 DEF Filled
    <3>2. Len(f) + at \in (k + 1)..Len(f \o g) /\ (f \o g)[Len(f) + at] = g[at]
      BY <1>1, <3>1
    <3>. QED
      BY <3>1, <3>2
  <2>. QED
    BY <2>1, <2>2
<1>. QED
  BY <1>2, <1>3 DEF Filled

\* What is given of an element: its accesses to the arrays that take it.
LEMMA GivenShape ==
  ASSUME NEW b \in Nat, NEW e \in Nat, NEW s \in SUBSET Arrays
  PROVE  /\ D!Given(b, e, s) \in Seq(Accesses) /\ Len(D!Given(b, e, s)) = HowMany(s)
         /\ Filled(D!Given(b, e, s), 0, b, e, s)
<1>. DEFINE Offered(array) == IF array \in s THEN <<D!Access(b, e, array)>> ELSE <<>>
<1>1. ASSUME NEW x \in Arrays
      PROVE  /\ Offered(x) \in Seq(Accesses) /\ Len(Offered(x)) = One(s, x)
             /\ Filled(Offered(x), 0, b, e, s \cap {x})
  <2>1. D!Access(b, e, x) \in Accesses
    BY DEF D!Access, Accesses
  <2>2. CASE x \in s
    <3>. DEFINE g == <<D!Access(b, e, x)>>
    <3>1. Offered(x) = g /\ g \in Seq(Accesses) /\ Len(g) = 1 /\ g[1] = D!Access(b, e, x)
      BY <2>1, <2>2
    <3>2. s \cap {x} = {x}
      BY <2>2
    <3>. HIDE DEF g
    <3>3. Filled(g, 0, b, e, {x})
      BY <3>1 DEF Filled
    <3>. QED
      BY <2>2, <3>1, <3>2, <3>3 DEF One
  <2>3. CASE x \notin s
    <3>1. Offered(x) = <<>> /\ Len(<<>>) = 0 /\ s \cap {x} = {} /\ <<>> \in Seq(Accesses)
      BY <2>3
    <3>2. Filled(<<>>, 0, b, e, {})
      BY DEF Filled
    <3>. QED
      BY <2>3, <3>1, <3>2 DEF One
  <2>. QED
    BY <2>2, <2>3
<1>2. D!Given(b, e, s) = Offered("a") \o Offered("b") \o Offered("c")
  BY DEF D!Given
<1>. DEFINE x == Offered("a")
            y == Offered("b")
            z == Offered("c")
            t == s \cap {"a"}
            u == s \cap {"b"}
            v == s \cap {"c"}
<1>3. /\ x \in Seq(Accesses) /\ Len(x) = One(s, "a") /\ Filled(x, 0, b, e, t)
      /\ y \in Seq(Accesses) /\ Len(y) = One(s, "b") /\ Filled(y, 0, b, e, u)
      /\ z \in Seq(Accesses) /\ Len(z) = One(s, "c") /\ Filled(z, 0, b, e, v)
  <2>1. "a" \in Arrays /\ "b" \in Arrays /\ "c" \in Arrays
    BY DEF Arrays
  <2>. HIDE DEF Offered
  <2>. QED
    BY <1>1, <2>1
<1>4. (t \cup u) \cup v = s
  BY DEF Arrays
<1>5. D!Given(b, e, s) = (x \o y) \o z
  BY <1>2
<1>. HIDE DEF Offered, x, y, z, t, u, v
<1>6. x \o y \in Seq(Accesses) /\ Len(x \o y) = Len(x) + Len(y) /\ 0 <= Len(x)
      /\ 0 <= Len(x \o y) /\ 0 \in Nat
  BY <1>3
<1>7. Filled(x \o y, 0, b, e, t \cup u)
  BY <1>3, <1>6, FilledJoin
<1>8. Filled((x \o y) \o z, 0, b, e, (t \cup u) \cup v)
  BY <1>3, <1>6, <1>7, FilledJoin
<1>9. (x \o y) \o z \in Seq(Accesses) /\ Len((x \o y) \o z) = Len(x \o y) + Len(z)
  <2>1. \A p, q \in Seq(Accesses) : p \o q \in Seq(Accesses) /\ Len(p \o q) = Len(p) + Len(q)
    OBVIOUS
  <2>. QED
    BY <1>3, <1>6, <2>1
<1>10. Len((x \o y) \o z) = HowMany(s)
  BY <1>3, <1>6, <1>9 DEF HowMany
<1>. QED
  BY <1>4, <1>5, <1>8, <1>9, <1>10

\* Three places filled with an element's three accesses are its group.
LEMMA FilledGroup ==
  ASSUME NEW f \in Seq(Accesses), NEW m \in Nat, Len(f) = 3 * m + 3,
         NEW b \in Nat, NEW e \in 0..(Elements - 1), m = (b - 1) * Elements + e,
         Filled(f, 3 * m, b, e, Arrays)
  PROVE  Group(f, m + 1)
<1>1. m \div Elements = b - 1 /\ m % Elements = e
  <2>. DEFINE q == b - 1
  <2>1. q \in Int /\ Elements \in Nat \ {0} /\ m = q * Elements + e
    BY CutsAssumption DEF D!CPUAssumption
  <2>. HIDE DEF q
  <2>2. (q * Elements + e) \div Elements = q /\ (q * Elements + e) % Elements = e
    BY <2>1, DivisionUnique
  <2>3. m \div Elements = q /\ m % Elements = e
    BY <2>1, <2>2
  <2>. QED
    BY <2>3 DEF q
<1>2. \A at \in (3 * m + 1)..(3 * m + 3) : at = 3 * m + 1 \/ at = 3 * m + 2 \/ at = 3 * m + 3
  OBVIOUS
<1>3. /\ \A at \in (3 * m + 1)..(3 * m + 3) : \E x \in Arrays : f[at] = D!Access(b, e, x)
      /\ \A x \in Arrays : \E at \in (3 * m + 1)..(3 * m + 3) : f[at] = D!Access(b, e, x)
  BY DEF Filled
<1>4. {f[3 * m + 1], f[3 * m + 2], f[3 * m + 3]} = {D!Access(b, e, x) : x \in Arrays}
  <2>1. ASSUME NEW y \in {f[3 * m + 1], f[3 * m + 2], f[3 * m + 3]}
        PROVE  \E x \in Arrays : y = D!Access(b, e, x)
    <3>1. PICK at \in (3 * m + 1)..(3 * m + 3) : y = f[at]
      BY <2>1
    <3>. QED
      BY <1>3, <3>1
  <2>2. ASSUME NEW x \in Arrays
        PROVE  D!Access(b, e, x) \in {f[3 * m + 1], f[3 * m + 2], f[3 * m + 3]}
    BY <1>2, <1>3
  <2>. QED
    BY <2>1, <2>2
<1>. DEFINE j == m + 1
<1>5. /\ 3 * j - 2 = 3 * m + 1 /\ 3 * j - 1 = 3 * m + 2 /\ 3 * j = 3 * m + 3
      /\ (j - 1) \div Elements + 1 = b /\ (j - 1) % Elements = e
  <2>1. j - 1 = m /\ b - 1 + 1 = b
    OBVIOUS
  <2>. QED
    BY <1>1, <2>1, SMTT(30)
<1>. HIDE DEF j
<1>6. Group(f, j)
  <2>1. {f[3 * j - 2], f[3 * j - 1], f[3 * j]} = {f[3 * m + 1], f[3 * m + 2], f[3 * m + 3]}
    BY <1>5
  <2>2. {D!Access((j - 1) \div Elements + 1, (j - 1) % Elements, array) : array \in Arrays}
          = {D!Access(b, e, x) : x \in Arrays}
    BY <1>5
  <2>. QED
    BY <1>4, <2>1, <2>2 DEF Group
<1>. QED
  BY <1>6 DEF j

\* A group stays what it is when more is given.
LEMMA GroupsKept ==
  ASSUME NEW f \in Seq(Accesses), NEW g \in Seq(Accesses), NEW j \in Nat \ {0},
         3 * j <= Len(f), Group(f, j)
  PROVE  Group(f \o g, j)
<1>1. /\ (f \o g)[3 * j - 2] = f[3 * j - 2] /\ (f \o g)[3 * j - 1] = f[3 * j - 1]
      /\ (f \o g)[3 * j] = f[3 * j]
  OBVIOUS
<1>. QED
  BY <1>1 DEF Group

\* A tick of the streaming CPU, whatever the memory refuses in it.
LEMMA StreamKeeps == ASSUME StreamInv, D!StreamTick PROVE StreamInv'
<1>. DEFINE anew == offset_ >= Elements \/ clk_ = 0
            b == IF anew THEN base + 1 ELSE base
            e == IF anew THEN 0 ELSE offset_
            m == (b - 1) * Elements + e
<1>0. Elements \in Nat \ {0} /\ MaxClk \in Nat \ {0}
  BY CutsAssumption DEF D!CPUAssumption
<1>1. /\ clk_ \in 0..MaxClk /\ base \in Nat /\ offset_ \in 0..Elements
      /\ inserted_ \in SUBSET Arrays /\ inserted_ # Arrays /\ fed \in Seq(Accesses)
      /\ clk_ = 0 <=> base = 0
      /\ base = 0 => offset_ = 0
      /\ base = 0 \/ offset_ = Elements => inserted_ = {}
  BY DEF StreamInv, StreamType
<1>2. PICK accepted \in SUBSET (Arrays \ inserted_) :
        /\ base' = b /\ fed' = fed \o D!Given(b, e, accepted)
        /\ IF inserted_ \cup accepted = Arrays
             THEN offset_' = e + 1 /\ inserted_' = {}
             ELSE offset_' = e /\ inserted_' = inserted_ \cup accepted
  BY DEF D!StreamTick, Arrays, D!Cleared
<1>3. clk_' \in 0..MaxClk /\ clk_' # 0
  BY <1>0, <1>1 DEF D!StreamTick, D!Later
<1>4. b \in Nat \ {0} /\ e \in 0..(Elements - 1)
  BY <1>0, <1>1
<1>5. m = Elapsed /\ m \in Nat
  <2>1. \A x \in Int : (x + 1 - 1) * Elements + 0 = (x - 1) * Elements + Elements
    BY <1>0
  <2>2. CASE base = 0
    BY <1>0, <1>1, <2>2 DEF Elapsed
  <2>3. CASE base # 0 /\ offset_ = Elements
    BY <1>0, <1>1, <2>1, <2>3 DEF Elapsed
  <2>4. CASE base # 0 /\ offset_ # Elements
    BY <1>0, <1>1, <2>4 DEF Elapsed
  <2>5. m \in Nat
    <3>1. \A x, y \in Nat : x * y \in Nat
      OBVIOUS
    <3>2. b - 1 \in Nat
      BY <1>4
    <3>. HIDE DEF b, e
    <3>. QED
      BY <1>0, <1>4, <3>1, <3>2
  <2>. QED
    BY <2>2, <2>3, <2>4, <2>5
<1>6. /\ Len(fed) = 3 * m + HowMany(inserted_)
      /\ \A j \in 1..m : Group(fed, j)
      /\ Filled(fed, 3 * m, b, e, inserted_)
  <2>1. /\ Len(fed) = 3 * m + HowMany(inserted_) /\ \A j \in 1..m : Group(fed, j)
        /\ Filled(fed, 3 * m, base, offset_, inserted_)
    BY <1>5 DEF StreamInv
  <2>2. CASE anew
    <3>1. inserted_ = {}
      BY <1>0, <1>1, <2>2
    <3>2. Len(fed) = 3 * m
      BY <1>5, <2>1, <3>1 DEF HowMany, One
    <3>. HIDE DEF m
    <3>3. Filled(fed, 3 * m, b, e, inserted_)
      BY <1>5, <3>1, <3>2 DEF Filled
    <3>. QED
      BY <2>1, <3>3
  <2>3. CASE ~anew
    BY <2>1, <2>3
  <2>. QED
    BY <2>2, <2>3
<1>. HIDE DEF b, e, m, anew
<1>. DEFINE g == D!Given(b, e, accepted)
            s == inserted_ \cup accepted
<1>7. g \in Seq(Accesses) /\ Len(g) = HowMany(accepted) /\ Filled(g, 0, b, e, accepted)
  <2>1. accepted \in SUBSET Arrays /\ b \in Nat /\ e \in Nat
    BY <1>0, <1>4
  <2>. QED
    BY <2>1, GivenShape
<1>8. /\ HowMany(s) = HowMany(inserted_) + HowMany(accepted)
      /\ HowMany(inserted_) \in Nat /\ HowMany(accepted) \in Nat
      /\ HowMany(Arrays) = 3 /\ HowMany({}) = 0
  BY DEF HowMany, One, Arrays
<1>. HIDE DEF g
<1>9. fed' \in Seq(Accesses) /\ Len(fed') = 3 * m + HowMany(s) /\ fed' = fed \o g
  <2>1. fed' = fed \o g
    BY <1>2 DEF g
  <2>2. fed \o g \in Seq(Accesses) /\ Len(fed \o g) = Len(fed) + Len(g)
    BY <1>1, <1>7
  <2>3. Len(fed) + Len(g) = 3 * m + HowMany(s)
    BY <1>5, <1>6, <1>7, <1>8
  <2>. QED
    BY <2>1, <2>2, <2>3
<1>10. Filled(fed', 3 * m, b, e, s)
  <2>1. 3 * m \in Nat /\ 3 * m <= Len(fed)
    BY <1>5, <1>6, <1>8
  <2>. QED
    BY <1>1, <1>6, <1>7, <1>9, <2>1, FilledJoin
<1>11. \A j \in 1..m : Group(fed', j)
  <2>. SUFFICES ASSUME NEW j \in 1..m PROVE Group(fed', j)
    OBVIOUS
  <2>1. j \in Nat \ {0} /\ 3 * j <= Len(fed) /\ Group(fed, j)
    BY <1>5, <1>6, <1>8
  <2>. QED
    BY <1>1, <1>7, <1>9, <2>1, GroupsKept
<1>12. CASE s = Arrays
  <2>1. offset_' = e + 1 /\ inserted_' = {} /\ base' = b
    BY <1>2, <1>12
  <2>2. Elapsed' = m + 1
    BY <1>0, <1>4, <1>5, <2>1 DEF Elapsed, m
  <2>3. Len(fed') = 3 * (m + 1)
    <3>1. HowMany(s) = 3
      BY <1>8, <1>12
    <3>. QED
      BY <1>5, <1>9, <3>1
  <2>4. Group(fed', m + 1)
    <3>1. m = (b - 1) * Elements + e /\ Len(fed') = 3 * m + 3
      BY <1>5, <2>3 DEF m
    <3>2. b \in Nat
      BY <1>4
    <3>. QED
      BY <1>4, <1>5, <1>9, <1>10, <1>12, <3>1, <3>2, FilledGroup
  <2>5. \A j \in 1..(m + 1) : Group(fed', j)
    BY <1>5, <1>11, <2>4
  <2>6. Filled(fed', 3 * (m + 1), b, e + 1, {})
    BY <1>5, <2>3 DEF Filled
  <2>7. StreamType'
    <3>1. inserted_' \in SUBSET Arrays /\ inserted_' # Arrays
      BY <2>1 DEF Arrays
    <3>2. offset_' \in 0..Elements /\ base' \in Nat
      BY <1>0, <1>4, <2>1
    <3>. QED
      BY <1>3, <1>9, <3>1, <3>2 DEF StreamType
  <2>8. Len(fed') = 3 * Elapsed' + HowMany(inserted_')
    BY <1>5, <1>8, <2>1, <2>2, <2>3
  <2>9. base' # 0
    BY <1>4, <2>1
  <2>. QED
    BY <1>3, <2>1, <2>2, <2>5, <2>6, <2>7, <2>8, <2>9 DEF StreamInv
<1>13. CASE s # Arrays
  <2>1. offset_' = e /\ inserted_' = s /\ base' = b
    BY <1>2, <1>13
  <2>2. Elapsed' = m
    BY <1>4, <2>1 DEF Elapsed, m
  <2>3. StreamType'
    <3>1. s \in SUBSET Arrays
      BY <1>1
    <3>2. offset_' \in 0..Elements /\ base' \in Nat
      BY <1>0, <1>4, <2>1
    <3>. QED
      BY <1>3, <1>9, <1>13, <2>1, <3>1, <3>2 DEF StreamType
  <2>4. base' # 0 /\ offset_' # Elements
    BY <1>0, <1>4, <2>1
  <2>. QED
    BY <1>3, <1>9, <1>10, <1>11, <2>1, <2>2, <2>3, <2>4 DEF StreamInv
<1>. QED
  BY <1>12, <1>13

\* A tick of the random CPU: what was refused is offered again.
LEMMA RandomKeeps == ASSUME RandomInv, D!RandomTick PROVE RandomInv'
<1>. DEFINE b == IF get_next_ THEN base + 1 ELSE base
<1>1. /\ base \in Nat /\ get_next_ \in BOOLEAN /\ fed \in Seq(Accesses) /\ Len(fed) \in Nat
      /\ Len(fed) = b - 1 /\ \A k \in 1..Len(fed) : fed[k].base = k
  BY DEF RandomInv
<1>2. PICK accepts \in BOOLEAN :
        /\ base' = b /\ get_next_' = accepts
        /\ fed' = IF accepts THEN Append(fed, D!Access(b, 0, "a")) ELSE fed
  BY DEF D!RandomTick
<1>3. b \in Nat
  BY <1>1
<1>. HIDE DEF b
<1>4. D!Access(b, 0, "a") \in Accesses /\ D!Access(b, 0, "a").base = b
  BY <1>3 DEF D!Access, Accesses, Arrays
<1>5. CASE accepts
  <2>1. /\ fed' \in Seq(Accesses) /\ Len(fed') = b /\ fed'[b] = D!Access(b, 0, "a")
        /\ \A k \in 1..Len(fed) : fed'[k] = fed[k]
    BY <1>1, <1>2, <1>3, <1>4, <1>5
  <2>2. \A k \in 1..Len(fed') : k \in 1..Len(fed) \/ k = b
    BY <1>1, <1>3, <2>1
  <2>. QED
    BY <1>1, <1>2, <1>3, <1>4, <1>5, <2>1, <2>2 DEF RandomInv
<1>6. CASE ~accepts
  BY <1>1, <1>2, <1>3, <1>6 DEF RandomInv
<1>. QED
  BY <1>5, <1>6

\* For every size of the arrays and every memory, whatever it refuses and when:
\* the elements are given in their order, each with its three accesses before
\* the next begins (cpu.cc:28-57), and no address of the random CPU is skipped
\* (cpu.cc:10-17).
THEOREM ElementsKept == D!SafeSpec => []NothingSkipped
<1>1. D!Init => ElementInv
  <2>. SUFFICES ASSUME D!Init PROVE ElementInv
    OBVIOUS
  <2>1. clk_ = 0 /\ base = 0 /\ offset_ = 0 /\ inserted_ = {} /\ fed = <<>> /\ get_next_
    BY DEF D!Init
  <2>2. Elapsed = 0 /\ HowMany(inserted_) = 0 /\ Len(fed) = 0 /\ fed \in Seq(Accesses)
    BY <2>1 DEF Elapsed, HowMany, One
  <2>3. StreamType
    BY <2>1, <2>2, CutsAssumption DEF D!CPUAssumption, StreamType, Arrays
  <2>4. Filled(fed, 3 * Elapsed, base, offset_, inserted_)
    BY <2>1, <2>2 DEF Filled
  <2>5. StreamInv
    BY <2>1, <2>2, <2>3, <2>4 DEF StreamInv
  <2>6. RandomInv
    BY <2>1, <2>2 DEF RandomInv, D!Init
  <2>. QED
    BY <2>5, <2>6 DEF ElementInv
<1>2. ElementInv /\ [D!Next]_(D!vars) => ElementInv'
  <2>. SUFFICES ASSUME ElementInv, [D!Next]_(D!vars) PROVE ElementInv'
    OBVIOUS
  <2>1. CASE D!StreamTick
    BY <2>1, StreamKeeps DEF D!StreamTick, ElementInv
  <2>2. CASE D!RandomTick
    BY <2>2, RandomKeeps DEF D!RandomTick, ElementInv
  <2>3. CASE D!TraceTick
    BY <2>3 DEF D!TraceTick, ElementInv
  <2>4. CASE UNCHANGED D!vars
    BY <2>4 DEF D!vars, D!streamVars, ElementInv, StreamInv, StreamType, RandomInv, Elapsed
  <2>. QED
    BY <2>1, <2>2, <2>3, <2>4 DEF D!Next
<1>3. ElementInv => NothingSkipped
  <2>. SUFFICES ASSUME ElementInv PROVE NothingSkipped
    OBVIOUS
  <2>1. ASSUME cpu = "stream", NEW j \in 1..(Len(fed) \div 3) PROVE Group(fed, j)
    <3>1. StreamInv
      BY <2>1 DEF ElementInv
    <3>2. HowMany(inserted_) \in 0..2
      <4>1. ~("a" \in inserted_ /\ "b" \in inserted_ /\ "c" \in inserted_)
        BY <3>1 DEF StreamInv, StreamType, Arrays
      <4>. QED
        BY <4>1 DEF HowMany, One
    <3>3. Elapsed \in Nat
      <4>1. \A x, y \in Nat : x * y \in Nat
        OBVIOUS
      <4>2. base # 0 => base - 1 \in Nat
        BY <3>1 DEF StreamInv, StreamType
      <4>3. Elements \in Nat /\ offset_ \in Nat
        BY <3>1, CutsAssumption DEF D!CPUAssumption, StreamInv, StreamType
      <4>. QED
        BY <4>1, <4>2, <4>3 DEF Elapsed
    <3>4. Len(fed) = 3 * Elapsed + HowMany(inserted_)
      BY <3>1 DEF StreamInv
    <3>5. j \in 1..Elapsed
      BY <3>2, <3>3, <3>4
    <3>. QED
      BY <3>1, <3>5 DEF StreamInv
  <2>2. cpu = "random" => \A k \in 1..Len(fed) : fed[k].base = k
    BY DEF ElementInv, RandomInv
  <2>. QED
    BY <2>1, <2>2 DEF NothingSkipped, D!NothingSkipped, Group, Arrays
<1>. QED
  BY <1>1, <1>2, <1>3, PTL DEF D!SafeSpec
=============================================================================
