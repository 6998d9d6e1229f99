----------------------------- MODULE AddrMapper -----------------------------
(***************************************************************************)
(* First the tiles are cut (TileConfig.tla).  Then:                        *)
(* how AddrMapper (config.cpp) cuts a layer's vertices into edge chunks: a *)
(* greedy scan that closes a chunk when the next vertex's edges no longer  *)
(* fit the edge buffer, or when the chunk has as many vertices as the      *)
(* aggregation buffer can take.  One step is one turn of the loop.         *)
(***************************************************************************)
EXTENDS TileConfig, Sequences

CONSTANT Degrees   \* the in-degrees a vertex may have, r_adj[i].size()

ASSUME AddrMapperAssumption == Degrees \subseteq Nat

num_vertex == hy.num_vertex
space_edge_chunk == hy.cap_edgebuf
max_vertex == ele_aggr_w_interval

Vertices == 0..(num_vertex - 1)

VARIABLES
  pc,                     \* "tile", "scan", "done", or "abort" for AbruptExit
  degree,                 \* the graph
  i,                      \* the vertex the scan has reached
  edge_size, vertex_size, \* of the chunk being filled
  end_vertex_of_echunk    \* the ends of the chunks closed

vars == <<hy, pc, degree, i, edge_size, vertex_size, end_vertex_of_echunk>>

Init ==
  /\ hy \in HyConfigs
  /\ pc = "tile"
  /\ degree = [v \in Vertices |-> 0]
  /\ i = 0 /\ edge_size = 0 /\ vertex_size = 0
  /\ end_vertex_of_echunk = <<>>

\* What vertex v takes of the edge buffer.
EdgeInfo(v) == hy.idx_bytes + degree[v] * (hy.idx_bytes + hy.data_bytes)

\* TileConfig's constructor comes first; then the mapper is given the graph.
CutTiles ==
  /\ pc = "tile"
  /\ degree' \in [Vertices -> Degrees]
  /\ pc' = IF Aborts THEN "abort" ELSE "scan"
  /\ UNCHANGED <<hy, i, edge_size, vertex_size, end_vertex_of_echunk>>

ChunkFull ==
  edge_size + EdgeInfo(i) > space_edge_chunk \/ vertex_size > max_vertex - 1

\* A single vertex does not fit the edge buffer: the program exits.
TooBig ==
  /\ pc = "scan" /\ i < num_vertex /\ EdgeInfo(i) > space_edge_chunk
  /\ pc' = "abort"
  /\ UNCHANGED <<hy, degree, i, edge_size, vertex_size, end_vertex_of_echunk>>

\* Mutants: one of the two sizes is not reset.
CloseChunk_KeepVertices ==
  /\ pc = "scan" /\ i < num_vertex /\ EdgeInfo(i) <= space_edge_chunk
  /\ ChunkFull
  /\ end_vertex_of_echunk' = Append(end_vertex_of_echunk, i)
  /\ edge_size' = 0
  /\ UNCHANGED <<hy, pc, degree, i, vertex_size>>
CloseChunk_KeepBytes ==
  /\ pc = "scan" /\ i < num_vertex /\ EdgeInfo(i) <= space_edge_chunk
  /\ ChunkFull
  /\ end_vertex_of_echunk' = Append(end_vertex_of_echunk, i)
  /\ vertex_size' = 0
  /\ UNCHANGED <<hy, pc, degree, i, edge_size>>

CloseChunk ==
  /\ pc = "scan" /\ i < num_vertex /\ EdgeInfo(i) <= space_edge_chunk
  /\ ChunkFull
  /\ end_vertex_of_echunk' = Append(end_vertex_of_echunk, i)
  /\ edge_size' = 0 /\ vertex_size' = 0
  /\ UNCHANGED <<hy, pc, degree, i>>

AddVertex ==
  /\ pc = "scan" /\ i < num_vertex /\ EdgeInfo(i) <= space_edge_chunk
  /\ ~ChunkFull
  /\ edge_size' = edge_size + EdgeInfo(i)
  /\ vertex_size' = vertex_size + 1
  /\ i' = i + 1
  /\ UNCHANGED <<hy, pc, degree, end_vertex_of_echunk>>

\* After the loop the chunk being filled is closed if it has any bytes.
LastChunk ==
  /\ pc = "scan" /\ i >= num_vertex
  /\ end_vertex_of_echunk' =
       IF edge_size # 0 THEN Append(end_vertex_of_echunk, num_vertex)
                        ELSE end_vertex_of_echunk
  /\ pc' = "done"
  /\ UNCHANGED <<hy, degree, i, edge_size, vertex_size>>

Next == CutTiles \/ TooBig \/ CloseChunk \/ AddVertex \/ LastChunk

SafeSpec == Init /\ [][Next]_vars

-----------------------------------------------------------------------------
NumChunk == Len(end_vertex_of_echunk)
EndOf(k) == end_vertex_of_echunk[k]
StartOf(k) == IF k = 1 THEN 0 ELSE EndOf(k - 1)
LastEnd == IF NumChunk = 0 THEN 0 ELSE EndOf(NumChunk)

\* The chunks closed so far follow one another from vertex 0, each has
\* vertices and no more than the aggregation buffer takes, and the one being
\* filled goes on where the last one ends.  At the end they cover the layer.
\* This is what Aggr assumes of its chunks.
ChunksCover ==
  /\ \A k \in 1..NumChunk :
       StartOf(k) < EndOf(k) /\ EndOf(k) - StartOf(k) <= max_vertex
  /\ edge_size <= space_edge_chunk
  /\ pc = "scan" => LastEnd + vertex_size = i
  /\ pc = "done" => LastEnd = num_vertex

\* The bytes of the edges of all vertices before v, and of those from u up to v.
BytesBefore[v \in 0..num_vertex] ==
  IF v = 0 THEN 0 ELSE BytesBefore[v - 1] + EdgeInfo(v - 1)
EdgeBytes(u, v) == BytesBefore[v] - BytesBefore[u]

\* A chunk fits the edge buffer, and the scan is greedy: the first vertex of
\* the next chunk would not have fitted, for want of bytes or of vertices.
ChunksFit ==
  /\ \A k \in 1..NumChunk : EdgeBytes(StartOf(k), EndOf(k)) <= space_edge_chunk
  /\ \A k \in 1..(NumChunk - 1) :
       \/ EdgeBytes(StartOf(k), EndOf(k) + 1) > space_edge_chunk
       \/ EndOf(k) - StartOf(k) = max_vertex

\* A chunk of weights fits its buffer and is made of whole blocks; the chunks
\* cover the matrix and none is empty; the rows of a batch fit the engine's
\* input and output buffers; and the last else of the cut is never reached.
TilesFit ==
  pc = "tile" =>
    /\ Chunk # NoChunk
    /\ space_weight_block <= hy.cap_wbuf
    /\ Chunk.h % ele_block = 0 /\ Chunk.w % ele_block = 0
    /\ (num_comb_h_chunk - 1) * Chunk.h < aligned_weight_h
    /\ (num_comb_w_chunk - 1) * Chunk.w < aligned_weight_w
    /\ aligned_weight_h <= num_comb_h_chunk * Chunk.h
    /\ aligned_weight_w <= num_comb_w_chunk * Chunk.w
    /\ ~Aborts => /\ sz_comb_batch * sz_comb_h_chunk <= hy.cap_comb_inbuf
                  /\ sz_comb_batch * sz_comb_w_chunk <= hy.cap_outbuf

\* The reads of the weights, block by block and row by row, take every byte of
\* their region once; the reads of a vector every byte of it once, and none is
\* of no bytes, which would never be answered (event.cpp:19: no transactions).
ReadsTile ==
  pc = "tile" =>
    /\ LET rows == {WeightAddr(c, o, r) :
                      c \in InputChunks, o \in OutputChunks, r \in 0..(Chunk.h - 1)}
       IN  /\ sz_comb_w_chunk > 0
           /\ rows = {k * sz_comb_w_chunk :
                        k \in 0..((space_aligned_weight \div sz_comb_w_chunk) - 1)}
           /\ Cardinality(rows) = num_comb_h_chunk * num_comb_w_chunk * Chunk.h
    /\ \A c \in InputChunks :
         /\ FeatureBytes(c) > 0
         /\ FeatureAddr(c) + FeatureBytes(c) =
              IF c + 1 \in InputChunks THEN FeatureAddr(c + 1) ELSE space_aligned_vertex

\* Each vertex has its own space for its result (config.cpp:129 reserves
\* num_vertex * space_aligned_output_vertex): the first chunks of two rows do
\* not overlap.  The code does not keep it: see OutputAddr.
OutputRowsApart ==
  LET addr(v) == OutputAddr(v - (v % sz_comb_batch), v % sz_comb_batch, 0)
      bytes == Min({sz_comb_w_chunk, space_aligned_output_vertex})
  IN  pc = "done" => \A u, v \in 0..(hy.num_vertex - 1) :
                        u < v => addr(u) + bytes <= addr(v) \/ addr(v) + bytes <= addr(u)
=============================================================================
