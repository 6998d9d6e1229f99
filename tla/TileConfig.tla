------------------------------ MODULE TileConfig ------------------------------
(***************************************************************************)
(* How a layer is cut to the size of the buffers (config.cpp, TileConfig,  *)
(* LayerConfig's sizes, tool.cpp) and where the combination engine reads   *)
(* and writes what was cut (comb.cpp).  Addresses count from the beginning *)
(* of their region.  The configuration is a variable that Init chooses.    *)
(***************************************************************************)
EXTENDS Integers, FiniteSetsExt

CONSTANT HyConfigs   \* records of the fields of SysConfig and LayerConfig

VARIABLE hy

CeilDiv(n, m) == (n + m - 1) \div m
UpperAlign(n, chunk) == CeilDiv(n, chunk) * chunk
LowerAlign(n, chunk) == (n \div chunk) * chunk

\* What the cut reads of SysConfig (block_size and the capacities), of
\* LayerConfig (the bytes of an element and of an index, the weights' height
\* and width) and of the graph (num_vertex).
Fields ==
  {"block_size", "data_bytes", "idx_bytes", "num_vertex", "weight_h", "weight_w",
   "cap_wbuf", "cap_inbuf", "cap_aggrbuf", "cap_comb_inbuf", "cap_outbuf",
   "cap_edgebuf"}

\* What the code divides by, and does not check: a square of whole blocks of
\* weights fits the weight buffer, a row of it the others, and a feature
\* vector every buffer of vectors.  SysConfig and LayerConfig assert the rest;
\* AddrMapper that an edge chunk is made of whole blocks.
ASSUME TileConfigAssumption ==
  \A c \in HyConfigs :
    /\ c \in [Fields -> Nat \ {0}]
    /\ c.block_size % c.data_bytes = 0
    /\ c.block_size * (c.block_size \div c.data_bytes) <= c.cap_wbuf
    /\ UpperAlign(c.data_bytes * c.weight_h, c.block_size) <=
         Min({c.cap_inbuf, c.cap_aggrbuf})
    /\ c.cap_edgebuf % c.block_size = 0

\* LayerConfig.
space_aligned_vertex == UpperAlign(hy.data_bytes * hy.weight_h, hy.block_size)
space_aligned_output_vertex == UpperAlign(hy.data_bytes * hy.weight_w, hy.block_size)

-----------------------------------------------------------------------------
(* The cut of the weights.                                                 *)

ele_block == hy.block_size \div hy.data_bytes
ele_wbuf == hy.cap_wbuf \div hy.data_bytes
aligned_weight_h == UpperAlign(hy.weight_h, ele_block)
aligned_weight_w == UpperAlign(hy.weight_w, ele_block)

\* Mutant: the side of the square is not brought down to whole blocks.
SquareChunk_Unaligned == Max({k \in 1..ele_wbuf : k * k <= ele_wbuf})

\* The largest square of whole blocks that fits the weight buffer.
SquareChunk ==
  LowerAlign(Max({k \in 1..ele_wbuf : k * k <= ele_wbuf}), ele_block)

\* Height and width of a chunk of weights: all of them, or the square, or a
\* strip when the matrix is shorter or narrower than the square.  NoChunk is
\* the last else, which ends the program.
NoChunk == [h |-> 0, w |-> 0]
Chunk ==
  CASE aligned_weight_h * aligned_weight_w * hy.data_bytes <= hy.cap_wbuf ->
         [h |-> aligned_weight_h, w |-> aligned_weight_w]
    [] OTHER ->
         CASE aligned_weight_h >= SquareChunk /\ aligned_weight_w >= SquareChunk ->
                [h |-> SquareChunk, w |-> SquareChunk]
           [] aligned_weight_h < SquareChunk /\ aligned_weight_w > SquareChunk ->
                [h |-> aligned_weight_h,
                 w |-> LowerAlign(ele_wbuf \div aligned_weight_h, ele_block)]
           [] aligned_weight_w < SquareChunk /\ aligned_weight_h > SquareChunk ->
                [h |-> LowerAlign(ele_wbuf \div aligned_weight_w, ele_block),
                 w |-> aligned_weight_w]
           [] OTHER -> NoChunk

sz_comb_h_chunk == Chunk.h * hy.data_bytes
sz_comb_w_chunk == Chunk.w * hy.data_bytes
num_comb_h_chunk == CeilDiv(aligned_weight_h, Chunk.h)
num_comb_w_chunk == CeilDiv(aligned_weight_w, Chunk.w)
space_weight_block == Chunk.h * Chunk.w * hy.data_bytes
space_aligned_weight == space_weight_block * num_comb_h_chunk * num_comb_w_chunk

-----------------------------------------------------------------------------
(* The vertices of a batch, of an edge chunk and of an input buffer.       *)

sz_comb_batch ==
  Min({hy.cap_comb_inbuf \div sz_comb_h_chunk, hy.cap_outbuf \div sz_comb_w_chunk})
ele_aggr_h_interval == hy.cap_inbuf \div space_aligned_vertex
ele_aggr_w_interval ==
  Min({hy.cap_aggrbuf \div space_aligned_vertex, CeilDiv(hy.num_vertex, 2)})

\* The constructor ends the program for want of a chunk or of a batch.
Aborts == Chunk = NoChunk \/ sz_comb_batch <= 1

-----------------------------------------------------------------------------
(* What Comb reads and writes.                                             *)

InputChunks == 0..(num_comb_h_chunk - 1)
OutputChunks == 0..(num_comb_w_chunk - 1)

\* FetchWeights: row r of the weights for input chunk i and output chunk o.
WeightAddr(i, o, r) ==
  (i * num_comb_w_chunk + o) * space_weight_block + r * sz_comb_w_chunk

\* Mutant: the last read of a vector takes a whole chunk as the others do.
FeatureBytes_Whole(i) == sz_comb_h_chunk

\* FetchFeatures: chunk i of a vector, the last one what is left.
FeatureAddr(i) == i * sz_comb_h_chunk
FeatureBytes(i) ==
  IF i = num_comb_h_chunk - 1 THEN space_aligned_vertex - FeatureAddr(i)
                              ELSE sz_comb_h_chunk

\* WriteFeatures: row r, output chunk o of the batch that begins with vertex
\* done.  Only r is multiplied by the space of a vertex.
OutputAddr(done, r, o) ==
  done + r * space_aligned_output_vertex + o * sz_comb_w_chunk
=============================================================================
