--------------------------------- MODULE Cuts ---------------------------------
(***************************************************************************)
(* The loops that go through data from its beginning to its end, side by   *)
(* side.  Those that cut things up: weights into tiles and vertices into   *)
(* chunks (AddrMapper), the edges of a chunk into parts (Partition), the   *)
(* bits of an address into fields (AddressMap), the edges of a graph into  *)
(* lists, sets and pages (GraphLoader); and those that feed the memory     *)
(* with what a trace or an array has (CPU).  They have nothing in common   *)
(* but what they must keep: all is covered, once, and fits where it goes.  *)
(***************************************************************************)
EXTENDS AddrMapper

CONSTANTS
  raw_num_vertex, num_row, max_degree, ele_h_interval,                  \* Partition
  Structures, Mappings, Kilo,                                           \* AddressMap
  graph_num_vertex, Files, SampleSizes, PageSizes,                      \* GraphLoader
  Traces, MaxClk, Elements, MaxBases                                    \* CPU

VARIABLES
  part_pc, edges, edge_set, partitions,                                 \* Partition
  map_pc, config, ranks, channel_size, fields, field_pos, pos,          \* AddressMap
  load_pc, graph_edge, adj, r_adj, num_edge, sample_size, sampled,      \* GraphLoader
  sample_csv, hash_adj, src, ele_per_page, layout_row, layout_col,
  current_page_cells_, edge_pages_,
  cpu, clk_, get_next_, fed, lines, newline, line_pos, eof, trans_,     \* CPU
  base, offset_, inserted_

P == INSTANCE Partition WITH num_vertex <- raw_num_vertex, pc <- part_pc
M == INSTANCE AddressMap WITH Configs <- Structures, pc <- map_pc
G == INSTANCE GraphLoader WITH num_vertex <- graph_num_vertex, pc <- load_pc,
                               row <- layout_row, col <- layout_col
D == INSTANCE CPU WITH pos <- line_pos

\* What the other four take for granted.
ASSUME CutsAssumption ==
  /\ P!PartitionAssumption /\ M!AddressMapAssumption
  /\ G!GraphAssumption /\ D!CPUAssumption

-----------------------------------------------------------------------------
\* The cut of the weights covers the matrix, fits the buffers, and is read
\* once (comb.cpp, FetchWeights and FetchFeatures).
TilesCover == TilesFit /\ ReadsTile

\* No edge of a chunk is lost, repeated, put out of order, or read twice.
PartsLossless == P!Lossless /\ P!NoneReadTwice

\* A part has edges, and its neighbours fit an input buffer.
PartsFit == P!NeighborsFit /\ P!PartsHaveEdges

\* Every request has its own place in the DRAM (configuration.cc,
\* SetAddressMapping), and every place is some request's when the structure is
\* in powers of two.
PlacesApart == M!PlacesApart /\ M!AllUsed

\* Whatever a graph goes through before the first tick, it joins the vertices
\* that the file joins, each pair as often as it should; all but a reloaded
\* sample say which end is the source as the file does (graph.cpp).
EdgesKept == G!EdgesKept

\* A sample that is loaded again has the incoming edges that were sampled
\* (graph.h:19).  The code does not keep it.
ReloadSame == G!ReloadSame

\* The undirected graph has the edges of the file and their reverses, and no
\* others, although the lists change under the loop (HashGraph::ToUndirected).
Undirected == G!Undirected

\* Read page by page, the layout gives the edges of the graph in their order
\* (graph.cpp, EdgeCompress).
PagesDecode == G!PagesDecode

\* The memory is given the lines of the trace in their order, none before one
\* that was refused (cpu.cc, TraceBasedCPU).
TraceInOrder == D!TraceInOrder

\* The elements of the arrays follow one another and each has its three
\* accesses before the next begins, whatever was refused (cpu.cc, StreamCPU);
\* and the random CPU skips no transaction.
NothingSkipped == D!NothingSkipped
=============================================================================
