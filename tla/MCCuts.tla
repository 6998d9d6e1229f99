------------------------------- MODULE MCCuts -------------------------------
(***************************************************************************)
(* The loops of Cuts, each on all of its small inputs.  A behaviour is one *)
(* of the five; the state of the others rests.                             *)
(***************************************************************************)
EXTENDS Cuts, SequencesExt

graphVars ==
  <<load_pc, graph_edge, adj, r_adj, num_edge, sample_size, sampled, sample_csv, hash_adj,
    src, ele_per_page, layout_row, layout_col, current_page_cells_, edge_pages_>>
cpuVars == <<cpu, clk_, get_next_, fed, lines, newline, line_pos, eof, trans_, base, offset_,
             inserted_>>
partVars == <<part_pc, edges, edge_set, partitions>>
mapVars == <<map_pc, config, ranks, channel_size, fields, field_pos, pos>>

Layer(height, width, wbuf, outbuf, n) ==
  [block_size |-> 2, data_bytes |-> 1, idx_bytes |-> 1, num_vertex |-> n,
   weight_h |-> height, weight_w |-> width,
   cap_wbuf |-> wbuf, cap_inbuf |-> 16, cap_aggrbuf |-> 24,
   cap_comb_inbuf |-> 16, cap_outbuf |-> outbuf, cap_edgebuf |-> 6]

\* Matrices that fit, squares, strips either way, and buffers too small for a
\* batch of two; blocks of two elements of one byte.
MCHyConfigs ==
  {Layer(h, w, wbuf, outbuf, n) :
     h \in {1, 3, 5, 8}, w \in {2, 5, 7}, wbuf \in {4, 9, 12, 20},
     outbuf \in {6, 12}, n \in {1, 5}}

\* Channels of one, two and three ranks, and three of some other thing; a
\* kilobyte is two bytes.  The fields come in every order.
Structure(chs, groups, rows, BL, size) ==
  [channels |-> chs, bankgroups |-> groups, banks_per_group |-> 2, rows |-> rows,
   columns |-> 4, device_width |-> 8, bus_width |-> 16, BL |-> BL, channel_size |-> size]

MCStructures ==
  { Structure(2, 2, 2, 2, 8), Structure(1, 2, 4, 1, 40), Structure(1, 1, 2, 4, 16),
    Structure(1, 2, 2, 2, 16), Structure(2, 1, 2, 2, 26), Structure(3, 1, 2, 1, 8),
    Structure(1, 3, 2, 2, 12), Structure(1, 1, 6, 3, 12),
    [Structure(1, 1, 2, 2, 12) EXCEPT !.bus_width = 24],
    [Structure(1, 1, 2, 3, 12) EXCEPT !.bus_width = 24] }

MCMappings == SetToSeqs({"ch", "ra", "bg", "ba", "ro", "co"})

\* Files of at most three edges: some twice, self loops, vertices without edges.
MCFiles ==
  LET ends == 0..(graph_num_vertex - 1)
  IN  UNION {[1..n -> ends \X ends] : n \in 0..3}

\* Traces of one line, or three of all kinds, at once or later than the line
\* before.
Line(is_write, cycle) == [addr |-> 0, is_write |-> is_write, added_cycle |-> cycle]

MCTraces ==
  {<<Line(TRUE, 0)>>} \cup
  {<<Line(w, 0), Line(x, c), Line(y, d)>> :
     w \in BOOLEAN, x \in BOOLEAN, y \in BOOLEAN, c \in {0, 2}, d \in {0, 3}}

-----------------------------------------------------------------------------
RestAddrMapper ==
  /\ hy = Layer(1, 2, 4, 6, 1) /\ pc = "rest" /\ degree = [v \in Vertices |-> 0]
  /\ i = 0 /\ edge_size = 0 /\ vertex_size = 0 /\ end_vertex_of_echunk = <<>>
RestPartition ==
  /\ part_pc = "rest" /\ edges = [r \in P!RowIds |-> <<>>] /\ edge_set = edges
  /\ partitions = <<>>
RestAddressMap ==
  /\ map_pc = "rest" /\ config = Structure(1, 1, 2, 4, 16) /\ channel_size = 0
  /\ ranks = 0 /\ fields = <<>> /\ field_pos = <<>> /\ pos = 0

RestGraphLoader ==
  /\ load_pc = "rest" /\ graph_edge = <<>> /\ adj = G!NoEdges /\ r_adj = G!NoEdges
  /\ num_edge = 0 /\ sample_size = 0 /\ sampled = G!NoEdges /\ sample_csv = <<>>
  /\ hash_adj = [v \in G!Vertices |-> {}] /\ src = 0 /\ ele_per_page = 0
  /\ layout_row = 0 /\ layout_col = -1 /\ current_page_cells_ = <<>> /\ edge_pages_ = <<>>
RestCPU ==
  /\ cpu = "rest" /\ clk_ = 0 /\ get_next_ = TRUE /\ fed = <<>> /\ lines = <<>>
  /\ newline = TRUE /\ line_pos = 0 /\ eof = FALSE /\ trans_ = Line(FALSE, 0)
  /\ base = 0 /\ offset_ = 0 /\ inserted_ = {}

CutsInit ==
  \/ Init /\ RestPartition /\ RestAddressMap /\ RestGraphLoader /\ RestCPU
  \/ P!Init /\ RestAddrMapper /\ RestAddressMap /\ RestGraphLoader /\ RestCPU
  \/ M!Init /\ RestAddrMapper /\ RestPartition /\ RestGraphLoader /\ RestCPU
  \/ G!Init /\ RestAddrMapper /\ RestPartition /\ RestAddressMap /\ RestCPU
  \/ D!Init /\ RestAddrMapper /\ RestPartition /\ RestAddressMap /\ RestGraphLoader

CutsNext ==
  \/ Next /\ UNCHANGED <<partVars, mapVars, graphVars, cpuVars>>
  \/ P!Next /\ UNCHANGED <<vars, mapVars, graphVars, cpuVars>>
  \/ M!Next /\ UNCHANGED <<vars, partVars, graphVars, cpuVars>>
  \/ G!Next /\ UNCHANGED <<vars, partVars, mapVars, cpuVars>>
  \/ D!Next /\ UNCHANGED <<vars, partVars, mapVars, graphVars>>

CutsSpec == CutsInit /\ [][CutsNext]_<<vars, partVars, mapVars, graphVars, cpuVars>>
=============================================================================
