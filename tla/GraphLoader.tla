----------------------------- MODULE GraphLoader -----------------------------
(***************************************************************************)
(* What becomes of a graph before the first tick (graph.cpp, graph.h):     *)
(* loaded from a file of edges, it is normalised for GCN and GIN, or       *)
(* sampled, dumped and loaded again for GraphSAGE, as HyConfig::Init has   *)
(* it; HashGraph, Reorder and EdgeCompress are there for callers.  One     *)
(* step is one function, or one turn of ToUndirected's loop, which changes *)
(* the lists it goes through, or one call of FillEdgePage.                 *)
(*                                                                         *)
(* EdgeCompress lays the lists out in pages of cells, in pairs: an index   *)
(* and a value.  A row begins with a pair of value -1, which comes again   *)
(* at the head of every page that goes on with the row.                    *)
(***************************************************************************)
EXTENDS Integers, SequencesExt, FiniteSetsExt

CONSTANTS
  num_vertex,
  Files,          \* edge files: sequences of lines <<src, dst>>
  SampleSizes,
  PageSizes       \* ele_per_page: sz_page by the bytes of an index and a value

Vertices == 0..(num_vertex - 1)

\* LoadGraph asserts that the vertices are those of the graph.  The number of
\* cells is compared with the elements of a page, for equality: pages end only
\* where it is even, and has room for a row and an edge.
GraphAssumption ==
  /\ num_vertex \in Nat \ {0} /\ SampleSizes \subseteq Nat \ {0}
  /\ Files \subseteq Seq(Vertices \X Vertices)
  /\ \A n \in PageSizes : n \in Nat /\ n % 2 = 0 /\ n >= 4

VARIABLES
  pc,             \* the last function called
  graph_edge,     \* the file
  adj, r_adj,     \* of the graph at hand: targets and sources of each vertex
  num_edge,
  sample_size,
  sampled,        \* r_adj of the graph that was sampled, and the file it is in
  sample_csv,
  hash_adj,       \* HashGraph: sets of targets
  src,            \* the turn of ToUndirected
  ele_per_page,
  row, col,       \* the row that is laid out, and its columns that are; -1: no head yet
  current_page_cells_, edge_pages_

rawVars == <<adj, r_adj, num_edge>>
sampleVars == <<sample_size, sampled, sample_csv>>
hashVars == <<hash_adj, src>>
layoutVars == <<ele_per_page, row, col, current_page_cells_, edge_pages_>>
vars == <<pc, graph_edge, rawVars, sampleVars, hashVars, layoutVars>>

NoEdges == [v \in Vertices |-> <<>>]

Init ==
  /\ pc = "init"
  /\ graph_edge \in Files
  /\ adj = NoEdges /\ r_adj = NoEdges /\ num_edge = Len(graph_edge)
  /\ sample_size = 0 /\ sampled = NoEdges /\ sample_csv = <<>>
  /\ hash_adj = [v \in Vertices |-> {}] /\ src = 0
  /\ ele_per_page = 0 /\ row = 0 /\ col = -1
  /\ current_page_cells_ = <<>> /\ edge_pages_ = <<>>

-----------------------------------------------------------------------------
\* Line by line, what one end is linked to is put behind the list of the other.
LinkedTo(lines, v, this, other) ==
  LET list[k \in 0..Len(lines)] ==
        IF k = 0 THEN <<>>
        ELSE IF lines[k][this] = v THEN Append(list[k - 1], lines[k][other])
                                   ELSE list[k - 1]
  IN  list[Len(lines)]

Sources(lines, v) == LinkedTo(lines, v, 2, 1)
Targets(lines, v) == LinkedTo(lines, v, 1, 2)

LoadGraph ==
  /\ pc = "init"
  /\ adj' = [v \in Vertices |-> Targets(graph_edge, v)]
  /\ r_adj' = [v \in Vertices |-> Sources(graph_edge, v)]
  /\ pc' = "loaded"
  /\ UNCHANGED <<graph_edge, num_edge, sampleVars, hashVars, layoutVars>>

\* A set of vertices in ascending order.
InOrder(S) ==
  CHOOSE list \in [1..Cardinality(S) -> S] : \A j, k \in DOMAIN list : j < k => list[j] < list[k]

\* As many edges as the lists have.
Places(lists) == UNION {{v} \X DOMAIN lists[v] : v \in Vertices}
NumEdges(lists) == Cardinality(Places(lists))

\* Mutant: a vertex is not made its own neighbour.
SelfAndSources_NoSelf(v) == ToSet(r_adj[v])

SelfAndSources(v) == ToSet(r_adj[v]) \cup {v}

\* The new graph has no outgoing edges.
GetGcnNormGraph ==
  /\ pc = "loaded"
  /\ r_adj' = [v \in Vertices |-> InOrder(SelfAndSources(v))]
  /\ num_edge' = NumEdges(r_adj')
  /\ adj' = NoEdges
  /\ pc' = "normalised"
  /\ UNCHANGED <<graph_edge, sampleVars, hashVars, layoutVars>>

\* Mutant: vertex by vertex, the same source is not written twice.
DumpEdge_Distinct(lists) ==
  FlattenSeq([k \in 1..num_vertex |->
                LET once == InOrder(ToSet(lists[k - 1]))
                IN  [j \in DOMAIN once |-> <<k - 1, once[j]>>]])

\* A line names the vertex first and then the source: the other way round
\* than in a file of edges.
RowsOf(lists, n) ==
  [k \in 1..n |-> [j \in DOMAIN lists[k - 1] |-> <<k - 1, lists[k - 1][j]>>]]
DumpEdge(lists) == FlattenSeq(RowsOf(lists, num_vertex))

\* Sources are drawn one by one, with replacement, and sorted: any that ascend.
\* The graph is written to a file; what is loaded of it later has the sources
\* only.
GetSampleGraph ==
  /\ pc = "loaded"
  /\ \E size \in SampleSizes :
       /\ sample_size' = size
       /\ \E draws \in [Vertices -> [1..size -> Vertices]] :
            /\ \A v \in Vertices : r_adj[v] # <<>> => ToSet(draws[v]) \subseteq ToSet(r_adj[v])
            /\ \A v \in Vertices : \A j, k \in 1..size : j < k => draws[v][j] <= draws[v][k]
            /\ \A v \in Vertices : r_adj[v] = <<>> => \A k \in 1..size : draws[v][k] = 0
            /\ sampled' = [v \in Vertices |-> IF r_adj[v] = <<>> THEN <<>> ELSE draws[v]]
  /\ sample_csv' = DumpEdge(sampled')
  /\ pc' = "sampled"
  /\ UNCHANGED <<graph_edge, rawVars, hashVars, layoutVars>>

\* The file is read as a file of edges.
LoadSampleGraph ==
  /\ pc = "sampled"
  /\ r_adj' = [v \in Vertices |-> Sources(sample_csv, v)]
  /\ num_edge' = sample_size * num_vertex
  /\ adj' = NoEdges
  /\ pc' = "reloaded"
  /\ UNCHANGED <<graph_edge, sampleVars, hashVars, layoutVars>>

-----------------------------------------------------------------------------
\* Mutant: the vertex has its new number, its neighbours the old ones.
Renamed_KeysOnly(lists, new) ==
  [w \in Vertices |-> lists[CHOOSE v \in Vertices : new[v] = w]]

\* The lists of a graph whose vertices have new numbers.
Renamed(lists, new) ==
  [w \in Vertices |->
     LET list == lists[CHOOSE v \in Vertices : new[v] = w]
     IN  [k \in DOMAIN list |-> new[list[k]]]]

\* reorder_map gives every vertex a number of its own.
Reorder ==
  /\ pc = "loaded"
  /\ \E new \in {f \in [Vertices -> Vertices] : ToSet([k \in 1..num_vertex |-> f[k - 1]])
                                                = Vertices} :
       adj' = Renamed(adj, new) /\ r_adj' = Renamed(r_adj, new)
  /\ pc' = "reordered"
  /\ UNCHANGED <<graph_edge, num_edge, sampleVars, hashVars, layoutVars>>

\* The constructor asserts that no edge is there twice.
HashGraph ==
  /\ pc = "loaded" /\ \A v \in Vertices : Cardinality(ToSet(adj[v])) = Len(adj[v])
  /\ hash_adj' = [v \in Vertices |-> ToSet(adj[v])]
  /\ src' = 0
  /\ pc' = "hashed"
  /\ UNCHANGED <<graph_edge, rawVars, sampleVars, layoutVars>>

SelfLoopLess ==
  /\ pc = "hashed" /\ src = 0
  /\ hash_adj' = [v \in Vertices |-> hash_adj[v] \ {v}]
  /\ UNCHANGED <<pc, graph_edge, rawVars, sampleVars, src, layoutVars>>

\* Mutant: the edge is put into the list that is being gone through.
Back_Same(v) == [hash_adj EXCEPT ![v] = @ \cup {v}]

\* The edges back to v, in the lists of its targets as they are by now.
Back(v) == [w \in Vertices |-> IF w \in hash_adj[v] THEN hash_adj[w] \cup {v}
                                                    ELSE hash_adj[w]]

ToUndirected ==
  /\ pc = "hashed" /\ src < num_vertex
  /\ hash_adj' = Back(src)
  /\ src' = src + 1
  /\ UNCHANGED <<pc, graph_edge, rawVars, sampleVars, layoutVars>>

\* After the loop the edges are counted.
Edges(sets) == MapThenSumSet(LAMBDA v : Cardinality(sets[v]), Vertices)

CountEdges ==
  /\ pc = "hashed" /\ src = num_vertex
  /\ num_edge' = Edges(hash_adj)
  /\ pc' = "undirected"
  /\ UNCHANGED <<graph_edge, adj, r_adj, sampleVars, hashVars, layoutVars>>

-----------------------------------------------------------------------------
Head1(r) == <<r, -1>>
Edge1(c) == <<c, 0>>

\* Mutant: a page that goes on with a row does not name it.
WithHead_RowsOnly(page, r, vertex_head) == IF vertex_head THEN page \o Head1(r) ELSE page

\* A new page, or a new row.
WithHead(page, r, vertex_head) ==
  IF page = <<>> \/ vertex_head THEN page \o Head1(r) ELSE page

PageFull == Len(current_page_cells_) = ele_per_page

\* A full page is put away first.
FillEdgePage(r, edge, vertex_head) ==
  LET page == IF PageFull THEN <<>> ELSE current_page_cells_
  IN  /\ edge_pages_' = IF PageFull THEN Append(edge_pages_, current_page_cells_)
                                    ELSE edge_pages_
      /\ current_page_cells_' = WithHead(page, r, vertex_head) \o edge

\* The lists of sources are laid out, as any caller may ask.
GenEdgeLayout ==
  /\ pc \in {"loaded", "normalised"}
  /\ ele_per_page' \in PageSizes /\ edge_pages_' = <<>>
  /\ pc' = "layout"
  /\ UNCHANGED <<graph_edge, rawVars, sampleVars, hashVars, row, col, current_page_cells_>>

FillRow ==
  /\ pc = "layout" /\ row \in Vertices /\ col = -1
  /\ FillEdgePage(row, <<>>, TRUE)
  /\ col' = 0
  /\ UNCHANGED <<pc, graph_edge, rawVars, sampleVars, hashVars, ele_per_page, row>>

FillEdge ==
  /\ pc = "layout" /\ row \in Vertices /\ col + 1 \in DOMAIN r_adj[row]
  /\ FillEdgePage(row, Edge1(r_adj[row][col + 1]), FALSE)
  /\ col' = col + 1
  /\ UNCHANGED <<pc, graph_edge, rawVars, sampleVars, hashVars, ele_per_page, row>>

NextRow ==
  /\ pc = "layout" /\ row \in Vertices /\ col = Len(r_adj[row])
  /\ row' = row + 1 /\ col' = -1
  /\ UNCHANGED <<pc, graph_edge, rawVars, sampleVars, hashVars, ele_per_page,
                 current_page_cells_, edge_pages_>>

\* The last page, whatever is in it, ends with a row -1.
Sentinel ==
  /\ pc = "layout" /\ row = num_vertex
  /\ LET page == IF PageFull THEN <<>> ELSE current_page_cells_
         full == IF PageFull THEN <<current_page_cells_>> ELSE <<>>
     IN  edge_pages_' = edge_pages_ \o full \o <<WithHead(page, -1, TRUE)>>
  /\ current_page_cells_' = <<>>
  /\ pc' = "pages"
  /\ UNCHANGED <<graph_edge, rawVars, sampleVars, hashVars, ele_per_page, row, col>>

Next ==
  \/ LoadGraph \/ GetGcnNormGraph \/ GetSampleGraph \/ LoadSampleGraph
  \/ Reorder \/ HashGraph \/ SelfLoopLess \/ ToUndirected \/ CountEdges
  \/ GenEdgeLayout \/ FillRow \/ FillEdge \/ NextRow \/ Sentinel

SafeSpec == Init /\ [][Next]_vars

-----------------------------------------------------------------------------
Times(list, v) == Cardinality({k \in DOMAIN list : list[k] = v})

\* The two directions of the graph say the same, edge by edge and as often;
\* also when its vertices have got new numbers.
AdjacencyDual ==
  pc \in {"loaded", "reordered"} =>
    /\ \A u, v \in Vertices : Times(adj[u], v) = Times(r_adj[v], u)
    /\ NumEdges(adj) = num_edge

\* After normalisation every vertex has its sources and itself, each once: no
\* vertex is without edges, and both the edge chunks (AddrMapper) and the
\* parts (Partition) cover it.  num_edge is what the lists hold.
Normalised ==
  pc = "normalised" =>
    /\ \A v \in Vertices :
         /\ \A j, k \in DOMAIN r_adj[v] : j < k => r_adj[v][j] < r_adj[v][k]
         /\ \A u \in Vertices :
              Times(r_adj[v], u) = 1 <=> u = v \/ <<u, v>> \in ToSet(graph_edge)
    /\ num_edge = NumEdges(r_adj)

\* A sample has sample_size sources of every vertex that has any (graph.cpp:139),
\* each by an edge of the file of edges.  What is loaded of it later joins the
\* same vertices as often: on the way through the sample's file no edge is lost,
\* doubled or made up.  Which end is the source is ReloadSame's question.
SampleKept ==
  /\ pc \in {"sampled", "reloaded"} =>
       \A v \in Vertices :
         /\ Len(sampled[v]) \in {0, sample_size}
         /\ Len(sampled[v]) = 0 <=> \A u \in Vertices : <<u, v>> \notin ToSet(graph_edge)
         /\ \A u \in ToSet(sampled[v]) : <<u, v>> \in ToSet(graph_edge)
  /\ pc = "reloaded" =>
       \A u, v \in Vertices : Times(r_adj[u], v) + Times(r_adj[v], u)
                               = Times(sampled[u], v) + Times(sampled[v], u)

\* Whatever a graph goes through before the first tick, it joins the vertices
\* that the file joins, each pair as often as it should; all but a reloaded
\* sample say which end is the source as the file does.
EdgesKept == AdjacencyDual /\ Normalised /\ SampleKept

\* r_adj is to "record incoming-edge" (graph.h:19): what is loaded from a
\* sample's file are the incoming edges that were sampled.  The code does not
\* keep it: DumpEdge writes the vertex and then the source, LoadSampleGraph
\* reads the source and then the vertex.
ReloadSame ==
  pc = "reloaded" =>
    \A u, v \in Vertices : Times(r_adj[v], u) = Times(sampled[v], u)

\* The undirected graph has the edges of the file and their reverses, and no
\* others, although the lists change under the loop; self loops are in it or
\* not.
Undirected ==
  pc = "undirected" =>
    /\ \A u, v \in Vertices :
         /\ v \in hash_adj[u] <=> u \in hash_adj[v]
         /\ v \in hash_adj[u] => {<<u, v>>, <<v, u>>} \cap ToSet(graph_edge) # {}
         /\ <<u, v>> \in ToSet(graph_edge) /\ u # v => v \in hash_adj[u]
    /\ num_edge = Edges(hash_adj)

\* What is read of a page pair by pair, when only the page is there: the row of
\* the last head, and the edges so far, each with its row.
Reading(page) ==
  LET read[k \in 0..(Len(page) \div 2)] ==
        IF k = 0 THEN [row |-> -2, edges |-> <<>>]
        ELSE LET cell == page[2 * k - 1]
             IN  IF page[2 * k] = -1
                   THEN [row |-> cell, edges |-> read[k - 1].edges]
                   ELSE [row |-> read[k - 1].row,
                         edges |-> Append(read[k - 1].edges, <<read[k - 1].row, cell>>)]
  IN  read[Len(page) \div 2]
EdgesOf(page) == Reading(page).edges

\* Read page by page, the layout gives the edges of the graph in their order,
\* each with its row, although pages end within rows.  No page grows past its
\* end, which is less than graph.cpp:297 asserts, and only the last may have
\* room left.
PagesDecode ==
  /\ Len(current_page_cells_) <= ele_per_page
  /\ pc = "pages" =>
       /\ FlattenSeq([p \in DOMAIN edge_pages_ |-> EdgesOf(edge_pages_[p])]) =
          DumpEdge(r_adj)
       /\ \A p \in 1..(Len(edge_pages_) - 1) : Len(edge_pages_[p]) = ele_per_page
=============================================================================
