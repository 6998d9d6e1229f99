------------------------------ MODULE Partition ------------------------------
(***************************************************************************)
(* How Aggr::Partition (dataflow/aggr.cpp) cuts the edges of a chunk into  *)
(* parts, so that the neighbours of a part fit an input buffer.  A window  *)
(* of ele_aggr_h_interval vertex numbers is laid at the least neighbour at *)
(* the head of any row; every row gives up its edges to vertices below the *)
(* window's end.  One step is one turn of the loop.                        *)
(***************************************************************************)
EXTENDS Integers, Sequences, FiniteSets

CONSTANTS
  num_vertex,      \* raw_graph.num_vertex
  num_row,         \* the vertices of the chunk
  max_degree,      \* a bound on the length of a row
  ele_h_interval   \* feature vectors an input buffer holds, TileConfig

\* TileConfig does not check that a feature vector fits the input buffer;
\* with ele_h_interval = 0 the loop would not end.
PartitionAssumption ==
  /\ num_vertex \in Nat \ {0}
  /\ num_row \in Nat \ {0}
  /\ max_degree \in Nat
  /\ ele_h_interval \in Nat \ {0}

Vertices == 0..(num_vertex - 1)
RowIds == 1..num_row

\* A row as GetGcnNormGraph and GetSampleGraph leave it: sorted, and in a
\* sampled graph perhaps with repetitions.
Row == UNION {[1..n -> Vertices] : n \in 0..max_degree}
Sorted(row) == \A j, k \in 1..Len(row) : j <= k => row[j] <= row[k]

VARIABLES
  pc,           \* "cut" or "done"
  edges,        \* the chunk: never changes
  edge_set,     \* the edges not yet in a part
  partitions    \* the parts, in order

vars == <<pc, edges, edge_set, partitions>>

Init ==
  /\ pc = "cut"
  /\ edges \in [RowIds -> {row \in Row : Sorted(row)}]
  /\ edge_set = edges
  /\ partitions = <<>>

-----------------------------------------------------------------------------
NonEmptyRows(rows) == {r \in RowIds : rows[r] # <<>>}
Least(S) == CHOOSE x \in S : \A y \in S : x <= y

\* Mutant: the window is laid at vertex 0 for every part.
StartEdge_Zero == 0

\* The least head of a row, num_vertex when all are empty.
StartEdge ==
  Least({num_vertex} \cup {edge_set[r][1] : r \in NonEmptyRows(edge_set)})

EndEdge == StartEdge + ele_h_interval

\* Mutants: the window is one too wide; there is no window, only a bound on
\* the number of edges.
StopsAt_Wide(row, j) ==
  j = Len(row) \/ j = ele_h_interval \/ row[j + 1] > EndEdge
StopsAt_CountOnly(row, j) == j = Len(row) \/ j = ele_h_interval

\* stop_point: how many edges of a row go into this part.
StopsAt(row, j) ==
  j = Len(row) \/ j = ele_h_interval \/ row[j + 1] >= EndEdge
StopPoint(row) == Least({j \in 0..Len(row) : StopsAt(row, j)})

\* Mutant: the edge at the stop point is erased with the part.
Rest_Skip(row) == SubSeq(row, StopPoint(row) + 2, Len(row))

\* What a row gives to the part, and what it keeps.
Given(row) == SubSeq(row, 1, StopPoint(row))
Rest(row) == SubSeq(row, StopPoint(row) + 1, Len(row))

\* One part; the loop goes on as long as a row has edges left.
Cut ==
  /\ pc = "cut"
  /\ partitions' = Append(partitions, [r \in RowIds |-> Given(edge_set[r])])
  /\ edge_set' = [r \in RowIds |-> Rest(edge_set[r])]
  /\ pc' = IF NonEmptyRows(edge_set') = {} THEN "done" ELSE "cut"
  /\ UNCHANGED edges

Next == Cut

SafeSpec == Init /\ [][Next]_vars

-----------------------------------------------------------------------------
NumPart == Len(partitions)
Neighbors(rows) ==
  UNION {{rows[r][j] : j \in 1..Len(rows[r])} : r \in RowIds}

\* Row r of the parts, in one piece.
Joined(parts, r) ==
  LET upto[k \in 0..Len(parts)] == IF k = 0 THEN <<>> ELSE upto[k - 1] \o parts[k][r]
  IN  upto[Len(parts)]

\* No edge is lost, repeated or put out of order.
Lossless == \A r \in RowIds : Joined(partitions, r) \o edge_set[r] = edges[r]

\* What the parts are for: the neighbours of one fit an input buffer.
NeighborsFit ==
  \A p \in 1..NumPart : Cardinality(Neighbors(partitions[p])) <= ele_h_interval

\* Every part has an edge, unless the chunk has none at all: the loop gets on
\* with every turn, and so ends.  This is what Aggr assumes of its parts.
PartsHaveEdges ==
  (\E r \in RowIds : edges[r] # <<>>) =>
    \A p \in 1..NumPart : NonEmptyRows(partitions[p]) # {}

\* A vertex that two parts have in common is read twice: it does not happen
\* unless a row's repetitions of one vertex overflow the window.
NoneReadTwice ==
  \A p, q \in 1..NumPart :
    (p # q /\ \A r \in RowIds : \A j, k \in 1..Len(edges[r]) :
                  j # k => edges[r][j] # edges[r][k])
      => Neighbors(partitions[p]) \cap Neighbors(partitions[q]) = {}
=============================================================================
