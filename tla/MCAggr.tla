------------------------------- MODULE MCAggr -------------------------------
(* Instances of Aggr for model checking: chunks, and their parts, by hand.  *)
EXTENDS Aggr, TLC

\* Three chunks of two, two and one vertices.  The first has two parts, one
\* of them without an edge of its first vertex; a row of the second is empty.
MCNumChunk == 3
MCStart == (0 :> 0) @@ (1 :> 2) @@ (2 :> 4)
MCEnd == (0 :> 2) @@ (1 :> 4) @@ (2 :> 5)
MCParts ==
  (0 :> << << <<0, 1>>, <<1>> >>, << <<>>, <<2>> >> >>)
  @@ (1 :> << << <<2, 3>>, <<>> >> >>)
  @@ (2 :> << << <<4>> >> >>)
=============================================================================
