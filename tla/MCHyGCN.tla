------------------------------ MODULE MCHyGCN ------------------------------
(* Two edge chunks, of two vertices and of one, the second with an edge of *)
(* its own; a ring of five bytes holds two vertices of two.                *)
EXTENDS HyGCN, TLC

MCNumChunk == 2
MCStart == (0 :> 0) @@ (1 :> 2)
MCEnd == (0 :> 2) @@ (1 :> 3)
MCParts ==
  (0 :> << << <<0>>, <<1>> >> >>) @@ (1 :> << << <<1>> >> >>)
=============================================================================
