---------------------------- MODULE VertexPipeline ----------------------------
(***************************************************************************)
(* What the aggregation buffer promises the two engines that share it, and *)
(* what they promise each other: every vertex of the layer is aggregated,  *)
(* published, taken and released once, in order; one chunk is aggregated   *)
(* at a time and becomes visible to the combination engine only as a       *)
(* whole; one batch is combined at a time and is released as a whole.      *)
(*                                                                         *)
(* Aggr, Comb and their composition each implement this specification,     *)
(* with the pointer counts of aggr_buf for its four variables.             *)
(***************************************************************************)
EXTENDS Integers

CONSTANT NumVertex   \* the layer's vertices, raw_graph.num_vertex

VARIABLES aggr, ready, comb, done

vars == <<aggr, ready, comb, done>>

Init == aggr = 0 /\ ready = 0 /\ comb = 0 /\ done = 0

\* The aggregation engine reserves room for the next chunk.
Reserve ==
  /\ ready = aggr
  /\ aggr' \in (aggr + 1)..NumVertex
  /\ UNCHANGED <<ready, comb, done>>

\* It publishes the chunk it has aggregated.
Publish ==
  /\ ready # aggr
  /\ ready' = aggr
  /\ UNCHANGED <<aggr, comb, done>>

\* The combination engine takes a batch of published vertices.
Take ==
  /\ comb = done
  /\ comb' \in (comb + 1)..ready
  /\ UNCHANGED <<aggr, ready, done>>

\* It gives the batch's room back.
Release ==
  /\ comb # done
  /\ done' = comb
  /\ UNCHANGED <<aggr, ready, comb>>

Next == Reserve \/ Publish \/ Take \/ Release

Fairness ==
  WF_vars(Reserve) /\ WF_vars(Publish) /\ WF_vars(Take) /\ WF_vars(Release)

\* The safety part, and the whole promise.
SafeSpec == Init /\ [][Next]_vars
Spec == SafeSpec /\ Fairness

-----------------------------------------------------------------------------
TypeOK ==
  /\ aggr \in 0..NumVertex /\ ready \in 0..NumVertex
  /\ comb \in 0..NumVertex /\ done \in 0..NumVertex

\* The pointers never overtake one another.
Order == done <= comb /\ comb <= ready /\ ready <= aggr
=============================================================================
