------------------------------- MODULE MCHMC -------------------------------
(* Streams for model checking.  Address a is in vault a: 0 and 4 share a   *)
(* quad.                                                                   *)
EXTENDS HMC

MCGetChannel(a) == a

Read(a) == [addr |-> a, is_write |-> FALSE]
Write(a) == [addr |-> a, is_write |-> TRUE]

\* Vaults of one quad, with a read and a write of one address; and two quads.
MCStreams ==
  { <<Write(0), Read(4), Read(0)>>, <<Read(1), Write(0)>> }
=============================================================================
