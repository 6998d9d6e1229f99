---------------------------- MODULE MCCoordinator ----------------------------
(* Instances of Coordinator for model checking.                            *)
EXTENDS Coordinator

CONSTANTS out1, out2, edge1, read1, write1

\* Two events of one queue that share a block on either side, and a chunk of
\* edges, whose queue goes first: it may come in between the blocks of an
\* output, or be handed over while an output waits (coordinator.cpp:59).
MCEvent == {out1, out2, edge1, read1, write1}
MCQueueOf ==
  [e \in Event |-> IF e \in {out1, out2} THEN "outputs"
                   ELSE IF e = edge1 THEN "edges" ELSE "tmps"]

\* The two outputs overlap in block 3, as rows of two batches do.  In the
\* ring of three blocks a slice of two is read round the ring's end; the block
\* at its beginning is written.
MCAddress ==
  [e \in Event |-> IF e = edge1 THEN 0
                   ELSE IF e \in {out1, read1} THEN 2 ELSE 3]
MCNumTrans == [e \in Event |-> IF e \in {out1, read1} THEN 2 ELSE 1]
=============================================================================
