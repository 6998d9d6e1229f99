--------------------------- MODULE MCSystolicArray ---------------------------
(* Instances of SystolicArray for model checking.                          *)
EXTENDS SystolicArray

\* Blocks of 1 to 4 tiles of 2 by 2, whole and not, and one that is so wide
\* that its columns do not fit the output buffer.
MCBatches == 1..3
MCWeightShapes == {<<1, 1>>, <<2, 3>>, <<8, 2>>, <<4, 4>>, <<3, 5>>, <<1, 7>>}
=============================================================================
