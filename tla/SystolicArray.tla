---------------------------- MODULE SystolicArray ----------------------------
(***************************************************************************)
(* The systolic array (hardware/systolic_arr.cpp).  A block, the product   *)
(* of a feature matrix A and a weight matrix W, is cut into tiles of the   *)
(* array's height and width.  For every tile the array fills its weights   *)
(* and then computes; the tiles of one column are accumulated before the   *)
(* next column begins, and the column's results take room in the output    *)
(* buffer.  One step is one clock tick of the array, or a call of Comb's.  *)
(*                                                                         *)
(* Counters of cycles and operations, which nothing reads before the end   *)
(* of the layer, are left out, except the number of tiles fed.             *)
(***************************************************************************)
EXTENDS Integers

CONSTANTS
  height_, width_,   \* processing elements
  cap_outbuf_,       \* bytes of the output buffer
  data_bytes_,       \* bytes of one value
  Batches,           \* rows that A may have
  WeightShapes       \* shapes <<h, w>> that W may have

\* SysConfig and LayerConfig assert what is positive.  TileConfig chooses a
\* batch whose results fit the output buffer (sz_comb_batch); SetMatrix asserts
\* that those of one tile do.
ASSUME ArrayAssumption ==
  /\ height_ \in Nat \ {0} /\ width_ \in Nat \ {0}
  /\ data_bytes_ \in Nat \ {0}
  /\ cap_outbuf_ \in Nat
  /\ Batches \subseteq Nat \ {0}
  /\ WeightShapes \subseteq (Nat \ {0}) \X (Nat \ {0})
  /\ \A h \in Batches, s \in WeightShapes :
       /\ h * (s[2] * data_bytes_) <= cap_outbuf_
       /\ h * width_ <= cap_outbuf_

VARIABLES
  state,
  A, W,                          \* the block: A's rows, W's shape
  compute_cycle,
  sz_output_,                    \* bytes of results in the output buffer
  h_tile_cnt_, w_tile_cnt_, batch_cnt_,
  tiles                          \* tiles fed since SetMatrix

cntVars == <<h_tile_cnt_, w_tile_cnt_, batch_cnt_>>
vars == <<state, A, W, compute_cycle, sz_output_, cntVars, tiles>>

Init ==
  /\ state = "IDLE"
  /\ A = 0 /\ W = <<0, 0>>
  /\ compute_cycle = 0 /\ sz_output_ = 0
  /\ h_tile_cnt_ = 0 /\ w_tile_cnt_ = 0 /\ batch_cnt_ = 0
  /\ tiles = 0

-----------------------------------------------------------------------------
CeilDiv(a, b) == (a + b - 1) \div b

\* What SetMatrix works out of the two matrices.
ele_batch_ ==
  LET fits == cap_outbuf_ \div (W[2] * data_bytes_)
  IN  IF fits <= A THEN fits ELSE A
num_h_tile_ == CeilDiv(W[1], height_)
num_w_tile_ == CeilDiv(W[2], width_)
num_batch_ == CeilDiv(A, ele_batch_)
ele_last_batch_ == A - ele_batch_ * (num_batch_ - 1)

\* Mutant: the output buffer is taken for empty only when the array is new.
SetMatrix_KeepOutput ==
  /\ state = "IDLE"
  /\ A' \in Batches /\ W' \in WeightShapes
  /\ h_tile_cnt_' = 0 /\ w_tile_cnt_' = 0 /\ batch_cnt_' = 0
  /\ tiles' = 0
  /\ state' = "READY"
  /\ UNCHANGED <<compute_cycle, sz_output_>>

\* Comb hands over the next block.
SetMatrix ==
  /\ state = "IDLE"
  /\ A' \in Batches /\ W' \in WeightShapes
  /\ h_tile_cnt_' = 0 /\ w_tile_cnt_' = 0 /\ batch_cnt_' = 0
  /\ sz_output_' = 0
  /\ tiles' = 0
  /\ state' = "READY"
  /\ UNCHANGED compute_cycle

\* A fill takes one tick: the code has set fill_weight_cycle to 0.
FillWeight ==
  /\ state = "FILLING"
  /\ state' = "COMPUTING"
  /\ UNCHANGED <<A, W, compute_cycle, sz_output_, cntVars, tiles>>

\* Mutant: the countdown stops at zero and its end is missed.
Compute_NoStop ==
  /\ state = "COMPUTING"
  /\ compute_cycle' = IF compute_cycle = 0 THEN 0 ELSE compute_cycle - 1
  /\ state' = IF compute_cycle' < 0 THEN "READY" ELSE "COMPUTING"
  /\ UNCHANGED <<A, W, sz_output_, cntVars, tiles>>
Compute ==
  /\ state = "COMPUTING"
  /\ compute_cycle' = compute_cycle - 1
  /\ state' = IF compute_cycle' = 0 THEN "READY" ELSE "COMPUTING"
  /\ UNCHANGED <<A, W, sz_output_, cntVars, tiles>>

\* A column begins: its results must fit the output buffer with the others'.
ColumnFits == sz_output_ + W[2] * data_bytes_ <= cap_outbuf_

\* The results do not fit; nothing the array does ends this state.
OutSync ==
  /\ state = "READY" /\ h_tile_cnt_ = 0 /\ ~ColumnFits
  /\ state' = "OUT_SYNC"
  /\ UNCHANGED <<A, W, compute_cycle, sz_output_, cntVars, tiles>>

\* Mutant: the counter of the columns is not set back.
Advance_KeepColumn ==
  LET h_done == h_tile_cnt_ + 1 = num_h_tile_
      w_done == h_done /\ w_tile_cnt_ + 1 = num_w_tile_
  IN  /\ h_tile_cnt_' = IF h_done THEN 0 ELSE h_tile_cnt_ + 1
      /\ w_tile_cnt_' = IF h_done THEN w_tile_cnt_ + 1 ELSE w_tile_cnt_
      /\ batch_cnt_' = IF w_done THEN batch_cnt_ + 1 ELSE batch_cnt_

\* The next tile: down the column, then the next column, then the next batch.
Advance ==
  LET h_done == h_tile_cnt_ + 1 = num_h_tile_
      w_done == h_done /\ w_tile_cnt_ + 1 = num_w_tile_
  IN  /\ h_tile_cnt_' = IF h_done THEN 0 ELSE h_tile_cnt_ + 1
      /\ w_tile_cnt_' = IF w_done THEN 0
                        ELSE IF h_done THEN w_tile_cnt_ + 1 ELSE w_tile_cnt_
      /\ batch_cnt_' = IF w_done THEN batch_cnt_ + 1 ELSE batch_cnt_

\* Feed a tile.  With the last one the array is done at once: DONE replaces
\* the FILLING that FillWeight has set.
FeedTile ==
  LET batch == IF batch_cnt_ = num_batch_ - 1 THEN ele_last_batch_ ELSE ele_batch_
  IN  /\ state = "READY"
      /\ h_tile_cnt_ = 0 => ColumnFits
      /\ sz_output_' = IF h_tile_cnt_ = 0 THEN sz_output_ + W[2] * data_bytes_
                                          ELSE sz_output_
      /\ compute_cycle' = batch + height_ + width_ - 1
      /\ tiles' = tiles + 1
      /\ Advance
      /\ state' = IF batch_cnt_' = num_batch_ THEN "DONE" ELSE "FILLING"
      /\ UNCHANGED <<A, W>>

\* Comb takes the result.
GetResult ==
  /\ state = "DONE"
  /\ state' = "IDLE"
  /\ UNCHANGED <<A, W, compute_cycle, sz_output_, cntVars, tiles>>

ClockTick == FillWeight \/ Compute \/ FeedTile \/ OutSync

Next == SetMatrix \/ ClockTick \/ GetResult

\* The main loop ticks the array for ever; nothing makes Comb start a block.
SafeSpec == Init /\ [][Next]_vars
Spec == SafeSpec /\ WF_vars(ClockTick)

-----------------------------------------------------------------------------
(* Properties.                                                             *)

Working == state \in {"READY", "FILLING", "COMPUTING", "DONE"}

\* Every tile of the block is fed once, column by column: the three counters
\* tell how many have been fed, and at the end it is all of them.
TilesInOrder ==
  Working =>
    /\ tiles = (batch_cnt_ * num_w_tile_ + w_tile_cnt_) * num_h_tile_ + h_tile_cnt_
    /\ state = "DONE" <=> tiles = num_h_tile_ * num_w_tile_

\* The output buffer: a column has taken its room when its first tile is fed,
\* so that the array stops in OUT_SYNC, on which Comb exits (comb.cpp:52),
\* exactly when there is less room than the columns of the block need.
OutputRoom ==
  LET columns == batch_cnt_ * num_w_tile_ + CeilDiv(h_tile_cnt_, num_h_tile_)
                   + w_tile_cnt_
      need == num_w_tile_ * (W[2] * data_bytes_)
  IN  /\ Working => sz_output_ = columns * (W[2] * data_bytes_)
      /\ state = "OUT_SYNC" => need > cap_outbuf_
      /\ state = "DONE" => need <= cap_outbuf_

\* The array keeps its contract: a block at a time, and no block for ever.
Contract == INSTANCE ArrayContract WITH state <-
  CASE state = "IDLE" -> "IDLE"
    [] state = "DONE" -> "DONE"
    [] state = "OUT_SYNC" -> "EXIT"
    [] OTHER -> "BUSY"
ContractSpec == Contract!Spec
=============================================================================
