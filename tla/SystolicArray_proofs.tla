------------------------ MODULE SystolicArray_proofs ------------------------
(***************************************************************************)
(* Proofs about SystolicArray: whatever the array's height and width, its  *)
(* output buffer and the blocks, every tile is fed once and in order, the  *)
(* room of the output buffer is accounted for, and the array implements    *)
(* ArrayContract.                                                          *)
(*                                                                         *)
(* Arithmetic on products is kept to the lemmas at the beginning; the      *)
(* steps of the proof see only a tile's rows and columns and the lemmas.   *)
(***************************************************************************)
EXTENDS SystolicArray, TLAPS

\* The bytes that one column of tiles takes in the output buffer.
Column == W[2] * data_bytes_

\* The block is one that Comb may hand over.
BlockOK == A \in Batches /\ W \in WeightShapes

States == {"IDLE", "READY", "FILLING", "COMPUTING", "DONE", "OUT_SYNC"}

TypeInv ==
  /\ state \in States
  /\ compute_cycle \in Nat
  /\ state \in {"FILLING", "COMPUTING"} => compute_cycle # 0
  /\ state # "IDLE" => BlockOK

\* In a block that is not done the counters name a tile of its only batch;
\* the tiles before it, column by column, are those that have been fed, and
\* the columns begun are those that hold room.
UnderWay ==
  state \in {"READY", "FILLING", "COMPUTING", "OUT_SYNC"} =>
    /\ batch_cnt_ = 0
    /\ w_tile_cnt_ \in Nat /\ w_tile_cnt_ < num_w_tile_
    /\ h_tile_cnt_ \in Nat /\ h_tile_cnt_ < num_h_tile_
    /\ tiles = w_tile_cnt_ * num_h_tile_ + h_tile_cnt_
    /\ sz_output_ = (IF h_tile_cnt_ = 0 THEN w_tile_cnt_ ELSE w_tile_cnt_ + 1) * Column
    /\ sz_output_ <= cap_outbuf_
    /\ state = "OUT_SYNC" => h_tile_cnt_ = 0 /\ ~ColumnFits

\* A block that is done has had all its tiles and all its columns.
Finished ==
  state = "DONE" =>
    /\ batch_cnt_ = 1 /\ w_tile_cnt_ = 0 /\ h_tile_cnt_ = 0
    /\ tiles = num_w_tile_ * num_h_tile_
    /\ sz_output_ = num_w_tile_ * Column
    /\ sz_output_ <= cap_outbuf_

IInv == TypeInv /\ UnderWay /\ Finished

-----------------------------------------------------------------------------
(* Arithmetic.                                                             *)

\* Rounding up a quotient gives a positive number for positive arguments.
LEMMA CeilDivPositive ==
  ASSUME NEW a \in Nat \ {0}, NEW b \in Nat \ {0}
  PROVE  CeilDiv(a, b) \in Nat \ {0}
<1>1. PICK n : n = a + b - 1
  OBVIOUS
<1>2. n \in Nat /\ n >= b
  BY <1>1
<1>3. n \div b \in Nat /\ n \div b >= 1
  BY <1>2
<1>. QED
  BY <1>1, <1>3 DEF CeilDiv

\* A part of a column counts as one column, none as none.
LEMMA CeilDivPart ==
  ASSUME NEW n \in Nat \ {0}, NEW h \in Nat, h < n
  PROVE  CeilDiv(h, n) = IF h = 0 THEN 0 ELSE 1
<1>1. CASE h = 0
  BY <1>1, (n - 1) \div n = 0 DEF CeilDiv
<1>2. CASE h # 0
  <2>1. (h + n - 1) \div n = 1
    BY <1>2
  <2>. QED
    BY <1>2, <2>1 DEF CeilDiv
<1>. QED
  BY <1>1, <1>2

\* As many parts of c as go into n go into it.
LEMMA QuotientAtLeast ==
  ASSUME NEW c \in Nat \ {0}, NEW n \in Nat, NEW a \in Nat, a * c <= n
  PROVE  n \div c \in Nat /\ n \div c >= a
  OBVIOUS

\* A tile before the last column's end comes before the last of all.
LEMMA TileBeforeEnd ==
  ASSUME NEW nw \in Nat, NEW nh \in Nat, NEW w \in Nat, NEW h \in Nat,
         w < nw, h < nh
  PROVE  /\ w * nh + h < nw * nh
         /\ (w + 1) * nh <= nw * nh
<1>1. PICK k \in Nat : nw = w + 1 + k
  <2>1. nw - w - 1 \in Nat /\ nw = w + 1 + (nw - w - 1)
    OBVIOUS
  <2>. QED
    BY <2>1
<1>2. nw * nh = w * nh + nh + k * nh
  BY <1>1
<1>3. k * nh \in Nat /\ w * nh \in Nat /\ (w + 1) * nh = w * nh + nh
  OBVIOUS
<1>. QED
  BY <1>2, <1>3

\* A block has at least one column and one row of tiles, and a column takes
\* some room.
LEMMA BlockShape ==
  BlockOK =>
    /\ num_h_tile_ \in Nat \ {0} /\ num_w_tile_ \in Nat \ {0}
    /\ Column \in Nat \ {0} /\ A \in Nat \ {0}
    /\ A * Column <= cap_outbuf_
<1>. SUFFICES ASSUME BlockOK
     PROVE  /\ num_h_tile_ \in Nat \ {0} /\ num_w_tile_ \in Nat \ {0}
            /\ Column \in Nat \ {0} /\ A \in Nat \ {0}
            /\ A * Column <= cap_outbuf_
  OBVIOUS
<1>1. A \in Nat \ {0} /\ W[1] \in Nat \ {0} /\ W[2] \in Nat \ {0}
  BY ArrayAssumption DEF BlockOK
<1>2. A * Column <= cap_outbuf_
  BY ArrayAssumption DEF BlockOK, Column
<1>3. Column \in Nat \ {0}
  BY <1>1, ArrayAssumption DEF Column
<1>4. num_h_tile_ \in Nat \ {0} /\ num_w_tile_ \in Nat \ {0}
  BY <1>1, CeilDivPositive, ArrayAssumption DEF num_h_tile_, num_w_tile_
<1>. QED
  BY <1>1, <1>2, <1>3, <1>4

\* The batch that TileConfig has chosen fits the output buffer whole, so that
\* SetMatrix makes a single batch of every block.
LEMMA OneBatch ==
  BlockOK => ele_batch_ = A /\ num_batch_ = 1 /\ ele_last_batch_ = A
<1>. SUFFICES ASSUME BlockOK
     PROVE  ele_batch_ = A /\ num_batch_ = 1 /\ ele_last_batch_ = A
  OBVIOUS
<1>. PICK c : c = Column
  OBVIOUS
<1>1. /\ c \in Nat \ {0} /\ A \in Nat \ {0} /\ A * c <= cap_outbuf_
      /\ cap_outbuf_ \in Nat
  BY BlockShape, ArrayAssumption
<1>2. PICK q : q = cap_outbuf_ \div c
  OBVIOUS
<1>3. q \in Nat /\ q >= A
  BY <1>1, <1>2, QuotientAtLeast
<1>4. q <= A => q = A
  BY <1>1, <1>3
<1>5. ele_batch_ = A
  BY <1>1, <1>2, <1>3, <1>4 DEF ele_batch_, Column
<1>6. (A + A - 1) \div A = 1
  BY <1>1
<1>7. num_batch_ = 1
  BY <1>5, <1>6 DEF num_batch_, CeilDiv
<1>. QED
  BY <1>1, <1>5, <1>7 DEF ele_last_batch_

\* What is known of a block's tiles and of its batch, now and after a step.
Shape ==
  /\ num_h_tile_ \in Nat \ {0} /\ num_w_tile_ \in Nat \ {0}
  /\ Column \in Nat \ {0} /\ num_batch_ = 1

\* The shape holds of the next state where the block fits there.
LEMMA NextBlock == BlockOK' => Shape'
<1>1. BlockOK => Shape
  BY BlockShape, OneBatch DEF Shape
<1>. QED
  BY <1>1, PTL

-----------------------------------------------------------------------------
(* The invariant.                                                          *)

LEMMA Initial == Init => IInv
  BY DEF Init, IInv, TypeInv, States, UnderWay, Finished

\* A step that leaves the block and its counters alone keeps the invariant if
\* it keeps each part of it that the state of the array calls for.
LEMMA SameBlock ==
  ASSUME IInv, UNCHANGED <<A, W, sz_output_, cntVars, tiles>>,
         compute_cycle' \in Nat,
         state \in {"READY", "FILLING", "COMPUTING"},
         state' \in {"READY", "FILLING", "COMPUTING", "OUT_SYNC"},
         state' \in {"FILLING", "COMPUTING"} => compute_cycle' # 0,
         state' = "OUT_SYNC" => h_tile_cnt_ = 0 /\ ~ColumnFits
  PROVE  IInv'
  BY DEF IInv, TypeInv, States, UnderWay, Finished, BlockOK, cntVars, Column,
         num_h_tile_, num_w_tile_, ColumnFits

\* Comb hands over a block: nothing of it is fed.
LEMMA SetMatrixStep == IInv /\ SetMatrix => IInv'
<1>. SUFFICES ASSUME IInv, SetMatrix PROVE IInv'
  OBVIOUS
<1>1. BlockOK'
  BY DEF SetMatrix, BlockOK
<1>2. /\ num_h_tile_' \in Nat \ {0} /\ num_w_tile_' \in Nat \ {0}
      /\ Column' \in Nat \ {0}
  BY <1>1, NextBlock DEF Shape
<1>3. \A n \in Nat : 0 * n = 0 /\ 0 * n + 0 = 0
  OBVIOUS
<1>. PICK nh, nw, c : nh = num_h_tile_' /\ nw = num_w_tile_' /\ c = Column'
  OBVIOUS
<1>4. nh \in Nat \ {0} /\ nw \in Nat \ {0} /\ c \in Nat
  BY <1>2
<1>5. 0 < nh /\ 0 < nw
  BY <1>4
<1>6. 0 <= cap_outbuf_
  BY ArrayAssumption
<1>7. 0 * nh = 0 /\ 0 * c = 0
  BY <1>3, <1>4
<1>8. 0 * nh + 0 = 0
  BY <1>7
<1>9. UnderWay'
  BY <1>5, <1>6, <1>7, <1>8 DEF SetMatrix, UnderWay
<1>. QED
  BY <1>1, <1>9 DEF SetMatrix, IInv, TypeInv, States, Finished

\* A tile is fed: it is the next one, and the first of a column takes the
\* column's room.
LEMMA FeedTileStep == IInv /\ FeedTile => IInv'
<1>. SUFFICES ASSUME IInv, FeedTile PROVE IInv'
  OBVIOUS
<1>1. /\ state = "READY" /\ BlockOK
      /\ UNCHANGED <<A, W>>
  BY DEF FeedTile, IInv, TypeInv
<1>. PICK nh, nw, c : nh = num_h_tile_ /\ nw = num_w_tile_ /\ c = Column
  OBVIOUS
<1>. PICK w, h : w = w_tile_cnt_ /\ h = h_tile_cnt_
  OBVIOUS
<1>2. /\ nh \in Nat \ {0} /\ nw \in Nat \ {0} /\ c \in Nat \ {0}
      /\ A \in Nat \ {0}
  BY <1>1, BlockShape
<1>3. num_batch_ = 1 /\ ele_batch_ = A /\ ele_last_batch_ = A
  BY <1>1, OneBatch
<1>4. BlockOK' /\ num_h_tile_' = nh /\ num_w_tile_' = nw /\ Column' = c /\ num_batch_' = 1
  <2>1. BlockOK'
    BY <1>1 DEF BlockOK
  <2>2. num_batch_' = 1
    BY <2>1, NextBlock DEF Shape
  <2>. QED
    BY <1>1, <2>1, <2>2 DEF num_h_tile_, num_w_tile_, Column
<1>5. /\ batch_cnt_ = 0
      /\ w \in Nat /\ w < nw /\ h \in Nat /\ h < nh
      /\ tiles = w * nh + h
      /\ sz_output_ = (IF h = 0 THEN w ELSE w + 1) * c
      /\ sz_output_ <= cap_outbuf_
  BY <1>1 DEF IInv, UnderWay
<1>6. /\ h = 0 => sz_output_ + c <= cap_outbuf_
      /\ sz_output_' = IF h = 0 THEN sz_output_ + c ELSE sz_output_
      /\ tiles' = tiles + 1
  BY DEF FeedTile, ColumnFits, Column
<1>7. sz_output_' = (w + 1) * c /\ sz_output_' <= cap_outbuf_
  BY <1>2, <1>5, <1>6
<1>8. compute_cycle' \in Nat /\ compute_cycle' # 0
  BY <1>2, <1>3, ArrayAssumption DEF FeedTile
<1>9. CASE h + 1 # nh
  <2>1. /\ h_tile_cnt_' = h + 1 /\ w_tile_cnt_' = w /\ batch_cnt_' = 0
        /\ state' = "FILLING"
    BY <1>3, <1>5, <1>9 DEF FeedTile, Advance
  <2>2. tiles' = w * nh + (h + 1) /\ h + 1 \in Nat /\ h + 1 < nh /\ h + 1 # 0
    BY <1>2, <1>5, <1>6, <1>9
  <2>3. UnderWay'
    BY <1>4, <1>5, <1>7, <2>1, <2>2 DEF UnderWay
  <2>. QED
    BY <1>4, <1>8, <2>1, <2>3 DEF IInv, TypeInv, States, Finished
<1>10. CASE h + 1 = nh /\ w + 1 # nw
  <2>1. /\ h_tile_cnt_' = 0 /\ w_tile_cnt_' = w + 1 /\ batch_cnt_' = 0
        /\ state' = "FILLING"
    BY <1>3, <1>5, <1>10 DEF FeedTile, Advance
  <2>2. tiles' = (w + 1) * nh + 0 /\ w + 1 \in Nat /\ w + 1 < nw
    BY <1>2, <1>5, <1>6, <1>10
  <2>3. UnderWay'
    BY <1>2, <1>4, <1>7, <2>1, <2>2 DEF UnderWay
  <2>. QED
    BY <1>4, <1>8, <2>1, <2>3 DEF IInv, TypeInv, States, Finished
<1>11. CASE h + 1 = nh /\ w + 1 = nw
  <2>1. /\ h_tile_cnt_' = 0 /\ w_tile_cnt_' = 0 /\ batch_cnt_' = 1
        /\ state' = "DONE"
    BY <1>3, <1>5, <1>11 DEF FeedTile, Advance
  <2>2. tiles' = nw * nh /\ sz_output_' = nw * c
    BY <1>2, <1>5, <1>6, <1>7, <1>11
  <2>3. Finished'
    BY <1>4, <1>7, <2>1, <2>2 DEF Finished
  <2>. QED
    BY <1>4, <1>8, <2>1, <2>3 DEF IInv, TypeInv, States, UnderWay
<1>. QED
  BY <1>9, <1>10, <1>11

\* The invariant holds throughout.
THEOREM Invariance == SafeSpec => []IInv
<1>1. IInv /\ [Next]_vars => IInv'
  <2>. SUFFICES ASSUME IInv, [Next]_vars PROVE IInv'
    OBVIOUS
  <2>1. CASE SetMatrix
    BY <2>1, SetMatrixStep
  <2>2. CASE FillWeight
    BY <2>2, SameBlock DEF FillWeight, IInv, TypeInv
  <2>3. CASE Compute
    <3>1. compute_cycle' \in Nat /\ (state' = "COMPUTING" => compute_cycle' # 0)
      BY <2>3 DEF Compute, IInv, TypeInv
    <3>. QED
      BY <2>3, <3>1, SameBlock DEF Compute
  <2>4. CASE FeedTile
    BY <2>4, FeedTileStep
  <2>5. CASE OutSync
    BY <2>5, SameBlock DEF OutSync, IInv, TypeInv
  <2>6. CASE GetResult
    BY <2>6 DEF GetResult, IInv, TypeInv, States, UnderWay, Finished
  <2>7. CASE UNCHANGED vars
    BY <2>7 DEF vars, cntVars, IInv, TypeInv, UnderWay, Finished, BlockOK, Column,
                num_h_tile_, num_w_tile_, ColumnFits
  <2>. QED
    BY <2>1, <2>2, <2>3, <2>4, <2>5, <2>6, <2>7 DEF Next, ClockTick
<1>. QED
  BY Initial, <1>1, PTL DEF SafeSpec

-----------------------------------------------------------------------------
(* The theorems.                                                           *)

\* Every tile of a block is fed once, column by column, and the array is done
\* exactly when all have been.
THEOREM TilesFedInOrder == SafeSpec => []TilesInOrder
<1>1. IInv => TilesInOrder
  <2>. SUFFICES ASSUME IInv, Working PROVE TilesInOrder
    BY DEF TilesInOrder
  <2>1. BlockOK
    BY DEF Working, IInv, TypeInv
  <2>. PICK nh, nw : nh = num_h_tile_ /\ nw = num_w_tile_
    OBVIOUS
  <2>2. nh \in Nat \ {0} /\ nw \in Nat \ {0}
    BY <2>1, BlockShape
  <2>3. CASE state = "DONE"
    <3>1. batch_cnt_ = 1 /\ w_tile_cnt_ = 0 /\ h_tile_cnt_ = 0 /\ tiles = nw * nh
      BY <2>3 DEF IInv, Finished
    <3>2. (1 * nw + 0) * nh + 0 = nw * nh /\ nw * nh = nh * nw
      BY <2>2
    <3>. QED
      BY <2>3, <3>1, <3>2 DEF TilesInOrder
  <2>4. CASE state # "DONE"
    <3>. PICK w, h : w = w_tile_cnt_ /\ h = h_tile_cnt_
      OBVIOUS
    <3>1. /\ batch_cnt_ = 0 /\ w \in Nat /\ w < nw /\ h \in Nat /\ h < nh
          /\ tiles = w * nh + h
      BY <2>4 DEF IInv, UnderWay, Working
    <3>2. w * nh + h < nw * nh /\ nw * nh = nh * nw
      BY <2>2, <3>1, TileBeforeEnd
    <3>3. (0 * nw + w) * nh + h = w * nh + h
      BY <2>2, <3>1
    <3>4. tiles # nh * nw
      BY <2>2, <3>1, <3>2
    <3>. QED
      BY <2>4, <3>1, <3>3, <3>4 DEF TilesInOrder
  <2>. QED
    BY <2>3, <2>4
<1>. QED
  BY Invariance, <1>1, PTL

\* The results in the output buffer are those of the columns begun, and the
\* array stops for want of room exactly when the block's columns do not fit.
THEOREM OutputRoomAccounted == SafeSpec => []OutputRoom
<1>1. IInv => OutputRoom
  <2>. SUFFICES ASSUME IInv PROVE OutputRoom
    OBVIOUS
  <2>. PICK nh, nw, c : nh = num_h_tile_ /\ nw = num_w_tile_ /\ c = Column
    OBVIOUS
  <2>. PICK w, h : w = w_tile_cnt_ /\ h = h_tile_cnt_
    OBVIOUS
  <2>1. state # "IDLE" => nh \in Nat \ {0} /\ nw \in Nat \ {0} /\ c \in Nat \ {0}
    BY BlockShape DEF IInv, TypeInv
  <2>2. CASE state \in {"READY", "FILLING", "COMPUTING", "OUT_SYNC"}
    <3>1. /\ batch_cnt_ = 0 /\ w \in Nat /\ w < nw /\ h \in Nat /\ h < nh
          /\ sz_output_ = (IF h = 0 THEN w ELSE w + 1) * c
          /\ state = "OUT_SYNC" => h = 0 /\ ~(sz_output_ + c <= cap_outbuf_)
      BY <2>2 DEF IInv, UnderWay, ColumnFits, Column
    <3>2. CeilDiv(h, nh) = IF h = 0 THEN 0 ELSE 1
      BY <2>1, <2>2, <3>1, CeilDivPart
    <3>3. 0 * nw + CeilDiv(h, nh) + w = IF h = 0 THEN w ELSE w + 1
      BY <2>1, <2>2, <3>1, <3>2
    <3>4. state = "OUT_SYNC" => nw * c > cap_outbuf_
      <4>. SUFFICES ASSUME state = "OUT_SYNC" PROVE nw * c > cap_outbuf_
        OBVIOUS
      <4>1. (w + 1) * c <= nw * c /\ (w + 1) * c = w * c + c
        BY <2>1, <3>1, TileBeforeEnd
      <4>2. sz_output_ = w * c /\ ~(sz_output_ + c <= cap_outbuf_)
        BY <3>1
      <4>. QED
        BY <2>1, <3>1, <4>1, <4>2, ArrayAssumption
    <3>. QED
      BY <2>2, <3>1, <3>3, <3>4 DEF OutputRoom, Working, Column
  <2>3. CASE state = "DONE"
    <3>1. /\ batch_cnt_ = 1 /\ w = 0 /\ h = 0
          /\ sz_output_ = nw * c /\ sz_output_ <= cap_outbuf_
      BY <2>3 DEF IInv, Finished
    <3>2. CeilDiv(0, nh) = 0
      BY <2>1, <2>3, CeilDivPart
    <3>3. 1 * nw + 0 + 0 = nw
      BY <2>1, <2>3
    <3>. QED
      BY <2>3, <3>1, <3>2, <3>3 DEF OutputRoom, Working, Column
  <2>4. CASE state = "IDLE"
    BY <2>4 DEF OutputRoom, Working
  <2>. QED
    BY <2>2, <2>3, <2>4 DEF IInv, TypeInv, States
<1>. QED
  BY Invariance, <1>1, PTL

\* The array implements its contract: Comb sees it take one block at a time
\* and either finish it or, for want of room, end the program.
THEOREM ImplementsContract == SafeSpec => Contract!SafeSpec
<1>1. Init => Contract!Init
  BY DEF Init, Contract!Init
<1>2. IInv /\ [Next]_vars =>
        [Contract!Next]_(CASE state = "IDLE" -> "IDLE"
                           [] state = "DONE" -> "DONE"
                           [] state = "OUT_SYNC" -> "EXIT"
                           [] OTHER -> "BUSY")
  <2>. SUFFICES ASSUME [Next]_vars
       PROVE [Contract!Next]_(CASE state = "IDLE" -> "IDLE"
                                [] state = "DONE" -> "DONE"
                                [] state = "OUT_SYNC" -> "EXIT"
                                [] OTHER -> "BUSY")
    OBVIOUS
  <2>. USE DEF Contract!Next, Contract!Start, Contract!Finish, Contract!Overflow,
               Contract!Collect
  <2>1. CASE SetMatrix
    BY <2>1 DEF SetMatrix
  <2>2. CASE FillWeight
    BY <2>2 DEF FillWeight
  <2>3. CASE Compute
    BY <2>3 DEF Compute
  <2>4. CASE FeedTile
    BY <2>4 DEF FeedTile
  <2>5. CASE OutSync
    BY <2>5 DEF OutSync
  <2>6. CASE GetResult
    BY <2>6 DEF GetResult
  <2>7. CASE UNCHANGED vars
    BY <2>7 DEF vars
  <2>. QED
    BY <2>1, <2>2, <2>3, <2>4, <2>5, <2>6, <2>7 DEF Next, ClockTick
<1>. QED
  BY <1>1, <1>2, Invariance, PTL DEF SafeSpec, Contract!SafeSpec
=============================================================================
