---------------------------- MODULE MCController ----------------------------
(* Channels for model checking, of two or four banks, with short times.    *)
EXTENDS Controller

R(bank, row) == [addr |-> <<bank, row, 0>>, is_write |-> FALSE]
W(bank, row) == [addr |-> <<bank, row, 0>>, is_write |-> TRUE]

\* Reads of one address, a read forwarded from a write, writes that fill the
\* buffer; split queues, one for each bank, two commands a cycle.
Split ==
  [ranks |-> 1, bankgroups |-> 2, banks_per_group |-> 1,
   queue_structure |-> "PER_BANK", unified_queue |-> FALSE,
   trans_queue_size |-> 2, cmd_queue_size |-> 2, drain_threshold |-> 8,
   row_buf_policy |-> "OPEN_PAGE", refresh_policy |-> "RANK_LEVEL_STAGGERED",
   enable_hbm_dual_cmd |-> TRUE,
   burst_cycle |-> 1, AL |-> 0, RL |-> 1, WL |-> 1, tCCD_L |-> 2, tCCD_S |-> 1,
   tRTRS |-> 1, tRTP |-> 1, tWTR_L |-> 1, tWTR_S |-> 1, tWR |-> 1, tRP |-> 1,
   tRRD_L |-> 1, tRRD_S |-> 1, tRAS |-> 2, tRCDRD |-> 1, tRCDWR |-> 1,
   tRFC |-> 3, tRFCb |-> 2, tREFI |-> 12, tREFIb |-> 8, tFAW |-> 6,
   stream |-> <<R(0, 0), R(0, 0), W(0, 1), R(0, 1), W(1, 0)>>]

\* A write behind a read of its address: the one queue keeps them in order.
\* Two ranks, a queue for each, rows closed by every command.
Unified ==
  [Split EXCEPT !.ranks = 2, !.bankgroups = 1, !.queue_structure = "PER_RANK",
     !.unified_queue = TRUE, !.row_buf_policy = "CLOSE_PAGE",
     !.refresh_policy = "RANK_LEVEL_SIMULTANEOUS", !.enable_hbm_dual_cmd = FALSE,
     !.stream = <<R(0, 0), W(0, 0), R(1, 0), W(1, 1), R(0, 0)>>]

\* Five rows of four banks, so that the fifth must wait for the window.
Window ==
  [Split EXCEPT !.banks_per_group = 2, !.tFAW = 7, !.tREFI = 10,
     !.stream = <<R(0, 0), R(2, 0), R(1, 0), R(3, 0), R(0, 1)>>]

\* A write behind a read of its address, with split queues; and a write that
\* is merged with it.
Conflict ==
  [Split EXCEPT !.drain_threshold = 0, !.cmd_queue_size = 1,
     !.stream = <<R(0, 0), W(0, 0), W(0, 0), W(1, 0)>>]

\* Refreshes of single banks; and a row hit that is ready together with the
\* read of another bank.
Staggered ==
  [Split EXCEPT !.refresh_policy = "BANK_LEVEL_STAGGERED",
     !.stream =
       <<R(0, 0), R(1, 0), [addr |-> <<0, 0, 1>>, is_write |-> FALSE]>>]

MCConfigs == {Split, Unified, Window, Conflict, Staggered}
=============================================================================
