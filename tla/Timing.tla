------------------------------- MODULE Timing -------------------------------
(***************************************************************************)
(* What a DRAM command makes the next ones wait for (dramsim3 timing.cc    *)
(* and the parameters of configuration.cc), for the HBM protocol: the      *)
(* tables same_bank, other_banks_same_bankgroup, other_bankgroups_-        *)
(* same_rank, other_ranks and same_rank as one operator TimingOf.          *)
(*                                                                         *)
(* Banks are numbered through, rank by rank and group by group, as the     *)
(* queues of PER_BANK are.  The configuration is a variable that Init      *)
(* chooses and no step changes.                                            *)
(***************************************************************************)
EXTENDS Integers

CONSTANT Configs   \* the configurations, records of configuration.cc's fields

TimingParams ==
  {"burst_cycle", "AL", "RL", "WL", "tCCD_L", "tCCD_S", "tRTRS", "tRTP",
   "tWTR_L", "tWTR_S", "tWR", "tRP", "tRRD_L", "tRRD_S", "tRAS", "tRCDRD",
   "tRCDWR", "tRFC", "tRFCb", "tREFI", "tREFIb", "tFAW"}

ASSUME TimingAssumption ==
  \A c \in Configs :
    /\ \A p \in TimingParams : c[p] \in Nat
    /\ c.ranks \in Nat \ {0} /\ c.bankgroups \in Nat \ {0}
    /\ c.banks_per_group \in Nat \ {0}
    /\ c.tREFI >= c.ranks /\ c.tREFIb > 0

\* No two column commands are ready in one cycle: none of the gaps between
\* them is 0 or less.  The code relies on it and does not check it: the second
\* of the two would leave its queue and not be issued (controller.cc:87).
\* BL = 0 makes burst_cycle 0; with two ranks and a read latency of
\* WL + burst_cycle + tRTRS a write and a read of different ranks meet.
ASSUME ColumnsApart ==
  \A c \in Configs :
    /\ c.burst_cycle > 0
    /\ c.RL + c.burst_cycle + c.tRTRS > c.WL
    /\ c.ranks > 1 => c.WL + c.burst_cycle + c.tRTRS > c.RL

VARIABLE config

banks == config.bankgroups * config.banks_per_group
Ranks == 0..(config.ranks - 1)
Banks == 0..(config.ranks * banks - 1)
RankOf(b) == b \div banks
GroupOf(b) == (b % banks) \div config.banks_per_group

\* Where bank b lies as seen from bank a.
Scope(a, b) ==
  CASE a = b -> "same_bank"
    [] RankOf(a) # RankOf(b) -> "other_ranks"
    [] GroupOf(a) = GroupOf(b) -> "other_banks_same_bankgroup"
    [] OTHER -> "other_bankgroups_same_rank"

\* What a bank's timing is kept for.  A column command that precharges waits
\* as the one that does not.
Timed == {"READ", "WRITE", "ACTIVATE", "PRECHARGE", "REFRESH", "REFRESH_BANK"}
IsRead(type) == type \in {"READ", "READ_PRECHARGE"}
IsWrite(type) == type \in {"WRITE", "WRITE_PRECHARGE"}
IsReadWrite(type) == IsRead(type) \/ IsWrite(type)
IsRefresh(type) == type \in {"REFRESH", "REFRESH_BANK"}

TimedAs(type) ==
  IF IsRead(type) THEN "READ" ELSE IF IsWrite(type) THEN "WRITE" ELSE type

Larger(m, n) == IF m >= n THEN m ELSE n

-----------------------------------------------------------------------------
\* Within a group the long value holds; with one group the short one does.
ByScope(s, long, short) ==
  IF s = "other_bankgroups_same_rank" \/ config.bankgroups = 1 THEN short ELSE long

read_delay == config.RL + config.burst_cycle
write_delay == config.WL + config.burst_cycle

\* Mutant: the gap between two bursts is forgotten.
burst_to_burst_None(s) == 0

\* Two reads, or two writes, of one rank.
burst_to_burst(s) ==
  Larger(config.burst_cycle, ByScope(s, config.tCCD_L, config.tCCD_S))

read_to_read(s) ==
  IF s = "other_ranks" THEN config.burst_cycle + config.tRTRS ELSE burst_to_burst(s)
read_to_write == config.RL + config.burst_cycle - config.WL + config.tRTRS
write_to_read(s) ==
  IF s = "other_ranks"
    THEN write_delay + config.burst_cycle + config.tRTRS - read_delay
    ELSE write_delay + ByScope(s, config.tWTR_L, config.tWTR_S)
write_to_write(s) ==
  IF s = "other_ranks" THEN config.burst_cycle ELSE burst_to_burst(s)
to_precharge(cmd) ==
  IF IsRead(cmd) THEN config.AL + config.tRTP
                 ELSE config.WL + config.burst_cycle + config.tWR
readp_to_act == config.AL + config.burst_cycle + config.tRTP + config.tRP
to_activate(cmd) == to_precharge(cmd) + config.tRP
tRC == config.tRAS + config.tRP

NoDelay == [t \in Timed |-> 0]

AfterColumn(cmd, s) ==
  IF IsRead(cmd)
    THEN [NoDelay EXCEPT !["READ"] = read_to_read(s), !["WRITE"] = read_to_write]
    ELSE [NoDelay EXCEPT !["READ"] = write_to_read(s), !["WRITE"] = write_to_write(s)]

\* Mutant: a refresh does not hold activations back.
AfterRefresh_None(cmd, s) == NoDelay

\* A refresh of a rank holds all its banks.  The list same_rank of REFRESH_BANK
\* (timing.cc:225) is never applied: UpdateTiming treats the command as one of
\* a single bank, whose own list is empty.
AfterRefresh(cmd, s) ==
  CASE cmd = "REFRESH" /\ s # "other_ranks" ->
         [NoDelay EXCEPT !["ACTIVATE"] = config.tRFC, !["REFRESH"] = config.tRFC]
    [] cmd = "REFRESH_BANK" /\ s \notin {"same_bank", "other_ranks"} ->
         [NoDelay EXCEPT !["ACTIVATE"] = config.tRFC, !["REFRESH_BANK"] = config.tREFI]
    [] OTHER -> NoDelay

\* The cycles a bank in scope s waits, after cmd, for each kind of command.
TimingOf(cmd, s) ==
  CASE cmd \in {"READ", "WRITE"} /\ s = "same_bank" ->
         [AfterColumn(cmd, s) EXCEPT !["PRECHARGE"] = to_precharge(cmd)]
    [] cmd \in {"READ_PRECHARGE", "WRITE_PRECHARGE"} /\ s = "same_bank" ->
         [NoDelay EXCEPT
            !["ACTIVATE"] = IF IsRead(cmd) THEN readp_to_act ELSE to_activate(cmd),
            !["REFRESH"] = to_activate(cmd), !["REFRESH_BANK"] = to_activate(cmd)]
    [] IsReadWrite(cmd) /\ s # "same_bank" -> AfterColumn(cmd, s)
    [] cmd = "ACTIVATE" /\ s = "same_bank" ->
         [NoDelay EXCEPT !["ACTIVATE"] = tRC, !["READ"] = config.tRCDRD,
            !["WRITE"] = config.tRCDWR, !["PRECHARGE"] = config.tRAS]
    [] cmd = "ACTIVATE" /\ s \notin {"same_bank", "other_ranks"} ->
         [NoDelay EXCEPT !["ACTIVATE"] = ByScope(s, config.tRRD_L, config.tRRD_S),
            !["REFRESH_BANK"] = tRC]
    [] cmd = "PRECHARGE" /\ s = "same_bank" ->
         [NoDelay EXCEPT !["ACTIVATE"] = config.tRP, !["REFRESH"] = config.tRP,
            !["REFRESH_BANK"] = config.tRP]
    [] IsRefresh(cmd) -> AfterRefresh(cmd, s)
    [] OTHER -> NoDelay
=============================================================================
