----------------------------- MODULE ChannelState -----------------------------
(***************************************************************************)
(* The banks of a DRAM channel (dramsim3 bankstate.cc, channel_state.cc):  *)
(* which row each has open, how long each still has to wait for each kind  *)
(* of command, the activations of the last tFAW cycles of each rank, and   *)
(* the refreshes that are due.  Times are kept as the cycles that remain,  *)
(* so that a cycle lowers them all (Elapse).  Self-refresh is left out:    *)
(* it is off unless a configuration asks for it.                           *)
(***************************************************************************)
EXTENDS Timing, Sequences, FiniteSetsExt

VARIABLES
  open_row,       \* of each bank, None when it is closed
  row_hit_count,  \* column commands since the row was opened
  cmd_timing,     \* cycles each bank waits for each kind of command
  four_aw,        \* of each rank: remaining times of its last activations
  refresh_q,      \* the refresh commands due, the first to come first
  window,         \* history: the activations of the last tFAW cycles
  refreshing      \* history: cycles a refresh still takes, bank by bank

bankVars == <<open_row, row_hit_count, cmd_timing, four_aw, window, refreshing>>
channelVars == <<bankVars, refresh_q>>

None == -1
NoAddress == <<>>

\* ArbitratePrecharge compares a count of row hits with 4 and no other number.
RowHitLimit == 4

InitChannel ==
  /\ open_row = [b \in Banks |-> None]
  /\ row_hit_count = [b \in Banks |-> 0]
  /\ cmd_timing = [b \in Banks |-> NoDelay]
  /\ four_aw = [r \in Ranks |-> <<>>]
  /\ refresh_q = <<>>
  /\ window = [r \in Ranks |-> <<>>]
  /\ refreshing = [b \in Banks |-> 0]

\* A command.  addr is the transaction's, NoAddress for any other command.
Command(type, bank, row, addr) ==
  [type |-> type, bank |-> bank, row |-> row, addr |-> addr]
NoCommand == Command("NONE", None, None, NoAddress)
IsValid(cmd) == cmd.type # "NONE"

IsRowOpen(b) == open_row[b] # None
TimeOk(b, type) == cmd_timing[b][TimedAs(type)] = 0

\* The banks a command is for: all of a rank for REFRESH.
BanksOf(cmd) ==
  IF cmd.type = "REFRESH" THEN {b \in Banks : RankOf(b) = RankOf(cmd.bank)}
                          ELSE {cmd.bank}

-----------------------------------------------------------------------------
\* Mutant: a fifth activation is let into the window.
IsFAWReady_Five(r) == ~(Len(four_aw[r]) >= 5 /\ Head(four_aw[r]) > 0)

IsFAWReady(r) == ~(Len(four_aw[r]) >= 4 /\ Head(four_aw[r]) > 0)

\* What a column command needs next, if the bank and the rank are ready for it.
RequiredType(cmd) ==
  IF ~IsRowOpen(cmd.bank) THEN "ACTIVATE"
  ELSE IF open_row[cmd.bank] = cmd.row THEN cmd.type ELSE "PRECHARGE"

GetReadyCommand(cmd) ==
  LET type == RequiredType(cmd)
  IN  IF TimeOk(cmd.bank, type) /\ (type = "ACTIVATE" => IsFAWReady(RankOf(cmd.bank)))
        THEN [cmd EXCEPT !.type = type] ELSE NoCommand

\* What a refresh needs next: a bank of its closed, the first one that may be;
\* else the refresh itself, when all its banks are ready for it.
GetReadyRefresh(ref) ==
  LET toClose == {b \in BanksOf(ref) : IsRowOpen(b) /\ TimeOk(b, "PRECHARGE")}
  IN  IF toClose # {} THEN Command("PRECHARGE", Min(toClose), None, NoAddress)
      ELSE IF \A b \in BanksOf(ref) : ~IsRowOpen(b) /\ TimeOk(b, ref.type)
        THEN ref ELSE NoCommand

-----------------------------------------------------------------------------
Closes(type) == type \in {"PRECHARGE", "READ_PRECHARGE", "WRITE_PRECHARGE"}

\* RankNeedRefresh and BankNeedRefresh(false): only the first is issued.
StillDue(cmd) == IF IsRefresh(cmd.type) THEN Tail(refresh_q) ELSE refresh_q

UpdateState(cmd) ==
  LET b == cmd.bank
  IN  /\ open_row' =
           CASE cmd.type = "ACTIVATE" -> [open_row EXCEPT ![b] = cmd.row]
             [] Closes(cmd.type) -> [open_row EXCEPT ![b] = None]
             [] OTHER -> open_row
      /\ row_hit_count' =
           CASE cmd.type \in {"READ", "WRITE"} ->
                  [row_hit_count EXCEPT ![b] = IF @ < RowHitLimit THEN @ + 1 ELSE @]
             [] Closes(cmd.type) -> [row_hit_count EXCEPT ![b] = 0]
             [] OTHER -> row_hit_count
      /\ refresh_q' = StillDue(cmd)

\* UpdateActivationTimes: the oldest goes if its time is over.
Activated(aw) ==
  Append(IF aw # <<>> /\ Head(aw) = 0 THEN Tail(aw) ELSE aw, config.tFAW)

UpdateTiming(cmd) ==
  /\ cmd_timing' =
       [b \in Banks |->
          LET delay == TimingOf(cmd.type, Scope(cmd.bank, b))
          IN  [t \in Timed |-> Larger(cmd_timing[b][t], delay[t])]]
  /\ IF cmd.type = "ACTIVATE"
       THEN /\ four_aw' = [four_aw EXCEPT ![RankOf(cmd.bank)] = Activated(@)]
            /\ window' = [window EXCEPT ![RankOf(cmd.bank)] = Append(@, config.tFAW)]
       ELSE UNCHANGED <<four_aw, window>>
  /\ refreshing' =
       IF IsRefresh(cmd.type)
         THEN [b \in Banks |->
                 IF b \notin BanksOf(cmd) THEN refreshing[b]
                 ELSE IF cmd.type = "REFRESH" THEN config.tRFC ELSE config.tRFCb]
         ELSE refreshing

UpdateTimingAndStates(cmd) == UpdateState(cmd) /\ UpdateTiming(cmd)

\* A cycle goes by.
Less(n) == IF n > 0 THEN n - 1 ELSE 0
LessAll(s) == [i \in DOMAIN s |-> Less(s[i])]

\* Of the activations, the oldest of which come first, those that still count.
InWindow(s) ==
  LET live == {i \in DOMAIN s : s[i] > 0}
  IN  IF live = {} THEN <<>> ELSE SubSeq(s, Min(live), Len(s))

Elapse ==
  /\ cmd_timing' = [b \in Banks |-> LessAll(cmd_timing[b])]
  /\ four_aw' = [r \in Ranks |-> LessAll(four_aw[r])]
  /\ window' = [r \in Ranks |-> InWindow(LessAll(window[r]))]
  /\ refreshing' = LessAll(refreshing)
  /\ UNCHANGED <<open_row, row_hit_count, refresh_q>>

-----------------------------------------------------------------------------
\* Of any five activations of a rank, the last comes tFAW cycles after the
\* first at least (channel_state.cc:282, where the oldest makes room for it).
ActivationWindow == \A r \in Ranks : Len(window[r]) <= 4

\* "tRFC is defined as ref to act" (timing.cc:56): no bank has a row opened
\* before its refresh is over.
AnyRefreshUndisturbed == \A b \in Banks : refreshing[b] > 0 => ~IsRowOpen(b)

\* The code keeps that for refreshes of ranks.
RanksUndisturbed ==
  config.refresh_policy # "BANK_LEVEL_STAGGERED" => AnyRefreshUndisturbed
=============================================================================
