----------------------------- MODULE CommandQueue -----------------------------
(***************************************************************************)
(* The command queues of a DRAM channel (dramsim3 command_queue.cc,        *)
(* refresh.cc): one for each bank or for each rank, served in turn from    *)
(* the one after the last that had a command; and the refreshes that are   *)
(* raised beside them.                                                     *)
(***************************************************************************)
EXTENDS ChannelState, SequencesExt

\* A bound of the model on the refreshes that wait: under BANK_LEVEL_STAGGERED
\* more are raised than can be issued, and refresh_q_ grows without end.
CONSTANT MaxRefresh

ASSUME MaxRefreshAssumption == MaxRefresh \in Nat \ {0}

\* Any other ends the program (configuration.cc:237).
ASSUME PolicyAssumption ==
  \A c \in Configs :
    c.refresh_policy \in
      {"RANK_LEVEL_SIMULTANEOUS", "RANK_LEVEL_STAGGERED", "BANK_LEVEL_STAGGERED"}

VARIABLES
  queues,         \* the commands of each queue
  queue_idx,      \* the queue served last
  ref_q_indices,  \* the queues a refresh holds back; is_in_ref_ is its emptiness
  refresh_clk,    \* cycles to the next refresh
  next_ref        \* the rank, group and bank it is for

queueVars == <<queues, queue_idx, ref_q_indices>>
refreshVars == <<refresh_clk, next_ref>>

PerBank == config.queue_structure = "PER_BANK"
GetQueueIndex(b) == IF PerBank THEN b ELSE RankOf(b)
num_queues == IF PerBank THEN config.ranks * banks ELSE config.ranks

refresh_interval ==
  CASE config.refresh_policy = "RANK_LEVEL_SIMULTANEOUS" -> config.tREFI
    [] config.refresh_policy = "BANK_LEVEL_STAGGERED" -> config.tREFIb
    [] OTHER -> config.tREFI \div config.ranks

InitQueues ==
  /\ InitChannel
  /\ queues = [i \in 0..(num_queues - 1) |-> <<>>]
  /\ queue_idx = 0
  /\ ref_q_indices = {}
  /\ refresh_clk = refresh_interval
  /\ next_ref = [rank |-> 0, bg |-> 0, bank |-> 0]

WillAcceptCommand(b) == Len(queues[GetQueueIndex(b)]) < config.cmd_queue_size
QueueEmpty == \A i \in DOMAIN queues : queues[i] = <<>>

AddCommand(cmd) ==
  queues' = [queues EXCEPT ![GetQueueIndex(cmd.bank)] = Append(@, cmd)]

-----------------------------------------------------------------------------
\* A row is closed for the k-th command of q only when no earlier command
\* wants the bank, and no later one the open row unless it had its hits.
ArbitratePrecharge(q, k) ==
  LET b == q[k].bank
  IN  /\ \A i \in 1..(k - 1) : q[i].bank # b
      /\ \/ \A i \in k..Len(q) : ~(q[i].bank = b /\ q[i].row = open_row[b])
         \/ row_hit_count[b] >= RowHitLimit

HasRWDependency(q, k) ==
  \E i \in 1..(k - 1) : IsRead(q[i].type) /\ q[i].addr = q[k].addr

\* The k-th command of q may issue what it needs next.
Issuable(q, k) ==
  LET cmd == GetReadyCommand(q[k])
  IN  /\ IsValid(cmd)
      /\ cmd.type = "PRECHARGE" => ArbitratePrecharge(q, k)
      /\ IsWrite(cmd.type) => ~HasRWDependency(q, k)

Turn(n) == (queue_idx + n) % num_queues

\* Mutant: the queues of a refresh are not skipped.
Turns_All == 1..num_queues

\* All queues get a turn but those of the refresh in hand.
Turns == {n \in 1..num_queues : Turn(n) \notin ref_q_indices}

\* A column command leaves its queue whether it is issued or not.
EraseRWCommand(cmd) ==
  queues' =
    IF ~IsReadWrite(cmd.type) THEN queues
    ELSE [queues EXCEPT ![GetQueueIndex(cmd.bank)] =
            RemoveFirstMatch(@, LAMBDA c : c.addr = cmd.addr /\ c.type = cmd.type)]

\* The commands that may issue something: of the first queue in turn that has
\* one, the first.
ReadyIn(q) == {k \in DOMAIN q : Issuable(q, k)}
ReadyTurns == {n \in Turns : ReadyIn(queues[Turn(n)]) # {}}

NextQueue == IF ReadyTurns = {} THEN queue_idx ELSE Turn(Min(ReadyTurns))

FirstReady(i) ==
  IF ReadyTurns = {} THEN NoCommand
  ELSE GetReadyCommand(queues[i][Min(ReadyIn(queues[i]))])

\* It is the turn of queue i, which gives out cmd.
GetCommandToIssue(i, cmd) == queue_idx' = i /\ EraseRWCommand(cmd)

-----------------------------------------------------------------------------
(* Refresh.                                                                *)

BankAt(r, bg, bank) == r * banks + bg * config.banks_per_group + bank
RankRefresh(r) == Command("REFRESH", BankAt(r, 0, 0), None, NoAddress)

\* RANK_LEVEL_SIMULTANEOUS leaves its loop over the ranks with the first.
InsertRefresh ==
  refresh_q' = Append(refresh_q,
    CASE config.refresh_policy = "RANK_LEVEL_SIMULTANEOUS" -> RankRefresh(0)
      [] config.refresh_policy = "RANK_LEVEL_STAGGERED" -> RankRefresh(next_ref.rank)
      [] OTHER -> Command("REFRESH_BANK",
                    BankAt(next_ref.rank, next_ref.bg, next_ref.bank), None, NoAddress))

IterateNext ==
  LET bg == (next_ref.bg + 1) % config.bankgroups
      bank == IF bg = 0 THEN (next_ref.bank + 1) % config.banks_per_group
                        ELSE next_ref.bank
      rank == (next_ref.rank + 1) % config.ranks
  IN  next_ref' =
        CASE config.refresh_policy = "RANK_LEVEL_SIMULTANEOUS" -> next_ref
          [] config.refresh_policy = "RANK_LEVEL_STAGGERED" ->
               [next_ref EXCEPT !.rank = rank]
          [] OTHER ->
               [rank |-> IF bg = 0 /\ bank = 0 THEN rank ELSE next_ref.rank,
                bg |-> bg, bank |-> bank]

RefreshClockTick ==
  IF refresh_clk = 0
    THEN /\ refresh_clk' = refresh_interval - 1
         /\ IF Len(refresh_q) < MaxRefresh THEN InsertRefresh /\ IterateNext
                                           ELSE UNCHANGED <<refresh_q, next_ref>>
    ELSE /\ refresh_clk' = refresh_clk - 1
         /\ UNCHANGED <<refresh_q, next_ref>>

GetRefQIndices(ref) == {GetQueueIndex(b) : b \in BanksOf(ref)}

\* The first refresh that waits gets cmd, what it needs next; its queues are
\* held back until it is issued itself.
FinishRefresh(cmd) ==
  ref_q_indices' =
    IF IsRefresh(cmd.type) THEN {}
    ELSE IF ref_q_indices = {} THEN GetRefQIndices(Head(refresh_q))
    ELSE ref_q_indices
=============================================================================
