------------------------------ MODULE Controller ------------------------------
(***************************************************************************)
(* A channel of the DRAM (dramsim3 controller.cc, dram_system.cc): the     *)
(* transactions that wait, those whose commands are in the queues, and     *)
(* those that are done.  One cycle is                                      *)
(*                                                                         *)
(*   AddTransaction ... -> ReturnDoneTrans ... -> BeginCycle               *)
(*     -> FinishRefreshFirst -> IssueFirst -> IssueSecond                  *)
(*     -> ScheduleTransaction -> next cycle                                *)
(*                                                                         *)
(* The transactions are those of config.stream, in its order and at any    *)
(* time the channel will take them; each is known by its place in it, and  *)
(* its address is <<bank, row, column>>.                                   *)
(***************************************************************************)
EXTENDS CommandQueue

CONSTANT MaxTrans   \* the longest stream has so many transactions

\* Addresses are decoded into banks the channel has.
ASSUME StreamAssumption ==
  \A c \in Configs :
    LET Address == (0..(c.ranks * (c.bankgroups * c.banks_per_group) - 1)) \X Nat \X Nat
    IN  /\ c.unified_queue \in BOOLEAN /\ c.enable_hbm_dual_cmd \in BOOLEAN
        /\ c.stream \in Seq([addr : Address, is_write : BOOLEAN])
        /\ Len(c.stream) <= MaxTrans

VARIABLES
  pc,              \* where in the cycle the channel is
  added,           \* transactions of the stream accepted so far
  pending_rd, pending_wr,   \* not yet issued: sets of transactions
  unified_queue, read_queue, write_buffer,
  write_draining,
  return_queue,    \* records of a transaction and the cycles left
  issued,          \* was the cycle's first command a column command?
  done             \* history: transactions given back

transVars == <<added, pending_rd, pending_wr, unified_queue, read_queue,
               write_buffer, write_draining, return_queue>>
vars == <<config, channelVars, queueVars, refreshVars, pc, transVars, issued, done>>

Trans == DOMAIN config.stream
AddrOf(t) == config.stream[t].addr
is_write(t) == config.stream[t].is_write
WithAddr(ts, a) == {t \in ts : AddrOf(t) = a}

Init ==
  /\ config \in Configs
  /\ InitQueues
  /\ pc = "add" /\ issued = FALSE
  /\ added = 0 /\ done = {}
  /\ pending_rd = {} /\ pending_wr = {}
  /\ unified_queue = <<>> /\ read_queue = <<>> /\ write_buffer = <<>>
  /\ write_draining = 0
  /\ return_queue = <<>>

-----------------------------------------------------------------------------
(* JedecDRAMSystem::AddTransaction, if WillAcceptTransaction says so.      *)

WillAcceptTransaction(t) ==
  LET q == IF config.unified_queue THEN unified_queue
           ELSE IF is_write(t) THEN write_buffer ELSE read_queue
  IN  Len(q) < config.trans_queue_size

Enqueue(t) ==
  IF config.unified_queue
    THEN /\ unified_queue' = Append(unified_queue, t)
         /\ UNCHANGED <<read_queue, write_buffer>>
    ELSE /\ IF is_write(t)
              THEN write_buffer' = Append(write_buffer, t) /\ UNCHANGED read_queue
              ELSE read_queue' = Append(read_queue, t) /\ UNCHANGED write_buffer
         /\ UNCHANGED unified_queue

NotQueued == UNCHANGED <<unified_queue, read_queue, write_buffer>>

\* Given back in the next cycle.
ReturnSoon(t) == return_queue' = Append(return_queue, [trans |-> t, left |-> 1])

\* A write is acknowledged at once.  It is merged with one that waits.
AddWrite(t) ==
  /\ is_write(t)
  /\ IF WithAddr(pending_wr, AddrOf(t)) = {}
       THEN pending_wr' = pending_wr \cup {t} /\ Enqueue(t)
       ELSE UNCHANGED pending_wr /\ NotQueued
  /\ ReturnSoon(t)
  /\ UNCHANGED pending_rd

\* A read of what a write has yet to bring to the banks takes it from there.
Forwarded(t) == WithAddr(pending_wr, AddrOf(t)) # {}

\* Mutant: a forwarded read is answered by the banks as well.
AddRead_Both(t) ==
  /\ ~is_write(t)
  /\ IF Forwarded(t) THEN ReturnSoon(t) ELSE UNCHANGED return_queue
  /\ pending_rd' = pending_rd \cup {t}
  /\ IF WithAddr(pending_rd, AddrOf(t)) = {} THEN Enqueue(t) ELSE NotQueued
  /\ UNCHANGED pending_wr

AddRead(t) ==
  /\ ~is_write(t)
  /\ IF Forwarded(t)
       THEN ReturnSoon(t) /\ NotQueued /\ UNCHANGED pending_rd
       ELSE /\ pending_rd' = pending_rd \cup {t}
            /\ IF WithAddr(pending_rd, AddrOf(t)) = {} THEN Enqueue(t) ELSE NotQueued
            /\ UNCHANGED return_queue
  /\ UNCHANGED pending_wr

AddTransaction ==
  /\ pc = "add" /\ added < Len(config.stream)
  /\ WillAcceptTransaction(added + 1)
  /\ AddWrite(added + 1) \/ AddRead(added + 1)
  /\ added' = added + 1
  /\ UNCHANGED <<config, channelVars, queueVars, refreshVars, pc, write_draining,
                 issued, done>>

-----------------------------------------------------------------------------
(* JedecDRAMSystem::ClockTick: what is done is given back, one transaction *)
(* after the other, and then the cycle begins with the refresh counter.    *)

Over == {i \in DOMAIN return_queue : return_queue[i].left = 0}

ReturnDoneTrans ==
  /\ pc \in {"add", "return"} /\ Over # {}
  /\ done' = done \cup {return_queue[Min(Over)].trans}
  /\ return_queue' = RemoveAt(return_queue, Min(Over))
  /\ pc' = "return"
  /\ UNCHANGED <<config, channelVars, queueVars, refreshVars, added, pending_rd,
                 pending_wr, unified_queue, read_queue, write_buffer,
                 write_draining, issued>>

BeginCycle ==
  /\ pc \in {"add", "return"} /\ Over = {}
  /\ RefreshClockTick
  /\ pc' = IF refresh_q' # <<>> THEN "finish" ELSE "issue"
  /\ UNCHANGED <<config, bankVars, queueVars, transVars, issued, done>>

\* Mutant: of the reads of one address only the first is given back.
ReadsDone_One(cmd) == {Min(WithAddr(pending_rd, cmd.addr))}

ReadsDone(cmd) == WithAddr(pending_rd, cmd.addr)

\* Transactions in the order they came.
InOrder(ts) ==
  CHOOSE s \in [1..Cardinality(ts) -> ts] : \A i, j \in DOMAIN s : i < j => s[i] < s[j]

\* A read command answers every read of its address.
IssueCommand(cmd) ==
  /\ IF IsRead(cmd.type)
       THEN /\ return_queue' = return_queue \o
                 [i \in 1..Cardinality(ReadsDone(cmd)) |->
                    [trans |-> InOrder(ReadsDone(cmd))[i], left |-> read_delay]]
            /\ pending_rd' = pending_rd \ ReadsDone(cmd)
       ELSE UNCHANGED <<return_queue, pending_rd>>
  /\ pending_wr' = IF IsWrite(cmd.type)
                     THEN pending_wr \ WithAddr(pending_wr, cmd.addr) ELSE pending_wr
  /\ UpdateTimingAndStates(cmd)

NothingIssued == UNCHANGED <<channelVars, return_queue, pending_rd, pending_wr>>

First(cmd) ==
  /\ IssueCommand(cmd)
  /\ issued' = (config.enable_hbm_dual_cmd /\ IsReadWrite(cmd.type))
  /\ pc' = IF config.enable_hbm_dual_cmd THEN "second" ELSE "schedule"

FinishRefreshFirst ==
  /\ pc = "finish"
  /\ \E cmd \in {GetReadyRefresh(Head(refresh_q))} :
       /\ FinishRefresh(cmd)
       /\ IF IsValid(cmd) THEN First(cmd)
          ELSE NothingIssued /\ pc' = "issue" /\ UNCHANGED issued
  /\ UNCHANGED <<config, queues, queue_idx, refreshVars, added, unified_queue,
                 read_queue, write_buffer, write_draining, done>>

IssueFirst ==
  /\ pc = "issue"
  /\ \E i \in {NextQueue} : \E cmd \in {FirstReady(i)} :
       /\ GetCommandToIssue(i, cmd)
       /\ IF IsValid(cmd) THEN First(cmd)
          ELSE NothingIssued /\ pc' = "schedule" /\ UNCHANGED issued
  /\ UNCHANGED <<config, ref_q_indices, refreshVars, added, unified_queue,
                 read_queue, write_buffer, write_draining, done>>

\* The second command of a cycle goes to the other one of HBM's two buses.
IssueSecond ==
  /\ pc = "second"
  /\ \E i \in {NextQueue} : \E cmd \in {FirstReady(i)} :
       /\ GetCommandToIssue(i, cmd)
       /\ IF IsValid(cmd) /\ IsReadWrite(cmd.type) # issued
            THEN IssueCommand(cmd) ELSE NothingIssued
  /\ pc' = "schedule" /\ issued' = FALSE
  /\ UNCHANGED <<config, ref_q_indices, refreshVars, added, unified_queue,
                 read_queue, write_buffer, write_draining, done>>

-----------------------------------------------------------------------------
(* ScheduleTransaction: at most the first transaction of one queue becomes *)
(* a command.  Then the cycle is over.                                     *)

TransToCommand(t) ==
  LET closes == config.row_buf_policy = "CLOSE_PAGE"
  IN  Command(IF is_write(t) THEN IF closes THEN "WRITE_PRECHARGE" ELSE "WRITE"
                             ELSE IF closes THEN "READ_PRECHARGE" ELSE "READ",
              AddrOf(t)[1], AddrOf(t)[2], AddrOf(t))

\* The writes to be drained before reads are looked at again.
Draining ==
  IF /\ write_draining = 0 /\ ~config.unified_queue
     /\ \/ Len(write_buffer) >= config.trans_queue_size
        \/ Len(write_buffer) > config.drain_threshold /\ QueueEmpty
    THEN Len(write_buffer) ELSE write_draining

CycleOver ==
  /\ Elapse
  /\ return_queue' = [i \in DOMAIN return_queue |->
                        [return_queue[i] EXCEPT !.left = Less(@)]]
  /\ pc' = "add"
  /\ UNCHANGED <<config, queue_idx, ref_q_indices, refreshVars, added, pending_rd,
                 pending_wr, issued, done>>

NoSchedule == NotQueued /\ UNCHANGED queues

ScheduleUnified ==
  /\ pc = "schedule" /\ config.unified_queue
  /\ IF unified_queue # <<>> /\ WillAcceptCommand(AddrOf(Head(unified_queue))[1])
       THEN /\ AddCommand(TransToCommand(Head(unified_queue)))
            /\ unified_queue' = Tail(unified_queue)
            /\ UNCHANGED <<read_queue, write_buffer>>
       ELSE NoSchedule
  /\ UNCHANGED write_draining
  /\ CycleOver

ScheduleRead ==
  /\ pc = "schedule" /\ ~config.unified_queue /\ Draining = 0
  /\ IF read_queue # <<>> /\ WillAcceptCommand(AddrOf(Head(read_queue))[1])
       THEN /\ AddCommand(TransToCommand(Head(read_queue)))
            /\ read_queue' = Tail(read_queue)
            /\ UNCHANGED <<unified_queue, write_buffer>>
       ELSE NoSchedule
  /\ UNCHANGED write_draining
  /\ CycleOver

\* Mutant: a write need not wait for the reads of its address.
ReadFirst_Never(t) == FALSE

\* "Enforce R->W dependency"
ReadFirst(t) == WithAddr(pending_rd, AddrOf(t)) # {}

ScheduleWrite ==
  /\ pc = "schedule" /\ Draining > 0
  /\ LET t == Head(write_buffer)
     IN  IF ~WillAcceptCommand(AddrOf(t)[1])
           THEN write_draining' = Draining /\ NoSchedule
         ELSE IF ReadFirst(t) THEN write_draining' = 0 /\ NoSchedule
         ELSE /\ write_draining' = Draining - 1
              /\ AddCommand(TransToCommand(t))
              /\ write_buffer' = Tail(write_buffer)
              /\ UNCHANGED <<unified_queue, read_queue>>
  /\ CycleOver

ScheduleTransaction == ScheduleUnified \/ ScheduleRead \/ ScheduleWrite

ClockTick ==
  \/ ReturnDoneTrans \/ BeginCycle
  \/ FinishRefreshFirst \/ IssueFirst \/ IssueSecond
  \/ ScheduleTransaction

Next == AddTransaction \/ ClockTick

\* The main loop ticks the memory for ever; nobody has to ask it anything.
SafeSpec == Init /\ [][Next]_vars
Spec == SafeSpec /\ WF_vars(ClockTick)

-----------------------------------------------------------------------------
(* Properties.                                                             *)

Waiting == unified_queue \o read_queue \o write_buffer
TransFor(a, w) ==
  {i \in DOMAIN Waiting : AddrOf(Waiting[i]) = a /\ is_write(Waiting[i]) = w}
CommandsFor(a, w) ==
  UNION {{<<i, k>> : k \in {j \in DOMAIN queues[i] :
            queues[i][j].addr = a /\ IsWrite(queues[i][j].type) = w}} :
         i \in DOMAIN queues}

\* An address with reads to be done has one read on its way through the
\* queues, one with a write that waits one write, and no other has any: else
\* IssueCommand ends the program (controller.cc:242,256), or a transaction is
\* never answered.  Two commands a cycle are where it could go wrong: the
\* second is erased from its queue before it is known whether it is issued.
QueuesAgree ==
  \A t \in Trans :
    LET pending == WithAddr(IF is_write(t) THEN pending_wr ELSE pending_rd, AddrOf(t))
    IN  Cardinality(TransFor(AddrOf(t), is_write(t)))
          + Cardinality(CommandsFor(AddrOf(t), is_write(t)))
        = IF pending = {} THEN 0 ELSE 1

\* Reads and writes of one address reach the banks in the order they came
\* (controller.cc:178,211, command_queue.cc:218): none is issued with an
\* earlier one of the other kind pending.
SameAddressInOrder ==
  [][LET pending == pending_rd \cup pending_wr
     IN  \A t \in pending \ (pending_rd' \cup pending_wr') :
           \A u \in WithAddr(pending, AddrOf(t)) :
             is_write(u) # is_write(t) => u > t]_vars

\* What the coordinator relies on: each transaction that was accepted comes
\* back once (memory_system's callbacks find their event by address alone, so
\* that a second answer would be taken for another event's).
AnsweredOnce ==
  \A t \in 1..added :
    LET left == {i \in DOMAIN return_queue : return_queue[i].trans = t}
    IN  /\ t \in pending_rd \cup done => left = {}
        /\ t \notin pending_rd \cup done => Cardinality(left) = 1
        /\ t \notin pending_rd \cap done

\* No transaction is lost between queues, or answered twice.
TransactionsAccounted == QueuesAgree /\ AnsweredOnce

\* FinishRefresh closes the banks of the first refresh that waits, one by one
\* over many cycles; b is one of them, closed already or not.
Awaited(b) == ref_q_indices # {} /\ b \in BanksOf(Head(refresh_q))

\* No read or write, of any queue, opens a row of a bank from the cycle in
\* which its refresh is taken in hand ("skip the command queues that are
\* involved", command_queue.cc:39) until that is over ("tRFC is defined as ref
\* to act", timing.cc:56; for ranks only): a queue let in between would have
\* the refresh start again, or be lost in it.
RefreshUndisturbed ==
  /\ []RanksUndisturbed
  /\ [][\A b \in Banks : Awaited(b) /\ ~IsRowOpen(b) => ~IsRowOpen(b)']_vars

\* No write is for the address of an earlier read.
ConflictFree ==
  \A r, w \in Trans : r < w /\ ~is_write(r) /\ is_write(w) => AddrOf(r) # AddrOf(w)

\* Every transaction that was accepted comes back, refreshes and row conflicts
\* notwithstanding, when the queue is unified or no write waits for a read.
Served ==
  \A t \in 1..MaxTrans :
    (t <= added /\ (config.unified_queue \/ ConflictFree)) ~> t \in done

\* The same of every stream: the front end is to be told "that the request is
\* finished" (dramsim3/README.md:113), of a write, too, that had to wait for a
\* read ("Enforce R->W dependency", controller.cc:210).  The code does not keep
\* it: the buffer of writes is drained (controller.cc:201) again and again, its
\* first write waits for the read, and the read for the end of the draining.
AllServed == \A t \in 1..MaxTrans : t <= added ~> t \in done
=============================================================================
