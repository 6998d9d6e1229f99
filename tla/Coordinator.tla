----------------------------- MODULE Coordinator -----------------------------
(***************************************************************************)
(* The coordinator (hardware/coordinator.cpp) and the way back of what it  *)
(* sends out (hygcn.h, hygcn.cpp).  The engines hand it events.  An event  *)
(* is cut into transactions of one block each, which go to the DRAM or to  *)
(* the eDRAM of the aggregation buffer; the memories call back with the    *)
(* address of a transaction they have served, and when all transactions of *)
(* an event have been confirmed, the event goes back to its engine.        *)
(*                                                                         *)
(* One clock tick of HyGCN is a chain of steps that pc walks through:      *)
(*                                                                         *)
(*   return -> issue -> edram -> engines -> dram -> ring                   *)
(*                                                                         *)
(* The engines are an environment that may hand over any event not handed  *)
(* over before.  The DRAM takes as many transactions as it likes, and      *)
(* answers any that it holds.  Addresses are counted in blocks.            *)
(***************************************************************************)
EXTENDS Integers, Sequences, FiniteSets

CONSTANTS
  Event,          \* the events of a run
  QueueOf,        \* QueueOf[e]: the queue AddEvent puts e in
  Address,        \* Address[e]: its first block
  NumTrans,       \* NumTrans[e]: its blocks, ceil(bytes / sz_block)
  cap_edram,      \* blocks of the aggregation buffer
  trans_per_clock \* transactions it takes in a tick

DramQueue == {"edges", "inputs", "weights", "outputs"}
Queue == DramQueue \cup {"tmps"}

\* No engine makes an event of no bytes, or reads more of the ring than there
\* is.  The eDRAM takes two transactions a tick.
ASSUME CoordinatorAssumption ==
  /\ IsFiniteSet(Event)
  /\ QueueOf \in [Event -> Queue]
  /\ Address \in [Event -> Nat]
  /\ NumTrans \in [Event -> Nat \ {0}]
  /\ cap_edram \in Nat \ {0}
  /\ trans_per_clock \in Nat \ {0}
  /\ \A e \in Event : QueueOf[e] = "tmps" => NumTrans[e] <= cap_edram

InRing(e) == QueueOf[e] = "tmps"

PC == {"return", "issue", "edram", "engines", "dram", "ring"}

VARIABLES
  pc,
  queue,                  \* queue[q]: the deque of that name
  trans_cnt, confirm_cnt, \* an event's transactions issued, and confirmed
  events, edram_events,   \* the two multimaps, sets of <<address, event>>
  dram,                   \* dram[a]: transactions to address a the DRAM holds
  trans,                  \* the eDRAM's queue of addresses
  return_queue,           \* events confirmed and not yet handed back
  asked,                  \* the events handed over so far, in that order
  back                    \* those that their engine has been given back

vars == <<pc, queue, trans_cnt, confirm_cnt, events, edram_events, dram, trans,
          return_queue, asked, back>>

\* The address of transaction k of an event; in the ring it wraps.
Addr(e, k) ==
  IF InRing(e) THEN (Address[e] + k) % cap_edram ELSE Address[e] + k

DramAddr ==
  UNION {{Addr(e, k) : k \in 0..(NumTrans[e] - 1)} : e \in {f \in Event : ~InRing(f)}}

Init ==
  /\ pc = "return"
  /\ queue = [q \in Queue |-> <<>>]
  /\ trans_cnt = [e \in Event |-> 0]
  /\ confirm_cnt = [e \in Event |-> 0]
  /\ events = {} /\ edram_events = {}
  /\ dram = [a \in DramAddr |-> 0]
  /\ trans = <<>>
  /\ return_queue = <<>>
  /\ asked = <<>> /\ back = {}

Handed == {asked[i] : i \in 1..Len(asked)}

-----------------------------------------------------------------------------
\* HandleReturnEvent: the event at the head goes back to its engine.
HandleReturnEvent ==
  /\ pc = "return" /\ return_queue # <<>>
  /\ return_queue' = Tail(return_queue)
  /\ back' = back \cup {Head(return_queue)}
  /\ UNCHANGED <<pc, queue, trans_cnt, confirm_cnt, events, edram_events, dram,
                 trans, asked>>

AllHandled ==
  /\ pc = "return" /\ return_queue = <<>>
  /\ pc' = "issue"
  /\ UNCHANGED <<queue, trans_cnt, confirm_cnt, events, edram_events, dram,
                 trans, return_queue, asked, back>>

-----------------------------------------------------------------------------
(* IssueEvent, first the DRAM's half.                                      *)

\* Edges come before inputs, inputs before weights, weights before outputs.
Priority == <<"edges", "inputs", "weights", "outputs">>

Waiting == {q \in DramQueue : queue[q] # <<>>}

\* The queue served in this tick.
Served ==
  Priority[CHOOSE i \in 1..4 :
    /\ Priority[i] \in Waiting
    /\ \A j \in 1..(i - 1) : Priority[j] \notin Waiting]

\* The entries of n more transactions of e in its multimap.
Entries(e, n) ==
  {<<Addr(e, k), e>> : k \in trans_cnt[e]..(trans_cnt[e] + n - 1)}

\* Mutant: the event leaves the queue as soon as it has been begun.
Issued_Begun(e, n) ==
  /\ trans_cnt' = [trans_cnt EXCEPT ![e] = @ + n]
  /\ queue' = [queue EXCEPT ![QueueOf[e]] = IF n > 0 THEN Tail(@) ELSE @]

\* n more transactions of e, the head of its queue, have been issued; when
\* that is all of them it leaves the queue.
Issued(e, n) ==
  /\ trans_cnt' = [trans_cnt EXCEPT ![e] = @ + n]
  /\ queue' = [queue EXCEPT ![QueueOf[e]] =
                 IF trans_cnt[e] + n = NumTrans[e] THEN Tail(@) ELSE @]

\* The DRAM takes the next n transactions of the head and refuses one more.
IssueDram(n) ==
  LET e == Head(queue[Served])
  IN  /\ pc = "issue" /\ Waiting # {}
      /\ trans_cnt[e] + n <= NumTrans[e]
      /\ Issued(e, n)
      /\ events' = events \cup Entries(e, n)
      /\ dram' = [a \in DramAddr |->
                    dram[a] + Cardinality({p \in Entries(e, n) : p[1] = a})]
      /\ pc' = "edram"
      /\ UNCHANGED <<confirm_cnt, edram_events, trans, return_queue, asked,
                     back>>

NothingForDram ==
  /\ pc = "issue" /\ Waiting = {}
  /\ pc' = "edram"
  /\ UNCHANGED <<queue, trans_cnt, confirm_cnt, events, edram_events, dram,
                 trans, return_queue, asked, back>>

(* Then the eDRAM's: transaction by transaction while it takes them.       *)

WillAcceptTransaction == Len(trans) < trans_per_clock

IssueEdram ==
  LET e == Head(queue["tmps"])
  IN  /\ pc = "edram" /\ queue["tmps"] # <<>> /\ WillAcceptTransaction
      /\ Issued(e, 1)
      /\ edram_events' = edram_events \cup Entries(e, 1)
      /\ trans' = Append(trans, Addr(e, trans_cnt[e]))
      /\ UNCHANGED <<pc, confirm_cnt, events, dram, return_queue, asked, back>>

EdramFull ==
  /\ pc = "edram" /\ (queue["tmps"] = <<>> \/ ~WillAcceptTransaction)
  /\ pc' = "engines"
  /\ UNCHANGED <<queue, trans_cnt, confirm_cnt, events, edram_events, dram,
                 trans, return_queue, asked, back>>

-----------------------------------------------------------------------------
\* Mutant: a new event is put at the head of its queue.
AddEvent_Front(e) ==
  /\ pc = "engines" /\ e \notin Handed
  /\ queue' = [queue EXCEPT ![QueueOf[e]] = <<e>> \o @]
  /\ asked' = Append(asked, e)
  /\ UNCHANGED <<pc, trans_cnt, confirm_cnt, events, edram_events, dram, trans,
                 return_queue, back>>

\* An engine hands over a new event.
AddEvent(e) ==
  /\ pc = "engines" /\ e \notin Handed
  /\ queue' = [queue EXCEPT ![QueueOf[e]] = Append(@, e)]
  /\ asked' = Append(asked, e)
  /\ UNCHANGED <<pc, trans_cnt, confirm_cnt, events, edram_events, dram, trans,
                 return_queue, back>>

EnginesDone ==
  /\ pc = "engines"
  /\ pc' = "dram"
  /\ UNCHANGED <<queue, trans_cnt, confirm_cnt, events, edram_events, dram,
                 trans, return_queue, asked, back>>

-----------------------------------------------------------------------------
\* Mutant: an event goes back with every one of its confirmations.
Confirm_Each(e) ==
  /\ confirm_cnt' = [confirm_cnt EXCEPT ![e] = @ + 1]
  /\ return_queue' = Append(return_queue, e)

\* One more transaction of e is confirmed; with the last one e goes back.
Confirm(e) ==
  /\ confirm_cnt' = [confirm_cnt EXCEPT ![e] = @ + 1]
  /\ return_queue' = IF confirm_cnt'[e] = NumTrans[e]
                       THEN Append(return_queue, e) ELSE return_queue

\* Mutant: all entries of the address are erased.
MemCallback_EraseAll(a) ==
  /\ pc = "dram" /\ dram[a] > 0
  /\ dram' = [dram EXCEPT ![a] = @ - 1]
  /\ \E p \in events :
       /\ p[1] = a
       /\ Confirm(p[2])
       /\ events' = {q \in events : q[1] # a}
  /\ UNCHANGED <<pc, queue, trans_cnt, edram_events, trans, asked, back>>

\* The DRAM has served a transaction to address a.  MemCallback finds an
\* entry of that address, any one if there are several.
MemCallback(a) ==
  /\ pc = "dram" /\ dram[a] > 0
  /\ dram' = [dram EXCEPT ![a] = @ - 1]
  /\ \E p \in events :
       /\ p[1] = a
       /\ Confirm(p[2])
       /\ events' = events \ {p}
  /\ UNCHANGED <<pc, queue, trans_cnt, edram_events, trans, asked, back>>

DramDone ==
  /\ pc = "dram"
  /\ pc' = "ring"
  /\ UNCHANGED <<queue, trans_cnt, confirm_cnt, events, edram_events, dram,
                 trans, return_queue, asked, back>>

\* AggrBuf::ClockTick serves everything the eDRAM has taken in this tick.
BufCallback ==
  /\ pc = "ring" /\ trans # <<>>
  /\ trans' = Tail(trans)
  /\ \E p \in edram_events :
       /\ p[1] = Head(trans)
       /\ Confirm(p[2])
       /\ edram_events' = edram_events \ {p}
  /\ UNCHANGED <<pc, queue, trans_cnt, events, dram, asked, back>>

RingDone ==
  /\ pc = "ring" /\ trans = <<>>
  /\ pc' = "return"
  /\ UNCHANGED <<queue, trans_cnt, confirm_cnt, events, edram_events, dram,
                 trans, return_queue, asked, back>>

-----------------------------------------------------------------------------
Counts == UNION {0..NumTrans[e] : e \in Event}

ClockTick ==
  \/ HandleReturnEvent \/ AllHandled
  \/ (\E n \in Counts : IssueDram(n)) \/ NothingForDram
  \/ IssueEdram \/ EdramFull
  \/ EnginesDone \/ DramDone
  \/ BufCallback \/ RingDone

Next ==
  \/ ClockTick
  \/ \E e \in Event : AddEvent(e)
  \/ \E a \in DramAddr : MemCallback(a)

\* The main loop ticks for ever; the DRAM has room again and again, and
\* while it holds anything it answers something, in an order of its own.  The
\* last two happen at one point of the tick only.
Fairness ==
  /\ WF_vars(ClockTick)
  /\ SF_vars(\E n \in Counts \ {0} : IssueDram(n))
  /\ SF_vars(\E a \in DramAddr : MemCallback(a))

SafeSpec == Init /\ [][Next]_vars
Spec == SafeSpec /\ Fairness

-----------------------------------------------------------------------------
(* Properties.                                                             *)

InQueue(e) == \E i \in 1..Len(queue[QueueOf[e]]) : queue[QueueOf[e]][i] = e
InReturn == {return_queue[i] : i \in 1..Len(return_queue)}
Confirmed == {e \in Event : confirm_cnt[e] = NumTrans[e]}

\* The assertions of the callbacks (hygcn.h:33, 49): a transaction that a
\* memory answers is in the multimap.  It is because for every address there
\* are as many entries as transactions under way, whoever they belong to.
CallbackFinds ==
  /\ \A a \in DramAddr : dram[a] = Cardinality({p \in events : p[1] = a})
  /\ \A a \in 0..(cap_edram - 1) :
       Cardinality({i \in 1..Len(trans) : trans[i] = a})
         = Cardinality({p \in edram_events : p[1] = a})

\* An event's transactions are confirmed, under way or still to be issued;
\* none is counted twice, although find returns an entry of any event that
\* shares the address.
TransAccounting ==
  \A e \in Event :
    /\ confirm_cnt[e] + Cardinality({p \in events \cup edram_events : p[2] = e})
         = trans_cnt[e]
    /\ trans_cnt[e] < NumTrans[e] /\ e \in Handed <=> InQueue(e)

\* An engine is given an event back once, when the last of its transactions
\* has been confirmed: what the counters of its buffers rest on.
ReturnedOnce ==
  /\ \A i, j \in 1..Len(return_queue) :
       i # j => return_queue[i] # return_queue[j]
  /\ InReturn \cap back = {}
  /\ InReturn \cup back = Confirmed

\* What is asked of the ring is served in the order it was asked, whatever
\* the entries the callback finds: a task that reads a partial sum, or the
\* combination engine that reads a finished vector, sees what was handed
\* over to be written before.  In one tick several may be served.
RingInOrder ==
  \A i, j \in 1..Len(asked) :
    (i < j /\ InRing(asked[i]) /\ InRing(asked[j])) =>
      /\ trans_cnt[asked[j]] > 0 => trans_cnt[asked[i]] = NumTrans[asked[i]]
      /\ pc = "return" /\ confirm_cnt[asked[j]] > 0 => asked[i] \in Confirmed

\* Every event handed over comes back, and comes back once.
Contract == INSTANCE MemoryContract WITH asked <- Handed, returned <- back
ContractSpec == Contract!Spec
=============================================================================
