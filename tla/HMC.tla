--------------------------------- MODULE HMC ---------------------------------
(***************************************************************************)
(* The hybrid memory cube (hmc.cc): requests come in by several links and  *)
(* go through a crossbar to the quads, from there to the DRAM controllers  *)
(* of the quad's vaults; answers take the way back.  A call of ClockTick:  *)
(*   [DrainResponses ->] DRAMClockTick [-> DrainRequests]                  *)
(*     -> (DrainResponses -> DrainRequests) until logic catches up         *)
(* where each of the two ends with the turns of the crossbar's ports.      *)
(* A transaction is its place in the stream of those that are added; a     *)
(* response is named by the request it was made for.  A vault is a         *)
(* controller as MemoryContract describes it: it may take a request or not *)
(* and confirms in any order.  Times are kept as what is left of them.     *)
(***************************************************************************)
EXTENDS Integers, SequencesExt, FiniteSetsExt

CONSTANTS
  Streams,               \* sequences of [addr, is_write], in the order added
  GetChannel(_),         \* the vault of an address
  num_links, xbar_queue_depth, block_size,
  ps_per_logic, ps_per_dram,
  MaxAge                 \* ages beyond it are not told apart

ASSUME HMCAssumption ==
  /\ \A s \in Streams :
       /\ s \in Seq([addr : Nat, is_write : BOOLEAN])
       /\ \A k \in 1..Len(s) : GetChannel(s[k].addr) \in Nat
  /\ num_links \in Nat \ {0} /\ xbar_queue_depth \in Nat \ {0}
  /\ block_size \in {0, 32, 64, 128, 256}
  /\ ps_per_dram \in Nat /\ ps_per_logic \in 1..ps_per_dram
  /\ MaxAge \in Nat /\ MaxAge >= num_links /\ MaxAge >= 4

Links == 0..(num_links - 1)
Quads == 0..3

VARIABLES
  stream, added,         \* what the CPU adds, and how much of it was added
  pc,                    \* where ClockTick is
  ahead,                 \* logic_ps_ - dram_ps_
  age_queue,             \* the ports whose turn is still to come
  logic_clk_,            \* modulo the numbers of links and quads
  next_link_,
  resp_lookup_table_,    \* responses that wait for the DRAM, as inserted
  link,                  \* the link a response leaves by
  link_req_queues_, link_age_counter_, quad_req_queues_, quad_busy_,
  quad_resp_queues_, quad_age_counter_, link_resp_queues_, link_busy_,
  in_vault,              \* requests that are with a controller
  answered               \* responses handed to the CPU

reqVars == <<link_req_queues_, link_age_counter_, quad_req_queues_, quad_busy_>>
respVars == <<quad_resp_queues_, quad_age_counter_, link_resp_queues_, link_busy_>>
clockVars == <<pc, ahead, age_queue, logic_clk_>>
addVars == <<added, next_link_, link>>
vars == <<stream, addVars, clockVars, reqVars, respVars, resp_lookup_table_,
          in_vault, answered>>

Trans == 1..Len(stream)
Quad(t) == GetChannel(stream[t].addr) % 4

\* A packet with data has a flit for the header and one for each 16 bytes;
\* requests and responses of no bytes have none.
DataFlits == IF block_size = 0 THEN 0 ELSE block_size \div 16 + 1
PlainFlits == IF block_size = 0 THEN 0 ELSE 1
ReqFlits(t) == IF stream[t].is_write THEN DataFlits ELSE PlainFlits
RespFlits(t) == IF stream[t].is_write THEN PlainFlits ELSE DataFlits

\* A packet in the queue behind the crossbar, and what is left to exit_time.
Packet(t, n) == [trans |-> t, left |-> n]
CanLeave(queue) == queue # <<>> /\ Head(queue).left = 0

Init ==
  /\ stream \in Streams
  /\ added = 0 /\ next_link_ = 0 /\ link = [t \in Trans |-> 0]
  /\ pc = "add" /\ ahead = 0 /\ logic_clk_ = 0 /\ age_queue = <<>>
  /\ resp_lookup_table_ = <<>>
  /\ link_req_queues_ = [l \in Links |-> <<>>]
  /\ link_resp_queues_ = [l \in Links |-> <<>>]
  /\ link_age_counter_ = [l \in Links |-> 0] /\ link_busy_ = [l \in Links |-> 0]
  /\ quad_req_queues_ = [q \in Quads |-> <<>>]
  /\ quad_resp_queues_ = [q \in Quads |-> <<>>]
  /\ quad_age_counter_ = [q \in Quads |-> 0] /\ quad_busy_ = [q \in Quads |-> 0]
  /\ in_vault = {} /\ answered = {}

-----------------------------------------------------------------------------
(* Adding a transaction, between two ticks.                                *)

\* The links with room, by the order in which InsertHMCReq tries the links.
LinkFrom(i) == (next_link_ + i) % num_links
WithRoom == {i \in Links : Len(link_req_queues_[LinkFrom(i)]) < xbar_queue_depth}
WillAcceptTransaction == WithRoom # {}

\* Mutant: the age of the link is not set, so that it is not drained.
InsertReqToLink_NoAge(t, l) ==
  /\ link_req_queues_' = [link_req_queues_ EXCEPT ![l] = Append(@, t)]
  /\ link' = [link EXCEPT ![t] = l]
  /\ resp_lookup_table_' = Append(resp_lookup_table_, t)
  /\ UNCHANGED link_age_counter_

InsertReqToLink(t, l) ==
  /\ link_req_queues_' = [link_req_queues_ EXCEPT ![l] = Append(@, t)]
  /\ link' = [link EXCEPT ![t] = l]
  /\ resp_lookup_table_' = Append(resp_lookup_table_, t)
  /\ link_age_counter_' = [link_age_counter_ EXCEPT ![l] = 1]

AddTransaction ==
  /\ pc = "add" /\ added < Len(stream) /\ WillAcceptTransaction
  /\ added' = added + 1
  /\ InsertReqToLink(added + 1, LinkFrom(Min(WithRoom)))
  /\ next_link_' = (LinkFrom(Min(WithRoom)) + 1) % num_links
  /\ UNCHANGED <<stream, clockVars, quad_req_queues_, quad_busy_, respVars,
                 in_vault, answered>>

-----------------------------------------------------------------------------
(* The crossbar, in one direction or the other: packets go from the queues *)
(* before it to those behind it, which are busy for a while after each.    *)
(* The ages of the queues before it decide the order.                      *)

\* A port with an age is put before the first one that its age exceeds: the
\* code compares the age with the number of that port, not with its age.
InsertByAge(age, order, p) ==
  LET less == {k \in DOMAIN order : age[p] > order[k]}
  IN  IF age[p] = 0 THEN order
      ELSE IF less = {} THEN Append(order, p) ELSE InsertAt(order, Min(less), p)

\* The n ports in turn, from another one in every cycle.
BuildAgeQueue(age, n) ==
  LET order[i \in 0..n] ==
        IF i = 0 THEN <<>>
        ELSE InsertByAge(age, order[i - 1], (i - 1 + logic_clk_) % n)
  IN  order[n]

\* Two flits leave the crossbar in a cycle.
DrainXbar(busy) == [d \in DOMAIN busy |-> IF busy[d] > 0 THEN busy[d] - 2 ELSE busy[d]]

\* Mutant: the queue behind the crossbar is taken to have no end.
HasRoom_BusyOnly(queues, busy, d) == busy[d] <= 0

HasRoom(queues, busy, d) == Len(queues[d]) < xbar_queue_depth /\ busy[d] <= 0

\* Mutant: a port keeps its age when its last packet has gone.
AgeAfter_Kept(rest) == 1

\* The age of a port after a packet of it went through, before the rest.
AgeAfter(rest) == IF rest = <<>> THEN 0 ELSE 1

Older(age) == Min({age + 1, MaxAge})

-----------------------------------------------------------------------------
\* The loop of ClockTick goes on while logic is behind the DRAM's next cycle.
Loop(a) ==
  IF a < ps_per_dram THEN pc' = "responses" /\ ahead' = a
                     ELSE pc' = "add" /\ ahead' = a - ps_per_dram

\* If the clocks are together, responses are drained before the DRAM's cycle.
StartTick ==
  /\ pc = "add"
  /\ pc' = IF ahead = 0 THEN "responses" ELSE "dram"
  /\ UNCHANGED <<stream, addVars, ahead, age_queue, logic_clk_, reqVars, respVars,
                 resp_lookup_table_, in_vault, answered>>

\* Answers leave for the CPU, one by each link; then the crossbar begins.
DrainResponses ==
  LET leaving == {l \in Links : CanLeave(link_resp_queues_[l])}
  IN  /\ pc = "responses"
      /\ answered' = answered \cup {Head(link_resp_queues_[l]).trans : l \in leaving}
      /\ link_resp_queues_' = [l \in Links |-> IF l \in leaving
                                 THEN Tail(link_resp_queues_[l])
                                 ELSE link_resp_queues_[l]]
      /\ link_busy_' = DrainXbar(link_busy_)
      /\ age_queue' = BuildAgeQueue(quad_age_counter_, 4)
      /\ pc' = "quads to links"
      /\ UNCHANGED <<stream, addVars, ahead, logic_clk_, reqVars, quad_resp_queues_,
                     quad_age_counter_, resp_lookup_table_, in_vault>>

\* The turn of a quad: its first response goes through, or it grows older.
QuadToLink ==
  /\ pc = "quads to links" /\ age_queue # <<>>
  /\ \E q \in {Head(age_queue)} : \E t \in {Head(quad_resp_queues_[q])} :
       IF HasRoom(link_resp_queues_, link_busy_, link[t])
         THEN /\ quad_resp_queues_' = [quad_resp_queues_ EXCEPT ![q] = Tail(@)]
              /\ quad_age_counter_' =
                   [quad_age_counter_ EXCEPT ![q] = AgeAfter(Tail(quad_resp_queues_[q]))]
              /\ link_resp_queues_' = [link_resp_queues_ EXCEPT
                   ![link[t]] = Append(@, Packet(t, RespFlits(t)))]
              /\ link_busy_' = [link_busy_ EXCEPT ![link[t]] = RespFlits(t)]
         ELSE /\ quad_age_counter_' = [quad_age_counter_ EXCEPT ![q] = Older(@)]
              /\ UNCHANGED <<quad_resp_queues_, link_resp_queues_, link_busy_>>
  /\ age_queue' = Tail(age_queue)
  /\ UNCHANGED <<stream, addVars, pc, ahead, logic_clk_, reqVars, resp_lookup_table_,
                 in_vault, answered>>

\* In the call before the DRAM's cycle the clocks are still together.
ResponsesDrained ==
  /\ pc = "quads to links" /\ age_queue = <<>>
  /\ pc' = IF ahead = 0 THEN "dram" ELSE "requests"
  /\ UNCHANGED <<stream, addVars, ahead, age_queue, logic_clk_, reqVars, respVars,
                 resp_lookup_table_, in_vault, answered>>

\* Mutant: the response stays in the table.
VaultCallback_KeepEntry(t) ==
  LET k == SelectInSeq(resp_lookup_table_, LAMBDA r : stream[r].addr = stream[t].addr)
      r == resp_lookup_table_[k]
  IN  /\ UNCHANGED resp_lookup_table_
      /\ quad_resp_queues_' = [quad_resp_queues_ EXCEPT ![Quad(r)] = Append(@, r)]
      /\ quad_age_counter_' = [quad_age_counter_ EXCEPT ![Quad(r)] = 1]

\* multimap::find gives the first response of the address.
VaultCallback(t) ==
  LET k == SelectInSeq(resp_lookup_table_, LAMBDA r : stream[r].addr = stream[t].addr)
      r == resp_lookup_table_[k]
  IN  /\ resp_lookup_table_' = RemoveAt(resp_lookup_table_, k)
      /\ quad_resp_queues_' = [quad_resp_queues_ EXCEPT ![Quad(r)] = Append(@, r)]
      /\ quad_age_counter_' = [quad_age_counter_ EXCEPT ![Quad(r)] = 1]

\* One turn of the loop that asks the controllers what they have done.
ReturnDoneTrans(t) ==
  /\ pc = "dram" /\ t \in in_vault
  /\ in_vault' = in_vault \ {t}
  /\ VaultCallback(t)
  /\ UNCHANGED <<stream, addVars, clockVars, reqVars, link_resp_queues_, link_busy_,
                 answered>>

DRAMClockTick ==
  /\ pc = "dram"
  /\ IF ahead = 0 THEN pc' = "requests" /\ UNCHANGED ahead ELSE Loop(ahead)
  /\ UNCHANGED <<stream, addVars, age_queue, logic_clk_, reqVars, respVars,
                 resp_lookup_table_, in_vault, answered>>

\* The quads whose first request may go to its vault, if that takes it.
Ready == {q \in Quads : CanLeave(quad_req_queues_[q])
                        /\ Len(quad_resp_queues_[q]) < xbar_queue_depth}

\* The vaults take the first requests of the quads taken; then the crossbar.
DrainRequests(taken) ==
  /\ pc = "requests"
  /\ in_vault' = in_vault \cup {Head(quad_req_queues_[q]).trans : q \in taken}
  /\ quad_req_queues_' = [q \in Quads |-> IF q \in taken
                            THEN Tail(quad_req_queues_[q]) ELSE quad_req_queues_[q]]
  /\ quad_busy_' = DrainXbar(quad_busy_)
  /\ age_queue' = BuildAgeQueue(link_age_counter_, num_links)
  /\ pc' = "links to quads"
  /\ UNCHANGED <<stream, addVars, ahead, logic_clk_, link_req_queues_,
                 link_age_counter_, respVars, resp_lookup_table_, answered>>

\* The turn of a link: its first request goes through, or it grows older.
LinkToQuad ==
  /\ pc = "links to quads" /\ age_queue # <<>>
  /\ \E l \in {Head(age_queue)} : \E t \in {Head(link_req_queues_[l])} :
       IF HasRoom(quad_req_queues_, quad_busy_, Quad(t))
         THEN /\ link_req_queues_' = [link_req_queues_ EXCEPT ![l] = Tail(@)]
              /\ link_age_counter_' =
                   [link_age_counter_ EXCEPT ![l] = AgeAfter(Tail(link_req_queues_[l]))]
              /\ quad_req_queues_' = [quad_req_queues_ EXCEPT
                   ![Quad(t)] = Append(@, Packet(t, ReqFlits(t)))]
              /\ quad_busy_' = [quad_busy_ EXCEPT ![Quad(t)] = ReqFlits(t)]
         ELSE /\ link_age_counter_' = [link_age_counter_ EXCEPT ![l] = Older(@)]
              /\ UNCHANGED <<link_req_queues_, quad_req_queues_, quad_busy_>>
  /\ age_queue' = Tail(age_queue)
  /\ UNCHANGED <<stream, addVars, pc, ahead, logic_clk_, respVars,
                 resp_lookup_table_, in_vault, answered>>

\* A logic cycle later, every packet is nearer to its exit_time.
Nearer(queues) ==
  [k \in DOMAIN queues |->
     [j \in DOMAIN queues[k] |-> [queues[k][j] EXCEPT !.left = Max({0, @ - 1})]]]

RequestsDrained ==
  /\ pc = "links to quads" /\ age_queue = <<>>
  /\ quad_req_queues_' = Nearer(quad_req_queues_)
  /\ link_resp_queues_' = Nearer(link_resp_queues_)
  /\ logic_clk_' = (logic_clk_ + 1) % (4 * num_links)
  /\ Loop(ahead + ps_per_logic)
  /\ UNCHANGED <<stream, addVars, age_queue, link_req_queues_, link_age_counter_,
                 quad_busy_, quad_resp_queues_, quad_age_counter_, link_busy_,
                 resp_lookup_table_, in_vault, answered>>

ClockTick ==
  \/ StartTick \/ DrainResponses \/ QuadToLink \/ ResponsesDrained
  \/ DRAMClockTick
  \/ (\E taken \in SUBSET Ready : DrainRequests(taken))
  \/ LinkToQuad \/ RequestsDrained

Next == AddTransaction \/ (\E t \in Trans : ReturnDoneTrans(t)) \/ ClockTick

SafeSpec == Init /\ [][Next]_vars

\* The main loop ticks for ever; a vault that is asked again and again takes
\* the request sometime, and confirms it sometime.  The CPU need not add.
Fairness ==
  /\ WF_vars(ClockTick)
  /\ \A q \in UNION {{GetChannel(s[k].addr) % 4 : k \in DOMAIN s} : s \in Streams} :
       SF_vars(\E taken \in SUBSET Ready : q \in taken /\ DrainRequests(taken))
  /\ \A t \in 1..Max({Len(s) : s \in Streams}) :
       SF_vars(t \in Trans /\ ReturnDoneTrans(t))

Spec == SafeSpec /\ Fairness

-----------------------------------------------------------------------------
Waiting(queues, t) == \E k \in DOMAIN queues : \E j \in DOMAIN queues[k] : queues[k][j] = t
Leaving(queues, t) ==
  \E k \in DOMAIN queues : \E j \in DOMAIN queues[k] : queues[k][j].trans = t

TypeOK ==
  /\ added \in 0..Len(stream) /\ next_link_ \in Links
  /\ ahead \in 0..(2 * ps_per_dram) /\ (pc = "add" => ahead < ps_per_logic)
  /\ \A l \in Links : Len(link_req_queues_[l]) <= xbar_queue_depth
                      /\ Len(link_resp_queues_[l]) <= xbar_queue_depth
  /\ \A q \in Quads : Len(quad_req_queues_[q]) <= xbar_queue_depth
  /\ \A p \in Links : link_age_counter_[p] \in 0..MaxAge /\ link_busy_[p] >= -1
  /\ \A q \in Quads : quad_age_counter_[q] \in 0..MaxAge /\ quad_busy_[q] >= -1

\* A port has an age exactly while packets wait there.  DrainRequests and
\* DrainResponses read the first packet of every port that has one, and an
\* empty vector has none (hmc.cc:472, 522).
AgeMeansWaiting ==
  /\ \A l \in Links : link_age_counter_[l] > 0 <=> link_req_queues_[l] # <<>>
  /\ \A q \in Quads : quad_age_counter_[q] > 0 <=> quad_resp_queues_[q] # <<>>

\* Queues keep to their depth, and are read where there is something to read.
PortsSound == TypeOK /\ AgeMeansWaiting

\* Every response is in one place.  Those of an address that are not released
\* are as many as its requests that are not confirmed: VaultCallback, which
\* does not look, finds one.
Accounting ==
  /\ \A t \in 1..added :
       Cardinality({p \in {"table", "quad", "link", "cpu"} :
         CASE p = "table" -> Contains(resp_lookup_table_, t)
           [] p = "quad" -> Waiting(quad_resp_queues_, t)
           [] p = "link" -> Leaving(link_resp_queues_, t)
           [] p = "cpu" -> t \in answered}) = 1
  /\ \A a \in {stream[t].addr : t \in Trans} :
       LET of_a == {t \in 1..added : stream[t].addr = a}
       IN  Cardinality({t \in of_a : Contains(resp_lookup_table_, t)}) =
           Cardinality({t \in of_a : \/ t \in in_vault
                                     \/ Waiting(link_req_queues_, t)
                                     \/ Leaving(quad_req_queues_, t)})

\* Every transaction that was added is answered.
AllAnswered == \A t \in 1..Max({Len(s) : s \in Streams}) :
                 t <= added ~> t \in answered

\* "The oldest age link/quad should be processed first" (hmc.cc:591): the turns
\* of the links come in the order of their ages.  BuildAgeQueue does not see to
\* it: see InsertByAge.
OldestFirst ==
  pc = "links to quads" =>
    \A j, k \in DOMAIN age_queue :
      j < k => link_age_counter_[age_queue[j]] >= link_age_counter_[age_queue[k]]

\* "All data from dram received, put packet in xbar" (hmc.cc:629): a response
\* goes to the crossbar when its request has been carried out.  With two
\* transactions of one address the code does not keep it: see VaultCallback.
AnswerReceived ==
  \A t \in Trans :
    Waiting(quad_resp_queues_, t) =>
      ~(t \in in_vault \/ Waiting(link_req_queues_, t) \/ Leaving(quad_req_queues_, t))
=============================================================================
