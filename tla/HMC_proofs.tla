------------------------------ MODULE HMC_proofs ------------------------------
(***************************************************************************)
(* Proofs about the memory cube, for every number of links, every depth of *)
(* the queues, every size of packets, both clocks and every stream of      *)
(* transactions: a port is read only when a packet waits there, no queue   *)
(* outgrows its depth, and every transaction added leaves one response.    *)
(***************************************************************************)
EXTENDS HMC, FiniteSetTheorems, SequenceTheorems, TLAPS

-----------------------------------------------------------------------------
(* The invariant.                                                          *)

\* What the queues of Q hold, the packets of Q by their transactions, and that
\* nothing is held twice.
Members(Q) == UNION {{Q[p][j] : j \in 1..Len(Q[p])} : p \in DOMAIN Q}
Names(Q) == [p \in DOMAIN Q |-> [j \in 1..Len(Q[p]) |-> Q[p][j].trans]]
Apart(Q) ==
  \A p, r \in DOMAIN Q : \A j \in 1..Len(Q[p]), k \in 1..Len(Q[r]) :
    Q[p][j] = Q[r][k] => p = r /\ j = k

Packets == [trans : Trans, left : Nat]

TypeInv ==
  /\ stream \in Streams
  /\ added \in 0..Len(stream)
  /\ next_link_ \in Links
  /\ link \in [Trans -> Links]
  /\ pc \in {"add", "responses", "quads to links", "dram", "requests", "links to quads"}
  /\ ahead \in Nat /\ logic_clk_ \in Nat
  /\ link_req_queues_ \in [Links -> Seq(Trans)]
  /\ link_age_counter_ \in [Links -> 0..MaxAge]
  /\ quad_req_queues_ \in [Quads -> Seq(Packets)]
  /\ quad_busy_ \in [Quads -> Int]
  /\ quad_resp_queues_ \in [Quads -> Seq(Trans)]
  /\ quad_age_counter_ \in [Quads -> 0..MaxAge]
  /\ link_resp_queues_ \in [Links -> Seq(Packets)]
  /\ link_busy_ \in [Links -> Int]
  /\ resp_lookup_table_ \in Seq(Trans)
  /\ in_vault \subseteq Trans /\ answered \subseteq Trans

\* No queue outgrows its depth, and a port is busy for no less than a flit.
DepthInv ==
  /\ \A l \in Links : Len(link_req_queues_[l]) <= xbar_queue_depth
                      /\ Len(link_resp_queues_[l]) <= xbar_queue_depth
                      /\ link_busy_[l] >= -1
  /\ \A q \in Quads : Len(quad_req_queues_[q]) <= xbar_queue_depth
                      /\ quad_busy_[q] >= -1

\* Where the clocks stand: the logic is ahead of the DRAM when a tick begins
\* and ends, by less than a cycle of its own.
ClockInv ==
  /\ ahead < ps_per_dram
  /\ pc \in {"add", "dram"} => ahead < ps_per_logic

\* The ports whose turn is still to come: each once, and none without a packet.
Ordered(age, order) ==
  /\ order \in Seq(Nat)
  /\ \A k \in 1..Len(order) : order[k] \in DOMAIN age /\ age[order[k]] > 0
  /\ \A j, k \in 1..Len(order) : order[j] = order[k] => j = k

TurnsInv ==
  /\ pc = "quads to links" => Ordered(quad_age_counter_, age_queue)
  /\ pc = "links to quads" => Ordered(link_age_counter_, age_queue)

\* Where a request may be: it waits at a link or a quad, or is with a vault.
Asked == Members(link_req_queues_)
Sent == Members(Names(quad_req_queues_))
Pending == Asked \cup Sent \cup in_vault
RequestsInv ==
  /\ Apart(link_req_queues_) /\ Apart(Names(quad_req_queues_))
  /\ Asked \cap Sent = {} /\ Asked \cap in_vault = {} /\ Sent \cap in_vault = {}
  /\ Pending \subseteq 1..added

\* Where a response may be: in the table, at a quad, at a link, or with the CPU.
Once(table) == \A j, k \in 1..Len(table) : table[j] = table[k] => j = k
Entries(table) == {table[k] : k \in 1..Len(table)}
InTable == Entries(resp_lookup_table_)
AtQuad == Members(quad_resp_queues_)
AtLink == Members(Names(link_resp_queues_))
ResponsesInv ==
  /\ Once(resp_lookup_table_)
  /\ Apart(quad_resp_queues_) /\ Apart(Names(link_resp_queues_))
  /\ InTable \cap AtQuad = {} /\ InTable \cap AtLink = {} /\ InTable \cap answered = {}
  /\ AtQuad \cap AtLink = {} /\ AtQuad \cap answered = {} /\ AtLink \cap answered = {}
  /\ InTable \cup AtQuad \cup AtLink \cup answered = 1..added

\* For every address as many responses are in the table as requests are on
\* their way to it.
OfAddr(S, a) == {t \in S : stream[t].addr = a}
CountInv ==
  \A a \in Nat : Cardinality(OfAddr(InTable, a)) = Cardinality(OfAddr(Pending, a))

IInv ==
  /\ TypeInv /\ DepthInv /\ ClockInv /\ AgeMeansWaiting /\ TurnsInv
  /\ RequestsInv /\ ResponsesInv /\ CountInv

-----------------------------------------------------------------------------
(* Numbers.                                                                *)

\* A set of numbers has a smallest.
LEMMA Smallest ==
  ASSUME NEW S \in SUBSET Nat, S # {}
  PROVE  \E m \in S : \A k \in S : m <= k
<1>. DEFINE T == {0..k : k \in S}
<1>1. IsWellFoundedOn(StrictSubsetOrdering(Nat), FiniteSubsetsOf(Nat))
  BY FS_StrictSubsetOrderingWellFounded
<1>2. \A k \in S : IsFiniteSet(0..k) /\ 0..k \in SUBSET Nat
  <2>. SUFFICES ASSUME NEW k \in S PROVE IsFiniteSet(0..k) /\ 0..k \in SUBSET Nat
    OBVIOUS
  <2>1. 0 \in Int /\ k \in Int
    OBVIOUS
  <2>. QED
    BY <2>1, FS_Interval
<1>3. T \subseteq FiniteSubsetsOf(Nat) /\ T # {}
  BY <1>2 DEF FiniteSubsetsOf
<1>4. PICK x \in T : \A y \in T : ~(<<y, x>> \in StrictSubsetOrdering(Nat))
  <2>. HIDE DEF T
  <2>. QED
    BY <1>1, <1>3, WFMin
<1>5. PICK m \in S : x = 0..m
  OBVIOUS
<1>6. ASSUME NEW k \in S, k < m PROVE FALSE
  <2>1. 0..k \in T
    OBVIOUS
  <2>2. 0..k \subseteq 0..m /\ m \in 0..m /\ m \notin 0..k
    BY <1>6
  <2>3. <<0..k, 0..m>> \in StrictSubsetOrdering(Nat)
    BY <1>6, <2>2 DEF StrictSubsetOrdering
  <2>. QED
    BY <1>4, <1>5, <2>1, <2>3
<1>. QED
  BY <1>6

\* Two numbers that leave the same remainder are apart by a multiple of c.
LEMMA SameRemainder ==
  ASSUME NEW c \in Nat \ {0}, NEW a \in Nat, NEW b \in Nat, a % c = b % c,
         a <= b, b < a + c
  PROVE  a = b
<1>. DEFINE d == b \div c - a \div c
<1>1. /\ a \div c \in Int /\ b \div c \in Int
      /\ a = c * (a \div c) + (a % c) /\ b = c * (b \div c) + (b % c)
  OBVIOUS
<1>2. c * d = c * (b \div c) - c * (a \div c)
  BY <1>1
<1>3. b - a = c * d /\ d \in Int
  BY <1>1, <1>2
<1>4. CASE d >= 1
  <2>1. c * d >= c
    BY <1>3, <1>4
  <2>. QED
    BY <1>3, <2>1
<1>5. CASE d <= -1
  <2>1. c * d <= -c
    BY <1>3, <1>5
  <2>. QED
    BY <1>3, <2>1
<1>6. CASE d = 0
  BY <1>3, <1>6
<1>. QED
  BY <1>3, <1>4, <1>5, <1>6

-----------------------------------------------------------------------------
(* Queues.                                                                 *)

\* What is in a queue is a member.
LEMMA MemberIs ==
  ASSUME NEW P, NEW Q, DOMAIN Q = P
  PROVE  \A x : x \in Members(Q) <=> \E p \in P : \E j \in 1..Len(Q[p]) : Q[p][j] = x
BY DEF Members

\* A packet put behind the others of a queue; the first packets of the queues D
\* taken out.
Pushed(Q, R, p, t) == \A r \in DOMAIN Q : R[r] = IF r = p THEN Append(Q[r], t) ELSE Q[r]
Popped(Q, R, D) == \A p \in DOMAIN Q : R[p] = IF p \in D THEN Tail(Q[p]) ELSE Q[p]

\* A transaction put behind one of the queues is in them, once if it was in none.
LEMMA Push ==
  ASSUME NEW P, NEW Q \in [P -> Seq(Trans)], NEW p \in P, NEW t \in Trans,
         NEW R \in [P -> Seq(Trans)], Pushed(Q, R, p, t)
  PROVE  /\ Members(R) = Members(Q) \cup {t}
         /\ Apart(Q) /\ t \notin Members(Q) => Apart(R)
<1>1. /\ R[p] = Append(Q[p], t)
      /\ \A r \in P \ {p} : R[r] = Q[r]
  BY DEF Pushed
<1>2. /\ Len(R[p]) = Len(Q[p]) + 1 /\ R[p][Len(Q[p]) + 1] = t /\ Len(Q[p]) \in Nat
      /\ \A j \in 1..Len(Q[p]) : R[p][j] = Q[p][j]
  BY <1>1, AppendProperties
<1>3. \A r \in P : \A j \in 1..Len(R[r]) :
        \/ j \in 1..Len(Q[r]) /\ R[r][j] = Q[r][j]
        \/ r = p /\ j = Len(Q[p]) + 1 /\ R[r][j] = t
  <2>. SUFFICES ASSUME NEW r \in P, NEW j \in 1..Len(R[r])
                PROVE  \/ j \in 1..Len(Q[r]) /\ R[r][j] = Q[r][j]
                       \/ r = p /\ j = Len(Q[p]) + 1 /\ R[r][j] = t
    OBVIOUS
  <2>1. CASE r # p
    BY <1>1, <2>1
  <2>2. CASE r = p
    BY <1>2, <2>2
  <2>. QED
    BY <2>1, <2>2
<1>4. \A r \in P : \A j \in 1..Len(Q[r]) : j \in 1..Len(R[r]) /\ R[r][j] = Q[r][j]
  <2>. SUFFICES ASSUME NEW r \in P, NEW j \in 1..Len(Q[r])
                PROVE  j \in 1..Len(R[r]) /\ R[r][j] = Q[r][j]
    OBVIOUS
  <2>1. CASE r # p
    BY <1>1, <2>1
  <2>2. CASE r = p
    BY <1>2, <2>2
  <2>. QED
    BY <2>1, <2>2
<1>5. Len(Q[p]) + 1 \in 1..Len(R[p])
  BY <1>2
<1>6. DOMAIN Q = P /\ DOMAIN R = P
  BY <1>1
<1>0. /\ \A x : x \in Members(Q) <=> \E r \in P : \E j \in 1..Len(Q[r]) : Q[r][j] = x
      /\ \A x : x \in Members(R) <=> \E r \in P : \E j \in 1..Len(R[r]) : R[r][j] = x
  <2>1. DOMAIN Q = P /\ DOMAIN R = P
    BY <1>6
  <2>. QED
    BY <2>1 DEF Members
<1>7. Members(R) = Members(Q) \cup {t}
  <2>1. ASSUME NEW x \in Members(R) PROVE x \in Members(Q) \cup {t}
    <3>1. PICK r \in P : \E j \in 1..Len(R[r]) : R[r][j] = x
      BY <1>0
    <3>2. PICK j \in 1..Len(R[r]) : R[r][j] = x
      BY <3>1
    <3>. QED
      BY <1>0, <1>3, <3>2
  <2>2. ASSUME NEW x \in Members(Q) PROVE x \in Members(R)
    <3>1. PICK r \in P : \E j \in 1..Len(Q[r]) : Q[r][j] = x
      BY <1>0
    <3>2. PICK j \in 1..Len(Q[r]) : Q[r][j] = x
      BY <3>1
    <3>3. j \in 1..Len(R[r]) /\ R[r][j] = x
      BY <1>4, <3>2
    <3>. QED
      BY <1>0, <3>3
  <2>3. t \in Members(R)
    BY <1>0, <1>2, <1>5
  <2>. QED
    BY <2>1, <2>2, <2>3
<1>8. ASSUME Apart(Q), t \notin Members(Q) PROVE Apart(R)
  <2>1. \A r \in P : \A j \in 1..Len(Q[r]) : Q[r][j] # t
    BY <1>0, <1>8
  <2>. SUFFICES ASSUME NEW r \in P, NEW s \in P,
                       NEW j \in 1..Len(R[r]), NEW k \in 1..Len(R[s]), R[r][j] = R[s][k]
                PROVE  r = s /\ j = k
    BY <1>6 DEF Apart
  <2>2. CASE j \in 1..Len(Q[r]) /\ R[r][j] = Q[r][j] /\ k \in 1..Len(Q[s]) /\ R[s][k] = Q[s][k]
    <3>1. \A n \in 1..Len(Q[r]) : \A m \in 1..Len(Q[s]) : Q[r][n] = Q[s][m] => r = s /\ n = m
      BY <1>6, <1>8 DEF Apart
    <3>. QED
      BY <2>2, <3>1
  <2>. QED
    BY <1>3, <2>1, <2>2
<1>. QED
  BY <1>7, <1>8

\* What is taken out of the queues D was their first.
Place(D, p, j) == IF p \in D THEN j + 1 ELSE j

\* The heads taken off some queues are in them no more; all others are.
LEMMA Pop ==
  ASSUME NEW P, NEW Q \in [P -> Seq(Trans)], NEW D \in SUBSET P,
         \A p \in D : Q[p] # <<>>,
         NEW R \in [P -> Seq(Trans)], Popped(Q, R, D)
  PROVE  /\ \A p \in D : Head(Q[p]) \in Trans /\ Head(Q[p]) \in Members(Q)
         /\ \A p \in P : Len(R[p]) <= Len(Q[p])
         /\ Apart(Q) => Apart(R) /\ Members(R) = Members(Q) \ {Head(Q[p]) : p \in D}
<1>1. \A p \in D : /\ Head(Q[p]) \in Trans /\ Head(Q[p]) = Q[p][1] /\ 1 \in 1..Len(Q[p])
                   /\ Tail(Q[p]) \in Seq(Trans) /\ Len(Tail(Q[p])) = Len(Q[p]) - 1
                   /\ \A j \in 1..Len(Tail(Q[p])) : Tail(Q[p])[j] = Q[p][j + 1]
  BY HeadTailProperties
<1>2. DOMAIN Q = P /\ DOMAIN R = P
  OBVIOUS
<1>10. \A p \in P : R[p] = IF p \in D THEN Tail(Q[p]) ELSE Q[p]
  BY DEF Popped
<1>3. \A p \in P : Len(R[p]) \in Nat /\ Len(Q[p]) \in Nat /\ Len(R[p]) <= Len(Q[p])
  <2>. SUFFICES ASSUME NEW p \in P
                PROVE  Len(R[p]) \in Nat /\ Len(Q[p]) \in Nat /\ Len(R[p]) <= Len(Q[p])
    OBVIOUS
  <2>1. CASE p \in D
    BY <1>1, <1>10, <2>1
  <2>2. CASE p \notin D
    BY <1>10, <2>2
  <2>. QED
    BY <2>1, <2>2
<1>0. /\ \A x : x \in Members(Q) <=> \E r \in P : \E j \in 1..Len(Q[r]) : Q[r][j] = x
      /\ \A x : x \in Members(R) <=> \E r \in P : \E j \in 1..Len(R[r]) : R[r][j] = x
  <2>1. DOMAIN Q = P /\ DOMAIN R = P
    BY <1>2
  <2>. QED
    BY <2>1 DEF Members
<1>4. \A p \in D : Head(Q[p]) \in Members(Q)
  BY <1>0, <1>1
<1>5. \A p \in P : \A j \in 1..Len(R[p]) :
        /\ Place(D, p, j) \in 1..Len(Q[p]) /\ R[p][j] = Q[p][Place(D, p, j)]
        /\ p \in D => Place(D, p, j) # 1
  <2>. SUFFICES ASSUME NEW p \in P, NEW j \in 1..Len(R[p])
                PROVE  /\ Place(D, p, j) \in 1..Len(Q[p]) /\ R[p][j] = Q[p][Place(D, p, j)]
                       /\ p \in D => Place(D, p, j) # 1
    OBVIOUS
  <2>1. CASE p \in D
    <3>1. R[p] = Tail(Q[p]) /\ Place(D, p, j) = j + 1
      BY <1>10, <2>1 DEF Place
    <3>2. j + 1 \in 1..Len(Q[p]) /\ j + 1 # 1
      BY <1>1, <1>3, <2>1, <3>1
    <3>3. Tail(Q[p])[j] = Q[p][j + 1]
      BY <1>1, <2>1, <3>1
    <3>. QED
      BY <3>1, <3>2, <3>3
  <2>2. CASE p \notin D
    BY <1>10, <2>2 DEF Place
  <2>. QED
    BY <2>1, <2>2
<1>9. \A p \in P : \A j \in 1..Len(R[p]) : \A k \in 1..Len(R[p]) : Place(D, p, j) = Place(D, p, k) => j = k
  BY <1>3 DEF Place
<1>6. \A p \in P : \A k \in 1..Len(Q[p]) :
        \/ p \in D /\ k = 1
        \/ \E j \in 1..Len(R[p]) : Place(D, p, j) = k
  <2>. SUFFICES ASSUME NEW p \in P, NEW k \in 1..Len(Q[p]), ~(p \in D /\ k = 1)
                PROVE  \E j \in 1..Len(R[p]) : Place(D, p, j) = k
    OBVIOUS
  <2>1. CASE p \in D
    <3>1. k - 1 \in 1..Len(R[p]) /\ Place(D, p, k - 1) = k
      BY <1>1, <1>3, <1>10, <2>1 DEF Place
    <3>. QED
      BY <3>1
  <2>2. CASE p \notin D
    BY <1>10, <2>2 DEF Place
  <2>. QED
    BY <2>1, <2>2
<1>7. ASSUME Apart(Q) PROVE Apart(R)
  <2>0. Apart(R) <=> \A p, r \in P : \A j \in 1..Len(R[p]), k \in 1..Len(R[r]) :
                       R[p][j] = R[r][k] => p = r /\ j = k
    <3>1. DOMAIN R = P
      BY <1>2
    <3>. QED
      BY <3>1 DEF Apart
  <2>. SUFFICES ASSUME NEW p \in P, NEW r \in P,
                       NEW j \in 1..Len(R[p]), NEW k \in 1..Len(R[r]), R[p][j] = R[r][k]
                PROVE  p = r /\ j = k
    BY <2>0
  <2>1. p = r /\ Place(D, p, j) = Place(D, r, k)
    <3>1. /\ Place(D, p, j) \in 1..Len(Q[p]) /\ R[p][j] = Q[p][Place(D, p, j)]
          /\ Place(D, r, k) \in 1..Len(Q[r]) /\ R[r][k] = Q[r][Place(D, r, k)]
      BY <1>5
    <3>2. \A n \in 1..Len(Q[p]) : \A m \in 1..Len(Q[r]) : Q[p][n] = Q[r][m] => p = r /\ n = m
      BY <1>2, <1>7 DEF Apart
    <3>3. Q[p][Place(D, p, j)] = Q[r][Place(D, r, k)]
      BY <3>1
    <3>. QED
      BY <3>1, <3>2, <3>3
  <2>. QED
    BY <1>9, <2>1
<1>8. ASSUME Apart(Q) PROVE Members(R) = Members(Q) \ {Head(Q[p]) : p \in D}
  <2>1. ASSUME NEW x \in Members(R) PROVE x \in Members(Q)
    <3>1. PICK r \in P : \E j \in 1..Len(R[r]) : R[r][j] = x
      BY <1>0, <2>1
    <3>2. PICK j \in 1..Len(R[r]) : R[r][j] = x
      BY <3>1
    <3>3. Place(D, r, j) \in 1..Len(Q[r]) /\ x = Q[r][Place(D, r, j)]
      BY <1>5, <3>2
    <3>. QED
      BY <1>0, <3>3
  <2>2. ASSUME NEW x \in Members(R), NEW p \in D PROVE x # Head(Q[p])
    <3>0. PICK r \in P : \E j \in 1..Len(R[r]) : R[r][j] = x
      BY <1>0, <2>2
    <3>1. PICK j \in 1..Len(R[r]) : x = R[r][j]
      BY <3>0
    <3>2. Place(D, r, j) \in 1..Len(Q[r]) /\ x = Q[r][Place(D, r, j)] /\ (r \in D => Place(D, r, j) # 1)
      BY <1>5, <3>1
    <3>. QED
      BY <1>1, <1>2, <1>8, <3>2 DEF Apart
  <2>3. ASSUME NEW x \in Members(Q), \A p \in D : x # Head(Q[p]) PROVE x \in Members(R)
    <3>0. PICK r \in P : \E k \in 1..Len(Q[r]) : Q[r][k] = x
      BY <1>0, <2>3
    <3>1. PICK k \in 1..Len(Q[r]) : x = Q[r][k]
      BY <3>0
    <3>2. PICK j \in 1..Len(R[r]) : Place(D, r, j) = k
      BY <1>1, <1>6, <2>3, <3>1
    <3>3. R[r][j] = x
      BY <1>5, <3>1, <3>2
    <3>. QED
      BY <1>0, <3>3
  <2>. QED
    BY <2>1, <2>2, <2>3
<1>. QED
  BY <1>1, <1>2, <1>3, <1>4, <1>7, <1>8

-----------------------------------------------------------------------------
(* Packets by their transactions.                                          *)

\* M has the transactions of the packets that Q has.
NamesOf(P, M, Q) ==
  /\ M \in [P -> Seq(Trans)] /\ Q \in [P -> Seq(Packets)]
  /\ \A p \in P : /\ Len(M[p]) = Len(Q[p])
                  /\ \A j \in 1..Len(Q[p]) : M[p][j] = Q[p][j].trans

\* A queue of packets has as many transactions as packets.
LEMMA NamesAre ==
  ASSUME NEW P, NEW Q \in [P -> Seq(Packets)]
  PROVE  NamesOf(P, Names(Q), Q)
<1>1. DOMAIN Q = P
  OBVIOUS
<1>2. \A p \in P : \A j \in 1..Len(Q[p]) : Q[p][j].trans \in Trans
  <2>. SUFFICES ASSUME NEW p \in P, NEW j \in 1..Len(Q[p]) PROVE Q[p][j].trans \in Trans
    OBVIOUS
  <2>1. Q[p] \in Seq(Packets)
    OBVIOUS
  <2>2. Q[p][j] \in Packets
    BY <2>1
  <2>. QED
    BY <2>2 DEF Packets
<1>3. \A p \in P : Names(Q)[p] = [j \in 1..Len(Q[p]) |-> Q[p][j].trans]
  BY <1>1 DEF Names
<1>4. \A p \in P : /\ Names(Q)[p] \in Seq(Trans) /\ Len(Names(Q)[p]) = Len(Q[p])
                   /\ \A j \in 1..Len(Q[p]) : Names(Q)[p][j] = Q[p][j].trans
  <2>. SUFFICES ASSUME NEW p \in P
                PROVE  /\ Names(Q)[p] \in Seq(Trans) /\ Len(Names(Q)[p]) = Len(Q[p])
                       /\ \A j \in 1..Len(Q[p]) : Names(Q)[p][j] = Q[p][j].trans
    OBVIOUS
  <2>. PICK n : n = Len(Q[p])
    OBVIOUS
  <2>. PICK f : f = [j \in 1..n |-> Q[p][j].trans]
    OBVIOUS
  <2>1. n \in Nat /\ \A j \in 1..n : f[j] \in Trans
    BY <1>2
  <2>2. f \in Seq(Trans) /\ Len(f) = n
    BY <2>1
  <2>. QED
    BY <1>3, <2>2
<1>5. Names(Q) = [p \in P |-> Names(Q)[p]]
  BY <1>1 DEF Names
<1>. QED
  BY <1>4, <1>5 DEF NamesOf

\* Two families of queues are the same if they hold the same, in order.
LEMMA SameQueues ==
  ASSUME NEW P, NEW Q \in [P -> Seq(Trans)], NEW R \in [P -> Seq(Trans)],
         \A p \in P : Len(Q[p]) = Len(R[p]) /\ \A j \in 1..Len(Q[p]) : Q[p][j] = R[p][j]
  PROVE  Q = R
<1>1. \A p \in P : Q[p] = R[p]
  <2>. SUFFICES ASSUME NEW p \in P PROVE Q[p] = R[p]
    OBVIOUS
  <2>1. Q[p] \in Seq(Trans) /\ R[p] \in Seq(Trans)
    OBVIOUS
  <2>. QED
    BY <2>1, SeqEqual
<1>. QED
  BY <1>1

\* What is appended is the last; the others are where they were.
LEMMA AppendIs ==
  ASSUME NEW s \in Seq(Trans), NEW t \in Trans
  PROVE  /\ Append(s, t) \in Seq(Trans) /\ Len(Append(s, t)) = Len(s) + 1
         /\ Append(s, t)[Len(s) + 1] = t
         /\ \A j \in 1..Len(s) : Append(s, t)[j] = s[j]
BY AppendProperties

\* A packet put behind the others is a transaction put behind the others.
LEMMA PushedNames ==
  ASSUME NEW P, NEW Q, NEW R, NEW M, NEW N, NamesOf(P, M, Q), NamesOf(P, N, R),
         NEW p \in P, NEW k \in Packets, Pushed(Q, R, p, k)
  PROVE  Pushed(M, N, p, k.trans)
<1>1. /\ M \in [P -> Seq(Trans)] /\ N \in [P -> Seq(Trans)]
      /\ Q \in [P -> Seq(Packets)] /\ R \in [P -> Seq(Packets)]
      /\ \A r \in P : Len(M[r]) = Len(Q[r])
      /\ \A r \in P : \A j \in 1..Len(Q[r]) : M[r][j] = Q[r][j].trans
      /\ \A r \in P : Len(N[r]) = Len(R[r])
      /\ \A r \in P : \A j \in 1..Len(R[r]) : N[r][j] = R[r][j].trans
  BY DEF NamesOf
<1>2. R[p] = Append(Q[p], k) /\ \A r \in P \ {p} : R[r] = Q[r]
  BY <1>1 DEF Pushed
<1>3. k.trans \in Trans
  BY DEF Packets
<1>4. ASSUME NEW r \in P \ {p} PROVE N[r] = M[r]
  <2>1. M[r] \in Seq(Trans) /\ N[r] \in Seq(Trans)
    BY <1>1
  <2>2. Len(M[r]) = Len(N[r])
    BY <1>1, <1>2
  <2>3. ASSUME NEW j \in 1..Len(M[r]) PROVE M[r][j] = N[r][j]
    <3>1. R[r] = Q[r] /\ r \in P
      BY <1>2
    <3>2. j \in 1..Len(Q[r]) /\ j \in 1..Len(R[r])
      BY <1>1, <3>1
    <3>3. M[r][j] = Q[r][j].trans /\ N[r][j] = R[r][j].trans
      BY <1>1, <3>1, <3>2
    <3>. QED
      BY <3>1, <3>3
  <2>. QED
    BY <2>1, <2>2, <2>3, SeqEqual
<1>5. N[p] = Append(M[p], k.trans)
  <2>1. M[p] \in Seq(Trans) /\ N[p] \in Seq(Trans) /\ Q[p] \in Seq(Packets)
        /\ Len(M[p]) = Len(Q[p]) /\ Len(N[p]) = Len(R[p])
    BY <1>1
  <2>2. PICK A : A = Append(M[p], k.trans)
    OBVIOUS
  <2>3. /\ A \in Seq(Trans) /\ Len(A) = Len(Q[p]) + 1 /\ A[Len(Q[p]) + 1] = k.trans
        /\ \A j \in 1..Len(Q[p]) : A[j] = M[p][j]
    BY <1>3, <2>1, <2>2, AppendIs
  <2>4. /\ Len(R[p]) = Len(Q[p]) + 1 /\ R[p][Len(Q[p]) + 1] = k
        /\ \A j \in 1..Len(Q[p]) : R[p][j] = Q[p][j]
        /\ Len(Q[p]) \in Nat
    BY <1>2, <2>1, AppendProperties
  <2>5. ASSUME NEW j \in 1..Len(N[p]) PROVE N[p][j] = A[j]
    <3>1. N[p][j] = R[p][j].trans
      BY <1>1, <2>1
    <3>2. CASE j = Len(Q[p]) + 1
      BY <2>3, <2>4, <3>1, <3>2
    <3>3. CASE j # Len(Q[p]) + 1
      <4>1. j \in 1..Len(Q[p])
        BY <2>1, <2>4, <3>3
      <4>. QED
        BY <1>1, <2>3, <2>4, <3>1, <4>1
    <3>. QED
      BY <3>2, <3>3
  <2>6. Len(N[p]) = Len(A)
    BY <2>1, <2>3, <2>4
  <2>7. N[p] = A
    BY <2>1, <2>3, <2>5, <2>6, SeqEqual
  <2>. QED
    BY <2>2, <2>7
<1>. QED
  BY <1>1, <1>4, <1>5 DEF Pushed

\* So it is when the first packets are taken out.
LEMMA PoppedNames ==
  ASSUME NEW P, NEW Q, NEW R, NEW M, NEW N, NamesOf(P, M, Q), NamesOf(P, N, R),
         NEW D \in SUBSET P, \A p \in D : Q[p] # <<>>, Popped(Q, R, D)
  PROVE  /\ Popped(M, N, D)
         /\ \A p \in D : M[p] # <<>> /\ Head(M[p]) = Head(Q[p]).trans
<1>1. /\ M \in [P -> Seq(Trans)] /\ N \in [P -> Seq(Trans)]
      /\ Q \in [P -> Seq(Packets)] /\ R \in [P -> Seq(Packets)]
      /\ \A r \in P : Len(M[r]) = Len(Q[r])
      /\ \A r \in P : \A j \in 1..Len(Q[r]) : M[r][j] = Q[r][j].trans
      /\ \A r \in P : Len(N[r]) = Len(R[r])
      /\ \A r \in P : \A j \in 1..Len(R[r]) : N[r][j] = R[r][j].trans
  BY DEF NamesOf
<1>2. \A p \in P : R[p] = IF p \in D THEN Tail(Q[p]) ELSE Q[p]
  BY <1>1 DEF Popped
<1>3. ASSUME NEW r \in P \ D PROVE N[r] = M[r]
  <2>1. M[r] \in Seq(Trans) /\ N[r] \in Seq(Trans)
    BY <1>1
  <2>2. Len(M[r]) = Len(N[r])
    BY <1>1, <1>2
  <2>3. ASSUME NEW j \in 1..Len(M[r]) PROVE M[r][j] = N[r][j]
    <3>1. R[r] = Q[r] /\ r \in P
      BY <1>2
    <3>2. j \in 1..Len(Q[r]) /\ j \in 1..Len(R[r])
      BY <1>1, <3>1
    <3>3. M[r][j] = Q[r][j].trans /\ N[r][j] = R[r][j].trans
      BY <1>1, <3>1, <3>2
    <3>. QED
      BY <3>1, <3>3
  <2>. QED
    BY <2>1, <2>2, <2>3, SeqEqual
<1>4. ASSUME NEW p \in D
      PROVE  N[p] = Tail(M[p]) /\ M[p] # <<>> /\ Head(M[p]) = Head(Q[p]).trans
  <2>1. M[p] \in Seq(Trans) /\ N[p] \in Seq(Trans) /\ Q[p] \in Seq(Packets)
        /\ Len(M[p]) = Len(Q[p]) /\ Len(N[p]) = Len(R[p]) /\ R[p] = Tail(Q[p]) /\ p \in P
        /\ Q[p] # <<>>
    BY <1>1, <1>2
  <2>2. /\ Head(Q[p]) = Q[p][1] /\ 1 \in 1..Len(Q[p]) /\ Len(Q[p]) \in Nat
        /\ Len(R[p]) = Len(Q[p]) - 1
        /\ \A j \in 1..Len(R[p]) : R[p][j] = Q[p][j + 1]
    BY <2>1, HeadTailProperties
  <2>3. M[p] # <<>>
    BY <2>1, <2>2
  <2>4. PICK A : A = Tail(M[p])
    OBVIOUS
  <2>5. /\ Head(M[p]) = M[p][1]
        /\ A \in Seq(Trans) /\ Len(A) = Len(Q[p]) - 1
        /\ \A j \in 1..Len(A) : A[j] = M[p][j + 1]
    BY <2>1, <2>3, <2>4, HeadTailProperties
  <2>6. ASSUME NEW j \in 1..Len(N[p]) PROVE N[p][j] = A[j]
    <3>1. j \in 1..Len(R[p]) /\ j \in 1..Len(A) /\ j + 1 \in 1..Len(Q[p])
      BY <2>1, <2>2, <2>5
    <3>2. N[p][j] = R[p][j].trans /\ R[p][j] = Q[p][j + 1]
      BY <1>1, <2>1, <2>2, <3>1
    <3>3. A[j] = M[p][j + 1] /\ M[p][j + 1] = Q[p][j + 1].trans
      BY <1>1, <2>1, <2>5, <3>1
    <3>. QED
      BY <3>2, <3>3
  <2>7. Len(N[p]) = Len(A)
    BY <2>1, <2>2, <2>5
  <2>8. N[p] = A
    BY <2>1, <2>5, <2>6, <2>7, SeqEqual
  <2>9. M[p][1] = Q[p][1].trans
    BY <1>1, <2>1, <2>2
  <2>. QED
    BY <2>2, <2>3, <2>4, <2>5, <2>8, <2>9
<1>. QED
  BY <1>1, <1>3, <1>4 DEF Popped

\* A packet put behind the others.
LEMMA PushNames ==
  ASSUME NEW P, NEW Q \in [P -> Seq(Packets)], NEW p \in P, NEW k \in Packets,
         NEW R \in [P -> Seq(Packets)], Pushed(Q, R, p, k)
  PROVE  /\ Members(Names(R)) = Members(Names(Q)) \cup {k.trans}
         /\ Apart(Names(Q)) /\ k.trans \notin Members(Names(Q)) => Apart(Names(R))
<1>1. NamesOf(P, Names(Q), Q) /\ NamesOf(P, Names(R), R)
  BY NamesAre
<1>2. Pushed(Names(Q), Names(R), p, k.trans)
  BY <1>1, PushedNames
<1>3. Names(Q) \in [P -> Seq(Trans)] /\ Names(R) \in [P -> Seq(Trans)]
  BY <1>1 DEF NamesOf
<1>4. k.trans \in Trans
  BY DEF Packets
<1>. QED
  BY <1>2, <1>3, <1>4, Push

\* The first packets of the queues D taken out.
LEMMA PopNames ==
  ASSUME NEW P, NEW Q \in [P -> Seq(Packets)], NEW D \in SUBSET P,
         \A p \in D : Q[p] # <<>>,
         NEW R \in [P -> Seq(Packets)], Popped(Q, R, D)
  PROVE  /\ \A p \in D : Head(Q[p]).trans \in Trans /\ Head(Q[p]).trans \in Members(Names(Q))
         /\ \A p \in P : Len(R[p]) <= Len(Q[p])
         /\ Apart(Names(Q)) =>
              /\ Apart(Names(R))
              /\ Members(Names(R)) = Members(Names(Q)) \ {Head(Q[p]).trans : p \in D}
<1>1. NamesOf(P, Names(Q), Q) /\ NamesOf(P, Names(R), R)
  BY NamesAre
<1>2. /\ Popped(Names(Q), Names(R), D)
      /\ \A p \in D : Names(Q)[p] # <<>> /\ Head(Names(Q)[p]) = Head(Q[p]).trans
  BY <1>1, PoppedNames
<1>3. /\ Names(Q) \in [P -> Seq(Trans)] /\ Names(R) \in [P -> Seq(Trans)]
      /\ \A p \in P : Len(Names(Q)[p]) = Len(Q[p]) /\ Len(Names(R)[p]) = Len(R[p])
  BY <1>1 DEF NamesOf
<1>4. /\ \A p \in D : Head(Names(Q)[p]) \in Trans /\ Head(Names(Q)[p]) \in Members(Names(Q))
      /\ \A p \in P : Len(Names(R)[p]) <= Len(Names(Q)[p])
      /\ Apart(Names(Q)) => /\ Apart(Names(R))
                            /\ Members(Names(R)) = Members(Names(Q)) \ {Head(Names(Q)[p]) : p \in D}
  <2>1. \A p \in D : Names(Q)[p] # <<>>
    BY <1>2
  <2>. QED
    BY <1>2, <1>3, <2>1, Pop
<1>5. {Head(Names(Q)[p]) : p \in D} = {Head(Q[p]).trans : p \in D}
  BY <1>2
<1>6. \A p \in P : Len(R[p]) <= Len(Q[p])
  BY <1>3, <1>4
<1>. QED
  BY <1>2, <1>4, <1>5, <1>6

\* A packet a cycle later.
Aged(k) == [k EXCEPT !.left = Max({0, @ - 1})]

\* A packet that has spent a cycle is of the same transaction.
LEMMA AgedIs ==
  ASSUME NEW k \in Packets
  PROVE  Aged(k) \in Packets /\ Aged(k).trans = k.trans
<1>1. k.left \in Nat
  BY DEF Packets
<1>2. Max({0, k.left - 1}) \in Nat
  <2>1. \E x \in {0, k.left - 1} : \A y \in {0, k.left - 1} : x >= y
    BY <1>1
  <2>2. Max({0, k.left - 1}) \in {0, k.left - 1}
        /\ \A y \in {0, k.left - 1} : Max({0, k.left - 1}) >= y
    BY <2>1 DEF Max
  <2>. QED
    BY <1>1, <2>2
<1>. QED
  BY <1>2 DEF Packets, Aged

\* A cycle later the packets are the same.
LEMMA NearerNames ==
  ASSUME NEW P, NEW Q \in [P -> Seq(Packets)]
  PROVE  /\ Nearer(Q) \in [P -> Seq(Packets)]
         /\ Names(Nearer(Q)) = Names(Q)
         /\ \A p \in P : Len(Nearer(Q)[p]) = Len(Q[p])
<1>0. Nearer(Q) = [p \in P |-> [j \in DOMAIN Q[p] |-> Aged(Q[p][j])]]
  BY DEF Nearer, Aged
<1>1. \A p \in P : Nearer(Q)[p] = [j \in DOMAIN Q[p] |-> Aged(Q[p][j])]
  BY <1>0
<1>2. ASSUME NEW p \in P
      PROVE  /\ Nearer(Q)[p] \in Seq(Packets) /\ Len(Nearer(Q)[p]) = Len(Q[p])
             /\ \A j \in 1..Len(Q[p]) : Nearer(Q)[p][j].trans = Q[p][j].trans
  <2>0. Nearer(Q)[p] = [j \in DOMAIN Q[p] |-> Aged(Q[p][j])]
    BY <1>1
  <2>. PICK n : n = Len(Q[p])
    OBVIOUS
  <2>1. n \in Nat /\ DOMAIN Q[p] = 1..n /\ \A j \in 1..n : Q[p][j] \in Packets
    OBVIOUS
  <2>2. \A j \in 1..n : Aged(Q[p][j]) \in Packets /\ Aged(Q[p][j]).trans = Q[p][j].trans
    BY <2>1, AgedIs
  <2>3. PICK f : f = [j \in 1..n |-> Aged(Q[p][j])]
    OBVIOUS
  <2>4. f \in Seq(Packets) /\ Len(f) = n /\ \A j \in 1..n : f[j].trans = Q[p][j].trans
    BY <2>1, <2>2, <2>3
  <2>5. Nearer(Q)[p] = f
    BY <2>0, <2>1, <2>3
  <2>. QED
    BY <2>4, <2>5
<1>3. Nearer(Q) \in [P -> Seq(Packets)]
  BY <1>0, <1>1, <1>2
<1>4. NamesOf(P, Names(Q), Q) /\ NamesOf(P, Names(Nearer(Q)), Nearer(Q))
  BY <1>3, NamesAre
<1>5. Names(Nearer(Q)) = Names(Q)
  <2>1. /\ Names(Q) \in [P -> Seq(Trans)] /\ Names(Nearer(Q)) \in [P -> Seq(Trans)]
        /\ \A p \in P : Len(Names(Q)[p]) = Len(Q[p])
        /\ \A p \in P : \A j \in 1..Len(Q[p]) : Names(Q)[p][j] = Q[p][j].trans
        /\ \A p \in P : Len(Names(Nearer(Q))[p]) = Len(Nearer(Q)[p])
        /\ \A p \in P : \A j \in 1..Len(Nearer(Q)[p]) :
             Names(Nearer(Q))[p][j] = Nearer(Q)[p][j].trans
    BY <1>4 DEF NamesOf
  <2>2. ASSUME NEW p \in P
        PROVE  /\ Len(Names(Nearer(Q))[p]) = Len(Names(Q)[p])
               /\ \A j \in 1..Len(Names(Nearer(Q))[p]) : Names(Nearer(Q))[p][j] = Names(Q)[p][j]
    BY <1>2, <2>1
  <2>. QED
    BY <2>1, <2>2, SameQueues
<1>. QED
  BY <1>2, <1>3, <1>5
-----------------------------------------------------------------------------
(* The order of the ports.                                                 *)

LEMMA ConcatIs ==
  ASSUME NEW s \in Seq(Nat), NEW t \in Seq(Nat)
  PROVE  /\ s \o t \in Seq(Nat) /\ Len(s \o t) = Len(s) + Len(t)
         /\ \A j \in 1..Len(s) : (s \o t)[j] = s[j]
         /\ \A j \in 1..Len(t) : (s \o t)[Len(s) + j] = t[j]
<1>1. s \o t \in Seq(Nat) /\ Len(s \o t) = Len(s) + Len(t)
  BY ConcatProperties
<1>. QED
  BY <1>1

\* An entry put in before the one at i.
Inserted(s, i, e, t) ==
  /\ t \in Seq(Nat) /\ Len(t) = Len(s) + 1
  /\ \A j \in 1..(Len(s) + 1) : t[j] = IF j < i THEN s[j] ELSE IF j = i THEN e ELSE s[j - 1]

\* What is inserted moves those behind it by one.
LEMMA InsertAtIs ==
  ASSUME NEW s \in Seq(Nat), NEW i \in 1..Len(s), NEW e \in Nat
  PROVE  Inserted(s, i, e, InsertAt(s, i, e))
<1>. DEFINE a == SubSeq(s, 1, i - 1)
            b == SubSeq(s, i, Len(s))
            c == a \o <<e>>
<1>1. a \in Seq(Nat) /\ Len(a) = i - 1 /\ \A j \in 1..(i - 1) : a[j] = s[j]
  OBVIOUS
<1>2. b \in Seq(Nat) /\ Len(b) = Len(s) - i + 1 /\ \A j \in 1..(Len(s) - i + 1) : b[j] = s[j + i - 1]
  OBVIOUS
<1>3. InsertAt(s, i, e) = c \o b
  BY DEF InsertAt
<1>. HIDE DEF a, b
<1>4. c \in Seq(Nat) /\ Len(c) = i /\ \A j \in 1..i : c[j] = IF j < i THEN s[j] ELSE e
  <2>1. <<e>> \in Seq(Nat) /\ Len(<<e>>) = 1 /\ <<e>>[1] = e
    OBVIOUS
  <2>2. PICK d : d = <<e>>
    OBVIOUS
  <2>3. d \in Seq(Nat) /\ Len(d) = 1 /\ d[1] = e
    BY <2>1, <2>2
  <2>4. /\ a \o d \in Seq(Nat) /\ Len(a \o d) = Len(a) + Len(d)
        /\ \A j \in 1..Len(a) : (a \o d)[j] = a[j]
        /\ \A j \in 1..Len(d) : (a \o d)[Len(a) + j] = d[j]
    BY <1>1, <2>3, ConcatIs
  <2>5. (a \o d)[i] = e
    <3>1. 1 \in 1..Len(d) /\ Len(a) + 1 = i
      BY <1>1, <2>3
    <3>. QED
      BY <2>3, <2>4, <3>1
  <2>6. c = a \o d
    BY <2>2
  <2>7. \A j \in 1..i : (a \o d)[j] = IF j < i THEN s[j] ELSE e
    <3>. SUFFICES ASSUME NEW j \in 1..i PROVE (a \o d)[j] = IF j < i THEN s[j] ELSE e
      OBVIOUS
    <3>1. CASE j < i
      <4>1. j \in 1..Len(a) /\ j \in 1..(i - 1)
        BY <1>1, <3>1
      <4>. QED
        BY <1>1, <2>4, <3>1, <4>1
    <3>2. CASE j = i
      <4>1. ~(j < i)
        BY <3>2
      <4>. QED
        BY <2>5, <3>2, <4>1, Zenon
    <3>3. j < i \/ j = i
      OBVIOUS
    <3>. QED
      BY <3>1, <3>2, <3>3, Zenon
  <2>. HIDE DEF c
  <2>. QED
    BY <1>1, <2>3, <2>4, <2>6, <2>7
<1>. HIDE DEF c
<1>5. c \o b \in Seq(Nat) /\ Len(c \o b) = Len(s) + 1
  <2>1. c \o b \in Seq(Nat) /\ Len(c \o b) = Len(c) + Len(b)
    BY <1>2, <1>4, ConcatProperties
  <2>. QED
    BY <1>2, <1>4, <2>1
<1>6. \A j \in 1..(Len(s) + 1) :
        (c \o b)[j] = IF j < i THEN s[j] ELSE IF j = i THEN e ELSE s[j - 1]
  <2>1. /\ \A j \in 1..Len(c) : (c \o b)[j] = c[j]
        /\ \A j \in 1..Len(b) : (c \o b)[Len(c) + j] = b[j]
    BY <1>2, <1>4, ConcatIs
  <2>. SUFFICES ASSUME NEW j \in 1..(Len(s) + 1)
                PROVE  (c \o b)[j] = IF j < i THEN s[j] ELSE IF j = i THEN e ELSE s[j - 1]
    OBVIOUS
  <2>3. CASE j <= i
    BY <1>4, <2>1, <2>3
  <2>4. CASE j > i
    <3>1. j - i \in 1..(Len(s) - i + 1) /\ (j - i) + i - 1 = j - 1 /\ i + (j - i) = j
      BY <2>4
    <3>2. (c \o b)[j] = b[j - i]
      BY <1>2, <1>4, <2>1, <3>1
    <3>3. b[j - i] = s[j - 1]
      BY <1>2, <3>1
    <3>. QED
      BY <2>4, <3>2, <3>3
  <2>5. j <= i \/ j > i
    OBVIOUS
  <2>. QED
    BY <2>3, <2>4, <2>5, Zenon
<1>. QED
  BY <1>3, <1>5, <1>6 DEF Inserted

\* A port that is not in the order yet is put where it may be.
LEMMA InsertKeeps ==
  ASSUME NEW n \in Nat, NEW age \in [0..(n - 1) -> Nat], NEW order, Ordered(age, order),
         NEW p \in 0..(n - 1), \A k \in 1..Len(order) : order[k] # p
  PROVE  /\ Ordered(age, InsertByAge(age, order, p))
         /\ \A k \in 1..Len(InsertByAge(age, order, p)) :
              \/ InsertByAge(age, order, p)[k] = p
              \/ \E j \in 1..Len(order) : InsertByAge(age, order, p)[k] = order[j]
<1>. DEFINE less == {k \in DOMAIN order : age[p] > order[k]}
            new == InsertByAge(age, order, p)
<1>1. /\ order \in Seq(Nat) /\ Len(order) \in Nat
      /\ \A k \in 1..Len(order) : order[k] \in 0..(n - 1) /\ age[order[k]] > 0
      /\ \A j, k \in 1..Len(order) : order[j] = order[k] => j = k
  BY DEF Ordered
<1>2. CASE age[p] = 0
  <2>1. new = order
    BY <1>2 DEF InsertByAge
  <2>. QED
    BY <1>1, <2>1
<1>3. CASE age[p] # 0 /\ less = {}
  <2>1. new = Append(order, p)
    BY <1>3 DEF InsertByAge
  <2>2. /\ new \in Seq(Nat) /\ Len(new) = Len(order) + 1 /\ new[Len(order) + 1] = p
        /\ \A k \in 1..Len(order) : new[k] = order[k]
    BY <1>1, <2>1, AppendProperties
  <2>. HIDE DEF new, less
  <2>3. \A k \in 1..Len(new) : k \in 1..Len(order) \/ k = Len(order) + 1
    BY <1>1, <2>2
  <2>4. Ordered(age, new)
    <3>1. p \in DOMAIN age /\ age[p] > 0 /\ DOMAIN age = 0..(n - 1)
      BY <1>3
    <3>2. \A k \in 1..Len(new) : new[k] \in DOMAIN age /\ age[new[k]] > 0
      BY <1>1, <2>2, <2>3, <3>1
    <3>3. \A j, k \in 1..Len(new) : new[j] = new[k] => j = k
      BY <1>1, <2>2, <2>3
    <3>. QED
      BY <2>2, <3>2, <3>3 DEF Ordered
  <2>5. \A k \in 1..Len(new) : new[k] = p \/ \E j \in 1..Len(order) : new[k] = order[j]
    BY <2>2, <2>3
  <2>. QED
    BY <2>4, <2>5 DEF new
<1>4. CASE age[p] # 0 /\ less # {}
  <2>1. Min(less) \in less
    <3>1. less \in SUBSET Nat
      BY <1>1
    <3>2. \E m \in less : \A k \in less : m <= k
      <4>. HIDE DEF less
      <4>. QED
        BY <1>4, <3>1, Smallest
    <3>. QED
      BY <3>2 DEF Min
  <2>0. PICK i : i = Min(less)
    OBVIOUS
  <2>2. i \in 1..Len(order)
    BY <1>1, <2>0, <2>1
  <2>3. new = InsertAt(order, i, p)
    BY <1>4, <2>0 DEF InsertByAge
  <2>. HIDE DEF new, less
  <2>4. /\ new \in Seq(Nat) /\ Len(new) = Len(order) + 1
        /\ \A j \in 1..(Len(order) + 1) :
             new[j] = IF j < i THEN order[j] ELSE IF j = i THEN p ELSE order[j - 1]
    <3>1. p \in Nat
      OBVIOUS
    <3>2. Inserted(order, i, p, new)
      <4>1. order \in Seq(Nat)
        BY <1>1
      <4>. QED
        BY <2>2, <2>3, <3>1, <4>1, InsertAtIs
    <3>. QED
      BY <3>2 DEF Inserted
  <2>. DEFINE from(j) == IF j < i THEN j ELSE j - 1
  <2>5. ASSUME NEW j \in 1..Len(new)
        PROVE  \/ j = i /\ new[j] = p
               \/ j # i /\ from(j) \in 1..Len(order) /\ new[j] = order[from(j)]
    <3>1. j \in 1..(Len(order) + 1)
      BY <2>4
    <3>. QED
      BY <1>1, <2>2, <2>4, <3>1
  <2>6. \A j, k \in 1..Len(new) : j # i /\ k # i /\ from(j) = from(k) => j = k
    BY <2>2
  <2>7. Ordered(age, new)
    <3>1. \A j \in 1..Len(new) : new[j] \in DOMAIN age /\ age[new[j]] > 0
      <4>1. p \in DOMAIN age /\ age[p] > 0 /\ DOMAIN age = 0..(n - 1)
        BY <1>4
      <4>. HIDE DEF from
      <4>. QED
        BY <1>1, <2>5, <4>1
    <3>2. \A j, k \in 1..Len(new) : new[j] = new[k] => j = k
      BY <1>1, <2>5, <2>6
    <3>. QED
      BY <2>4, <3>1, <3>2 DEF Ordered
  <2>8. \A k \in 1..Len(new) : new[k] = p \/ \E j \in 1..Len(order) : new[k] = order[j]
    BY <2>5
  <2>. QED
    BY <2>7, <2>8 DEF new
<1>. QED
  BY <1>2, <1>3, <1>4

\* f puts the ports of the first m turns in order.
Orders(f, age, n, m) ==
  f = [i \in 0..m |-> IF i = 0 THEN <<>>
                      ELSE InsertByAge(age, f[i - 1], (i - 1 + logic_clk_) % n)]

\* There is such a function: there is no smallest number of turns without.
LEMMA OrdersExists ==
  ASSUME NEW age, NEW n \in Nat
  PROVE  \E f : Orders(f, age, n, n)
<1>. DEFINE S == {m \in Nat : ~ \E f : Orders(f, age, n, m)}
<1>1. S = {}
  <2>. SUFFICES ASSUME S # {} PROVE FALSE
    OBVIOUS
  <2>1. PICK m \in S : \A k \in S : m <= k
    <3>1. S \in SUBSET Nat
      OBVIOUS
    <3>. HIDE DEF S
    <3>. QED
      BY <3>1, Smallest
  <2>2. m \in Nat /\ ~ \E f : Orders(f, age, n, m)
    OBVIOUS
  <2>3. m # 0
    <3>. DEFINE z == [k \in 0..0 |-> <<>>]
    <3>1. \A k \in 0..0 : k = 0
      OBVIOUS
    <3>2. Orders(z, age, n, 0)
      BY <3>1 DEF Orders
    <3>. QED
      BY <2>2, <3>2
  <2>4. m - 1 \in Nat /\ m - 1 \notin S
    <3>1. m - 1 \in Nat /\ ~(m <= m - 1)
      BY <2>2, <2>3
    <3>. HIDE DEF S
    <3>. QED
      BY <2>1, <3>1
  <2>5. PICK f : Orders(f, age, n, m - 1)
    BY <2>4
  <2>6. f = [i \in 0..(m - 1) |-> IF i = 0 THEN <<>>
                                  ELSE InsertByAge(age, f[i - 1], (i - 1 + logic_clk_) % n)]
    BY <2>5 DEF Orders
  <2>. DEFINE last == InsertByAge(age, f[m - 1], (m - 1 + logic_clk_) % n)
              g == [i \in 0..m |-> IF i = m THEN last ELSE f[i]]
  <2>7. ASSUME NEW i \in 0..m
        PROVE  g[i] = IF i = 0 THEN <<>>
                      ELSE InsertByAge(age, g[i - 1], (i - 1 + logic_clk_) % n)
    <3>1. CASE i = m
      <4>1. m - 1 \in 0..m /\ m - 1 # m /\ m \in 0..m
        BY <2>2, <2>3
      <4>2. g[m - 1] = f[m - 1] /\ g[m] = last
        BY <4>1
      <4>. QED
        BY <2>3, <3>1, <4>2
    <3>2. CASE i # m
      <4>1. i \in 0..(m - 1) /\ (i # 0 => i - 1 \in 0..m /\ i - 1 # m)
        BY <2>2, <3>2
      <4>2. g[i] = f[i] /\ (i # 0 => g[i - 1] = f[i - 1])
        BY <3>2, <4>1
      <4>3. f[i] = IF i = 0 THEN <<>>
                   ELSE InsertByAge(age, f[i - 1], (i - 1 + logic_clk_) % n)
        <5>. HIDE DEF g, last
        <5>. QED
          BY <2>6, <4>1
      <4>. QED
        BY <4>2, <4>3
    <3>. QED
      BY <3>1, <3>2
  <2>8. g = [i \in 0..m |-> g[i]]
    OBVIOUS
  <2>9. Orders(g, age, n, m)
    <3>. HIDE DEF g, last
    <3>1. [i \in 0..m |-> g[i]] =
          [i \in 0..m |-> IF i = 0 THEN <<>>
                          ELSE InsertByAge(age, g[i - 1], (i - 1 + logic_clk_) % n)]
      BY <2>7
    <3>. QED
      BY <2>8, <3>1 DEF Orders
  <2>. QED
    BY <2>2, <2>9
<1>2. n \notin S
  BY <1>1
<1>. QED
  BY <1>2

\* The order for the crossbar: every turn brings another port.
LEMMA AgeQueueIs ==
  ASSUME NEW n \in Nat \ {0}, NEW age \in [0..(n - 1) -> Nat], logic_clk_ \in Nat
  PROVE  Ordered(age, BuildAgeQueue(age, n))
<1>0. PICK f : f = CHOOSE h : Orders(h, age, n, n)
  OBVIOUS
<1>1. Orders(f, age, n, n)
  BY <1>0, OrdersExists
<1>2. BuildAgeQueue(age, n) = f[n]
  BY <1>0 DEF BuildAgeQueue, Orders
<1>3. /\ f[0] = <<>>
      /\ \A i \in 1..n : f[i] = InsertByAge(age, f[i - 1], (i - 1 + logic_clk_) % n)
  <2>1. \A i \in 0..n : f[i] = IF i = 0 THEN <<>>
                        ELSE InsertByAge(age, f[i - 1], (i - 1 + logic_clk_) % n)
    BY <1>1 DEF Orders
  <2>2. 0 \in 0..n /\ \A i \in 1..n : i \in 0..n /\ i # 0
    OBVIOUS
  <2>. QED
    BY <2>1, <2>2
<1>. DEFINE Good(m) == /\ Ordered(age, f[m])
                       /\ \A k \in 1..Len(f[m]) : \E i \in 0..(m - 1) : f[m][k] = (i + logic_clk_) % n
            S == {m \in 0..n : ~Good(m)}
<1>4. S = {}
  <2>. SUFFICES ASSUME S # {} PROVE FALSE
    OBVIOUS
  <2>1. PICK m \in S : \A k \in S : m <= k
    <3>1. S \in SUBSET Nat
      OBVIOUS
    <3>. HIDE DEF S
    <3>. QED
      BY <3>1, Smallest
  <2>2. m \in 0..n /\ ~Good(m)
    OBVIOUS
  <2>3. m # 0
    <3>1. Len(<<>>) = 0 /\ <<>> \in Seq(Nat)
      OBVIOUS
    <3>2. Good(0)
      BY <1>3, <3>1 DEF Ordered
    <3>. QED
      BY <2>2, <3>2
  <2>4. m - 1 \in 0..(n - 1) /\ m \in 1..n /\ m - 1 \notin S
    <3>1. m - 1 \in 0..(n - 1) /\ m \in 1..n /\ ~(m <= m - 1)
      BY <2>2, <2>3
    <3>. HIDE DEF S
    <3>. QED
      BY <2>1, <3>1
  <2>5. /\ Ordered(age, f[m - 1])
        /\ \A k \in 1..Len(f[m - 1]) : \E i \in 0..(m - 2) : f[m - 1][k] = (i + logic_clk_) % n
    <3>1. m - 1 \in 0..n /\ (m - 1) - 1 = m - 2
      BY <2>4
    <3>. QED
      BY <2>4, <3>1
  <2>. DEFINE p == (m - 1 + logic_clk_) % n
  <2>6. p \in 0..(n - 1)
    BY <2>4
  <2>7. ASSUME NEW i \in 0..(m - 2), (i + logic_clk_) % n = p PROVE FALSE
    <3>1. /\ i + logic_clk_ \in Nat /\ m - 1 + logic_clk_ \in Nat
          /\ i + logic_clk_ <= m - 1 + logic_clk_
          /\ m - 1 + logic_clk_ < (i + logic_clk_) + n
      BY <2>4
    <3>2. i + logic_clk_ = m - 1 + logic_clk_
      BY <2>7, <3>1, SameRemainder
    <3>. QED
      BY <2>4, <3>2
  <2>8. \A k \in 1..Len(f[m - 1]) : f[m - 1][k] # p
    BY <2>5, <2>7
  <2>9. f[m] = InsertByAge(age, f[m - 1], p)
    BY <1>3, <2>4
  <2>. HIDE DEF p
  <2>10. /\ Ordered(age, f[m])
         /\ \A k \in 1..Len(f[m]) : f[m][k] = p \/ \E j \in 1..Len(f[m - 1]) : f[m][k] = f[m - 1][j]
    <3>1. PICK order : order = f[m - 1]
      OBVIOUS
    <3>2. Ordered(age, order) /\ \A k \in 1..Len(order) : order[k] # p
      BY <2>5, <2>8, <3>1
    <3>3. n \in Nat
      OBVIOUS
    <3>4. /\ Ordered(age, InsertByAge(age, order, p))
          /\ \A k \in 1..Len(InsertByAge(age, order, p)) :
               \/ InsertByAge(age, order, p)[k] = p
               \/ \E j \in 1..Len(order) : InsertByAge(age, order, p)[k] = order[j]
      BY <2>6, <3>2, <3>3, InsertKeeps
    <3>. QED
      BY <2>9, <3>1, <3>4
  <2>11. ASSUME NEW k \in 1..Len(f[m]) PROVE \E i \in 0..(m - 1) : f[m][k] = (i + logic_clk_) % n
    <3>1. CASE f[m][k] = p
      <4>1. m - 1 \in 0..(m - 1)
        BY <2>4
      <4>. QED
        BY <3>1, <4>1 DEF p
    <3>2. CASE \E j \in 1..Len(f[m - 1]) : f[m][k] = f[m - 1][j]
      <4>1. PICK i \in 0..(m - 2) : f[m][k] = (i + logic_clk_) % n
        BY <2>5, <3>2
      <4>2. i \in 0..(m - 1)
        BY <2>4
      <4>. QED
        BY <4>1, <4>2
    <3>. QED
      BY <2>10, <3>1, <3>2
  <2>. QED
    BY <2>2, <2>10, <2>11
<1>5. n \in 0..n
  OBVIOUS
<1>6. Good(n)
  BY <1>4, <1>5
<1>. QED
  BY <1>2, <1>6
-----------------------------------------------------------------------------
(* What the transactions and the constants are.                            *)

LEMMA ConstantsAre ==
  /\ num_links \in Nat \ {0} /\ xbar_queue_depth \in Nat \ {0}
  /\ ps_per_dram \in Nat /\ ps_per_logic \in Nat
  /\ 1 <= ps_per_logic /\ ps_per_logic <= ps_per_dram
  /\ MaxAge \in Nat /\ MaxAge >= 4
  /\ DataFlits \in Nat /\ PlainFlits \in Nat
<1>1. block_size \in {0, 32, 64, 128, 256}
  BY HMCAssumption
<1>2. DataFlits \in Nat /\ PlainFlits \in Nat
  BY <1>1 DEF DataFlits, PlainFlits
<1>. QED
  BY <1>2, HMCAssumption

Transactions == [addr : Nat, is_write : BOOLEAN]

\* What a transaction needs of a link and where it goes.
LEMMA StreamIs ==
  ASSUME TypeInv
  PROVE  /\ Len(stream) \in Nat
         /\ \A t \in Trans : /\ stream[t].addr \in Nat /\ Quad(t) \in Quads
                             /\ ReqFlits(t) \in Nat /\ RespFlits(t) \in Nat
<1>1. stream \in Seq(Transactions) /\ \A k \in 1..Len(stream) : GetChannel(stream[k].addr) \in Nat
  <2>1. stream \in Streams
    BY DEF TypeInv
  <2>2. \A s \in Streams : s \in Seq(Transactions)
    BY HMCAssumption DEF Transactions
  <2>3. \A s \in Streams : \A k \in 1..Len(s) : GetChannel(s[k].addr) \in Nat
    BY HMCAssumption
  <2>. QED
    BY <2>1, <2>2, <2>3
<1>2. Len(stream) \in Nat
  BY <1>1
<1>3. ASSUME NEW t \in Trans
      PROVE  /\ stream[t].addr \in Nat /\ Quad(t) \in Quads
             /\ ReqFlits(t) \in Nat /\ RespFlits(t) \in Nat
  <2>1. t \in 1..Len(stream)
    BY DEF Trans
  <2>2. stream[t].addr \in Nat
    <3>1. stream[t] \in Transactions
      BY <1>1, <2>1
    <3>. QED
      BY <3>1 DEF Transactions
  <2>3. GetChannel(stream[t].addr) % 4 \in 0..3
    BY <1>1, <2>1
  <2>4. ReqFlits(t) \in Nat /\ RespFlits(t) \in Nat
    BY ConstantsAre DEF ReqFlits, RespFlits
  <2>. QED
    BY <2>2, <2>3, <2>4 DEF Quad, Quads
<1>. QED
  BY <1>2, <1>3

\* The stream does not change.
LEMMA SameTrans ==
  ASSUME stream' = stream
  PROVE  Trans' = Trans /\ Packets' = Packets
BY DEF Trans, Packets

-----------------------------------------------------------------------------
(* The parts of the invariant that a step leaves alone.                    *)

LEMMA SameRequests ==
  ASSUME RequestsInv, UNCHANGED <<link_req_queues_, quad_req_queues_, in_vault, added>>
  PROVE  RequestsInv' /\ Pending' = Pending
BY DEF RequestsInv, Pending, Asked, Sent

\* A step that touches no response leaves each where it is.
LEMMA SameResponses ==
  ASSUME ResponsesInv,
         UNCHANGED <<resp_lookup_table_, quad_resp_queues_, link_resp_queues_, answered, added>>
  PROVE  ResponsesInv' /\ InTable' = InTable
BY DEF ResponsesInv, InTable, AtQuad, AtLink

\* A step that moves no request to a vault or from one leaves the counts.
LEMMA SameCount ==
  ASSUME CountInv, stream' = stream, InTable' = InTable, Pending' = Pending
  PROVE  CountInv'
<1>1. \A a : OfAddr(InTable, a)' = OfAddr(InTable, a) /\ OfAddr(Pending, a)' = OfAddr(Pending, a)
  BY DEF OfAddr
<1>. QED
  BY <1>1 DEF CountInv

\* Steps of the clocks alone.
LEMMA ClockStep ==
  ASSUME IInv,
         UNCHANGED <<stream, addVars, age_queue, logic_clk_, reqVars, respVars,
                     resp_lookup_table_, in_vault, answered>>,
         pc' \in {"add", "responses", "dram", "requests"}, ahead' \in Nat,
         ahead' < ps_per_dram, pc' \in {"add", "dram"} => ahead' < ps_per_logic
  PROVE  IInv'
<1>1. /\ TypeInv /\ DepthInv /\ AgeMeansWaiting /\ RequestsInv /\ ResponsesInv /\ CountInv
  BY DEF IInv
<1>2. /\ UNCHANGED <<added, next_link_, link>>
      /\ UNCHANGED <<link_req_queues_, link_age_counter_, quad_req_queues_, quad_busy_>>
      /\ UNCHANGED <<quad_resp_queues_, quad_age_counter_, link_resp_queues_, link_busy_>>
  BY DEF addVars, reqVars, respVars
<1>3. TypeInv'
  BY <1>1, <1>2, SameTrans DEF TypeInv
<1>4. DepthInv'
  BY <1>1, <1>2 DEF DepthInv
<1>5. ClockInv'
  BY DEF ClockInv
<1>6. AgeMeansWaiting'
  BY <1>1, <1>2 DEF AgeMeansWaiting
<1>7. TurnsInv'
  BY DEF TurnsInv
<1>8. RequestsInv' /\ Pending' = Pending
  BY <1>1, <1>2, SameRequests
<1>9. ResponsesInv' /\ InTable' = InTable
  BY <1>1, <1>2, SameResponses
<1>10. CountInv'
  BY <1>1, <1>8, <1>9, SameCount
<1>. QED
  BY <1>3, <1>4, <1>5, <1>6, <1>7, <1>8, <1>9, <1>10 DEF IInv

\* ClockTick begins, with the logic or with the DRAM, whichever is behind.
LEMMA StartTickKeeps == IInv /\ StartTick => IInv'
<1>. SUFFICES ASSUME IInv, StartTick PROVE IInv'
  OBVIOUS
<1>1. ahead \in Nat /\ ahead < ps_per_dram /\ ahead < ps_per_logic
  BY DEF IInv, TypeInv, ClockInv, StartTick
<1>. QED
  BY <1>1, ClockStep DEF StartTick

\* The responses have had their turns.
LEMMA ResponsesDrainedKeeps == IInv /\ ResponsesDrained => IInv'
<1>. SUFFICES ASSUME IInv, ResponsesDrained PROVE IInv'
  OBVIOUS
<1>1. ahead \in Nat /\ ahead < ps_per_dram
  BY DEF IInv, TypeInv, ClockInv
<1>2. 0 < ps_per_logic
  BY ConstantsAre
<1>. QED
  BY <1>1, <1>2, ClockStep DEF ResponsesDrained

\* The vaults have had their tick.
LEMMA DRAMClockTickKeeps == IInv /\ DRAMClockTick => IInv'
<1>. SUFFICES ASSUME IInv, DRAMClockTick PROVE IInv'
  OBVIOUS
<1>1. ahead \in Nat /\ ahead < ps_per_dram
  BY DEF IInv, TypeInv, ClockInv
<1>2. pc' \in {"requests", "responses"} /\ ahead' = ahead
  BY <1>1 DEF DRAMClockTick, Loop
<1>. QED
  BY <1>1, <1>2, ClockStep DEF DRAMClockTick

-----------------------------------------------------------------------------
(* The crossbar.                                                           *)

\* Two flits less: no less than one too few.
LEMMA DrainXbarIs ==
  ASSUME NEW P, NEW busy \in [P -> Int], \A p \in P : busy[p] >= -1
  PROVE  DrainXbar(busy) \in [P -> Int] /\ \A p \in P : DrainXbar(busy)[p] >= -1
BY DEF DrainXbar

\* The least of two numbers.
LEMMA OlderIs ==
  ASSUME NEW a \in 0..MaxAge
  PROVE  Older(a) \in 1..MaxAge
<1>1. MaxAge \in Nat /\ MaxAge >= 4
  BY ConstantsAre
<1>2. \E x \in {a + 1, MaxAge} : \A y \in {a + 1, MaxAge} : x =< y
  BY <1>1
<1>3. Min({a + 1, MaxAge}) \in {a + 1, MaxAge}
      /\ \A y \in {a + 1, MaxAge} : Min({a + 1, MaxAge}) =< y
  BY <1>2 DEF Min
<1>. QED
  BY <1>1, <1>3 DEF Older

\* A port has an age behind its turn exactly if more packets wait.
LEMMA AgeAfterIs ==
  ASSUME NEW s
  PROVE  AgeAfter(s) \in 0..MaxAge /\ (AgeAfter(s) > 0 <=> s # <<>>)
BY ConstantsAre DEF AgeAfter

\* One first packet taken out.
OneLess(P, Q, R, p) ==
  /\ Head(Q[p]) \in Trans /\ Head(Q[p]) \in Members(Q)
  /\ \A r \in P : Len(R[r]) <= Len(Q[r])
  /\ Apart(Q) => Apart(R) /\ Members(R) = Members(Q) \ {Head(Q[p])}

\* One head taken off one queue.
LEMMA PopOne ==
  ASSUME NEW P, NEW Q \in [P -> Seq(Trans)], NEW p \in P, Q[p] # <<>>,
         NEW R \in [P -> Seq(Trans)], Popped(Q, R, {p})
  PROVE  OneLess(P, Q, R, p)
<1>1. PICK D : D = {p}
  OBVIOUS
<1>2. D \in SUBSET P /\ (\A r \in D : Q[r] # <<>>) /\ Popped(Q, R, D)
  BY <1>1
<1>3. /\ \A r \in D : Head(Q[r]) \in Trans /\ Head(Q[r]) \in Members(Q)
      /\ \A r \in P : Len(R[r]) <= Len(Q[r])
      /\ Apart(Q) => Apart(R) /\ Members(R) = Members(Q) \ {Head(Q[r]) : r \in D}
  BY <1>2, Pop
<1>4. {Head(Q[r]) : r \in D} = {Head(Q[p])}
  BY <1>1
<1>. QED
  BY <1>1, <1>3, <1>4 DEF OneLess

\* DrainResponses: those that are through their link go to the CPU.
LEMMA DrainResponsesKeeps == IInv /\ DrainResponses => IInv'
<1>. SUFFICES ASSUME IInv, DrainResponses PROVE IInv'
  OBVIOUS
<1>0. TypeInv /\ DepthInv /\ ClockInv /\ AgeMeansWaiting /\ RequestsInv /\ ResponsesInv /\ CountInv
  BY DEF IInv
<1>1. PICK leaving : leaving = {l \in Links : CanLeave(link_resp_queues_[l])}
  OBVIOUS
<1>2. /\ answered' = answered \cup {Head(link_resp_queues_[l]).trans : l \in leaving}
      /\ link_resp_queues_' = [l \in Links |-> IF l \in leaving
                                 THEN Tail(link_resp_queues_[l])
                                 ELSE link_resp_queues_[l]]
      /\ link_busy_' = DrainXbar(link_busy_)
      /\ age_queue' = BuildAgeQueue(quad_age_counter_, 4)
      /\ pc' = "quads to links"
  BY <1>1 DEF DrainResponses
<1>3. /\ UNCHANGED <<stream, added, next_link_, link, ahead, logic_clk_>>
      /\ UNCHANGED <<link_req_queues_, link_age_counter_, quad_req_queues_, quad_busy_>>
      /\ UNCHANGED <<quad_resp_queues_, quad_age_counter_, resp_lookup_table_, in_vault>>
  BY DEF DrainResponses, addVars, reqVars
<1>4. leaving \in SUBSET Links /\ \A l \in leaving : link_resp_queues_[l] # <<>>
  BY <1>1 DEF CanLeave
<1>5. link_resp_queues_ \in [Links -> Seq(Packets)]
  BY <1>0 DEF TypeInv
<1>6. link_resp_queues_' \in [Links -> Seq(Packets)]
  <2>1. \A l \in leaving : Tail(link_resp_queues_[l]) \in Seq(Packets)
    BY <1>4, <1>5, HeadTailProperties
  <2>. QED
    BY <1>2, <1>5, <2>1
<1>7. Popped(link_resp_queues_, link_resp_queues_', leaving)
  BY <1>2, <1>5 DEF Popped
<1>. DEFINE H == {Head(link_resp_queues_[l]).trans : l \in leaving}
<1>8. /\ \A l \in leaving : Head(link_resp_queues_[l]).trans \in Trans
      /\ \A l \in leaving : Head(link_resp_queues_[l]).trans \in Members(Names(link_resp_queues_))
      /\ \A l \in Links : Len(link_resp_queues_'[l]) <= Len(link_resp_queues_[l])
      /\ Apart(Names(link_resp_queues_)) =>
           /\ Apart(Names(link_resp_queues_'))
           /\ Members(Names(link_resp_queues_')) = Members(Names(link_resp_queues_)) \ H
  BY <1>4, <1>5, <1>6, <1>7, PopNames
<1>9. H \subseteq Trans /\ H \subseteq AtLink
  BY <1>8 DEF AtLink
<1>10. answered' = answered \cup H
  BY <1>2
<1>. HIDE DEF H
<1>11. link_busy_' \in [Links -> Int] /\ \A l \in Links : link_busy_'[l] >= -1
  BY <1>0, <1>2, DrainXbarIs DEF TypeInv, DepthInv
<1>12. answered' \subseteq Trans
  BY <1>0, <1>9, <1>10 DEF TypeInv
<1>13. TypeInv'
  BY <1>0, <1>2, <1>3, <1>6, <1>11, <1>12, SameTrans DEF TypeInv
<1>14. DepthInv'
  <2>1. \A l \in Links : Len(link_resp_queues_'[l]) <= xbar_queue_depth
    <3>1. \A l \in Links : /\ Len(link_resp_queues_'[l]) \in Nat /\ Len(link_resp_queues_[l]) \in Nat
                           /\ Len(link_resp_queues_[l]) <= xbar_queue_depth
      BY <1>0, <1>5, <1>6 DEF DepthInv
    <3>. QED
      BY <1>8, <3>1, ConstantsAre
  <2>. QED
    BY <1>0, <1>3, <1>11, <2>1 DEF DepthInv
<1>15. ClockInv'
  BY <1>0, <1>2, <1>3 DEF ClockInv
<1>16. AgeMeansWaiting'
  BY <1>0, <1>3 DEF AgeMeansWaiting
<1>17. TurnsInv'
  <2>1. quad_age_counter_ \in [0..(4 - 1) -> Nat] /\ logic_clk_ \in Nat
    <3>1. quad_age_counter_ \in [Quads -> 0..MaxAge] /\ logic_clk_ \in Nat
      BY <1>0 DEF TypeInv
    <3>2. Quads = 0..(4 - 1)
      BY DEF Quads
    <3>. QED
      BY <3>1, <3>2, ConstantsAre
  <2>2. Ordered(quad_age_counter_, BuildAgeQueue(quad_age_counter_, 4))
    <3>1. PICK n : n = 4
      OBVIOUS
    <3>2. n \in Nat \ {0} /\ quad_age_counter_ \in [0..(n - 1) -> Nat]
      BY <2>1, <3>1
    <3>3. Ordered(quad_age_counter_, BuildAgeQueue(quad_age_counter_, n))
      BY <2>1, <3>2, AgeQueueIs
    <3>. QED
      BY <3>1, <3>3
  <2>. QED
    BY <1>2, <1>3, <2>2 DEF TurnsInv
<1>18. RequestsInv' /\ Pending' = Pending
  BY <1>0, <1>3, SameRequests
<1>19. ResponsesInv' /\ InTable' = InTable
  <2>1. InTable' = InTable /\ AtQuad' = AtQuad
    BY <1>3 DEF InTable, AtQuad
  <2>2. AtLink' = AtLink \ H /\ Apart(Names(link_resp_queues_))'
    BY <1>0, <1>8 DEF AtLink, ResponsesInv
  <2>. QED
    BY <1>0, <1>3, <1>9, <1>10, <2>1, <2>2 DEF ResponsesInv
<1>20. CountInv'
  BY <1>0, <1>3, <1>18, <1>19, SameCount
<1>. QED
  BY <1>13, <1>14, <1>15, <1>16, <1>17, <1>18, <1>19, <1>20 DEF IInv
\* What remains of an order when its first port has had its turn, and only the
\* age of that port changed.
LEMMA NextTurn ==
  ASSUME NEW P, NEW age \in [P -> 0..MaxAge], NEW order, Ordered(age, order), order # <<>>,
         NEW new \in [P -> 0..MaxAge], \A p \in P \ {Head(order)} : new[p] = age[p]
  PROVE  Ordered(new, Tail(order))
<1>1. /\ order \in Seq(Nat) /\ Len(order) \in Nat
      /\ \A k \in 1..Len(order) : order[k] \in P /\ age[order[k]] > 0
      /\ \A j, k \in 1..Len(order) : order[j] = order[k] => j = k
  BY DEF Ordered
<1>2. PICK rest : rest = Tail(order)
  OBVIOUS
<1>3. /\ rest \in Seq(Nat) /\ Len(rest) = Len(order) - 1 /\ Head(order) = order[1]
      /\ 1 \in 1..Len(order)
      /\ \A k \in 1..Len(rest) : rest[k] = order[k + 1]
  BY <1>1, <1>2, HeadTailProperties
<1>4. \A k \in 1..Len(rest) : k + 1 \in 1..Len(order) /\ k + 1 # 1
  BY <1>1, <1>3
<1>5. ASSUME NEW k \in 1..Len(rest) PROVE rest[k] \in DOMAIN new /\ new[rest[k]] > 0
  <2>1. rest[k] = order[k + 1] /\ k + 1 \in 1..Len(order) /\ k + 1 # 1
    BY <1>3, <1>4
  <2>2. rest[k] \in P /\ age[rest[k]] > 0 /\ rest[k] # Head(order)
    BY <1>1, <1>3, <2>1
  <2>. QED
    BY <2>2
<1>6. ASSUME NEW j \in 1..Len(rest), NEW k \in 1..Len(rest), rest[j] = rest[k] PROVE j = k
  <2>1. /\ rest[j] = order[j + 1] /\ j + 1 \in 1..Len(order)
        /\ rest[k] = order[k + 1] /\ k + 1 \in 1..Len(order)
    BY <1>3, <1>4
  <2>2. j + 1 = k + 1
    BY <1>1, <1>6, <2>1
  <2>. QED
    BY <2>2
<1>. QED
  BY <1>2, <1>3, <1>5, <1>6 DEF Ordered

\* The first port of an order waits for its turn with a packet.
LEMMA FirstPort ==
  ASSUME NEW age, NEW order, Ordered(age, order), order # <<>>
  PROVE  Head(order) \in DOMAIN age /\ age[Head(order)] > 0
<1>1. /\ order \in Seq(Nat)
      /\ \A k \in 1..Len(order) : order[k] \in DOMAIN age /\ age[order[k]] > 0
  BY DEF Ordered
<1>2. Head(order) = order[1] /\ 1 \in 1..Len(order)
  BY <1>1
<1>. QED
  BY <1>1, <1>2

\* The turn of a quad: a packet goes from a quad to its link.
LEMMA QuadToLinkKeeps == IInv /\ QuadToLink => IInv'
<1>. SUFFICES ASSUME IInv, QuadToLink PROVE IInv'
  OBVIOUS
<1>0. TypeInv /\ DepthInv /\ ClockInv /\ AgeMeansWaiting /\ TurnsInv /\ RequestsInv /\ ResponsesInv /\ CountInv
  BY DEF IInv
<1>1. pc = "quads to links" /\ age_queue # <<>> /\ age_queue' = Tail(age_queue)
  BY DEF QuadToLink
<1>2. /\ UNCHANGED <<stream, added, next_link_, link, pc, ahead, logic_clk_>>
      /\ UNCHANGED <<link_req_queues_, link_age_counter_, quad_req_queues_, quad_busy_>>
      /\ UNCHANGED <<resp_lookup_table_, in_vault, answered>>
  BY DEF QuadToLink, addVars, reqVars
<1>3. PICK q, t : q = Head(age_queue) /\ t = Head(quad_resp_queues_[q])
  OBVIOUS
<1>4. \/ /\ HasRoom(link_resp_queues_, link_busy_, link[t])
         /\ quad_resp_queues_' = [quad_resp_queues_ EXCEPT ![q] = Tail(@)]
         /\ quad_age_counter_' =
              [quad_age_counter_ EXCEPT ![q] = AgeAfter(Tail(quad_resp_queues_[q]))]
         /\ link_resp_queues_' = [link_resp_queues_ EXCEPT
              ![link[t]] = Append(@, Packet(t, RespFlits(t)))]
         /\ link_busy_' = [link_busy_ EXCEPT ![link[t]] = RespFlits(t)]
      \/ /\ quad_age_counter_' = [quad_age_counter_ EXCEPT ![q] = Older(@)]
         /\ UNCHANGED <<quad_resp_queues_, link_resp_queues_, link_busy_>>
  BY <1>3 DEF QuadToLink
<1>5. /\ quad_age_counter_ \in [Quads -> 0..MaxAge] /\ quad_resp_queues_ \in [Quads -> Seq(Trans)]
      /\ link_resp_queues_ \in [Links -> Seq(Packets)] /\ link_busy_ \in [Links -> Int]
      /\ link \in [Trans -> Links]
  BY <1>0 DEF TypeInv
<1>6. Ordered(quad_age_counter_, age_queue)
  BY <1>0, <1>1 DEF TurnsInv
<1>7. q \in Quads /\ quad_age_counter_[q] > 0
  BY <1>1, <1>3, <1>5, <1>6, FirstPort
<1>8. quad_resp_queues_[q] # <<>>
  BY <1>0, <1>7 DEF AgeMeansWaiting
<1>9. RequestsInv' /\ Pending' = Pending
  BY <1>0, <1>2, SameRequests
<1>10. ClockInv'
  BY <1>0, <1>2 DEF ClockInv
<1>11. ASSUME quad_age_counter_' \in [Quads -> 0..MaxAge],
              \A p \in Quads \ {q} : quad_age_counter_'[p] = quad_age_counter_[p]
       PROVE  TurnsInv'
  <2>1. Ordered(quad_age_counter_', Tail(age_queue))
    BY <1>1, <1>3, <1>5, <1>6, <1>11, NextTurn
  <2>. QED
    BY <1>1, <1>2, <2>1 DEF TurnsInv
<1>12. CASE /\ HasRoom(link_resp_queues_, link_busy_, link[t])
            /\ quad_resp_queues_' = [quad_resp_queues_ EXCEPT ![q] = Tail(@)]
            /\ quad_age_counter_' =
                 [quad_age_counter_ EXCEPT ![q] = AgeAfter(Tail(quad_resp_queues_[q]))]
            /\ link_resp_queues_' = [link_resp_queues_ EXCEPT
                 ![link[t]] = Append(@, Packet(t, RespFlits(t)))]
            /\ link_busy_' = [link_busy_ EXCEPT ![link[t]] = RespFlits(t)]
  <2>1. quad_resp_queues_[q] \in Seq(Trans)
    BY <1>5, <1>7
  <2>2. t \in Trans /\ Tail(quad_resp_queues_[q]) \in Seq(Trans)
    BY <1>3, <1>8, <2>1, HeadTailProperties
  <2>3. link[t] \in Links /\ RespFlits(t) \in Nat
    BY <1>0, <1>5, <2>2, StreamIs
  <2>4. Packet(t, RespFlits(t)) \in Packets /\ Packet(t, RespFlits(t)).trans = t
    BY <2>2, <2>3 DEF Packet, Packets
  <2>5. /\ quad_resp_queues_' \in [Quads -> Seq(Trans)]
        /\ Popped(quad_resp_queues_, quad_resp_queues_', {q})
        /\ quad_resp_queues_'[q] = Tail(quad_resp_queues_[q])
        /\ \A p \in Quads \ {q} : quad_resp_queues_'[p] = quad_resp_queues_[p]
    BY <1>5, <1>7, <1>12, <2>2 DEF Popped
  <2>6. /\ t \in Members(quad_resp_queues_)
        /\ Apart(quad_resp_queues_) =>
             /\ Apart(quad_resp_queues_')
             /\ Members(quad_resp_queues_') = Members(quad_resp_queues_) \ {t}
    <3>1. OneLess(Quads, quad_resp_queues_, quad_resp_queues_', q)
      BY <1>5, <1>7, <1>8, <2>5, PopOne
    <3>. QED
      BY <1>3, <3>1 DEF OneLess
  <2>0. PICK k, d : k = Packet(t, RespFlits(t)) /\ d = link[t]
    OBVIOUS
  <2>7. k \in Packets /\ k.trans = t /\ d \in Links
    BY <2>0, <2>3, <2>4
  <2>8. /\ link_resp_queues_' = [link_resp_queues_ EXCEPT ![d] = Append(@, k)]
        /\ link_busy_' = [link_busy_ EXCEPT ![d] = RespFlits(t)]
        /\ HasRoom(link_resp_queues_, link_busy_, d)
    BY <1>12, <2>0
  <2>9. /\ link_resp_queues_' \in [Links -> Seq(Packets)]
        /\ Pushed(link_resp_queues_, link_resp_queues_', d, k)
        /\ Len(link_resp_queues_'[d]) = Len(link_resp_queues_[d]) + 1
        /\ \A l \in Links \ {d} : link_resp_queues_'[l] = link_resp_queues_[l]
    BY <1>5, <2>7, <2>8 DEF Pushed
  <2>10. /\ Members(Names(link_resp_queues_')) = Members(Names(link_resp_queues_)) \cup {t}
         /\ Apart(Names(link_resp_queues_)) /\ t \notin Members(Names(link_resp_queues_))
              => Apart(Names(link_resp_queues_'))
    <3>1. /\ Members(Names(link_resp_queues_')) = Members(Names(link_resp_queues_)) \cup {k.trans}
          /\ Apart(Names(link_resp_queues_)) /\ k.trans \notin Members(Names(link_resp_queues_))
               => Apart(Names(link_resp_queues_'))
      BY <1>5, <2>7, <2>9, PushNames
    <3>. QED
      BY <2>7, <3>1
  <2>11. /\ link_busy_' \in [Links -> Int] /\ link_busy_'[d] >= -1
         /\ \A l \in Links \ {d} : link_busy_'[l] = link_busy_[l]
    BY <1>5, <2>3, <2>7, <2>8
  <2>12. /\ quad_age_counter_' \in [Quads -> 0..MaxAge]
         /\ quad_age_counter_'[q] > 0 <=> quad_resp_queues_'[q] # <<>>
         /\ \A p \in Quads \ {q} : quad_age_counter_'[p] = quad_age_counter_[p]
    <3>1. PICK a : a = AgeAfter(Tail(quad_resp_queues_[q]))
      OBVIOUS
    <3>2. a \in 0..MaxAge /\ (a > 0 <=> quad_resp_queues_'[q] # <<>>)
      BY <2>5, <3>1, AgeAfterIs
    <3>3. quad_age_counter_' = [quad_age_counter_ EXCEPT ![q] = a]
      BY <1>12, <3>1
    <3>. QED
      BY <1>5, <1>7, <3>2, <3>3
  <2>13. TypeInv'
    BY <1>0, <1>2, <2>5, <2>9, <2>11, <2>12, SameTrans DEF TypeInv
  <2>14. DepthInv'
    <3>1. Len(link_resp_queues_[d]) < xbar_queue_depth /\ Len(link_resp_queues_[d]) \in Nat
      BY <1>5, <2>7, <2>8 DEF HasRoom
    <3>2. Len(link_resp_queues_'[d]) <= xbar_queue_depth
      BY <2>9, <3>1, ConstantsAre
    <3>3. \A l \in Links : Len(link_resp_queues_'[l]) <= xbar_queue_depth /\ link_busy_'[l] >= -1
      BY <1>0, <2>9, <2>11, <3>2 DEF DepthInv
    <3>. QED
      BY <1>0, <1>2, <3>3 DEF DepthInv
  <2>15. AgeMeansWaiting'
    BY <1>0, <1>2, <2>5, <2>12 DEF AgeMeansWaiting
  <2>16. TurnsInv'
    BY <1>11, <2>12
  <2>17. ResponsesInv' /\ InTable' = InTable
    <3>1. InTable' = InTable
      BY <1>2 DEF InTable
    <3>2. t \in AtQuad /\ AtQuad' = AtQuad \ {t} /\ Apart(quad_resp_queues_)'
      BY <1>0, <2>6 DEF AtQuad, ResponsesInv
    <3>3. t \notin AtLink
      BY <1>0, <3>2 DEF ResponsesInv
    <3>4. AtLink' = AtLink \cup {t} /\ Apart(Names(link_resp_queues_))'
      BY <1>0, <2>10, <3>3 DEF AtLink, ResponsesInv
    <3>. QED
      BY <1>0, <1>2, <3>1, <3>2, <3>3, <3>4 DEF ResponsesInv
  <2>18. CountInv'
    BY <1>0, <1>2, <1>9, <2>17, SameCount
  <2>. QED
    BY <1>9, <1>10, <2>13, <2>14, <2>15, <2>16, <2>17, <2>18 DEF IInv
<1>13. CASE /\ quad_age_counter_' = [quad_age_counter_ EXCEPT ![q] = Older(@)]
            /\ UNCHANGED <<quad_resp_queues_, link_resp_queues_, link_busy_>>
  <2>1. Older(quad_age_counter_[q]) \in 1..MaxAge
    BY <1>5, <1>7, OlderIs
  <2>2. /\ quad_age_counter_' \in [Quads -> 0..MaxAge] /\ quad_age_counter_'[q] > 0
        /\ \A p \in Quads \ {q} : quad_age_counter_'[p] = quad_age_counter_[p]
    BY <1>5, <1>7, <1>13, <2>1, ConstantsAre
  <2>3. TypeInv'
    BY <1>0, <1>2, <1>13, <2>2, SameTrans DEF TypeInv
  <2>4. DepthInv'
    BY <1>0, <1>2, <1>13 DEF DepthInv
  <2>5. AgeMeansWaiting'
    BY <1>0, <1>2, <1>8, <1>13, <2>2 DEF AgeMeansWaiting
  <2>6. TurnsInv'
    BY <1>11, <2>2
  <2>7. ResponsesInv' /\ InTable' = InTable
    BY <1>0, <1>2, <1>13, SameResponses
  <2>8. CountInv'
    BY <1>0, <1>2, <1>9, <2>7, SameCount
  <2>. QED
    BY <1>9, <1>10, <2>3, <2>4, <2>5, <2>6, <2>7, <2>8 DEF IInv
<1>. QED
  BY <1>4, <1>12, <1>13

\* DrainRequests: those that are through their quad go to their vaults.
LEMMA DrainRequestsKeeps ==
  ASSUME IInv, NEW taken \in SUBSET Ready, DrainRequests(taken)
  PROVE  IInv'
<1>0. TypeInv /\ DepthInv /\ ClockInv /\ AgeMeansWaiting /\ RequestsInv /\ ResponsesInv /\ CountInv
  BY DEF IInv
<1>. DEFINE H == {Head(quad_req_queues_[q]).trans : q \in taken}
<1>2. /\ in_vault' = in_vault \cup H
      /\ quad_req_queues_' = [q \in Quads |-> IF q \in taken
                                THEN Tail(quad_req_queues_[q]) ELSE quad_req_queues_[q]]
      /\ quad_busy_' = DrainXbar(quad_busy_)
      /\ age_queue' = BuildAgeQueue(link_age_counter_, num_links)
      /\ pc' = "links to quads" /\ pc = "requests"
  BY DEF DrainRequests
<1>3. /\ UNCHANGED <<stream, added, next_link_, link, ahead, logic_clk_>>
      /\ UNCHANGED <<link_req_queues_, link_age_counter_, resp_lookup_table_, answered>>
      /\ UNCHANGED <<quad_resp_queues_, quad_age_counter_, link_resp_queues_, link_busy_>>
  BY DEF DrainRequests, addVars, respVars
<1>4. taken \in SUBSET Quads /\ \A q \in taken : quad_req_queues_[q] # <<>>
  BY DEF Ready, CanLeave
<1>5. quad_req_queues_ \in [Quads -> Seq(Packets)]
  BY <1>0 DEF TypeInv
<1>6. quad_req_queues_' \in [Quads -> Seq(Packets)]
  <2>1. \A q \in taken : Tail(quad_req_queues_[q]) \in Seq(Packets)
    BY <1>4, <1>5, HeadTailProperties
  <2>. QED
    BY <1>2, <1>5, <2>1
<1>7. Popped(quad_req_queues_, quad_req_queues_', taken)
  BY <1>2, <1>5 DEF Popped
<1>8. /\ \A q \in taken : Head(quad_req_queues_[q]).trans \in Trans
      /\ \A q \in taken : Head(quad_req_queues_[q]).trans \in Members(Names(quad_req_queues_))
      /\ \A q \in Quads : Len(quad_req_queues_'[q]) <= Len(quad_req_queues_[q])
      /\ Apart(Names(quad_req_queues_)) =>
           /\ Apart(Names(quad_req_queues_'))
           /\ Members(Names(quad_req_queues_')) = Members(Names(quad_req_queues_)) \ H
  BY <1>4, <1>5, <1>6, <1>7, PopNames
<1>9. H \subseteq Trans /\ H \subseteq Sent
  BY <1>8 DEF Sent
<1>. HIDE DEF H
<1>11. quad_busy_' \in [Quads -> Int] /\ \A q \in Quads : quad_busy_'[q] >= -1
  BY <1>0, <1>2, DrainXbarIs DEF TypeInv, DepthInv
<1>12. in_vault' \subseteq Trans
  BY <1>0, <1>2, <1>9 DEF TypeInv
<1>13. TypeInv'
  BY <1>0, <1>2, <1>3, <1>6, <1>11, <1>12, SameTrans DEF TypeInv
<1>14. DepthInv'
  <2>1. \A q \in Quads : Len(quad_req_queues_'[q]) <= xbar_queue_depth
    <3>1. \A q \in Quads : /\ Len(quad_req_queues_'[q]) \in Nat /\ Len(quad_req_queues_[q]) \in Nat
                           /\ Len(quad_req_queues_[q]) <= xbar_queue_depth
      BY <1>0, <1>5, <1>6 DEF DepthInv
    <3>. QED
      BY <1>8, <3>1, ConstantsAre
  <2>. QED
    BY <1>0, <1>3, <1>11, <2>1 DEF DepthInv
<1>15. ClockInv'
  BY <1>0, <1>2, <1>3 DEF ClockInv
<1>16. AgeMeansWaiting'
  BY <1>0, <1>3 DEF AgeMeansWaiting
<1>17. TurnsInv'
  <2>1. /\ num_links \in Nat \ {0} /\ link_age_counter_ \in [0..(num_links - 1) -> Nat]
        /\ logic_clk_ \in Nat
    <3>1. link_age_counter_ \in [Links -> 0..MaxAge] /\ logic_clk_ \in Nat
      BY <1>0 DEF TypeInv
    <3>. QED
      BY <3>1, ConstantsAre DEF Links
  <2>2. Ordered(link_age_counter_, BuildAgeQueue(link_age_counter_, num_links))
    BY <2>1, AgeQueueIs
  <2>. QED
    BY <1>2, <1>3, <2>2 DEF TurnsInv
<1>18. RequestsInv' /\ Pending' = Pending
  <2>1. Asked' = Asked
    BY <1>3 DEF Asked
  <2>2. Sent' = Sent \ H /\ Apart(Names(quad_req_queues_))'
    BY <1>0, <1>8 DEF Sent, RequestsInv
  <2>3. Pending' = Pending
    BY <1>2, <1>9, <2>1, <2>2 DEF Pending
  <2>. QED
    BY <1>0, <1>2, <1>3, <1>9, <2>1, <2>2, <2>3 DEF RequestsInv
<1>19. ResponsesInv' /\ InTable' = InTable
  BY <1>0, <1>3, SameResponses
<1>20. CountInv'
  BY <1>0, <1>3, <1>18, <1>19, SameCount
<1>. QED
  BY <1>13, <1>14, <1>15, <1>16, <1>17, <1>18, <1>19, <1>20 DEF IInv

\* The turn of a link: a packet goes from a link to its quad.
LEMMA LinkToQuadKeeps == IInv /\ LinkToQuad => IInv'
<1>. SUFFICES ASSUME IInv, LinkToQuad PROVE IInv'
  OBVIOUS
<1>0. TypeInv /\ DepthInv /\ ClockInv /\ AgeMeansWaiting /\ TurnsInv /\ RequestsInv /\ ResponsesInv /\ CountInv
  BY DEF IInv
<1>1. pc = "links to quads" /\ age_queue # <<>> /\ age_queue' = Tail(age_queue)
  BY DEF LinkToQuad
<1>2. /\ UNCHANGED <<stream, added, next_link_, link, pc, ahead, logic_clk_>>
      /\ UNCHANGED <<quad_resp_queues_, quad_age_counter_, link_resp_queues_, link_busy_>>
      /\ UNCHANGED <<resp_lookup_table_, in_vault, answered>>
  BY DEF LinkToQuad, addVars, respVars
<1>3. PICK l, t : l = Head(age_queue) /\ t = Head(link_req_queues_[l])
  OBVIOUS
<1>4. \/ /\ HasRoom(quad_req_queues_, quad_busy_, Quad(t))
         /\ link_req_queues_' = [link_req_queues_ EXCEPT ![l] = Tail(@)]
         /\ link_age_counter_' =
              [link_age_counter_ EXCEPT ![l] = AgeAfter(Tail(link_req_queues_[l]))]
         /\ quad_req_queues_' = [quad_req_queues_ EXCEPT
              ![Quad(t)] = Append(@, Packet(t, ReqFlits(t)))]
         /\ quad_busy_' = [quad_busy_ EXCEPT ![Quad(t)] = ReqFlits(t)]
      \/ /\ link_age_counter_' = [link_age_counter_ EXCEPT ![l] = Older(@)]
         /\ UNCHANGED <<link_req_queues_, quad_req_queues_, quad_busy_>>
  BY <1>3 DEF LinkToQuad
<1>5. /\ link_age_counter_ \in [Links -> 0..MaxAge] /\ link_req_queues_ \in [Links -> Seq(Trans)]
      /\ quad_req_queues_ \in [Quads -> Seq(Packets)] /\ quad_busy_ \in [Quads -> Int]
  BY <1>0 DEF TypeInv
<1>6. Ordered(link_age_counter_, age_queue)
  BY <1>0, <1>1 DEF TurnsInv
<1>7. l \in Links /\ link_age_counter_[l] > 0
  BY <1>1, <1>3, <1>5, <1>6, FirstPort
<1>8. link_req_queues_[l] # <<>>
  BY <1>0, <1>7 DEF AgeMeansWaiting
<1>9. ResponsesInv' /\ InTable' = InTable
  BY <1>0, <1>2, SameResponses
<1>10. ClockInv'
  BY <1>0, <1>2 DEF ClockInv
<1>11. ASSUME link_age_counter_' \in [Links -> 0..MaxAge],
              \A p \in Links \ {l} : link_age_counter_'[p] = link_age_counter_[p]
       PROVE  TurnsInv'
  <2>1. Ordered(link_age_counter_', Tail(age_queue))
    BY <1>1, <1>3, <1>5, <1>6, <1>11, NextTurn
  <2>. QED
    BY <1>1, <1>2, <2>1 DEF TurnsInv
<1>12. CASE /\ HasRoom(quad_req_queues_, quad_busy_, Quad(t))
            /\ link_req_queues_' = [link_req_queues_ EXCEPT ![l] = Tail(@)]
            /\ link_age_counter_' =
                 [link_age_counter_ EXCEPT ![l] = AgeAfter(Tail(link_req_queues_[l]))]
            /\ quad_req_queues_' = [quad_req_queues_ EXCEPT
                 ![Quad(t)] = Append(@, Packet(t, ReqFlits(t)))]
            /\ quad_busy_' = [quad_busy_ EXCEPT ![Quad(t)] = ReqFlits(t)]
  <2>1. link_req_queues_[l] \in Seq(Trans)
    BY <1>5, <1>7
  <2>2. t \in Trans /\ Tail(link_req_queues_[l]) \in Seq(Trans)
    BY <1>3, <1>8, <2>1, HeadTailProperties
  <2>3. Quad(t) \in Quads /\ ReqFlits(t) \in Nat
    BY <1>0, <2>2, StreamIs
  <2>4. Packet(t, ReqFlits(t)) \in Packets /\ Packet(t, ReqFlits(t)).trans = t
    BY <2>2, <2>3 DEF Packet, Packets
  <2>5. /\ link_req_queues_' \in [Links -> Seq(Trans)]
        /\ Popped(link_req_queues_, link_req_queues_', {l})
        /\ link_req_queues_'[l] = Tail(link_req_queues_[l])
        /\ \A p \in Links \ {l} : link_req_queues_'[p] = link_req_queues_[p]
    BY <1>5, <1>7, <1>12, <2>2 DEF Popped
  <2>6. /\ t \in Members(link_req_queues_)
        /\ \A p \in Links : Len(link_req_queues_'[p]) <= Len(link_req_queues_[p])
        /\ Apart(link_req_queues_) =>
             /\ Apart(link_req_queues_')
             /\ Members(link_req_queues_') = Members(link_req_queues_) \ {t}
    <3>1. OneLess(Links, link_req_queues_, link_req_queues_', l)
      BY <1>5, <1>7, <1>8, <2>5, PopOne
    <3>. QED
      BY <1>3, <3>1 DEF OneLess
  <2>0. PICK k, d : k = Packet(t, ReqFlits(t)) /\ d = Quad(t)
    OBVIOUS
  <2>7. k \in Packets /\ k.trans = t /\ d \in Quads
    BY <2>0, <2>3, <2>4
  <2>8. /\ quad_req_queues_' = [quad_req_queues_ EXCEPT ![d] = Append(@, k)]
        /\ quad_busy_' = [quad_busy_ EXCEPT ![d] = ReqFlits(t)]
        /\ HasRoom(quad_req_queues_, quad_busy_, d)
    BY <1>12, <2>0
  <2>9. /\ quad_req_queues_' \in [Quads -> Seq(Packets)]
        /\ Pushed(quad_req_queues_, quad_req_queues_', d, k)
        /\ Len(quad_req_queues_'[d]) = Len(quad_req_queues_[d]) + 1
        /\ \A p \in Quads \ {d} : quad_req_queues_'[p] = quad_req_queues_[p]
    BY <1>5, <2>7, <2>8 DEF Pushed
  <2>10. /\ Members(Names(quad_req_queues_')) = Members(Names(quad_req_queues_)) \cup {t}
         /\ Apart(Names(quad_req_queues_)) /\ t \notin Members(Names(quad_req_queues_))
              => Apart(Names(quad_req_queues_'))
    <3>1. /\ Members(Names(quad_req_queues_')) = Members(Names(quad_req_queues_)) \cup {k.trans}
          /\ Apart(Names(quad_req_queues_)) /\ k.trans \notin Members(Names(quad_req_queues_))
               => Apart(Names(quad_req_queues_'))
      BY <1>5, <2>7, <2>9, PushNames
    <3>. QED
      BY <2>7, <3>1
  <2>11. /\ quad_busy_' \in [Quads -> Int] /\ quad_busy_'[d] >= -1
         /\ \A p \in Quads \ {d} : quad_busy_'[p] = quad_busy_[p]
    BY <1>5, <2>3, <2>7, <2>8
  <2>12. /\ link_age_counter_' \in [Links -> 0..MaxAge]
         /\ link_age_counter_'[l] > 0 <=> link_req_queues_'[l] # <<>>
         /\ \A p \in Links \ {l} : link_age_counter_'[p] = link_age_counter_[p]
    <3>1. PICK a : a = AgeAfter(Tail(link_req_queues_[l]))
      OBVIOUS
    <3>2. a \in 0..MaxAge /\ (a > 0 <=> link_req_queues_'[l] # <<>>)
      BY <2>5, <3>1, AgeAfterIs
    <3>3. link_age_counter_' = [link_age_counter_ EXCEPT ![l] = a]
      BY <1>12, <3>1
    <3>. QED
      BY <1>5, <1>7, <3>2, <3>3
  <2>13. TypeInv'
    BY <1>0, <1>2, <2>5, <2>9, <2>11, <2>12, SameTrans DEF TypeInv
  <2>14. DepthInv'
    <3>1. Len(quad_req_queues_[d]) < xbar_queue_depth /\ Len(quad_req_queues_[d]) \in Nat
      BY <1>5, <2>7, <2>8 DEF HasRoom
    <3>2. Len(quad_req_queues_'[d]) <= xbar_queue_depth
      BY <2>9, <3>1, ConstantsAre
    <3>3. \A q \in Quads : Len(quad_req_queues_'[q]) <= xbar_queue_depth /\ quad_busy_'[q] >= -1
      BY <1>0, <2>9, <2>11, <3>2 DEF DepthInv
    <3>4. \A p \in Links : Len(link_req_queues_'[p]) <= xbar_queue_depth
      <4>1. \A p \in Links : /\ Len(link_req_queues_'[p]) \in Nat /\ Len(link_req_queues_[p]) \in Nat
                             /\ Len(link_req_queues_[p]) <= xbar_queue_depth
        BY <1>0, <1>5, <2>5 DEF DepthInv
      <4>. QED
        BY <2>6, <4>1, ConstantsAre
    <3>. QED
      BY <1>0, <1>2, <3>3, <3>4 DEF DepthInv
  <2>15. AgeMeansWaiting'
    BY <1>0, <1>2, <2>5, <2>12 DEF AgeMeansWaiting
  <2>16. TurnsInv'
    BY <1>11, <2>12
  <2>17. RequestsInv' /\ Pending' = Pending
    <3>2. t \in Asked /\ Asked' = Asked \ {t} /\ Apart(link_req_queues_)'
      BY <1>0, <2>6 DEF Asked, RequestsInv
    <3>3. t \notin Sent
      BY <1>0, <3>2 DEF RequestsInv
    <3>4. Sent' = Sent \cup {t} /\ Apart(Names(quad_req_queues_))'
      BY <1>0, <2>10, <3>3 DEF Sent, RequestsInv
    <3>5. Pending' = Pending
      BY <1>2, <3>2, <3>4 DEF Pending
    <3>. QED
      BY <1>0, <1>2, <3>2, <3>3, <3>4, <3>5 DEF RequestsInv
  <2>18. CountInv'
    BY <1>0, <1>2, <1>9, <2>17, SameCount
  <2>. QED
    BY <1>9, <1>10, <2>13, <2>14, <2>15, <2>16, <2>17, <2>18 DEF IInv
<1>13. CASE /\ link_age_counter_' = [link_age_counter_ EXCEPT ![l] = Older(@)]
            /\ UNCHANGED <<link_req_queues_, quad_req_queues_, quad_busy_>>
  <2>1. Older(link_age_counter_[l]) \in 1..MaxAge
    BY <1>5, <1>7, OlderIs
  <2>2. /\ link_age_counter_' \in [Links -> 0..MaxAge] /\ link_age_counter_'[l] > 0
        /\ \A p \in Links \ {l} : link_age_counter_'[p] = link_age_counter_[p]
    BY <1>5, <1>7, <1>13, <2>1, ConstantsAre
  <2>3. TypeInv'
    BY <1>0, <1>2, <1>13, <2>2, SameTrans DEF TypeInv
  <2>4. DepthInv'
    BY <1>0, <1>2, <1>13 DEF DepthInv
  <2>5. AgeMeansWaiting'
    BY <1>0, <1>2, <1>8, <1>13, <2>2 DEF AgeMeansWaiting
  <2>6. TurnsInv'
    BY <1>11, <2>2
  <2>7. RequestsInv' /\ Pending' = Pending
    BY <1>0, <1>2, <1>13, SameRequests
  <2>8. CountInv'
    BY <1>0, <1>2, <1>9, <2>7, SameCount
  <2>. QED
    BY <1>9, <1>10, <2>3, <2>4, <2>5, <2>6, <2>7, <2>8 DEF IInv
<1>. QED
  BY <1>4, <1>12, <1>13

\* The requests have had theirs: a cycle of the logic is over, and all are a flit nearer.
LEMMA RequestsDrainedKeeps == IInv /\ RequestsDrained => IInv'
<1>. SUFFICES ASSUME IInv, RequestsDrained PROVE IInv'
  OBVIOUS
<1>0. TypeInv /\ DepthInv /\ ClockInv /\ AgeMeansWaiting /\ RequestsInv /\ ResponsesInv /\ CountInv
  BY DEF IInv
<1>1. /\ quad_req_queues_' = Nearer(quad_req_queues_)
      /\ link_resp_queues_' = Nearer(link_resp_queues_)
      /\ logic_clk_' = (logic_clk_ + 1) % (4 * num_links)
      /\ Loop(ahead + ps_per_logic)
  BY DEF RequestsDrained
<1>2. /\ UNCHANGED <<stream, added, next_link_, link, age_queue>>
      /\ UNCHANGED <<link_req_queues_, link_age_counter_, quad_busy_>>
      /\ UNCHANGED <<quad_resp_queues_, quad_age_counter_, link_busy_>>
      /\ UNCHANGED <<resp_lookup_table_, in_vault, answered>>
  BY DEF RequestsDrained, addVars
<1>3. quad_req_queues_ \in [Quads -> Seq(Packets)] /\ link_resp_queues_ \in [Links -> Seq(Packets)]
  BY <1>0 DEF TypeInv
<1>4. /\ quad_req_queues_' \in [Quads -> Seq(Packets)]
      /\ Names(quad_req_queues_') = Names(quad_req_queues_)
      /\ \A q \in Quads : Len(quad_req_queues_'[q]) = Len(quad_req_queues_[q])
  BY <1>1, <1>3, NearerNames
<1>5. /\ link_resp_queues_' \in [Links -> Seq(Packets)]
      /\ Names(link_resp_queues_') = Names(link_resp_queues_)
      /\ \A l \in Links : Len(link_resp_queues_'[l]) = Len(link_resp_queues_[l])
  BY <1>1, <1>3, NearerNames
<1>6. logic_clk_' \in Nat
  <2>1. PICK n : n = 4 * num_links
    OBVIOUS
  <2>2. n \in Nat \ {0} /\ logic_clk_ + 1 \in Nat
    <3>1. n \in Nat \ {0}
      BY <2>1, ConstantsAre
    <3>2. logic_clk_ \in Nat
      BY <1>0 DEF TypeInv
    <3>. QED
      BY <3>1, <3>2
  <2>3. logic_clk_' = (logic_clk_ + 1) % n
    BY <1>1, <2>1
  <2>. QED
    BY <2>2, <2>3
<1>7. /\ pc' \in {"responses", "add"} /\ ahead' \in Nat /\ ahead' < ps_per_dram
      /\ pc' = "add" => ahead' < ps_per_logic
  <2>1. ahead \in Nat /\ ahead < ps_per_dram
    BY <1>0 DEF TypeInv, ClockInv
  <2>. QED
    BY <1>1, <2>1, ConstantsAre DEF Loop
<1>8. TypeInv'
  BY <1>0, <1>2, <1>4, <1>5, <1>6, <1>7, SameTrans DEF TypeInv
<1>9. DepthInv'
  BY <1>0, <1>2, <1>4, <1>5 DEF DepthInv
<1>10. ClockInv'
  BY <1>7 DEF ClockInv
<1>11. AgeMeansWaiting'
  BY <1>0, <1>2 DEF AgeMeansWaiting
<1>12. TurnsInv'
  BY <1>7 DEF TurnsInv
<1>13. RequestsInv' /\ Pending' = Pending
  BY <1>0, <1>2, <1>4 DEF RequestsInv, Pending, Asked, Sent
<1>14. ResponsesInv' /\ InTable' = InTable
  BY <1>0, <1>2, <1>5 DEF ResponsesInv, InTable, AtQuad, AtLink
<1>15. CountInv'
  BY <1>0, <1>2, <1>13, <1>14, SameCount
<1>. QED
  BY <1>8, <1>9, <1>10, <1>11, <1>12, <1>13, <1>14, <1>15 DEF IInv
-----------------------------------------------------------------------------
(* The table of responses, and what is counted.                            *)

\* A response put into the table, and taken out of it.
LEMMA TablePut ==
  ASSUME NEW s \in Seq(Trans), NEW t \in Trans, Once(s), t \notin Entries(s)
  PROVE  /\ Append(s, t) \in Seq(Trans) /\ Once(Append(s, t))
         /\ Entries(Append(s, t)) = Entries(s) \cup {t}
<1>0. PICK r : r = Append(s, t)
  OBVIOUS
<1>1. /\ r \in Seq(Trans) /\ Len(r) = Len(s) + 1 /\ r[Len(s) + 1] = t /\ Len(s) \in Nat
      /\ \A j \in 1..Len(s) : r[j] = s[j]
  BY <1>0, AppendIs
<1>2. \A j \in 1..Len(r) : j \in 1..Len(s) \/ j = Len(s) + 1
  BY <1>1
<1>3. \A j \in 1..Len(s) : s[j] # t /\ j \in 1..Len(r)
  BY <1>1 DEF Entries
<1>4. Len(s) + 1 \in 1..Len(r)
  BY <1>1
<1>5. Once(r)
  BY <1>1, <1>2, <1>3 DEF Once
<1>6. Entries(r) = Entries(s) \cup {t}
  <2>1. ASSUME NEW x \in Entries(r) PROVE x \in Entries(s) \cup {t}
    BY <1>1, <1>2 DEF Entries
  <2>2. ASSUME NEW x \in Entries(s) PROVE x \in Entries(r)
    <3>1. PICK j \in 1..Len(s) : x = s[j]
      BY DEF Entries
    <3>2. j \in 1..Len(r) /\ x = r[j]
      BY <1>1, <1>3, <3>1
    <3>. QED
      BY <3>2 DEF Entries
  <2>3. t \in Entries(r)
    BY <1>1, <1>4 DEF Entries
  <2>. QED
    BY <2>1, <2>2, <2>3
<1>. QED
  BY <1>0, <1>1, <1>5, <1>6

\* An entry taken out of the table is in it no more; all others are.
LEMMA TableTake ==
  ASSUME NEW s \in Seq(Trans), NEW i \in 1..Len(s), Once(s)
  PROVE  /\ RemoveAt(s, i) \in Seq(Trans) /\ Once(RemoveAt(s, i))
         /\ Entries(RemoveAt(s, i)) = Entries(s) \ {s[i]}
<1>0. PICK r : r = RemoveAt(s, i)
  OBVIOUS
<1>. DEFINE a == SubSeq(s, 1, i - 1)
            b == SubSeq(s, i + 1, Len(s))
            from(j) == IF j < i THEN j ELSE j + 1
<1>1. a \in Seq(Trans) /\ Len(a) = i - 1 /\ \A j \in 1..(i - 1) : a[j] = s[j]
  OBVIOUS
<1>2. b \in Seq(Trans) /\ Len(b) = Len(s) - i /\ \A j \in 1..(Len(s) - i) : b[j] = s[i + j]
  OBVIOUS
<1>3. r = a \o b
  BY <1>0 DEF RemoveAt
<1>. HIDE DEF a, b
<1>4. /\ r \in Seq(Trans) /\ Len(r) = Len(a) + Len(b)
  BY <1>1, <1>2, <1>3, ConcatProperties
<1>5. /\ \A j \in 1..Len(a) : (a \o b)[j] = a[j]
      /\ \A j \in 1..Len(b) : (a \o b)[Len(a) + j] = b[j]
  BY <1>1, <1>2
<1>6. Len(r) = Len(s) - 1 /\ Len(s) \in Nat
  BY <1>1, <1>2, <1>4
<1>7. ASSUME NEW j \in 1..Len(r) PROVE r[j] = s[from(j)] /\ from(j) \in 1..Len(s) /\ from(j) # i
  <2>1. CASE j < i
    <3>1. j \in 1..Len(a) /\ j \in 1..(i - 1)
      BY <1>1, <2>1
    <3>2. r[j] = a[j]
      BY <1>3, <1>5, <3>1
    <3>3. from(j) = j /\ j \in 1..Len(s) /\ j # i
      BY <1>6, <2>1
    <3>. QED
      BY <1>1, <3>1, <3>2, <3>3
  <2>2. CASE ~(j < i)
    <3>1. j - (i - 1) \in 1..Len(b) /\ Len(a) + (j - (i - 1)) = j /\ i + (j - (i - 1)) = j + 1
      BY <1>1, <1>2, <1>6, <2>2
    <3>2. r[j] = b[j - (i - 1)]
      BY <1>3, <1>5, <3>1
    <3>3. b[j - (i - 1)] = s[j + 1]
      BY <1>2, <3>1
    <3>4. from(j) = j + 1 /\ j + 1 \in 1..Len(s) /\ j + 1 # i
      BY <1>6, <2>2
    <3>. QED
      BY <3>2, <3>3, <3>4
  <2>. QED
    BY <2>1, <2>2
<1>8. \A j, k \in 1..Len(r) : from(j) = from(k) => j = k
  BY <1>6
<1>9. \A k \in 1..Len(s) : k # i => \E j \in 1..Len(r) : from(j) = k
  <2>. SUFFICES ASSUME NEW k \in 1..Len(s), k # i PROVE \E j \in 1..Len(r) : from(j) = k
    OBVIOUS
  <2>1. CASE k < i
    <3>1. k \in 1..Len(r) /\ from(k) = k
      BY <1>6, <2>1
    <3>. QED
      BY <3>1
  <2>2. CASE ~(k < i)
    <3>1. k - 1 \in 1..Len(r) /\ from(k - 1) = k
      BY <1>6, <2>2
    <3>. QED
      BY <3>1
  <2>. QED
    BY <2>1, <2>2
<1>. HIDE DEF from
<1>10. \A j, k \in 1..Len(s) : s[j] = s[k] => j = k
  BY DEF Once
<1>11. Once(r)
  <2>. SUFFICES ASSUME NEW j \in 1..Len(r), NEW k \in 1..Len(r), r[j] = r[k] PROVE j = k
    BY DEF Once
  <2>1. from(j) = from(k)
    BY <1>7, <1>10
  <2>. QED
    BY <1>8, <2>1
<1>12. Entries(r) = Entries(s) \ {s[i]}
  <2>1. ASSUME NEW x \in Entries(r) PROVE x \in Entries(s) /\ x # s[i]
    <3>1. PICK j \in 1..Len(r) : x = r[j]
      BY DEF Entries
    <3>2. x = s[from(j)] /\ from(j) \in 1..Len(s) /\ from(j) # i
      BY <1>7, <3>1
    <3>. QED
      BY <1>10, <3>2 DEF Entries
  <2>2. ASSUME NEW x \in Entries(s), x # s[i] PROVE x \in Entries(r)
    <3>1. PICK k \in 1..Len(s) : x = s[k]
      BY DEF Entries
    <3>2. PICK j \in 1..Len(r) : from(j) = k
      BY <1>9, <2>2, <3>1
    <3>3. x = r[j]
      BY <1>7, <3>1, <3>2
    <3>. QED
      BY <3>3 DEF Entries
  <2>. QED
    BY <2>1, <2>2
<1>. QED
  BY <1>0, <1>4, <1>11, <1>12

\* One transaction more, and one less, of an address.
LEMMA OfAddrMore ==
  ASSUME NEW S, IsFiniteSet(S), NEW t, t \notin S, NEW a
  PROVE  /\ Cardinality(OfAddr(S, a)) \in Nat
         /\ Cardinality(OfAddr(S \cup {t}, a)) =
              Cardinality(OfAddr(S, a)) + IF stream[t].addr = a THEN 1 ELSE 0
<1>1. PICK O : O = OfAddr(S, a)
  OBVIOUS
<1>2. O \subseteq S /\ t \notin O
  BY <1>1 DEF OfAddr
<1>3. IsFiniteSet(O)
  BY <1>2, FS_Subset
<1>4. Cardinality(O) \in Nat /\ Cardinality(O \cup {t}) = Cardinality(O) + 1
  BY <1>2, <1>3, FS_AddElement, FS_CardinalityType
<1>5. OfAddr(S \cup {t}, a) = IF stream[t].addr = a THEN O \cup {t} ELSE O
  BY <1>1 DEF OfAddr
<1>. QED
  BY <1>1, <1>4, <1>5

\* One of its address less, and as many of any other.
LEMMA OfAddrLess ==
  ASSUME NEW S, IsFiniteSet(S), NEW t \in S, NEW a
  PROVE  /\ Cardinality(OfAddr(S, a)) \in Nat
         /\ Cardinality(OfAddr(S \ {t}, a)) =
              Cardinality(OfAddr(S, a)) - IF stream[t].addr = a THEN 1 ELSE 0
<1>1. PICK R : R = S \ {t}
  OBVIOUS
<1>2. t \notin R /\ IsFiniteSet(R) /\ S = R \cup {t}
  BY <1>1, FS_Subset
<1>3. /\ Cardinality(OfAddr(R, a)) \in Nat
      /\ Cardinality(OfAddr(R \cup {t}, a)) =
           Cardinality(OfAddr(R, a)) + IF stream[t].addr = a THEN 1 ELSE 0
  BY <1>2, OfAddrMore
<1>4. Cardinality(OfAddr(S, a)) = Cardinality(OfAddr(R, a)) + IF stream[t].addr = a THEN 1 ELSE 0
  BY <1>2, <1>3
<1>5. Cardinality(OfAddr(R, a)) = Cardinality(OfAddr(S \ {t}, a))
  BY <1>1
<1>6. PICK n, m, k : /\ n = Cardinality(OfAddr(S, a)) /\ m = Cardinality(OfAddr(R, a))
                     /\ k = IF stream[t].addr = a THEN 1 ELSE 0
  OBVIOUS
<1>7. m \in Nat /\ k \in 0..1 /\ n = m + k
  BY <1>3, <1>4, <1>6
<1>8. n \in Nat /\ m = n - k
  BY <1>7
<1>. QED
  BY <1>5, <1>6, <1>8

\* What waits is finite, for all of it was added.
LEMMA FewAreFinite ==
  ASSUME TypeInv, RequestsInv, ResponsesInv
  PROVE  IsFiniteSet(InTable) /\ IsFiniteSet(Pending)
<1>1. added \in Nat
  <2>1. added \in 0..Len(stream)
    BY DEF TypeInv
  <2>2. Len(stream) \in Nat
    BY StreamIs
  <2>. QED
    BY <2>1, <2>2
<1>2. IsFiniteSet(1..added)
  <2>1. 1 \in Int /\ added \in Int
    BY <1>1
  <2>. QED
    BY <2>1, FS_Interval
<1>3. InTable \subseteq 1..added /\ Pending \subseteq 1..added
  BY DEF RequestsInv, ResponsesInv
<1>. QED
  BY <1>2, <1>3, FS_Subset
-----------------------------------------------------------------------------
(* A transaction added.                                                    *)

\* A link with room is a link.
LEMMA RoomIs ==
  ASSUME TypeInv, WillAcceptTransaction
  PROVE  /\ LinkFrom(Min(WithRoom)) \in Links
         /\ Len(link_req_queues_[LinkFrom(Min(WithRoom))]) < xbar_queue_depth
         /\ (LinkFrom(Min(WithRoom)) + 1) % num_links \in Links
<1>1. PICK W : W = WithRoom
  OBVIOUS
<1>2. W \in SUBSET Nat /\ W # {}
  BY <1>1 DEF WithRoom, WillAcceptTransaction, Links
<1>3. \E x \in W : \A y \in W : x =< y
  BY <1>2, Smallest
<1>4. Min(W) \in W
  BY <1>3 DEF Min
<1>5. PICK i : i = Min(WithRoom)
  OBVIOUS
<1>6. i \in Links /\ Len(link_req_queues_[LinkFrom(i)]) < xbar_queue_depth
  BY <1>1, <1>4, <1>5 DEF WithRoom
<1>7. num_links \in Nat \ {0} /\ next_link_ \in Nat /\ i \in Nat
  <2>1. next_link_ \in Links
    BY DEF TypeInv
  <2>. QED
    BY <1>6, <2>1, ConstantsAre DEF Links
<1>8. LinkFrom(i) \in 0..(num_links - 1)
  BY <1>7 DEF LinkFrom
<1>9. (LinkFrom(i) + 1) % num_links \in 0..(num_links - 1)
  BY <1>7, <1>8
<1>. QED
  BY <1>5, <1>6, <1>8, <1>9 DEF Links

\* AddTransaction: the request is put at a link, and its response into the table.
LEMMA AddTransactionKeeps == IInv /\ AddTransaction => IInv'
<1>. SUFFICES ASSUME IInv, AddTransaction PROVE IInv'
  OBVIOUS
<1>0. TypeInv /\ DepthInv /\ ClockInv /\ AgeMeansWaiting /\ TurnsInv /\ RequestsInv /\ ResponsesInv /\ CountInv
  BY DEF IInv
<1>1. pc = "add" /\ added < Len(stream) /\ WillAcceptTransaction /\ added' = added + 1
  BY DEF AddTransaction
<1>2. /\ UNCHANGED <<stream, pc, ahead, age_queue, logic_clk_>>
      /\ UNCHANGED <<quad_req_queues_, quad_busy_>>
      /\ UNCHANGED <<quad_resp_queues_, quad_age_counter_, link_resp_queues_, link_busy_>>
      /\ UNCHANGED <<in_vault, answered>>
  BY DEF AddTransaction, clockVars, respVars
<1>3. PICK l, t : l = LinkFrom(Min(WithRoom)) /\ t = added + 1
  OBVIOUS
<1>4. /\ link_req_queues_' = [link_req_queues_ EXCEPT ![l] = Append(@, t)]
      /\ link' = [link EXCEPT ![t] = l]
      /\ resp_lookup_table_' = Append(resp_lookup_table_, t)
      /\ link_age_counter_' = [link_age_counter_ EXCEPT ![l] = 1]
      /\ next_link_' = (l + 1) % num_links
  BY <1>3 DEF AddTransaction, InsertReqToLink
<1>5. /\ link_age_counter_ \in [Links -> 0..MaxAge] /\ link_req_queues_ \in [Links -> Seq(Trans)]
      /\ resp_lookup_table_ \in Seq(Trans) /\ link \in [Trans -> Links]
  BY <1>0 DEF TypeInv
<1>6. /\ l \in Links /\ Len(link_req_queues_[l]) < xbar_queue_depth
      /\ (l + 1) % num_links \in Links
  BY <1>0, <1>1, <1>3, RoomIs
<1>7. /\ added \in Nat /\ Len(stream) \in Nat /\ t \in Trans /\ t \notin 1..added
      /\ 1..added' = (1..added) \cup {t} /\ added' \in 0..Len(stream)
  <2>1. added \in 0..Len(stream) /\ Len(stream) \in Nat
    BY <1>0, StreamIs DEF TypeInv
  <2>. QED
    BY <1>1, <1>3, <2>1 DEF Trans
<1>8. /\ link_req_queues_' \in [Links -> Seq(Trans)]
      /\ Pushed(link_req_queues_, link_req_queues_', l, t)
      /\ Len(link_req_queues_'[l]) = Len(link_req_queues_[l]) + 1
      /\ link_req_queues_'[l] # <<>>
      /\ \A k \in Links \ {l} : link_req_queues_'[k] = link_req_queues_[k]
  <2>1. link_req_queues_[l] \in Seq(Trans)
    BY <1>5, <1>6
  <2>2. PICK s : s = Append(link_req_queues_[l], t)
    OBVIOUS
  <2>3. s \in Seq(Trans) /\ Len(s) = Len(link_req_queues_[l]) + 1 /\ s # <<>>
    BY <1>7, <2>1, <2>2
  <2>4. link_req_queues_' = [link_req_queues_ EXCEPT ![l] = s]
    BY <1>4, <2>2
  <2>. QED
    BY <1>5, <1>6, <2>2, <2>3, <2>4 DEF Pushed
<1>9. /\ link_age_counter_' \in [Links -> 0..MaxAge] /\ link_age_counter_'[l] > 0
      /\ \A k \in Links \ {l} : link_age_counter_'[k] = link_age_counter_[k]
  BY <1>4, <1>5, <1>6, ConstantsAre
<1>10. t \notin Pending /\ t \notin InTable \cup AtQuad \cup AtLink \cup answered
  BY <1>0, <1>7 DEF RequestsInv, ResponsesInv
<1>11. /\ resp_lookup_table_' \in Seq(Trans) /\ Once(resp_lookup_table_')
       /\ InTable' = InTable \cup {t}
  <2>1. Once(resp_lookup_table_) /\ t \notin Entries(resp_lookup_table_)
    BY <1>0, <1>10 DEF ResponsesInv, InTable
  <2>. QED
    BY <1>4, <1>5, <1>7, <2>1, TablePut DEF InTable
<1>12. Asked' = Asked \cup {t} /\ Apart(link_req_queues_)'
  <2>1. /\ Members(link_req_queues_') = Members(link_req_queues_) \cup {t}
        /\ Apart(link_req_queues_) /\ t \notin Members(link_req_queues_) => Apart(link_req_queues_')
    BY <1>5, <1>6, <1>7, <1>8, Push
  <2>2. Apart(link_req_queues_) /\ t \notin Members(link_req_queues_)
    BY <1>0, <1>10 DEF RequestsInv, Pending, Asked
  <2>. QED
    BY <2>1, <2>2 DEF Asked
<1>13. Sent' = Sent /\ Apart(Names(quad_req_queues_))'
  BY <1>0, <1>2 DEF Sent, RequestsInv
<1>14. Pending' = Pending \cup {t}
  BY <1>2, <1>12, <1>13 DEF Pending
<1>15. TypeInv'
  <2>1. link' \in [Trans -> Links]
    BY <1>4, <1>5, <1>6, <1>7
  <2>2. added' \in 0..Len(stream) /\ next_link_' \in Links
    BY <1>4, <1>6, <1>7
  <2>3. pc \in {"add", "responses", "quads to links", "dram", "requests", "links to quads"}
    BY <1>0 DEF TypeInv
  <2>. QED
    BY <1>0, <1>2, <1>8, <1>9, <1>11, <2>1, <2>2, <2>3, SameTrans DEF TypeInv
<1>16. DepthInv'
  <2>1. Len(link_req_queues_[l]) \in Nat
    BY <1>5, <1>6
  <2>2. Len(link_req_queues_'[l]) <= xbar_queue_depth
    BY <1>6, <1>8, <2>1, ConstantsAre
  <2>3. \A k \in Links : Len(link_req_queues_'[k]) <= xbar_queue_depth
    BY <1>0, <1>8, <2>2 DEF DepthInv
  <2>. QED
    BY <1>0, <1>2, <2>3 DEF DepthInv
<1>17. ClockInv'
  BY <1>0, <1>2 DEF ClockInv
<1>18. AgeMeansWaiting'
  BY <1>0, <1>2, <1>8, <1>9 DEF AgeMeansWaiting
<1>19. TurnsInv'
  BY <1>1, <1>2 DEF TurnsInv
<1>20. RequestsInv'
  <2>1. Asked' \cap Sent' = {} /\ Asked' \cap in_vault' = {} /\ Sent' \cap in_vault' = {}
    BY <1>0, <1>2, <1>10, <1>12, <1>13 DEF RequestsInv, Pending
  <2>2. Pending' \subseteq 1..added'
    BY <1>0, <1>7, <1>14 DEF RequestsInv
  <2>. QED
    BY <1>12, <1>13, <2>1, <2>2 DEF RequestsInv
<1>21. ResponsesInv'
  <2>1. AtQuad' = AtQuad /\ AtLink' = AtLink
    BY <1>2 DEF AtQuad, AtLink
  <2>2. Apart(quad_resp_queues_)' /\ Apart(Names(link_resp_queues_))'
    BY <1>0, <1>2 DEF ResponsesInv
  <2>3. InTable' \cup AtQuad' \cup AtLink' \cup answered' = 1..added'
    BY <1>0, <1>2, <1>7, <1>11, <2>1 DEF ResponsesInv
  <2>4. /\ InTable' \cap AtQuad' = {} /\ InTable' \cap AtLink' = {} /\ InTable' \cap answered' = {}
        /\ AtQuad' \cap AtLink' = {} /\ AtQuad' \cap answered' = {} /\ AtLink' \cap answered' = {}
    BY <1>0, <1>2, <1>10, <1>11, <2>1 DEF ResponsesInv
  <2>5. Once(resp_lookup_table_)'
    BY <1>11
  <2>. QED
    BY <2>2, <2>3, <2>4, <2>5 DEF ResponsesInv
<1>22. CountInv'
  <2>. SUFFICES ASSUME NEW a \in Nat
                PROVE  Cardinality(OfAddr(InTable, a))' = Cardinality(OfAddr(Pending, a))'
    BY DEF CountInv
  <2>1. IsFiniteSet(InTable) /\ IsFiniteSet(Pending)
    BY <1>0, FewAreFinite
  <2>2. OfAddr(InTable, a)' = OfAddr(InTable \cup {t}, a) /\ OfAddr(Pending, a)' = OfAddr(Pending \cup {t}, a)
    BY <1>2, <1>11, <1>14 DEF OfAddr
  <2>3. Cardinality(OfAddr(InTable, a)) = Cardinality(OfAddr(Pending, a))
    BY <1>0 DEF CountInv
  <2>4. Cardinality(OfAddr(InTable \cup {t}, a)) = Cardinality(OfAddr(InTable, a)) + IF stream[t].addr = a THEN 1 ELSE 0
    BY <1>10, <2>1, OfAddrMore
  <2>5. Cardinality(OfAddr(Pending \cup {t}, a)) = Cardinality(OfAddr(Pending, a)) + IF stream[t].addr = a THEN 1 ELSE 0
    BY <1>10, <2>1, OfAddrMore
  <2>. QED
    BY <2>2, <2>3, <2>4, <2>5
<1>. QED
  BY <1>15, <1>16, <1>17, <1>18, <1>19, <1>20, <1>21, <1>22 DEF IInv
-----------------------------------------------------------------------------
(* A request confirmed.                                                    *)

\* multimap::find finds: while a request is on its way, a response of its
\* address is in the table.
FirstOfAddr(t) == SelectInSeq(resp_lookup_table_, LAMBDA r : stream[r].addr = stream[t].addr)

\* Of every address that a vault confirms there is a response in the table.
LEMMA ResponseFound ==
  ASSUME TypeInv, RequestsInv, ResponsesInv, CountInv, NEW t \in Pending
  PROVE  /\ FirstOfAddr(t) \in 1..Len(resp_lookup_table_)
         /\ stream[resp_lookup_table_[FirstOfAddr(t)]].addr = stream[t].addr
<1>1. PICK a : a = stream[t].addr
  OBVIOUS
<1>2. t \in Trans
  <2>1. added \in 0..Len(stream)
    BY DEF TypeInv
  <2>2. t \in 1..added
    BY DEF RequestsInv
  <2>3. Len(stream) \in Nat
    BY StreamIs
  <2>. QED
    BY <2>1, <2>2, <2>3 DEF Trans
<1>3. a \in Nat
  BY <1>1, <1>2, StreamIs
<1>4. IsFiniteSet(InTable) /\ IsFiniteSet(Pending)
  BY FewAreFinite
<1>5. OfAddr(InTable, a) # {}
  <2>1. OfAddr(InTable, a) \subseteq InTable /\ OfAddr(Pending, a) \subseteq Pending
    BY DEF OfAddr
  <2>2. IsFiniteSet(OfAddr(InTable, a)) /\ IsFiniteSet(OfAddr(Pending, a))
    BY <1>4, <2>1, FS_Subset
  <2>3. t \in OfAddr(Pending, a)
    BY <1>1 DEF OfAddr
  <2>4. Cardinality(OfAddr(Pending, a)) # 0
    BY <2>2, <2>3, FS_EmptySet
  <2>5. Cardinality(OfAddr(InTable, a)) = Cardinality(OfAddr(Pending, a))
    BY <1>3 DEF CountInv
  <2>6. Cardinality({}) = 0
    BY FS_EmptySet
  <2>. QED
    BY <2>4, <2>5, <2>6
<1>6. PICK I : I = {i \in 1..Len(resp_lookup_table_) : stream[resp_lookup_table_[i]].addr = a}
  OBVIOUS
<1>7. I \in SUBSET Nat /\ I # {}
  BY <1>5, <1>6 DEF OfAddr, InTable, Entries
<1>8. \E x \in I : \A y \in I : x =< y
  BY <1>7, Smallest
<1>9. Min(I) \in I
  BY <1>8 DEF Min
<1>10. FirstOfAddr(t) = Min(I)
  BY <1>1, <1>6, <1>7 DEF FirstOfAddr, SelectInSeq
<1>. QED
  BY <1>1, <1>6, <1>9, <1>10

\* A vault confirms: the first response of the address goes to its quad.
LEMMA ReturnDoneTransKeeps ==
  ASSUME IInv, NEW t \in Trans, ReturnDoneTrans(t)
  PROVE  IInv'
<1>0. TypeInv /\ DepthInv /\ ClockInv /\ AgeMeansWaiting /\ TurnsInv /\ RequestsInv /\ ResponsesInv /\ CountInv
  BY DEF IInv
<1>1. pc = "dram" /\ t \in in_vault /\ in_vault' = in_vault \ {t}
  BY DEF ReturnDoneTrans
<1>2. /\ UNCHANGED <<stream, added, next_link_, link, pc, ahead, age_queue, logic_clk_>>
      /\ UNCHANGED <<link_req_queues_, link_age_counter_, quad_req_queues_, quad_busy_>>
      /\ UNCHANGED <<link_resp_queues_, link_busy_, answered>>
  BY DEF ReturnDoneTrans, addVars, clockVars, reqVars
<1>3. PICK k, r : k = FirstOfAddr(t) /\ r = resp_lookup_table_[k]
  OBVIOUS
<1>4. /\ resp_lookup_table_' = RemoveAt(resp_lookup_table_, k)
      /\ quad_resp_queues_' = [quad_resp_queues_ EXCEPT ![Quad(r)] = Append(@, r)]
      /\ quad_age_counter_' = [quad_age_counter_ EXCEPT ![Quad(r)] = 1]
  BY <1>3 DEF ReturnDoneTrans, VaultCallback, FirstOfAddr
<1>5. /\ quad_age_counter_ \in [Quads -> 0..MaxAge] /\ quad_resp_queues_ \in [Quads -> Seq(Trans)]
      /\ resp_lookup_table_ \in Seq(Trans)
  BY <1>0 DEF TypeInv
<1>6. t \in Pending
  BY <1>1 DEF Pending
<1>7. k \in 1..Len(resp_lookup_table_) /\ stream[r].addr = stream[t].addr
  BY <1>0, <1>3, <1>6, ResponseFound
<1>8. r \in Trans /\ r \in InTable
  BY <1>3, <1>5, <1>7 DEF InTable, Entries
<1>9. /\ resp_lookup_table_' \in Seq(Trans) /\ Once(resp_lookup_table_')
      /\ InTable' = InTable \ {r}
  <2>1. Once(resp_lookup_table_)
    BY <1>0 DEF ResponsesInv
  <2>. QED
    BY <1>3, <1>4, <1>5, <1>7, <2>1, TableTake DEF InTable
<1>10. PICK q : q = Quad(r)
  OBVIOUS
<1>11. q \in Quads
  BY <1>0, <1>8, <1>10, StreamIs
<1>12. /\ quad_resp_queues_' \in [Quads -> Seq(Trans)]
       /\ Pushed(quad_resp_queues_, quad_resp_queues_', q, r)
       /\ quad_resp_queues_'[q] # <<>>
       /\ \A p \in Quads \ {q} : quad_resp_queues_'[p] = quad_resp_queues_[p]
  <2>1. quad_resp_queues_[q] \in Seq(Trans)
    BY <1>5, <1>11
  <2>2. PICK s : s = Append(quad_resp_queues_[q], r)
    OBVIOUS
  <2>3. s \in Seq(Trans) /\ s # <<>>
    BY <1>8, <2>1, <2>2
  <2>4. quad_resp_queues_' = [quad_resp_queues_ EXCEPT ![q] = s]
    BY <1>4, <1>10, <2>2
  <2>. QED
    BY <1>5, <1>11, <2>2, <2>3, <2>4 DEF Pushed
<1>13. /\ quad_age_counter_' \in [Quads -> 0..MaxAge] /\ quad_age_counter_'[q] > 0
       /\ \A p \in Quads \ {q} : quad_age_counter_'[p] = quad_age_counter_[p]
  BY <1>4, <1>5, <1>10, <1>11, ConstantsAre
<1>14. r \notin AtQuad /\ r \notin AtLink /\ r \notin answered
  BY <1>0, <1>8 DEF ResponsesInv
<1>15. AtQuad' = AtQuad \cup {r} /\ Apart(quad_resp_queues_)'
  <2>1. /\ Members(quad_resp_queues_') = Members(quad_resp_queues_) \cup {r}
        /\ Apart(quad_resp_queues_) /\ r \notin Members(quad_resp_queues_) => Apart(quad_resp_queues_')
    BY <1>5, <1>8, <1>11, <1>12, Push
  <2>2. Apart(quad_resp_queues_) /\ r \notin Members(quad_resp_queues_)
    BY <1>0, <1>14 DEF ResponsesInv, AtQuad
  <2>. QED
    BY <2>1, <2>2 DEF AtQuad
<1>16. Asked' = Asked /\ Sent' = Sent /\ Apart(link_req_queues_)' /\ Apart(Names(quad_req_queues_))'
  BY <1>0, <1>2 DEF Asked, Sent, RequestsInv
<1>17. Pending' = Pending \ {t}
  BY <1>0, <1>1, <1>16 DEF Pending, RequestsInv
<1>18. TypeInv'
  BY <1>0, <1>1, <1>2, <1>9, <1>12, <1>13, SameTrans DEF TypeInv
<1>19. DepthInv'
  BY <1>0, <1>2 DEF DepthInv
<1>20. ClockInv'
  BY <1>0, <1>2 DEF ClockInv
<1>21. AgeMeansWaiting'
  BY <1>0, <1>2, <1>12, <1>13 DEF AgeMeansWaiting
<1>22. TurnsInv'
  BY <1>1, <1>2 DEF TurnsInv
<1>23. RequestsInv'
  BY <1>0, <1>1, <1>2, <1>16, <1>17 DEF RequestsInv
<1>24. ResponsesInv'
  <2>1. AtLink' = AtLink /\ Apart(Names(link_resp_queues_))'
    BY <1>0, <1>2 DEF AtLink, ResponsesInv
  <2>2. InTable' \cup AtQuad' \cup AtLink' \cup answered' = 1..added'
    BY <1>0, <1>2, <1>8, <1>9, <1>15, <2>1 DEF ResponsesInv
  <2>3. /\ InTable' \cap AtQuad' = {} /\ InTable' \cap AtLink' = {} /\ InTable' \cap answered' = {}
        /\ AtQuad' \cap AtLink' = {} /\ AtQuad' \cap answered' = {} /\ AtLink' \cap answered' = {}
    BY <1>0, <1>2, <1>9, <1>14, <1>15, <2>1 DEF ResponsesInv
  <2>4. Once(resp_lookup_table_)'
    BY <1>9
  <2>. QED
    BY <1>15, <2>1, <2>2, <2>3, <2>4 DEF ResponsesInv
<1>25. CountInv'
  <2>. SUFFICES ASSUME NEW a \in Nat
                PROVE  Cardinality(OfAddr(InTable, a))' = Cardinality(OfAddr(Pending, a))'
    BY DEF CountInv
  <2>1. IsFiniteSet(InTable) /\ IsFiniteSet(Pending)
    BY <1>0, FewAreFinite
  <2>2. OfAddr(InTable, a)' = OfAddr(InTable \ {r}, a) /\ OfAddr(Pending, a)' = OfAddr(Pending \ {t}, a)
    BY <1>2, <1>9, <1>17 DEF OfAddr
  <2>3. Cardinality(OfAddr(InTable, a)) = Cardinality(OfAddr(Pending, a))
    BY <1>0 DEF CountInv
  <2>4. Cardinality(OfAddr(InTable \ {r}, a)) = Cardinality(OfAddr(InTable, a)) - IF stream[r].addr = a THEN 1 ELSE 0
    BY <1>8, <2>1, OfAddrLess
  <2>5. Cardinality(OfAddr(Pending \ {t}, a)) = Cardinality(OfAddr(Pending, a)) - IF stream[t].addr = a THEN 1 ELSE 0
    BY <1>6, <2>1, OfAddrLess
  <2>. QED
    BY <1>7, <2>2, <2>3, <2>4, <2>5
<1>. QED
  BY <1>18, <1>19, <1>20, <1>21, <1>22, <1>23, <1>24, <1>25 DEF IInv
-----------------------------------------------------------------------------
(* The invariant holds in every state.                                     *)

\* Empty queues hold nothing.
LEMMA NoMembers ==
  ASSUME NEW P, NEW Q, DOMAIN Q = P, \A p \in P : Q[p] = <<>>
  PROVE  Members(Q) = {} /\ Apart(Q) /\ Members(Names(Q)) = {} /\ Apart(Names(Q))
<1>1. \A p \in P : 1..Len(Q[p]) = {}
  OBVIOUS
<1>2. Members(Q) = {}
  BY <1>1 DEF Members
<1>3. Apart(Q)
  BY <1>1 DEF Apart
<1>4. DOMAIN Names(Q) = P /\ \A p \in P : Names(Q)[p] = <<>>
  BY <1>1 DEF Names
<1>5. \A p \in P : 1..Len(Names(Q)[p]) = {}
  BY <1>4
<1>6. Members(Names(Q)) = {}
  BY <1>4, <1>5 DEF Members
<1>7. Apart(Names(Q))
  BY <1>4, <1>5 DEF Apart
<1>. QED
  BY <1>2, <1>3, <1>6, <1>7

\* At the beginning nothing is under way.
LEMMA InitHolds == Init => IInv
<1>. SUFFICES ASSUME Init PROVE IInv
  OBVIOUS
<1>1. /\ stream \in Streams /\ added = 0 /\ next_link_ = 0 /\ link = [t \in Trans |-> 0]
      /\ pc = "add" /\ ahead = 0 /\ logic_clk_ = 0
      /\ resp_lookup_table_ = <<>>
      /\ link_req_queues_ = [l \in Links |-> <<>>]
      /\ link_resp_queues_ = [l \in Links |-> <<>>]
      /\ link_age_counter_ = [l \in Links |-> 0] /\ link_busy_ = [l \in Links |-> 0]
      /\ quad_req_queues_ = [q \in Quads |-> <<>>]
      /\ quad_resp_queues_ = [q \in Quads |-> <<>>]
      /\ quad_age_counter_ = [q \in Quads |-> 0] /\ quad_busy_ = [q \in Quads |-> 0]
      /\ in_vault = {} /\ answered = {}
  BY DEF Init
<1>2. Len(stream) \in Nat
  <2>1. \A s \in Streams : s \in Seq(Transactions)
    BY HMCAssumption DEF Transactions
  <2>2. stream \in Seq(Transactions)
    BY <1>1, <2>1
  <2>. QED
    BY <2>2
<1>3. TypeInv
  <2>1. 0 \in Links /\ 0 \in 0..MaxAge /\ 0 \in 0..Len(stream)
    BY <1>2, ConstantsAre DEF Links
  <2>2. <<>> \in Seq(Trans) /\ <<>> \in Seq(Packets)
    OBVIOUS
  <2>. QED
    BY <1>1, <2>1, <2>2 DEF TypeInv
<1>4. DepthInv
  <2>1. Len(<<>>) = 0
    OBVIOUS
  <2>2. Len(<<>>) <= xbar_queue_depth /\ 0 >= -1
    BY <2>1, ConstantsAre
  <2>3. /\ \A l \in Links : link_req_queues_[l] = <<>> /\ link_resp_queues_[l] = <<>> /\ link_busy_[l] = 0
        /\ \A q \in Quads : quad_req_queues_[q] = <<>> /\ quad_busy_[q] = 0
    BY <1>1
  <2>. QED
    BY <2>2, <2>3 DEF DepthInv
<1>5. ClockInv
  BY <1>1, ConstantsAre DEF ClockInv
<1>6. AgeMeansWaiting
  BY <1>1 DEF AgeMeansWaiting
<1>7. TurnsInv
  BY <1>1 DEF TurnsInv
<1>8. /\ Asked = {} /\ Sent = {} /\ AtQuad = {} /\ AtLink = {}
      /\ Apart(link_req_queues_) /\ Apart(Names(quad_req_queues_))
      /\ Apart(quad_resp_queues_) /\ Apart(Names(link_resp_queues_))
  <2>1. /\ DOMAIN link_req_queues_ = Links /\ \A l \in Links : link_req_queues_[l] = <<>>
        /\ DOMAIN link_resp_queues_ = Links /\ \A l \in Links : link_resp_queues_[l] = <<>>
        /\ DOMAIN quad_req_queues_ = Quads /\ \A q \in Quads : quad_req_queues_[q] = <<>>
        /\ DOMAIN quad_resp_queues_ = Quads /\ \A q \in Quads : quad_resp_queues_[q] = <<>>
    BY <1>1
  <2>2. Asked = {} /\ Apart(link_req_queues_)
    BY <2>1, NoMembers DEF Asked
  <2>3. Sent = {} /\ Apart(Names(quad_req_queues_))
    BY <2>1, NoMembers DEF Sent
  <2>4. AtQuad = {} /\ Apart(quad_resp_queues_)
    BY <2>1, NoMembers DEF AtQuad
  <2>5. AtLink = {} /\ Apart(Names(link_resp_queues_))
    BY <2>1, NoMembers DEF AtLink
  <2>. QED
    BY <2>2, <2>3, <2>4, <2>5
<1>9. InTable = {} /\ Once(resp_lookup_table_)
  <2>1. 1..Len(resp_lookup_table_) = {}
    BY <1>1
  <2>. QED
    BY <2>1 DEF InTable, Entries, Once
<1>10. 1..added = {}
  BY <1>1
<1>11. Pending = {}
  BY <1>1, <1>8 DEF Pending
<1>12. RequestsInv
  BY <1>8, <1>11, <1>1 DEF RequestsInv
<1>13. ResponsesInv
  BY <1>1, <1>8, <1>9, <1>10 DEF ResponsesInv
<1>14. CountInv
  BY <1>9, <1>11 DEF CountInv
<1>. QED
  BY <1>3, <1>4, <1>5, <1>6, <1>7, <1>12, <1>13, <1>14 DEF IInv

\* A step that changes nothing.
LEMMA StutterKeeps == IInv /\ UNCHANGED vars => IInv'
<1>. SUFFICES ASSUME IInv, UNCHANGED vars PROVE IInv'
  OBVIOUS
<1>0. TypeInv /\ DepthInv /\ ClockInv /\ AgeMeansWaiting /\ TurnsInv /\ RequestsInv /\ ResponsesInv /\ CountInv
  BY DEF IInv
<1>1. /\ UNCHANGED <<stream, added, next_link_, link>>
      /\ UNCHANGED <<pc, ahead, age_queue, logic_clk_>>
      /\ UNCHANGED <<link_req_queues_, link_age_counter_, quad_req_queues_, quad_busy_>>
      /\ UNCHANGED <<quad_resp_queues_, quad_age_counter_, link_resp_queues_, link_busy_>>
      /\ UNCHANGED <<resp_lookup_table_, in_vault, answered>>
  BY DEF vars, addVars, clockVars, reqVars, respVars
<1>2. TypeInv'
  BY <1>0, <1>1, SameTrans DEF TypeInv
<1>3. DepthInv' /\ ClockInv' /\ AgeMeansWaiting' /\ TurnsInv'
  BY <1>0, <1>1 DEF DepthInv, ClockInv, AgeMeansWaiting, TurnsInv
<1>4. RequestsInv' /\ Pending' = Pending
  BY <1>0, <1>1, SameRequests
<1>5. ResponsesInv' /\ InTable' = InTable
  BY <1>0, <1>1, SameResponses
<1>6. CountInv'
  BY <1>0, <1>1, <1>4, <1>5, SameCount
<1>. QED
  BY <1>2, <1>3, <1>4, <1>5, <1>6 DEF IInv

\* The inductive invariant: types, depths, clocks and turns; and where every
\* request and every response is.
THEOREM Invariance == SafeSpec => []IInv
<1>1. Init => IInv
  BY InitHolds
<1>2. IInv /\ [Next]_vars => IInv'
  <2>. SUFFICES ASSUME IInv, [Next]_vars PROVE IInv'
    OBVIOUS
  <2>1. CASE AddTransaction
    BY <2>1, AddTransactionKeeps
  <2>2. CASE \E t \in Trans : ReturnDoneTrans(t)
    <3>1. PICK t \in Trans : ReturnDoneTrans(t)
      BY <2>2
    <3>. QED
      BY <3>1, ReturnDoneTransKeeps
  <2>3. CASE StartTick
    BY <2>3, StartTickKeeps
  <2>4. CASE DrainResponses
    BY <2>4, DrainResponsesKeeps
  <2>5. CASE QuadToLink
    BY <2>5, QuadToLinkKeeps
  <2>6. CASE ResponsesDrained
    BY <2>6, ResponsesDrainedKeeps
  <2>7. CASE DRAMClockTick
    BY <2>7, DRAMClockTickKeeps
  <2>8. CASE \E taken \in SUBSET Ready : DrainRequests(taken)
    <3>1. PICK taken \in SUBSET Ready : DrainRequests(taken)
      BY <2>8
    <3>. QED
      BY <3>1, DrainRequestsKeeps
  <2>9. CASE LinkToQuad
    BY <2>9, LinkToQuadKeeps
  <2>10. CASE RequestsDrained
    BY <2>10, RequestsDrainedKeeps
  <2>11. CASE UNCHANGED vars
    BY <2>11, StutterKeeps
  <2>. QED
    BY <2>1, <2>2, <2>3, <2>4, <2>5, <2>6, <2>7, <2>8, <2>9, <2>10, <2>11 DEF Next, ClockTick
<1>. QED
  BY <1>1, <1>2, PTL DEF SafeSpec
\* A port that has an age, and only it, has a packet; and no queue of the
\* crossbar holds more than its depth: so every read of a first packet in
\* DrainRequests, DrainResponses and XbarArbitrate has one to read.
THEOREM PortsAreSound == SafeSpec => []PortsSound
<1>1. IInv => PortsSound
  <2>. SUFFICES ASSUME IInv PROVE PortsSound
    OBVIOUS
  <2>0. TypeInv /\ DepthInv /\ ClockInv /\ AgeMeansWaiting
    BY DEF IInv
  <2>1. added \in 0..Len(stream) /\ next_link_ \in Links
    BY <2>0 DEF TypeInv
  <2>2. ahead \in 0..(2 * ps_per_dram) /\ (pc = "add" => ahead < ps_per_logic)
    <3>1. ahead \in Nat /\ ahead < ps_per_dram /\ ps_per_dram \in Nat
      BY <2>0, ConstantsAre DEF TypeInv, ClockInv
    <3>2. ahead \in 0..(2 * ps_per_dram)
      BY <3>1
    <3>3. pc = "add" => ahead < ps_per_logic
      BY <2>0 DEF ClockInv
    <3>. QED
      BY <3>2, <3>3
  <2>3. /\ \A p \in Links : link_age_counter_[p] \in 0..MaxAge
        /\ \A q \in Quads : quad_age_counter_[q] \in 0..MaxAge
    BY <2>0 DEF TypeInv
  <2>. QED
    BY <2>0, <2>1, <2>2, <2>3 DEF PortsSound, TypeOK, DepthInv
<1>. QED
  BY <1>1, Invariance, PTL

\* What the queues and the table are asked for is what they hold.
LEMMA WhereTheyAre ==
  ASSUME TypeInv
  PROVE  \A t : /\ Contains(resp_lookup_table_, t) <=> t \in InTable
                /\ Waiting(quad_resp_queues_, t) <=> t \in AtQuad
                /\ Leaving(link_resp_queues_, t) <=> t \in AtLink
                /\ Waiting(link_req_queues_, t) <=> t \in Asked
                /\ Leaving(quad_req_queues_, t) <=> t \in Sent
<1>. SUFFICES ASSUME NEW t
              PROVE /\ Contains(resp_lookup_table_, t) <=> t \in InTable
                    /\ Waiting(quad_resp_queues_, t) <=> t \in AtQuad
                    /\ Leaving(link_resp_queues_, t) <=> t \in AtLink
                    /\ Waiting(link_req_queues_, t) <=> t \in Asked
                    /\ Leaving(quad_req_queues_, t) <=> t \in Sent
  OBVIOUS
<1>1. /\ link_req_queues_ \in [Links -> Seq(Trans)] /\ quad_req_queues_ \in [Quads -> Seq(Packets)]
      /\ quad_resp_queues_ \in [Quads -> Seq(Trans)] /\ link_resp_queues_ \in [Links -> Seq(Packets)]
  BY DEF TypeInv
<1>2. Contains(resp_lookup_table_, t) <=> t \in InTable
  BY DEF Contains, InTable, Entries
<1>3. \A P : \A Q \in [P -> Seq(Trans)] : Waiting(Q, t) <=> t \in Members(Q)
  <2>. SUFFICES ASSUME NEW P, NEW Q \in [P -> Seq(Trans)] PROVE Waiting(Q, t) <=> t \in Members(Q)
    OBVIOUS
  <2>1. DOMAIN Q = P /\ \A p \in P : DOMAIN Q[p] = 1..Len(Q[p])
    OBVIOUS
  <2>2. t \in Members(Q) <=> \E p \in P : \E j \in 1..Len(Q[p]) : Q[p][j] = t
    BY <2>1, MemberIs
  <2>. QED
    BY <2>1, <2>2 DEF Waiting
<1>4. \A P : \A Q \in [P -> Seq(Packets)] : Leaving(Q, t) <=> t \in Members(Names(Q))
  <2>. SUFFICES ASSUME NEW P, NEW Q \in [P -> Seq(Packets)] PROVE Leaving(Q, t) <=> t \in Members(Names(Q))
    OBVIOUS
  <2>1. DOMAIN Q = P /\ \A p \in P : DOMAIN Q[p] = 1..Len(Q[p]) /\ Len(Q[p]) \in Nat
    OBVIOUS
  <2>2. /\ DOMAIN Names(Q) = P
        /\ \A p \in P : Names(Q)[p] = [j \in 1..Len(Q[p]) |-> Q[p][j].trans]
    BY <2>1 DEF Names
  <2>3. \A p \in P : Len(Names(Q)[p]) = Len(Q[p])
    BY <2>1, <2>2
  <2>4. t \in Members(Names(Q)) <=> \E p \in P : \E j \in 1..Len(Names(Q)[p]) : Names(Q)[p][j] = t
    BY <2>2, MemberIs
  <2>5. \A p \in P : \A j \in 1..Len(Q[p]) : Names(Q)[p][j] = Q[p][j].trans
    BY <2>2
  <2>. QED
    BY <2>1, <2>3, <2>4, <2>5 DEF Leaving
<1>5. Waiting(quad_resp_queues_, t) <=> t \in AtQuad
  BY <1>1, <1>3 DEF AtQuad
<1>6. Waiting(link_req_queues_, t) <=> t \in Asked
  BY <1>1, <1>3 DEF Asked
<1>7. Leaving(link_resp_queues_, t) <=> t \in AtLink
  BY <1>1, <1>4 DEF AtLink
<1>8. Leaving(quad_req_queues_, t) <=> t \in Sent
  BY <1>1, <1>4 DEF Sent
<1>. QED
  BY <1>2, <1>5, <1>6, <1>7, <1>8

\* Every transaction added has one response, in one place, from the table to
\* the CPU; and of every address as many responses wait in the table as
\* requests are on their way, so that VaultCallback finds one.
THEOREM AllAccounted == SafeSpec => []Accounting
<1>1. IInv => Accounting
  <2>. SUFFICES ASSUME IInv PROVE Accounting
    OBVIOUS
  <2>0. TypeInv /\ RequestsInv /\ ResponsesInv /\ CountInv
    BY DEF IInv
  <2>1. \A t : /\ Contains(resp_lookup_table_, t) <=> t \in InTable
               /\ Waiting(quad_resp_queues_, t) <=> t \in AtQuad
               /\ Leaving(link_resp_queues_, t) <=> t \in AtLink
               /\ Waiting(link_req_queues_, t) <=> t \in Asked
               /\ Leaving(quad_req_queues_, t) <=> t \in Sent
    BY <2>0, WhereTheyAre
  <2>2. ASSUME NEW t \in 1..added
        PROVE  Cardinality({p \in {"table", "quad", "link", "cpu"} :
                 CASE p = "table" -> Contains(resp_lookup_table_, t)
                   [] p = "quad" -> Waiting(quad_resp_queues_, t)
                   [] p = "link" -> Leaving(link_resp_queues_, t)
                   [] p = "cpu" -> t \in answered}) = 1
    <3>. DEFINE W == {p \in {"table", "quad", "link", "cpu"} :
                        CASE p = "table" -> Contains(resp_lookup_table_, t)
                          [] p = "quad" -> Waiting(quad_resp_queues_, t)
                          [] p = "link" -> Leaving(link_resp_queues_, t)
                          [] p = "cpu" -> t \in answered}
    <3>1. /\ W \subseteq {"table", "quad", "link", "cpu"}
          /\ "table" \in W <=> t \in InTable
          /\ "quad" \in W <=> t \in AtQuad
          /\ "link" \in W <=> t \in AtLink
          /\ "cpu" \in W <=> t \in answered
      BY <2>1
    <3>2. t \in InTable \cup AtQuad \cup AtLink \cup answered
      BY <2>0 DEF ResponsesInv
    <3>3. \E p : W = {p}
      <4>. HIDE DEF W
      <4>1. CASE t \in InTable
        <5>1. t \notin AtQuad /\ t \notin AtLink /\ t \notin answered
          BY <2>0, <4>1 DEF ResponsesInv
        <5>2. W = {"table"}
          BY <3>1, <4>1, <5>1
        <5>. QED
          BY <5>2
      <4>2. CASE t \in AtQuad
        <5>1. t \notin InTable /\ t \notin AtLink /\ t \notin answered
          BY <2>0, <4>2 DEF ResponsesInv
        <5>2. W = {"quad"}
          BY <3>1, <4>2, <5>1
        <5>. QED
          BY <5>2
      <4>3. CASE t \in AtLink
        <5>1. t \notin InTable /\ t \notin AtQuad /\ t \notin answered
          BY <2>0, <4>3 DEF ResponsesInv
        <5>2. W = {"link"}
          BY <3>1, <4>3, <5>1
        <5>. QED
          BY <5>2
      <4>4. CASE t \in answered
        <5>1. t \notin InTable /\ t \notin AtQuad /\ t \notin AtLink
          BY <2>0, <4>4 DEF ResponsesInv
        <5>2. W = {"cpu"}
          BY <3>1, <4>4, <5>1
        <5>. QED
          BY <5>2
      <4>. QED
        BY <3>2, <4>1, <4>2, <4>3, <4>4
    <3>4. Cardinality(W) = 1
      <4>. HIDE DEF W
      <4>. QED
        BY <3>3, FS_Singleton
    <3>. QED
      BY <3>4
  <2>3. ASSUME NEW a \in {stream[t].addr : t \in Trans}
        PROVE  LET of_a == {t \in 1..added : stream[t].addr = a}
               IN  Cardinality({t \in of_a : Contains(resp_lookup_table_, t)}) =
                   Cardinality({t \in of_a : \/ t \in in_vault
                                             \/ Waiting(link_req_queues_, t)
                                             \/ Leaving(quad_req_queues_, t)})
    <3>. DEFINE of_a == {t \in 1..added : stream[t].addr = a}
                A == {t \in of_a : Contains(resp_lookup_table_, t)}
                B == {t \in of_a : \/ t \in in_vault
                                   \/ Waiting(link_req_queues_, t)
                                   \/ Leaving(quad_req_queues_, t)}
    <3>1. InTable \subseteq 1..added /\ Pending \subseteq 1..added
      BY <2>0 DEF RequestsInv, ResponsesInv
    <3>2. A = OfAddr(InTable, a)
      BY <2>1, <3>1 DEF OfAddr
    <3>3. B = OfAddr(Pending, a)
      BY <2>1, <3>1 DEF OfAddr, Pending
    <3>4. a \in Nat
      BY <2>0, StreamIs
    <3>5. Cardinality(OfAddr(InTable, a)) = Cardinality(OfAddr(Pending, a))
      BY <2>0, <3>4 DEF CountInv
    <3>. QED
      BY <3>2, <3>3, <3>5
  <2>. QED
    BY <2>2, <2>3 DEF Accounting
<1>. QED
  BY <1>1, Invariance, PTL
=============================================================================
