-------------------------- MODULE Coordinator_proofs --------------------------
(***************************************************************************)
(* Proofs about Coordinator, for every set of events, every choice of      *)
(* addresses, every size of the ring and every order of answers:           *)
(* transactions and events agree, every event comes back once, the ring is *)
(* served in order, and the coordinator implements the safety part of      *)
(* MemoryContract.                                                         *)
(***************************************************************************)
EXTENDS Coordinator, FiniteSetTheorems, FunctionTheorems, TLAPS

RingAddr == 0..(cap_edram - 1)
DramEvent == {e \in Event : ~InRing(e)}
RingEvent == {e \in Event : InRing(e)}

\* The entries of an address, and of an event; the places of a value.
At(S, a) == {p \in S : p[1] = a}
Of(S, e) == {p \in S : p[2] = e}
Places(s, a) == {i \in 1..Len(s) : s[i] = a}

TypeInv ==
  /\ pc \in PC
  /\ queue \in [Queue -> Seq(Event)]
  /\ trans_cnt \in [Event -> Nat] /\ confirm_cnt \in [Event -> Nat]
  /\ events \subseteq DramAddr \X DramEvent /\ IsFiniteSet(events)
  /\ edram_events \subseteq RingAddr \X RingEvent /\ IsFiniteSet(edram_events)
  /\ dram \in [DramAddr -> Nat]
  /\ trans \in Seq(RingAddr)
  /\ return_queue \in Seq(Event) /\ asked \in Seq(Event) /\ back \subseteq Event

\* An event is in its queue, once, and only the first has been begun.
QueueInv ==
  \A q \in Queue :
    /\ \A i \in 1..Len(queue[q]) : QueueOf[queue[q][i]] = q
    /\ \A i, j \in 1..Len(queue[q]) : i # j => queue[q][i] # queue[q][j]
    /\ \A i \in 2..Len(queue[q]) : trans_cnt[queue[q][i]] = 0

\* An event stays in its queue until all its transactions have been issued.
IssueInv ==
  \A e \in Event :
    /\ trans_cnt[e] <= NumTrans[e]
    /\ e \notin Handed => trans_cnt[e] = 0
    /\ trans_cnt[e] < NumTrans[e] /\ e \in Handed <=> InQueue(e)

\* An entry is that of a transaction that has been issued.
EntryInv ==
  \A p \in events \cup edram_events :
    \E k \in 0..(trans_cnt[p[2]] - 1) : p[1] = Addr(p[2], k)

\* What has been issued of an event is confirmed or has an entry.
BookInv ==
  \A e \in Event :
    confirm_cnt[e] + Cardinality(Of(events \cup edram_events, e)) = trans_cnt[e]

\* For an address there are as many entries as transactions under way.
FindInv ==
  /\ \A a \in DramAddr : dram[a] = Cardinality(At(events, a))
  /\ \A a \in RingAddr : Cardinality(Places(trans, a)) = Cardinality(At(edram_events, a))

\* The ring's queue has the order in which its events were handed over.
InOrder(a, s) ==
  \A i, j \in 1..Len(a) : \A x \in 1..Len(s) :
    (i < j /\ InRing(a[j]) /\ s[x] = a[i]) =>
      \E y \in (x + 1)..Len(s) : s[y] = a[j]
OrderInv == InOrder(asked, queue["tmps"])

\* What the ring has taken it serves in the same tick.
ServedInv == pc \in {"return", "issue"} => trans = <<>>

IInv ==
  /\ TypeInv /\ QueueInv /\ IssueInv /\ EntryInv /\ BookInv /\ FindInv
  /\ ReturnedOnce /\ OrderInv /\ ServedInv

-----------------------------------------------------------------------------
(* Counting.                                                               *)

\* Taking an entry out of a set takes it out of those of its address.
LEMMA RemoveAt ==
  ASSUME NEW S, IsFiniteSet(S), NEW p \in S, NEW x
  PROVE  /\ Cardinality(At(S, x)) \in Nat
         /\ Cardinality(At(S \ {p}, x)) =
              IF p[1] = x THEN Cardinality(At(S, x)) - 1 ELSE Cardinality(At(S, x))
<1>1. IsFiniteSet(At(S, x))
  BY FS_Subset DEF At
<1>2. At(S \ {p}, x) = At(S, x) \ {p} /\ (p \in At(S, x) <=> p[1] = x)
  BY DEF At
<1>3. Cardinality(At(S, x) \ {p}) =
        IF p \in At(S, x) THEN Cardinality(At(S, x)) - 1 ELSE Cardinality(At(S, x))
  BY <1>1, FS_RemoveElement
<1>. QED
  BY <1>1, <1>2, <1>3, FS_CardinalityType

\* Taking an entry out of a set takes it out of those of its event.
LEMMA RemoveOf ==
  ASSUME NEW S, IsFiniteSet(S), NEW p \in S, NEW x
  PROVE  /\ Cardinality(Of(S, x)) \in Nat
         /\ Cardinality(Of(S \ {p}, x)) =
              IF p[2] = x THEN Cardinality(Of(S, x)) - 1 ELSE Cardinality(Of(S, x))
<1>1. IsFiniteSet(Of(S, x))
  BY FS_Subset DEF Of
<1>2. Of(S \ {p}, x) = Of(S, x) \ {p} /\ (p \in Of(S, x) <=> p[2] = x)
  BY DEF Of
<1>3. Cardinality(Of(S, x) \ {p}) =
        IF p \in Of(S, x) THEN Cardinality(Of(S, x)) - 1 ELSE Cardinality(Of(S, x))
  BY <1>1, FS_RemoveElement
<1>. QED
  BY <1>1, <1>2, <1>3, FS_CardinalityType

\* The entries of one address in two sets that have none in common.
LEMMA AddAt ==
  ASSUME NEW S, NEW T, IsFiniteSet(S), IsFiniteSet(T), \A p \in T : p \notin S, NEW x
  PROVE  /\ Cardinality(At(S, x)) \in Nat /\ Cardinality(At(T, x)) \in Nat
         /\ Cardinality(At(S \cup T, x)) = Cardinality(At(S, x)) + Cardinality(At(T, x))
<1>1. IsFiniteSet(At(S, x)) /\ IsFiniteSet(At(T, x))
  BY FS_Subset DEF At
<1>2. At(S \cup T, x) = At(S, x) \cup At(T, x) /\ At(S, x) \cap At(T, x) = {}
  BY DEF At
<1>3. Cardinality(At(S, x)) \in Nat /\ Cardinality(At(T, x)) \in Nat
  BY <1>1, FS_CardinalityType
<1>4. Cardinality(At(S, x) \cup At(T, x)) =
        Cardinality(At(S, x)) + Cardinality(At(T, x)) - Cardinality({})
  BY <1>1, <1>2, FS_Union
<1>5. Cardinality({}) = 0
  BY FS_EmptySet
<1>6. Cardinality(At(S, x) \cup At(T, x)) =
        Cardinality(At(S, x)) + Cardinality(At(T, x))
  BY <1>3, <1>4, <1>5
<1>. QED
  BY <1>2, <1>3, <1>6

\* The entries of one event in two sets that have none in common.
LEMMA AddOf ==
  ASSUME NEW S, NEW T, IsFiniteSet(S), IsFiniteSet(T), \A p \in T : p \notin S, NEW x
  PROVE  /\ Cardinality(Of(S, x)) \in Nat /\ Cardinality(Of(T, x)) \in Nat
         /\ Cardinality(Of(S \cup T, x)) = Cardinality(Of(S, x)) + Cardinality(Of(T, x))
<1>1. IsFiniteSet(Of(S, x)) /\ IsFiniteSet(Of(T, x))
  BY FS_Subset DEF Of
<1>2. Of(S \cup T, x) = Of(S, x) \cup Of(T, x) /\ Of(S, x) \cap Of(T, x) = {}
  BY DEF Of
<1>3. Cardinality(Of(S, x)) \in Nat /\ Cardinality(Of(T, x)) \in Nat
  BY <1>1, FS_CardinalityType
<1>4. Cardinality(Of(S, x) \cup Of(T, x)) =
        Cardinality(Of(S, x)) + Cardinality(Of(T, x)) - Cardinality({})
  BY <1>1, <1>2, FS_Union
<1>5. Cardinality({}) = 0
  BY FS_EmptySet
<1>6. Cardinality(Of(S, x) \cup Of(T, x)) =
        Cardinality(Of(S, x)) + Cardinality(Of(T, x))
  BY <1>3, <1>4, <1>5
<1>. QED
  BY <1>2, <1>3, <1>6

\* A value more at the end of a sequence.
LEMMA AppendPlaces ==
  ASSUME NEW S, NEW s \in Seq(S), NEW x \in S, NEW a
  PROVE  /\ Cardinality(Places(s, a)) \in Nat
         /\ Cardinality(Places(Append(s, x), a)) =
              IF x = a THEN Cardinality(Places(s, a)) + 1 ELSE Cardinality(Places(s, a))
<1>1. Len(s) \in Nat /\ IsFiniteSet(1..Len(s))
  BY FS_Interval
<1>2. IsFiniteSet(Places(s, a)) /\ Len(s) + 1 \notin Places(s, a)
  BY <1>1, FS_Subset DEF Places
<1>3. Places(Append(s, x), a) =
        IF x = a THEN Places(s, a) \cup {Len(s) + 1} ELSE Places(s, a)
  BY <1>1 DEF Places
<1>. QED
  BY <1>2, <1>3, FS_AddElement, FS_CardinalityType

\* The first value of a sequence taken away.
LEMMA TailPlaces ==
  ASSUME NEW S, NEW s \in Seq(S), s # <<>>, NEW a
  PROVE  /\ Cardinality(Places(s, a)) \in Nat
         /\ Cardinality(Places(Tail(s), a)) =
              IF Head(s) = a THEN Cardinality(Places(s, a)) - 1
                             ELSE Cardinality(Places(s, a))
<1>. DEFINE later == {i \in 2..Len(s) : s[i] = a}
<1>1. Len(s) \in Nat \ {0} /\ Len(Tail(s)) = Len(s) - 1 /\ Head(s) = s[1]
      /\ \A i \in 1..(Len(s) - 1) : Tail(s)[i] = s[i + 1]
  OBVIOUS
<1>2. IsFiniteSet(Places(s, a)) /\ IsFiniteSet(Places(Tail(s), a))
  <2>1. IsFiniteSet(1..Len(s)) /\ IsFiniteSet(1..Len(Tail(s)))
    BY <1>1, FS_Interval
  <2>. QED
    BY <2>1, FS_Subset DEF Places
<1>3. later = Places(s, a) \ {1} /\ (1 \in Places(s, a) <=> Head(s) = a)
  BY <1>1 DEF Places
<1>4. Cardinality(later) =
        IF Head(s) = a THEN Cardinality(Places(s, a)) - 1 ELSE Cardinality(Places(s, a))
  BY <1>2, <1>3, FS_RemoveElement
<1>5. Cardinality(later) = Cardinality(Places(Tail(s), a))
  <2>. DEFINE f == [i \in Places(Tail(s), a) |-> i + 1]
  <2>1. f \in [Places(Tail(s), a) -> later]
    BY <1>1 DEF Places
  <2>2. \A i, j \in Places(Tail(s), a) : f[i] = f[j] => i = j
    BY <1>1 DEF Places
  <2>3. \A k \in later : \E i \in Places(Tail(s), a) : f[i] = k
    <3>1. SUFFICES ASSUME NEW k \in later PROVE k - 1 \in Places(Tail(s), a) /\ f[k - 1] = k
      OBVIOUS
    <3>2. k - 1 \in Places(Tail(s), a)
      BY <1>1 DEF Places
    <3>. QED
      BY <3>2
  <2>4. f \in Bijection(Places(Tail(s), a), later)
    BY <2>1, <2>2, <2>3, Fun_IsBij
  <2>. QED
    BY <2>4, <1>2, FS_Bijection DEF ExistsBijection
<1>. QED
  BY <1>2, <1>4, <1>5, FS_CardinalityType

-----------------------------------------------------------------------------
(* Addresses and entries.                                                  *)

\* A transaction to the ring goes to one of its blocks, another to the DRAM.
LEMMA AddrRange ==
  ASSUME NEW e \in Event, NEW k \in 0..(NumTrans[e] - 1)
  PROVE  Addr(e, k) \in IF InRing(e) THEN RingAddr ELSE DramAddr
<1>1. Address[e] + k \in Nat /\ cap_edram \in Nat \ {0}
  BY CoordinatorAssumption
<1>2. CASE InRing(e)
  BY <1>1, <1>2 DEF Addr, RingAddr
<1>3. CASE ~InRing(e)
  BY <1>3 DEF DramAddr
<1>. QED
  BY <1>2, <1>3

\* Two numbers that leave the same remainder are apart by a multiple of c.
LEMMA SameRemainder ==
  ASSUME NEW c \in Nat \ {0}, NEW a \in Nat, NEW b \in Nat, a % c = b % c,
         a <= b, b < a + c
  PROVE  a = b
<1>. DEFINE d == b \div c - a \div c
<1>1. /\ a \div c \in Int /\ b \div c \in Int
      /\ a = c * (a \div c) + (a % c) /\ b = c * (b \div c) + (b % c)
  OBVIOUS
<1>2. c * d = c * (b \div c) - c * (a \div c)
  BY <1>1
<1>3. b - a = c * d /\ d \in Int
  BY <1>1, <1>2
<1>4. CASE d >= 1
  <2>1. c * d >= c
    BY <1>3, <1>4
  <2>. QED
    BY <1>3, <2>1
<1>5. CASE d <= -1
  <2>1. c * d <= -c
    BY <1>3, <1>5
  <2>. QED
    BY <1>3, <2>1
<1>6. CASE d = 0
  BY <1>3, <1>6
<1>. QED
  BY <1>3, <1>4, <1>5, <1>6

\* No two transactions of an event have one address: it has no more of them
\* than the ring has blocks.
LEMMA AddrDistinct ==
  ASSUME NEW e \in Event, NEW j \in 0..(NumTrans[e] - 1), NEW k \in 0..(NumTrans[e] - 1),
         Addr(e, j) = Addr(e, k)
  PROVE  j = k
<1>1. /\ Address[e] + j \in Nat /\ Address[e] + k \in Nat /\ cap_edram \in Nat \ {0}
      /\ Address[e] \in Nat /\ NumTrans[e] \in Nat /\ j \in Nat /\ k \in Nat
  BY CoordinatorAssumption
<1>2. CASE InRing(e)
  <2>1. (Address[e] + j) % cap_edram = (Address[e] + k) % cap_edram
    BY <1>2 DEF Addr
  <2>2. NumTrans[e] <= cap_edram
    BY <1>2, CoordinatorAssumption DEF InRing
  <2>3. CASE j <= k
    <3>1. Address[e] + j <= Address[e] + k /\ Address[e] + k < Address[e] + j + cap_edram
      BY <1>1, <2>2, <2>3
    <3>2. Address[e] + j = Address[e] + k
      BY <1>1, <2>1, <3>1, SameRemainder
    <3>. QED
      BY <1>1, <3>2
  <2>4. CASE k <= j
    <3>1. Address[e] + k <= Address[e] + j /\ Address[e] + j < Address[e] + k + cap_edram
      BY <1>1, <2>2, <2>4
    <3>2. Address[e] + k = Address[e] + j
      BY <1>1, <2>1, <3>1, SameRemainder
    <3>. QED
      BY <1>1, <3>2
  <2>. QED
    BY <1>1, <2>3, <2>4
<1>3. CASE ~InRing(e)
  BY <1>1, <1>3 DEF Addr
<1>. QED
  BY <1>2, <1>3

\* The entries of n more transactions are n, all of that event, all new.
LEMMA EntriesNew ==
  ASSUME TypeInv, EntryInv, NEW e \in Event, NEW n \in Nat,
         trans_cnt[e] + n <= NumTrans[e]
  PROVE  /\ Entries(e, n) \subseteq (IF InRing(e) THEN RingAddr ELSE DramAddr) \X {e}
         /\ \A p \in Entries(e, n) :
              \E k \in 0..(trans_cnt[e] + n - 1) : p[1] = Addr(e, k)
         /\ Entries(e, n) \cap (events \cup edram_events) = {}
         /\ IsFiniteSet(Entries(e, n)) /\ Cardinality(Entries(e, n)) = n
<1>. DEFINE t == trans_cnt[e]
            K == t..(t + n - 1)
<1>1. t \in Nat /\ NumTrans[e] \in Nat /\ K \subseteq 0..(NumTrans[e] - 1)
  BY CoordinatorAssumption DEF TypeInv
<1>2. Entries(e, n) = {<<Addr(e, k), e>> : k \in K}
  BY DEF Entries
<1>3. ASSUME NEW p \in Entries(e, n)
      PROVE  /\ p \in (IF InRing(e) THEN RingAddr ELSE DramAddr) \X {e}
             /\ \E k \in 0..(trans_cnt[e] + n - 1) : p[1] = Addr(e, k)
             /\ p \notin events \cup edram_events
  <2>1. PICK k \in K : p = <<Addr(e, k), e>>
    BY <1>2
  <2>2. k \in 0..(NumTrans[e] - 1) /\ k \in 0..(t + n - 1) /\ k >= t
    BY <1>1
  <2>3. Addr(e, k) \in IF InRing(e) THEN RingAddr ELSE DramAddr
    BY <2>2, AddrRange
  <2>4. ASSUME p \in events \cup edram_events PROVE FALSE
    <3>1. PICK j \in 0..(t - 1) : Addr(e, k) = Addr(e, j)
      BY <2>1, <2>4 DEF EntryInv
    <3>2. j \in 0..(NumTrans[e] - 1) /\ j < t
      BY <1>1, <3>1
    <3>3. j = k
      BY <2>2, <3>1, <3>2, AddrDistinct
    <3>. QED
      BY <1>1, <2>2, <3>2, <3>3
  <2>. QED
    BY <2>1, <2>2, <2>3, <2>4
<1>4. IsFiniteSet(Entries(e, n)) /\ Cardinality(Entries(e, n)) = n
  <2>. DEFINE g == [k \in K |-> <<Addr(e, k), e>>]
  <2>1. IsFiniteSet(K) /\ Cardinality(K) = n
    <3>1. t \in Int /\ t + n - 1 \in Int
      BY <1>1
    <3>2. IsFiniteSet(K) /\ Cardinality(K) = IF t > t + n - 1 THEN 0 ELSE (t + n - 1) - t + 1
      BY <3>1, FS_Interval
    <3>. QED
      BY <1>1, <3>2
  <2>2. g \in [K -> Entries(e, n)]
    BY <1>2
  <2>3. ASSUME NEW j \in K, NEW k \in K, g[j] = g[k] PROVE j = k
    <3>1. Addr(e, j) = Addr(e, k)
      BY <2>3
    <3>2. j \in 0..(NumTrans[e] - 1) /\ k \in 0..(NumTrans[e] - 1)
      BY <1>1
    <3>. QED
      BY <3>1, <3>2, AddrDistinct
  <2>4. \A p \in Entries(e, n) : \E k \in K : g[k] = p
    BY <1>2
  <2>5. g \in Bijection(K, Entries(e, n))
    BY <2>2, <2>3, <2>4, Fun_IsBij
  <2>. QED
    BY <2>1, <2>5, FS_Bijection DEF ExistsBijection
<1>. QED
  BY <1>3, <1>4

-----------------------------------------------------------------------------
(* What the two halves of an event's way do to the invariant.              *)

\* Issuing transactions of the head of a queue leaves the queues in order.
LEMMA IssuedKeeps ==
  ASSUME TypeInv, QueueInv, IssueInv, OrderInv, NEW q \in Queue, queue[q] # <<>>,
         NEW e, e = Head(queue[q]), NEW n \in Nat, trans_cnt[e] + n <= NumTrans[e],
         Issued(e, n), asked' = asked
  PROVE  /\ e \in Event /\ QueueOf[e] = q
         /\ queue' \in [Queue -> Seq(Event)] /\ trans_cnt' \in [Event -> Nat]
         /\ trans_cnt' = [trans_cnt EXCEPT ![e] = @ + n]
         /\ QueueInv' /\ IssueInv' /\ OrderInv'
<1>. DEFINE s == queue[q]
<1>1. /\ s \in Seq(Event) /\ Len(s) \in Nat \ {0} /\ e = s[1] /\ e \in Event
      /\ Tail(s) \in Seq(Event) /\ Len(Tail(s)) = Len(s) - 1
      /\ \A i \in 1..(Len(s) - 1) : Tail(s)[i] = s[i + 1]
  BY DEF TypeInv
<1>2. QueueOf[e] = q
  BY <1>1 DEF QueueInv
<1>3. InQueue(e) /\ e \in Handed
  <2>1. InQueue(e)
    BY <1>1, <1>2 DEF InQueue
  <2>. QED
    BY <1>1, <2>1 DEF IssueInv
<1>4. /\ trans_cnt[e] \in Nat /\ NumTrans[e] \in Nat
      /\ trans_cnt' = [trans_cnt EXCEPT ![e] = @ + n]
      /\ trans_cnt'[e] = trans_cnt[e] + n
      /\ \A x \in Event \ {e} : trans_cnt'[x] = trans_cnt[x]
      /\ trans_cnt' \in [Event -> Nat]
  <2>1. trans_cnt \in [Event -> Nat] /\ trans_cnt[e] \in Nat /\ NumTrans[e] \in Nat
    BY <1>1, CoordinatorAssumption DEF TypeInv
  <2>2. trans_cnt' = [trans_cnt EXCEPT ![e] = trans_cnt[e] + n]
    BY DEF Issued
  <2>3. trans_cnt[e] + n \in Nat
    BY <2>1
  <2>. QED
    BY <1>1, <2>1, <2>2, <2>3
<1>5. Handed' = Handed
  BY DEF Handed
<1>6. /\ \A p \in Queue : \A i \in 1..Len(queue[p]) :
           queue[p][i] \in Event /\ QueueOf[queue[p][i]] = p
      /\ \A i \in 2..Len(s) : s[i] # e
  <2>1. \A p \in Queue : \A i \in 1..Len(queue[p]) : queue[p][i] \in Event
    BY DEF TypeInv
  <2>2. \A i, j \in 1..Len(s) : i # j => s[i] # s[j]
    BY DEF QueueInv
  <2>3. \A i \in 2..Len(s) : i \in 1..Len(s) /\ 1 \in 1..Len(s) /\ i # 1
    BY <1>1
  <2>. QED
    BY <1>1, <2>1, <2>2, <2>3 DEF QueueInv
<1>7. CASE trans_cnt[e] + n = NumTrans[e]
  <2>1. /\ queue' \in [Queue -> Seq(Event)] /\ queue'[q] = Tail(s)
        /\ \A p \in Queue \ {q} : queue'[p] = queue[p]
    BY <1>1, <1>2, <1>7 DEF Issued, TypeInv
  <2>2. QueueInv'
    <3>1. SUFFICES ASSUME NEW p \in Queue
                   PROVE  /\ \A i \in 1..Len(queue'[p]) : QueueOf[queue'[p][i]] = p
                          /\ \A i, j \in 1..Len(queue'[p]) :
                               i # j => queue'[p][i] # queue'[p][j]
                          /\ \A i \in 2..Len(queue'[p]) : trans_cnt'[queue'[p][i]] = 0
      BY DEF QueueInv
    <3>2. CASE p = q
      <4>1. \A i \in 1..Len(Tail(s)) : i + 1 \in 2..Len(s) /\ Tail(s)[i] = s[i + 1]
        BY <1>1
      <4>2. \A i \in 2..Len(s) : s[i] \in Event \ {e} /\ QueueOf[s[i]] = q /\ trans_cnt[s[i]] = 0
        BY <1>1, <1>6 DEF QueueInv
      <4>3. \A i, j \in 1..Len(s) : i # j => s[i] # s[j]
        BY DEF QueueInv
      <4>4. ASSUME NEW i \in 1..Len(Tail(s))
            PROVE  QueueOf[Tail(s)[i]] = q /\ trans_cnt'[Tail(s)[i]] = 0
        <5>1. i + 1 \in 2..Len(s) /\ Tail(s)[i] = s[i + 1]
          BY <4>1
        <5>2. s[i + 1] \in Event \ {e} /\ QueueOf[s[i + 1]] = q /\ trans_cnt[s[i + 1]] = 0
          BY <4>2, <5>1
        <5>. QED
          BY <1>4, <5>1, <5>2
      <4>5. ASSUME NEW i \in 1..Len(Tail(s)), NEW j \in 1..Len(Tail(s)), i # j
            PROVE  Tail(s)[i] # Tail(s)[j]
        <5>1. /\ i + 1 \in 1..Len(s) /\ Tail(s)[i] = s[i + 1]
              /\ j + 1 \in 1..Len(s) /\ Tail(s)[j] = s[j + 1] /\ i + 1 # j + 1
          BY <1>1, <4>1, <4>5
        <5>. QED
          BY <4>3, <5>1
      <4>6. queue'[p] = Tail(s) /\ \A i \in 2..Len(Tail(s)) : i \in 1..Len(Tail(s))
        BY <1>1, <2>1, <3>2
      <4>. HIDE DEF s
      <4>. QED
        BY <3>2, <4>4, <4>5, <4>6
    <3>3. CASE p # q
      <4>1. queue'[p] = queue[p]
        BY <2>1, <3>3
      <4>2. \A i \in 1..Len(queue[p]) : queue[p][i] \in Event \ {e}
        BY <1>2, <1>6, <3>3
      <4>3. Len(queue[p]) \in Nat
        BY DEF TypeInv
      <4>. QED
        BY <1>4, <4>1, <4>2, <4>3 DEF QueueInv
    <3>. QED
      BY <3>2, <3>3
  <2>3. IssueInv'
    <3>1. SUFFICES ASSUME NEW x \in Event
                   PROVE  /\ trans_cnt'[x] <= NumTrans[x]
                          /\ x \notin Handed => trans_cnt'[x] = 0
                          /\ trans_cnt'[x] < NumTrans[x] /\ x \in Handed <=> InQueue(x)'
      BY <1>5 DEF IssueInv
    <3>2. CASE x = e
      <4>1. ~InQueue(x)'
        <5>1. ASSUME NEW i \in 1..Len(Tail(s)) PROVE Tail(s)[i] # e
          <6>1. i + 1 \in 2..Len(s) /\ Tail(s)[i] = s[i + 1]
            BY <1>1
          <6>. QED
            BY <1>6, <6>1
        <5>. QED
          BY <1>2, <2>1, <3>2, <5>1 DEF InQueue
      <4>. QED
        BY <1>3, <1>4, <1>7, <3>2, <4>1
    <3>3. CASE x # e
      <4>1. InQueue(x)' <=> InQueue(x)
        <5>1. CASE QueueOf[x] = q
          <6>1. ASSUME NEW i \in 1..Len(s), s[i] = x
                PROVE  i - 1 \in 1..Len(Tail(s)) /\ Tail(s)[i - 1] = x
            <7>1. i # 1
              BY <1>1, <3>3, <6>1
            <7>2. i - 1 \in 1..(Len(s) - 1) /\ (i - 1) + 1 = i
              BY <1>1, <7>1
            <7>. QED
              BY <1>1, <6>1, <7>2
          <6>2. ASSUME NEW i \in 1..Len(Tail(s)), Tail(s)[i] = x
                PROVE  i + 1 \in 1..Len(s) /\ s[i + 1] = x
            BY <1>1, <6>2
          <6>. QED
            BY <2>1, <5>1, <6>1, <6>2 DEF InQueue
        <5>2. CASE QueueOf[x] # q
          <6>1. QueueOf[x] \in Queue
            BY CoordinatorAssumption
          <6>. QED
            BY <2>1, <5>2, <6>1 DEF InQueue
        <5>. QED
          BY <5>1, <5>2
      <4>. QED
        BY <1>4, <3>3, <4>1 DEF IssueInv
    <3>. QED
      BY <3>2, <3>3
  <2>4. OrderInv'
    <3>1. CASE q = "tmps"
      <4>0. SUFFICES InOrder(asked, Tail(s))
        BY <2>1, <3>1 DEF OrderInv
      <4>1. SUFFICES ASSUME NEW i \in 1..Len(asked), NEW j \in 1..Len(asked),
                            NEW x \in 1..Len(Tail(s)),
                            i < j, InRing(asked[j]), Tail(s)[x] = asked[i]
                     PROVE  \E y \in (x + 1)..Len(Tail(s)) : Tail(s)[y] = asked[j]
        BY DEF InOrder
      <4>2. x + 1 \in 1..Len(s) /\ s[x + 1] = asked[i]
        BY <1>1, <4>1
      <4>3. PICK y \in (x + 2)..Len(s) : s[y] = asked[j]
        <5>1. \E y \in (x + 1 + 1)..Len(s) : s[y] = asked[j]
          BY <3>1, <4>1, <4>2 DEF OrderInv, InOrder
        <5>. QED
          BY <1>1, <5>1
      <4>4. y - 1 \in (x + 1)..Len(Tail(s)) /\ y - 1 \in 1..(Len(s) - 1) /\ (y - 1) + 1 = y
        BY <1>1
      <4>. QED
        BY <1>1, <4>3, <4>4
    <3>2. CASE q # "tmps"
      <4>1. queue'["tmps"] = queue["tmps"]
        BY <2>1, <3>2 DEF Queue
      <4>. QED
        BY <4>1 DEF OrderInv
    <3>. QED
      BY <3>1, <3>2
  <2>. QED
    BY <1>1, <1>2, <1>4, <2>1, <2>2, <2>3, <2>4
<1>8. CASE trans_cnt[e] + n # NumTrans[e]
  <2>1. queue' = queue
    BY <1>1, <1>2, <1>8 DEF Issued, TypeInv
  <2>2. QueueInv'
    <3>1. \A p \in Queue : \A i \in 2..Len(queue[p]) : trans_cnt'[queue[p][i]] = 0
      <4>1. SUFFICES ASSUME NEW p \in Queue, NEW i \in 2..Len(queue[p])
                     PROVE  trans_cnt'[queue[p][i]] = 0
        OBVIOUS
      <4>2. i \in 1..Len(queue[p]) /\ queue[p][i] \in Event /\ trans_cnt[queue[p][i]] = 0
        BY <1>6 DEF QueueInv
      <4>3. queue[p][i] # e
        BY <1>2, <1>6, <4>2
      <4>. QED
        BY <1>4, <4>2, <4>3
    <3>. QED
      BY <2>1, <3>1 DEF QueueInv
  <2>3. IssueInv'
    <3>1. SUFFICES ASSUME NEW x \in Event
                   PROVE  /\ trans_cnt'[x] <= NumTrans[x]
                          /\ x \notin Handed => trans_cnt'[x] = 0
                          /\ trans_cnt'[x] < NumTrans[x] /\ x \in Handed <=> InQueue(x)'
      BY <1>5 DEF IssueInv
    <3>2. InQueue(x)' <=> InQueue(x)
      BY <2>1 DEF InQueue
    <3>3. CASE x = e
      BY <1>3, <1>4, <1>8, <3>2, <3>3
    <3>4. CASE x # e
      BY <1>4, <3>2, <3>4 DEF IssueInv
    <3>. QED
      BY <3>3, <3>4
  <2>4. OrderInv'
    BY <2>1 DEF OrderInv
  <2>. QED
    BY <1>1, <1>2, <1>4, <2>1, <2>2, <2>3, <2>4 DEF TypeInv
<1>. QED
  BY <1>7, <1>8

\* Confirming a transaction that is under way gives the event back when it is
\* the last, and not before.
LEMMA ConfirmKeeps ==
  ASSUME TypeInv, IssueInv, BookInv, ReturnedOnce,
         NEW p \in events \cup edram_events, Confirm(p[2]), back' = back
  PROVE  /\ p[2] \in Event
         /\ confirm_cnt' \in [Event -> Nat] /\ return_queue' \in Seq(Event)
         /\ confirm_cnt' = [confirm_cnt EXCEPT ![p[2]] = @ + 1]
         /\ ReturnedOnce'
<1>. DEFINE e == p[2]
            S == events \cup edram_events
            l == Len(return_queue)
<1>1. e \in Event /\ IsFiniteSet(S)
  BY FS_Union DEF TypeInv, DramEvent, RingEvent
<1>2. /\ confirm_cnt[e] \in Nat /\ trans_cnt[e] \in Nat /\ NumTrans[e] \in Nat
      /\ return_queue \in Seq(Event) /\ l \in Nat
  BY <1>1, CoordinatorAssumption DEF TypeInv
<1>3. Cardinality(Of(S, e)) \in Nat \ {0}
  <2>1. IsFiniteSet(Of(S, e)) /\ p \in Of(S, e)
    BY <1>1, FS_Subset DEF Of
  <2>2. Cardinality(Of(S, e)) \in Nat /\ Cardinality(Of(S, e)) # 0
    BY <2>1, FS_CardinalityType, FS_EmptySet
  <2>. QED
    BY <2>2
<1>4. confirm_cnt[e] < NumTrans[e]
  <2>1. confirm_cnt[e] + Cardinality(Of(S, e)) = trans_cnt[e] /\ trans_cnt[e] <= NumTrans[e]
    BY <1>1 DEF BookInv, IssueInv
  <2>. QED
    BY <1>2, <1>3, <2>1
<1>5. e \notin InReturn /\ e \notin back
  BY <1>1, <1>2, <1>4 DEF ReturnedOnce, Confirmed
<1>6. /\ confirm_cnt' = [confirm_cnt EXCEPT ![e] = @ + 1]
      /\ confirm_cnt' \in [Event -> Nat] /\ confirm_cnt'[e] = confirm_cnt[e] + 1
      /\ \A x \in Event \ {e} : confirm_cnt'[x] = confirm_cnt[x]
  BY <1>1, <1>2 DEF TypeInv, Confirm
<1>7. CASE confirm_cnt'[e] = NumTrans[e]
  <2>1. /\ return_queue' = Append(return_queue, e) /\ return_queue' \in Seq(Event)
        /\ Len(return_queue') = l + 1 /\ return_queue'[l + 1] = e
        /\ \A i \in 1..l : return_queue'[i] = return_queue[i]
    BY <1>1, <1>2, <1>7 DEF Confirm
  <2>2. InReturn' = InReturn \cup {e}
    BY <1>2, <2>1 DEF InReturn
  <2>3. Confirmed' = Confirmed \cup {e}
    BY <1>1, <1>6, <1>7 DEF Confirmed
  <2>4. \A i, j \in 1..(l + 1) : i # j => return_queue'[i] # return_queue'[j]
    <3>1. \A i \in 1..l : return_queue'[i] \in InReturn
      BY <2>1 DEF InReturn
    <3>2. \A i, j \in 1..l : i # j => return_queue'[i] # return_queue'[j]
      BY <2>1 DEF ReturnedOnce
    <3>3. \A i \in 1..(l + 1) : i \in 1..l \/ i = l + 1
      BY <1>2
    <3>. QED
      BY <1>5, <2>1, <3>1, <3>2, <3>3
  <2>. QED
    BY <1>1, <1>5, <1>6, <2>1, <2>2, <2>3, <2>4 DEF ReturnedOnce
<1>8. CASE confirm_cnt'[e] # NumTrans[e]
  <2>1. return_queue' = return_queue
    BY <1>8 DEF Confirm
  <2>2. InReturn' = InReturn
    BY <2>1 DEF InReturn
  <2>3. Confirmed' = Confirmed
    BY <1>1, <1>2, <1>4, <1>6, <1>8 DEF Confirmed
  <2>. QED
    BY <1>1, <1>2, <1>6, <2>1, <2>2, <2>3 DEF ReturnedOnce
<1>. QED
  BY <1>7, <1>8

\* New entries are those of transactions now issued, one for each.
LEMMA EntriesBook ==
  ASSUME TypeInv, EntryInv, BookInv, NEW e \in Event, NEW n \in Nat,
         trans_cnt[e] + n <= NumTrans[e],
         trans_cnt' = [trans_cnt EXCEPT ![e] = @ + n], confirm_cnt' = confirm_cnt,
         (events \cup edram_events)' = (events \cup edram_events) \cup Entries(e, n)
  PROVE  EntryInv' /\ BookInv'
<1>. PICK E : E = Entries(e, n)
  OBVIOUS
<1>. PICK S : S = events \cup edram_events
  OBVIOUS
<1>1. /\ \A p \in E : p[2] = e /\ \E k \in 0..(trans_cnt[e] + n - 1) : p[1] = Addr(e, k)
      /\ E \cap S = {}
      /\ IsFiniteSet(E) /\ Cardinality(E) = n
  BY EntriesNew
<1>2. /\ trans_cnt[e] \in Nat /\ trans_cnt'[e] = trans_cnt[e] + n
      /\ \A x \in Event \ {e} : trans_cnt'[x] = trans_cnt[x]
  BY DEF TypeInv
<1>3. IsFiniteSet(S)
  BY FS_Union DEF TypeInv
<1>4. EntryInv'
  <2>1. SUFFICES ASSUME NEW p \in S \cup E
                 PROVE  \E k \in 0..(trans_cnt'[p[2]] - 1) : p[1] = Addr(p[2], k)
    BY DEF EntryInv
  <2>2. CASE p \in E
    <3>1. p[2] = e
      BY <1>1, <2>2
    <3>2. PICK k \in 0..(trans_cnt[e] + n - 1) : p[1] = Addr(e, k)
      BY <1>1, <2>2
    <3>3. k \in 0..(trans_cnt'[e] - 1)
      BY <1>2, <3>2
    <3>. QED
      BY <3>1, <3>2, <3>3
  <2>3. CASE p \in S
    <3>1. PICK k \in 0..(trans_cnt[p[2]] - 1) : p[1] = Addr(p[2], k)
      BY <2>3 DEF EntryInv
    <3>2. p[2] \in Event
      BY <2>3 DEF TypeInv, DramEvent, RingEvent
    <3>3. trans_cnt[p[2]] \in Nat /\ trans_cnt'[p[2]] >= trans_cnt[p[2]] /\ trans_cnt'[p[2]] \in Nat
      BY <1>2, <3>2 DEF TypeInv
    <3>4. k \in 0..(trans_cnt'[p[2]] - 1)
      BY <3>1, <3>3
    <3>. QED
      BY <3>1, <3>4
  <2>. QED
    BY <2>1, <2>2, <2>3
<1>5. BookInv'
  <2>1. SUFFICES ASSUME NEW x \in Event
                 PROVE  confirm_cnt[x] + Cardinality(Of(S \cup E, x)) = trans_cnt'[x]
    BY DEF BookInv
  <2>2. /\ Cardinality(Of(S, x)) \in Nat /\ Cardinality(Of(E, x)) \in Nat
        /\ Cardinality(Of(S \cup E, x)) = Cardinality(Of(S, x)) + Cardinality(Of(E, x))
    <3>1. (\A p \in E : p \notin S) /\ IsFiniteSet(S) /\ IsFiniteSet(E)
      BY <1>1, <1>3
    <3>. QED
      BY <3>1, AddOf
  <2>3. confirm_cnt[x] \in Nat /\ confirm_cnt[x] + Cardinality(Of(S, x)) = trans_cnt[x]
    BY DEF TypeInv, BookInv
  <2>4. CASE x = e
    <3>1. Of(E, x) = E
      BY <1>1, <2>4 DEF Of
    <3>. QED
      BY <1>1, <1>2, <2>2, <2>3, <2>4, <3>1
  <2>5. CASE x # e
    <3>1. Of(E, x) = {}
      BY <1>1, <2>5 DEF Of
    <3>2. Cardinality(Of(E, x)) = 0
      BY <3>1, FS_EmptySet
    <3>. QED
      BY <1>2, <2>2, <2>3, <2>5, <3>2
  <2>. QED
    BY <2>4, <2>5
<1>. QED
  BY <1>4, <1>5

\* An entry that is taken out stands for a transaction now confirmed.
LEMMA ConfirmBook ==
  ASSUME TypeInv, EntryInv, BookInv, NEW p \in events \cup edram_events,
         confirm_cnt' = [confirm_cnt EXCEPT ![p[2]] = @ + 1], trans_cnt' = trans_cnt,
         (events \cup edram_events)' = (events \cup edram_events) \ {p}
  PROVE  EntryInv' /\ BookInv'
<1>. PICK S : S = events \cup edram_events
  OBVIOUS
<1>1. EntryInv'
  BY DEF EntryInv
<1>2. IsFiniteSet(S) /\ p \in S /\ p[2] \in Event
  BY FS_Union DEF TypeInv, DramEvent, RingEvent
<1>3. BookInv'
  <2>1. SUFFICES ASSUME NEW x \in Event
                 PROVE  confirm_cnt'[x] + Cardinality(Of(S \ {p}, x)) = trans_cnt[x]
    BY DEF BookInv
  <2>2. /\ Cardinality(Of(S, x)) \in Nat
        /\ Cardinality(Of(S \ {p}, x)) =
             IF p[2] = x THEN Cardinality(Of(S, x)) - 1 ELSE Cardinality(Of(S, x))
    BY <1>2, RemoveOf
  <2>3. /\ confirm_cnt[x] \in Nat /\ trans_cnt[x] \in Nat
        /\ confirm_cnt[x] + Cardinality(Of(S, x)) = trans_cnt[x]
    BY DEF TypeInv, BookInv
  <2>4. confirm_cnt'[x] = IF p[2] = x THEN confirm_cnt[x] + 1 ELSE confirm_cnt[x]
    BY <1>2 DEF TypeInv
  <2>. QED
    BY <2>2, <2>3, <2>4
<1>. QED
  BY <1>1, <1>3

\* A queue of the DRAM's that has events is served.
LEMMA ServedWaits ==
  ASSUME Waiting # {}
  PROVE  Served \in Waiting
<1>. DEFINE First(i) ==
       Priority[i] \in Waiting /\ \A j \in 1..(i - 1) : Priority[j] \notin Waiting
<1>1. /\ Priority[1] = "edges" /\ Priority[2] = "inputs"
      /\ Priority[3] = "weights" /\ Priority[4] = "outputs"
  BY DEF Priority
<1>2. "edges" \in Waiting \/ "inputs" \in Waiting \/ "weights" \in Waiting \/ "outputs" \in Waiting
  BY DEF Waiting, DramQueue
<1>3. \E i \in 1..4 : First(i)
  <2>1. CASE "edges" \in Waiting
    <3>. First(1)
      BY <1>1, <2>1
    <3>. QED
      OBVIOUS
  <2>2. CASE "edges" \notin Waiting /\ "inputs" \in Waiting
    <3>1. \A j \in 1..(2 - 1) : j = 1
      OBVIOUS
    <3>. First(2)
      BY <1>1, <2>2, <3>1
    <3>. QED
      OBVIOUS
  <2>3. CASE "edges" \notin Waiting /\ "inputs" \notin Waiting /\ "weights" \in Waiting
    <3>1. \A j \in 1..(3 - 1) : j = 1 \/ j = 2
      OBVIOUS
    <3>. First(3)
      BY <1>1, <2>3, <3>1
    <3>. QED
      OBVIOUS
  <2>4. CASE "edges" \notin Waiting /\ "inputs" \notin Waiting /\ "weights" \notin Waiting
    <3>1. \A j \in 1..(4 - 1) : j = 1 \/ j = 2 \/ j = 3
      OBVIOUS
    <3>. First(4)
      BY <1>1, <1>2, <2>4, <3>1
    <3>. QED
      OBVIOUS
  <2>. QED
    BY <2>1, <2>2, <2>3, <2>4
<1>. QED
  BY <1>3 DEF Served

-----------------------------------------------------------------------------
(* The invariant, action by action.                                        *)

\* An event that goes back leaves the queue of those that are to go.
LEMMA HandleReturnEventInv ==
  ASSUME IInv, HandleReturnEvent
  PROVE  IInv'
<1>. USE DEF IInv, HandleReturnEvent
<1>. DEFINE r == return_queue
<1>1. /\ r \in Seq(Event) /\ Len(r) \in Nat \ {0} /\ Head(r) = r[1] /\ Head(r) \in Event
      /\ Tail(r) \in Seq(Event) /\ Len(Tail(r)) = Len(r) - 1
      /\ \A i \in 1..(Len(r) - 1) : Tail(r)[i] = r[i + 1]
  BY DEF TypeInv
<1>2. TypeInv'
  BY <1>1 DEF TypeInv
<1>3. \A i, j \in 1..Len(r) : i # j => r[i] # r[j]
  BY DEF ReturnedOnce
<1>4. \A i \in 1..Len(Tail(r)) : i + 1 \in 2..Len(r) /\ Tail(r)[i] = r[i + 1]
  BY <1>1
<1>5. InReturn' = InReturn \ {Head(r)} /\ Head(r) \in InReturn
  <2>1. InReturn = {r[i] : i \in 1..Len(r)} /\ InReturn' = {Tail(r)[i] : i \in 1..Len(Tail(r))}
    BY DEF InReturn
  <2>2. ASSUME NEW e \in InReturn' PROVE e \in InReturn \ {Head(r)}
    <3>1. PICK i \in 1..Len(Tail(r)) : e = Tail(r)[i]
      BY <2>1, <2>2
    <3>2. e = r[i + 1] /\ i + 1 \in 1..Len(r) /\ i + 1 # 1 /\ 1 \in 1..Len(r)
      BY <1>1, <1>4, <3>1
    <3>. QED
      BY <1>1, <1>3, <2>1, <3>2
  <2>3. ASSUME NEW e \in InReturn \ {Head(r)} PROVE e \in InReturn'
    <3>1. PICK i \in 1..Len(r) : e = r[i]
      BY <2>1, <2>3
    <3>2. i # 1
      BY <1>1, <2>3, <3>1
    <3>3. i - 1 \in 1..(Len(r) - 1) /\ i - 1 \in 1..Len(Tail(r)) /\ (i - 1) + 1 = i
      BY <1>1, <3>2
    <3>. QED
      BY <1>1, <2>1, <3>1, <3>3
  <2>4. Head(r) \in InReturn
    BY <1>1, <2>1
  <2>5. InReturn' \subseteq InReturn \ {Head(r)} /\ InReturn \ {Head(r)} \subseteq InReturn'
    BY <2>2, <2>3
  <2>. QED
    BY <2>4, <2>5
<1>6. \A i, j \in 1..Len(Tail(r)) : i # j => Tail(r)[i] # Tail(r)[j]
  <2>1. SUFFICES ASSUME NEW i \in 1..Len(Tail(r)), NEW j \in 1..Len(Tail(r)), i # j
                 PROVE  Tail(r)[i] # Tail(r)[j]
    OBVIOUS
  <2>2. /\ i + 1 \in 1..Len(r) /\ Tail(r)[i] = r[i + 1]
        /\ j + 1 \in 1..Len(r) /\ Tail(r)[j] = r[j + 1]
    BY <1>1, <1>4
  <2>3. i + 1 # j + 1
    BY <2>1, <1>1
  <2>. QED
    BY <1>3, <2>2, <2>3
<1>7. ReturnedOnce'
  <2>1. Confirmed' = Confirmed
    BY DEF Confirmed
  <2>2. back' = back \cup {Head(r)} /\ return_queue' = Tail(r)
    OBVIOUS
  <2>3. InReturn \cap back = {} /\ InReturn \cup back = Confirmed
    BY DEF ReturnedOnce
  <2>. QED
    BY <1>5, <1>6, <2>1, <2>2, <2>3 DEF ReturnedOnce
<1>8. QueueInv' /\ OrderInv'
  BY DEF QueueInv, OrderInv
<1>9. IssueInv'
  BY DEF IssueInv, InQueue, Handed
<1>10. EntryInv' /\ BookInv' /\ FindInv' /\ ServedInv'
  BY DEF EntryInv, BookInv, FindInv, ServedInv
<1>. QED
  BY <1>2, <1>7, <1>8, <1>9, <1>10

\* What the DRAM takes of the head of a queue has its entries.
LEMMA IssueDramInv ==
  ASSUME IInv, NEW n \in Counts, IssueDram(n)
  PROVE  IInv'
<1>. PICK q : q = Served
  OBVIOUS
<1>. PICK e : e = Head(queue[q])
  OBVIOUS
<1>. PICK E : E = Entries(e, n)
  OBVIOUS
<1>. PICK S : S = events \cup edram_events
  OBVIOUS
<1>1. q \in DramQueue /\ q \in Queue /\ queue[q] # <<>>
  BY ServedWaits DEF IssueDram, Waiting, Queue
<1>2. n \in Nat
  BY CoordinatorAssumption DEF Counts
<1>3. /\ e \in Event /\ QueueOf[e] = q
      /\ queue' \in [Queue -> Seq(Event)] /\ trans_cnt' \in [Event -> Nat]
      /\ trans_cnt' = [trans_cnt EXCEPT ![e] = @ + n]
      /\ QueueInv' /\ IssueInv' /\ OrderInv'
  BY <1>1, <1>2, IssuedKeeps DEF IInv, IssueDram
<1>4. ~InRing(e) /\ e \in DramEvent
  BY <1>1, <1>3 DEF InRing, DramQueue, DramEvent
<1>5. /\ E \subseteq DramAddr \X {e}
      /\ \A p \in E : \E k \in 0..(trans_cnt[e] + n - 1) : p[1] = Addr(e, k)
      /\ E \cap S = {}
      /\ IsFiniteSet(E) /\ Cardinality(E) = n
  BY <1>2, <1>3, <1>4, EntriesNew DEF IInv, IssueDram
<1>6. /\ events' = events \cup E /\ edram_events' = edram_events
      /\ (events \cup edram_events)' = S \cup E
  BY DEF IssueDram
<1>8. IsFiniteSet(events)
  BY DEF IInv, TypeInv
<1>9. TypeInv'
  <2>1. IsFiniteSet(events') /\ events' \subseteq DramAddr \X DramEvent
    BY <1>4, <1>5, <1>6, FS_Union DEF IInv, TypeInv
  <2>2. dram' \in [DramAddr -> Nat]
    <3>1. \A a \in DramAddr : Cardinality(At(E, a)) \in Nat
      BY <1>5, FS_Subset, FS_CardinalityType DEF At
    <3>2. dram' = [a \in DramAddr |-> dram[a] + Cardinality(At(E, a))]
      BY DEF IssueDram, At
    <3>. QED
      BY <3>1, <3>2 DEF IInv, TypeInv
  <2>. QED
    BY <1>3, <2>1, <2>2 DEF IInv, TypeInv, IssueDram, PC
<1>10. EntryInv' /\ BookInv'
  <2>1. confirm_cnt' = confirm_cnt /\ trans_cnt[e] + n <= NumTrans[e]
    BY DEF IssueDram
  <2>. QED
    BY <1>2, <1>3, <1>6, <2>1, EntriesBook DEF IInv
<1>11. FindInv'
  <2>1. ASSUME NEW a \in DramAddr PROVE dram'[a] = Cardinality(At(events \cup E, a))
    <3>1. dram'[a] = dram[a] + Cardinality(At(E, a))
      BY DEF IssueDram, At
    <3>2. \A p \in E : p \notin events
      BY <1>5
    <3>3. Cardinality(At(events \cup E, a)) = Cardinality(At(events, a)) + Cardinality(At(E, a))
      <4>1. IsFiniteSet(events) /\ IsFiniteSet(E)
        BY <1>5, <1>8
      <4>. QED
        BY <3>2, <4>1, AddAt
    <3>. QED
      BY <3>1, <3>3 DEF IInv, FindInv
  <2>2. trans' = trans
    BY DEF IssueDram
  <2>. QED
    BY <1>6, <2>1, <2>2 DEF IInv, FindInv
<1>12. ReturnedOnce' /\ ServedInv'
  BY DEF IInv, ReturnedOnce, InReturn, Confirmed, ServedInv, IssueDram
<1>. QED
  BY <1>3, <1>9, <1>10, <1>11, <1>12 DEF IInv

\* One transaction more to the ring, and its entry.
LEMMA IssueEdramInv ==
  ASSUME IInv, IssueEdram
  PROVE  IInv'
<1>. PICK e : e = Head(queue["tmps"])
  OBVIOUS
<1>. PICK E : E = Entries(e, 1)
  OBVIOUS
<1>. PICK b : b = Addr(e, trans_cnt[e])
  OBVIOUS
<1>1. "tmps" \in Queue /\ queue["tmps"] # <<>> /\ Issued(e, 1) /\ asked' = asked
  BY DEF IssueEdram, Queue
<1>2. trans_cnt[e] + 1 <= NumTrans[e] /\ trans_cnt[e] \in Nat
  <2>1. queue["tmps"] \in Seq(Event) /\ e \in Event
    BY <1>1 DEF IInv, TypeInv
  <2>2. e = queue["tmps"][1] /\ 1 \in 1..Len(queue["tmps"])
    BY <1>1, <2>1
  <2>3. QueueOf[e] = "tmps"
    BY <1>1, <2>2 DEF IInv, QueueInv
  <2>4. InQueue(e)
    BY <2>2, <2>3 DEF InQueue
  <2>5. trans_cnt[e] < NumTrans[e]
    BY <2>1, <2>4 DEF IInv, IssueInv
  <2>6. trans_cnt[e] \in Nat /\ NumTrans[e] \in Nat
    BY <2>1, CoordinatorAssumption DEF IInv, TypeInv
  <2>. QED
    BY <2>5, <2>6
<1>3. /\ e \in Event /\ QueueOf[e] = "tmps"
      /\ queue' \in [Queue -> Seq(Event)] /\ trans_cnt' \in [Event -> Nat]
      /\ trans_cnt' = [trans_cnt EXCEPT ![e] = @ + 1]
      /\ QueueInv' /\ IssueInv' /\ OrderInv'
  BY <1>1, <1>2, IssuedKeeps DEF IInv
<1>4. InRing(e) /\ e \in RingEvent
  BY <1>3 DEF InRing, RingEvent
<1>5. /\ E \subseteq RingAddr \X {e} /\ IsFiniteSet(E)
      /\ \A p \in E : p \notin events \cup edram_events
  <2>1. /\ E \subseteq (IF InRing(e) THEN RingAddr ELSE DramAddr) \X {e}
        /\ E \cap (events \cup edram_events) = {} /\ IsFiniteSet(E)
    BY <1>2, <1>3, EntriesNew DEF IInv
  <2>. QED
    BY <1>4, <2>1
<1>6. E = {<<b, e>>} /\ b \in RingAddr
  <2>1. trans_cnt[e]..(trans_cnt[e] + 1 - 1) = {trans_cnt[e]}
    BY <1>2
  <2>2. E = {<<b, e>>}
    BY <2>1 DEF Entries
  <2>3. <<b, e>> \in RingAddr \X {e}
    BY <1>5, <2>2
  <2>. QED
    BY <2>2, <2>3
<1>7. /\ edram_events' = edram_events \cup E /\ events' = events
      /\ (events \cup edram_events)' = (events \cup edram_events) \cup E
      /\ trans' = Append(trans, b)
  BY DEF IssueEdram
<1>8. TypeInv'
  <2>1. IsFiniteSet(edram_events') /\ edram_events' \subseteq RingAddr \X RingEvent
    BY <1>4, <1>5, <1>7, FS_Union DEF IInv, TypeInv
  <2>2. trans' \in Seq(RingAddr)
    BY <1>6, <1>7 DEF IInv, TypeInv
  <2>. QED
    BY <1>3, <2>1, <2>2 DEF IInv, TypeInv, IssueEdram
<1>9. EntryInv' /\ BookInv'
  <2>1. confirm_cnt' = confirm_cnt
    BY DEF IssueEdram
  <2>. QED
    BY <1>2, <1>3, <1>7, <2>1, EntriesBook DEF IInv
<1>10. FindInv'
  <2>1. ASSUME NEW a \in RingAddr
        PROVE  Cardinality(Places(trans', a)) = Cardinality(At(edram_events', a))
    <3>1. /\ Cardinality(At(edram_events, a)) \in Nat
          /\ Cardinality(At(edram_events \cup E, a)) =
               Cardinality(At(edram_events, a)) + Cardinality(At(E, a))
      <4>1. IsFiniteSet(edram_events) /\ \A p \in E : p \notin edram_events
        BY <1>5 DEF IInv, TypeInv
      <4>2. /\ Cardinality(At(edram_events, a)) \in Nat /\ Cardinality(At(E, a)) \in Nat
            /\ Cardinality(At(edram_events \cup E, a)) =
                 Cardinality(At(edram_events, a)) + Cardinality(At(E, a))
        BY <1>5, <4>1, AddAt
      <4>. QED
        BY <4>2
    <3>2. Cardinality(At(E, a)) = IF b = a THEN 1 ELSE 0
      <4>1. CASE b = a
        <5>1. At(E, a) = {<<b, e>>}
          BY <1>6, <4>1 DEF At
        <5>. QED
          BY <4>1, <5>1, FS_Singleton
      <4>2. CASE b # a
        <5>1. At(E, a) = {}
          BY <1>6, <4>2 DEF At
        <5>. QED
          BY <4>2, <5>1, FS_EmptySet
      <4>. QED
        BY <4>1, <4>2
    <3>3. Cardinality(Places(trans', a)) =
            IF b = a THEN Cardinality(Places(trans, a)) + 1 ELSE Cardinality(Places(trans, a))
      <4>1. trans \in Seq(RingAddr)
        BY DEF IInv, TypeInv
      <4>. QED
        BY <1>6, <1>7, <4>1, AppendPlaces
    <3>4. Cardinality(Places(trans, a)) = Cardinality(At(edram_events, a))
      BY DEF IInv, FindInv
    <3>. QED
      BY <1>7, <3>1, <3>2, <3>3, <3>4
  <2>2. dram' = dram
    BY DEF IssueEdram
  <2>. QED
    BY <1>7, <2>1, <2>2 DEF IInv, FindInv
<1>11. ReturnedOnce' /\ ServedInv'
  BY DEF IInv, ReturnedOnce, InReturn, Confirmed, ServedInv, IssueEdram
<1>. QED
  BY <1>3, <1>8, <1>9, <1>10, <1>11 DEF IInv

\* A new event comes behind all others of its queue.
LEMMA AddEventInv ==
  ASSUME IInv, NEW e \in Event, AddEvent(e)
  PROVE  IInv'
<1>. PICK q : q = QueueOf[e]
  OBVIOUS
<1>. PICK s : s = queue[q]
  OBVIOUS
<1>1. q \in Queue /\ s \in Seq(Event) /\ Len(s) \in Nat
  BY CoordinatorAssumption DEF IInv, TypeInv
<1>2. /\ Append(s, e) \in Seq(Event) /\ Len(Append(s, e)) = Len(s) + 1
      /\ Append(s, e)[Len(s) + 1] = e
      /\ \A i \in 1..Len(s) : Append(s, e)[i] = s[i]
  BY <1>1
<1>3. /\ queue' \in [Queue -> Seq(Event)] /\ queue'[q] = Append(s, e)
      /\ \A p \in Queue \ {q} : queue'[p] = queue[p]
  BY <1>1, <1>2 DEF IInv, TypeInv, AddEvent
<1>4. e \notin Handed /\ trans_cnt[e] = 0 /\ ~InQueue(e)
  BY DEF IInv, IssueInv, AddEvent
<1>5. /\ asked \in Seq(Event) /\ Len(asked) \in Nat
      /\ asked' = Append(asked, e) /\ Len(asked') = Len(asked) + 1
      /\ asked'[Len(asked) + 1] = e
      /\ \A i \in 1..Len(asked) : asked'[i] = asked[i] /\ asked[i] \in Handed
      /\ asked' \in Seq(Event)
  BY DEF IInv, TypeInv, AddEvent, Handed
<1>6. Handed' = Handed \cup {e}
  BY <1>5 DEF Handed
<1>7. TypeInv'
  BY <1>3, <1>5 DEF IInv, TypeInv, AddEvent
<1>8. QueueInv'
  <2>1. SUFFICES ASSUME NEW p \in Queue
                 PROVE  /\ \A i \in 1..Len(queue'[p]) : QueueOf[queue'[p][i]] = p
                        /\ \A i, j \in 1..Len(queue'[p]) :
                             i # j => queue'[p][i] # queue'[p][j]
                        /\ \A i \in 2..Len(queue'[p]) : trans_cnt[queue'[p][i]] = 0
    BY DEF QueueInv, AddEvent
  <2>2. CASE p # q
    <3>1. queue'[p] = queue[p]
      BY <1>3, <2>2
    <3>. QED
      BY <3>1 DEF IInv, QueueInv
  <2>3. CASE p = q
    <3>1. \A i \in 1..Len(s) : QueueOf[s[i]] = q /\ s[i] # e
      BY <1>1, <1>4 DEF IInv, QueueInv, InQueue
    <3>2. \A i, j \in 1..Len(s) : i # j => s[i] # s[j]
      BY <1>1 DEF IInv, QueueInv
    <3>3. \A i \in 2..Len(s) : trans_cnt[s[i]] = 0
      BY <1>1 DEF IInv, QueueInv
    <3>4. /\ \A i \in 1..(Len(s) + 1) : i \in 1..Len(s) \/ i = Len(s) + 1
          /\ \A i \in 2..(Len(s) + 1) :
                \/ i \in 2..Len(s) /\ i \in 1..Len(s)
                \/ i = Len(s) + 1
      BY <1>1
    <3>5. PICK u : u = Append(s, e)
      OBVIOUS
    <3>6. /\ queue'[p] = u /\ Len(u) = Len(s) + 1 /\ u[Len(s) + 1] = e
          /\ \A i \in 1..Len(s) : u[i] = s[i]
      BY <1>2, <1>3, <2>3, <3>5
    <3>7. \A i \in 1..(Len(s) + 1) : QueueOf[u[i]] = q
      BY <3>1, <3>4, <3>6
    <3>8. \A i, j \in 1..(Len(s) + 1) : i # j => u[i] # u[j]
      BY <3>1, <3>2, <3>4, <3>6
    <3>9. \A i \in 2..(Len(s) + 1) : trans_cnt[u[i]] = 0
      BY <1>4, <3>3, <3>4, <3>6
    <3>. QED
      BY <2>3, <3>6, <3>7, <3>8, <3>9
  <2>. QED
    BY <2>2, <2>3
<1>9. IssueInv'
  <2>1. SUFFICES ASSUME NEW x \in Event
                 PROVE  /\ trans_cnt[x] <= NumTrans[x]
                        /\ x \notin Handed \cup {e} => trans_cnt[x] = 0
                        /\ trans_cnt[x] < NumTrans[x] /\ x \in Handed \cup {e} <=> InQueue(x)'
    BY <1>6 DEF IssueInv, AddEvent
  <2>2. CASE x = e
    <3>1. InQueue(x)'
      <4>1. Len(s) + 1 \in 1..Len(queue'[q]) /\ queue'[q][Len(s) + 1] = e
        BY <1>1, <1>2, <1>3
      <4>. QED
        BY <2>2, <4>1 DEF InQueue
    <3>2. NumTrans[e] \in Nat \ {0}
      BY CoordinatorAssumption
    <3>. QED
      BY <1>4, <2>2, <3>1, <3>2
  <2>3. CASE x # e
    <3>1. InQueue(x)' <=> InQueue(x)
      <4>1. CASE QueueOf[x] = q
        <5>1. ASSUME NEW i \in 1..(Len(s) + 1), Append(s, e)[i] = x
              PROVE  i \in 1..Len(s) /\ s[i] = x
          BY <1>1, <1>2, <2>3, <5>1
        <5>2. \A i \in 1..Len(s) : i \in 1..(Len(s) + 1)
          BY <1>1
        <5>. QED
          BY <1>2, <1>3, <4>1, <5>1, <5>2 DEF InQueue
      <4>2. CASE QueueOf[x] # q
        <5>1. QueueOf[x] \in Queue
          BY CoordinatorAssumption
        <5>. QED
          BY <1>3, <4>2, <5>1 DEF InQueue
      <4>. QED
        BY <4>1, <4>2
    <3>. QED
      BY <2>3, <3>1 DEF IInv, IssueInv
  <2>. QED
    BY <2>2, <2>3
<1>10. OrderInv'
  <2>. PICK t : t = queue["tmps"]
    OBVIOUS
  <2>. PICK u : u = queue'["tmps"]
    OBVIOUS
  <2>1. /\ t \in Seq(Event) /\ Len(t) \in Nat
        /\ InOrder(asked, t)
    BY DEF IInv, OrderInv, TypeInv, Queue
  <2>2. \/ InRing(e) /\ Len(u) = Len(t) + 1 /\ u[Len(t) + 1] = e /\ \A i \in 1..Len(t) : u[i] = t[i]
        \/ ~InRing(e) /\ u = t
    <3>1. CASE q = "tmps"
      BY <1>2, <1>3, <3>1 DEF InRing
    <3>2. CASE q # "tmps"
      BY <1>3, <3>2 DEF InRing, Queue
    <3>. QED
      BY <3>1, <3>2
  <2>3. SUFFICES ASSUME NEW i \in 1..Len(asked'), NEW j \in 1..Len(asked'), NEW x \in 1..Len(u),
                        i < j, InRing(asked'[j]), u[x] = asked'[i]
                 PROVE  \E y \in (x + 1)..Len(u) : u[y] = asked'[j]
    <3>1. SUFFICES InOrder(asked', u)
      BY DEF OrderInv
    <3>. QED
      BY DEF InOrder
  <2>4. i \in 1..Len(asked) /\ asked'[i] = asked[i] /\ asked[i] # e
    <3>1. i \in 1..Len(asked)
      BY <1>5, <2>3
    <3>. QED
      BY <1>4, <1>5, <3>1
  <2>5. x \in 1..Len(t) /\ t[x] = asked[i]
    BY <2>1, <2>2, <2>3, <2>4
  <2>6. CASE j = Len(asked) + 1
    <3>1. asked'[j] = e /\ InRing(e)
      BY <1>5, <2>3, <2>6
    <3>2. Len(t) + 1 \in (x + 1)..Len(u) /\ u[Len(t) + 1] = e
      BY <2>1, <2>2, <2>5, <3>1
    <3>. QED
      BY <3>1, <3>2
  <2>7. CASE j \in 1..Len(asked)
    <3>1. asked'[j] = asked[j] /\ InRing(asked[j])
      BY <1>5, <2>3, <2>7
    <3>2. PICK y \in (x + 1)..Len(t) : t[y] = asked[j]
      BY <2>1, <2>3, <2>4, <2>5, <2>7, <3>1 DEF InOrder
    <3>3. y \in 1..Len(t) /\ y \in (x + 1)..Len(u)
      BY <2>1, <2>2, <2>5
    <3>. QED
      BY <2>2, <3>1, <3>2, <3>3
  <2>. QED
    BY <1>5, <2>6, <2>7
<1>11. EntryInv' /\ BookInv' /\ FindInv' /\ ServedInv'
  BY DEF IInv, EntryInv, BookInv, FindInv, ServedInv, AddEvent
<1>12. ReturnedOnce'
  BY DEF IInv, ReturnedOnce, InReturn, Confirmed, AddEvent
<1>. QED
  BY <1>7, <1>8, <1>9, <1>10, <1>11, <1>12 DEF IInv

\* The DRAM answers: an entry of the address goes.
LEMMA MemCallbackInv ==
  ASSUME IInv, NEW a \in DramAddr, MemCallback(a)
  PROVE  IInv'
<1>1. PICK p \in events :
        /\ p[1] = a /\ Confirm(p[2]) /\ events' = events \ {p}
  BY DEF MemCallback
<1>2. /\ dram' = [dram EXCEPT ![a] = @ - 1] /\ dram[a] > 0
      /\ trans_cnt' = trans_cnt /\ queue' = queue /\ asked' = asked /\ trans' = trans
      /\ edram_events' = edram_events /\ back' = back /\ pc' = pc
  BY DEF MemCallback
<1>3. /\ p \in DramAddr \X DramEvent /\ p \notin edram_events
      /\ IsFiniteSet(events)
  BY DEF IInv, TypeInv, DramEvent, RingEvent
<1>4. (events \cup edram_events)' = (events \cup edram_events) \ {p}
  BY <1>1, <1>2, <1>3
<1>5. /\ p[2] \in Event
      /\ confirm_cnt' \in [Event -> Nat] /\ return_queue' \in Seq(Event)
      /\ confirm_cnt' = [confirm_cnt EXCEPT ![p[2]] = @ + 1]
      /\ ReturnedOnce'
  BY <1>1, <1>2, ConfirmKeeps DEF IInv
<1>6. EntryInv' /\ BookInv'
  BY <1>2, <1>4, <1>5, ConfirmBook DEF IInv
<1>7. TypeInv'
  <2>1. IsFiniteSet(events') /\ events' \subseteq DramAddr \X DramEvent
    BY <1>1, <1>3, FS_RemoveElement DEF IInv, TypeInv
  <2>2. dram' \in [DramAddr -> Nat]
    BY <1>2 DEF IInv, TypeInv
  <2>. QED
    BY <1>2, <1>5, <2>1, <2>2 DEF IInv, TypeInv
<1>8. FindInv'
  <2>1. ASSUME NEW b \in DramAddr PROVE dram'[b] = Cardinality(At(events', b))
    <3>1. /\ Cardinality(At(events, b)) \in Nat
          /\ Cardinality(At(events \ {p}, b)) =
               IF p[1] = b THEN Cardinality(At(events, b)) - 1 ELSE Cardinality(At(events, b))
      BY <1>3, RemoveAt
    <3>2. dram'[b] = IF a = b THEN dram[b] - 1 ELSE dram[b]
      BY <1>2 DEF IInv, TypeInv
    <3>. QED
      BY <1>1, <3>1, <3>2 DEF IInv, FindInv
  <2>. QED
    BY <1>2, <2>1 DEF IInv, FindInv
<1>9. QueueInv' /\ OrderInv' /\ ServedInv'
  BY <1>2 DEF IInv, QueueInv, OrderInv, ServedInv
<1>10. IssueInv'
  BY <1>2 DEF IInv, IssueInv, InQueue, Handed
<1>. QED
  BY <1>5, <1>6, <1>7, <1>8, <1>9, <1>10 DEF IInv

\* The ring answers the first of its queue.
LEMMA BufCallbackInv ==
  ASSUME IInv, BufCallback
  PROVE  IInv'
<1>1. PICK p \in edram_events :
        /\ p[1] = Head(trans) /\ Confirm(p[2]) /\ edram_events' = edram_events \ {p}
  BY DEF BufCallback
<1>2. /\ trans' = Tail(trans) /\ trans # <<>> /\ pc = "ring"
      /\ trans_cnt' = trans_cnt /\ queue' = queue /\ asked' = asked /\ dram' = dram
      /\ events' = events /\ back' = back /\ pc' = pc
  BY DEF BufCallback
<1>3. /\ p \in RingAddr \X RingEvent /\ p \notin events
      /\ IsFiniteSet(edram_events) /\ trans \in Seq(RingAddr)
  BY DEF IInv, TypeInv, DramEvent, RingEvent
<1>4. (events \cup edram_events)' = (events \cup edram_events) \ {p}
  BY <1>1, <1>2, <1>3
<1>5. /\ p[2] \in Event
      /\ confirm_cnt' \in [Event -> Nat] /\ return_queue' \in Seq(Event)
      /\ confirm_cnt' = [confirm_cnt EXCEPT ![p[2]] = @ + 1]
      /\ ReturnedOnce'
  BY <1>1, <1>2, ConfirmKeeps DEF IInv
<1>6. EntryInv' /\ BookInv'
  BY <1>2, <1>4, <1>5, ConfirmBook DEF IInv
<1>7. TypeInv'
  <2>1. IsFiniteSet(edram_events') /\ edram_events' \subseteq RingAddr \X RingEvent
    BY <1>1, <1>3, FS_RemoveElement DEF IInv, TypeInv
  <2>2. trans' \in Seq(RingAddr)
    BY <1>2, <1>3
  <2>. QED
    BY <1>2, <1>5, <2>1, <2>2 DEF IInv, TypeInv
<1>8. FindInv'
  <2>1. ASSUME NEW b \in RingAddr
        PROVE  Cardinality(Places(trans', b)) = Cardinality(At(edram_events', b))
    <3>1. /\ Cardinality(At(edram_events, b)) \in Nat
          /\ Cardinality(At(edram_events \ {p}, b)) =
               IF p[1] = b THEN Cardinality(At(edram_events, b)) - 1
                           ELSE Cardinality(At(edram_events, b))
      BY <1>3, RemoveAt
    <3>2. /\ Cardinality(Places(trans, b)) \in Nat
          /\ Cardinality(Places(Tail(trans), b)) =
               IF Head(trans) = b THEN Cardinality(Places(trans, b)) - 1
                                  ELSE Cardinality(Places(trans, b))
      BY <1>2, <1>3, TailPlaces
    <3>. QED
      BY <1>1, <1>2, <3>1, <3>2 DEF IInv, FindInv
  <2>. QED
    BY <1>2, <2>1 DEF IInv, FindInv
<1>9. QueueInv' /\ OrderInv' /\ ServedInv'
  BY <1>2 DEF IInv, QueueInv, OrderInv, ServedInv
<1>10. IssueInv'
  BY <1>2 DEF IInv, IssueInv, InQueue, Handed
<1>. QED
  BY <1>5, <1>6, <1>7, <1>8, <1>9, <1>10 DEF IInv

\* A step to the next part of the tick, or no step at all.
LEMMA WalkInv ==
  ASSUME IInv, pc' \in PC,
         pc \in {"return", "issue"} \/ pc' \notin {"return", "issue"} \/ trans = <<>>,
         UNCHANGED <<queue, trans_cnt, confirm_cnt, events, edram_events, dram,
                     trans, return_queue, asked, back>>
  PROVE  IInv'
<1>1. TypeInv' /\ OrderInv' /\ FindInv'
  BY DEF IInv, TypeInv, OrderInv, FindInv
<1>5. QueueInv'
  BY DEF IInv, QueueInv
<1>6. EntryInv' /\ BookInv'
  BY DEF IInv, EntryInv, BookInv
<1>2. IssueInv'
  BY DEF IInv, IssueInv, InQueue, Handed
<1>3. ReturnedOnce'
  BY DEF IInv, ReturnedOnce, InReturn, Confirmed
<1>4. ServedInv'
  BY DEF IInv, ServedInv
<1>. QED
  BY <1>1, <1>2, <1>3, <1>4, <1>5, <1>6 DEF IInv

\* Nothing has been asked, issued or answered.
LEMMA InitInv == Init => IInv
<1>. SUFFICES ASSUME Init PROVE IInv
  OBVIOUS
<1>1. NumTrans \in [Event -> Nat \ {0}] /\ QueueOf \in [Event -> Queue]
  BY CoordinatorAssumption
<1>2. TypeInv
  BY FS_EmptySet DEF Init, TypeInv, PC
<1>3. \A q \in Queue : queue[q] = <<>>
  BY DEF Init
<1>4. QueueInv
  BY <1>3 DEF QueueInv
<1>5. Handed = {} /\ InReturn = {}
  BY DEF Init, Handed, InReturn
<1>6. \A e \in Event : ~InQueue(e)
  BY <1>1, <1>3 DEF InQueue
<1>7. IssueInv
  BY <1>1, <1>5, <1>6 DEF Init, IssueInv
<1>8. EntryInv
  BY DEF Init, EntryInv
<1>9. /\ \A x : At({}, x) = {} /\ Places(<<>>, x) = {}
      /\ Cardinality({}) = 0
  BY FS_EmptySet DEF At, Places
<1>10. BookInv
  <2>1. \A e \in Event : confirm_cnt[e] = 0 /\ trans_cnt[e] = 0
    BY DEF Init
  <2>2. events \cup edram_events = {}
    BY DEF Init
  <2>3. \A e \in Event : Of(events \cup edram_events, e) = {}
    BY <2>2 DEF Of
  <2>. SUFFICES ASSUME NEW e \in Event
                PROVE  confirm_cnt[e] + Cardinality(Of(events \cup edram_events, e)) = trans_cnt[e]
    BY DEF BookInv
  <2>4. Cardinality(Of(events \cup edram_events, e)) = 0
    BY <1>9, <2>3
  <2>. QED
    BY <2>1, <2>4
<1>14. FindInv
  <2>1. \A a \in DramAddr : dram[a] = 0
    BY DEF Init
  <2>2. \A a : At(events, a) = {} /\ At(edram_events, a) = {} /\ Places(trans, a) = {}
    BY <1>9 DEF Init
  <2>. QED
    BY <1>9, <2>1, <2>2 DEF FindInv
<1>11. Confirmed = {}
  BY <1>1 DEF Init, Confirmed
<1>12. ReturnedOnce
  BY <1>5, <1>11 DEF Init, ReturnedOnce
<1>13. OrderInv /\ ServedInv
  BY DEF Init, OrderInv, InOrder, ServedInv
<1>. QED
  BY <1>2, <1>4, <1>7, <1>8, <1>10, <1>12, <1>13, <1>14 DEF IInv

-----------------------------------------------------------------------------
\* Events and transactions fit together in every reachable state: the queues
\* hold what is still to be issued, the multimaps what is under way, and the
\* eDRAM has nothing left when a tick begins.
THEOREM Invariance == SafeSpec => []IInv
<1>1. IInv /\ [Next]_vars => IInv'
  <2>. SUFFICES ASSUME IInv, [Next]_vars PROVE IInv'
    OBVIOUS
  <2>1. CASE HandleReturnEvent
    BY <2>1, HandleReturnEventInv
  <2>2. CASE \E n \in Counts : IssueDram(n)
    BY <2>2, IssueDramInv
  <2>3. CASE IssueEdram
    BY <2>3, IssueEdramInv
  <2>4. CASE \E e \in Event : AddEvent(e)
    BY <2>4, AddEventInv
  <2>5. CASE \E a \in DramAddr : MemCallback(a)
    BY <2>5, MemCallbackInv
  <2>6. CASE BufCallback
    BY <2>6, BufCallbackInv
  <2>7. CASE AllHandled \/ NothingForDram
    BY <2>7, WalkInv DEF AllHandled, NothingForDram, PC
  <2>8. CASE EdramFull \/ EnginesDone
    BY <2>8, WalkInv DEF EdramFull, EnginesDone, PC
  <2>9. CASE DramDone \/ RingDone
    BY <2>9, WalkInv DEF DramDone, RingDone, PC
  <2>10. CASE UNCHANGED vars
    BY <2>10, WalkInv DEF vars, IInv, TypeInv
  <2>. QED
    BY <2>1, <2>2, <2>3, <2>4, <2>5, <2>6, <2>7, <2>8, <2>9, <2>10 DEF Next, ClockTick
<1>. QED
  BY InitInv, <1>1, PTL DEF SafeSpec

\* The assertions of the callbacks (hygcn.h:33, 49) never fail: every answer of
\* a memory finds an event.
THEOREM CallbackAlwaysFinds == SafeSpec => []CallbackFinds
<1>1. IInv => CallbackFinds
  BY DEF IInv, FindInv, CallbackFinds, At, Places, RingAddr
<1>. QED
  BY <1>1, Invariance, PTL

\* Whichever event of an address the callback finds, each event's transactions
\* are confirmed, under way or still to be issued (coordinator.cpp).
THEOREM TransactionsAccounted == SafeSpec => []TransAccounting
<1>1. IInv => TransAccounting
  BY DEF IInv, BookInv, IssueInv, TransAccounting, Of
<1>. QED
  BY <1>1, Invariance, PTL

\* An event goes back to its engine once, with the last of its transactions
\* (HandleReturnEvent).
THEOREM EventsReturnOnce == SafeSpec => []ReturnedOnce
<1>1. IInv => ReturnedOnce
  BY DEF IInv
<1>. QED
  BY <1>1, Invariance, PTL

\* What has been confirmed of an event was issued before.
LEMMA ConfirmedBefore ==
  ASSUME IInv, NEW e \in Event
  PROVE  /\ confirm_cnt[e] \in Nat /\ trans_cnt[e] \in Nat /\ NumTrans[e] \in Nat \ {0}
         /\ confirm_cnt[e] <= trans_cnt[e] /\ trans_cnt[e] <= NumTrans[e]
<1>1. /\ confirm_cnt[e] \in Nat /\ trans_cnt[e] \in Nat /\ NumTrans[e] \in Nat \ {0}
      /\ trans_cnt[e] <= NumTrans[e]
  BY CoordinatorAssumption DEF IInv, TypeInv, IssueInv
<1>2. IsFiniteSet(events \cup edram_events)
  BY FS_Union DEF IInv, TypeInv
<1>3. Cardinality(Of(events \cup edram_events, e)) \in Nat
  BY <1>2, FS_Subset, FS_CardinalityType DEF Of
<1>4. confirm_cnt[e] + Cardinality(Of(events \cup edram_events, e)) = trans_cnt[e]
  BY DEF IInv, BookInv
<1>. QED
  BY <1>1, <1>3, <1>4

\* What is asked of the ring is served in the order it was asked: a partial sum
\* is read after it was written (coordinator.cpp:91, aggr_buf.h).
THEOREM RingServedInOrder == SafeSpec => []RingInOrder
<1>1. IInv => RingInOrder
  <2>. SUFFICES ASSUME IInv, NEW i \in 1..Len(asked), NEW j \in 1..Len(asked),
                        i < j, InRing(asked[i]), InRing(asked[j])
                 PROVE  /\ trans_cnt[asked[j]] > 0 => trans_cnt[asked[i]] = NumTrans[asked[i]]
                        /\ pc = "return" /\ confirm_cnt[asked[j]] > 0 => asked[i] \in Confirmed
    BY DEF RingInOrder
  <2>. PICK d : d = asked[i]
    OBVIOUS
  <2>. PICK e : e = asked[j]
    OBVIOUS
  <2>2. d \in Event /\ e \in Event /\ d \in Handed
    BY DEF IInv, TypeInv, Handed
  <2>3. ASSUME trans_cnt[e] > 0 PROVE trans_cnt[d] = NumTrans[d]
    <3>1. SUFFICES ASSUME trans_cnt[d] # NumTrans[d] PROVE FALSE
      OBVIOUS
    <3>2. trans_cnt[d] < NumTrans[d]
      BY <2>2, <3>1, ConfirmedBefore
    <3>3. InQueue(d)
      BY <2>2, <3>2 DEF IInv, IssueInv
    <3>4. PICK x \in 1..Len(queue["tmps"]) : queue["tmps"][x] = d
      BY <3>3 DEF InQueue, InRing
    <3>5. PICK y \in (x + 1)..Len(queue["tmps"]) : queue["tmps"][y] = e
      BY <3>4 DEF IInv, OrderInv, InOrder
    <3>6. queue["tmps"] \in Seq(Event) /\ "tmps" \in Queue
      BY DEF IInv, TypeInv, Queue
    <3>7. y \in 2..Len(queue["tmps"])
      BY <3>5, <3>6
    <3>8. trans_cnt[e] = 0
      BY <3>5, <3>6, <3>7 DEF IInv, QueueInv
    <3>. QED
      BY <2>3, <3>8
  <2>4. ASSUME pc = "return", confirm_cnt[e] > 0 PROVE d \in Confirmed
    <3>1. trans_cnt[d] = NumTrans[d]
      <4>1. trans_cnt[e] > 0
        BY <2>2, <2>4, ConfirmedBefore
      <4>. QED
        BY <2>3, <4>1
    <3>2. trans = <<>>
      BY <2>4 DEF IInv, ServedInv
    <3>3. ASSUME NEW p \in edram_events PROVE FALSE
      <4>1. p[1] \in RingAddr /\ IsFiniteSet(edram_events)
        BY DEF IInv, TypeInv
      <4>2. Places(trans, p[1]) = {}
        BY <3>2 DEF Places
      <4>3. Cardinality(At(edram_events, p[1])) = 0
        BY <4>1, <4>2, FS_EmptySet DEF IInv, FindInv
      <4>4. IsFiniteSet(At(edram_events, p[1])) /\ p \in At(edram_events, p[1])
        BY <4>1, FS_Subset DEF At
      <4>. QED
        BY <4>3, <4>4, FS_EmptySet
    <3>4. Of(events \cup edram_events, d) = {}
      BY <3>3 DEF IInv, TypeInv, Of, DramEvent
    <3>5. confirm_cnt[d] + 0 = trans_cnt[d]
      BY <2>2, <3>4, FS_EmptySet DEF IInv, BookInv
    <3>6. confirm_cnt[d] \in Nat
      BY <2>2, ConfirmedBefore
    <3>. QED
      BY <2>2, <3>1, <3>5, <3>6 DEF Confirmed
  <2>. QED
    BY <2>3, <2>4
<1>. QED
  BY <1>1, Invariance, PTL

\* The coordinator, with whatever memories are behind it, keeps the safety part
\* of what the engines rely on: nothing comes back that was not handed over, and
\* nothing twice.
THEOREM ImplementsMemory == SafeSpec => Contract!SafeSpec
<1>1. Init => Contract!Init
  BY DEF Init, Contract!Init, Handed
<1>2. IInv /\ [Next]_vars => [Contract!Next]_(Contract!vars)
  <2>. SUFFICES ASSUME IInv, [Next]_vars PROVE [Contract!Next]_(Contract!vars)
    OBVIOUS
  <2>1. CASE HandleReturnEvent
    <3>. PICK e : e = Head(return_queue)
      OBVIOUS
    <3>1. e \in Event /\ e \in InReturn
      BY <2>1 DEF HandleReturnEvent, IInv, TypeInv, InReturn
    <3>2. e \notin back /\ confirm_cnt[e] = NumTrans[e]
      BY <3>1 DEF IInv, ReturnedOnce, Confirmed
    <3>3. e \in Handed
      <4>1. trans_cnt[e] # 0
        BY <3>1, <3>2, ConfirmedBefore
      <4>. QED
        BY <3>1, <4>1 DEF IInv, IssueInv
    <3>4. Contract!Return(e)
      BY <2>1, <3>2, <3>3 DEF HandleReturnEvent, Contract!Return, Handed
    <3>. QED
      BY <3>1, <3>4 DEF Contract!Next
  <2>2. CASE \E e \in Event : AddEvent(e)
    <3>1. PICK e \in Event : AddEvent(e)
      BY <2>2
    <3>2. Handed' = Handed \cup {e}
      <4>1. asked \in Seq(Event) /\ asked' = Append(asked, e)
        BY <3>1 DEF AddEvent, IInv, TypeInv
      <4>2. /\ Len(asked) \in Nat /\ Len(asked') = Len(asked) + 1 /\ asked'[Len(asked) + 1] = e
            /\ \A i \in 1..Len(asked) : asked'[i] = asked[i]
        BY <4>1
      <4>. QED
        BY <4>2 DEF Handed
    <3>3. Contract!Ask(e)
      BY <3>1, <3>2 DEF AddEvent, Contract!Ask
    <3>. QED
      BY <3>3 DEF Contract!Next
  <2>3. CASE asked' = asked /\ back' = back
    BY <2>3 DEF Contract!vars, Handed
  <2>4. HandleReturnEvent \/ (\E e \in Event : AddEvent(e)) \/ (asked' = asked /\ back' = back)
    BY DEF Next, ClockTick, AllHandled, IssueDram, NothingForDram, IssueEdram, EdramFull,
           EnginesDone, MemCallback, DramDone, BufCallback, RingDone, vars
  <2>. QED
    BY <2>1, <2>2, <2>3, <2>4
<1>. QED
  BY <1>1, <1>2, Invariance, PTL DEF SafeSpec, Contract!SafeSpec
=============================================================================
