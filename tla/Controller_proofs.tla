--------------------------- MODULE Controller_proofs ---------------------------
(***************************************************************************)
(* Proofs about Controller, for every stream of transactions, every size   *)
(* of the queues, every policy and every choice of timing parameters that  *)
(* keeps column commands apart: no transaction is lost or answered twice,  *)
(* reads and writes of one address stay in order, no rank has five         *)
(* activations in one window, and no refresh of a rank is disturbed.       *)
(***************************************************************************)
EXTENDS Controller, FiniteSetTheorems, SequenceTheorems, TLAPS

PC == {"add", "return", "finish", "issue", "second", "schedule"}
ColumnTypes == {"READ", "READ_PRECHARGE", "WRITE", "WRITE_PRECHARGE"}
Address == Banks \X Nat \X Nat
ColumnCommand == [type : ColumnTypes, bank : Banks, row : Nat, addr : Address]
RefreshCommand ==
  [type : {"REFRESH", "REFRESH_BANK"}, bank : Int, row : {None}, addr : {NoAddress}]
RanksOnly == config.refresh_policy # "BANK_LEVEL_STAGGERED"

-----------------------------------------------------------------------------
(* The invariant of the banks.                                             *)

BankType ==
  /\ open_row \in [Banks -> Int]
  /\ cmd_timing \in [Banks -> [Timed -> Nat]]
  /\ four_aw \in [Ranks -> Seq(Nat)] /\ window \in [Ranks -> Seq(Nat)]
  /\ refreshing \in [Banks -> Nat]
  /\ refresh_q \in Seq(RefreshCommand) /\ next_ref \in [rank : Nat, bg : Nat, bank : Nat]
  /\ RanksOnly => \A i \in DOMAIN refresh_q : refresh_q[i].type = "REFRESH"

\* A bank may not be activated while its refresh goes on.
RefreshInv ==
  RanksOnly => \A b \in Banks : /\ refreshing[b] <= cmd_timing[b]["ACTIVATE"]
                                /\ refreshing[b] > 0 => open_row[b] = None

\* The activations in the window are the last of those the code remembers,
\* which are four and in order.
Tracks(w, aw, faw) ==
  LET gone == Len(aw) - Len(w)
  IN  /\ Len(aw) <= 4 /\ gone >= 0
      /\ \A i \in 1..Len(aw) : aw[i] <= faw
      /\ \A i, j \in 1..Len(aw) : i <= j => aw[i] <= aw[j]
      /\ \A i \in 1..Len(w) : w[i] = aw[i + gone]
WindowInv == \A r \in Ranks : Tracks(window[r], four_aw[r], config.tFAW)

\* Before a cycle's activation every one in the window has time left.
LiveInv == \A r \in Ranks : \A i \in 1..Len(window[r]) : window[r][i] > 0

\* After a column command no bank is ready for another one.
BurstInv ==
  \A b \in Banks : open_row[b] # None => cmd_timing[b]["READ"] > 0
                                         /\ cmd_timing[b]["WRITE"] > 0

BankInv == BankType /\ RefreshInv /\ WindowInv

\* What the cycle adds to it.
CycleInv ==
  /\ pc \in {"add", "return", "finish", "issue"} \/ (pc = "second" /\ issued) => LiveInv
  /\ pc = "second" /\ issued => BurstInv
  /\ pc = "finish" => refresh_q # <<>>

-----------------------------------------------------------------------------
(* The invariant of the books.                                             *)

\* The transactions' queues, and which of them one belongs to.
TQ == <<unified_queue, read_queue, write_buffer>>
Places == {1, 2, 3}
QueueOf(t) == IF config.unified_queue THEN 1 ELSE IF is_write(t) THEN 3 ELSE 2

WaitInv ==
  \A x \in Places :
    /\ TQ[x] \in Seq(1..added)
    /\ \A i \in 1..Len(TQ[x]) : QueueOf(TQ[x][i]) = x
    /\ \A i, j \in 1..Len(TQ[x]) :
         AddrOf(TQ[x][i]) = AddrOf(TQ[x][j]) /\ is_write(TQ[x][i]) = is_write(TQ[x][j])
           => i = j

\* A command is in its bank's queue, the only one of its address and kind.
CommandInv ==
  /\ queue_idx \in 0..(num_queues - 1)
  /\ queues \in [0..(num_queues - 1) -> Seq(ColumnCommand)]
  /\ \A q \in 0..(num_queues - 1) :
       /\ \A i \in 1..Len(queues[q]) : queues[q][i].bank = queues[q][i].addr[1]
                                       /\ GetQueueIndex(queues[q][i].bank) = q
       /\ \A i, j \in 1..Len(queues[q]) :
            queues[q][i].addr = queues[q][j].addr
              /\ IsWrite(queues[q][i].type) = IsWrite(queues[q][j].type) => i = j

\* Pending reads of an address are older than its pending write.
PendingInv ==
  /\ pending_rd \in SUBSET (1..added) /\ \A t \in pending_rd : ~is_write(t)
  /\ pending_wr \in SUBSET (1..added) /\ \A t \in pending_wr : is_write(t)
  /\ \A t, u \in pending_wr : AddrOf(t) = AddrOf(u) => t = u
  /\ \A t \in pending_rd, u \in pending_wr : AddrOf(t) = AddrOf(u) => t < u

Pending(a, w) == WithAddr(IF w THEN pending_wr ELSE pending_rd, a)
Waits(a, w) ==
  \E x \in Places : \E i \in 1..Len(TQ[x]) : AddrOf(TQ[x][i]) = a /\ is_write(TQ[x][i]) = w
Commanded(a, w) ==
  \E q \in 0..(num_queues - 1) : \E i \in 1..Len(queues[q]) :
    queues[q][i].addr = a /\ IsWrite(queues[q][i].type) = w

\* What is pending, and nothing else, is on its way, and in one place.
CarriedInv ==
  \A a \in Address : \A w \in BOOLEAN :
    /\ Pending(a, w) # {} => Waits(a, w) \/ Commanded(a, w)
    /\ Waits(a, w) \/ Commanded(a, w) => Pending(a, w) # {}
    /\ ~(Waits(a, w) /\ Commanded(a, w))

\* A write's command comes after the read it has to wait for, in its queue; the
\* unified queue keeps them in order before.
QueuesOrdered(a) ==
  \A q \in 0..(num_queues - 1) : \A i \in 1..Len(queues[q]) :
    queues[q][i].addr = a /\ IsWrite(queues[q][i].type)
      => \E j \in 1..(i - 1) : queues[q][j].addr = a /\ IsRead(queues[q][j].type)
UnifiedOrdered(a) ==
  \A i \in 1..Len(TQ[1]) :
    AddrOf(TQ[1][i]) = a /\ is_write(TQ[1][i])
      => \/ Commanded(a, FALSE)
         \/ \E j \in 1..(i - 1) : AddrOf(TQ[1][j]) = a /\ ~is_write(TQ[1][j])
OrderInv ==
  \A a \in Address : Pending(a, FALSE) # {} =>
    QueuesOrdered(a) /\ (config.unified_queue => UnifiedOrdered(a))

Books == WaitInv /\ CommandInv /\ PendingInv /\ CarriedInv /\ OrderInv

\* Every transaction that was accepted is pending as a read, on its way back,
\* or done.
Returning(t) == \E i \in 1..Len(return_queue) : return_queue[i].trans = t
ReturnInv ==
  /\ return_queue \in Seq([trans : 1..added, left : Nat])
  /\ done \in SUBSET (1..added)
  /\ \A i, j \in 1..Len(return_queue) :
       return_queue[i].trans = return_queue[j].trans => i = j
  /\ \A t \in 1..added : Returning(t) <=> t \notin pending_rd \cup done
  /\ pending_rd \cap done = {}

\* No more writes are to be drained than wait.
DrainInv ==
  write_draining \in 0..Len(write_buffer) /\ (write_draining > 0 => ~config.unified_queue)

TypeInv ==
  /\ config \in Configs /\ pc \in PC /\ issued \in BOOLEAN
  /\ added \in 0..Len(config.stream)

IInv == TypeInv /\ BankInv /\ CycleInv /\ Books /\ ReturnInv /\ DrainInv

-----------------------------------------------------------------------------
(* Numbers, sets and sequences.                                            *)

\* A set of natural numbers that is not empty has a least element: among the
\* intervals from 0 to its elements one has no other inside it.
LEMMA LeastExists ==
  ASSUME NEW S \in SUBSET Nat, S # {}
  PROVE  \E m \in S : \A k \in S : m <= k
<1>. DEFINE T == {0..k : k \in S}
<1>1. IsWellFoundedOn(StrictSubsetOrdering(Nat), FiniteSubsetsOf(Nat))
  BY FS_StrictSubsetOrderingWellFounded
<1>2. \A k \in S : IsFiniteSet(0..k) /\ 0..k \in SUBSET Nat
  <2>. SUFFICES ASSUME NEW k \in S PROVE IsFiniteSet(0..k) /\ 0..k \in SUBSET Nat
    OBVIOUS
  <2>1. 0 \in Int /\ k \in Int
    OBVIOUS
  <2>. QED
    BY <2>1, FS_Interval
<1>3. T \subseteq FiniteSubsetsOf(Nat) /\ T # {}
  BY <1>2 DEF FiniteSubsetsOf
<1>4. PICK x \in T : \A y \in T : ~(<<y, x>> \in StrictSubsetOrdering(Nat))
  <2>. HIDE DEF T
  <2>. QED
    BY <1>1, <1>3, WFMin
<1>5. PICK m \in S : x = 0..m
  OBVIOUS
<1>6. ASSUME NEW k \in S, k < m PROVE FALSE
  <2>1. 0..k \in T
    OBVIOUS
  <2>2. 0..k \subseteq 0..m /\ m \in 0..m /\ m \notin 0..k
    BY <1>6
  <2>3. 0..k \in SUBSET Nat /\ 0..m \in SUBSET Nat
    BY <1>2
  <2>4. <<0..k, 0..m>> \in StrictSubsetOrdering(Nat)
    BY <2>2, <2>3 DEF StrictSubsetOrdering
  <2>. QED
    BY <1>4, <1>5, <2>1, <2>4
<1>. QED
  BY <1>6

\* So Min means what it says.
LEMMA MinIsLeast ==
  ASSUME NEW S \in SUBSET Nat, S # {}
  PROVE  Min(S) \in S /\ \A k \in S : Min(S) <= k
<1>1. \E m \in S : \A k \in S : m <= k
  BY LeastExists
<1>. QED
  BY <1>1 DEF Min

\* What is left of a sequence without its k-th element.
LEMMA RemoveAtShape ==
  ASSUME NEW T, NEW s \in Seq(T), NEW k \in 1..Len(s)
  PROVE  /\ RemoveAt(s, k) \in Seq(T)
         /\ Len(RemoveAt(s, k)) = Len(s) - 1
         /\ \A i \in 1..(Len(s) - 1) :
              RemoveAt(s, k)[i] = IF i < k THEN s[i] ELSE s[i + 1]
<1>. DEFINE a == SubSeq(s, 1, k - 1)
            b == SubSeq(s, k + 1, Len(s))
<1>1. a \in Seq(T) /\ Len(a) = k - 1 /\ \A i \in 1..(k - 1) : a[i] = s[i]
  OBVIOUS
<1>2. b \in Seq(T) /\ Len(b) = Len(s) - k /\ \A i \in 1..(Len(s) - k) : b[i] = s[i + k]
  OBVIOUS
<1>3. RemoveAt(s, k) = a \o b
  BY DEF RemoveAt
<1>. HIDE DEF a, b
<1>4. a \o b \in Seq(T) /\ Len(a \o b) = Len(s) - 1
  <2>1. a \o b \in Seq(T) /\ Len(a \o b) = Len(a) + Len(b)
    BY <1>1, <1>2, ConcatProperties
  <2>. QED
    BY <1>1, <1>2, <2>1
<1>5. \A i \in 1..(Len(s) - 1) : (a \o b)[i] = IF i < k THEN s[i] ELSE s[i + 1]
  BY <1>1, <1>2
<1>. QED
  BY <1>3, <1>4, <1>5

\* The numbering of the banks.
LEMMA RankInRange ==
  ASSUME config \in Configs, NEW b \in Banks
  PROVE  RankOf(b) \in Ranks
<1>1. banks \in Nat \ {0} /\ config.ranks \in Nat \ {0}
  BY TimingAssumption DEF banks
<1>2. config.ranks * banks \in Nat
  BY <1>1
<1>3. b \in Nat /\ b < config.ranks * banks
  BY <1>2 DEF Banks
<1>. QED
  BY <1>1, <1>3 DEF RankOf, Ranks

\* Each bank has its queue.
LEMMA QueueInRange ==
  ASSUME config \in Configs, NEW b \in Banks
  PROVE  GetQueueIndex(b) \in 0..(num_queues - 1) /\ num_queues \in Nat \ {0}
<1>1. banks \in Nat \ {0} /\ config.ranks \in Nat \ {0}
  BY TimingAssumption DEF banks
<1>2. config.ranks * banks \in Nat \ {0}
  BY <1>1
<1>3. RankOf(b) \in Ranks
  BY RankInRange
<1>. QED
  BY <1>1, <1>2, <1>3 DEF GetQueueIndex, num_queues, Banks, Ranks

-----------------------------------------------------------------------------
(* The window of activations.                                              *)

\* An activation that is let in is remembered, and takes the place of one that
\* does not count any more.
LEMMA ActivateTracks ==
  ASSUME NEW f \in Nat, NEW w \in Seq(Nat), NEW aw \in Seq(Nat), Tracks(w, aw, f),
         \A i \in 1..Len(w) : w[i] > 0, ~(Len(aw) >= 4 /\ Head(aw) > 0),
         NEW kept, kept = IF aw # <<>> /\ Head(aw) = 0 THEN Tail(aw) ELSE aw
  PROVE  /\ Append(w, f) \in Seq(Nat) /\ Append(kept, f) \in Seq(Nat)
         /\ Tracks(Append(w, f), Append(kept, f), f)
<1>. DEFINE n == Len(w)
            m == Len(kept)
            g == Len(aw) - n
<1>1. /\ n \in Nat /\ Len(aw) \in Nat /\ Len(aw) <= 4 /\ g \in Nat
      /\ \A i \in 1..Len(aw) : aw[i] \in Nat /\ aw[i] <= f
      /\ \A i, j \in 1..Len(aw) : i <= j => aw[i] <= aw[j]
      /\ \A i \in 1..n : w[i] = aw[i + g]
  BY DEF Tracks
<1>2. /\ kept \in Seq(Nat) /\ m \in Nat /\ m <= 3 /\ n <= m
      /\ \A i \in 1..m : kept[i] <= f
      /\ \A i, j \in 1..m : i <= j => kept[i] <= kept[j]
      /\ \A i \in 1..n : w[i] = kept[i + (m - n)]
  <2>1. CASE aw # <<>> /\ Head(aw) = 0
    <3>1. kept = Tail(aw) /\ aw[1] = 0 /\ Len(aw) >= 1
      BY <1>1, <2>1
    <3>2. kept \in Seq(Nat) /\ m = Len(aw) - 1 /\ \A i \in 1..m : kept[i] = aw[i + 1]
      BY <2>1, <3>1
    <3>3. g # 0
      <4>1. SUFFICES ASSUME g = 0 PROVE FALSE
        OBVIOUS
      <4>2. 1 \in 1..n /\ w[1] = aw[1]
        BY <1>1, <3>1, <4>1
      <4>. QED
        BY <3>1, <4>2
    <3>. HIDE DEF n, m, g
    <3>4. m \in Nat /\ m <= 3
      BY <1>1, <3>1, <3>2
    <3>5. g = m + 1 - n
      BY <1>1, <3>1, <3>2 DEF g
    <3>6. n <= m
      BY <1>1, <3>3, <3>4, <3>5
    <3>7. \A i \in 1..n : w[i] = kept[i + (m - n)]
      <4>. SUFFICES ASSUME NEW i \in 1..n PROVE w[i] = kept[i + (m - n)]
        OBVIOUS
      <4>1. i + (m - n) \in 1..m /\ i + g = i + (m - n) + 1
        BY <1>1, <3>4, <3>5, <3>6
      <4>. QED
        BY <1>1, <3>2, <4>1
    <3>8. \A i, j \in 1..m : i <= j => kept[i] <= kept[j]
      <4>. SUFFICES ASSUME NEW i \in 1..m, NEW j \in 1..m, i <= j
                    PROVE  kept[i] <= kept[j]
        OBVIOUS
      <4>1. i + 1 \in 1..Len(aw) /\ j + 1 \in 1..Len(aw) /\ i + 1 <= j + 1
        BY <1>1, <3>1, <3>2, <3>4
      <4>. QED
        BY <1>1, <3>2, <4>1
    <3>9. \A i \in 1..m : kept[i] <= f
      BY <1>1, <3>1, <3>2, <3>4
    <3>. QED
      BY <3>2, <3>4, <3>6, <3>7, <3>8, <3>9
  <2>2. CASE ~(aw # <<>> /\ Head(aw) = 0)
    <3>1. kept = aw /\ m = Len(aw)
      BY <2>2
    <3>2. Len(aw) # 4
      <4>1. SUFFICES ASSUME Len(aw) = 4 PROVE FALSE
        OBVIOUS
      <4>2. Len(aw) >= 1
        BY <4>1
      <4>3. aw # <<>> /\ Head(aw) = aw[1] /\ aw[1] \in Nat
        BY <4>2
      <4>4. Head(aw) > 0
        BY <2>2, <4>3
      <4>5. Len(aw) >= 4
        BY <4>1
      <4>. QED
        BY <4>4, <4>5
    <3>3. m \in Nat /\ m <= 3 /\ g = m - n /\ n <= m
      BY <1>1, <3>1, <3>2
    <3>. QED
      BY <1>1, <3>1, <3>3
  <2>. QED
    BY <2>1, <2>2
<1>3. /\ Append(w, f) \in Seq(Nat) /\ Len(Append(w, f)) = n + 1
      /\ \A i \in 1..n : Append(w, f)[i] = w[i]
      /\ Append(w, f)[n + 1] = f
  OBVIOUS
<1>4. /\ Append(kept, f) \in Seq(Nat) /\ Len(Append(kept, f)) = m + 1
      /\ \A i \in 1..m : Append(kept, f)[i] = kept[i]
      /\ Append(kept, f)[m + 1] = f
  BY <1>2
<1>. DEFINE w2 == Append(w, f)
            aw2 == Append(kept, f)
<1>. HIDE DEF n, m, g, w2, aw2
<1>5. Len(aw2) <= 4 /\ Len(aw2) - Len(w2) = m - n /\ m - n >= 0
  BY <1>1, <1>2, <1>3, <1>4 DEF w2, aw2
<1>6. \A i \in 1..Len(aw2) : aw2[i] <= f
  BY <1>2, <1>4 DEF aw2
<1>7. \A i, j \in 1..Len(aw2) : i <= j => aw2[i] <= aw2[j]
  BY <1>2, <1>4, SMTT(30) DEF aw2
<1>8. \A i \in 1..Len(w2) : w2[i] = aw2[i + (m - n)]
  <2>. SUFFICES ASSUME NEW i \in 1..Len(w2) PROVE w2[i] = aw2[i + (m - n)]
    OBVIOUS
  <2>1. CASE i = n + 1
    <3>1. i + (m - n) = m + 1
      BY <1>1, <1>2, <2>1
    <3>. QED
      BY <1>3, <1>4, <2>1, <3>1 DEF w2, aw2
  <2>2. CASE i # n + 1
    <3>1. i \in 1..n /\ i + (m - n) \in 1..m
      BY <1>1, <1>2, <1>3, <2>2 DEF w2
    <3>. QED
      BY <1>2, <1>3, <1>4, <3>1 DEF w2, aw2
  <2>. QED
    BY <2>1, <2>2
<1>9. Tracks(w2, aw2, f)
  BY <1>5, <1>6, <1>7, <1>8 DEF Tracks
<1>. QED
  BY <1>3, <1>4, <1>9 DEF w2, aw2

\* Every time is one less.
LEMMA LessAllShape ==
  ASSUME NEW s \in Seq(Nat)
  PROVE  /\ LessAll(s) \in Seq(Nat) /\ Len(LessAll(s)) = Len(s)
         /\ \A i \in 1..Len(s) : LessAll(s)[i] = Less(s[i])
<1>1. \A i \in 1..Len(s) : Less(s[i]) \in Nat
  BY DEF Less
<1>2. DOMAIN s = 1..Len(s)
  OBVIOUS
<1>. QED
  BY <1>1, <1>2 DEF LessAll

\* A cycle later the times still agree.
LEMMA LessTracks ==
  ASSUME NEW f \in Nat, NEW w \in Seq(Nat), NEW aw \in Seq(Nat), Tracks(w, aw, f)
  PROVE  Tracks(LessAll(w), LessAll(aw), f)
<1>. DEFINE u == LessAll(w)
            av == LessAll(aw)
<1>1. u \in Seq(Nat) /\ Len(u) = Len(w) /\ \A i \in 1..Len(w) : u[i] = Less(w[i])
  BY LessAllShape
<1>2. av \in Seq(Nat) /\ Len(av) = Len(aw) /\ \A i \in 1..Len(aw) : av[i] = Less(aw[i])
  BY LessAllShape
<1>. HIDE DEF u, av
<1>3. /\ Len(w) \in Nat /\ Len(aw) \in Nat /\ Len(aw) <= 4 /\ Len(w) <= Len(aw)
      /\ \A i \in 1..Len(aw) : aw[i] \in Nat /\ aw[i] <= f
      /\ \A i, j \in 1..Len(aw) : i <= j => aw[i] <= aw[j]
      /\ \A i \in 1..Len(w) : w[i] = aw[i + (Len(aw) - Len(w))]
  BY DEF Tracks
<1>4. \A i \in 1..Len(av) : av[i] <= f
  BY <1>2, <1>3 DEF Less
<1>5. \A i, j \in 1..Len(av) : i <= j => av[i] <= av[j]
  <2>. SUFFICES ASSUME NEW i \in 1..Len(av), NEW j \in 1..Len(av), i <= j
                PROVE  av[i] <= av[j]
    OBVIOUS
  <2>1. aw[i] \in Nat /\ aw[j] \in Nat /\ aw[i] <= aw[j]
    BY <1>2, <1>3
  <2>2. av[i] = Less(aw[i]) /\ av[j] = Less(aw[j])
    BY <1>2
  <2>. QED
    BY <2>1, <2>2 DEF Less
<1>6. \A i \in 1..Len(u) : u[i] = av[i + (Len(av) - Len(u))]
  <2>. SUFFICES ASSUME NEW i \in 1..Len(w)
                PROVE  u[i] = av[i + (Len(aw) - Len(w))]
    BY <1>1, <1>2
  <2>1. i + (Len(aw) - Len(w)) \in 1..Len(aw)
    BY <1>3
  <2>. QED
    BY <1>1, <1>2, <1>3, <2>1
<1>7. Len(av) <= 4 /\ Len(av) - Len(u) >= 0
  BY <1>1, <1>2, <1>3
<1>8. Tracks(u, av, f)
  BY <1>4, <1>5, <1>6, <1>7 DEF Tracks
<1>. QED
  BY <1>8 DEF u, av

\* What counts no more is at the beginning.
LEMMA WindowTracks ==
  ASSUME NEW f \in Nat, NEW u \in Seq(Nat), NEW av \in Seq(Nat), Tracks(u, av, f)
  PROVE  /\ InWindow(u) \in Seq(Nat) /\ Tracks(InWindow(u), av, f)
         /\ \A i \in 1..Len(InWindow(u)) : InWindow(u)[i] > 0
<1>. DEFINE live == {i \in DOMAIN u : u[i] > 0}
            v == InWindow(u)
            g == Len(av) - Len(u)
<1>1. /\ Len(u) \in Nat /\ Len(av) \in Nat /\ g \in Nat
      /\ \A i \in 1..Len(u) : u[i] \in Nat
      /\ \A i \in 1..Len(u) : u[i] = av[i + g]
      /\ \A i, j \in 1..Len(av) : i <= j => av[i] <= av[j]
  BY DEF Tracks
<1>2. \A i, j \in 1..Len(u) : i <= j => u[i] <= u[j]
  <2>. SUFFICES ASSUME NEW i \in 1..Len(u), NEW j \in 1..Len(u), i <= j
                PROVE  u[i] <= u[j]
    OBVIOUS
  <2>1. i + g \in 1..Len(av) /\ j + g \in 1..Len(av) /\ i + g <= j + g
    BY <1>1
  <2>. QED
    BY <1>1, <2>1
<1>3. DOMAIN u = 1..Len(u) /\ live \in SUBSET Nat
  OBVIOUS
<1>4. CASE live = {}
  <2>1. v = <<>>
    BY <1>4 DEF InWindow
  <2>2. Tracks(<<>>, av, f) /\ <<>> \in Seq(Nat) /\ Len(<<>>) = 0
    BY <1>1 DEF Tracks
  <2>. QED
    BY <2>1, <2>2
<1>5. CASE live # {}
  <2>1. PICK k \in 1..Len(u) : k = Min(live) /\ u[k] > 0
    BY <1>3, <1>5, MinIsLeast
  <2>2. v = SubSeq(u, k, Len(u))
    BY <1>5, <2>1 DEF InWindow
  <2>. HIDE DEF v, live, g
  <2>3. k \in Nat /\ k >= 1 /\ k <= Len(u)
    BY <1>1
  <2>4. \A i \in k..Len(u) : u[i] \in Nat
    BY <1>1, <2>3
  <2>5. v \in Seq(Nat) /\ Len(v) = Len(u) - k + 1 /\ \A i \in 1..Len(v) : v[i] = u[k + i - 1]
    BY <1>1, <2>2, <2>3, <2>4, SubSeqProperties
  <2>6. Len(av) - Len(v) = g + k - 1
    BY <1>1, <2>3, <2>5 DEF g
  <2>7. \A i \in 1..Len(v) : v[i] > 0 /\ v[i] = av[i + (g + k - 1)]
    <3>. SUFFICES ASSUME NEW i \in 1..Len(v)
                  PROVE  v[i] > 0 /\ v[i] = av[i + (g + k - 1)]
      OBVIOUS
    <3>1. k + i - 1 \in 1..Len(u) /\ k <= k + i - 1
      BY <1>1, <2>3, <2>5
    <3>2. u[k] <= u[k + i - 1]
      BY <1>2, <3>1
    <3>3. u[k] \in Nat /\ u[k + i - 1] \in Nat
      BY <1>1, <3>1
    <3>4. (k + i - 1) + g = i + (g + k - 1)
      BY <1>1, <2>3
    <3>5. u[k + i - 1] = av[(k + i - 1) + g]
      BY <1>1, <3>1
    <3>6. v[i] = u[k + i - 1] /\ u[k] > 0
      BY <2>1, <2>5
    <3>7. v[i] = av[i + (g + k - 1)]
      BY <3>4, <3>5, <3>6
    <3>8. v[i] > 0
      BY <3>2, <3>3, <3>6
    <3>. QED
      BY <3>7, <3>8
  <2>8. Len(av) - Len(v) >= 0
    BY <1>1, <2>3, <2>6
  <2>9. Tracks(v, av, f)
    BY <2>6, <2>7, <2>8 DEF Tracks
  <2>. QED
    BY <2>5, <2>7, <2>9 DEF v
<1>. QED
  BY <1>4, <1>5

-----------------------------------------------------------------------------
(* Timing.                                                                 *)

\* The parameters are numbers.
LEMMA ParamsAreNat ==
  ASSUME config \in Configs
  PROVE  /\ config.burst_cycle \in Nat /\ config.AL \in Nat /\ config.RL \in Nat
         /\ config.WL \in Nat /\ config.tCCD_L \in Nat /\ config.tCCD_S \in Nat
         /\ config.tRTRS \in Nat /\ config.tRTP \in Nat /\ config.tWTR_L \in Nat
         /\ config.tWTR_S \in Nat /\ config.tWR \in Nat /\ config.tRP \in Nat
         /\ config.tRRD_L \in Nat /\ config.tRRD_S \in Nat /\ config.tRAS \in Nat
         /\ config.tRCDRD \in Nat /\ config.tRCDWR \in Nat /\ config.tRFC \in Nat
         /\ config.tRFCb \in Nat /\ config.tREFI \in Nat /\ config.tFAW \in Nat
BY TimingAssumption DEF TimingParams

\* What a command makes another wait is a number of cycles.
LEMMA AfterColumnType ==
  ASSUME config \in Configs, NEW type, NEW s
  PROVE  AfterColumn(type, s) \in [Timed -> Int]
<1>1. /\ read_to_read(s) \in Int /\ read_to_write \in Int
      /\ write_to_read(s) \in Int /\ write_to_write(s) \in Int
  BY ParamsAreNat DEF read_to_read, read_to_write, write_to_read, write_to_write,
                      burst_to_burst, Larger, ByScope, read_delay, write_delay
<1>. QED
  BY <1>1 DEF AfterColumn, NoDelay, Timed

\* The gaps after a command are integers, one for each command timed.
LEMMA TimingType ==
  ASSUME config \in Configs, NEW type, NEW s
  PROVE  TimingOf(type, s) \in [Timed -> Int]
<1>1. AfterColumn(type, s) \in [Timed -> Int]
  BY AfterColumnType
<1>2. /\ to_precharge(type) \in Int /\ readp_to_act \in Int /\ to_activate(type) \in Int
      /\ tRC \in Int /\ ByScope(s, config.tRRD_L, config.tRRD_S) \in Int
  BY ParamsAreNat DEF to_precharge, readp_to_act, to_activate, tRC, ByScope
<1>3. NoDelay \in [Timed -> Int]
  BY DEF NoDelay
<1>4. \A x, y \in Int : \A i, j :
        [NoDelay EXCEPT ![i] = x, ![j] = y] \in [Timed -> Int]
  BY <1>3
<1>5. AfterRefresh(type, s) \in [Timed -> Int]
  BY <1>3, <1>4, ParamsAreNat DEF AfterRefresh
<1>6. [AfterColumn(type, s) EXCEPT !["PRECHARGE"] = to_precharge(type)] \in [Timed -> Int]
  BY <1>1, <1>2
<1>7. [NoDelay EXCEPT
         !["ACTIVATE"] = IF IsRead(type) THEN readp_to_act ELSE to_activate(type),
         !["REFRESH"] = to_activate(type), !["REFRESH_BANK"] = to_activate(type)]
        \in [Timed -> Int]
  <2>. DEFINE n == IF IsRead(type) THEN readp_to_act ELSE to_activate(type)
  <2>1. n \in Int
    BY <1>2
  <2>. HIDE DEF n
  <2>2. [NoDelay EXCEPT !["ACTIVATE"] = n, !["REFRESH"] = to_activate(type),
                        !["REFRESH_BANK"] = to_activate(type)] \in [Timed -> Int]
    BY <1>2, <1>3, <2>1
  <2>. QED
    BY <2>2 DEF n
<1>8. [NoDelay EXCEPT !["ACTIVATE"] = tRC, !["READ"] = config.tRCDRD,
         !["WRITE"] = config.tRCDWR, !["PRECHARGE"] = config.tRAS] \in [Timed -> Int]
  <2>1. \A i, j, k, x \in Int :
          [NoDelay EXCEPT !["ACTIVATE"] = i, !["READ"] = j, !["WRITE"] = k,
             !["PRECHARGE"] = x] \in [Timed -> Int]
    BY <1>3
  <2>. QED
    BY <1>2, <2>1, ParamsAreNat
<1>9. [NoDelay EXCEPT !["ACTIVATE"] = config.tRP, !["REFRESH"] = config.tRP,
         !["REFRESH_BANK"] = config.tRP] \in [Timed -> Int]
  <2>1. \A x \in Int : [NoDelay EXCEPT !["ACTIVATE"] = x, !["REFRESH"] = x,
                         !["REFRESH_BANK"] = x] \in [Timed -> Int]
    BY <1>3
  <2>. QED
    BY <2>1, ParamsAreNat
<1>10. [NoDelay EXCEPT !["ACTIVATE"] = ByScope(s, config.tRRD_L, config.tRRD_S),
          !["REFRESH_BANK"] = tRC] \in [Timed -> Int]
  BY <1>2, <1>4
<1>. HIDE DEF NoDelay
<1>. QED
  BY <1>1, <1>3, <1>5, <1>6, <1>7, <1>8, <1>9, <1>10 DEF TimingOf

\* A column command that leaves the row of bank b open holds every other one
\* of the channel back.
LEMMA ColumnsWait ==
  ASSUME config \in Configs, NEW type \in ColumnTypes, NEW s,
         s = "same_bank" => ~Closes(type), s = "other_ranks" => config.ranks > 1
  PROVE  TimingOf(type, s)["READ"] > 0 /\ TimingOf(type, s)["WRITE"] > 0
<1>1. /\ config.burst_cycle > 0 /\ config.RL + config.burst_cycle + config.tRTRS > config.WL
      /\ config.ranks > 1 => config.WL + config.burst_cycle + config.tRTRS > config.RL
  BY ColumnsApart
<1>2. /\ read_to_read(s) > 0 /\ read_to_write > 0
      /\ write_to_read(s) > 0 /\ write_to_write(s) > 0
  BY <1>1, ParamsAreNat
     DEF read_to_read, read_to_write, write_to_read, write_to_write,
         burst_to_burst, Larger, ByScope, read_delay, write_delay
<1>3. AfterColumn(type, s)["READ"] > 0 /\ AfterColumn(type, s)["WRITE"] > 0
  BY <1>2 DEF AfterColumn, NoDelay, Timed
<1>4. AfterColumn(type, s) \in [Timed -> Int]
  BY AfterColumnType
<1>5. CASE s = "same_bank"
  <2>1. type \in {"READ", "WRITE"}
    BY <1>5 DEF ColumnTypes, Closes
  <2>2. TimingOf(type, s) = [AfterColumn(type, s) EXCEPT !["PRECHARGE"] = to_precharge(type)]
    BY <1>5, <2>1 DEF TimingOf, IsReadWrite, IsRead, IsWrite, IsRefresh
  <2>. QED
    BY <1>3, <1>4, <2>2 DEF Timed
<1>6. CASE s # "same_bank"
  <2>1. TimingOf(type, s) = AfterColumn(type, s)
    BY <1>6 DEF TimingOf, ColumnTypes, IsReadWrite, IsRead, IsWrite, IsRefresh
  <2>. QED
    BY <1>3, <2>1
<1>. QED
  BY <1>5, <1>6

-----------------------------------------------------------------------------
(* What a command does to the banks.                                       *)

\* The kinds of commands the queues and the refreshes give out.
ReadyColumn(cmd) == cmd \in ColumnCommand /\ open_row[cmd.bank] # None
                    /\ TimeOk(cmd.bank, cmd.type)
ReadyActivate(cmd) ==
  /\ cmd.type = "ACTIVATE" /\ cmd.bank \in Banks /\ cmd.row \in Nat
  /\ TimeOk(cmd.bank, cmd.type) /\ IsFAWReady(RankOf(cmd.bank))
ReadyRefresh(cmd) ==
  /\ refresh_q # <<>> /\ cmd = Head(refresh_q)
  /\ \A b \in BanksOf(cmd) : ~IsRowOpen(b)
Ready(cmd) ==
  ReadyColumn(cmd) \/ ReadyActivate(cmd) \/ cmd.type = "PRECHARGE" \/ ReadyRefresh(cmd)

\* Times only grow with a command.
LEMMA UpdateTimes ==
  ASSUME config \in Configs, BankType, NEW cmd, UpdateTiming(cmd)
  PROVE  /\ cmd_timing' \in [Banks -> [Timed -> Nat]]
         /\ \A b \in Banks, t \in Timed :
              /\ cmd_timing'[b][t] >= cmd_timing[b][t]
              /\ cmd_timing'[b][t] >= TimingOf(cmd.type, Scope(cmd.bank, b))[t]
<1>1. \A m \in Nat, n \in Int : Larger(m, n) \in Nat /\ Larger(m, n) >= m /\ Larger(m, n) >= n
  BY DEF Larger
<1>2. \A b \in Banks : TimingOf(cmd.type, Scope(cmd.bank, b)) \in [Timed -> Int]
  BY TimingType
<1>3. cmd_timing \in [Banks -> [Timed -> Nat]]
  BY DEF BankType
<1>4. \A b \in Banks, t \in Timed :
        /\ cmd_timing[b][t] \in Nat
        /\ TimingOf(cmd.type, Scope(cmd.bank, b))[t] \in Int
  BY <1>2, <1>3
<1>5. cmd_timing' = [b \in Banks |-> [t \in Timed |->
        Larger(cmd_timing[b][t], TimingOf(cmd.type, Scope(cmd.bank, b))[t])]]
  BY DEF UpdateTiming
<1>. QED
  BY <1>1, <1>4, <1>5

\* Only the refresh at the head leaves the queue of refreshes; what stays is well formed.
LEMMA RefreshQueueKept ==
  ASSUME config \in Configs, BankType, NEW cmd, Ready(cmd), UpdateState(cmd)
  PROVE  /\ refresh_q' \in Seq(RefreshCommand)
         /\ RanksOnly => \A i \in DOMAIN refresh_q' : refresh_q'[i].type = "REFRESH"
<1>1. CASE IsRefresh(cmd.type)
  <2>1. refresh_q' = Tail(refresh_q)
    BY <1>1 DEF UpdateState, StillDue
  <2>2. refresh_q # <<>>
    BY <1>1 DEF Ready, ReadyColumn, ReadyActivate, ReadyRefresh, ColumnCommand,
                ColumnTypes, IsRefresh
  <2>3. refresh_q \in Seq(RefreshCommand)
    BY DEF BankType
  <2>4. /\ refresh_q' \in Seq(RefreshCommand)
        /\ \A i \in DOMAIN refresh_q' : i + 1 \in DOMAIN refresh_q
                                        /\ refresh_q'[i] = refresh_q[i + 1]
    BY <2>1, <2>2, <2>3
  <2>. QED
    BY <2>4 DEF BankType
<1>2. CASE ~IsRefresh(cmd.type)
  BY <1>2 DEF UpdateState, StillDue, BankType
<1>. QED
  BY <1>1, <1>2

\* A command that is issued keeps the types of banks, times and refreshes.
LEMMA CommandKeepsBankType ==
  ASSUME config \in Configs, config' = config, UNCHANGED refreshVars,
         BankType, NEW cmd, Ready(cmd), UpdateTimingAndStates(cmd)
  PROVE  BankType'
<1>1. cmd_timing' \in [Banks -> [Timed -> Nat]]
  BY UpdateTimes DEF UpdateTimingAndStates
<1>2. /\ refresh_q' \in Seq(RefreshCommand)
      /\ RanksOnly => \A i \in DOMAIN refresh_q' : refresh_q'[i].type = "REFRESH"
  BY RefreshQueueKept DEF UpdateTimingAndStates
<1>3. open_row' \in [Banks -> Int]
  <2>1. open_row \in [Banks -> Int]
    BY DEF BankType
  <2>2. ReadyRefresh(cmd) => cmd.type # "ACTIVATE"
    <3>1. refresh_q \in Seq(RefreshCommand)
      BY DEF BankType
    <3>2. refresh_q # <<>> => Head(refresh_q) \in RefreshCommand
      BY <3>1
    <3>. QED
      BY <3>2 DEF ReadyRefresh, RefreshCommand
  <2>3. cmd.type = "ACTIVATE" => cmd.row \in Int
    BY <2>2 DEF Ready, ReadyColumn, ReadyActivate, ColumnCommand, ColumnTypes
  <2>4. open_row' = CASE cmd.type = "ACTIVATE" -> [open_row EXCEPT ![cmd.bank] = cmd.row]
                      [] Closes(cmd.type) -> [open_row EXCEPT ![cmd.bank] = None]
                      [] OTHER -> open_row
    BY DEF UpdateTimingAndStates, UpdateState
  <2>5. CASE cmd.type = "ACTIVATE"
    BY <2>1, <2>3, <2>4, <2>5 DEF Closes
  <2>6. CASE cmd.type # "ACTIVATE" /\ Closes(cmd.type)
    <3>1. open_row' = [open_row EXCEPT ![cmd.bank] = None]
      BY <2>4, <2>6
    <3>2. None \in Int
      BY DEF None
    <3>. QED
      BY <2>1, <3>1, <3>2
  <2>7. CASE cmd.type # "ACTIVATE" /\ ~Closes(cmd.type)
    BY <2>1, <2>4, <2>7
  <2>. QED
    BY <2>5, <2>6, <2>7
<1>4. refreshing' \in [Banks -> Nat]
  BY ParamsAreNat DEF UpdateTimingAndStates, UpdateTiming, BankType
<1>5. four_aw' \in [Ranks -> Seq(Nat)] /\ window' \in [Ranks -> Seq(Nat)]
  <2>1. four_aw \in [Ranks -> Seq(Nat)] /\ window \in [Ranks -> Seq(Nat)]
    BY DEF BankType
  <2>2. \A s \in Seq(Nat) : Append(s, config.tFAW) \in Seq(Nat)
                            /\ Activated(s) \in Seq(Nat)
    BY ParamsAreNat DEF Activated
  <2>3. CASE cmd.type = "ACTIVATE"
    <3>1. /\ four_aw' = [four_aw EXCEPT ![RankOf(cmd.bank)] = Activated(@)]
          /\ window' = [window EXCEPT ![RankOf(cmd.bank)] = Append(@, config.tFAW)]
      BY <2>3 DEF UpdateTimingAndStates, UpdateTiming
    <3>. QED
      BY <2>1, <2>2, <3>1
  <2>4. CASE cmd.type # "ACTIVATE"
    <3>1. four_aw' = four_aw /\ window' = window
      BY <2>4 DEF UpdateTimingAndStates, UpdateTiming
    <3>. QED
      BY <2>1, <3>1
  <2>. QED
    BY <2>3, <2>4
<1>. QED
  BY <1>1, <1>2, <1>3, <1>4, <1>5
     DEF BankType, Banks, Ranks, banks, RanksOnly, refreshVars

\* Nothing opens a row of a bank whose refresh goes on.
LEMMA CommandKeepsRefreshInv ==
  ASSUME config \in Configs, config' = config, BankType, RefreshInv,
         NEW cmd, Ready(cmd), UpdateTimingAndStates(cmd)
  PROVE  RefreshInv'
<1>. SUFFICES ASSUME RanksOnly, NEW b \in Banks
              PROVE  /\ refreshing'[b] <= cmd_timing'[b]["ACTIVATE"]
                     /\ refreshing'[b] > 0 => open_row'[b] = None
  BY DEF RefreshInv, RanksOnly, Banks, banks
<1>1. /\ refreshing[b] \in Nat /\ cmd_timing[b]["ACTIVATE"] \in Nat
      /\ refreshing[b] <= cmd_timing[b]["ACTIVATE"]
      /\ refreshing[b] > 0 => open_row[b] = None
      /\ open_row \in [Banks -> Int] /\ refreshing \in [Banks -> Nat]
  BY DEF BankType, RefreshInv, Timed
<1>2. /\ cmd_timing'[b]["ACTIVATE"] \in Nat
      /\ cmd_timing'[b]["ACTIVATE"] >= cmd_timing[b]["ACTIVATE"]
      /\ cmd_timing'[b]["ACTIVATE"]
           >= TimingOf(cmd.type, Scope(cmd.bank, b))["ACTIVATE"]
  BY UpdateTimes DEF UpdateTimingAndStates, Timed
<1>3. /\ open_row' = CASE cmd.type = "ACTIVATE" -> [open_row EXCEPT ![cmd.bank] = cmd.row]
                       [] Closes(cmd.type) -> [open_row EXCEPT ![cmd.bank] = None]
                       [] OTHER -> open_row
      /\ refreshing' = IF IsRefresh(cmd.type)
           THEN [i \in Banks |-> IF i \notin BanksOf(cmd) THEN refreshing[i]
                   ELSE IF cmd.type = "REFRESH" THEN config.tRFC ELSE config.tRFCb]
           ELSE refreshing
  BY DEF UpdateTimingAndStates, UpdateState, UpdateTiming
<1>4. CASE IsRefresh(cmd.type)
  <2>1. ReadyRefresh(cmd) /\ cmd.type = "REFRESH"
    <3>1. ReadyRefresh(cmd)
      BY <1>4 DEF Ready, ReadyColumn, ReadyActivate, ColumnCommand, ColumnTypes, IsRefresh
    <3>2. 1 \in DOMAIN refresh_q /\ cmd = refresh_q[1]
      BY <3>1 DEF ReadyRefresh, BankType
    <3>. QED
      BY <3>1, <3>2 DEF BankType
  <2>2. open_row' = open_row
    BY <1>3, <2>1 DEF Closes
  <2>3. CASE b \notin BanksOf(cmd)
    BY <1>1, <1>2, <1>3, <2>2, <2>3
  <2>4. CASE b \in BanksOf(cmd)
    <3>1. open_row[b] = None
      BY <2>1, <2>4 DEF ReadyRefresh, IsRowOpen
    <3>2. refreshing'[b] = config.tRFC
      BY <1>3, <2>1, <2>4 DEF IsRefresh
    <3>3. Scope(cmd.bank, b) # "other_ranks"
      BY <2>1, <2>4 DEF BanksOf, Scope
    <3>4. TimingOf(cmd.type, Scope(cmd.bank, b)) = AfterRefresh("REFRESH", Scope(cmd.bank, b))
      BY <2>1 DEF TimingOf, IsRefresh, IsReadWrite, IsRead, IsWrite
    <3>5. AfterRefresh("REFRESH", Scope(cmd.bank, b))["ACTIVATE"] = config.tRFC
      BY <3>3, ParamsAreNat DEF AfterRefresh, NoDelay, Timed
    <3>. QED
      BY <1>2, <2>2, <3>1, <3>2, <3>4, <3>5, ParamsAreNat
  <2>. QED
    BY <2>3, <2>4
<1>5. CASE cmd.type = "ACTIVATE"
  <2>1. refreshing'[b] = refreshing[b]
    BY <1>3, <1>5 DEF IsRefresh
  <2>2. open_row' = [open_row EXCEPT ![cmd.bank] = cmd.row]
    BY <1>3, <1>5 DEF Closes
  <2>3. CASE b = cmd.bank
    <3>1. ReadyRefresh(cmd) => FALSE
      <4>1. 1 \in DOMAIN refresh_q => refresh_q[1].type = "REFRESH"
        BY DEF BankType
      <4>2. ReadyRefresh(cmd) => 1 \in DOMAIN refresh_q /\ cmd = refresh_q[1]
        BY DEF ReadyRefresh, BankType
      <4>. QED
        BY <1>5, <4>1, <4>2
    <3>2. ReadyActivate(cmd)
      BY <1>5, <3>1 DEF Ready, ReadyColumn, ColumnCommand, ColumnTypes
    <3>3. cmd_timing[b]["ACTIVATE"] = 0
      BY <1>5, <2>3, <3>2 DEF ReadyActivate, TimeOk, TimedAs, IsRead, IsWrite
    <3>. QED
      BY <1>1, <1>2, <2>1, <3>3
  <2>4. CASE b # cmd.bank
    <3>1. open_row'[b] = open_row[b]
      BY <1>1, <2>2, <2>4
    <3>. QED
      BY <1>1, <1>2, <2>1, <3>1
  <2>. QED
    BY <2>3, <2>4
<1>6. CASE ~IsRefresh(cmd.type) /\ cmd.type # "ACTIVATE"
  <2>1. refreshing'[b] = refreshing[b]
    BY <1>3, <1>6
  <2>2. open_row'[b] = open_row[b] \/ open_row'[b] = None
    <3>1. CASE Closes(cmd.type)
      <4>1. open_row' = [open_row EXCEPT ![cmd.bank] = None]
        BY <1>3, <1>6, <3>1
      <4>. QED
        BY <1>1, <4>1
    <3>2. CASE ~Closes(cmd.type)
      BY <1>3, <1>6, <3>2
    <3>. QED
      BY <3>1, <3>2
  <2>. QED
    BY <1>1, <1>2, <2>1, <2>2
<1>. QED
  BY <1>4, <1>5, <1>6

\* The activation is counted in its rank only.
LEMMA CommandKeepsWindowInv ==
  ASSUME config \in Configs, config' = config, BankType, WindowInv,
         NEW cmd, Ready(cmd), UpdateTimingAndStates(cmd), cmd.type = "ACTIVATE" => LiveInv
  PROVE  WindowInv'
<1>. SUFFICES ASSUME NEW r \in Ranks
              PROVE  Tracks(window'[r], four_aw'[r], config.tFAW)
  BY DEF WindowInv, Ranks
<1>1. /\ Tracks(window[r], four_aw[r], config.tFAW) /\ config.tFAW \in Nat
      /\ window[r] \in Seq(Nat) /\ four_aw[r] \in Seq(Nat)
      /\ window \in [Ranks -> Seq(Nat)] /\ four_aw \in [Ranks -> Seq(Nat)]
  BY ParamsAreNat DEF WindowInv, BankType
<1>2. CASE cmd.type # "ACTIVATE" \/ r # RankOf(cmd.bank)
  <2>1. window'[r] = window[r] /\ four_aw'[r] = four_aw[r]
    BY <1>1, <1>2 DEF UpdateTimingAndStates, UpdateTiming
  <2>. QED
    BY <1>1, <2>1
<1>3. CASE cmd.type = "ACTIVATE" /\ r = RankOf(cmd.bank)
  <2>1. /\ window'[r] = Append(window[r], config.tFAW)
        /\ four_aw'[r] = Activated(four_aw[r])
    BY <1>1, <1>3 DEF UpdateTimingAndStates, UpdateTiming
  <2>2. ~(Len(four_aw[r]) >= 4 /\ Head(four_aw[r]) > 0)
    <3>1. ReadyRefresh(cmd) => FALSE
      <4>1. refresh_q \in Seq(RefreshCommand)
        BY DEF BankType
      <4>2. ReadyRefresh(cmd) => cmd \in RefreshCommand
        BY <4>1 DEF ReadyRefresh
      <4>. QED
        BY <1>3, <4>2 DEF RefreshCommand
    <3>. QED
      BY <1>3, <3>1 DEF Ready, ReadyColumn, ReadyActivate, ColumnCommand, ColumnTypes,
                        IsFAWReady
  <2>3. \A i \in 1..Len(window[r]) : window[r][i] > 0
    BY <1>3 DEF LiveInv
  <2>4. PICK kept : kept = IF four_aw[r] # <<>> /\ Head(four_aw[r]) = 0
                             THEN Tail(four_aw[r]) ELSE four_aw[r]
    OBVIOUS
  <2>5. Tracks(Append(window[r], config.tFAW), Append(kept, config.tFAW), config.tFAW)
    BY <1>1, <2>2, <2>3, <2>4, ActivateTracks
  <2>6. Activated(four_aw[r]) = Append(kept, config.tFAW)
    BY <2>4 DEF Activated
  <2>. QED
    BY <2>1, <2>5, <2>6
<1>. QED
  BY <1>2, <1>3

\* A column command holds back every other one of the channel, whatever bank
\* has a row open.
LEMMA ColumnMakesBurstInv ==
  ASSUME config \in Configs, config' = config, BankType,
         NEW cmd, ReadyColumn(cmd), UpdateTimingAndStates(cmd)
  PROVE  BurstInv'
<1>. SUFFICES ASSUME NEW b \in Banks, open_row'[b] # None
              PROVE  cmd_timing'[b]["READ"] > 0 /\ cmd_timing'[b]["WRITE"] > 0
  BY DEF BurstInv, Banks, banks
<1>1. cmd.type \in ColumnTypes /\ cmd.bank \in Banks /\ open_row \in [Banks -> Int]
  BY DEF ReadyColumn, ColumnCommand, BankType
<1>2. b = cmd.bank => ~Closes(cmd.type)
  <2>1. ASSUME Closes(cmd.type), b = cmd.bank PROVE FALSE
    <3>1. open_row' = [open_row EXCEPT ![cmd.bank] = None]
      BY <2>1 DEF UpdateTimingAndStates, UpdateState, Closes
    <3>. QED
      BY <1>1, <2>1, <3>1
  <2>. QED
    BY <2>1
<1>3. Scope(cmd.bank, b) = "same_bank" => b = cmd.bank
  BY DEF Scope
<1>4. Scope(cmd.bank, b) = "other_ranks" => config.ranks > 1
  <2>1. RankOf(b) \in 0..(config.ranks - 1) /\ RankOf(cmd.bank) \in 0..(config.ranks - 1)
    BY <1>1, RankInRange DEF Ranks
  <2>2. Scope(cmd.bank, b) = "other_ranks" => RankOf(b) # RankOf(cmd.bank)
    BY DEF Scope
  <2>3. config.ranks \in Nat
    BY TimingAssumption
  <2>. QED
    BY <2>1, <2>2, <2>3
<1>5. \A t \in {"READ", "WRITE"} : TimingOf(cmd.type, Scope(cmd.bank, b))[t] > 0
  BY <1>1, <1>2, <1>3, <1>4, ColumnsWait
<1>6. TimingOf(cmd.type, Scope(cmd.bank, b)) \in [Timed -> Int]
  BY TimingType
<1>7. \A t \in {"READ", "WRITE"} :
        /\ cmd_timing'[b][t] \in Nat
        /\ cmd_timing'[b][t] >= TimingOf(cmd.type, Scope(cmd.bank, b))[t]
  BY UpdateTimes DEF UpdateTimingAndStates, Timed
<1>. QED
  BY <1>5, <1>6, <1>7 DEF Timed

\* So none is ready in the same cycle.
LEMMA NoSecondColumn ==
  ASSUME BurstInv, NEW cmd, ReadyColumn(cmd)
  PROVE  FALSE
BY DEF BurstInv, ReadyColumn, ColumnCommand, ColumnTypes, TimeOk, TimedAs, IsRead, IsWrite

\* A cycle brings every bank nearer to its next command and changes no row.
LEMMA ElapseKeepsBanks ==
  ASSUME config \in Configs, config' = config, UNCHANGED refreshVars, BankInv, Elapse
  PROVE  BankInv' /\ LiveInv'
<1>. USE DEF BankInv
<1>1. \A n \in Nat : Less(n) \in Nat /\ Less(n) <= n
  BY DEF Less
<1>2. /\ open_row \in [Banks -> Int] /\ cmd_timing \in [Banks -> [Timed -> Nat]]
      /\ four_aw \in [Ranks -> Seq(Nat)] /\ window \in [Ranks -> Seq(Nat)]
      /\ refreshing \in [Banks -> Nat]
  BY DEF BankType
<1>3. /\ cmd_timing' = [b \in Banks |-> LessAll(cmd_timing[b])]
      /\ four_aw' = [r \in Ranks |-> LessAll(four_aw[r])]
      /\ window' = [r \in Ranks |-> InWindow(LessAll(window[r]))]
      /\ refreshing' = LessAll(refreshing)
      /\ UNCHANGED <<open_row, refresh_q>>
  BY DEF Elapse
<1>4. \A b \in Banks : /\ cmd_timing'[b] \in [Timed -> Nat]
                       /\ \A t \in Timed : cmd_timing'[b][t] = Less(cmd_timing[b][t])
                       /\ refreshing'[b] = Less(refreshing[b])
  BY <1>1, <1>2, <1>3 DEF LessAll
<1>5. refreshing' \in [Banks -> Nat]
  BY <1>1, <1>2, <1>3 DEF LessAll
<1>6. \A r \in Ranks :
        /\ four_aw'[r] \in Seq(Nat) /\ window'[r] \in Seq(Nat)
        /\ Tracks(window'[r], four_aw'[r], config.tFAW)
        /\ \A i \in 1..Len(window'[r]) : window'[r][i] > 0
  <2>. SUFFICES ASSUME NEW r \in Ranks
                PROVE  /\ four_aw'[r] \in Seq(Nat) /\ window'[r] \in Seq(Nat)
                       /\ Tracks(window'[r], four_aw'[r], config.tFAW)
                       /\ \A i \in 1..Len(window'[r]) : window'[r][i] > 0
    OBVIOUS
  <2>1. /\ window[r] \in Seq(Nat) /\ four_aw[r] \in Seq(Nat) /\ config.tFAW \in Nat
        /\ Tracks(window[r], four_aw[r], config.tFAW)
    BY <1>2, ParamsAreNat DEF WindowInv
  <2>2. LessAll(window[r]) \in Seq(Nat) /\ LessAll(four_aw[r]) \in Seq(Nat)
    BY <2>1, LessAllShape
  <2>3. Tracks(LessAll(window[r]), LessAll(four_aw[r]), config.tFAW)
    BY <2>1, LessTracks
  <2>4. /\ InWindow(LessAll(window[r])) \in Seq(Nat)
        /\ Tracks(InWindow(LessAll(window[r])), LessAll(four_aw[r]), config.tFAW)
        /\ \A i \in 1..Len(InWindow(LessAll(window[r]))) :
             InWindow(LessAll(window[r]))[i] > 0
    BY <2>1, <2>2, <2>3, WindowTracks
  <2>5. window'[r] = InWindow(LessAll(window[r])) /\ four_aw'[r] = LessAll(four_aw[r])
    BY <1>3
  <2>. QED
    BY <2>2, <2>4, <2>5
<1>7. BankType'
  <2>1. cmd_timing' \in [Banks -> [Timed -> Nat]]
    BY <1>3, <1>4
  <2>2. four_aw' \in [Ranks -> Seq(Nat)] /\ window' \in [Ranks -> Seq(Nat)]
    BY <1>3, <1>6
  <2>. QED
    BY <1>2, <1>3, <1>5, <2>1, <2>2
       DEF BankType, Banks, Ranks, banks, RanksOnly, refreshVars
<1>8. RefreshInv'
  <2>. SUFFICES ASSUME RanksOnly, NEW b \in Banks
                PROVE  /\ refreshing'[b] <= cmd_timing'[b]["ACTIVATE"]
                       /\ refreshing'[b] > 0 => open_row'[b] = None
    BY DEF RefreshInv, RanksOnly, Banks, banks
  <2>1. /\ refreshing[b] \in Nat /\ cmd_timing[b]["ACTIVATE"] \in Nat
        /\ refreshing[b] <= cmd_timing[b]["ACTIVATE"]
        /\ refreshing[b] > 0 => open_row[b] = None
    BY <1>2 DEF RefreshInv, Timed
  <2>2. /\ refreshing'[b] = Less(refreshing[b])
        /\ cmd_timing'[b]["ACTIVATE"] = Less(cmd_timing[b]["ACTIVATE"])
        /\ open_row'[b] = open_row[b]
    BY <1>3, <1>4 DEF Timed
  <2>. QED
    BY <2>1, <2>2 DEF Less
<1>9. WindowInv' /\ LiveInv'
  BY <1>6 DEF WindowInv, LiveInv, Ranks
<1>. QED
  BY <1>7, <1>8, <1>9

\* A refresh that falls due changes no bank; under the policies of ranks it is
\* for a rank.
LEMMA RefreshTickKeepsBanks ==
  ASSUME config \in Configs, config' = config, BankInv, RefreshClockTick,
         UNCHANGED bankVars
  PROVE  BankInv'
<1>1. /\ refresh_q \in Seq(RefreshCommand)
      /\ next_ref \in [rank : Nat, bg : Nat, bank : Nat]
      /\ RanksOnly => \A i \in DOMAIN refresh_q : refresh_q[i].type = "REFRESH"
  BY DEF BankInv, BankType
<1>2. /\ config.ranks \in Nat \ {0} /\ config.bankgroups \in Nat \ {0}
      /\ config.banks_per_group \in Nat \ {0} /\ banks \in Nat
      /\ config.refresh_policy \in
           {"RANK_LEVEL_SIMULTANEOUS", "RANK_LEVEL_STAGGERED", "BANK_LEVEL_STAGGERED"}
  BY TimingAssumption, PolicyAssumption DEF banks
<1>3. \A r, bg, bank \in Nat : BankAt(r, bg, bank) \in Int
  BY <1>2 DEF BankAt
<1>4. CASE InsertRefresh /\ IterateNext
  <2>1. PICK ref \in RefreshCommand :
          refresh_q' = Append(refresh_q, ref) /\ (RanksOnly => ref.type = "REFRESH")
    <3>1. PICK ref : /\ refresh_q' = Append(refresh_q, ref)
                     /\ ref = CASE config.refresh_policy = "RANK_LEVEL_SIMULTANEOUS" -> RankRefresh(0)
                        [] config.refresh_policy = "RANK_LEVEL_STAGGERED" -> RankRefresh(next_ref.rank)
                        [] OTHER -> Command("REFRESH_BANK",
                              BankAt(next_ref.rank, next_ref.bg, next_ref.bank), None, NoAddress)
      BY <1>4 DEF InsertRefresh
    <3>2. \A r \in Nat : RankRefresh(r) \in RefreshCommand /\ RankRefresh(r).type = "REFRESH"
      BY <1>3 DEF RankRefresh, Command, RefreshCommand
    <3>3. Command("REFRESH_BANK", BankAt(next_ref.rank, next_ref.bg, next_ref.bank),
                  None, NoAddress) \in RefreshCommand
      BY <1>1, <1>3 DEF Command, RefreshCommand
    <3>. QED
      BY <1>1, <1>2, <3>1, <3>2, <3>3 DEF RanksOnly
  <2>2. /\ refresh_q' \in Seq(RefreshCommand)
        /\ \A i \in DOMAIN refresh_q' : refresh_q'[i] = ref \/
             (i \in DOMAIN refresh_q /\ refresh_q'[i] = refresh_q[i])
    BY <1>1, <2>1
  <2>3. next_ref' \in [rank : Nat, bg : Nat, bank : Nat]
    <3>1. /\ (next_ref.bg + 1) % config.bankgroups \in Nat
          /\ (next_ref.bank + 1) % config.banks_per_group \in Nat
          /\ (next_ref.rank + 1) % config.ranks \in Nat
      <4>1. \A n \in Nat, m \in Nat \ {0} : (n + 1) % m \in Nat
        OBVIOUS
      <4>2. next_ref.bg \in Nat /\ next_ref.bank \in Nat /\ next_ref.rank \in Nat
        BY <1>1
      <4>. QED
        BY <1>2, <4>1, <4>2
    <3>. QED
      BY <1>1, <1>2, <1>4, <3>1 DEF IterateNext
  <2>. QED
    BY <1>1, <2>1, <2>2, <2>3
       DEF BankInv, BankType, RefreshInv, WindowInv, Banks, Ranks, banks, RanksOnly, bankVars
<1>5. CASE UNCHANGED <<refresh_q, next_ref>>
  BY <1>5 DEF BankInv, BankType, RefreshInv, WindowInv, Banks, Ranks, banks, RanksOnly,
              bankVars
<1>. QED
  BY <1>4, <1>5 DEF RefreshClockTick

-----------------------------------------------------------------------------
(* Which command is next.                                                  *)

\* A refresh closes a bank or is issued.
LEMMA RefreshIsReady ==
  ASSUME refresh_q # <<>>, NEW cmd, cmd = GetReadyRefresh(Head(refresh_q)), IsValid(cmd)
  PROVE  cmd.type = "PRECHARGE" \/ ReadyRefresh(cmd)
<1>. DEFINE ref == Head(refresh_q)
            toClose == {b \in BanksOf(ref) : IsRowOpen(b) /\ TimeOk(b, "PRECHARGE")}
<1>1. CASE toClose # {}
  <2>1. cmd = Command("PRECHARGE", Min(toClose), None, NoAddress)
    BY <1>1 DEF GetReadyRefresh
  <2>. QED
    BY <2>1 DEF Command
<1>2. CASE toClose = {}
  <2>1. cmd = IF \A b \in BanksOf(ref) : ~IsRowOpen(b) /\ TimeOk(b, ref.type)
                THEN ref ELSE NoCommand
    BY <1>2 DEF GetReadyRefresh
  <2>2. NoCommand.type = "NONE"
    BY DEF NoCommand, Command
  <2>. QED
    BY <2>1, <2>2 DEF IsValid, ReadyRefresh
<1>. QED
  BY <1>1, <1>2

\* A command of a queue is issued itself, or opens or closes its bank.
LEMMA CommandIsReady ==
  ASSUME config \in Configs, NEW c \in ColumnCommand,
         NEW cmd, cmd = GetReadyCommand(c), IsValid(cmd)
  PROVE  \/ cmd = c /\ ReadyColumn(cmd)
         \/ ReadyActivate(cmd)
         \/ cmd.type = "PRECHARGE"
<1>1. NoCommand.type = "NONE"
  BY DEF NoCommand, Command
<1>2. /\ cmd = [c EXCEPT !.type = RequiredType(c)]
      /\ TimeOk(c.bank, RequiredType(c))
      /\ RequiredType(c) = "ACTIVATE" => IsFAWReady(RankOf(c.bank))
  BY <1>1 DEF GetReadyCommand, IsValid
<1>3. /\ cmd.type = RequiredType(c) /\ cmd.bank = c.bank /\ cmd.row = c.row
      /\ c.bank \in Banks /\ c.row \in Nat
  BY <1>2 DEF ColumnCommand
<1>4. CASE ~IsRowOpen(c.bank)
  <2>1. RequiredType(c) = "ACTIVATE"
    BY <1>4 DEF RequiredType
  <2>. QED
    BY <1>2, <1>3, <2>1 DEF ReadyActivate
<1>5. CASE IsRowOpen(c.bank) /\ open_row[c.bank] = c.row
  <2>1. RequiredType(c) = c.type
    BY <1>5 DEF RequiredType
  <2>2. cmd = c
    BY <1>2, <2>1 DEF ColumnCommand
  <2>. QED
    BY <1>2, <1>5, <2>1, <2>2 DEF ReadyColumn, IsRowOpen
<1>6. CASE IsRowOpen(c.bank) /\ open_row[c.bank] # c.row
  BY <1>3, <1>6 DEF RequiredType
<1>. QED
  BY <1>4, <1>5, <1>6

\* The queue whose turn it is, and which command of it.
LEMMA NextCommand ==
  ASSUME config \in Configs, CommandInv
  PROVE  /\ NextQueue \in 0..(num_queues - 1)
         /\ IsValid(FirstReady(NextQueue)) =>
              \E k \in 1..Len(queues[NextQueue]) :
                /\ FirstReady(NextQueue) = GetReadyCommand(queues[NextQueue][k])
                /\ ~(IsWrite(FirstReady(NextQueue).type)
                     /\ HasRWDependency(queues[NextQueue], k))
         /\ IsValid(FirstReady(NextQueue)) => NextQueue \notin ref_q_indices
<1>1. config.ranks \in Nat \ {0} /\ banks \in Nat \ {0}
  BY TimingAssumption DEF banks
<1>2. num_queues \in Nat \ {0}
  <2>1. config.ranks * banks \in Nat \ {0}
    BY <1>1
  <2>. QED
    BY <1>1, <2>1 DEF num_queues
<1>3. queue_idx \in 0..(num_queues - 1)
  BY DEF CommandInv
<1>4. NextQueue \in 0..(num_queues - 1)
  <2>1. CASE ReadyTurns = {}
    BY <1>3, <2>1 DEF NextQueue
  <2>2. CASE ReadyTurns # {}
    <3>1. ReadyTurns \in SUBSET Nat
      BY DEF ReadyTurns, Turns
    <3>2. Min(ReadyTurns) \in Nat
      BY <2>2, <3>1, MinIsLeast
    <3>3. \A n \in Nat : Turn(n) \in 0..(num_queues - 1)
      BY <1>2, <1>3 DEF Turn
    <3>. QED
      BY <2>2, <3>2, <3>3 DEF NextQueue
  <2>. QED
    BY <2>1, <2>2
<1>5. ReadyTurns # {} => Min(ReadyTurns) \in ReadyTurns
  <2>1. ReadyTurns \in SUBSET Nat
    BY DEF ReadyTurns, Turns
  <2>. QED
    BY <2>1, MinIsLeast
<1>6. ASSUME IsValid(FirstReady(NextQueue))
      PROVE  NextQueue \notin ref_q_indices
  <2>1. NoCommand.type = "NONE"
    BY DEF NoCommand, Command
  <2>2. ReadyTurns # {}
    BY <1>6, <2>1 DEF FirstReady, IsValid
  <2>3. NextQueue = Turn(Min(ReadyTurns)) /\ Min(ReadyTurns) \in Turns
    BY <2>2, <1>5 DEF NextQueue, ReadyTurns
  <2>. QED
    BY <2>3 DEF Turns
<1>7. ASSUME IsValid(FirstReady(NextQueue))
      PROVE  \E k \in 1..Len(queues[NextQueue]) :
                /\ FirstReady(NextQueue) = GetReadyCommand(queues[NextQueue][k])
                /\ ~(IsWrite(FirstReady(NextQueue).type)
                     /\ HasRWDependency(queues[NextQueue], k))
  <2>. DEFINE q == queues[NextQueue]
  <2>1. NoCommand.type = "NONE"
    BY DEF NoCommand, Command
  <2>2. ReadyIn(q) # {} /\ FirstReady(NextQueue) = GetReadyCommand(q[Min(ReadyIn(q))])
    <3>1. ReadyTurns # {}
      BY <1>7, <2>1 DEF FirstReady, IsValid
    <3>2. NextQueue = Turn(Min(ReadyTurns)) /\ Min(ReadyTurns) \in ReadyTurns
      BY <3>1, <1>5 DEF NextQueue
    <3>. QED
      BY <3>1, <3>2 DEF ReadyTurns, FirstReady
  <2>3. q \in Seq(ColumnCommand)
    BY <1>4 DEF CommandInv
  <2>. HIDE DEF q
  <2>4. DOMAIN q = 1..Len(q) /\ Len(q) \in Nat
    BY <2>3
  <2>5. ReadyIn(q) \in SUBSET Nat
    BY <2>4 DEF ReadyIn
  <2>6. Min(ReadyIn(q)) \in ReadyIn(q)
    BY <2>2, <2>5, MinIsLeast
  <2>7. Min(ReadyIn(q)) \in 1..Len(q) /\ Issuable(q, Min(ReadyIn(q)))
    BY <2>4, <2>6 DEF ReadyIn
  <2>. QED
    BY <2>2, <2>7 DEF Issuable, q
<1>. QED
  BY <1>4, <1>6, <1>7

\* The column command itself is the one that leaves its queue.
LEMMA EraseTakesIt ==
  ASSUME config \in Configs, CommandInv, NEW i \in 0..(num_queues - 1),
         NEW k \in 1..Len(queues[i]), EraseRWCommand(queues[i][k])
  PROVE  queues' = [queues EXCEPT ![i] = RemoveAt(queues[i], k)]
<1>. DEFINE q == queues[i]
            c == queues[i][k]
<1>1. /\ q \in Seq(ColumnCommand) /\ c \in ColumnCommand
      /\ GetQueueIndex(c.bank) = i
      /\ \A m, n \in 1..Len(q) : q[m].addr = q[n].addr
              /\ IsWrite(q[m].type) = IsWrite(q[n].type) => m = n
  BY DEF CommandInv
<1>2. IsReadWrite(c.type)
  BY <1>1 DEF ColumnCommand, ColumnTypes, IsReadWrite, IsRead, IsWrite
<1>3. queues' = [queues EXCEPT ![i] =
                   RemoveFirstMatch(@, LAMBDA d : d.addr = c.addr /\ d.type = c.type)]
  BY <1>1, <1>2 DEF EraseRWCommand
<1>4. RemoveFirstMatch(q, LAMBDA d : d.addr = c.addr /\ d.type = c.type) = RemoveAt(q, k)
  <2>. DEFINE hits == {n \in 1..Len(q) : q[n].addr = c.addr /\ q[n].type = c.type}
  <2>1. hits = {k}
    BY <1>1
  <2>2. Min(hits) = k
    <3>1. {k} \in SUBSET Nat /\ {k} # {}
      OBVIOUS
    <3>2. Min({k}) \in {k}
      BY <3>1, MinIsLeast
    <3>. QED
      BY <2>1, <3>2
  <2>3. k > 0
    OBVIOUS
  <2>. QED
    BY <2>1, <2>2, <2>3 DEF RemoveFirstMatch, SelectInSeq
<1>. QED
  BY <1>3, <1>4

-----------------------------------------------------------------------------
(* The books.                                                              *)

LEMMA StreamType ==
  ASSUME config \in Configs
  PROVE  /\ config.stream \in Seq([addr : Address, is_write : BOOLEAN])
         /\ config.unified_queue \in BOOLEAN /\ config.enable_hbm_dual_cmd \in BOOLEAN
         /\ \A t \in 1..Len(config.stream) : AddrOf(t) \in Address /\ is_write(t) \in BOOLEAN
<1>1. /\ config.stream \in Seq([addr : Address, is_write : BOOLEAN])
      /\ config.unified_queue \in BOOLEAN /\ config.enable_hbm_dual_cmd \in BOOLEAN
  BY StreamAssumption DEF Address, Banks, banks
<1>2. \A t \in 1..Len(config.stream) :
        config.stream[t] \in [addr : Address, is_write : BOOLEAN]
  <2>1. \A T : \A s \in Seq(T) : \A t \in 1..Len(s) : s[t] \in T
    OBVIOUS
  <2>. QED
    BY <1>1, <2>1
<1>. QED
  BY <1>1, <1>2 DEF AddrOf, is_write

\* A place in the transactions' queues, seen before and after a step.
LEMMA TQShape ==
  /\ TQ[1] = unified_queue /\ TQ[2] = read_queue /\ TQ[3] = write_buffer
  /\ TQ'[1] = unified_queue' /\ TQ'[2] = read_queue' /\ TQ'[3] = write_buffer'
BY DEF TQ

\* A transaction added goes to the end of one queue; the others stay as they are.
LEMMA EnqueueShape ==
  ASSUME config \in Configs, NEW t \in 1..Len(config.stream), Enqueue(t)
  PROVE  \A x \in Places : TQ'[x] = IF x = QueueOf(t) THEN Append(TQ[x], t) ELSE TQ[x]
BY StreamType, TQShape DEF Enqueue, QueueOf, Places

\* The transactions that wait, one more of them.
LEMMA EnqueueWaits ==
  ASSUME config \in Configs, config' = config, WaitInv, added \in Nat,
         NEW t, t = added + 1, t \in 1..Len(config.stream), added' = t,
         ~Waits(AddrOf(t), is_write(t)), Enqueue(t)
  PROVE  /\ WaitInv'
         /\ \A a, w : Waits(a, w)' <=> Waits(a, w) \/ (a = AddrOf(t) /\ w = is_write(t))
<1>1. \A x \in Places : TQ'[x] = IF x = QueueOf(t) THEN Append(TQ[x], t) ELSE TQ[x]
  BY EnqueueShape
<1>2. \A x \in Places : TQ[x] \in Seq(1..added)
  BY DEF WaitInv
<1>3. QueueOf(t) \in Places
  BY DEF QueueOf, Places
<1>4. \A x \in Places \ {QueueOf(t)} : TQ'[x] = TQ[x]
  BY <1>1
<1>5. /\ TQ'[QueueOf(t)] \in Seq(1..t)
      /\ Len(TQ'[QueueOf(t)]) = Len(TQ[QueueOf(t)]) + 1
      /\ TQ'[QueueOf(t)][Len(TQ[QueueOf(t)]) + 1] = t
      /\ \A i \in 1..Len(TQ[QueueOf(t)]) : TQ'[QueueOf(t)][i] = TQ[QueueOf(t)][i]
  <2>1. TQ'[QueueOf(t)] = Append(TQ[QueueOf(t)], t)
    BY <1>1, <1>3
  <2>2. TQ[QueueOf(t)] \in Seq(1..t) /\ t \in 1..t
    BY <1>2, <1>3
  <2>. QED
    BY <2>1, <2>2
<1>6. \A x \in Places : TQ'[x] \in Seq(1..t)
  <2>1. \A s \in Seq(1..added) : s \in Seq(1..t)
    OBVIOUS
  <2>2. \A x \in Places \ {QueueOf(t)} : TQ'[x] \in Seq(1..t)
    BY <1>2, <1>4, <2>1
  <2>. QED
    BY <1>5, <2>2
<1>7. \A x \in Places : \A i : i \in 1..Len(TQ'[x]) <=>
         i \in 1..Len(TQ[x]) \/ (x = QueueOf(t) /\ i = Len(TQ[x]) + 1)
  <2>1. \A x \in Places : Len(TQ[x]) \in Nat
    BY <1>2
  <2>. QED
    BY <1>4, <1>5, <2>1
<1>8. \A x \in Places : \A i \in 1..Len(TQ[x]) : TQ'[x][i] = TQ[x][i]
  BY <1>4, <1>5
<1>9. WaitInv'
  <2>1. \A x \in Places : \A i \in 1..Len(TQ'[x]) : QueueOf(TQ'[x][i]) = x
    <3>. SUFFICES ASSUME NEW x \in Places, NEW i \in 1..Len(TQ'[x])
                  PROVE  QueueOf(TQ'[x][i]) = x
      OBVIOUS
    <3>1. CASE i \in 1..Len(TQ[x])
      <4>1. QueueOf(TQ[x][i]) = x
        BY <3>1 DEF WaitInv
      <4>. QED
        BY <1>8, <3>1, <4>1
    <3>2. CASE x = QueueOf(t) /\ i = Len(TQ[x]) + 1
      BY <1>5, <3>2
    <3>. QED
      BY <1>7, <3>1, <3>2
  <2>2. \A x \in Places : \A i, j \in 1..Len(TQ'[x]) :
          AddrOf(TQ'[x][i]) = AddrOf(TQ'[x][j])
            /\ is_write(TQ'[x][i]) = is_write(TQ'[x][j]) => i = j
    <3>1. \A x \in Places : \A i \in 1..Len(TQ[x]) :
            ~(AddrOf(TQ[x][i]) = AddrOf(t) /\ is_write(TQ[x][i]) = is_write(t))
      BY DEF Waits
    <3>. SUFFICES ASSUME NEW x \in Places, NEW i \in 1..Len(TQ'[x]), NEW j \in 1..Len(TQ'[x]),
                         AddrOf(TQ'[x][i]) = AddrOf(TQ'[x][j]),
                         is_write(TQ'[x][i]) = is_write(TQ'[x][j])
                  PROVE  i = j
      OBVIOUS
    <3>2. \A k \in 1..Len(TQ'[x]) :
            \/ k \in 1..Len(TQ[x]) /\ TQ'[x][k] = TQ[x][k]
            \/ k = Len(TQ[x]) + 1 /\ TQ'[x][k] = t
      BY <1>5, <1>7, <1>8
    <3>3. CASE i \in 1..Len(TQ[x]) /\ j \in 1..Len(TQ[x])
      BY <1>8, <3>3 DEF WaitInv
    <3>4. CASE ~(i \in 1..Len(TQ[x]) /\ j \in 1..Len(TQ[x]))
      BY <3>1, <3>2, <3>4
    <3>. QED
      BY <3>3, <3>4
  <2>. QED
    BY <1>6, <2>1, <2>2 DEF WaitInv, QueueOf, AddrOf, is_write
<1>10. \A a, w : Waits(a, w)' <=> Waits(a, w) \/ (a = AddrOf(t) /\ w = is_write(t))
  <2>. SUFFICES ASSUME NEW a, NEW w
                PROVE  Waits(a, w)' <=> Waits(a, w) \/ (a = AddrOf(t) /\ w = is_write(t))
    OBVIOUS
  <2>1. Waits(a, w)' <=> \E x \in Places : \E i \in 1..Len(TQ'[x]) :
                            AddrOf(TQ'[x][i]) = a /\ is_write(TQ'[x][i]) = w
    BY DEF Waits, AddrOf, is_write
  <2>2. (a = AddrOf(t) /\ w = is_write(t)) =>
          \E x \in Places : \E i \in 1..Len(TQ'[x]) :
            AddrOf(TQ'[x][i]) = a /\ is_write(TQ'[x][i]) = w
    BY <1>3, <1>5, <1>7
  <2>3. Waits(a, w) => \E x \in Places : \E i \in 1..Len(TQ'[x]) :
                          AddrOf(TQ'[x][i]) = a /\ is_write(TQ'[x][i]) = w
    BY <1>7, <1>8 DEF Waits
  <2>4. ASSUME NEW x \in Places, NEW i \in 1..Len(TQ'[x]),
               AddrOf(TQ'[x][i]) = a, is_write(TQ'[x][i]) = w
        PROVE  Waits(a, w) \/ (a = AddrOf(t) /\ w = is_write(t))
    <3>1. CASE i \in 1..Len(TQ[x])
      BY <1>8, <2>4, <3>1 DEF Waits
    <3>2. CASE x = QueueOf(t) /\ i = Len(TQ[x]) + 1
      BY <1>5, <2>4, <3>2
    <3>. QED
      BY <1>7, <3>1, <3>2
  <2>. QED
    BY <2>1, <2>2, <2>3, <2>4
<1>. QED
  BY <1>9, <1>10

\* What the books are kept of is of the stream.
LEMMA BooksTypes ==
  ASSUME config \in Configs, WaitInv, CommandInv, added \in 0..Len(config.stream)
  PROVE  /\ \A x \in Places : /\ TQ[x] \in Seq(1..added)
                              /\ \A i \in 1..Len(TQ[x]) : /\ TQ[x][i] \in 1..added
                                                          /\ AddrOf(TQ[x][i]) \in Address
                                                          /\ is_write(TQ[x][i]) \in BOOLEAN
         /\ \A q \in 0..(num_queues - 1) :
              /\ queues[q] \in Seq(ColumnCommand)
              /\ \A i \in 1..Len(queues[q]) : /\ queues[q][i] \in ColumnCommand
                                              /\ queues[q][i].addr \in Address
                                              /\ queues[q][i].type \in ColumnTypes
<1>1. \A x \in Places : TQ[x] \in Seq(1..added)
  BY DEF WaitInv
<1>2. \A x \in Places : \A i \in 1..Len(TQ[x]) : TQ[x][i] \in 1..added
  <2>1. \A s \in Seq(1..added) : \A i \in 1..Len(s) : s[i] \in 1..added
    OBVIOUS
  <2>. QED
    BY <1>1, <2>1
<1>3. \A t \in 1..added : t \in 1..Len(config.stream)
  BY StreamType
<1>4. \A q \in 0..(num_queues - 1) : queues[q] \in Seq(ColumnCommand)
  BY DEF CommandInv
<1>5. \A q \in 0..(num_queues - 1) : \A i \in 1..Len(queues[q]) : queues[q][i] \in ColumnCommand
  <2>1. \A T : \A s \in Seq(T) : \A i \in 1..Len(s) : s[i] \in T
    OBVIOUS
  <2>. QED
    BY <1>4, <2>1
<1>6. \A c \in ColumnCommand : c.addr \in Address /\ c.type \in ColumnTypes
  BY DEF ColumnCommand
<1>. QED
  BY <1>1, <1>2, <1>3, <1>4, <1>5, <1>6, StreamType

\* As long as no command leaves the queues or joins them.
LEMMA CommandsUntouched ==
  ASSUME config' = config, UNCHANGED queues
  PROVE  /\ num_queues' = num_queues
         /\ \A a, w : Commanded(a, w)' <=> Commanded(a, w)
         /\ CommandInv /\ queue_idx' \in 0..(num_queues - 1) => CommandInv'
<1>1. num_queues' = num_queues
  BY DEF num_queues, PerBank, banks
<1>. QED
  BY <1>1 DEF Commanded, CommandInv, ColumnCommand, Address, Banks, banks,
              GetQueueIndex, PerBank, RankOf

\* A transaction that is accepted: it is queued if none of its address and kind
\* is pending; a read only if no write of its address is pending.
LEMMA AddKeepsBooks ==
  ASSUME config \in Configs, config' = config, Books, added \in Nat,
         added < Len(config.stream), added' = added + 1, UNCHANGED queueVars,
         AddWrite(added + 1) \/ AddRead(added + 1)
  PROVE  Books'
<1>. DEFINE t == added + 1
            A == AddrOf(t)
            W == is_write(t)
<1>1. t \in 1..Len(config.stream) /\ t \in Nat /\ A \in Address /\ W \in BOOLEAN
      /\ added \in 0..Len(config.stream)
  BY StreamType
<1>2. CommandInv' /\ (\A a, w : Commanded(a, w)' <=> Commanded(a, w)) /\ num_queues' = num_queues
  <2>1. queue_idx' \in 0..(num_queues - 1)
    BY DEF Books, CommandInv, queueVars
  <2>. QED
    BY <2>1, CommandsUntouched DEF Books, queueVars
<1>3. pending_rd \in SUBSET (1..added) /\ pending_wr \in SUBSET (1..added)
  BY DEF Books, PendingInv
<1>4. \A a : /\ Pending(a, TRUE) = WithAddr(pending_wr, a)
             /\ Pending(a, FALSE) = WithAddr(pending_rd, a)
             /\ Pending(a, TRUE)' = WithAddr(pending_wr', a)
             /\ Pending(a, FALSE)' = WithAddr(pending_rd', a)
  BY DEF Pending, WithAddr, AddrOf
<1>. HIDE DEF A, W
<1>5. PendingInv' /\ \A a \in Address, w \in BOOLEAN :
        Pending(a, w)' # {} <=> Pending(a, w) # {} \/ (t \in pending_rd' \cup pending_wr'
                                                       /\ a = A /\ w = W)
  <2>1. AddWrite(t) => /\ W = TRUE /\ pending_rd' = pending_rd
                       /\ \/ pending_wr' = pending_wr
                          \/ pending_wr' = pending_wr \cup {t} /\ WithAddr(pending_wr, A) = {}
    BY DEF AddWrite, W, A
  <2>2. AddRead(t) => /\ W = FALSE /\ pending_wr' = pending_wr
                      /\ \/ pending_rd' = pending_rd
                         \/ pending_rd' = pending_rd \cup {t} /\ WithAddr(pending_wr, A) = {}
    BY <1>1 DEF AddRead, Forwarded, W, A
  <2>3. t \notin pending_rd /\ t \notin pending_wr /\ \A u \in 1..added : u < t
    BY <1>1, <1>3
  <2>4. \A a, S : WithAddr(S, a) # {} <=> \E u \in S : AddrOf(u) = a
    BY DEF WithAddr
  <2>5. PendingInv'
    <3>1. \A u : u \in 1..added => u \in 1..t
      BY <1>1
    <3>2. t \in 1..t
      BY <1>1
    <3>3. pending_rd' \subseteq pending_rd \cup {t} /\ pending_wr' \subseteq pending_wr \cup {t}
      BY <2>1, <2>2
    <3>4. pending_rd' \in SUBSET (1..added') /\ pending_wr' \in SUBSET (1..added')
      BY <1>3, <3>1, <3>2, <3>3
    <3>5. (\A u \in pending_rd' : ~is_write(u)) /\ (\A u \in pending_wr' : is_write(u))
      BY <2>1, <2>2 DEF Books, PendingInv, W
    <3>6. \A u, v \in pending_wr' : AddrOf(u) = AddrOf(v) => u = v
      BY <2>1, <2>2 DEF Books, PendingInv, WithAddr, A
    <3>7. \A u \in pending_rd', v \in pending_wr' : AddrOf(u) = AddrOf(v) => u < v
      <4>. SUFFICES ASSUME NEW u \in pending_rd', NEW v \in pending_wr', AddrOf(u) = AddrOf(v)
                    PROVE  u < v
        OBVIOUS
      <4>1. CASE u \in pending_rd /\ v \in pending_wr
        BY <4>1 DEF Books, PendingInv
      <4>2. CASE u \in pending_rd /\ v \notin pending_wr
        BY <1>3, <2>1, <2>2, <2>3, <4>2
      <4>3. CASE u \notin pending_rd
        BY <2>1, <2>2, <2>4, <4>3 DEF A
      <4>. QED
        BY <4>1, <4>2, <4>3
    <3>. QED
      BY <3>4, <3>5, <3>6, <3>7 DEF PendingInv, AddrOf, is_write
  <2>6. ASSUME NEW a \in Address, NEW w \in BOOLEAN
        PROVE  Pending(a, w)' # {} <=> Pending(a, w) # {} \/ (t \in pending_rd' \cup pending_wr'
                                                       /\ a = A /\ w = W)
    <3>1. AddrOf(t) = A
      BY DEF A
    <3>2. CASE w = TRUE
      <4>1. /\ Pending(a, w)' # {} <=> \E u \in pending_wr' : AddrOf(u) = a
            /\ Pending(a, w) # {} <=> \E u \in pending_wr : AddrOf(u) = a
        BY <2>4, <3>2 DEF Pending, WithAddr, AddrOf
      <4>. QED
        BY <2>1, <2>2, <2>3, <3>1, <3>2, <4>1
    <3>3. CASE w = FALSE
      <4>1. /\ Pending(a, w)' # {} <=> \E u \in pending_rd' : AddrOf(u) = a
            /\ Pending(a, w) # {} <=> \E u \in pending_rd : AddrOf(u) = a
        BY <2>4, <3>3 DEF Pending, WithAddr, AddrOf
      <4>. QED
        BY <2>1, <2>2, <2>3, <3>1, <3>3, <4>1
    <3>. QED
      BY <3>2, <3>3
  <2>. QED
    BY <2>5, <2>6
<1>. DEFINE isNew == t \in pending_rd' \cup pending_wr'
<1>7. \/ Enqueue(t) /\ Pending(A, W) = {} /\ isNew
      \/ NotQueued /\ (isNew => Pending(A, W) # {})
  <2>1. t \notin pending_rd /\ t \notin pending_wr
    BY <1>1, <1>3
  <2>2. CASE AddWrite(t)
    <3>1. W = TRUE /\ is_write(t)
      BY <1>1, <2>2 DEF AddWrite, W
    <3>2. Pending(A, W) = WithAddr(pending_wr, A)
      BY <3>1 DEF Pending
    <3>. QED
      BY <2>1, <2>2, <3>2 DEF AddWrite, A
  <2>3. CASE AddRead(t)
    <3>1. W = FALSE /\ ~is_write(t)
      BY <1>1, <2>3 DEF AddRead, W
    <3>2. Pending(A, W) = WithAddr(pending_rd, A)
      BY <3>1 DEF Pending
    <3>. QED
      BY <2>1, <2>3, <3>2 DEF AddRead, A
  <2>. QED
    BY <2>2, <2>3
<1>8. isNew /\ ~W => Pending(A, TRUE) = {}
  <2>1. Pending(A, TRUE) = WithAddr(pending_wr, A)
    BY DEF Pending
  <2>2. t \notin pending_rd /\ t \notin pending_wr
    BY <1>1, <1>3
  <2>. QED
    BY <2>1, <2>2 DEF AddWrite, AddRead, Forwarded, A, W
<1>. HIDE DEF isNew
<1>9. WaitInv' /\ \A a, w : Waits(a, w)' <=>
        Waits(a, w) \/ (Pending(A, W) = {} /\ isNew /\ a = A /\ w = W)
  <2>1. CASE Enqueue(t) /\ Pending(A, W) = {} /\ isNew
    <3>1. ~Waits(A, W)
      BY <1>1, <2>1 DEF Books, CarriedInv
    <3>2. WaitInv
      BY DEF Books
    <3>. QED
      BY <1>1, <2>1, <3>1, <3>2, EnqueueWaits DEF A, W
  <2>2. CASE NotQueued /\ (isNew => Pending(A, W) # {})
    <3>1. TQ' = TQ
      BY <2>2 DEF NotQueued, TQ
    <3>2. \A s \in Seq(1..added) : s \in Seq(1..t)
      BY <1>1
    <3>3. \A a, w : Waits(a, w)' <=> Waits(a, w)
      BY <3>1 DEF Waits, AddrOf, is_write
    <3>4. WaitInv'
      BY <3>1, <3>2 DEF Books, WaitInv, QueueOf, AddrOf, is_write
    <3>. QED
      BY <2>2, <3>3, <3>4
  <2>. QED
    BY <1>7, <2>1, <2>2
<1>10. CarriedInv'
  <2>1. Address' = Address
    BY DEF Address, Banks, banks
  <2>2. ASSUME NEW a \in Address, NEW w \in BOOLEAN
        PROVE  /\ Pending(a, w)' # {} => Waits(a, w)' \/ Commanded(a, w)'
               /\ Waits(a, w)' \/ Commanded(a, w)' => Pending(a, w)' # {}
               /\ ~(Waits(a, w)' /\ Commanded(a, w)')
    <3>1. /\ Pending(a, w)' # {} <=> Pending(a, w) # {} \/ (isNew /\ a = A /\ w = W)
          /\ Commanded(a, w)' <=> Commanded(a, w)
          /\ Waits(a, w)' <=> Waits(a, w) \/ (Pending(A, W) = {} /\ isNew /\ a = A /\ w = W)
      BY <1>2, <1>5, <1>9 DEF isNew
    <3>2. /\ Pending(a, w) # {} => Waits(a, w) \/ Commanded(a, w)
          /\ Waits(a, w) \/ Commanded(a, w) => Pending(a, w) # {}
          /\ ~(Waits(a, w) /\ Commanded(a, w))
      BY DEF Books, CarriedInv
    <3>. QED
      BY <3>1, <3>2
  <2>. QED
    BY <2>1, <2>2 DEF CarriedInv
<1>11. \A a \in Address : Pending(a, FALSE)' # {} =>
         \/ Pending(a, FALSE) # {}
         \/ a = A /\ W = FALSE /\ ~Waits(a, TRUE) /\ ~Commanded(a, TRUE)
  <2>1. ASSUME NEW a \in Address, Pending(a, FALSE)' # {}, Pending(a, FALSE) = {}
        PROVE  a = A /\ W = FALSE /\ ~Waits(a, TRUE) /\ ~Commanded(a, TRUE)
    <3>1. isNew /\ a = A /\ W = FALSE
      BY <1>5, <2>1 DEF isNew
    <3>2. Pending(A, TRUE) = {}
      BY <1>8, <3>1
    <3>. QED
      BY <3>1, <3>2 DEF Books, CarriedInv
  <2>. QED
    BY <2>1
<1>12. /\ \A x \in Places : /\ Len(TQ[x]) \in Nat
                            /\ \A i \in 1..Len(TQ[x]) : AddrOf(TQ[x][i]) \in Address
       /\ \A q \in 0..(num_queues - 1) : \A i \in 1..Len(queues[q]) :
            queues[q][i].addr \in Address
  BY <1>1, BooksTypes DEF Books
<1>13. ASSUME NEW q \in 0..(num_queues - 1), NEW i \in 1..Len(queues[q]),
              IsWrite(queues[q][i].type),
              NEW a, a = queues[q][i].addr, Pending(a, FALSE)' # {}
       PROVE  \E j \in 1..(i - 1) : queues[q][j].addr = queues[q][i].addr
                                    /\ IsRead(queues[q][j].type)
  <2>1. Commanded(a, TRUE)
    BY <1>13 DEF Commanded, IsWrite
  <2>2. Pending(a, FALSE) # {} /\ a \in Address
    BY <1>11, <1>12, <1>13, <2>1
  <2>. QED
    BY <1>13, <2>2 DEF Books, OrderInv, QueuesOrdered, UnifiedOrdered
<1>14. ASSUME config.unified_queue, NEW i \in 1..Len(TQ'[1]),
              is_write(TQ'[1][i]), NEW a, a = AddrOf(TQ'[1][i]), Pending(a, FALSE)' # {}
       PROVE  \/ Commanded(a, FALSE)
              \/ \E j \in 1..(i - 1) : AddrOf(TQ'[1][j]) = a /\ ~is_write(TQ'[1][j])
  <2>1. 1 \in Places /\ Len(TQ[1]) \in Nat /\ TQ[1] \in Seq(1..added)
    BY <1>12 DEF Places, Books, WaitInv
  <2>2. TQ'[1] = TQ[1] \/ TQ'[1] = Append(TQ[1], t)
    BY <1>1, <1>7, <2>1, EnqueueShape, TQShape DEF NotQueued
  <2>3. TQ[1] \in Seq(1..t) /\ t \in 1..t
    <3>1. \A s \in Seq(1..added) : s \in Seq(1..t)
      BY <1>1
    <3>. QED
      BY <1>1, <2>1, <3>1
  <2>4. /\ \A j \in 1..Len(TQ[1]) : TQ'[1][j] = TQ[1][j]
        /\ i \in 1..Len(TQ[1]) \/ (i = Len(TQ[1]) + 1 /\ TQ'[1][i] = t)
    <3>1. CASE TQ'[1] = TQ[1]
      BY <1>14, <3>1
    <3>2. CASE TQ'[1] = Append(TQ[1], t)
      BY <1>14, <2>3, <3>2
    <3>. QED
      BY <2>2, <3>1, <3>2
  <2>5. CASE i \in 1..Len(TQ[1])
    <3>1. TQ'[1][i] = TQ[1][i] /\ a = AddrOf(TQ[1][i]) /\ a \in Address
      BY <1>12, <1>14, <2>1, <2>4, <2>5
    <3>2. is_write(TQ[1][i]) = TRUE
      <4>1. TQ[1][i] \in 1..Len(config.stream)
        BY <1>1, <2>1, <2>5, BooksTypes DEF Books
      <4>. QED
        BY <1>14, <3>1, <4>1, StreamType
    <3>3. Waits(a, TRUE)
      BY <2>1, <2>5, <3>1, <3>2 DEF Waits
    <3>4. Pending(a, FALSE) # {}
      BY <1>11, <1>14, <3>1, <3>3
    <3>5. \/ Commanded(a, FALSE)
          \/ \E j \in 1..(i - 1) : AddrOf(TQ[1][j]) = a /\ ~is_write(TQ[1][j])
      BY <1>14, <2>5, <3>1, <3>2, <3>4 DEF Books, OrderInv, QueuesOrdered, UnifiedOrdered
    <3>6. \A j \in 1..(i - 1) : j \in 1..Len(TQ[1])
      BY <2>1, <2>5
    <3>. QED
      BY <2>4, <3>5, <3>6
  <2>6. CASE i = Len(TQ[1]) + 1 /\ TQ'[1][i] = t
    <3>1. a = A /\ W = TRUE
      BY <1>1, <1>14, <2>6 DEF A, W
    <3>2. Pending(a, FALSE) # {}
      BY <1>1, <1>11, <1>14, <3>1
    <3>3. CASE Waits(a, FALSE)
      <4>1. PICK x \in Places : \E j \in 1..Len(TQ[x]) :
              AddrOf(TQ[x][j]) = a /\ is_write(TQ[x][j]) = FALSE
        BY <3>3 DEF Waits
      <4>2. PICK j \in 1..Len(TQ[x]) : AddrOf(TQ[x][j]) = a /\ is_write(TQ[x][j]) = FALSE
        BY <4>1
      <4>3. QueueOf(TQ[x][j]) = x
        BY DEF Books, WaitInv
      <4>4. x = 1
        BY <1>14, <4>3 DEF QueueOf
      <4>5. j \in 1..(i - 1) /\ TQ'[1][j] = TQ[1][j]
        BY <2>1, <2>4, <2>6, <4>4
      <4>. QED
        BY <4>2, <4>4, <4>5
    <3>. QED
      BY <1>1, <3>1, <3>2, <3>3 DEF Books, CarriedInv
  <2>. QED
    BY <2>4, <2>5, <2>6
<1>15. OrderInv'
  <2>1. queues' = queues /\ config' = config
    BY DEF queueVars
  <2>2. \A a : Commanded(a, FALSE)' <=> Commanded(a, FALSE)
    BY <1>2
  <2>3. Address' = Address
    BY DEF Address, Banks, banks
  <2>4. SUFFICES ASSUME NEW a \in Address, Pending(a, FALSE)' # {}
                 PROVE  QueuesOrdered(a)' /\ (config.unified_queue => UnifiedOrdered(a)')
    BY <2>1, <2>3 DEF OrderInv
  <2>5. QueuesOrdered(a)'
    <3>1. num_queues' = num_queues
      BY <1>2
    <3>2. \A q \in 0..(num_queues - 1) : \A i \in 1..Len(queues[q]) :
            queues[q][i].addr = a /\ IsWrite(queues[q][i].type)
              => \E j \in 1..(i - 1) : queues[q][j].addr = a /\ IsRead(queues[q][j].type)
      BY <1>13, <2>4
    <3>. QED
      BY <2>1, <3>1, <3>2 DEF QueuesOrdered
  <2>6. ASSUME config.unified_queue PROVE UnifiedOrdered(a)'
    <3>1. \A i \in 1..Len(TQ'[1]) :
            AddrOf(TQ'[1][i]) = a /\ is_write(TQ'[1][i])
              => \/ Commanded(a, FALSE)'
                 \/ \E j \in 1..(i - 1) : AddrOf(TQ'[1][j]) = a /\ ~is_write(TQ'[1][j])
      BY <1>14, <2>2, <2>4, <2>6
    <3>. QED
      BY <2>1, <3>1 DEF UnifiedOrdered, AddrOf, is_write
  <2>. QED
    BY <2>5, <2>6
<1>. QED
  BY <1>2, <1>5, <1>9, <1>10, <1>15 DEF Books

\* The command of a transaction is for its bank, and of its kind.
LEMMA CommandShape ==
  ASSUME config \in Configs, NEW t \in 1..Len(config.stream)
  PROVE  /\ TransToCommand(t) \in ColumnCommand
         /\ TransToCommand(t).addr = AddrOf(t)
         /\ TransToCommand(t).bank = AddrOf(t)[1]
         /\ is_write(t) => IsWrite(TransToCommand(t).type) /\ ~IsRead(TransToCommand(t).type)
         /\ ~is_write(t) => ~IsWrite(TransToCommand(t).type) /\ IsRead(TransToCommand(t).type)
<1>1. AddrOf(t) \in Address
  BY StreamType
<1>2. AddrOf(t)[1] \in Banks /\ AddrOf(t)[2] \in Nat
  BY <1>1 DEF Address
<1>3. TransToCommand(t).type \in ColumnTypes
  BY DEF TransToCommand, Command, ColumnTypes
<1>. QED
  BY <1>1, <1>2, <1>3 DEF TransToCommand, Command, ColumnCommand, ColumnTypes, IsWrite, IsRead

\* A command at the end of a queue.
LEMMA AppendCommands ==
  ASSUME config \in Configs, config' = config, CommandInv, UNCHANGED queue_idx,
         NEW c \in ColumnCommand, c.bank = c.addr[1],
         ~Commanded(c.addr, IsWrite(c.type)), AddCommand(c)
  PROVE  /\ CommandInv' /\ num_queues' = num_queues
         /\ \A a, w : Commanded(a, w)' <=> Commanded(a, w) \/ (a = c.addr /\ w = IsWrite(c.type))
         /\ \A q \in 0..(num_queues - 1) : \A i \in 1..Len(queues'[q]) :
              \/ i \in 1..Len(queues[q]) /\ queues'[q][i] = queues[q][i]
              \/ q = GetQueueIndex(c.bank) /\ i = Len(queues[q]) + 1 /\ queues'[q][i] = c
         /\ \A q \in 0..(num_queues - 1) : \A i \in 1..Len(queues[q]) :
              i \in 1..Len(queues'[q]) /\ queues'[q][i] = queues[q][i]
<1>. DEFINE p == GetQueueIndex(c.bank)
<1>1. p \in 0..(num_queues - 1) /\ num_queues' = num_queues
  <2>1. c.bank \in Banks
    BY DEF ColumnCommand
  <2>. QED
    BY <2>1, QueueInRange DEF num_queues, PerBank, banks
<1>2. queues \in [0..(num_queues - 1) -> Seq(ColumnCommand)]
  BY DEF CommandInv
<1>3. queues' = [queues EXCEPT ![p] = Append(queues[p], c)]
  BY DEF AddCommand
<1>. HIDE DEF p
<1>4. \A q \in 0..(num_queues - 1) : q # p => queues'[q] = queues[q]
  BY <1>2, <1>3
<1>5. /\ queues'[p] \in Seq(ColumnCommand) /\ Len(queues'[p]) = Len(queues[p]) + 1
      /\ queues'[p][Len(queues[p]) + 1] = c
      /\ \A i \in 1..Len(queues[p]) : queues'[p][i] = queues[p][i]
  <2>1. queues'[p] = Append(queues[p], c)
    BY <1>1, <1>2, <1>3
  <2>2. queues[p] \in Seq(ColumnCommand)
    BY <1>1, <1>2
  <2>. QED
    BY <2>1, <2>2
<1>6. queues' \in [0..(num_queues - 1) -> Seq(ColumnCommand)]
  <2>1. Append(queues[p], c) \in Seq(ColumnCommand)
    BY <1>1, <1>2
  <2>. QED
    BY <1>2, <1>3, <2>1
<1>7. \A q \in 0..(num_queues - 1) : Len(queues[q]) \in Nat
  BY <1>2
<1>8. \A q \in 0..(num_queues - 1) : \A i \in 1..Len(queues'[q]) :
        \/ i \in 1..Len(queues[q]) /\ queues'[q][i] = queues[q][i]
        \/ q = p /\ i = Len(queues[q]) + 1 /\ queues'[q][i] = c
  BY <1>4, <1>5, <1>7
<1>9. \A q \in 0..(num_queues - 1) : \A i \in 1..Len(queues[q]) :
        i \in 1..Len(queues'[q]) /\ queues'[q][i] = queues[q][i]
  BY <1>4, <1>5, <1>7
<1>10. \A a, w : Commanded(a, w)' <=> Commanded(a, w) \/ (a = c.addr /\ w = IsWrite(c.type))
  <2>. SUFFICES ASSUME NEW a, NEW w
                PROVE  Commanded(a, w)' <=> Commanded(a, w) \/ (a = c.addr /\ w = IsWrite(c.type))
    OBVIOUS
  <2>1. Commanded(a, w)' <=> \E q \in 0..(num_queues - 1) : \E i \in 1..Len(queues'[q]) :
          queues'[q][i].addr = a /\ IsWrite(queues'[q][i].type) = w
    BY <1>1 DEF Commanded
  <2>2. Commanded(a, w) => Commanded(a, w)'
    BY <1>9, <2>1 DEF Commanded
  <2>3. a = c.addr /\ w = IsWrite(c.type) => Commanded(a, w)'
    <3>1. Len(queues[p]) + 1 \in 1..Len(queues'[p])
      BY <1>1, <1>5, <1>7
    <3>. QED
      BY <1>1, <1>5, <2>1, <3>1
  <2>4. Commanded(a, w)' => Commanded(a, w) \/ (a = c.addr /\ w = IsWrite(c.type))
    BY <1>8, <2>1 DEF Commanded
  <2>. QED
    BY <2>2, <2>3, <2>4
<1>11. CommandInv'
  <2>1. \A q \in 0..(num_queues - 1) : \A i \in 1..Len(queues'[q]) :
          queues'[q][i].bank = queues'[q][i].addr[1]
            /\ GetQueueIndex(queues'[q][i].bank) = q
    BY <1>8 DEF CommandInv, p
  <2>2. ASSUME NEW q \in 0..(num_queues - 1),
               NEW i \in 1..Len(queues'[q]), NEW j \in 1..Len(queues'[q]),
               queues'[q][i].addr = queues'[q][j].addr,
               IsWrite(queues'[q][i].type) = IsWrite(queues'[q][j].type)
        PROVE  i = j
    <3>1. CASE i \in 1..Len(queues[q]) /\ j \in 1..Len(queues[q])
      BY <1>9, <2>2, <3>1 DEF CommandInv
    <3>2. CASE i \notin 1..Len(queues[q]) /\ j \notin 1..Len(queues[q])
      BY <1>8, <3>2
    <3>3. \A k \in 1..Len(queues[q]) :
            ~(queues[q][k].addr = c.addr /\ IsWrite(queues[q][k].type) = IsWrite(c.type))
      BY DEF Commanded
    <3>4. CASE i \in 1..Len(queues[q]) /\ j \notin 1..Len(queues[q])
      BY <1>8, <1>9, <2>2, <3>3, <3>4
    <3>5. CASE i \notin 1..Len(queues[q]) /\ j \in 1..Len(queues[q])
      <4>1. queues'[q][i] = c /\ queues'[q][j] = queues[q][j]
        BY <1>8, <1>9, <3>5
      <4>. QED
        BY <2>2, <3>3, <3>5, <4>1
    <3>. QED
      BY <3>1, <3>2, <3>4, <3>5
  <2>3. ColumnCommand' = ColumnCommand
    BY DEF ColumnCommand, Address, Banks, banks
  <2>4. queue_idx' \in 0..(num_queues - 1)
    BY DEF CommandInv
  <2>. QED
    BY <1>1, <1>6, <2>1, <2>2, <2>3, <2>4
       DEF CommandInv, GetQueueIndex, PerBank, RankOf, banks
<1>. QED
  BY <1>1, <1>8, <1>9, <1>10, <1>11 DEF p

\* The first element of a sequence, and the rest.
LEMMA HeadTailShape ==
  ASSUME NEW T, NEW s \in Seq(T), s # <<>>
  PROVE  /\ Len(s) \in Nat /\ 1 \in 1..Len(s) /\ Head(s) = s[1] /\ Head(s) \in T
         /\ Tail(s) \in Seq(T) /\ Len(Tail(s)) = Len(s) - 1
         /\ \A i \in 1..Len(Tail(s)) : i + 1 \in 1..Len(s) /\ Tail(s)[i] = s[i + 1]
OBVIOUS

\* The first transaction of a queue leaves it.
LEMMA DequeueWaits ==
  ASSUME config' = config, WaitInv, added' = added, NEW x \in Places, TQ[x] # <<>>,
         NEW t, t = Head(TQ[x]),
         \A y \in Places : TQ'[y] = IF y = x THEN Tail(TQ[y]) ELSE TQ[y]
  PROVE  /\ t \in 1..added /\ QueueOf(t) = x /\ Waits(AddrOf(t), is_write(t)) /\ WaitInv'
         /\ \A a, w : Waits(a, w)' <=> Waits(a, w) /\ ~(a = AddrOf(t) /\ w = is_write(t))
         /\ Len(TQ[x]) \in Nat /\ t = TQ[x][1]
         /\ \A i \in 1..Len(TQ'[x]) : i + 1 \in 1..Len(TQ[x]) /\ TQ'[x][i] = TQ[x][i + 1]
<1>1. TQ[x] \in Seq(1..added) /\ Len(TQ[x]) \in Nat /\ 1 \in 1..Len(TQ[x])
      /\ t = TQ[x][1] /\ t \in 1..added
  <2>1. TQ[x] \in Seq(1..added)
    BY DEF WaitInv
  <2>. QED
    BY <2>1, HeadTailShape
<1>2. /\ TQ'[x] \in Seq(1..added) /\ Len(TQ'[x]) = Len(TQ[x]) - 1
      /\ \A i \in 1..Len(TQ'[x]) : i + 1 \in 1..Len(TQ[x]) /\ TQ'[x][i] = TQ[x][i + 1]
  <2>1. TQ'[x] = Tail(TQ[x])
    OBVIOUS
  <2>2. /\ Tail(TQ[x]) \in Seq(1..added) /\ Len(Tail(TQ[x])) = Len(TQ[x]) - 1
        /\ \A i \in 1..Len(Tail(TQ[x])) :
             i + 1 \in 1..Len(TQ[x]) /\ Tail(TQ[x])[i] = TQ[x][i + 1]
    BY <1>1, HeadTailShape
  <2>. QED
    BY <2>1, <2>2
<1>3. \A y \in Places : y # x => TQ'[y] = TQ[y]
  OBVIOUS
<1>4. QueueOf(t) = x /\ Waits(AddrOf(t), is_write(t))
  BY <1>1 DEF WaitInv, Waits
<1>5. ASSUME NEW y \in Places, NEW i \in 1..Len(TQ[y]),
             AddrOf(TQ[y][i]) = AddrOf(t), is_write(TQ[y][i]) = is_write(t)
      PROVE  y = x /\ i = 1
  <2>1. QueueOf(TQ[y][i]) = y /\ QueueOf(TQ[y][i]) = QueueOf(t)
    BY <1>5 DEF WaitInv, QueueOf
  <2>. QED
    BY <1>1, <1>4, <1>5, <2>1 DEF WaitInv
<1>6. \A a, w : Waits(a, w)' <=> Waits(a, w) /\ ~(a = AddrOf(t) /\ w = is_write(t))
  <2>. SUFFICES ASSUME NEW a, NEW w
                PROVE  Waits(a, w)' <=> Waits(a, w) /\ ~(a = AddrOf(t) /\ w = is_write(t))
    OBVIOUS
  <2>1. Waits(a, w)' <=> \E y \in Places : \E i \in 1..Len(TQ'[y]) :
                            AddrOf(TQ'[y][i]) = a /\ is_write(TQ'[y][i]) = w
    BY DEF Waits, AddrOf, is_write
  <2>2. ASSUME NEW y \in Places, NEW i \in 1..Len(TQ'[y]),
               AddrOf(TQ'[y][i]) = a, is_write(TQ'[y][i]) = w
        PROVE  Waits(a, w) /\ ~(a = AddrOf(t) /\ w = is_write(t))
    <3>1. CASE y = x
      <4>1. i + 1 \in 1..Len(TQ[x]) /\ TQ'[x][i] = TQ[x][i + 1] /\ i + 1 # 1
        BY <1>1, <1>2, <2>2, <3>1
      <4>. QED
        BY <1>5, <2>2, <3>1, <4>1 DEF Waits
    <3>2. CASE y # x
      <4>1. TQ'[y] = TQ[y]
        BY <1>3, <3>2
      <4>. QED
        BY <1>5, <2>2, <3>2, <4>1 DEF Waits
    <3>. QED
      BY <3>1, <3>2
  <2>3. ASSUME NEW y \in Places, NEW i \in 1..Len(TQ[y]),
               AddrOf(TQ[y][i]) = a, is_write(TQ[y][i]) = w,
               ~(a = AddrOf(t) /\ w = is_write(t))
        PROVE  Waits(a, w)'
    <3>1. CASE y = x
      <4>1. i - 1 \in 1..Len(TQ'[x]) /\ TQ'[x][i - 1] = TQ[x][i]
        <5>1. i # 1
          BY <1>1, <2>3, <3>1
        <5>2. i - 1 \in 1..Len(TQ'[x]) /\ (i - 1) + 1 = i
          BY <1>1, <1>2, <3>1, <5>1
        <5>. QED
          BY <1>2, <5>2
      <4>. QED
        BY <2>1, <2>3, <3>1, <4>1
    <3>2. CASE y # x
      BY <1>3, <2>1, <2>3, <3>2
    <3>. QED
      BY <3>1, <3>2
  <2>. QED
    BY <2>1, <2>2, <2>3 DEF Waits
<1>7. WaitInv'
  <2>1. \A y \in Places : TQ'[y] \in Seq(1..added)
    BY <1>2, <1>3 DEF WaitInv
  <2>2. ASSUME NEW y \in Places, NEW i \in 1..Len(TQ'[y])
        PROVE  QueueOf(TQ'[y][i]) = y
    BY <1>2, <1>3 DEF WaitInv
  <2>3. ASSUME NEW y \in Places, NEW i \in 1..Len(TQ'[y]), NEW j \in 1..Len(TQ'[y]),
               AddrOf(TQ'[y][i]) = AddrOf(TQ'[y][j]),
               is_write(TQ'[y][i]) = is_write(TQ'[y][j])
        PROVE  i = j
    <3>1. CASE y = x
      <4>1. /\ i + 1 \in 1..Len(TQ[x]) /\ TQ'[x][i] = TQ[x][i + 1]
            /\ j + 1 \in 1..Len(TQ[x]) /\ TQ'[x][j] = TQ[x][j + 1]
        BY <1>2, <3>1
      <4>2. i + 1 = j + 1
        BY <2>3, <3>1, <4>1 DEF WaitInv
      <4>. QED
        BY <1>1, <4>2
    <3>2. CASE y # x
      <4>1. TQ'[y] = TQ[y]
        BY <1>3, <3>2
      <4>. QED
        BY <2>3, <4>1 DEF WaitInv
    <3>. QED
      BY <3>1, <3>2
  <2>. QED
    BY <2>1, <2>2, <2>3 DEF WaitInv, QueueOf, AddrOf, is_write
<1>. QED
  BY <1>1, <1>2, <1>4, <1>6, <1>7

\* A transaction becomes a command: a write with a queue of its own only if no
\* read of its address is pending.
LEMMA MoveKeepsBooks ==
  ASSUME config \in Configs, config' = config, Books, added \in 0..Len(config.stream),
         UNCHANGED <<added, pending_rd, pending_wr, queue_idx>>,
         NEW x \in Places, TQ[x] # <<>>, NEW t, t = Head(TQ[x]),
         \A y \in Places : TQ'[y] = IF y = x THEN Tail(TQ[y]) ELSE TQ[y],
         x = 3 => Pending(AddrOf(t), FALSE) = {}, AddCommand(TransToCommand(t))
  PROVE  Books'
<1>. DEFINE A == AddrOf(t)
            W == is_write(t)
            c == TransToCommand(t)
<1>1. /\ t \in 1..added /\ QueueOf(t) = x /\ Waits(A, W) /\ WaitInv'
      /\ \A a, w : Waits(a, w)' <=> Waits(a, w) /\ ~(a = A /\ w = W)
      /\ Len(TQ[x]) \in Nat /\ t = TQ[x][1]
      /\ \A i \in 1..Len(TQ'[x]) : i + 1 \in 1..Len(TQ[x]) /\ TQ'[x][i] = TQ[x][i + 1]
  BY DequeueWaits DEF Books
<1>2. t \in 1..Len(config.stream) /\ A \in Address /\ W \in BOOLEAN
  BY <1>1, StreamType
<1>3. Pending(A, W) # {} /\ ~Commanded(A, W)
  BY <1>1, <1>2 DEF Books, CarriedInv
<1>4. /\ c \in ColumnCommand /\ c.addr = A /\ c.bank = c.addr[1]
      /\ W => IsWrite(c.type) /\ ~IsRead(c.type)
      /\ ~W => ~IsWrite(c.type) /\ IsRead(c.type)
  BY <1>2, CommandShape
<1>5. IsWrite(c.type) = W
  BY <1>2, <1>4 DEF IsWrite
<1>. HIDE DEF A, W, c
<1>6. /\ CommandInv' /\ num_queues' = num_queues
      /\ \A a, w : Commanded(a, w)' <=> Commanded(a, w) \/ (a = A /\ w = W)
      /\ \A q \in 0..(num_queues - 1) : \A i \in 1..Len(queues'[q]) :
           \/ i \in 1..Len(queues[q]) /\ queues'[q][i] = queues[q][i]
           \/ q = GetQueueIndex(c.bank) /\ i = Len(queues[q]) + 1 /\ queues'[q][i] = c
      /\ \A q \in 0..(num_queues - 1) : \A i \in 1..Len(queues[q]) :
           i \in 1..Len(queues'[q]) /\ queues'[q][i] = queues[q][i]
  <2>1. AddCommand(c)
    BY DEF c
  <2>2. ~Commanded(c.addr, IsWrite(c.type))
    BY <1>3, <1>4, <1>5
  <2>3. CommandInv /\ UNCHANGED queue_idx
    BY DEF Books
  <2>4. /\ CommandInv' /\ num_queues' = num_queues
        /\ \A a, w : Commanded(a, w)' <=>
             Commanded(a, w) \/ (a = c.addr /\ w = IsWrite(c.type))
        /\ \A q \in 0..(num_queues - 1) : \A i \in 1..Len(queues'[q]) :
             \/ i \in 1..Len(queues[q]) /\ queues'[q][i] = queues[q][i]
             \/ q = GetQueueIndex(c.bank) /\ i = Len(queues[q]) + 1 /\ queues'[q][i] = c
        /\ \A q \in 0..(num_queues - 1) : \A i \in 1..Len(queues[q]) :
             i \in 1..Len(queues'[q]) /\ queues'[q][i] = queues[q][i]
    BY <1>4, <2>1, <2>2, <2>3, AppendCommands
  <2>. QED
    BY <1>4, <1>5, <2>4
<1>7. PendingInv'
  BY DEF Books, PendingInv, AddrOf, is_write
<1>8. \A a, w : Pending(a, w)' = Pending(a, w)
  BY DEF Pending, WithAddr, AddrOf
<1>9. Address' = Address
  BY DEF Address, Banks, banks
<1>10. CarriedInv'
  <2>1. ASSUME NEW a \in Address, NEW w \in BOOLEAN
        PROVE  /\ Pending(a, w)' # {} => Waits(a, w)' \/ Commanded(a, w)'
               /\ Waits(a, w)' \/ Commanded(a, w)' => Pending(a, w)' # {}
               /\ ~(Waits(a, w)' /\ Commanded(a, w)')
    <3>1. /\ Pending(a, w)' = Pending(a, w)
          /\ Commanded(a, w)' <=> Commanded(a, w) \/ (a = A /\ w = W)
          /\ Waits(a, w)' <=> Waits(a, w) /\ ~(a = A /\ w = W)
      BY <1>1, <1>6, <1>8
    <3>2. /\ Pending(a, w) # {} => Waits(a, w) \/ Commanded(a, w)
          /\ Waits(a, w) \/ Commanded(a, w) => Pending(a, w) # {}
          /\ ~(Waits(a, w) /\ Commanded(a, w))
      BY DEF Books, CarriedInv
    <3>3. CASE a = A /\ w = W
      BY <1>3, <3>1, <3>2, <3>3
    <3>4. CASE ~(a = A /\ w = W)
      BY <3>1, <3>2, <3>4
    <3>. QED
      BY <3>3, <3>4
  <2>. QED
    BY <1>9, <2>1 DEF CarriedInv
<1>11. ASSUME NEW a \in Address, Pending(a, FALSE)' # {}
       PROVE  QueuesOrdered(a)' /\ (config.unified_queue => UnifiedOrdered(a)')
  <2>1. Pending(a, FALSE) # {}
    BY <1>8, <1>11
  <2>2. QueuesOrdered(a) /\ (config.unified_queue => UnifiedOrdered(a))
    BY <2>1 DEF Books, OrderInv
  <2>3. ASSUME NEW q \in 0..(num_queues - 1), NEW i \in 1..Len(queues'[q]),
               queues'[q][i].addr = a, IsWrite(queues'[q][i].type)
        PROVE  \E j \in 1..(i - 1) : queues'[q][j].addr = a /\ IsRead(queues'[q][j].type)
    <3>1. Len(queues[q]) \in Nat
      BY DEF Books, CommandInv
    <3>2. CASE i \in 1..Len(queues[q])
      <4>1. PICK j \in 1..(i - 1) : queues[q][j].addr = a /\ IsRead(queues[q][j].type)
        BY <1>6, <2>2, <2>3, <3>2 DEF QueuesOrdered
      <4>2. j \in 1..Len(queues[q])
        BY <3>1, <3>2
      <4>. QED
        BY <1>6, <4>1, <4>2
    <3>3. CASE q = GetQueueIndex(c.bank) /\ i = Len(queues[q]) + 1 /\ queues'[q][i] = c
      <4>1. a = A /\ W = TRUE
        BY <1>2, <1>4, <1>5, <2>3, <3>3
      <4>2. x # 3
        BY <2>1, <4>1 DEF A
      <4>3. x = 1 /\ config.unified_queue
        BY <1>1, <4>1, <4>2 DEF QueueOf, W
      <4>4. 1 \in 1..Len(TQ[1])
        BY <1>1, <4>3
      <4>5. Commanded(a, FALSE)
        <5>1. AddrOf(TQ[1][1]) = a /\ is_write(TQ[1][1])
          BY <1>1, <4>1, <4>3 DEF A, W
        <5>2. ~\E j \in 1..(1 - 1) : AddrOf(TQ[1][j]) = a /\ ~is_write(TQ[1][j])
          OBVIOUS
        <5>. QED
          BY <2>2, <4>3, <4>4, <5>1, <5>2 DEF UnifiedOrdered
      <4>6. PICK p \in 0..(num_queues - 1) : \E k \in 1..Len(queues[p]) :
              queues[p][k].addr = a /\ IsWrite(queues[p][k].type) = FALSE
        BY <4>5 DEF Commanded
      <4>7. PICK k \in 1..Len(queues[p]) :
              queues[p][k].addr = a /\ IsWrite(queues[p][k].type) = FALSE
        BY <4>6
      <4>8. p = q
        BY <1>4, <3>3, <4>1, <4>7 DEF Books, CommandInv
      <4>9. IsRead(queues[p][k].type)
        <5>1. queues[p][k].type \in ColumnTypes
          BY <1>2, BooksTypes DEF Books
        <5>. QED
          BY <4>7, <5>1 DEF ColumnTypes, IsWrite, IsRead
      <4>10. k \in 1..(i - 1) /\ queues'[q][k] = queues[q][k]
        BY <1>6, <3>1, <3>3, <4>7, <4>8
      <4>. QED
        BY <4>7, <4>8, <4>9, <4>10
    <3>. QED
      BY <1>6, <3>2, <3>3
  <2>4. QueuesOrdered(a)'
    <3>1. num_queues' = num_queues
      BY <1>6
    <3>. QED
      BY <2>3, <3>1 DEF QueuesOrdered
  <2>5. ASSUME config.unified_queue, NEW i \in 1..Len(TQ'[1]),
               AddrOf(TQ'[1][i]) = a, is_write(TQ'[1][i])
        PROVE  \/ Commanded(a, FALSE)'
               \/ \E j \in 1..(i - 1) : AddrOf(TQ'[1][j]) = a /\ ~is_write(TQ'[1][j])
    <3>1. x = 1
      BY <1>1, <2>5 DEF QueueOf
    <3>2. i + 1 \in 1..Len(TQ[1]) /\ TQ'[1][i] = TQ[1][i + 1]
      BY <1>1, <3>1
    <3>3. CASE Commanded(a, FALSE)
      BY <1>6, <3>3
    <3>4. CASE \E j \in 1..((i + 1) - 1) : AddrOf(TQ[1][j]) = a /\ ~is_write(TQ[1][j])
      <4>1. PICK j \in 1..((i + 1) - 1) : AddrOf(TQ[1][j]) = a /\ ~is_write(TQ[1][j])
        BY <3>4
      <4>2. CASE j = 1
        <5>1. a = A /\ W = FALSE
          BY <1>1, <1>2, <3>1, <4>1, <4>2 DEF A, W
        <5>. QED
          BY <1>6, <5>1
      <4>3. CASE j # 1
        <5>1. j - 1 \in 1..(i - 1) /\ j - 1 \in 1..Len(TQ'[1]) /\ (j - 1) + 1 = j
          BY <4>3
        <5>2. TQ'[1][j - 1] = TQ[1][j]
          BY <1>1, <3>1, <5>1
        <5>. QED
          BY <4>1, <5>1, <5>2
      <4>. QED
        BY <4>2, <4>3
    <3>. QED
      BY <2>2, <2>5, <3>2, <3>3, <3>4 DEF UnifiedOrdered
  <2>. QED
    BY <2>4, <2>5 DEF UnifiedOrdered, AddrOf, is_write
<1>12. OrderInv'
  BY <1>9, <1>11 DEF OrderInv
<1>. QED
  BY <1>1, <1>6, <1>7, <1>10, <1>12 DEF Books

\* Where the commands of the queues were, and where they are, once the k-th
\* one of queue p is gone.
ComeFrom(p, k) ==
  \A q \in 0..(num_queues - 1) : \A i \in 1..Len(queues'[q]) :
    \/ (q = p => i < k) /\ i \in 1..Len(queues[q]) /\ queues'[q][i] = queues[q][i]
    \/ q = p /\ i >= k /\ i + 1 \in 1..Len(queues[q]) /\ queues'[q][i] = queues[q][i + 1]
GoTo(p, k) ==
  \A q \in 0..(num_queues - 1) : \A i \in 1..Len(queues[q]) :
    /\ (q = p => i < k) => i \in 1..Len(queues'[q]) /\ queues'[q][i] = queues[q][i]
    /\ q = p /\ i > k => i - 1 \in 1..Len(queues'[q]) /\ queues'[q][i - 1] = queues[q][i]

\* A command taken out of a queue: the rest keep their order, and only what it was for
\* is no longer commanded.
LEMMA RemoveCommands ==
  ASSUME config \in Configs, config' = config, CommandInv,
         queue_idx' \in 0..(num_queues - 1),
         NEW p \in 0..(num_queues - 1), NEW k \in 1..Len(queues[p]),
         queues' = [queues EXCEPT ![p] = RemoveAt(queues[p], k)]
  PROVE  /\ CommandInv' /\ num_queues' = num_queues
         /\ \A a, w : Commanded(a, w)' <=> Commanded(a, w) /\
              ~(a = queues[p][k].addr /\ w = IsWrite(queues[p][k].type))
         /\ ComeFrom(p, k) /\ GoTo(p, k)
<1>. DEFINE c == queues[p][k]
<1>1. num_queues' = num_queues
  BY DEF num_queues, PerBank, banks
<1>2. queues \in [0..(num_queues - 1) -> Seq(ColumnCommand)]
  BY DEF CommandInv
<1>3. /\ queues[p] \in Seq(ColumnCommand) /\ Len(queues[p]) \in Nat
      /\ RemoveAt(queues[p], k) \in Seq(ColumnCommand)
      /\ Len(RemoveAt(queues[p], k)) = Len(queues[p]) - 1
      /\ \A i \in 1..(Len(queues[p]) - 1) :
           RemoveAt(queues[p], k)[i] = IF i < k THEN queues[p][i] ELSE queues[p][i + 1]
  BY <1>2, RemoveAtShape
<1>4. /\ \A q \in 0..(num_queues - 1) : q # p => queues'[q] = queues[q]
      /\ queues'[p] = RemoveAt(queues[p], k)
      /\ queues' \in [0..(num_queues - 1) -> Seq(ColumnCommand)]
  BY <1>2, <1>3
<1>5. \A q \in 0..(num_queues - 1) : Len(queues[q]) \in Nat
  BY <1>2
<1>6. ASSUME NEW q \in 0..(num_queues - 1), NEW i \in 1..Len(queues'[q])
      PROVE  \/ (q = p => i < k) /\ i \in 1..Len(queues[q]) /\ queues'[q][i] = queues[q][i]
             \/ q = p /\ i >= k /\ i + 1 \in 1..Len(queues[q])
                /\ queues'[q][i] = queues[q][i + 1]
  <2>1. CASE q # p
    BY <1>4, <2>1
  <2>2. CASE q = p
    <3>1. i \in 1..(Len(queues[p]) - 1)
      BY <1>3, <1>4, <2>2
    <3>2. queues'[q][i] = IF i < k THEN queues[p][i] ELSE queues[p][i + 1]
      BY <1>3, <1>4, <2>2, <3>1
    <3>3. i \in 1..Len(queues[p]) /\ i + 1 \in 1..Len(queues[p])
      BY <1>3, <3>1
    <3>4. i < k \/ i >= k
      BY <1>3, <3>1
    <3>. QED
      BY <2>2, <3>2, <3>3, <3>4
  <2>. QED
    BY <2>1, <2>2
<1>7. ASSUME NEW q \in 0..(num_queues - 1), NEW i \in 1..Len(queues[q])
      PROVE  /\ (q = p => i < k) => i \in 1..Len(queues'[q]) /\ queues'[q][i] = queues[q][i]
             /\ q = p /\ i > k => i - 1 \in 1..Len(queues'[q])
                                  /\ queues'[q][i - 1] = queues[q][i]
  <2>1. CASE q # p
    BY <1>4, <2>1
  <2>2. CASE q = p /\ i < k
    <3>1. i \in 1..(Len(queues[p]) - 1)
      BY <1>3, <2>2
    <3>. QED
      BY <1>3, <1>4, <2>2, <3>1
  <2>3. CASE q = p /\ i > k
    <3>1. i - 1 \in 1..(Len(queues[p]) - 1) /\ ~(i - 1 < k) /\ (i - 1) + 1 = i
      BY <1>3, <2>3
    <3>2. queues'[q][i - 1] = queues[p][(i - 1) + 1]
      BY <1>3, <1>4, <2>3, <3>1
    <3>. QED
      BY <1>3, <1>4, <2>3, <3>1, <3>2
  <2>4. CASE q = p /\ i = k
    BY <1>3, <2>4
  <2>. QED
    BY <1>3, <2>1, <2>2, <2>3, <2>4
<1>. HIDE DEF c
<1>8. ASSUME NEW q \in 0..(num_queues - 1), NEW i \in 1..Len(queues[q]),
             queues[q][i].addr = c.addr, IsWrite(queues[q][i].type) = IsWrite(c.type)
      PROVE  q = p /\ i = k
  BY <1>8, SMTT(30) DEF CommandInv, c
<1>9. \A a, w : Commanded(a, w)' <=>
        Commanded(a, w) /\ ~(a = c.addr /\ w = IsWrite(c.type))
  <2>. SUFFICES ASSUME NEW a, NEW w
                PROVE  Commanded(a, w)' <=>
                         Commanded(a, w) /\ ~(a = c.addr /\ w = IsWrite(c.type))
    OBVIOUS
  <2>1. Commanded(a, w)' <=> \E q \in 0..(num_queues - 1) : \E i \in 1..Len(queues'[q]) :
          queues'[q][i].addr = a /\ IsWrite(queues'[q][i].type) = w
    BY <1>1 DEF Commanded
  <2>2. ASSUME NEW q \in 0..(num_queues - 1), NEW i \in 1..Len(queues'[q]),
               queues'[q][i].addr = a, IsWrite(queues'[q][i].type) = w
        PROVE  Commanded(a, w) /\ ~(a = c.addr /\ w = IsWrite(c.type))
    <3>1. PICK n \in 1..Len(queues[q]) : queues'[q][i] = queues[q][n] /\ (q = p => n # k)
      <4>1. i \in Nat /\ k \in Nat /\ (i >= k => i + 1 # k)
        BY <1>3, <1>4, <1>5
      <4>. QED
        BY <1>6, <4>1
    <3>. QED
      BY <1>8, <2>2, <3>1 DEF Commanded
  <2>3. ASSUME NEW q \in 0..(num_queues - 1), NEW i \in 1..Len(queues[q]),
               queues[q][i].addr = a, IsWrite(queues[q][i].type) = w,
               ~(a = c.addr /\ w = IsWrite(c.type))
        PROVE  Commanded(a, w)'
    <3>1. (q = p => i < k) \/ (q = p /\ i > k)
      <4>1. ~(q = p /\ i = k)
        BY <2>3 DEF c
      <4>. QED
        BY <1>3, <1>5, <4>1
    <3>2. CASE q = p => i < k
      <4>1. i \in 1..Len(queues'[q]) /\ queues'[q][i] = queues[q][i]
        BY <1>7, <3>2
      <4>. QED
        BY <2>1, <2>3, <4>1
    <3>3. CASE q = p /\ i > k
      <4>1. i - 1 \in 1..Len(queues'[q]) /\ queues'[q][i - 1] = queues[q][i]
        BY <1>7, <3>3
      <4>. QED
        BY <2>1, <2>3, <4>1
    <3>. QED
      BY <3>1, <3>2, <3>3
  <2>. QED
    BY <2>1, <2>2, <2>3 DEF Commanded
<1>10. CommandInv'
  <2>1. \A q \in 0..(num_queues - 1) : \A i \in 1..Len(queues'[q]) :
          queues'[q][i].bank = queues'[q][i].addr[1]
            /\ GetQueueIndex(queues'[q][i].bank) = q
    <3>. SUFFICES ASSUME NEW q \in 0..(num_queues - 1), NEW i \in 1..Len(queues'[q])
                  PROVE  queues'[q][i].bank = queues'[q][i].addr[1]
                         /\ GetQueueIndex(queues'[q][i].bank) = q
      OBVIOUS
    <3>1. PICK n \in 1..Len(queues[q]) : queues'[q][i] = queues[q][n]
      BY <1>6
    <3>2. queues[q][n].bank = queues[q][n].addr[1] /\ GetQueueIndex(queues[q][n].bank) = q
      BY DEF CommandInv
    <3>. QED
      BY <3>1, <3>2
  <2>2. ASSUME NEW q \in 0..(num_queues - 1),
               NEW i \in 1..Len(queues'[q]), NEW j \in 1..Len(queues'[q]),
               queues'[q][i].addr = queues'[q][j].addr,
               IsWrite(queues'[q][i].type) = IsWrite(queues'[q][j].type)
        PROVE  i = j
    <3>. DEFINE old(n) == IF q = p /\ n >= k THEN n + 1 ELSE n
    <3>1. /\ old(i) \in 1..Len(queues[q]) /\ queues'[q][i] = queues[q][old(i)]
          /\ old(j) \in 1..Len(queues[q]) /\ queues'[q][j] = queues[q][old(j)]
      <4>1. \A n \in 1..Len(queues'[q]) : n \in Nat /\ (n < k => ~(n >= k))
        BY <1>3, <1>4, <1>5
      <4>. QED
        BY <1>6, <4>1
    <3>2. old(i) = old(j)
      <4>. HIDE DEF old
      <4>1. \A m, n \in 1..Len(queues[q]) :
              queues[q][m].addr = queues[q][n].addr
                /\ IsWrite(queues[q][m].type) = IsWrite(queues[q][n].type) => m = n
        BY DEF CommandInv
      <4>2. /\ queues[q][old(i)].addr = queues[q][old(j)].addr
            /\ IsWrite(queues[q][old(i)].type) = IsWrite(queues[q][old(j)].type)
        BY <2>2, <3>1
      <4>. QED
        BY <3>1, <4>1, <4>2
    <3>. QED
      BY <1>3, <3>2
  <2>3. ColumnCommand' = ColumnCommand
    BY DEF ColumnCommand, Address, Banks, banks
  <2>. QED
    BY <1>1, <1>4, <2>1, <2>2, <2>3
       DEF CommandInv, GetQueueIndex, PerBank, RankOf, banks
<1>. QED
  BY <1>1, <1>6, <1>7, <1>9, <1>10 DEF c, ComeFrom, GoTo

\* A column command is issued, and answers what is pending of its address.
LEMMA TakeKeepsBooks ==
  ASSUME config \in Configs, config' = config, Books, added \in 0..Len(config.stream),
         added' = added, TQ' = TQ, queue_idx' \in 0..(num_queues - 1),
         NEW p \in 0..(num_queues - 1), NEW k \in 1..Len(queues[p]),
         queues' = [queues EXCEPT ![p] = RemoveAt(queues[p], k)],
         NEW c, c = queues[p][k],
         pending_rd' = IF IsRead(c.type) THEN pending_rd \ WithAddr(pending_rd, c.addr)
                                         ELSE pending_rd,
         pending_wr' = IF IsWrite(c.type) THEN pending_wr \ WithAddr(pending_wr, c.addr)
                                          ELSE pending_wr
  PROVE  Books'
<1>. DEFINE A == c.addr
            W == IsWrite(c.type)
<1>1. /\ CommandInv' /\ num_queues' = num_queues
      /\ \A a, w : Commanded(a, w)' <=> Commanded(a, w) /\ ~(a = A /\ w = W)
      /\ ComeFrom(p, k) /\ GoTo(p, k)
  <2>1. CommandInv
    BY DEF Books
  <2>2. \A a, w : Commanded(a, w)' <=> Commanded(a, w) /\
          ~(a = queues[p][k].addr /\ w = IsWrite(queues[p][k].type))
    BY <2>1, RemoveCommands
  <2>3. \A a, w : Commanded(a, w)' <=> Commanded(a, w) /\ ~(a = A /\ w = W)
    BY <2>2
  <2>4. CommandInv' /\ num_queues' = num_queues /\ ComeFrom(p, k) /\ GoTo(p, k)
    BY <2>1, RemoveCommands
  <2>. QED
    BY <2>3, <2>4
<1>2. A \in Address /\ W \in BOOLEAN /\ IsRead(c.type) = ~W
  <2>1. A \in Address /\ c.type \in ColumnTypes
    BY BooksTypes DEF Books
  <2>. QED
    BY <2>1 DEF ColumnTypes, IsRead, IsWrite
<1>3. Commanded(A, W) /\ ~Waits(A, W)
  <2>1. Commanded(A, W)
    BY DEF Commanded
  <2>. QED
    BY <1>2, <2>1 DEF Books, CarriedInv
<1>4. \A a, w : Waits(a, w)' <=> Waits(a, w)
  BY DEF Waits, AddrOf, is_write
<1>5. \A q \in 0..(num_queues - 1) : Len(queues[q]) \in Nat /\ Len(queues'[q]) \in Nat
  <2>1. \A q \in 0..(num_queues - 1) : queues[q] \in Seq(ColumnCommand)
    BY DEF Books, CommandInv
  <2>2. \A q \in 0..(num_queues - 1) : queues'[q] \in Seq(ColumnCommand')
    BY <1>1 DEF CommandInv
  <2>. QED
    BY <2>1, <2>2
<1>. HIDE DEF A, W
<1>6. \A S, a : WithAddr(S, a)' # {} <=> \E u \in S' : AddrOf(u) = a
  BY DEF WithAddr, AddrOf
<1>7. ASSUME NEW a, NEW w \in BOOLEAN
      PROVE  Pending(a, w)' # {} <=> Pending(a, w) # {} /\ ~(a = A /\ w = W)
  <2>1. \A S, b : \A u : u \in S \ WithAddr(S, b) <=> u \in S /\ AddrOf(u) # b
    BY DEF WithAddr
  <2>2. CASE w = TRUE
    <3>1. /\ Pending(a, w)' # {} <=> \E u \in pending_wr' : AddrOf(u) = a
          /\ Pending(a, w) # {} <=> \E u \in pending_wr : AddrOf(u) = a
      BY <2>2 DEF Pending, WithAddr, AddrOf
    <3>2. CASE W = TRUE
      BY <2>1, <2>2, <3>1, <3>2 DEF A, W
    <3>3. CASE W = FALSE
      BY <2>2, <3>1, <3>3 DEF W
    <3>. QED
      BY <1>2, <3>2, <3>3
  <2>3. CASE w = FALSE
    <3>1. /\ Pending(a, w)' # {} <=> \E u \in pending_rd' : AddrOf(u) = a
          /\ Pending(a, w) # {} <=> \E u \in pending_rd : AddrOf(u) = a
      BY <2>3 DEF Pending, WithAddr, AddrOf
    <3>2. CASE W = TRUE
      BY <1>2, <2>3, <3>1, <3>2
    <3>3. CASE W = FALSE
      BY <1>2, <2>1, <2>3, <3>1, <3>3 DEF A
    <3>. QED
      BY <1>2, <3>2, <3>3
  <2>. QED
    BY <2>2, <2>3
<1>8. PendingInv'
  <2>1. pending_rd' \subseteq pending_rd /\ pending_wr' \subseteq pending_wr
    OBVIOUS
  <2>. QED
    BY <2>1 DEF Books, PendingInv, AddrOf, is_write
<1>9. Address' = Address
  BY DEF Address, Banks, banks
<1>10. CarriedInv'
  <2>1. ASSUME NEW a \in Address, NEW w \in BOOLEAN
        PROVE  /\ Pending(a, w)' # {} => Waits(a, w)' \/ Commanded(a, w)'
               /\ Waits(a, w)' \/ Commanded(a, w)' => Pending(a, w)' # {}
               /\ ~(Waits(a, w)' /\ Commanded(a, w)')
    <3>1. /\ Pending(a, w)' # {} <=> Pending(a, w) # {} /\ ~(a = A /\ w = W)
          /\ Commanded(a, w)' <=> Commanded(a, w) /\ ~(a = A /\ w = W)
          /\ Waits(a, w)' <=> Waits(a, w)
      BY <1>1, <1>4, <1>7
    <3>2. /\ Pending(a, w) # {} => Waits(a, w) \/ Commanded(a, w)
          /\ Waits(a, w) \/ Commanded(a, w) => Pending(a, w) # {}
          /\ ~(Waits(a, w) /\ Commanded(a, w))
      BY DEF Books, CarriedInv
    <3>3. CASE a = A /\ w = W
      BY <1>3, <3>1, <3>2, <3>3
    <3>4. CASE ~(a = A /\ w = W)
      BY <3>1, <3>2, <3>4
    <3>. QED
      BY <3>3, <3>4
  <2>. QED
    BY <1>9, <2>1 DEF CarriedInv
<1>11. ASSUME NEW a \in Address, Pending(a, FALSE)' # {}
       PROVE  QueuesOrdered(a)' /\ (config.unified_queue => UnifiedOrdered(a)')
  <2>1. Pending(a, FALSE) # {} /\ ~(a = A /\ W = FALSE)
    BY <1>7, <1>11
  <2>2. QueuesOrdered(a) /\ (config.unified_queue => UnifiedOrdered(a))
    BY <2>1 DEF Books, OrderInv
  <2>3. ASSUME NEW q \in 0..(num_queues - 1), NEW i \in 1..Len(queues'[q]),
               queues'[q][i].addr = a, IsWrite(queues'[q][i].type)
        PROVE  \E j \in 1..(i - 1) : queues'[q][j].addr = a /\ IsRead(queues'[q][j].type)
    <3>. DEFINE n == IF q = p /\ i >= k THEN i + 1 ELSE i
    <3>1. n \in 1..Len(queues[q]) /\ queues'[q][i] = queues[q][n]
      <4>1. i \in Nat /\ k \in Nat /\ (i < k => ~(i >= k))
        BY <1>5
      <4>2. \/ (q = p => i < k) /\ i \in 1..Len(queues[q]) /\ queues'[q][i] = queues[q][i]
            \/ q = p /\ i >= k /\ i + 1 \in 1..Len(queues[q])
               /\ queues'[q][i] = queues[q][i + 1]
        BY <1>1 DEF ComeFrom
      <4>. QED
        BY <4>1, <4>2
    <3>2. PICK j \in 1..(n - 1) : queues[q][j].addr = a /\ IsRead(queues[q][j].type)
      BY <2>2, <2>3, <3>1 DEF QueuesOrdered
    <3>3. j \in 1..Len(queues[q])
      BY <1>5, <3>1
    <3>4. ~(q = p /\ j = k)
      BY <1>2, <2>1, <3>2 DEF A
    <3>5. CASE q = p => j < k
      <4>1. j \in 1..(i - 1)
        BY <1>5, <3>1, <3>5
      <4>. QED
        BY <1>1, <3>2, <3>3, <3>5, <4>1 DEF GoTo
    <3>6. CASE q = p /\ j > k
      <4>1. j - 1 \in 1..(i - 1)
        BY <1>5, <3>1, <3>6
      <4>2. queues'[q][j - 1] = queues[q][j]
        BY <1>1, <3>3, <3>6 DEF GoTo
      <4>. QED
        BY <3>2, <4>1, <4>2
    <3>. QED
      BY <1>5, <3>3, <3>4, <3>5, <3>6
  <2>4. QueuesOrdered(a)'
    <3>1. num_queues' = num_queues
      BY <1>1
    <3>. QED
      BY <2>3, <3>1 DEF QueuesOrdered
  <2>5. Commanded(a, FALSE) => Commanded(a, FALSE)'
    BY <1>1, <2>1
  <2>6. config.unified_queue => UnifiedOrdered(a)'
    BY <2>2, <2>5 DEF UnifiedOrdered, AddrOf, is_write
  <2>. QED
    BY <2>4, <2>6
<1>12. OrderInv'
  BY <1>9, <1>11 DEF OrderInv
<1>13. WaitInv'
  BY DEF Books, WaitInv, QueueOf, AddrOf, is_write
<1>. QED
  BY <1>1, <1>8, <1>10, <1>12, <1>13 DEF Books

-----------------------------------------------------------------------------
(* The answers.                                                            *)

\* A finite set of numbers has a listing in order: each is at the place that
\* is the number of those up to it.  Any such listing has them all, once each.
LEMMA InOrderShape ==
  ASSUME NEW S \in SUBSET Nat, IsFiniteSet(S)
  PROVE  /\ Cardinality(S) \in Nat /\ InOrder(S) \in [1..Cardinality(S) -> S]
         /\ \A i, j \in 1..Cardinality(S) : InOrder(S)[i] = InOrder(S)[j] => i = j
         /\ \A t \in S : \E i \in 1..Cardinality(S) : InOrder(S)[i] = t
<1>. DEFINE n == Cardinality(S)
            upTo(t) == {u \in S : u <= t}
            rank == [t \in S |-> Cardinality(upTo(t))]
            Listing(s) == \A i, j \in DOMAIN s : i < j => s[i] < s[j]
<1>1. n \in Nat /\ IsFiniteSet(1..n) /\ Cardinality(1..n) = n
  <2>1. n \in Nat
    BY FS_CardinalityType
  <2>2. IsFiniteSet(1..n) /\ Cardinality(1..n) = IF 1 > n THEN 0 ELSE n - 1 + 1
    <3>. HIDE DEF n
    <3>1. 1 \in Int /\ n \in Int
      BY <2>1
    <3>. QED
      BY <3>1, FS_Interval
  <2>. HIDE DEF n
  <2>. QED
    BY <2>1, <2>2
<1>2. \A t \in S : IsFiniteSet(upTo(t)) /\ rank[t] \in 1..n
  <2>. SUFFICES ASSUME NEW t \in S PROVE IsFiniteSet(upTo(t)) /\ rank[t] \in 1..n
    OBVIOUS
  <2>1. upTo(t) \in SUBSET S /\ t \in upTo(t)
    OBVIOUS
  <2>2. IsFiniteSet(upTo(t)) /\ Cardinality(upTo(t)) <= n
    BY <2>1, FS_Subset
  <2>3. Cardinality(upTo(t)) \in Nat /\ Cardinality(upTo(t)) # 0
    BY <2>1, <2>2, FS_CardinalityType, FS_EmptySet
  <2>4. rank[t] = Cardinality(upTo(t))
    OBVIOUS
  <2>. HIDE DEF n, upTo, rank
  <2>. QED
    BY <1>1, <2>2, <2>3, <2>4
<1>3. \A t, v \in S : t < v => rank[t] < rank[v]
  <2>. SUFFICES ASSUME NEW t \in S, NEW v \in S, t < v PROVE rank[t] < rank[v]
    OBVIOUS
  <2>1. upTo(t) \in SUBSET upTo(v) /\ v \in upTo(v) /\ v \notin upTo(t)
    <3>1. t \in Nat /\ v \in Nat /\ \A u \in S : u \in Nat
      OBVIOUS
    <3>2. \A u \in S : u <= t => u <= v
      BY <3>1
    <3>3. v <= v /\ ~(v <= t)
      BY <3>1
    <3>. QED
      BY <3>2, <3>3
  <2>2. /\ Cardinality(upTo(t)) <= Cardinality(upTo(v))
        /\ Cardinality(upTo(v)) = Cardinality(upTo(t)) => upTo(v) = upTo(t)
    BY <1>2, <2>1, FS_Subset
  <2>3. rank[t] = Cardinality(upTo(t)) /\ rank[v] = Cardinality(upTo(v))
    OBVIOUS
  <2>4. rank[t] \in Nat /\ rank[v] \in Nat
    BY <1>2
  <2>. HIDE DEF n, upTo, rank
  <2>. QED
    BY <2>1, <2>2, <2>3, <2>4
<1>4. rank \in [S -> 1..n]
  BY <1>2
<1>. HIDE DEF n, upTo, rank
<1>5. rank \in Injection(S, 1..n)
  <2>1. \A t, v \in S : rank[t] = rank[v] => t = v
    <3>1. \A t, v \in S : t < v \/ v < t \/ t = v
      OBVIOUS
    <3>2. \A t \in S : rank[t] \in Nat
      BY <1>2
    <3>. QED
      BY <1>3, <3>1, <3>2
  <2>. QED
    BY <1>4, <2>1 DEF Injection, IsInjective
<1>6. rank \in Surjection(S, 1..n)
  BY <1>1, <1>5, FS_Injection DEF n
<1>7. \E s \in [1..n -> S] : Listing(s)
  <2>. DEFINE s == [i \in 1..n |-> CHOOSE t \in S : rank[t] = i]
  <2>1. \A i \in 1..n : s[i] \in S /\ rank[s[i]] = i
    BY <1>6 DEF Surjection
  <2>2. s \in [1..n -> S]
    BY <2>1
  <2>. HIDE DEF s
  <2>3. ASSUME NEW i \in 1..n, NEW j \in 1..n, i < j PROVE s[i] < s[j]
    <3>1. s[i] \in Nat /\ s[j] \in Nat
      BY <2>1
    <3>2. s[j] < s[i] => rank[s[j]] < rank[s[i]]
      BY <1>3, <2>1
    <3>. QED
      BY <2>1, <2>3, <3>1, <3>2
  <2>4. DOMAIN s = 1..n
    BY <2>2
  <2>. QED
    BY <2>2, <2>3, <2>4
<1>8. InOrder(S) \in [1..n -> S] /\ Listing(InOrder(S))
  BY <1>7 DEF InOrder, n
<1>. DEFINE o == InOrder(S)
<1>. HIDE DEF o
<1>9. \A i, j \in 1..n : o[i] = o[j] => i = j
  <2>1. o \in [1..n -> S] /\ Listing(o)
    BY <1>8 DEF o
  <2>2. \A i, j \in 1..n : i < j => o[i] < o[j]
    BY <2>1
  <2>3. \A i \in 1..n : o[i] \in Nat
    BY <2>1
  <2>4. \A i, j \in 1..n : i < j \/ j < i \/ i = j
    BY <1>1
  <2>. QED
    BY <2>2, <2>3, <2>4
<1>10. o \in Injection(1..n, S)
  BY <1>8, <1>9 DEF Injection, IsInjective, o
<1>11. o \in Surjection(1..n, S)
  BY <1>1, <1>10, FS_Injection DEF n
<1>12. \A t \in S : \E i \in 1..n : o[i] = t
  BY <1>11 DEF Surjection
<1>. QED
  BY <1>1, <1>8, <1>9, <1>12 DEF o, n

\* u is s, of length m, and then v, of length n.
Joins(u, s, m, v, n) ==
  /\ m \in Nat /\ n \in Nat /\ Len(u) = m + n
  /\ \A i \in 1..m : i \in 1..(m + n) /\ u[i] = s[i]
  /\ \A i \in 1..n : m + i \in 1..(m + n) /\ u[m + i] = v[i]
  /\ \A i \in 1..(m + n) : i \in 1..m \/ (i - m \in 1..n /\ m + (i - m) = i)

\* One sequence after another.
LEMMA ConcatShape ==
  ASSUME NEW T, NEW s \in Seq(T), NEW v \in Seq(T), NEW m, m = Len(s), NEW n, n = Len(v),
         NEW u, u = s \o v
  PROVE  u \in Seq(T) /\ Joins(u, s, m, v, n)
<1>1. m \in Nat /\ n \in Nat
  OBVIOUS
<1>2. u \in Seq(T) /\ Len(u) = m + n
  BY ConcatProperties
<1>3. \A i \in 1..m : i \in 1..(m + n) /\ i <= m
  BY <1>1
<1>4. \A i \in 1..n : m + i \in 1..(m + n) /\ ~(m + i <= m) /\ (m + i) - m = i
  BY <1>1
<1>5. \A i \in 1..(m + n) : i \in 1..m \/ (i - m \in 1..n /\ m + (i - m) = i)
  BY <1>1
<1>6. \A i \in 1..(m + n) : u[i] = IF i <= m THEN s[i] ELSE v[i - m]
  BY ConcatProperties
<1>7. \A i \in 1..m : u[i] = s[i]
  BY <1>3, <1>6
<1>8. \A i \in 1..n : u[m + i] = v[i]
  <2>. SUFFICES ASSUME NEW i \in 1..n PROVE u[m + i] = v[i]
    OBVIOUS
  <2>1. u[m + i] = v[(m + i) - m]
    BY <1>4, <1>6
  <2>. QED
    BY <1>4, <2>1
<1>. QED
  BY <1>1, <1>2, <1>3, <1>4, <1>5, <1>7, <1>8 DEF Joins

\* What is put at the end of the return queue, with d cycles to go: the N
\* transactions o, which are pending or new, each once.
Answers(N, o, d) ==
  /\ N \in Nat /\ d \in Nat
  /\ \A i \in 1..N : o[i] \in 1..added' /\ ~Returning(o[i]) /\ o[i] \notin done
  /\ \A i, j \in 1..N : o[i] = o[j] => i = j
  /\ \A t \in 1..added' : t \notin pending_rd' \cup done <=>
       (t \in 1..added /\ t \notin pending_rd \cup done) \/ (\E i \in 1..N : o[i] = t)
  /\ return_queue' = return_queue \o [i \in 1..N |-> [trans |-> o[i], left |-> d]]

\* They are the only ones that come to be on their way back.
LEMMA AnswersKeepReturnInv ==
  ASSUME ReturnInv, added \in Nat, added' \in Nat, added <= added', done' = done,
         pending_rd' \cap done = {}, NEW N, NEW o, NEW d, Answers(N, o, d)
  PROVE  ReturnInv'
<1>. USE DEF Answers
<1>. DEFINE R == [trans : 1..added', left : Nat]
            x == [i \in 1..N |-> [trans |-> o[i], left |-> d]]
            L == Len(return_queue)
<1>1. return_queue \in Seq(R) /\ L \in Nat
  <2>1. return_queue \in Seq([trans : 1..added, left : Nat])
    BY DEF ReturnInv
  <2>2. [trans : 1..added, left : Nat] \subseteq R
    OBVIOUS
  <2>3. \A P, Q : P \subseteq Q => \A s \in Seq(P) : s \in Seq(Q)
    OBVIOUS
  <2>4. return_queue \in Seq(R)
    <3>. HIDE DEF R
    <3>. QED
      BY <2>1, <2>2, <2>3
  <2>. QED
    BY <2>4
<1>2. x \in Seq(R) /\ Len(x) = N /\ \A i \in 1..N : x[i].trans = o[i]
  <2>1. \A i \in 1..N : [trans |-> o[i], left |-> d] \in R
    OBVIOUS
  <2>. HIDE DEF R
  <2>. QED
    BY <2>1
<1>. HIDE DEF R, x
<1>3. return_queue' = return_queue \o x
  BY DEF x
<1>4. return_queue' \in Seq(R) /\ Joins(return_queue', return_queue, L, x, N)
  BY <1>1, <1>2, <1>3, ConcatShape
<1>. HIDE DEF L
<1>5. /\ return_queue' \in Seq(R) /\ Len(return_queue') = L + N
      /\ \A i \in 1..L : i \in 1..(L + N) /\ return_queue'[i] = return_queue[i]
      /\ \A i \in 1..N : L + i \in 1..(L + N) /\ return_queue'[L + i].trans = o[i]
      /\ \A i \in 1..(L + N) : i \in 1..L \/ (i - L \in 1..N /\ L + (i - L) = i)
  BY <1>2, <1>4 DEF Joins
<1>6. \A t : Returning(t)' <=> Returning(t) \/ \E i \in 1..N : o[i] = t
  <2>. SUFFICES ASSUME NEW t
                PROVE  Returning(t)' <=> Returning(t) \/ \E i \in 1..N : o[i] = t
    OBVIOUS
  <2>1. Returning(t)' <=> \E i \in 1..(L + N) : return_queue'[i].trans = t
    BY <1>5 DEF Returning
  <2>2. Returning(t) <=> \E i \in 1..L : return_queue[i].trans = t
    BY DEF Returning, L
  <2>3. \A i \in 1..(L + N) : return_queue'[i].trans = t =>
          (\E j \in 1..L : return_queue[j].trans = t) \/ (\E j \in 1..N : o[j] = t)
    <3>. SUFFICES ASSUME NEW i \in 1..(L + N), return_queue'[i].trans = t
                  PROVE  \/ \E j \in 1..L : return_queue[j].trans = t
                         \/ \E j \in 1..N : o[j] = t
      OBVIOUS
    <3>1. CASE i \in 1..L
      BY <1>5, <3>1
    <3>2. CASE i - L \in 1..N /\ L + (i - L) = i
      <4>1. return_queue'[L + (i - L)].trans = o[i - L]
        BY <1>5, <3>2
      <4>. QED
        BY <3>2, <4>1
    <3>. QED
      BY <1>5, <3>1, <3>2
  <2>4. (\E i \in 1..L : return_queue[i].trans = t) =>
          \E i \in 1..(L + N) : return_queue'[i].trans = t
    BY <1>5
  <2>5. ASSUME NEW i \in 1..N, o[i] = t
        PROVE  \E j \in 1..(L + N) : return_queue'[j].trans = t
    <3>1. L + i \in 1..(L + N) /\ return_queue'[L + i].trans = o[i]
      BY <1>5
    <3>. QED
      BY <2>5, <3>1
  <2>. QED
    BY <2>1, <2>2, <2>3, <2>4, <2>5
<1>7. \A i, j \in 1..Len(return_queue') :
        return_queue'[i].trans = return_queue'[j].trans => i = j
  <2>. SUFFICES ASSUME NEW i \in 1..(L + N), NEW j \in 1..(L + N),
                       return_queue'[i].trans = return_queue'[j].trans
                PROVE  i = j
    BY <1>5
  <2>1. \A m, k \in 1..L : return_queue[m].trans = return_queue[k].trans => m = k
    BY DEF ReturnInv, L
  <2>2. \A m \in 1..L, k \in 1..N : return_queue[m].trans # o[k]
    BY DEF Returning, L
  <2>3. CASE i \in 1..L /\ j \in 1..L
    BY <1>5, <2>1, <2>3
  <2>4. CASE i \notin 1..L /\ j \notin 1..L
    <3>1. i - L \in 1..N /\ return_queue'[i].trans = o[i - L] /\ L + (i - L) = i
      BY <1>5, <2>4
    <3>2. j - L \in 1..N /\ return_queue'[j].trans = o[j - L] /\ L + (j - L) = j
      BY <1>5, <2>4
    <3>3. i - L = j - L
      BY <3>1, <3>2
    <3>. QED
      BY <3>1, <3>2, <3>3
  <2>5. CASE i \in 1..L /\ j \notin 1..L
    <3>1. j - L \in 1..N /\ return_queue'[j].trans = o[j - L]
      BY <1>5, <2>5
    <3>2. return_queue'[i] = return_queue[i]
      BY <1>5, <2>5
    <3>3. return_queue[i].trans # o[j - L]
      BY <2>2, <2>5, <3>1
    <3>. QED
      BY <3>1, <3>2, <3>3
  <2>6. CASE i \notin 1..L /\ j \in 1..L
    <3>1. i - L \in 1..N /\ return_queue'[i].trans = o[i - L]
      BY <1>5, <2>6
    <3>2. return_queue'[j] = return_queue[j]
      BY <1>5, <2>6
    <3>3. return_queue[j].trans # o[i - L]
      BY <2>2, <2>6, <3>1
    <3>. QED
      BY <3>1, <3>2, <3>3
  <2>. QED
    BY <2>3, <2>4, <2>5, <2>6
<1>8. \A t \in 1..added' : Returning(t)' <=> t \notin pending_rd' \cup done
  <2>1. \A t : Returning(t) => t \in 1..added
    <3>1. return_queue \in Seq([trans : 1..added, left : Nat])
      BY DEF ReturnInv
    <3>2. \A T : \A s \in Seq(T) : \A i \in 1..Len(s) : s[i] \in T
      OBVIOUS
    <3>3. \A i \in 1..Len(return_queue) : return_queue[i] \in [trans : 1..added, left : Nat]
      BY <3>1, <3>2
    <3>4. \A i \in 1..Len(return_queue) : return_queue[i].trans \in 1..added
      BY <3>3
    <3>. QED
      BY <3>4 DEF Returning
  <2>2. \A t \in 1..added : Returning(t) <=> t \notin pending_rd \cup done
    BY DEF ReturnInv
  <2>. QED
    BY <1>6, <2>1, <2>2
<1>9. done' \in SUBSET (1..added')
  BY DEF ReturnInv
<1>. QED
  BY <1>5, <1>7, <1>8, <1>9 DEF ReturnInv, R

\* A sequence with one more element.
LEMMA AppendAsConcat ==
  ASSUME NEW T, NEW s \in Seq(T), NEW e \in T
  PROVE  Append(s, e) = s \o [i \in 1..1 |-> e]
<1>1. <<e>> = [i \in 1..1 |-> e]
  OBVIOUS
<1>2. Append(s, e) = s \o <<e>>
  BY AppendIsConcat
<1>. QED
  BY <1>1, <1>2

\* A transaction that is accepted is answered in the next cycle, or pending.
LEMMA AddKeepsReturns ==
  ASSUME ReturnInv, added \in Nat, added' = added + 1, UNCHANGED done,
         pending_rd \subseteq 1..added,
         AddWrite(added + 1) \/ AddRead(added + 1)
  PROVE  ReturnInv'
<1>. DEFINE t == added + 1
<1>1. /\ return_queue \in Seq([trans : 1..added, left : Nat])
      /\ done \subseteq 1..added /\ pending_rd \cap done = {}
      /\ \A i, j \in 1..Len(return_queue) :
           return_queue[i].trans = return_queue[j].trans => i = j
      /\ \A u \in 1..added : Returning(u) <=> u \notin pending_rd \cup done
  BY DEF ReturnInv
<1>2. \A T : \A s \in Seq(T) : \A i \in 1..Len(s) : s[i] \in T
  OBVIOUS
<1>10. \A P, Q : P \subseteq Q => \A s \in Seq(P) : s \in Seq(Q)
  OBVIOUS
<1>11. return_queue \in Seq([trans : 1..t, left : Nat])
  <2>1. [trans : 1..added, left : Nat] \subseteq [trans : 1..t, left : Nat]
    OBVIOUS
  <2>. DEFINE P == [trans : 1..added, left : Nat]
              Q == [trans : 1..t, left : Nat]
  <2>2. P \subseteq Q /\ return_queue \in Seq(P)
    BY <1>1, <2>1
  <2>3. return_queue \in Seq(Q)
    <3>. HIDE DEF P, Q
    <3>. QED
      BY <2>2, <1>10
  <2>. QED
    BY <2>3
<1>3. \A i \in 1..Len(return_queue) : return_queue[i].trans \in 1..added
  <2>1. \A i \in 1..Len(return_queue) : return_queue[i] \in [trans : 1..added, left : Nat]
    BY <1>1, <1>2
  <2>. QED
    BY <2>1
<1>4. t \in Nat /\ t \in 1..t /\ t \notin 1..added /\ 1..added \subseteq 1..t
      /\ \A u \in 1..t : u \in 1..added \/ u = t
  OBVIOUS
<1>. HIDE DEF t
<1>5. ~Returning(t) /\ t \notin done /\ t \notin pending_rd
  BY <1>1, <1>3, <1>4 DEF Returning
<1>6. added' = t
  BY DEF t
<1>7. CASE return_queue' = Append(return_queue, [trans |-> t, left |-> 1])
           /\ UNCHANGED pending_rd
  <2>. DEFINE o == [i \in 1..1 |-> t]
              one == 1
  <2>2. return_queue' = return_queue \o [i \in 1..1 |-> [trans |-> t, left |-> 1]]
    <3>1. [trans |-> t, left |-> 1] \in [trans : 1..t, left : Nat]
      BY <1>4
    <3>. QED
      BY <1>7, <1>11, <3>1, AppendAsConcat
  <2>3. \A i \in 1..1 : o[i] = t
    OBVIOUS
  <2>4. [i \in 1..1 |-> [trans |-> t, left |-> 1]]
          = [i \in 1..1 |-> [trans |-> o[i], left |-> 1]]
    BY <2>3
  <2>5. /\ \A i \in 1..1 : o[i] \in 1..added' /\ ~Returning(o[i]) /\ o[i] \notin done
        /\ \A i, j \in 1..1 : o[i] = o[j] => i = j
    BY <1>4, <1>5, <1>6, <2>3
  <2>6. \A u \in 1..added' : u \notin pending_rd' \cup done <=>
          (u \in 1..added /\ u \notin pending_rd \cup done) \/ (\E i \in 1..1 : o[i] = u)
    BY <1>4, <1>5, <1>6, <1>7, <2>3
  <2>7. pending_rd' \cap done = {} /\ 1 \in Nat /\ added' \in Nat /\ added <= added'
    BY <1>1, <1>4, <1>6, <1>7
  <2>8. return_queue' = return_queue \o [i \in 1..one |-> [trans |-> o[i], left |-> one]]
    BY <2>2, <2>4
  <2>9. /\ \A i \in 1..one : o[i] \in 1..added' /\ ~Returning(o[i]) /\ o[i] \notin done
        /\ \A i, j \in 1..one : o[i] = o[j] => i = j
        /\ one \in Nat
        /\ \A u \in 1..added' : u \notin pending_rd' \cup done <=>
             (u \in 1..added /\ u \notin pending_rd \cup done) \/ (\E i \in 1..one : o[i] = u)
    BY <2>5, <2>6
  <2>10. added \in Nat /\ done' = done
    OBVIOUS
  <2>11. Answers(one, o, one)
    BY <2>8, <2>9 DEF Answers
  <2>. HIDE DEF o, one
  <2>. QED
    BY <2>7, <2>10, <2>11, AnswersKeepReturnInv
<1>8. CASE UNCHANGED return_queue /\ pending_rd' = pending_rd \cup {t}
  <2>1. return_queue' \in Seq([trans : 1..added', left : Nat])
    BY <1>6, <1>8, <1>11
  <2>2. \A u : Returning(u)' <=> Returning(u)
    BY <1>8 DEF Returning
  <2>3. \A u \in 1..added' : Returning(u)' <=> u \notin pending_rd' \cup done'
    BY <1>1, <1>4, <1>5, <1>6, <1>8, <2>2
  <2>4. done' \in SUBSET (1..added') /\ pending_rd' \cap done' = {}
    BY <1>1, <1>4, <1>5, <1>6, <1>8
  <2>5. \A i, j \in 1..Len(return_queue') :
          return_queue'[i].trans = return_queue'[j].trans => i = j
    BY <1>1, <1>8
  <2>. QED
    BY <2>1, <2>3, <2>4, <2>5 DEF ReturnInv
<1>. QED
  BY <1>7, <1>8 DEF AddWrite, AddRead, ReturnSoon, t

\* A read command answers all that is pending of its address.
LEMMA CommandKeepsReturns ==
  ASSUME config \in Configs, ReturnInv, added \in Nat, UNCHANGED <<added, done>>,
         pending_rd \subseteq 1..added, NEW cmd, IssueCommand(cmd)
  PROVE  ReturnInv'
<1>. DEFINE S == ReadsDone(cmd)
<1>1. CASE IsRead(cmd.type)
  <2>1. S \in SUBSET Nat /\ S \subseteq pending_rd /\ S \subseteq 1..added
    <3>1. S \subseteq pending_rd
      BY DEF ReadsDone, WithAddr
    <3>. HIDE DEF S
    <3>2. 1..added \subseteq Nat
      OBVIOUS
    <3>. QED
      BY <3>1, <3>2
  <2>2. IsFiniteSet(S)
    <3>1. IsFiniteSet(1..added)
      BY FS_Interval
    <3>. QED
      BY <2>1, <3>1, FS_Subset
  <2>3. /\ return_queue' = return_queue \o
             [i \in 1..Cardinality(S) |-> [trans |-> InOrder(S)[i], left |-> read_delay]]
        /\ pending_rd' = pending_rd \ S
    BY <1>1 DEF IssueCommand
  <2>. DEFINE N == Cardinality(S)
              o == InOrder(S)
  <2>. HIDE DEF S
  <2>4. /\ N \in Nat /\ o \in [1..N -> S]
        /\ \A i, j \in 1..N : o[i] = o[j] => i = j
        /\ \A t \in S : \E i \in 1..N : o[i] = t
    BY <2>1, <2>2, InOrderShape
  <2>5. return_queue' = return_queue \o [i \in 1..N |-> [trans |-> o[i], left |-> read_delay]]
    BY <2>3
  <2>6. read_delay \in Nat
    BY ParamsAreNat DEF read_delay
  <2>7. /\ \A t \in 1..added : Returning(t) <=> t \notin pending_rd \cup done
        /\ pending_rd \cap done = {}
    BY DEF ReturnInv
  <2>. HIDE DEF N, o
  <2>8. \A i \in 1..N : o[i] \in S
    BY <2>4
  <2>9. \A i \in 1..N : o[i] \in 1..added' /\ ~Returning(o[i]) /\ o[i] \notin done
    BY <2>1, <2>7, <2>8
  <2>10. \A t \in 1..added' : t \notin pending_rd' \cup done <=>
           (t \in 1..added /\ t \notin pending_rd \cup done) \/ (\E i \in 1..N : o[i] = t)
    <3>1. \A t : t \in S <=> \E i \in 1..N : o[i] = t
      BY <2>4, <2>8
    <3>. QED
      BY <2>1, <2>3, <2>7, <3>1
  <2>11. Answers(N, o, read_delay)
    BY <2>4, <2>5, <2>6, <2>9, <2>10 DEF Answers
  <2>12. pending_rd' \cap done = {} /\ added' \in Nat /\ added <= added' /\ done' = done
    BY <2>3, <2>7
  <2>. QED
    BY <2>11, <2>12, AnswersKeepReturnInv
<1>2. CASE ~IsRead(cmd.type)
  <2>1. UNCHANGED <<return_queue, pending_rd, added, done>>
    BY <1>2 DEF IssueCommand
  <2>. QED
    BY <2>1 DEF ReturnInv, Returning
<1>. QED
  BY <1>1, <1>2

\* What is given back is one transaction, once.
LEMMA DoneKeepsReturns ==
  ASSUME ReturnInv, added \in Nat, UNCHANGED <<added, pending_rd>>, ReturnDoneTrans
  PROVE  ReturnInv'
<1>. DEFINE R == [trans : 1..added, left : Nat]
            L == Len(return_queue)
            k == Min(Over)
<1>1. return_queue \in Seq(R) /\ L \in Nat /\ DOMAIN return_queue = 1..L
  BY DEF ReturnInv
<1>2. k \in 1..L
  <2>1. Over \in SUBSET Nat /\ Over # {} /\ Over \subseteq 1..L
    BY <1>1 DEF Over, ReturnDoneTrans
  <2>2. k \in Over
    BY <2>1, MinIsLeast
  <2>. QED
    BY <2>1, <2>2
<1>3. /\ done' = done \cup {return_queue[k].trans}
      /\ return_queue' = RemoveAt(return_queue, k)
  BY DEF ReturnDoneTrans
<1>. HIDE DEF k
<1>4. /\ return_queue' \in Seq(R) /\ Len(return_queue') = L - 1
      /\ \A i \in 1..(L - 1) :
           return_queue'[i] = IF i < k THEN return_queue[i] ELSE return_queue[i + 1]
  <2>. HIDE DEF R
  <2>. QED
    BY <1>1, <1>2, <1>3, RemoveAtShape
<1>5. \A i \in 1..L : return_queue[i].trans \in 1..added
  <2>1. \A T : \A s \in Seq(T) : \A i \in 1..Len(s) : s[i] \in T
    OBVIOUS
  <2>2. \A i \in 1..L : return_queue[i] \in R
    <3>. HIDE DEF R
    <3>. QED
      BY <1>1, <2>1
  <2>. QED
    BY <2>2
<1>. HIDE DEF R, L
<1>6. /\ \A i, j \in 1..L : return_queue[i].trans = return_queue[j].trans => i = j
      /\ \A t : Returning(t) <=> \E i \in 1..L : return_queue[i].trans = t
      /\ \A t \in 1..added : Returning(t) <=> t \notin pending_rd \cup done
      /\ pending_rd \cap done = {} /\ done \subseteq 1..added
  BY DEF ReturnInv, Returning, L
<1>7. \A t : Returning(t)' <=> \E i \in 1..(L - 1) : return_queue'[i].trans = t
  BY <1>4 DEF Returning
<1>8. \A t : Returning(t)' <=> Returning(t) /\ t # return_queue[k].trans
  <2>. SUFFICES ASSUME NEW t
                PROVE  Returning(t)' <=> Returning(t) /\ t # return_queue[k].trans
    OBVIOUS
  <2>1. ASSUME NEW i \in 1..(L - 1), return_queue'[i].trans = t
        PROVE  Returning(t) /\ t # return_queue[k].trans
    <3>1. CASE i < k
      <4>1. i \in 1..L /\ i # k /\ return_queue[i].trans = t
        BY <1>1, <1>4, <2>1, <3>1
      <4>. QED
        BY <1>2, <1>6, <4>1
    <3>2. CASE ~(i < k)
      <4>1. i + 1 \in 1..L /\ i + 1 # k /\ return_queue[i + 1].trans = t
        BY <1>1, <1>2, <1>4, <2>1, <3>2
      <4>. QED
        BY <1>2, <1>6, <4>1
    <3>. QED
      BY <3>1, <3>2
  <2>2. ASSUME NEW i \in 1..L, return_queue[i].trans = t, t # return_queue[k].trans
        PROVE  \E j \in 1..(L - 1) : return_queue'[j].trans = t
    <3>0. i # k
      BY <2>2
    <3>1. CASE i < k
      <4>1. i \in 1..(L - 1) /\ return_queue'[i] = return_queue[i]
        BY <1>1, <1>2, <1>4, <3>1
      <4>. QED
        BY <2>2, <4>1
    <3>2. CASE i > k
      <4>1. i - 1 \in 1..(L - 1) /\ ~(i - 1 < k) /\ (i - 1) + 1 = i
        BY <1>1, <1>2, <3>2
      <4>2. return_queue'[i - 1] = return_queue[i]
        BY <1>4, <4>1
      <4>. QED
        BY <2>2, <4>1, <4>2
    <3>. QED
      BY <1>2, <3>0, <3>1, <3>2
  <2>. QED
    BY <1>6, <1>7, <2>1, <2>2
<1>9. \A i, j \in 1..(L - 1) : return_queue'[i].trans = return_queue'[j].trans => i = j
  <2>. SUFFICES ASSUME NEW i \in 1..(L - 1), NEW j \in 1..(L - 1),
                       return_queue'[i].trans = return_queue'[j].trans
                PROVE  i = j
    OBVIOUS
  <2>. DEFINE at(n) == IF n < k THEN n ELSE n + 1
  <2>1. at(i) \in 1..L /\ at(j) \in 1..L /\ (at(i) = at(j) => i = j)
    BY <1>1, <1>2
  <2>2. return_queue'[i] = return_queue[at(i)] /\ return_queue'[j] = return_queue[at(j)]
    BY <1>4
  <2>. HIDE DEF at
  <2>. QED
    BY <1>6, <2>1, <2>2
<1>10. return_queue[k].trans \in 1..added /\ return_queue[k].trans \notin pending_rd \cup done
  BY <1>2, <1>5, <1>6
<1>11. \A t \in 1..added' : Returning(t)' <=> t \notin pending_rd' \cup done'
  BY <1>3, <1>6, <1>8, <1>10
<1>12. done' \in SUBSET (1..added') /\ pending_rd' \cap done' = {}
  <2>. DEFINE back == return_queue[k].trans
  <2>1. back \in 1..added /\ back \notin pending_rd /\ done' = done \cup {back}
    BY <1>3, <1>10
  <2>. HIDE DEF back
  <2>. QED
    BY <1>6, <2>1
<1>13. return_queue' \in Seq([trans : 1..added', left : Nat])
  BY <1>4 DEF R
<1>14. \A i, j \in 1..Len(return_queue') :
         return_queue'[i].trans = return_queue'[j].trans => i = j
  BY <1>4, <1>9
<1>. QED
  BY <1>11, <1>12, <1>13, <1>14 DEF ReturnInv

\* A cycle brings the answers nearer and changes none.
LEMMA ElapseKeepsReturns ==
  ASSUME ReturnInv, UNCHANGED <<added, done, pending_rd>>,
         return_queue' = [i \in DOMAIN return_queue |->
                            [return_queue[i] EXCEPT !.left = Less(@)]]
  PROVE  ReturnInv'
<1>. DEFINE R == [trans : 1..added, left : Nat]
            L == Len(return_queue)
<1>1. return_queue \in Seq(R) /\ L \in Nat /\ DOMAIN return_queue = 1..L
  BY DEF ReturnInv
<1>2. \A i \in 1..L : return_queue[i] \in R
  <2>1. \A T : \A s \in Seq(T) : \A i \in 1..Len(s) : s[i] \in T
    OBVIOUS
  <2>. HIDE DEF R
  <2>. QED
    BY <1>1, <2>1
<1>3. \A i \in 1..L : /\ [return_queue[i] EXCEPT !.left = Less(@)] \in R
                      /\ [return_queue[i] EXCEPT !.left = Less(@)].trans = return_queue[i].trans
  BY <1>2 DEF Less
<1>4. \A i \in 1..L : return_queue'[i] \in R /\ return_queue'[i].trans = return_queue[i].trans
  BY <1>1, <1>3
<1>5. return_queue' = [i \in 1..L |-> return_queue'[i]]
  BY <1>1
<1>. HIDE DEF R, L
<1>6. return_queue' \in Seq(R) /\ Len(return_queue') = L
  BY <1>1, <1>4, <1>5
<1>7. \A t : Returning(t)' <=> Returning(t)
  BY <1>4, <1>6 DEF Returning, L
<1>. QED
  BY <1>4, <1>6, <1>7 DEF ReturnInv, R, L

-----------------------------------------------------------------------------
(* The steps.                                                              *)

\* Parts of the invariant that a step does not touch.
LEMMA BanksUntouched ==
  ASSUME config' = config, UNCHANGED <<channelVars, refreshVars>>, BankInv
  PROVE  BankInv' /\ (LiveInv => LiveInv') /\ (BurstInv => BurstInv')
<1>1. /\ UNCHANGED <<open_row, cmd_timing, four_aw, window, refreshing, refresh_q, next_ref>>
      /\ Banks' = Banks /\ Ranks' = Ranks /\ (RanksOnly' <=> RanksOnly)
  BY DEF channelVars, bankVars, refreshVars, Banks, Ranks, banks, RanksOnly
<1>2. BankType'
  BY <1>1 DEF BankInv, BankType
<1>3. RefreshInv'
  BY <1>1 DEF BankInv, RefreshInv
<1>4. WindowInv'
  BY <1>1 DEF BankInv, WindowInv
<1>5. LiveInv => LiveInv'
  BY <1>1 DEF LiveInv
<1>6. BurstInv => BurstInv'
  BY <1>1 DEF BurstInv
<1>. QED
  BY <1>2, <1>3, <1>4, <1>5, <1>6 DEF BankInv

\* A step that touches neither queues nor what is pending keeps the books.
LEMMA BooksUntouched ==
  ASSUME config \in Configs, config' = config, Books,
         UNCHANGED <<queues, added, pending_rd, pending_wr,
                     unified_queue, read_queue, write_buffer>>,
         queue_idx' \in 0..(num_queues - 1)
  PROVE  Books'
<1>1. /\ num_queues' = num_queues /\ CommandInv'
      /\ \A a, w : Commanded(a, w)' <=> Commanded(a, w)
  BY CommandsUntouched DEF Books, CommandInv
<1>2. TQ' = TQ
  BY DEF TQ
<1>3. WaitInv' /\ PendingInv'
  <2>1. WaitInv'
    BY <1>2 DEF Books, WaitInv, QueueOf, AddrOf, is_write
  <2>2. PendingInv'
    BY DEF Books, PendingInv, AddrOf, is_write
  <2>. QED
    BY <2>1, <2>2
<1>4. \A a, w : Waits(a, w)' <=> Waits(a, w)
  BY <1>2 DEF Waits, AddrOf, is_write
<1>5. \A a, w : Pending(a, w)' = Pending(a, w)
  BY DEF Pending, WithAddr, AddrOf
<1>6. Address' = Address
  BY DEF Address, Banks, banks
<1>7. CarriedInv'
  BY <1>1, <1>4, <1>5, <1>6 DEF Books, CarriedInv
<1>8. OrderInv'
  <2>1. \A a : QueuesOrdered(a)' <=> QueuesOrdered(a)
    BY <1>1 DEF QueuesOrdered
  <2>2. \A a : UnifiedOrdered(a)' <=> UnifiedOrdered(a)
    BY <1>1, <1>2 DEF UnifiedOrdered, AddrOf, is_write
  <2>. QED
    BY <1>5, <1>6, <2>1, <2>2 DEF Books, OrderInv
<1>. QED
  BY <1>1, <1>3, <1>7, <1>8 DEF Books

\* What the steps start from.
LEMMA IInvShape ==
  ASSUME IInv
  PROVE  /\ config \in Configs /\ pc \in PC /\ issued \in BOOLEAN
         /\ added \in 0..Len(config.stream) /\ added \in Nat /\ Len(config.stream) \in Nat
         /\ pending_rd \subseteq 1..added /\ pending_wr \subseteq 1..added
         /\ BankInv /\ BankType /\ RefreshInv /\ WindowInv /\ CycleInv
         /\ Books /\ WaitInv /\ CommandInv /\ PendingInv /\ ReturnInv /\ DrainInv
         /\ unified_queue \in Seq(1..added) /\ read_queue \in Seq(1..added)
         /\ write_buffer \in Seq(1..added)
<1>1. config \in Configs /\ added \in 0..Len(config.stream)
  BY DEF IInv, TypeInv
<1>2. Len(config.stream) \in Nat
  BY <1>1, StreamType
<1>3. TQ[1] = unified_queue /\ TQ[2] = read_queue /\ TQ[3] = write_buffer
  BY TQShape
<1>4. 1 \in Places /\ 2 \in Places /\ 3 \in Places
  BY DEF Places
<1>5. unified_queue \in Seq(1..added) /\ read_queue \in Seq(1..added)
      /\ write_buffer \in Seq(1..added)
  <2>1. \A x \in Places : TQ[x] \in Seq(1..added)
    BY DEF IInv, Books, WaitInv
  <2>. QED
    BY <1>3, <1>4, <2>1
<1>. QED
  BY <1>1, <1>2, <1>5 DEF IInv, TypeInv, BankInv, Books, PendingInv

\* A transaction is accepted.
LEMMA AddStep ==
  ASSUME IInv, AddTransaction
  PROVE  IInv'
<1>. USE IInvShape
<1>1. config' = config /\ UNCHANGED <<channelVars, refreshVars, queueVars, pc, write_draining,
                                     issued, done>>
      /\ pc = "add" /\ added < Len(config.stream) /\ added' = added + 1
      /\ (AddWrite(added + 1) \/ AddRead(added + 1))
  BY DEF AddTransaction
<1>2. BankInv' /\ (LiveInv => LiveInv') /\ (BurstInv => BurstInv')
  BY <1>1, BanksUntouched
<1>3. CycleInv'
  BY <1>1, <1>2 DEF CycleInv
<1>4. Books'
  BY <1>1, AddKeepsBooks
<1>5. ReturnInv'
  BY <1>1, AddKeepsReturns
<1>6. TypeInv'
  BY <1>1 DEF TypeInv
<1>7. DrainInv'
  <2>1. write_buffer' = write_buffer \/ write_buffer' = Append(write_buffer, added + 1)
    BY <1>1 DEF AddWrite, AddRead, Enqueue, NotQueued
  <2>2. Len(write_buffer) \in Nat /\ Len(write_buffer') \in Nat
        /\ Len(write_buffer') >= Len(write_buffer)
    BY <2>1
  <2>. QED
    BY <1>1, <2>2 DEF DrainInv
<1>. QED
  BY <1>2, <1>3, <1>4, <1>5, <1>6, <1>7 DEF IInv

\* An answer is given back.
LEMMA ReturnStep ==
  ASSUME IInv, ReturnDoneTrans
  PROVE  IInv'
<1>. USE IInvShape
<1>1. config' = config /\ UNCHANGED <<channelVars, refreshVars, queueVars, added, pending_rd,
                                     pending_wr, unified_queue, read_queue, write_buffer,
                                     write_draining, issued>>
      /\ pc \in {"add", "return"} /\ pc' = "return"
  BY DEF ReturnDoneTrans
<1>2. BankInv' /\ (LiveInv => LiveInv') /\ (BurstInv => BurstInv')
  BY <1>1, BanksUntouched
<1>3. CycleInv'
  BY <1>1, <1>2 DEF CycleInv
<1>4. Books'
  BY <1>1, BooksUntouched DEF queueVars, CommandInv
<1>5. ReturnInv'
  BY <1>1, DoneKeepsReturns
<1>6. TypeInv' /\ DrainInv'
  BY <1>1 DEF TypeInv, PC, DrainInv
<1>. QED
  BY <1>2, <1>3, <1>4, <1>5, <1>6 DEF IInv

\* A cycle begins, and perhaps a refresh falls due.
LEMMA BeginStep ==
  ASSUME IInv, BeginCycle
  PROVE  IInv'
<1>. USE IInvShape
<1>1. /\ config' = config /\ UNCHANGED <<bankVars, queueVars, transVars, issued, done>>
      /\ pc \in {"add", "return"} /\ RefreshClockTick
      /\ pc' = IF refresh_q' # <<>> THEN "finish" ELSE "issue"
  BY DEF BeginCycle
<1>2. BankInv'
  BY <1>1, RefreshTickKeepsBanks
<1>3. CycleInv'
  <2>1. LiveInv
    BY <1>1 DEF CycleInv
  <2>2. LiveInv'
    BY <1>1, <2>1 DEF bankVars, LiveInv, Ranks
  <2>. QED
    BY <1>1, <2>2 DEF CycleInv
<1>4. Books'
  BY <1>1, BooksUntouched DEF queueVars, transVars, CommandInv
<1>5. ReturnInv'
  BY <1>1 DEF transVars, ReturnInv, Returning
<1>6. TypeInv' /\ DrainInv'
  BY <1>1 DEF TypeInv, PC, DrainInv, transVars
<1>. QED
  BY <1>2, <1>3, <1>4, <1>5, <1>6 DEF IInv

\* A command leaves the banks in order.
LEMMA IssueKeepsBanks ==
  ASSUME IInv, config' = config, UNCHANGED refreshVars, NEW cmd, Ready(cmd),
         cmd.type = "ACTIVATE" => LiveInv, UpdateTimingAndStates(cmd)
  PROVE  BankInv' /\ (LiveInv /\ cmd.type # "ACTIVATE" => LiveInv')
<1>. USE IInvShape
<1>1. BankType' /\ RefreshInv' /\ WindowInv'
  BY CommandKeepsBankType, CommandKeepsRefreshInv, CommandKeepsWindowInv
<1>2. LiveInv /\ cmd.type # "ACTIVATE" => LiveInv'
  BY DEF UpdateTimingAndStates, UpdateTiming, LiveInv, Ranks
<1>. QED
  BY <1>1, <1>2 DEF BankInv

\* A refresh, or a row that is closed for it.
LEMMA RefreshStep ==
  ASSUME IInv, FinishRefreshFirst
  PROVE  IInv'
<1>. USE IInvShape
<1>. DEFINE cmd == GetReadyRefresh(Head(refresh_q))
<1>1. /\ config' = config
      /\ UNCHANGED <<queues, queue_idx, refreshVars, added, unified_queue, read_queue,
                     write_buffer, write_draining, done>>
      /\ pc = "finish"
      /\ IF IsValid(cmd) THEN First(cmd)
         ELSE NothingIssued /\ pc' = "issue" /\ UNCHANGED issued
  BY DEF FinishRefreshFirst
<1>2. LiveInv /\ refresh_q # <<>>
  BY <1>1 DEF CycleInv
<1>3. CASE IsValid(cmd)
  <2>1. Ready(cmd)
    BY <1>2, <1>3, RefreshIsReady DEF Ready
  <2>2. cmd.type \in {"PRECHARGE", "REFRESH", "REFRESH_BANK"}
    <3>1. CASE cmd.type = "PRECHARGE"
      BY <3>1
    <3>2. CASE ReadyRefresh(cmd)
      <4>1. \A T : \A s \in Seq(T) : s # <<>> => Head(s) \in T
        OBVIOUS
      <4>2. Head(refresh_q) \in RefreshCommand
        BY <1>2, <4>1 DEF BankType
      <4>. QED
        BY <3>2, <4>2 DEF ReadyRefresh, RefreshCommand
    <3>. QED
      BY <1>2, <1>3, <3>1, <3>2, RefreshIsReady
  <2>. HIDE DEF cmd
  <2>3. ~IsReadWrite(cmd.type) /\ ~IsRead(cmd.type) /\ ~IsWrite(cmd.type)
        /\ cmd.type # "ACTIVATE"
    BY <2>2 DEF IsReadWrite, IsRead, IsWrite
  <2>4. /\ UpdateTimingAndStates(cmd) /\ UNCHANGED <<return_queue, pending_rd, pending_wr>>
        /\ issued' = FALSE /\ pc' \in {"second", "schedule"}
    BY <1>1, <1>3, <2>3 DEF First, IssueCommand
  <2>5. BankInv' /\ LiveInv'
    BY <1>1, <1>2, <2>1, <2>3, <2>4, IssueKeepsBanks
  <2>6. CycleInv'
    BY <2>4, <2>5 DEF CycleInv
  <2>7. Books'
    BY <1>1, <2>4, BooksUntouched DEF CommandInv
  <2>8. ReturnInv'
    BY <1>1, <2>4 DEF ReturnInv, Returning
  <2>9. TypeInv' /\ DrainInv'
    BY <1>1, <2>4 DEF TypeInv, PC, DrainInv
  <2>. QED
    BY <2>5, <2>6, <2>7, <2>8, <2>9 DEF IInv
<1>4. CASE ~IsValid(cmd)
  <2>. HIDE DEF cmd
  <2>1. /\ UNCHANGED <<channelVars, return_queue, pending_rd, pending_wr, issued>>
        /\ pc' = "issue"
    BY <1>1, <1>4 DEF NothingIssued
  <2>2. BankInv' /\ LiveInv'
    BY <1>1, <1>2, <2>1, BanksUntouched
  <2>3. CycleInv'
    BY <2>1, <2>2 DEF CycleInv
  <2>4. Books'
    BY <1>1, <2>1, BooksUntouched DEF CommandInv
  <2>5. ReturnInv'
    BY <1>1, <2>1 DEF ReturnInv, Returning
  <2>6. TypeInv' /\ DrainInv'
    BY <1>1, <2>1 DEF TypeInv, PC, DrainInv
  <2>. QED
    BY <2>2, <2>3, <2>4, <2>5, <2>6 DEF IInv
<1>. QED
  BY <1>3, <1>4

\* What queue i gives out because of its k-th command: that command, or what
\* its bank needs first.
GivenOut(i, k, cmd) ==
  /\ i \in 0..(num_queues - 1) /\ k \in 1..Len(queues[i])
  /\ \/ /\ cmd = queues[i][k] /\ ReadyColumn(cmd)
        /\ ~(IsWrite(cmd.type) /\ HasRWDependency(queues[i], k))
     \/ ReadyActivate(cmd)
     \/ cmd.type = "PRECHARGE"

\* The queue in turn gives out nothing else.
LEMMA QueueGivesOut ==
  ASSUME IInv, NEW cmd, cmd = FirstReady(NextQueue), IsValid(cmd)
  PROVE  \E k \in 1..Len(queues[NextQueue]) : GivenOut(NextQueue, k, cmd)
<1>. USE IInvShape
<1>. DEFINE i == NextQueue
<1>1. /\ i \in 0..(num_queues - 1)
      /\ \E k \in 1..Len(queues[i]) :
           /\ cmd = GetReadyCommand(queues[i][k])
           /\ ~(IsWrite(cmd.type) /\ HasRWDependency(queues[i], k))
  BY NextCommand
<1>. HIDE DEF i
<1>2. PICK k \in 1..Len(queues[i]) :
        /\ cmd = GetReadyCommand(queues[i][k])
        /\ ~(IsWrite(cmd.type) /\ HasRWDependency(queues[i], k))
  BY <1>1
<1>3. queues[i][k] \in ColumnCommand
  BY <1>1, <1>2, BooksTypes
<1>4. \/ cmd = queues[i][k] /\ ReadyColumn(cmd)
      \/ ReadyActivate(cmd)
      \/ cmd.type = "PRECHARGE"
  BY <1>2, <1>3, CommandIsReady
<1>5. GivenOut(i, k, cmd)
  BY <1>1, <1>2, <1>4 DEF GivenOut
<1>. QED
  BY <1>5 DEF i

\* It is ready, and is a column command only if it is the k-th one itself.
LEMMA GivenOutShape ==
  ASSUME NEW i, NEW k, NEW cmd, GivenOut(i, k, cmd)
  PROVE  /\ Ready(cmd)
         /\ IsReadWrite(cmd.type) => cmd = queues[i][k] /\ ReadyColumn(cmd)
         /\ ReadyColumn(cmd) => IsReadWrite(cmd.type) /\ cmd.type # "ACTIVATE"
<1>1. Ready(cmd)
  BY DEF GivenOut, Ready
<1>2. IsReadWrite(cmd.type) => cmd = queues[i][k] /\ ReadyColumn(cmd)
  BY DEF GivenOut, ReadyActivate, IsReadWrite, IsRead, IsWrite
<1>3. ReadyColumn(cmd) => IsReadWrite(cmd.type) /\ cmd.type # "ACTIVATE"
  BY DEF ReadyColumn, ColumnCommand, ColumnTypes, IsReadWrite, IsRead, IsWrite
<1>. QED
  BY <1>1, <1>2, <1>3

\* A command of a queue that is issued leaves the books in order.
LEMMA IssueKeepsBooks ==
  ASSUME IInv, config' = config, NEW i, NEW k, NEW cmd, GivenOut(i, k, cmd),
         GetCommandToIssue(i, cmd), IssueCommand(cmd),
         UNCHANGED <<added, unified_queue, read_queue, write_buffer, done>>
  PROVE  Books' /\ ReturnInv'
<1>. USE IInvShape
<1>1. ReturnInv'
  BY CommandKeepsReturns
<1>2. queue_idx' = i /\ EraseRWCommand(cmd) /\ i \in 0..(num_queues - 1)
      /\ k \in 1..Len(queues[i])
  BY DEF GetCommandToIssue, GivenOut
<1>3. CASE IsReadWrite(cmd.type)
  <2>1. cmd = queues[i][k]
    BY <1>3, GivenOutShape
  <2>2. queues' = [queues EXCEPT ![i] = RemoveAt(queues[i], k)]
    BY <1>2, <2>1, EraseTakesIt
  <2>3. TQ' = TQ
    BY DEF TQ
  <2>4. /\ pending_rd' = IF IsRead(cmd.type) THEN pending_rd \ WithAddr(pending_rd, cmd.addr)
                                             ELSE pending_rd
        /\ pending_wr' = IF IsWrite(cmd.type) THEN pending_wr \ WithAddr(pending_wr, cmd.addr)
                                              ELSE pending_wr
    BY DEF IssueCommand, ReadsDone
  <2>. QED
    BY <1>1, <1>2, <2>1, <2>2, <2>3, <2>4, TakeKeepsBooks
<1>4. CASE ~IsReadWrite(cmd.type)
  <2>1. UNCHANGED <<queues, pending_rd, pending_wr>>
    BY <1>2, <1>4 DEF EraseRWCommand, IssueCommand, IsReadWrite
  <2>. QED
    BY <1>1, <1>2, <2>1, BooksUntouched
<1>. QED
  BY <1>3, <1>4

\* The first command of a cycle.
LEMMA FirstStep ==
  ASSUME IInv, IssueFirst
  PROVE  IInv'
<1>. USE IInvShape
<1>. DEFINE i == NextQueue
            cmd == FirstReady(i)
<1>1. /\ config' = config
      /\ UNCHANGED <<refreshVars, added, unified_queue, read_queue, write_buffer,
                     write_draining, done>>
      /\ pc = "issue" /\ GetCommandToIssue(i, cmd)
      /\ IF IsValid(cmd) THEN First(cmd)
         ELSE NothingIssued /\ pc' = "schedule" /\ UNCHANGED issued
  BY DEF IssueFirst
<1>2. LiveInv
  BY <1>1 DEF CycleInv
<1>3. i \in 0..(num_queues - 1)
  BY NextCommand
<1>4. CASE IsValid(cmd)
  <2>1. PICK k \in 1..Len(queues[i]) : GivenOut(i, k, cmd)
    BY <1>4, QueueGivesOut
  <2>. HIDE DEF cmd, i
  <2>2. /\ IssueCommand(cmd) /\ UpdateTimingAndStates(cmd)
        /\ issued' = (config.enable_hbm_dual_cmd /\ IsReadWrite(cmd.type))
        /\ pc' = IF config.enable_hbm_dual_cmd THEN "second" ELSE "schedule"
    BY <1>1, <1>4 DEF First, IssueCommand
  <2>3. /\ Ready(cmd)
        /\ IsReadWrite(cmd.type) => ReadyColumn(cmd) /\ cmd.type # "ACTIVATE"
    BY <2>1, GivenOutShape
  <2>4. BankInv' /\ (cmd.type # "ACTIVATE" => LiveInv')
    BY <1>1, <1>2, <2>2, <2>3, IssueKeepsBanks
  <2>5. issued' => BurstInv' /\ LiveInv'
    <3>1. ReadyColumn(cmd) => BurstInv'
      BY <1>1, <2>2, ColumnMakesBurstInv
    <3>. QED
      BY <2>2, <2>3, <2>4, <3>1
  <2>6. CycleInv'
    BY <2>2, <2>5 DEF CycleInv
  <2>7. Books' /\ ReturnInv'
    BY <1>1, <2>1, <2>2, IssueKeepsBooks
  <2>8. TypeInv'
    <3>1. issued' \in BOOLEAN
      BY <2>2
    <3>. QED
      BY <1>1, <2>2, <3>1 DEF TypeInv, PC
  <2>9. DrainInv'
    BY <1>1 DEF DrainInv
  <2>. QED
    BY <2>4, <2>6, <2>7, <2>8, <2>9 DEF IInv
<1>5. CASE ~IsValid(cmd)
  <2>0. ~IsReadWrite(cmd.type)
    BY <1>5 DEF IsValid, IsReadWrite, IsRead, IsWrite
  <2>. HIDE DEF cmd, i
  <2>1. /\ UNCHANGED <<channelVars, queues, return_queue, pending_rd, pending_wr, issued>>
        /\ pc' = "schedule" /\ queue_idx' = i
    BY <1>1, <1>5, <2>0 DEF NothingIssued, GetCommandToIssue, EraseRWCommand
  <2>2. BankInv'
    BY <1>1, <2>1, BanksUntouched
  <2>3. CycleInv'
    BY <2>1 DEF CycleInv
  <2>4. Books'
    BY <1>1, <1>3, <2>1, BooksUntouched
  <2>5. ReturnInv'
    BY <1>1, <2>1 DEF ReturnInv, Returning
  <2>6. TypeInv' /\ DrainInv'
    BY <1>1, <2>1 DEF TypeInv, PC, DrainInv
  <2>. QED
    BY <2>2, <2>3, <2>4, <2>5, <2>6 DEF IInv
<1>. QED
  BY <1>4, <1>5

\* The second: after a column command no other column command is ready, so that
\* none leaves its queue without being issued.
LEMMA SecondStep ==
  ASSUME IInv, IssueSecond
  PROVE  IInv'
<1>. USE IInvShape
<1>. DEFINE i == NextQueue
            cmd == FirstReady(i)
            issues == IsValid(cmd) /\ IsReadWrite(cmd.type) # issued
<1>1. /\ config' = config
      /\ UNCHANGED <<refreshVars, added, unified_queue, read_queue, write_buffer,
                     write_draining, done>>
      /\ pc = "second" /\ GetCommandToIssue(i, cmd)
      /\ IF issues THEN IssueCommand(cmd) ELSE NothingIssued
      /\ pc' = "schedule" /\ issued' = FALSE
  BY DEF IssueSecond
<1>2. issued => LiveInv /\ BurstInv
  BY <1>1 DEF CycleInv
<1>3. i \in 0..(num_queues - 1)
  BY NextCommand
<1>4. CycleInv'
  BY <1>1 DEF CycleInv
<1>5. TypeInv' /\ DrainInv'
  BY <1>1 DEF TypeInv, PC, DrainInv
<1>6. CASE issues
  <2>1. PICK k \in 1..Len(queues[i]) : GivenOut(i, k, cmd)
    BY <1>6, QueueGivesOut
  <2>. HIDE DEF cmd, i
  <2>2. IssueCommand(cmd) /\ UpdateTimingAndStates(cmd)
    BY <1>1, <1>6 DEF IssueCommand
  <2>3. Ready(cmd) /\ (IsReadWrite(cmd.type) => cmd.type # "ACTIVATE")
    BY <2>1, GivenOutShape
  <2>4. cmd.type = "ACTIVATE" => LiveInv
    <3>1. IsReadWrite(cmd.type) \in BOOLEAN /\ issued \in BOOLEAN
      BY DEF IsReadWrite
    <3>2. IsReadWrite(cmd.type) # issued
      BY <1>6
    <3>3. ~IsReadWrite(cmd.type) => issued
      BY <3>1, <3>2
    <3>. QED
      BY <1>2, <2>3, <3>3
  <2>5. BankInv'
    BY <1>1, <2>2, <2>3, <2>4, IssueKeepsBanks
  <2>6. Books' /\ ReturnInv'
    BY <1>1, <2>1, <2>2, IssueKeepsBooks
  <2>. QED
    BY <1>4, <1>5, <2>5, <2>6 DEF IInv
<1>7. CASE ~issues
  <2>1. ~IsReadWrite(cmd.type)
    <3>1. CASE ~IsValid(cmd)
      BY <3>1 DEF IsValid, IsReadWrite, IsRead, IsWrite
    <3>2. CASE IsValid(cmd)
      <4>1. PICK k \in 1..Len(queues[i]) : GivenOut(i, k, cmd)
        BY <3>2, QueueGivesOut
      <4>. SUFFICES ASSUME IsReadWrite(cmd.type) PROVE FALSE
        OBVIOUS
      <4>2. ReadyColumn(cmd)
        BY <4>1, GivenOutShape
      <4>3. issued
        BY <1>7, <3>2
      <4>. QED
        BY <1>2, <4>2, <4>3, NoSecondColumn
    <3>. QED
      BY <3>1, <3>2
  <2>. HIDE DEF cmd, i
  <2>2. /\ UNCHANGED <<channelVars, queues, return_queue, pending_rd, pending_wr>>
        /\ queue_idx' = i
    BY <1>1, <1>7, <2>1 DEF NothingIssued, GetCommandToIssue, EraseRWCommand
  <2>3. BankInv'
    BY <1>1, <2>2, BanksUntouched
  <2>4. Books'
    BY <1>1, <1>3, <2>2, BooksUntouched
  <2>5. ReturnInv'
    BY <1>1, <2>2 DEF ReturnInv, Returning
  <2>. QED
    BY <1>4, <1>5, <2>3, <2>4, <2>5 DEF IInv
<1>. QED
  BY <1>6, <1>7

\* The end of a cycle.
LEMMA CycleEnds ==
  ASSUME IInv, CycleOver, Books', DrainInv'
  PROVE  IInv'
<1>. USE IInvShape
<1>1. /\ config' = config /\ Elapse /\ pc' = "add"
      /\ UNCHANGED <<queue_idx, refreshVars, added, pending_rd, pending_wr, issued, done>>
      /\ return_queue' = [i \in DOMAIN return_queue |->
                            [return_queue[i] EXCEPT !.left = Less(@)]]
  BY DEF CycleOver
<1>2. BankInv' /\ LiveInv'
  BY <1>1, ElapseKeepsBanks
<1>3. CycleInv'
  BY <1>1, <1>2 DEF CycleInv
<1>4. ReturnInv'
  BY <1>1, ElapseKeepsReturns
<1>5. TypeInv'
  BY <1>1 DEF TypeInv, PC
<1>. QED
  BY <1>2, <1>3, <1>4, <1>5 DEF IInv

\* Nothing is scheduled.
LEMMA NoScheduleKeepsBooks ==
  ASSUME IInv, CycleOver, NoSchedule
  PROVE  Books'
<1>. USE IInvShape
<1>1. /\ config' = config
      /\ UNCHANGED <<queues, queue_idx, added, pending_rd, pending_wr, unified_queue,
                     read_queue, write_buffer>>
  BY DEF CycleOver, NoSchedule, NotQueued
<1>. QED
  BY <1>1, BooksUntouched DEF CommandInv

\* The first transaction of queue x becomes a command.
LEMMA ScheduleKeepsBooks ==
  ASSUME IInv, CycleOver, NEW x \in Places, TQ[x] # <<>>,
         \A y \in Places : TQ'[y] = IF y = x THEN Tail(TQ[y]) ELSE TQ[y],
         x = 3 => Pending(AddrOf(Head(TQ[x])), FALSE) = {},
         AddCommand(TransToCommand(Head(TQ[x])))
  PROVE  Books'
<1>. USE IInvShape
<1>1. config' = config /\ UNCHANGED <<added, pending_rd, pending_wr, queue_idx>>
  BY DEF CycleOver
<1>. QED
  BY <1>1, MoveKeepsBooks

\* Scheduling from the unified queue keeps the invariant.
LEMMA UnifiedStep ==
  ASSUME IInv, ScheduleUnified
  PROVE  IInv'
<1>. USE IInvShape
<1>1. CycleOver /\ config' = config /\ UNCHANGED write_draining /\ config.unified_queue
  BY DEF ScheduleUnified, CycleOver
<1>2. CASE unified_queue # <<>> /\ WillAcceptCommand(AddrOf(Head(unified_queue))[1])
  <2>1. /\ AddCommand(TransToCommand(Head(unified_queue)))
        /\ unified_queue' = Tail(unified_queue) /\ UNCHANGED <<read_queue, write_buffer>>
    BY <1>2 DEF ScheduleUnified
  <2>2. \A y \in Places : TQ'[y] = IF y = 1 THEN Tail(TQ[y]) ELSE TQ[y]
    BY <2>1, TQShape DEF Places
  <2>3. TQ[1] = unified_queue /\ 1 \in Places
    BY TQShape DEF Places
  <2>4. Books'
    <3>. DEFINE x == 1
    <3>1. /\ x \in Places /\ x # 3 /\ TQ[x] # <<>>
          /\ \A y \in Places : TQ'[y] = IF y = x THEN Tail(TQ[y]) ELSE TQ[y]
          /\ AddCommand(TransToCommand(Head(TQ[x])))
      BY <1>2, <2>1, <2>2, <2>3
    <3>. HIDE DEF x
    <3>. QED
      BY <1>1, <3>1, ScheduleKeepsBooks
  <2>5. DrainInv'
    BY <1>1, <2>1 DEF DrainInv
  <2>. QED
    BY <1>1, <2>4, <2>5, CycleEnds
<1>3. CASE NoSchedule
  <2>1. DrainInv'
    BY <1>1, <1>3 DEF DrainInv, NoSchedule, NotQueued
  <2>. QED
    BY <1>1, <1>3, <2>1, NoScheduleKeepsBooks, CycleEnds
<1>. QED
  BY <1>2, <1>3 DEF ScheduleUnified

\* Scheduling a read keeps the invariant.
LEMMA ReadStep ==
  ASSUME IInv, ScheduleRead
  PROVE  IInv'
<1>. USE IInvShape
<1>1. CycleOver /\ config' = config /\ UNCHANGED write_draining
  BY DEF ScheduleRead, CycleOver
<1>2. CASE read_queue # <<>> /\ WillAcceptCommand(AddrOf(Head(read_queue))[1])
  <2>1. /\ AddCommand(TransToCommand(Head(read_queue)))
        /\ read_queue' = Tail(read_queue) /\ UNCHANGED <<unified_queue, write_buffer>>
    BY <1>2 DEF ScheduleRead
  <2>2. \A y \in Places : TQ'[y] = IF y = 2 THEN Tail(TQ[y]) ELSE TQ[y]
    BY <2>1, TQShape DEF Places
  <2>3. TQ[2] = read_queue /\ 2 \in Places
    BY TQShape DEF Places
  <2>4. Books'
    <3>. DEFINE x == 2
    <3>1. /\ x \in Places /\ x # 3 /\ TQ[x] # <<>>
          /\ \A y \in Places : TQ'[y] = IF y = x THEN Tail(TQ[y]) ELSE TQ[y]
          /\ AddCommand(TransToCommand(Head(TQ[x])))
      BY <1>2, <2>1, <2>2, <2>3
    <3>. HIDE DEF x
    <3>. QED
      BY <1>1, <3>1, ScheduleKeepsBooks
  <2>5. DrainInv'
    BY <1>1, <2>1 DEF DrainInv
  <2>. QED
    BY <1>1, <2>4, <2>5, CycleEnds
<1>3. CASE NoSchedule
  <2>1. DrainInv'
    BY <1>1, <1>3 DEF DrainInv, NoSchedule, NotQueued
  <2>. QED
    BY <1>1, <1>3, <2>1, NoScheduleKeepsBooks, CycleEnds
<1>. QED
  BY <1>2, <1>3 DEF ScheduleRead

\* Draining a write keeps the invariant.
LEMMA WriteStep ==
  ASSUME IInv, ScheduleWrite
  PROVE  IInv'
<1>. USE IInvShape
<1>. DEFINE t == Head(write_buffer)
<1>1. /\ CycleOver /\ config' = config /\ Draining > 0
      /\ IF ~WillAcceptCommand(AddrOf(t)[1])
           THEN write_draining' = Draining /\ NoSchedule
         ELSE IF ReadFirst(t) THEN write_draining' = 0 /\ NoSchedule
         ELSE /\ write_draining' = Draining - 1
              /\ AddCommand(TransToCommand(t))
              /\ write_buffer' = Tail(write_buffer)
              /\ UNCHANGED <<unified_queue, read_queue>>
  BY DEF ScheduleWrite, CycleOver
<1>2. Len(write_buffer) \in Nat /\ Draining \in 1..Len(write_buffer) /\ ~config.unified_queue
  <2>1. write_draining \in 0..Len(write_buffer) /\ (write_draining > 0 => ~config.unified_queue)
    BY DEF DrainInv
  <2>2. Len(write_buffer) \in Nat
    OBVIOUS
  <2>3. Draining = write_draining \/ (Draining = Len(write_buffer) /\ ~config.unified_queue)
    BY DEF Draining
  <2>. QED
    BY <1>1, <2>1, <2>2, <2>3
<1>3. CASE NoSchedule /\ write_draining' \in 0..Len(write_buffer)
  <2>1. DrainInv'
    BY <1>1, <1>2, <1>3 DEF DrainInv, NoSchedule, NotQueued
  <2>. QED
    BY <1>1, <1>3, <2>1, NoScheduleKeepsBooks, CycleEnds
<1>4. CASE /\ ~ReadFirst(t) /\ write_draining' = Draining - 1
           /\ AddCommand(TransToCommand(t))
           /\ write_buffer' = Tail(write_buffer) /\ UNCHANGED <<unified_queue, read_queue>>
  <2>1. write_buffer # <<>> /\ Len(write_buffer') = Len(write_buffer) - 1
    BY <1>2, <1>4
  <2>2. \A y \in Places : TQ'[y] = IF y = 3 THEN Tail(TQ[y]) ELSE TQ[y]
    BY <1>4, TQShape DEF Places
  <2>3. TQ[3] = write_buffer /\ 3 \in Places
    BY TQShape DEF Places
  <2>4. Pending(AddrOf(t), FALSE) = {}
    BY <1>4 DEF Pending, ReadFirst
  <2>5. Books'
    BY <1>1, <1>4, <2>1, <2>2, <2>3, <2>4, ScheduleKeepsBooks
  <2>6. DrainInv'
    BY <1>1, <1>2, <1>4, <2>1 DEF DrainInv
  <2>. QED
    BY <1>1, <2>5, <2>6, CycleEnds
<1>. QED
  BY <1>1, <1>2, <1>3, <1>4

\* In the beginning all is empty and every bank is closed.
LEMMA InitKeepsIt ==
  ASSUME Init
  PROVE  IInv
<1>1. /\ config \in Configs /\ InitChannel
      /\ queues = [i \in 0..(num_queues - 1) |-> <<>>] /\ queue_idx = 0
      /\ next_ref = [rank |-> 0, bg |-> 0, bank |-> 0]
      /\ pc = "add" /\ issued = FALSE /\ added = 0 /\ done = {}
      /\ pending_rd = {} /\ pending_wr = {}
      /\ unified_queue = <<>> /\ read_queue = <<>> /\ write_buffer = <<>>
      /\ write_draining = 0 /\ return_queue = <<>>
  BY DEF Init, InitQueues
<1>2. TypeInv
  <2>1. Len(config.stream) \in Nat
    BY <1>1, StreamType
  <2>2. added \in 0..Len(config.stream)
    BY <1>1, <2>1
  <2>3. pc \in PC /\ issued \in BOOLEAN
    BY <1>1 DEF PC
  <2>. QED
    BY <1>1, <2>2, <2>3 DEF TypeInv
<1>3. BankInv /\ LiveInv
  <2>1. /\ open_row = [b \in Banks |-> None] /\ cmd_timing = [b \in Banks |-> NoDelay]
        /\ four_aw = [r \in Ranks |-> <<>>] /\ window = [r \in Ranks |-> <<>>]
        /\ refreshing = [b \in Banks |-> 0] /\ refresh_q = <<>>
    BY <1>1 DEF InitChannel
  <2>2. NoDelay \in [Timed -> Nat] /\ None \in Int
    BY DEF NoDelay, None
  <2>3. BankType
    BY <1>1, <2>1, <2>2 DEF BankType
  <2>4. RefreshInv
    BY <2>1, <2>2 DEF RefreshInv, Timed, NoDelay
  <2>5. config.tFAW \in Nat
    BY <1>1, ParamsAreNat
  <2>6. WindowInv /\ LiveInv
    BY <2>1, <2>5 DEF WindowInv, Tracks, LiveInv
  <2>. QED
    BY <2>3, <2>4, <2>6 DEF BankInv
<1>4. CycleInv
  BY <1>1, <1>3 DEF CycleInv
<1>5. TQ = <<<<>>, <<>>, <<>>>> /\ \A x \in Places : TQ[x] = <<>>
  BY <1>1 DEF TQ, Places
<1>6. WaitInv
  <2>. SUFFICES ASSUME NEW x \in Places
                PROVE  /\ TQ[x] \in Seq(1..added)
                       /\ \A i \in 1..Len(TQ[x]) : QueueOf(TQ[x][i]) = x
                       /\ \A i, j \in 1..Len(TQ[x]) :
                            /\ AddrOf(TQ[x][i]) = AddrOf(TQ[x][j])
                            /\ is_write(TQ[x][i]) = is_write(TQ[x][j])
                            => i = j
    BY DEF WaitInv
  <2>1. TQ[x] = <<>> /\ Len(TQ[x]) = 0
    BY <1>5
  <2>2. TQ[x] \in Seq(1..added)
    BY <2>1
  <2>. QED
    BY <2>1, <2>2
<1>7. num_queues \in Nat \ {0}
  <2>1. banks \in Nat \ {0} /\ config.ranks \in Nat \ {0}
    BY <1>1, TimingAssumption DEF banks
  <2>2. config.ranks * banks \in Nat \ {0}
    BY <2>1
  <2>. QED
    BY <2>1, <2>2 DEF num_queues
<1>8. CommandInv
  BY <1>1, <1>7 DEF CommandInv
<1>9. PendingInv
  BY <1>1 DEF PendingInv
<1>10. \A a, w : Pending(a, w) = {} /\ ~Waits(a, w) /\ ~Commanded(a, w)
  BY <1>1, <1>5 DEF Pending, WithAddr, Waits, Commanded
<1>11. CarriedInv /\ OrderInv
  BY <1>10 DEF CarriedInv, OrderInv
<1>12. ReturnInv
  BY <1>1 DEF ReturnInv, Returning
<1>13. DrainInv
  BY <1>1 DEF DrainInv
<1>. QED
  BY <1>2, <1>3, <1>4, <1>6, <1>8, <1>9, <1>11, <1>12, <1>13 DEF IInv, Books

\* Nothing happens.
LEMMA StutterStep ==
  ASSUME IInv, UNCHANGED vars
  PROVE  IInv'
<1>. USE IInvShape
<1>1. /\ config' = config /\ UNCHANGED <<channelVars, refreshVars, queues, queue_idx, pc, added,
                                        pending_rd, pending_wr, unified_queue, read_queue,
                                        write_buffer, write_draining, return_queue, issued,
                                        done>>
  BY DEF vars, queueVars, transVars
<1>2. BankInv' /\ (LiveInv => LiveInv') /\ (BurstInv => BurstInv')
  BY <1>1, BanksUntouched
<1>3. CycleInv'
  BY <1>1, <1>2 DEF CycleInv, channelVars
<1>4. Books'
  BY <1>1, BooksUntouched DEF CommandInv
<1>5. TypeInv' /\ DrainInv' /\ ReturnInv'
  BY <1>1 DEF TypeInv, DrainInv, ReturnInv, Returning
<1>. QED
  BY <1>2, <1>3, <1>4, <1>5 DEF IInv

\* The state of a channel is what its handlers expect: the banks, the queues
\* and the books of what is pending agree, in every state of every run.
THEOREM Invariance == SafeSpec => []IInv
<1>1. Init => IInv
  BY InitKeepsIt
<1>2. IInv /\ [Next]_vars => IInv'
  <2>. SUFFICES ASSUME IInv, [Next]_vars PROVE IInv'
    OBVIOUS
  <2>1. CASE AddTransaction
    BY <2>1, AddStep
  <2>2. CASE ReturnDoneTrans
    BY <2>2, ReturnStep
  <2>3. CASE BeginCycle
    BY <2>3, BeginStep
  <2>4. CASE FinishRefreshFirst
    BY <2>4, RefreshStep
  <2>5. CASE IssueFirst
    BY <2>5, FirstStep
  <2>6. CASE IssueSecond
    BY <2>6, SecondStep
  <2>7. CASE ScheduleTransaction
    BY <2>7, UnifiedStep, ReadStep, WriteStep DEF ScheduleTransaction
  <2>8. CASE UNCHANGED vars
    BY <2>8, StutterStep
  <2>. QED
    BY <2>1, <2>2, <2>3, <2>4, <2>5, <2>6, <2>7, <2>8 DEF Next, ClockTick
<1>. QED
  BY <1>1, <1>2, PTL DEF SafeSpec

-----------------------------------------------------------------------------
(* What follows.                                                           *)

\* No rank has more than four activations in any tFAW cycles, whatever the
\* number of banks, the queues and the policy: the list the code keeps of the
\* last four is enough to know (UpdateActivationTimes, channel_state.cc:282).
THEOREM FourActivations == SafeSpec => []ActivationWindow
<1>1. IInv => ActivationWindow
  <2>. SUFFICES ASSUME IInv, NEW r \in Ranks PROVE Len(window[r]) <= 4
    BY DEF ActivationWindow
  <2>1. /\ Tracks(window[r], four_aw[r], config.tFAW)
        /\ window[r] \in Seq(Nat) /\ four_aw[r] \in Seq(Nat)
    BY IInvShape DEF WindowInv, BankType
  <2>2. Len(window[r]) \in Nat /\ Len(four_aw[r]) \in Nat
    BY <2>1
  <2>. QED
    BY <2>1, <2>2 DEF Tracks
<1>. QED
  BY <1>1, Invariance, PTL

\* The queues held back are those of the first refresh that waits.
HeldInv ==
  ref_q_indices # {} =>
    refresh_q # <<>> /\ ref_q_indices = GetRefQIndices(Head(refresh_q))

\* Only a refresh that is issued leaves its queue; it ends the holding back.
LEMMA HeldTillIssued ==
  ASSUME IInv, HeldInv, FinishRefreshFirst
  PROVE  HeldInv'
<1>. USE IInvShape
<1>. DEFINE cmd == GetReadyRefresh(Head(refresh_q))
<1>1. /\ refresh_q # <<>>
      /\ FinishRefresh(cmd) /\ config' = config
      /\ IF IsValid(cmd) THEN IssueCommand(cmd) ELSE NothingIssued
  BY DEF FinishRefreshFirst, First, CycleInv
<1>. HIDE DEF cmd
<1>2. CASE IsRefresh(cmd.type)
  BY <1>1, <1>2 DEF FinishRefresh, HeldInv
<1>3. CASE ~IsRefresh(cmd.type)
  <2>1. refresh_q' = refresh_q
    BY <1>1, <1>3 DEF IssueCommand, UpdateTimingAndStates, UpdateState, StillDue,
                      NothingIssued, channelVars, bankVars
  <2>2. ref_q_indices' = GetRefQIndices(Head(refresh_q))
    BY <1>1, <1>3 DEF FinishRefresh, HeldInv
  <2>3. GetRefQIndices(Head(refresh_q))' = GetRefQIndices(Head(refresh_q))
    BY <1>1, <2>1 DEF GetRefQIndices, GetQueueIndex, PerBank, BanksOf, Banks, RankOf, banks
  <2>. QED
    BY <1>1, <2>1, <2>2, <2>3 DEF HeldInv
<1>. QED
  BY <1>2, <1>3

\* Nor do the cycle's own commands, and the rest of a cycle adds refreshes at
\* the end of their queue only.
LEMMA HeldStep ==
  ASSUME IInv, HeldInv, [Next]_vars
  PROVE  HeldInv'
<1>. USE IInvShape
<1>0. refresh_q \in Seq(RefreshCommand)
  BY DEF BankType
<1>1. ASSUME config' = config, ref_q_indices' = ref_q_indices,
             refresh_q # <<>> => refresh_q' # <<>> /\ Head(refresh_q') = Head(refresh_q)
      PROVE  HeldInv'
  <2>1. refresh_q # <<>> =>
          GetRefQIndices(Head(refresh_q))' = GetRefQIndices(Head(refresh_q))
    BY <1>1 DEF GetRefQIndices, GetQueueIndex, PerBank, BanksOf, Banks, RankOf, banks
  <2>. QED
    BY <1>1, <2>1 DEF HeldInv
<1>2. CASE FinishRefreshFirst
  BY <1>2, HeldTillIssued
<1>3. CASE BeginCycle
  <2>1. config' = config /\ ref_q_indices' = ref_q_indices
    BY <1>3 DEF BeginCycle, queueVars
  <2>2. refresh_q' = refresh_q \/ \E x : refresh_q' = Append(refresh_q, x)
    BY <1>3 DEF BeginCycle, RefreshClockTick, InsertRefresh
  <2>3. \A S, x : \A q \in Seq(S) : q # <<>> =>
          Append(q, x) # <<>> /\ Head(Append(q, x)) = Head(q)
    OBVIOUS
  <2>. QED
    BY <1>0, <1>1, <2>1, <2>2, <2>3
<1>4. CASE IssueFirst \/ IssueSecond
  <2>. DEFINE cmd == FirstReady(NextQueue)
  <2>1. /\ config' = config /\ ref_q_indices' = ref_q_indices
        /\ (IsValid(cmd) /\ IssueCommand(cmd)) \/ NothingIssued
    BY <1>4 DEF IssueFirst, IssueSecond, First
  <2>2. CASE IsValid(cmd) /\ IssueCommand(cmd)
    <3>1. \E k \in 1..Len(queues[NextQueue]) : GivenOut(NextQueue, k, cmd)
      BY <2>2, QueueGivesOut
    <3>2. ~IsRefresh(cmd.type)
      <4>. HIDE DEF cmd
      <4>. QED
        BY <3>1 DEF GivenOut, ReadyColumn, ReadyActivate, ColumnCommand, ColumnTypes,
                    IsRefresh
    <3>3. refresh_q' = refresh_q
      BY <2>2, <3>2 DEF IssueCommand, UpdateTimingAndStates, UpdateState, StillDue
    <3>. QED
      BY <1>1, <2>1, <3>3
  <2>3. CASE NothingIssued
    <3>1. refresh_q' = refresh_q
      BY <2>3 DEF NothingIssued, channelVars, bankVars
    <3>. QED
      BY <1>1, <2>1, <3>1
  <2>. QED
    BY <2>1, <2>2, <2>3
<1>5. CASE AddTransaction \/ ReturnDoneTrans \/ ScheduleTransaction \/ UNCHANGED vars
  <2>1. UNCHANGED <<config, ref_q_indices, refresh_q>>
    BY <1>5 DEF AddTransaction, ReturnDoneTrans, ScheduleTransaction, ScheduleUnified,
                ScheduleRead, ScheduleWrite, CycleOver, Elapse, vars, channelVars,
                bankVars, queueVars
  <2>. QED
    BY <1>1, <2>1
<1>. QED
  BY <1>2, <1>3, <1>4, <1>5 DEF Next, ClockTick

\* A command that opens a row comes from a queue that is not held back.
AwaitedStep == \A b \in Banks : Awaited(b) /\ ~IsRowOpen(b) => ~IsRowOpen(b)'

\* Whatever opens a row, no step does so to a bank that waits for its refresh.
LEMMA NoneOpened ==
  ASSUME IInv, HeldInv, [Next]_vars
  PROVE  [AwaitedStep]_vars
<1>. USE IInvShape
<1>1. ASSUME NEW cmd, UpdateState(cmd), NEW b \in Banks, ~IsRowOpen(b),
             cmd.type = "ACTIVATE" => cmd.bank # b
      PROVE  ~IsRowOpen(b)'
  BY <1>1 DEF UpdateState, IsRowOpen, BankType, Closes
<1>2. CASE UNCHANGED open_row
  BY <1>2 DEF AwaitedStep, IsRowOpen
<1>3. CASE FinishRefreshFirst
  <2>. DEFINE cmd == GetReadyRefresh(Head(refresh_q))
  <2>1. IF IsValid(cmd) THEN IssueCommand(cmd) ELSE NothingIssued
    BY <1>3 DEF FinishRefreshFirst, First
  <2>2. refresh_q # <<>> /\ refresh_q \in Seq(RefreshCommand)
    BY <1>3 DEF FinishRefreshFirst, CycleInv, BankType
  <2>3. IsValid(cmd) => cmd.type # "ACTIVATE"
    <3>1. \A T : \A s \in Seq(T) : s # <<>> => Head(s) \in T
      OBVIOUS
    <3>2. Head(refresh_q) \in RefreshCommand
      BY <2>2, <3>1
    <3>3. IsValid(cmd) => cmd.type = "PRECHARGE" \/ cmd = Head(refresh_q)
      BY <2>2, RefreshIsReady DEF ReadyRefresh
    <3>. HIDE DEF cmd
    <3>. QED
      BY <3>2, <3>3 DEF RefreshCommand
  <2>. HIDE DEF cmd
  <2>4. CASE IsValid(cmd)
    BY <1>1, <2>1, <2>3, <2>4 DEF IssueCommand, UpdateTimingAndStates, AwaitedStep
  <2>5. CASE ~IsValid(cmd)
    BY <1>2, <2>1, <2>5 DEF NothingIssued, channelVars, bankVars
  <2>. QED
    BY <2>4, <2>5
<1>4. CASE IssueFirst \/ IssueSecond
  <2>. DEFINE cmd == FirstReady(NextQueue)
              i == NextQueue
  <2>1. (IsValid(cmd) /\ IssueCommand(cmd)) \/ NothingIssued
    BY <1>4 DEF IssueFirst, IssueSecond, First
  <2>2. CASE IsValid(cmd) /\ IssueCommand(cmd)
    <3>1. /\ i \in 0..(num_queues - 1) /\ i \notin ref_q_indices
          /\ \E k \in 1..Len(queues[i]) : cmd = GetReadyCommand(queues[i][k])
      BY <2>2, NextCommand
    <3>. HIDE DEF cmd, i
    <3>2. PICK k \in 1..Len(queues[i]) : cmd = GetReadyCommand(queues[i][k])
      BY <3>1
    <3>3. cmd.bank = queues[i][k].bank /\ GetQueueIndex(cmd.bank) = i
      <4>1. queues[i][k] \in ColumnCommand /\ GetQueueIndex(queues[i][k].bank) = i
        BY <3>1, BooksTypes DEF CommandInv
      <4>2. cmd.type # "NONE"
        BY <2>2 DEF IsValid
      <4>3. NoCommand.type = "NONE"
        BY DEF NoCommand, Command
      <4>4. cmd = [queues[i][k] EXCEPT !.type = RequiredType(queues[i][k])]
        BY <3>2, <4>2, <4>3 DEF GetReadyCommand
      <4>. QED
        BY <4>1, <4>4 DEF ColumnCommand
    <3>4. ASSUME NEW b \in Banks, Awaited(b) PROVE cmd.bank # b
      BY <3>1, <3>3, <3>4 DEF Awaited, HeldInv, GetRefQIndices
    <3>. QED
      BY <1>1, <2>2, <3>4 DEF IssueCommand, UpdateTimingAndStates, AwaitedStep
  <2>3. CASE NothingIssued
    BY <1>2, <2>3 DEF NothingIssued, channelVars, bankVars
  <2>. QED
    BY <2>1, <2>2, <2>3
<1>5. CASE AddTransaction \/ ReturnDoneTrans \/ BeginCycle \/ ScheduleTransaction
  <2>1. UNCHANGED open_row
    BY <1>5 DEF AddTransaction, ReturnDoneTrans, BeginCycle, ScheduleTransaction,
                ScheduleUnified, ScheduleRead, ScheduleWrite, CycleOver, Elapse,
                channelVars, bankVars
  <2>. QED
    BY <1>2, <2>1
<1>. QED
  BY <1>3, <1>4, <1>5 DEF Next, ClockTick

\* From the cycle in which a refresh is taken in hand until it is over no row of
\* its banks is opened, whatever the queues ask for meanwhile.
THEOREM RefreshesUndisturbed == SafeSpec => RefreshUndisturbed
<1>1. IInv => RanksUndisturbed
  <2>. SUFFICES ASSUME IInv, RanksOnly, NEW b \in Banks, refreshing[b] > 0
                PROVE  ~IsRowOpen(b)
    BY DEF RanksUndisturbed, AnyRefreshUndisturbed, RanksOnly
  <2>. QED
    BY IInvShape DEF RefreshInv, IsRowOpen
<1>2. Init => HeldInv
  BY DEF Init, InitQueues, HeldInv
<1>3. IInv /\ HeldInv /\ [Next]_vars => HeldInv'
  BY HeldStep
<1>4. IInv /\ HeldInv /\ [Next]_vars => [AwaitedStep]_vars
  BY NoneOpened
<1>. QED
  BY <1>1, <1>2, <1>3, <1>4, Invariance, PTL
     DEF SafeSpec, RefreshUndisturbed, AwaitedStep

\* A set of no two elements.
LEMMA OneOrNone ==
  ASSUME NEW S, \A x, y \in S : x = y
  PROVE  Cardinality(S) = IF S = {} THEN 0 ELSE 1
<1>1. CASE S = {}
  BY <1>1, FS_EmptySet
<1>2. CASE S # {}
  <2>1. PICK x \in S : TRUE
    BY <1>2
  <2>2. S = {x}
    BY <2>1
  <2>. QED
    BY <1>2, <2>2, FS_Singleton
<1>. QED
  BY <1>1, <1>2

\* The answers on their way: one for each transaction that is neither pending
\* nor done.
LEMMA OneAnswer ==
  ASSUME IInv
  PROVE  AnsweredOnce
<1>. SUFFICES ASSUME NEW t \in 1..added
              PROVE  LET left == {i \in DOMAIN return_queue : return_queue[i].trans = t}
                     IN  /\ t \in pending_rd \cup done => left = {}
                         /\ t \notin pending_rd \cup done => Cardinality(left) = 1
                         /\ t \notin pending_rd \cap done
  BY DEF AnsweredOnce
<1>. DEFINE left == {i \in DOMAIN return_queue : return_queue[i].trans = t}
<1>1. /\ return_queue \in Seq([trans : 1..added, left : Nat])
      /\ \A i, j \in 1..Len(return_queue) :
           return_queue[i].trans = return_queue[j].trans => i = j
      /\ Returning(t) <=> t \notin pending_rd \cup done
      /\ pending_rd \cap done = {}
  BY IInvShape DEF ReturnInv
<1>2. DOMAIN return_queue = 1..Len(return_queue)
  BY <1>1
<1>3. left # {} <=> Returning(t)
  BY <1>2 DEF Returning
<1>4. \A i, j \in left : i = j
  BY <1>1, <1>2
<1>5. left # {} => Cardinality(left) = 1
  <2>. HIDE DEF left
  <2>. QED
    BY <1>4, OneOrNone
<1>. QED
  BY <1>1, <1>3, <1>5

\* All that waits, one queue after the other.
Before(x) == IF x = 1 THEN 0 ELSE IF x = 2 THEN Len(unified_queue)
             ELSE Len(unified_queue) + Len(read_queue)

\* Each place in Waiting is a place in one of the three queues, and each of those is one in
\* Waiting.
LEMMA WaitingShape ==
  ASSUME IInv
  PROVE  /\ \A i \in DOMAIN Waiting : \E x \in Places : \E k \in 1..Len(TQ[x]) :
              i = Before(x) + k /\ Waiting[i] = TQ[x][k]
         /\ \A x \in Places : \A k \in 1..Len(TQ[x]) :
              Before(x) + k \in DOMAIN Waiting /\ Waiting[Before(x) + k] = TQ[x][k]
<1>. DEFINE T == 1..added
            u == unified_queue
            r == read_queue
            w == write_buffer
            ur == u \o r
            all == ur \o w
            l == Len(u)
            m == Len(r)
            n == Len(w)
<1>1. u \in Seq(T) /\ r \in Seq(T) /\ w \in Seq(T)
  BY IInvShape
<1>2. /\ TQ[1] = u /\ TQ[2] = r /\ TQ[3] = w
      /\ Before(1) = 0 /\ Before(2) = l /\ Before(3) = l + m
  BY TQShape DEF Before
<1>3. Waiting = all
  BY DEF Waiting
<1>. HIDE DEF T, u, r, w
<1>4. l \in Nat /\ m \in Nat /\ n \in Nat
  BY <1>1
<1>5. ur \in Seq(T) /\ Joins(ur, u, l, r, m)
  BY <1>1, ConcatShape
<1>. HIDE DEF ur
<1>6. Len(ur) = l + m
  BY <1>5 DEF Joins
<1>7. all \in Seq(T) /\ Joins(all, ur, l + m, w, n)
  BY <1>1, <1>5, <1>6, ConcatShape
<1>. HIDE DEF all, l, m, n
<1>8. Len(all) = l + m + n /\ DOMAIN all = 1..(l + m + n)
  BY <1>7 DEF Joins
<1>9. \A k \in 1..l : k \in DOMAIN all /\ all[k] = u[k]
  <2>. SUFFICES ASSUME NEW k \in 1..l PROVE k \in DOMAIN all /\ all[k] = u[k]
    OBVIOUS
  <2>1. k \in 1..(l + m) /\ ur[k] = u[k]
    BY <1>5 DEF Joins
  <2>2. k \in 1..((l + m) + n) /\ all[k] = ur[k]
    BY <1>7, <2>1 DEF Joins
  <2>. QED
    BY <1>8, <2>1, <2>2
<1>10. \A k \in 1..m : l + k \in DOMAIN all /\ all[l + k] = r[k]
  <2>. SUFFICES ASSUME NEW k \in 1..m PROVE l + k \in DOMAIN all /\ all[l + k] = r[k]
    OBVIOUS
  <2>1. l + k \in 1..(l + m) /\ ur[l + k] = r[k]
    BY <1>5 DEF Joins
  <2>2. l + k \in 1..((l + m) + n) /\ all[l + k] = ur[l + k]
    BY <1>7, <2>1 DEF Joins
  <2>. QED
    BY <1>8, <2>1, <2>2
<1>11. \A k \in 1..n : (l + m) + k \in DOMAIN all /\ all[(l + m) + k] = w[k]
  BY <1>7, <1>8 DEF Joins
<1>12. \A i \in DOMAIN all : \/ i \in 1..l
                             \/ i - l \in 1..m /\ l + (i - l) = i
                             \/ i - (l + m) \in 1..n /\ (l + m) + (i - (l + m)) = i
  BY <1>4, <1>8
<1>13. Len(TQ[1]) = l /\ Len(TQ[2]) = m /\ Len(TQ[3]) = n
       /\ Before(1) = 0 /\ Before(2) = l /\ Before(3) = l + m
  BY <1>2 DEF l, m, n
<1>14. \A x \in Places : x = 1 \/ x = 2 \/ x = 3
  BY DEF Places
<1>15. 1 \in Places /\ 2 \in Places /\ 3 \in Places
  BY DEF Places
<1>16. ASSUME NEW i \in DOMAIN all
       PROVE  \E x \in Places : \E k \in 1..Len(TQ[x]) : i = Before(x) + k /\ all[i] = TQ[x][k]
  <2>1. CASE i \in 1..l
    <3>1. i \in 1..Len(TQ[1]) /\ i = Before(1) + i /\ all[i] = TQ[1][i]
      BY <1>2, <1>4, <1>9, <1>13, <2>1
    <3>. QED
      BY <1>15, <3>1
  <2>2. CASE i - l \in 1..m /\ l + (i - l) = i
    <3>1. i - l \in 1..Len(TQ[2]) /\ i = Before(2) + (i - l) /\ all[i] = TQ[2][i - l]
      BY <1>2, <1>10, <1>13, <2>2
    <3>. QED
      BY <1>15, <3>1
  <2>3. CASE i - (l + m) \in 1..n /\ (l + m) + (i - (l + m)) = i
    <3>1. /\ i - (l + m) \in 1..Len(TQ[3]) /\ i = Before(3) + (i - (l + m))
          /\ all[i] = TQ[3][i - (l + m)]
      BY <1>2, <1>11, <1>13, <2>3
    <3>. QED
      BY <1>15, <3>1
  <2>. QED
    BY <1>12, <2>1, <2>2, <2>3
<1>17. ASSUME NEW x \in Places, NEW k \in 1..Len(TQ[x])
       PROVE  Before(x) + k \in DOMAIN all /\ all[Before(x) + k] = TQ[x][k]
  <2>1. CASE x = 1
    <3>1. k \in 1..l /\ Before(x) + k = k
      BY <1>4, <1>13, <2>1
    <3>. QED
      BY <1>2, <1>9, <2>1, <3>1
  <2>2. CASE x = 2
    BY <1>2, <1>10, <1>13, <2>2
  <2>3. CASE x = 3
    BY <1>2, <1>11, <1>13, <2>3
  <2>. QED
    BY <1>14, <2>1, <2>2, <2>3
<1>. QED
  BY <1>3, <1>16, <1>17

\* One transaction waits for an address and a kind, or none.
LEMMA OneWaits ==
  ASSUME IInv, NEW a, NEW w
  PROVE  Cardinality(TransFor(a, w)) = IF Waits(a, w) THEN 1 ELSE 0
<1>. DEFINE S == TransFor(a, w)
<1>1. \A i \in S : \E x \in Places : \E k \in 1..Len(TQ[x]) :
        i = Before(x) + k /\ AddrOf(TQ[x][k]) = a /\ is_write(TQ[x][k]) = w
  BY WaitingShape DEF TransFor
<1>2. \A x \in Places : \A k \in 1..Len(TQ[x]) :
        AddrOf(TQ[x][k]) = a /\ is_write(TQ[x][k]) = w => Before(x) + k \in S
  BY WaitingShape DEF TransFor
<1>. HIDE DEF S
<1>3. S # {} <=> Waits(a, w)
  BY <1>1, <1>2 DEF Waits
<1>4. \A i, j \in S : i = j
  <2>. SUFFICES ASSUME NEW i \in S, NEW j \in S PROVE i = j
    OBVIOUS
  <2>1. PICK x \in Places : \E k \in 1..Len(TQ[x]) :
          i = Before(x) + k /\ AddrOf(TQ[x][k]) = a /\ is_write(TQ[x][k]) = w
    BY <1>1
  <2>2. PICK k \in 1..Len(TQ[x]) :
          i = Before(x) + k /\ AddrOf(TQ[x][k]) = a /\ is_write(TQ[x][k]) = w
    BY <2>1
  <2>3. PICK y \in Places : \E n \in 1..Len(TQ[y]) :
          j = Before(y) + n /\ AddrOf(TQ[y][n]) = a /\ is_write(TQ[y][n]) = w
    BY <1>1
  <2>4. PICK n \in 1..Len(TQ[y]) :
          j = Before(y) + n /\ AddrOf(TQ[y][n]) = a /\ is_write(TQ[y][n]) = w
    BY <2>3
  <2>5. WaitInv
    BY IInvShape
  <2>6. x = y
    <3>1. QueueOf(TQ[x][k]) = x /\ QueueOf(TQ[y][n]) = y
      BY <2>5 DEF WaitInv
    <3>. QED
      BY <2>2, <2>4, <3>1 DEF QueueOf
  <2>7. k = n
    BY <2>2, <2>4, <2>5, <2>6 DEF WaitInv
  <2>. QED
    BY <2>2, <2>4, <2>6, <2>7
<1>5. Cardinality(S) = IF S = {} THEN 0 ELSE 1
  BY <1>4, OneOrNone
<1>. QED
  BY <1>3, <1>5 DEF S

\* The same of commands.
LEMMA OneCommand ==
  ASSUME IInv, NEW a, NEW w
  PROVE  Cardinality(CommandsFor(a, w)) = IF Commanded(a, w) THEN 1 ELSE 0
<1>. DEFINE S == CommandsFor(a, w)
            Is(q, k) == queues[q][k].addr = a /\ IsWrite(queues[q][k].type) = w
<1>1. /\ DOMAIN queues = 0..(num_queues - 1)
      /\ \A q \in 0..(num_queues - 1) : DOMAIN queues[q] = 1..Len(queues[q])
  <2>1. queues \in [0..(num_queues - 1) -> Seq(ColumnCommand)]
    BY IInvShape DEF CommandInv
  <2>2. \A q \in 0..(num_queues - 1) : queues[q] \in Seq(ColumnCommand)
    BY <2>1
  <2>. QED
    BY <2>1, <2>2
<1>2. \A p : p \in S <=> \E q \in 0..(num_queues - 1) : \E k \in 1..Len(queues[q]) :
                           p = <<q, k>> /\ Is(q, k)
  <2>1. \A p : p \in S <=> \E q \in DOMAIN queues : \E k \in DOMAIN queues[q] :
                             p = <<q, k>> /\ Is(q, k)
    BY DEF CommandsFor
  <2>. HIDE DEF S, Is
  <2>. QED
    BY <1>1, <2>1
<1>. HIDE DEF S
<1>3. S # {} <=> Commanded(a, w)
  BY <1>2 DEF Commanded
<1>4. \A q, p \in 0..(num_queues - 1) : \A k \in 1..Len(queues[q]), n \in 1..Len(queues[p]) :
        Is(q, k) /\ Is(p, n) => q = p /\ k = n
  <2>. SUFFICES ASSUME NEW q \in 0..(num_queues - 1), NEW p \in 0..(num_queues - 1),
                       NEW k \in 1..Len(queues[q]), NEW n \in 1..Len(queues[p]),
                       Is(q, k), Is(p, n)
                PROVE  q = p /\ k = n
    OBVIOUS
  <2>1. CommandInv
    BY IInvShape
  <2>2. q = p
    BY <2>1 DEF CommandInv
  <2>. QED
    BY <2>1, <2>2 DEF CommandInv
<1>5. \A i, j \in S : i = j
  <2>. HIDE DEF Is
  <2>. QED
    BY <1>2, <1>4
<1>6. Cardinality(S) = IF S = {} THEN 0 ELSE 1
  BY <1>5, OneOrNone
<1>. QED
  BY <1>3, <1>6 DEF S

\* Whatever the queues, policies and timing: a transaction that is accepted is
\* in one place only until it is answered, and is answered once, so that
\* IssueCommand never finds nothing pending for a command
\* (controller.cc:242,256) and nothing pending is left without one.
THEOREM NothingLost == SafeSpec => []TransactionsAccounted
<1>1. IInv => QueuesAgree
  <2>. SUFFICES ASSUME IInv, NEW t \in Trans
                PROVE  LET pending == WithAddr(IF is_write(t) THEN pending_wr ELSE pending_rd,
                                               AddrOf(t))
                       IN  Cardinality(TransFor(AddrOf(t), is_write(t)))
                             + Cardinality(CommandsFor(AddrOf(t), is_write(t)))
                           = IF pending = {} THEN 0 ELSE 1
    BY DEF QueuesAgree
  <2>1. AddrOf(t) \in Address /\ is_write(t) \in BOOLEAN
    <3>1. config.stream \in Seq([addr : Address, is_write : BOOLEAN])
      BY IInvShape, StreamType
    <3>2. t \in 1..Len(config.stream)
      BY <3>1 DEF Trans
    <3>. QED
      BY <3>2, IInvShape, StreamType
  <2>. DEFINE a == AddrOf(t)
              w == is_write(t)
  <2>2. /\ Pending(a, w) # {} => Waits(a, w) \/ Commanded(a, w)
        /\ Waits(a, w) \/ Commanded(a, w) => Pending(a, w) # {}
        /\ ~(Waits(a, w) /\ Commanded(a, w))
    BY <2>1, IInvShape DEF Books, CarriedInv
  <2>3. /\ Cardinality(TransFor(a, w)) = IF Waits(a, w) THEN 1 ELSE 0
        /\ Cardinality(CommandsFor(a, w)) = IF Commanded(a, w) THEN 1 ELSE 0
    BY OneWaits, OneCommand
  <2>. HIDE DEF a, w
  <2>4. Cardinality(TransFor(a, w)) + Cardinality(CommandsFor(a, w))
          = IF Pending(a, w) = {} THEN 0 ELSE 1
    BY <2>2, <2>3
  <2>. QED
    BY <2>4 DEF a, w, Pending
<1>2. IInv => AnsweredOnce
  BY OneAnswer
<1>3. IInv => TransactionsAccounted
  BY <1>1, <1>2 DEF TransactionsAccounted
<1>. QED
  BY <1>3, Invariance, PTL

\* What SameAddressInOrder says of a step.
InOrderStep ==
  LET pending == pending_rd \cup pending_wr
  IN  \A t \in pending \ (pending_rd' \cup pending_wr') :
        \A u \in WithAddr(pending, AddrOf(t)) :
          is_write(u) # is_write(t) => u > t

\* A write whose address has reads pending is held back by a read before it in
\* its queue.
LEMMA WriteHeldBack ==
  ASSUME IInv, NEW i, NEW k, NEW cmd, GivenOut(i, k, cmd), IsWrite(cmd.type)
  PROVE  WithAddr(pending_rd, cmd.addr) = {}
<1>1. /\ i \in 0..(num_queues - 1) /\ k \in 1..Len(queues[i])
      /\ cmd = queues[i][k] /\ ~HasRWDependency(queues[i], k)
  BY GivenOutShape DEF GivenOut, IsReadWrite, ReadyActivate, IsWrite
<1>2. cmd.addr \in Address
  BY <1>1, IInvShape, BooksTypes
<1>. SUFFICES ASSUME Pending(cmd.addr, FALSE) # {} PROVE FALSE
  BY DEF Pending
<1>3. QueuesOrdered(cmd.addr)
  BY <1>2, IInvShape DEF Books, OrderInv
<1>4. \E j \in 1..(k - 1) : queues[i][j].addr = cmd.addr /\ IsRead(queues[i][j].type)
  BY <1>1, <1>3 DEF QueuesOrdered
<1>. QED
  BY <1>1, <1>4 DEF HasRWDependency

\* A command that is issued answers the older ones of its address only.
LEMMA IssueInOrder ==
  ASSUME IInv, NEW i, NEW k, NEW cmd, GivenOut(i, k, cmd), IssueCommand(cmd)
  PROVE  InOrderStep
<1>1. PendingInv
  BY IInvShape
<1>2. /\ pending_rd' = IF IsRead(cmd.type) THEN pending_rd \ WithAddr(pending_rd, cmd.addr)
                                           ELSE pending_rd
      /\ pending_wr' = IF IsWrite(cmd.type) THEN pending_wr \ WithAddr(pending_wr, cmd.addr)
                                            ELSE pending_wr
  BY DEF IssueCommand, ReadsDone
<1>. SUFFICES ASSUME NEW t \in (pending_rd \cup pending_wr) \ (pending_rd' \cup pending_wr'),
                     NEW u \in pending_rd \cup pending_wr, AddrOf(u) = AddrOf(t),
                     is_write(u) # is_write(t)
              PROVE  u > t
  BY DEF InOrderStep, WithAddr
<1>3. CASE t \in pending_rd
  <2>1. u \in pending_wr
    <3>. SUFFICES ASSUME u \in pending_rd PROVE FALSE
      OBVIOUS
    <3>1. t \in 1..Len(config.stream) /\ u \in 1..Len(config.stream)
      BY <1>3, IInvShape
    <3>2. is_write(t) \in BOOLEAN /\ is_write(u) \in BOOLEAN
      BY <3>1, IInvShape, StreamType
    <3>3. ~is_write(t) /\ ~is_write(u)
      BY <1>1, <1>3 DEF PendingInv
    <3>. QED
      BY <3>2, <3>3
  <2>2. t < u
    BY <1>1, <1>3, <2>1 DEF PendingInv
  <2>3. t \in Nat /\ u \in Nat
    BY <1>1, <1>3, <2>1, IInvShape DEF PendingInv
  <2>. QED
    BY <2>2, <2>3
<1>4. CASE t \in pending_wr
  <2>1. IsWrite(cmd.type) /\ AddrOf(t) = cmd.addr
    BY <1>2, <1>4 DEF WithAddr
  <2>2. WithAddr(pending_rd, cmd.addr) = {}
    BY <2>1, WriteHeldBack
  <2>3. u \in pending_rd
    BY <1>1, <1>4 DEF PendingInv
  <2>. QED
    BY <2>1, <2>2, <2>3 DEF WithAddr
<1>. QED
  BY <1>3, <1>4

\* Reads and writes of one address reach the banks in the order they came,
\* whether they wait in one queue or in two (controller.cc:178,211,
\* command_queue.cc:218).
THEOREM OrderKept == SafeSpec => SameAddressInOrder
<1>1. IInv /\ [Next]_vars => [InOrderStep]_vars
  <2>. SUFFICES ASSUME IInv, Next PROVE InOrderStep
    OBVIOUS
  <2>1. CASE pending_rd \subseteq pending_rd' /\ pending_wr \subseteq pending_wr'
    BY <2>1 DEF InOrderStep
  <2>2. CASE AddTransaction
    <3>1. pending_rd \subseteq pending_rd' /\ pending_wr \subseteq pending_wr'
      BY <2>2 DEF AddTransaction, AddWrite, AddRead
    <3>. QED
      BY <2>1, <3>1
  <2>3. CASE ReturnDoneTrans \/ BeginCycle \/ ScheduleTransaction
    <3>1. UNCHANGED <<pending_rd, pending_wr>>
      BY <2>3 DEF ReturnDoneTrans, BeginCycle, transVars, ScheduleTransaction,
                  ScheduleUnified, ScheduleRead, ScheduleWrite, CycleOver
    <3>. QED
      BY <2>1, <3>1
  <2>4. CASE FinishRefreshFirst
    <3>. DEFINE cmd == GetReadyRefresh(Head(refresh_q))
    <3>1. IF IsValid(cmd) THEN IssueCommand(cmd) ELSE NothingIssued
      BY <2>4 DEF FinishRefreshFirst, First
    <3>2. refresh_q # <<>> /\ refresh_q \in Seq(RefreshCommand)
      BY <2>4, IInvShape DEF FinishRefreshFirst, CycleInv, BankType
    <3>3. IsValid(cmd) => ~IsRead(cmd.type) /\ ~IsWrite(cmd.type)
      <4>1. \A T : \A s \in Seq(T) : s # <<>> => Head(s) \in T
        OBVIOUS
      <4>2. Head(refresh_q) \in RefreshCommand
        BY <3>2, <4>1
      <4>. SUFFICES ASSUME IsValid(cmd) PROVE ~IsRead(cmd.type) /\ ~IsWrite(cmd.type)
        OBVIOUS
      <4>3. cmd.type = "PRECHARGE" \/ cmd = Head(refresh_q)
        BY <3>2, RefreshIsReady DEF ReadyRefresh
      <4>. HIDE DEF cmd
      <4>. QED
        BY <4>2, <4>3 DEF RefreshCommand, IsRead, IsWrite
    <3>. HIDE DEF cmd
    <3>4. UNCHANGED <<pending_rd, pending_wr>>
      BY <3>1, <3>3 DEF IssueCommand, NothingIssued
    <3>. QED
      BY <2>1, <3>4
  <2>5. CASE IssueFirst \/ IssueSecond
    <3>. DEFINE cmd == FirstReady(NextQueue)
    <3>1. (IsValid(cmd) /\ IssueCommand(cmd)) \/ NothingIssued
      BY <2>5 DEF IssueFirst, IssueSecond, First
    <3>2. CASE IsValid(cmd) /\ IssueCommand(cmd)
      <4>1. \E k \in 1..Len(queues[NextQueue]) : GivenOut(NextQueue, k, cmd)
        BY <3>2, QueueGivesOut
      <4>. QED
        BY <3>2, <4>1, IssueInOrder
    <3>3. CASE NothingIssued
      <4>1. UNCHANGED <<pending_rd, pending_wr>>
        BY <3>3 DEF NothingIssued
      <4>. QED
        BY <2>1, <4>1
    <3>. QED
      BY <3>1, <3>2, <3>3
  <2>. QED
    BY <2>2, <2>3, <2>4, <2>5 DEF Next, ClockTick
<1>. QED
  BY <1>1, Invariance, PTL DEF SafeSpec, SameAddressInOrder, InOrderStep
=============================================================================
