--------------------------- MODULE MemoryContract ---------------------------
(***************************************************************************)
(* What the engines are promised of memory: an event they have handed to   *)
(* the coordinator comes back once, sometime; nothing else comes back; and *)
(* nothing is said of the order.  This is what "pending" stands for in     *)
(* Aggr and Comb; Coordinator, with the memories behind it, implements it. *)
(***************************************************************************)
CONSTANT Event

VARIABLES asked, returned   \* sets of events

vars == <<asked, returned>>

Init == asked = {} /\ returned = {}

Ask(e) ==
  /\ e \notin asked
  /\ asked' = asked \cup {e}
  /\ UNCHANGED returned

Return(e) ==
  /\ e \in asked \ returned
  /\ returned' = returned \cup {e}
  /\ UNCHANGED asked

Next == \E e \in Event : Ask(e) \/ Return(e)

SafeSpec == Init /\ [][Next]_vars
Spec == SafeSpec /\ \A e \in Event : WF_vars(Return(e))
=============================================================================
