---------------------------- MODULE ArrayContract ----------------------------
(***************************************************************************)
(* What the systolic array promises the combination engine: it takes one   *)
(* block at a time, and sooner or later it is done with it and waits for   *)
(* the engine to take the result; or it finds that the results do not fit  *)
(* its output buffer, on which the program exits.  SystolicArray keeps the *)
(* promise, Comb relies on it.                                             *)
(***************************************************************************)
VARIABLE state

Init == state = "IDLE"

\* The engine gives the array a block.
Start == state = "IDLE" /\ state' = "BUSY"

\* The array is done with it.
Finish == state = "BUSY" /\ state' = "DONE"

\* The result does not fit.
Overflow == state = "BUSY" /\ state' = "EXIT"

\* The engine takes the result.
Collect == state = "DONE" /\ state' = "IDLE"

Next == Start \/ Finish \/ Overflow \/ Collect

SafeSpec == Init /\ [][Next]_state

\* The array does not work on one block for ever.
Spec == SafeSpec /\ WF_state(Finish \/ Overflow)
=============================================================================
