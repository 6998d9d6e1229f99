--------------------------------- MODULE CPU ---------------------------------
(***************************************************************************)
(* The drivers of the DRAM simulator (cpu.cc): one reads a trace, one      *)
(* streams through arrays, one makes up addresses.  One step is one call   *)
(* of ClockTick; the memory's own tick, which comes first, decides whether *)
(* it accepts what it is offered.                                          *)
(***************************************************************************)
EXTENDS Integers, Sequences

CONSTANTS
  Traces,        \* trace files: sequences of lines [addr, is_write, added_cycle]
  MaxClk,        \* the times of the lines are not beyond it
  Elements,      \* elements to an array: array_size_ by stride_
  MaxBases       \* Bound: how often the arrays are chosen anew

\* A trace has a line at least (Cuts assumes it).
CPUAssumption ==
  /\ MaxClk \in Nat \ {0} /\ Elements \in Nat \ {0} /\ MaxBases \in Nat
  /\ \A lines \in Traces :
       /\ lines \in Seq([addr : Nat, is_write : BOOLEAN, added_cycle : 0..MaxClk])
       /\ lines # <<>>

VARIABLES
  cpu,             \* "trace", "stream" or "random"
  clk_,            \* up to MaxClk
  get_next_,
  fed,             \* what the memory was given, in order
  \* TraceBasedCPU
  lines, newline,  \* the file, and whether its last line is ended
  pos, eof, trans_,
  \* StreamCPU and RandomCPU
  base, offset_,   \* which arrays, or which address; the element
  inserted_

traceVars == <<lines, newline, pos, eof, trans_>>
streamVars == <<base, offset_, inserted_>>
vars == <<cpu, clk_, get_next_, fed, traceVars, streamVars>>

Init ==
  /\ clk_ = 0 /\ get_next_ = TRUE /\ fed = <<>>
  /\ \/ cpu = "trace" /\ lines \in Traces /\ newline \in BOOLEAN
     \/ /\ cpu \in {"stream", "random"}
        /\ lines = (CHOOSE file \in Traces : TRUE) /\ newline = TRUE
  /\ pos = 0 /\ eof = FALSE /\ trans_ = lines[1]
  /\ base = 0 /\ offset_ = 0 /\ inserted_ = {}

Later == clk_' = IF clk_ < MaxClk THEN clk_ + 1 ELSE clk_

-----------------------------------------------------------------------------
(* TraceBasedCPU.                                                          *)

\* After the last line the reading fails: the address and the time of the line
\* before stay as they are, and an operation that is not there is no write.
NextLine == IF pos < Len(lines) THEN lines[pos + 1]
                                ELSE [trans_ EXCEPT !.is_write = FALSE]

\* The end of the file is met with the last line if nothing comes after it.
AtEnd == pos = Len(lines) \/ (pos = Len(lines) - 1 /\ ~newline)

ReadLine ==
  IF get_next_
    THEN /\ trans_' = NextLine
         /\ pos' = IF pos < Len(lines) THEN pos + 1 ELSE pos
         /\ eof' = AtEnd
    ELSE UNCHANGED <<trans_, pos, eof>>

\* Mutant: the next line is read even if this one was refused.
Offer_Forget(accepts) ==
  IF trans_'.added_cycle <= clk_
    THEN /\ get_next_' = TRUE
         /\ fed' = IF accepts THEN Append(fed, trans_') ELSE fed
    ELSE get_next_' = FALSE /\ UNCHANGED fed

\* What was read is offered when its time has come.
Offer(accepts) ==
  IF trans_'.added_cycle <= clk_
    THEN /\ get_next_' = accepts
         /\ fed' = IF accepts THEN Append(fed, trans_') ELSE fed
    ELSE get_next_' = FALSE /\ UNCHANGED fed

TraceTick ==
  /\ cpu = "trace"
  /\ IF ~eof THEN ReadLine /\ \E accepts \in BOOLEAN : Offer(accepts)
             ELSE UNCHANGED <<get_next_, fed, trans_, pos, eof>>
  /\ Later
  /\ UNCHANGED <<cpu, lines, newline, streamVars>>

-----------------------------------------------------------------------------
(* StreamCPU reads a and b and writes c, element by element.               *)

Access(b, element, array) == [base |-> b, element |-> element, array |-> array]

\* What the memory is given of an element: a, b and c in this order, but for
\* what it refuses and what it has been given already.
Given(b, element, accepted) ==
  LET Offered(array) == IF array \in accepted THEN <<Access(b, element, array)>> ELSE <<>>
  IN  Offered("a") \o Offered("b") \o Offered("c")

\* Mutant: one of the flags is not cleared for the next element.
Cleared_KeepB == {"b"}

\* What is inserted of an element that is begun.
Cleared == {}

StreamTick ==
  /\ cpu = "stream"
  /\ LET anew == offset_ >= Elements \/ clk_ = 0
         b == IF anew THEN base + 1 ELSE base
         element == IF anew THEN 0 ELSE offset_
     IN  /\ b <= MaxBases
         /\ base' = b
         /\ \E accepted \in SUBSET ({"a", "b", "c"} \ inserted_) :
              /\ fed' = fed \o Given(b, element, accepted)
              /\ IF inserted_ \cup accepted = {"a", "b", "c"}
                   THEN offset_' = element + 1 /\ inserted_' = Cleared
                   ELSE offset_' = element /\ inserted_' = inserted_ \cup accepted
  /\ Later
  /\ UNCHANGED <<cpu, get_next_, traceVars>>

-----------------------------------------------------------------------------
\* RandomCPU: the same transaction is offered until it is accepted.
RandomTick ==
  /\ cpu = "random"
  /\ LET b == IF get_next_ THEN base + 1 ELSE base
     IN  /\ b <= MaxBases
         /\ base' = b
         /\ \E accepts \in BOOLEAN :
              /\ get_next_' = accepts
              /\ fed' = IF accepts THEN Append(fed, Access(b, 0, "a")) ELSE fed
  /\ Later
  /\ UNCHANGED <<cpu, traceVars, offset_, inserted_>>

Next == TraceTick \/ StreamTick \/ RandomTick

SafeSpec == Init /\ [][Next]_vars

-----------------------------------------------------------------------------
Last == lines[Len(lines)]

\* The memory is given the lines of the trace in their order, none before one
\* that was refused; what may go wrong at the end of the file (TraceFed) is
\* that the last line is left out, or given a second time as a read.
TraceInOrder ==
  cpu = "trace" =>
    /\ Len(fed) <= Len(lines) + 1
    /\ \A k \in 1..Len(fed) :
         fed[k] = IF k <= Len(lines) THEN lines[k] ELSE [Last EXCEPT !.is_write = FALSE]
    /\ eof => Len(fed) >= Len(lines) - 1

\* The trace-based CPU "consumes traces of workloads, feed the fetched
\* transactions into the memory system" (dramsim3/README.md:112): when nothing
\* is left to read the memory has been given the trace.  The code does not keep
\* it: the end of the file is tested before the last line has been accepted,
\* and the reading that fails is not looked at.
TraceFed == cpu = "trace" /\ eof => fed = lines

\* The elements follow one another and each has its three accesses before the
\* next begins, whatever was refused; and the random CPU skips no transaction.
NothingSkipped ==
  /\ cpu = "stream" =>
       \A j \in 1..(Len(fed) \div 3) :
         LET group == {fed[3 * j - 2], fed[3 * j - 1], fed[3 * j]}
         IN  group = {Access((j - 1) \div Elements + 1, (j - 1) % Elements, array) :
                        array \in {"a", "b", "c"}}
  /\ cpu = "random" => \A k \in 1..Len(fed) : fed[k].base = k
=============================================================================
