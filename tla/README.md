# HyGCN in TLA+

This directory specifies and verifies the cycle-level simulator of the HyGCN
accelerator in `src/`: an *aggregation engine* that sums neighbours' feature
vectors on SIMD cores, a *combination engine* that multiplies the sums with the
layer's weights on a systolic array, an *aggregation buffer* (a ring in eDRAM)
through which the first hands vertices to the second, a *coordinator* that
sends the engines' memory requests to a DRAM simulator (DRAMsim3) and to the
ring, and the DRAM simulator itself.

All C++ runs in one thread; what is concurrent is the hardware it simulates.
`HyGCN::ClockTick` gives every part a turn in a fixed order; each keeps its
state between turns; memory answers after any number of ticks, in any order.
The interleavings are those of parts that are each in the middle of something
when the others' turns come, and they are what a test of one graph and one
memory timing does not reach.

## 1. Inventory

| part | code | state | operations | talks to |
|---|---|---|---|---|
| aggregation buffer | `hygcn/hardware/aggr_buf.h` | four pointers (vertex count, ring address); a queue of at most two transactions | StartAggr, ConfirmAggr, StartComb, ConfirmComb, WillAllocate, GetAggrWriteAddr, ClockTick | both engines move its pointers; calls back HyGCN |
| aggregation engine | `hygcn/dataflow/aggr.cpp`, `hardware/simd.h`, `hardware/spm.*` | two edge buffers, two input buffers, SIMD cores, chunk counter, event counters | ClockTick, GenDataFlow, HandleReturnEvent, Partition | coordinator (events), ring |
| combination engine | `hygcn/dataflow/comb.cpp` | pairs of input, weight, output buffers and the indices of the active ones; chunk and slice counters; the batch's window | ClockTick, GenCombDataFlow, FetchFeatures, FetchWeights, WriteFeatures, BatchVertex, NextBatch, ProcessReturnedEvent | coordinator, ring, array |
| systolic array | `hygcn/hardware/systolic_arr.cpp` | automaton, countdown, tile counters, room taken in the output buffer | SetMatrix, ClockTick, GetResult | called by Comb |
| coordinator | `hygcn/hardware/coordinator.cpp`, `hygcn.cpp`, `hygcn.h`, `dataflow/event.*` | five queues, two multimaps from address to event, two return queues, per-event transaction counters | AddEvent, IssueEvent, MemCallback, BufCallback, HandleReturnEvent | engines, DRAM, ring |
| composition | `hygcn/hygcn.cpp`, `hygcn_test/test.cpp` | the parts | ClockTick, IsDone | all |
| address mapper, tile configuration | `hygcn/config.cpp` | computed once per layer | AddrMapper, TileConfig, PrepareNextLayer | constants of the engines |
| graph loader | `hygcn/graph.cpp`, `hygcn/graph.h` | adjacency lists both ways, a sampled graph and its file | LoadGraph, GetGcnNormGraph, GetGINGraph, GetSampleGraph, DumpSampleGraph, Reorder, ToUndirected, EdgeCompress | AddrMapper, Partition |
| DRAM controller | `dramsim3/src/controller.cc`, `dram_system.cc` | pending reads and writes, read queue, write buffer or one queue for both, return queue, draining flag | WillAcceptTransaction, AddTransaction, ClockTick, ReturnDoneTrans, ScheduleTransaction, IssueCommand | coordinator; command queue |
| DRAM command queue, refresh | `command_queue.cc`, `refresh.cc` | a queue per bank or rank, the turn, queues a refresh holds back, countdown to the next | GetCommandToIssue, FinishRefresh, AddCommand, ClockTick | channel state |
| DRAM banks and timing | `bankstate.cc`, `channel_state.cc`, `timing.cc` | open row, row hits, times to wait, last activations, refreshes due | GetReadyCommand, UpdateState, UpdateTiming, ActivationWindowOk | — |
| memory cube | `hmc.cc` | queues of links and quads, ages, a table of responses, two clocks | AddTransaction, ClockTick, DrainRequests, DrainResponses, DRAMCallback | controllers of the vaults |
| address mapping of the DRAM | `configuration.cc` | the position and mask of each field | CalculateSize, SetAddressMapping, AddressMapping | controller |
| drivers | `cpu.cc` | clock, the transaction at hand, offsets | ClockTick of three classes | DRAM |
| statistics, timers, reports, thermal model, `.ini` reading, vendored headers | | counters | | nobody that decides a step |

What makes each correct, and what is hard about it:

* **ring**: a slot is not reused before its vertex has been combined; the
  pointers never overtake each other; a vertex's address is the same whoever
  works it out, and whenever. Two engines move the pointers in the same tick.
* **aggregation engine**: every slice of every vertex is accumulated once for
  every part in which it has edges, into its own place; a chunk is published
  when all of it is done; the engine stops when all is done and not in a moment
  when its buffers happen to be idle. Buffers are given back by counters that
  are set in different loops.
* **combination engine**: answers are booked to the buffer they were asked for,
  although only the type of the event tells which; the block in the array keeps
  its buffers; every product block but the last is written before the batch ends (finding 2).
* **array**: every tile is fed once; results fit the output buffer.
* **coordinator**: every event comes back once, when all its transactions are
  confirmed; what is written to the ring is read afterwards; no request waits
  for ever. The callbacks know addresses only, and addresses are shared.
* **cutting and laying out**: chunks, parts, tiles and address fields cover what
  they divide, once, and fit where they go; divisions may leave nothing.
* **graph loader**: what one function writes another reads; a loop changes the
  lists it walks.
* **DRAM channel**: no transaction is lost, answered twice or overtaken by one to
  its address; once a refresh has been taken in hand none of its banks is opened
  until it is over; every transaction is answered sometime; no more activations in a window than allowed; all of it with two commands a cycle.
* **memory cube**: a port is read only when a packet waits there; each request
  leaves one response; short queues that wait for one another do not stop.

`PROJECT.json` lists the hazards one by one, each at its line.

## 2. Modules

| module | models | proofs |
|---|---|---|
| `AggrBuf` | the ring's pointer arithmetic, operators on one record | (in those of the engines) |
| `VertexPipeline` | **abstract**: what the two engines promise each other through the ring | `Comb_proofs` |
| `Comb` | the combination engine | `Comb_proofs` |
| `Aggr` (`MCAggr`) | the aggregation engine | `Aggr_proofs` |
| `HyGCN` (`MCHyGCN`) | both engines on one ring under the main loop | `HyGCN_proofs` |
| `ArrayContract` | **abstract**: what the array promises the combination engine | |
| `SystolicArray` (`MCSystolicArray`) | the array | `SystolicArray_proofs` |
| `MemoryContract` | **abstract**: what memory promises whoever asks it | |
| `Coordinator` (`MCCoordinator`) | the coordinator, events and the way back | `Coordinator_proofs` |
| `TileConfig`, `AddrMapper` | the cut of a layer to the buffers; the regions of results; the cut of the vertices into chunks | `Cuts_proofs` |
| `Partition` | the cut of a chunk's edges into parts | `Cuts_proofs` |
| `AddressMap` | the bits of an address | `Cuts_proofs` |
| `GraphLoader` | loading, sampling, reloading, page layout | `Cuts_proofs` |
| `CPU` | the three drivers | `Cuts_proofs` |
| `Cuts` (`MCCuts`) | the loops that go through data once: the six modules above, side by side | `Cuts_proofs` |
| `Timing`, `ChannelState`, `CommandQueue`, `Controller` (`MCController`) | a DRAM channel, each extending the one before | `Controller_proofs` |
| `HMC` (`MCHMC`) | the memory cube | `HMC_proofs` |

How they fit together:

```
                 HyGCN  =>  VertexPipeline
                /     \
            Aggr       Comb --- relies on --- ArrayContract <= SystolicArray
           /  |  \       |
  Partition   |  AddrMapper -- TileConfig
              |                                     
              +-- rely on --+---- MemoryContract <= Coordinator
                                       |
                       "the DRAM answers": Controller (JEDEC), HMC
```

`Aggr` and `Comb` contain the same record `aggr_buf`. Each is checked alone,
with exactly the steps of the other that `VertexPipeline` allows it, on
instances larger than the composition can have; `HyGCN` instantiates both,
unchanged, on one ring, with no environment but memory, and is shown to
implement `VertexPipeline` with its liveness. That each engine is what the other
one was checked and proved with is a theorem (`EachAsAssumed`). Each engine sees memory as
`MemoryContract` does: `pending` counts the events it has asked for, and any of
them may come back. `Comb` sees the array as `ArrayContract` does. `Coordinator`
and `SystolicArray` are shown to implement these. What `Aggr` assumes of its
chunks and parts is what `AddrMapper` and `Partition` are checked, and proved, to
deliver (`ChunksCover`, `PartsLossless`, `PartsFit`). `Coordinator` assumes of the DRAM
that it answers each transaction once, sometime, in any order; `Controller`
shows this of a channel (`TransactionsAccounted`, `Served`, under a condition),
`HMC` of the cube, with its vaults as controllers that do the same.

### State and steps

A clock tick reads and writes in a fixed order. The variable `pc` walks through
the parts of one tick, and one action is one branch of one part, so that guards
are the code's conditions and early returns. The steps of the environment happen
at the point of the tick where the code runs the others: answers at `return`
(`HandleReturnEvent` is called first), the array's countdown at `tick`, the
other engine where its `ClockTick` stands. Field names are the code's;
`event_cnt` is `event_cnt_`.

* `Comb`: `ReturnFeature/Weight/Output` are `ProcessReturnedEvent`; `GetResult`,
  `StartCompute`, `ArrayWaits` the switch on the array's state; `BatchVertex`,
  `Fetch`, `GetReadyForFetch`, `WriteRow`, `WriteDone`, `NextBatch` the
  functions of those names; `Finish` the end of `ClockTick`.
* `Aggr`: `SimdComputes`, `SimdWritesBack` are the loop over the cores;
  `FetchEdges`, `FetchPart`, `StartChunk`, `StartDraining`, `AssignTask`,
  `SkipVertex` the blocks of `GenDataFlow` in order; `Finish` the test for the
  end. `SPMA::SwitchState(IDLE)` resets fields as in the code, and does not
  reset the event counter. In the combination engine's turn (`CombTakes`,
  `CombReleases`, `CombEnds`) the environment may take a batch, give one back, or
  both, as `Comb`'s tick can.
* `HyGCN`: `AggrTick` and `CombTick` are steps of the engines inside their
  `ClockTick`, the answers those of `HandleReturnEvent` at the head of the tick.
* `SystolicArray`: one action per case of the switch; `Advance` the nested
  counters. A filling takes one tick because the code sets its countdown to 0.
  The last tile's computing is skipped, as in the code: `DONE` overwrites
  `FILLING`.
* `Coordinator`: `IssueDram(n)` is the DRAM half of `IssueEvent`, where the DRAM
  takes `n` transactions and refuses the next; `IssueEdram` is one turn of the
  eDRAM's loop; the callbacks take *any* entry of the address, which is what
  `unordered_multimap::find` may return.
* `TileConfig` is operators over a configuration `Init` chooses; `AddrMapper`,
  `Partition`, `AddressMap` take one step for one turn of their loop.
* `GraphLoader`: one action per function, one per turn of `ToUndirected`'s loop
  and per call of `FillEdgePage`; the random engine is any draw.
* `Controller`: `AddTransaction` any time the channel accepts; then
  `ReturnDoneTrans`, the refresh in hand, the first and, for HBM, the second
  command of the cycle, the scheduling of one transaction. `TimingOf` is the five
  tables of `timing.cc` as one operator on two commands and the places of their
  banks. Times are kept as what remains of them, so the states are finite.
* `HMC`: one action per crossbar port's turn, in the order of the ages; the
  clocks of logic and DRAM as the distance between them.
* `CPU`: a step is a `ClockTick`; the memory accepts or does not.

Assertions of the code are properties, not guards (`FetchSafe` in
`BuffersOwned`, `CoresApart`, `CallbackFinds`). Where an assertion guards an
action too (`GetReadyForFetch`), the property shows that the guard never blocks.

### Not modelled, and why

* Cycle, byte and energy counters, reports, `timer.h`, `statistics.*`: nothing
  reads them before the report. The thermal model is a linear system in floating
  point that no step of the simulation depends on.
* Reading of `.ini`, `.csv` and JSON files, argument parsing; PrepareNextLayer's
  choice of the next layer's sizes, an assignment of constants.
* Where in the DRAM the regions of a layer lie, and the lengths of edge reads;
  in `Coordinator` only the equality of addresses counts. The contents of
  vectors.
* Self-refresh (off by default), the commands only GDDR and LPDDR4 have, the
  requests of the cube that only a caller of `InsertHMCReq` could make.
* `IdealDRAMSystem`, which no caller builds; `Shuffle`, `EliminateEvilRow`,
  `AggrBuf::Sync`, `SystolicArray::SyncOutput`, `GetNumOutputVertex`, which
  nothing calls.
* The vendored headers (JSON, Catch, fmt, args, INIReader) are four fifths of the lines
  under `src/`, and have no state of this program.
* Numbers have no width: every counter here is bounded by the layer's size.

## 3. Runs

Every passing run explores its whole state space.

| run | bounds | asks |
|---|---|---|
| `comb` | 4 vertices, batches of at most 2, 2x2 blocks, 2 weight slices, ring of 5 bytes and vertices of 2 | who owns each buffer, what the counters count, the batch's window, what is written; `PipelineSafe` |
| `aggr` | 3 chunks of 2, 2, 1 vertices, 1 or 2 parts, rows without edges, 2 slices, 2 cores | order of chunks, cores, places in the ring, counters, the end |
| `hygcn` | 2 chunks of 2 and 1 vertices, ring of 5 and vertices of 2, 1 core, 1x2 blocks | does the layer end, with both engines done, no read owed and at most the last block of the last batch unwritten; `PipelineSpec` with liveness |
| `hygcn_retained`, `hygcn_lost_output` | the same | findings 1 and 2 |
| `cuts` | 96 layers of 1 and 5 vertices with in-degrees 0, 1, 3; chunks of 2 rows of up to 4 of 5 vertices and a buffer of 2; 720 orders of fields by 10 structures, with 2 for 1024; all files of at most 3 lines on 3 vertices, samples of 1 and 2, pages of 4, 6, 8 cells; traces of 1 and 3 lines of all kinds over 4 cycles, arrays of 2 elements, 3 times anew, every pattern of refusals | covered once, and fits; the edges kept, undirected, decoded; nothing skipped or out of order |
| `cuts_reload` | the same | finding 3 |
| `systolic_array` | batches of 1 to 3 rows, six shapes of weights for an array of 2x2, whole and not, and one too wide | tiles, room, and `ArrayContract` |
| `coordinator` | two writes to the DRAM with a common block and a chunk of edges, which goes first; in a ring of 3 blocks a slice that is read round its end and the block at its beginning, written | events and transactions agree; each callback finds its entry; the ring's order; `MemoryContract` with liveness |
| `controller` | five configurations with short times (`MCController`), streams of at most 5, refresh every 8 to 12 cycles, at most 2 refreshes waiting (`MaxRefresh`) | accounting, activation window, refresh, order at an address, answers |
| `controller_stuck` | the same | finding 4 |
| `hmc` | 2 links, queues of one packet, clocks 2:3, streams of 2 and 3 with one vault and one quad shared | ports, responses, every transaction answered |

Why the bounds are enough for the cases to happen: with two buffers of a kind,
three blocks or parts are needed before each is used a second time; with
batches of at most two, four vertices make full and partial batches, and the
ring size is odd and the vector size even, so that vectors wrap and every
residue is met. Two cores and two slices let tasks of one vertex, and of two,
be under way together. In the coordinator, two events that share an address
make the callback's choice real, and an event of two transactions can be
issued and confirmed piecemeal; the chunk of edges may be handed over at any
time, and so come in between the two blocks of an output. The weight shapes of the array include single
tiles, tall, wide and ragged ones. The channel's configurations differ in what
they make happen: reads of one address and a forwarded one, with full split
queues and two commands a cycle (`Split`); two ranks, one queue, rows closed
each time (`Unified`); a fifth activation in a window (`Window`); a write behind
a read of its address (`Conflict`); refreshes of single banks beside a row hit
(`Staggered`). With one packet to a queue all waits of the cube are met. The
safety of `Comb`, `Aggr`, `HyGCN`, `SystolicArray`, `Coordinator`, `Controller`,
`HMC`,
`TileConfig`, `AddrMapper`, `Partition`, `AddressMap`, `GraphLoader` and `CPU` is also proved, for all sizes.

Deadlock checking is off only where the program stops: the loops of `cuts`, `SystolicArray` (`OUT_SYNC`, on which `Comb`
exits) and the main loop of `HyGCN`. The abstract modules have no run of their
own: they are the properties of the runs of the modules that implement them.

### Fairness

The main loop (`hygcn_test/test.cpp:49`) ticks until the layer is done, so the
clock tick of every module is weakly fair. Answers of memory and the array's end
are possible at one point of the tick only, hence strong fairness: memory
answers every request sometime, the countdown ends. The first is what
`coordinator` shows, from a DRAM that has room again and again and, while it
holds anything, answers something again and again, in an order of its own; the second is what `systolic_array` shows. In `Controller` only
`ClockTick` is fair: nobody has to add a transaction. In `HMC` the vaults take
and confirm in the end. No fairness is assumed of choices that are the code's
own.

## 4. Findings

1. **A full ring looks like an empty one** (`hygcn_retained`). `WillAllocate`
   (`aggr_buf.h:29`) works from two addresses: it takes the ring to be free when
   they are equal, and otherwise what it calls the free space grows with the
   bytes held. It lets a chunk in over vertices that have not been combined, with
   both engines the real ones. The pointers' counts do not suffer
   (`DrainInOrder`, `PipelineSpec`); the vectors in the ring do. The research
   report, 4.3 (2), says that results stay in the buffer until they are combined.
2. **The layer ends before its last block is written** (`hygcn_lost_output`).
   The test for the end of a batch (`comb.cpp:167`) reads a counter that has
   moved on when the last block *went to* the array; it is evaluated when an
   earlier block's write ends. The main loop then stops ticking and records the
   layer. No row is counted twice or forgotten by the engine (`OutputAccounting`):
   the results exist and have not been handed to memory. What is missing is never
   more than that one block, the last of the last batch (`DoneTogether`).
3. **A sample is loaded the wrong way round** (`cuts_reload`). `DumpEdge`
   (`graph.h:29`) writes a vertex and then its source, `LoadSampleGraph`
   (`graph.cpp:165`) reads the source first. `r_adj` is to "record incoming-edge"
   (`graph.h:19`); what is loaded are the outgoing edges of the sample. None is
   lost, doubled or made up on the way (`EdgesKept`), which would hold of a
   program that read them the right way round as well.
4. **A write behind a read of its address may stop the channel**
   (`controller_stuck`). With split queues and a write buffer that is full, or has
   more than eight writes while no command waits, draining begins in every cycle
   (`controller.cc:201`); if the first write has the address of a pending read
   ("Enforce R->W dependency", `controller.cc:210`) draining stops and nothing is
   scheduled, so that the next cycle is the same again. The read never gets its
   turn, and the front end, which is to know "that the request is finished"
   (`dramsim3/README.md:113`), is never told. `Served` is what remains: every
   transaction comes back with one queue for both kinds, or if no write has the
   address of an earlier read. The instance `Conflict` drains from one write on,
   where the code does from nine on (`drain_threshold`), but the buffer that is
   full, of 2 writes there, is enough for it.

### Observations

Places where the code does less than a comment or a reader would have it do,
met while modelling. A name in brackets is a formula in the module that states
what the code does not keep; it has no run of its own.

* Rows of results of one block share addresses with others' (`comb.cpp:232`
  against `config.cpp:129`): the number of the vertex is not multiplied by the
  space of a vertex (`OutputRowsApart` in `AddrMapper`).
* The crossbar is to take the oldest port first (`hmc.cc:591`) and compares a
  port's age with the numbers of the ports before it (`hmc.cc:601`;
  `OldestFirst` in `HMC`).
* Of two requests of one address the cube may answer the one that has not been
  served, with the type of the other (`hmc.cc:627`; `AnswerReceived` in `HMC`).
* The end of a trace is tested before its last line has been accepted, and a
  reading that fails is not looked at: the last line may be left out, or given a
  second time as a read (`cpu.cc:75`; `TraceFed` in `CPU`).
* The bank-wise refresh puts its times into a list that is read for commands of
  a rank only (`timing.cc:225`), so nothing keeps the bank closed;
  `refresh_q_` grows without end when refreshes are raised faster than issued
  (`refresh.cc:50`, hence `MaxRefresh`); with RANK_LEVEL_SIMULTANEOUS only the
  first rank is ever refreshed (`refresh.cc:36`).
* The second command of a cycle is lost if it cannot be issued with the first
  (`controller.cc:87`); that no two column commands are ready in one cycle rests
  on the times (`ColumnsApart` in `Timing`).
* Edges are read from addresses chunk by chunk of another length than
  `AddrMapper` laid them out with (`aggr.cpp:89`); the end of the memory is
  worked out and compared with nothing (`config.cpp:123`); a request longer than
  a page ends in a division by zero (`configuration.cc:48`).
* With neither the burst length nor the bus width a power of two, the rounded
  logarithms of a request and of the burst do not fit each other
  (`configuration.cc:351` against `353`), and the mapping tells addresses apart that
  are more bytes than the memory has (`AllUsed` in `AddressMap`).
* `IdealDRAMSystem` erases while it iterates and steps over the next entry
  (`dram_system.cc:228`).
* `IssueEvent` takes edges whenever there are any (`coordinator.cpp:59`), so
  lower priorities wait as long as edges keep coming; with finitely many events
  they are served, edges that come in between the blocks of an output included
  (`ContractSpec`).

## 5. Proofs

`Comb_proofs` proves for every number of vertices, blocks and slices, every
batch size above one and every ring (`CombAssumption`, `AggrBufAssumption`; the
code asserts or computes each conjunct):

* `Invariance`: `IInv` is an inductive invariant. It is `TypeOK` together with
  who owns each buffer in each state (`InbufInv`, `WbufInv`, `OutbufInv`,
  `InArray`), where the engine's pointers and chunk counters stand relative to
  the array's block, what `event_cnt` counts (`EventAccounting`) and the batch's
  window (`BatchWindow`). None of the properties is inductive alone: that an
  answer finds its buffer needs that at most one buffer of a kind is being
  filled and that it is the pointer's; that in turn needs to know that
  `FetchNextBlock` has cleared the pointer of every buffer in the array.
  One lemma per action shows that it is kept.
* from it `TypeCorrect`, `BuffersStayOwned`, `EventsAccounted`,
  `BatchIsWindow`, `DoneMeansReleased`;
* `NoRowLost` (`OutputAccounting`): rows written, rows that wait in the output
  buffers, rows in the array, rows of the batch still to come and rows of the
  vertices behind it are together all rows of the layer, at every moment. It
  needs, beside `IInv`, that the block in the input buffer has the rows of the
  batch (`SizeInv`), for the array's rows are those of its buffers.
  `RowInv` adds what the end leaves unwritten: once all blocks of a batch have gone
  to the array, the array has the last one or none (`LastBlock`), and when the batch
  is over the rows not handed to memory are those of one block at most
  (`LastRows`);
* `PointersInOrder` about the contract `VertexPipeline`; `ImplementsPipeline`:
  `Comb` refines its safety part, and so has it (`PointersStayInOrder`).

`Aggr_proofs`, for every layer cut into chunks that follow one another and fit the
ring (`AggrAssumption`: what `AddrMapper` and `Partition` deliver, and the
self-loops of the models), every graph, number of cores and slices, and ring:

* `Invariance`: the inductive invariant ties the two edge buffers to the ring.
  Of the chunks asked for, those that have no room yet are the last (`NextChunk`
  is the first of them), so the ready buffer with the least first vertex holds
  the next chunk, although its edges may have come after the other's
  (`NextInOrder`); what has been reserved are the vertices before it. A chunk
  that is being aggregated has its parts in the input buffers, and an input
  buffer that holds a part has its chunk aggregated (`PartOf`). The next task of
  the buffer being drained is behind every task the cores have (`CoreOK`), hence
  no two are the same; a vertex is begun only if it has an edge (`TaskPtrOK`),
  hence the tasks left are never fewer than none (`TasksLeftNat`) and a counter
  that comes to zero says that no core is left (`SimdWritesBackStep`), and for
  an edge buffer that the other input buffer is empty (`ChunkGoes`).
* from it `ChunksDrainInOrder`, `CoresStayApart`, `BuffersAccounted`,
  `DoneIsComplete`; `SlicesInPlace`, with the arithmetic of the ring
  (`AdvanceOnRing` and the lemmas before it);
* `ImplementsPipeline`: `Aggr` refines the safety part of `VertexPipeline`. That
  a chunk stays in the layer is an induction over the chunks (`BoundInLayer`),
  done by the smallest counterexample (`Smallest`);
* `AllAccounted` (`Accounting`): every slice of every vertex is accumulated once
  for every part in which it has an edge. `WorkInv` is the sum of what has been
  done and of what is left, with the chunks still to come given by the number of
  the next one. It has no invariant of its own to be inductive with, but all of
  `IInv`: that a chunk's parts are all in when its buffer is given back
  (`AllPartsIn`), that a task skipped is one without edges. The sums over parts
  and chunks are functions that have to be shown to exist (`SumsExist`, by the
  smallest counterexample) before anything can be said of their values
  (`SumFromIs`); `ChunksCounted` says that the chunk at the ring's pointer is the
  next one.

`HyGCN_proofs`, for every layer, graph, ring and all sizes that both engines
allow (`HyGCNAssumption`):

* `Invariance`: the invariants of `Aggr_proofs` and `Comb_proofs` side by side
  (`BothInv`). Each was proved with an environment that may do what the other
  engine is supposed to. `AggrStep` and `CombStep` show that it does no more: a
  tick of one engine is, given *both* invariants, a step of its own for that
  engine, and for the other one a step its environment is allowed. Neither
  invariant is enough, since each engine keeps to the contract only if the
  other one has kept to it so far; side by side they close the circle. The
  modules in which an engine is proved are instances of their own here, hence
  the lemmas that the same definitions mean the same (`SameAggr`, `SameComb`).
* `EachAsAssumed`: the accelerator implements `Aggr` and `Comb`, environments
  and all, and so has every property proved of either;
* `AtMostLastBlockMissing` (`DoneTogether`): when the main loop ends, the
  aggregation has published and the combination released every vertex, no read
  is owed, and every row of the result has been handed to memory but, at most,
  those of the last block of the last batch. The halves come from one engine
  each; the rows need `RowInv` of `Comb_proofs`, which is carried along in
  `BothInv` (`SameRows`);
* `ImplementsPipeline`: the safety part of `VertexPipeline`, here with nothing
  left to an environment;
* `RingAddresses`: each pointer's address is its count times the vector's size,
  modulo the ring, for every ring and vector size, also when the vector does
  not divide the ring.

`Cuts_proofs`, for every layer, every graph and every size of the buffers
(`TileConfigAssumption`, `CutsAssumption`: what the code asserts, or divides by
without a test):

* `ScanCovers` (`ChunksCover`): the chunks the greedy scan has made follow one
  another from vertex 0, none is empty or above the interval, and what is
  scanned is the open chunk behind them. The invariant adds where the scan
  stands.
* `ScanFits` (`ChunksFit`): the edges of a chunk fit the edge buffer, and a chunk
  is closed only if the next vertex would not have fitted. `FitInv` adds that
  `edge_size` is the sum of the edges of the open chunk. The sum is a recursive
  function; that it exists on every layer is shown by the smallest vertex up to
  which there is none, since no induction theorem can be used.
* `TilesCovered` (`TilesCover`): one of the four ways to cut the weights always
  applies and its chunk fits (`ChunkFits`, from `SquareFits` and `StripFits`):
  the last `else` is never reached. That every byte of the weights is read once
  is a statement about numbers of mixed radix: the rows of all chunks, counted
  through in the order they lie in, are numbered without a gap (`Digits`,
  `RowsNumbered`). The prover's arithmetic is linear, so that products and
  quotients have lemmas of their own (`TimesGrows` ... `UpperIs`).
* `PartsInvariance`, and from it `PartsKeepEdges` (`PartsLossless`) and
  `PartsFitBuffers` (`PartsFit`): the neighbours of a part lie in one window,
  each part lies behind the one before, and the edges left lie behind the last.
  A row with one vertex many times may be cut at the number of edges instead
  (`ele_h_interval` in `StopsAt`), and then what is left need not be behind the
  window; hence the condition on repetitions in `NoneReadTwice`, and in the
  invariant wherever the order of windows is meant. Without repetitions a row
  rises by one at least (`RowRises`), so that a window's worth of edges leaves
  the window.

`SystolicArray_proofs`, for every height, width and output buffer and all blocks
that fit it as `TileConfig` and `SetMatrix` require (`ArrayAssumption`):

* `Invariance`: in a block that is not done the counters name a tile of the
  block's *only* batch. That there is one batch (`OneBatch`) is a consequence of
  the choice `TileConfig` makes, and needed: with two, the columns of the first
  would still hold the room of the second. What was fed is the number of tiles
  before the one named, the room is that of the columns begun and no more than
  there is.
* from it `TilesFedInOrder` and `OutputRoomAccounted`; `ImplementsContract`: the
  array refines the safety part of `ArrayContract`, on which `Comb` relies.

`Controller_proofs`, for every channel (any number of ranks, groups and banks, one
queue or two, queues per bank or per rank, of any size), every table of times that
keeps column commands apart (`ColumnsApart`), every stream of transactions, and
without a bound on any queue:

* `Invariance`: the inductive invariant has two parts that do not need each
  other. Of the *banks*: times are numbers, a bank's next activation is not
  before its refresh is over (`RefreshInv`), what the code remembers of
  activations are the last ones and at most four (`WindowInv`), and after a
  column command no bank is ready for another in this cycle (`BurstInv`), so that
  the second command of a cycle cannot be one. Of the *books*: a transaction
  waits in the queue of its kind and at most once for an address (`WaitInv`), a
  command is in the queue of its bank and at most once for an address and kind
  (`CommandInv`), reads pending at an address are older than its write
  (`PendingInv`), what is pending waits or has a command and not both
  (`CarriedInv`), a write's command is behind the read's (`OrderInv`). Only
  together are they kept: that merging loses nothing rests on there being one
  place for an address, and that on which of the two queues is looked at first.
* from it `NothingLost` (`TransactionsAccounted`), `FourActivations`
  (`ActivationWindow`), of the steps `OrderKept` (`SameAddressInOrder`), and
  `RefreshesUndisturbed` (`RefreshUndisturbed`). The last has an invariant of its
  own beside `IInv` (`HeldInv`): the queues held back are those of the refresh at
  the head of its queue, which leaves it only by being issued; and a command that
  opens a row comes from a queue that is not held back (`NoneOpened`).

Also in `Cuts_proofs`, of the graph before the first tick, for every file of
edges, number of vertices, sample and size of page (`GraphAssumption`):

* `GraphKept` (`EdgesKept`): the edges are counted, one by one, from the file
  through every list. `KeptInv` says of the loaded and of the renamed graph that
  each edge is in both directions as often as the file has it, of the normalised
  one that every vertex has its sources and itself once each and in order, of
  the sample that it holds sources, and of the file it is written to that a line
  is there as often as the sample has it (`DumpTimes`): a sample that is loaded
  again joins the same vertices as often. Which end is the source is not claimed
  of it (finding 3). None of this follows from
  the definitions by themselves: `LinkedTo`, `FlattenSeq` and the order of a set
  are functions or choices that must be shown to exist first (`LoadingExists`,
  `FlattenIs`, `InOrderIs`), by the smallest number up to which they do not; that
  the lists have as many places as the file has lines is a bijection
  (`LoadedCount`), and so is renaming (`RenamedIs`).
* `GraphUndirected` (`Undirected`): the sets change under the loop that goes
  through them. `GraphInv` says for the turns behind which edges back are there,
  and of every set that it holds edges of the file and their reverses only.
* `GraphPages` (`PagesDecode`): what is read of the pages put away, and of the one
  at hand, is what was laid out so far (`ReadAll = LaidOut` in `PagesInv`). It
  needs that a page with edges ends in the row that is laid out, for the next
  edge is read as one of that row, and that a page is never left with fewer than
  two cells (`PutAway`); and that a page, read pair by pair, is read the same when
  more is put behind it (`ReadingIs`, `EdgeRead`).

and of the drivers, `OrderKept` (`TraceInOrder`), for every trace and every pattern of
refusals: what the memory was given is the first lines of the trace in order.
The invariant says which line is in hand while `get_next_` is down, and where the
reading stands. `ElementsKept` (`NothingSkipped`), for every size of the arrays:
what was given is whole elements, three accesses each, and those of the element
in hand that `inserted_` says.

`HMC_proofs`, for every number of links, depth of the queues, size of packets,
both clocks and every stream of transactions (`HMCAssumption`):

* `Invariance`: `IInv`. Requests and responses are in one place each
  (`RequestsInv`, `ResponsesInv`), no queue outgrows its depth (`DepthInv`), the
  clock of the logic is ahead of the DRAM's by less than a cycle of its own
  (`ClockInv`), and an age means a packet that waits (`AgeMeansWaiting`): a port
  that has an age when the crossbar begins still has its packet when its turn
  comes, although the turns before it move packets (`TurnsInv`). `CountInv` is what
  the table of responses needs: it is looked up by address, and of every address
  as many responses are in it as requests are on their way.
* from it `PortsAreSound` (`PortsSound`) and `AllAccounted` (`Accounting`).

`Cuts_proofs` again, of the DRAM's address mapping, for every structure whose
megabytes come out whole and every order of the six fields (`AddressMapAssumption`):

* `MapInvariance`: `MapInv`. The fields that have been placed lie side by side from
  bit 0 (`BitsInv`): each ends at or below `pos`, `pos` is the sum of their widths,
  and numbers of `pos` bits that agree in all of them are equal (`TellApart`). One
  more field on top keeps it so (`OneMoreField`); a channel is whole ranks
  (`RanksInv`).
* `MapPlacesApart` (`PlacesApart`): shifted by a request, the addresses are mapped
  one to one to places (a bijection, `PlacesOf`), every field is below the number of
  what it names, and the bytes are those of the memory when all numbers are powers
  of two, and otherwise no more of them (`BytesOf`). The last part was false as
  first stated: the proof asks that the logarithms of the burst and the bus add up
  to that of a request, which they do when one of the two is a power of two. The
  powers are a recursive function, `TwoTo`, for the prover knows nothing of `2^n`;
  that it doubles is proved from the functions that double up to a number
  (`DoublingExists`, `DoublingUnique`).

`Coordinator_proofs` proves for every set of events, every choice of queues,
addresses and lengths, every ring and every order of answers
(`CoordinatorAssumption`: no event is empty, none longer than the ring):

* `Invariance`: `IInv`, with what the properties need and do not say. An event is
  in its queue exactly while it has transactions to be issued, and only the first
  of a queue has been begun (`QueueInv`, `IssueInv`); an entry of a multimap has
  the address of a transaction that was issued (`EntryInv`), so that the next
  ones are new, since no two transactions of an event have one address
  (`AddrDistinct`); entries count what is under way, event by event (`BookInv`)
  and address by address (`FindInv`). These two counts are what makes the
  choice of the callback harmless: taking *any* entry of an address lowers both
  by one. The queue of the ring keeps the order of `asked` (`OrderInv`), and is
  served to its end in every tick (`ServedInv`).
* from it `CallbackAlwaysFinds`, `TransactionsAccounted`, `EventsReturnOnce` and
  `RingServedInOrder`;
* `ImplementsMemory`: `Coordinator` refines the safety part of `MemoryContract`.

Only model-checked: all liveness, which is out of the prover's reach. Every
invariant and every action property that a run checks is the subject of a
theorem.

## 6. Plan

Done, in this order: the two engines and the ring, the array and the
coordinator with their contracts, the cuts, the composition, the DRAM channel,
the cube, the graph loader, the drivers. What is left:

* `HMC` with `Controller` as its vaults; the regions of `AddrMapper` in the
  addresses of `Coordinator`.
