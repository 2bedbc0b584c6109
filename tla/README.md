# Formal models of cim-sim

cim-sim simulates a many-core compute-in-memory chip in C++ on the SystemC kernel.
This directory holds TLA+ models of the parts of the simulator whose correctness
depends on order: which process runs first, which event finds somebody waiting for
it, which signal is read before or after it was written. Latency, which the simulator is
for, appears there as "some time later" but in two modules. A second group of modules
holds what surrounds the chip: the configuration it is built from, the address space, and
the energy counters, statistics and reports that are made of what it does.

Paths below are relative to the root of the repository unless they name a module.

## 1. The system

| Component | State | Operations | Talks to |
| --- | --- | --- | --- |
| Core front end, `src/core/core.cpp` | `ins_index_`, `pc_increment_`, `cur_ins_conflict_info_`, signals `id_stall_`, `id_finish_`, `id_ex_enable_port_` | `processDecode` (thread, 1 ns before the edge), `processUpdatePC` (edge), `processIssue`, `processStall`, `processIdExEnable`, `processFinishRun` | decoder (call), units (signals), handlers (shared `cur_ins_conflict_info_`, signals), chip (callback) |
| Decoder, `src/core/decoder/` | register file ports, instruction counter | `decode` and one decode per instruction class, `DataPathManager` | core (call) |
| Execute unit base, `src/core/execute_unit/execute_unit.cpp` | `running_ins_cnt_`, `finish_decode_`, `finish_run_`, `resource_release_list_` | `checkInst`, `waitForExecuteAndGetPayload`, `readyForNextExecute`, `releaseResource`, `finishInstruction`, `processIdFinish`, `processFinishRun` | FSM (event, signal), handler (signals) |
| FSM and clock, `src/base_component/` | `is_pos_edge_`, lists of events for the next edge, FSM state | `process`, `processInput`, `processEnable`, `finishExec`, edge notification | each other (events) |
| Conflict handler, `src/core/conflict/` | booked payloads, their union per data path | three SC_METHODs: allocate, release, conflict | unit and core (signals, event) |
| Stage sockets, `src/base_component/submodule_socket.h` | busy flag, payload, start and finish events | `waitUntilFinishIfBusy`, `waitAndStartNextStage`, `waitUntilStart`, `finish` | neighbouring stage threads |
| Transfer unit, `src/core/execute_unit/transfer_unit.cpp` | per data path three stage sockets | issue, read, write; local paths batch by batch, the global path with a handshake | memory socket, transmit socket |
| Transmit socket, `src/core/socket/transmit_socket.cpp` | expected peers and tag, map of waiting senders | handshakes, data, load, store, receive handler | switch (queue, callback) |
| Switch and network, `src/network/` | pending queue | `sendHandler`, `transportHandler`, delivery thread | transmit sockets of all cores, global memory |
| Memories, `src/memory/`, `src/core/socket/memory_socket.cpp` | access queue, bytes | `access`, serving thread, wait for `finish_read_` or `finish_write_` | every unit |
| SIMD and reduce units | stage sockets, `executing_functor_`, counters of outputs written | issue, read, functor stages, write | memory socket |
| CIM compute and control units, `src/core/cim_unit/` | stage sockets, macro groups, bit-sparse and value-sparse readers | issue, two readers, macro pipelines, callbacks for release and finish | memory socket, CIM unit |
| Scalar unit, registers | register values | ALU, load, store; one instruction at a time | memory socket, decoder (reads registers) |
| Chip, `src/chip/chip.cpp` | number of cores that have finished | construction, `processFinishRun` | cores (callback) |
| Configuration, `src/config/` | the records of the JSON file | `checkValid` of each record | everything that is built (constructors) |
| Address space, `src/address_space/` | maps by name and by address | construction, lookups | decoder, memory units, data paths |
| Energy counter, `src/base_component/energy_counter.cpp` | tree of counters, stack of pipeline activities | `addDynamicEnergyPJ`, `addActivityTime`, report | every piece of hardware, profiler |
| Profiler, `src/profiler/` | statistics by name, trees of names | binding, `addActivityTime`, `finishRun` | energy counter (calls), chip |
| Simulators, `src/simulator/`, `src/util/reporter.cpp` | reports of layers and test cases | one process per layer, sums, comparison | chip, files |
| ISA | - | parsing, printing | decoder |

### What is hard in it, and what would make it right

* **An instruction leaves decode by two decisions.** `processUpdatePC` looks at
  `id_stall_`, the FSM of the unit at `enable` and its input. They are different
  signals, written deltas apart. Right: what left decode for a unit was started by
  it, once and in order (`TakenExactly`, `EdgeAgrees`).
* **The scoreboard is a chain of signals.** Booking, releasing and checking are
  three methods triggered by signals of other processes; the tables are unions that
  are reset and rebuilt. Right: tables and conflict are exact, and no two conflicting
  instructions are in flight (`PathMapExact`, `ConflictExact`, `NoHazardInFlight`,
  and `Scoreboard` implemented), and no instruction waits for ever (`StallEnds`).
* **Releases are collected** in a list that the next delta cycle empties, bookings travel
  by a signal. Right: no release arrives before the booking it ends (`NoReleaseLost`), or
  it would stay for ever.
* **SystemC events have no memory.** A notification that finds nobody waiting is
  lost: `cur_ins_next_batch_`, the events of the handshake, `start_exec_`. Right:
  the threads never all wait for each other (`NeverStuck`), and every run ends
  (`Completes`, `Ends`).
* **Resources are freed before the work is over**, at the start of the last write.
  Right: whatever overlaps, memory is as after a sequential run (`DataInSequence`).
* **The end** is found by counters, flags and callbacks in the same delta cycle.
  Right: it is reported once, and not early (`EndsWhenDone`).
* **Messages of several cores share a switch** and the state that matches them.
  Right: sends and receives meet pairwise, in order (`Implements`,
  `HandshakeConfirmed`, `DataHasReader`).
* **Registers have no scoreboard.** The decoder reads them, loads write them when the
  memory answers. Right: what is decoded is what a sequential machine would read
  (`DecodesSequentially`).
* **The configuration is checked in one place and used in many.** Right: what the check
  accepts gives every byte one address, every instruction its functor and every pair of
  memories its data path (`AddressesExact`, `DecodesAsConfigured`).
* **Activities overlap, and counters and statistics share names.** Right: times are unions
  of intervals, energies are those of the activities, at every level of the trees
  (`ActivityIsUnion`, `ReportExact`).

`PROJECT.json` lists every hazard at its line with the properties that cover it.

## 2. The modules

| Module | Models | Composes |
| --- | --- | --- |
| `Resources` | the payload of `core/conflict/payload.cpp`: `ConflictWithIns`, `Plus`, unique ids of data paths, the rebuild of the path map, what is booked of an instruction | - |
| `Scoreboard` | abstract specification of resource booking in a core | `Resources` |
| `ConflictHandler` | one handler with the decode stage and the unit it sees | `Resources`; implements `Scoreboard` |
| `ResourcesProofs` | lemmas about its operators, for both modules of handlers | `Resources` |
| `ConflictHandlerProofs` | the theorems about `ConflictHandler` | `ConflictHandler`, `ResourcesProofs` |
| `CoreIssue` | core front end, unit base class, FSM, clock and all handlers, on a model of the SystemC kernel | `Resources`; implements `Scoreboard` |
| `CoreIssueProofs` | the theorems about `CoreIssue` | `CoreIssue`, `ResourcesProofs` |
| `LocalTransfer` | thread of the transfer unit, stages of the local data paths, memories | `Resources`; takes the scoreboard as the core in front of it |
| `LocalTransferProofs` | the theorems about `LocalTransfer` | `LocalTransfer` |
| `VectorUnit` | threads of the SIMD unit and of the reduce unit, one pipeline per functor, one write stage | `Resources`; takes the scoreboard as the core in front of it |
| `VectorUnitProofs` | the theorems about `VectorUnit` | `VectorUnit` |
| `CimUnits` | CIM compute unit, CIM control unit, CIM unit with macro groups and macros, in time | `Resources`; takes the scoreboard as the core in front of it |
| `CimUnitsProofs` | the theorems about `CimUnits` | `CimUnits` |
| `ScalarUnit` | decode stage, scalar unit, both register files, queues of the memories | - |
| `ScalarUnitProofs` | the theorems about `ScalarUnit` | `ScalarUnit` |
| `Configuration` | records of `config.h`, every `checkValid` | - |
| `AddressSpace` | address space, memory units with their hardware, lookup of functors and data paths | `Configuration` |
| `Statistics` | tree of energy counters, timing statistics, profilers, reports | `AddressSpace` |
| `Simulation` | chip, layer simulator and network simulator; the activities of a layer are drawn from a set | `Statistics` |
| `Rendezvous` | abstract specification of send and receive | - |
| `TransmitSocket` | inter core bus of every transfer unit, transmit sockets, switches | implements `Rendezvous` |
| `TransmitSocketProofs` | the theorems about the handshakes, and that they implement `Rendezvous` | `TransmitSocket` |
| `MC*` | constants for TLC | the module of that name |

### How state and actions correspond to the code

An **action** is what a SystemC process does from one wait to the next: nothing else
runs in between, because the kernel is cooperative. An SC_METHOD is one action; an
SC_THREAD is one action per wait. Everything called on the way is part of it.

*ConflictHandler.* `unit_ins_resource_allocate_map` is the set of payloads booked,
`data_path_resource_allocate_map` a function over all keys (a key never used is like
one that has been reset). `pending` holds the methods that have been triggered and
not run; they run in any order. `Decode`, `Issue`, `IssueElsewhere`,
`ReadyForNextExecute` and `ReleaseResource` are what the handler sees of core and
unit; that decode waits for `pending = {}` is the 1 ns between decoding and the clock
edge, which `CoreIssue` models in full instead of assuming.

*CoreIssue.* Variables `phase`, `runnable`, `notified`, `signal` and `next_value` are
the kernel: runnable processes run in any order, signals written become visible and
zero-time notifications take effect in the next delta cycle, immediate ones in this
one, and time advances only when nothing is left to do. Each method of `Core`,
`ExecuteUnit`, `FSM`, `Clock` and `ConflictHandler` is an action `Run(...)` of its own
name. What a unit does between taking an instruction and finishing it is the
environment: ready again, release, finish, in any order the base class allows.

The SystemC standard leaves the order of the processes of a delta cycle open, and so does
`Next`; the reference implementation, which `src/CMakeLists.txt:12` builds the simulator
with, runs all methods before the threads. It matters in one place. Releases wait in a list
for the next delta cycle. One that is added while the list still waits arrives a delta cycle
early, and if its instruction was taken in this delta cycle, together with the booking it
ends; run first, it finds nothing, and the booking stays for ever. The CIM control unit gets
there: at an edge the mask read of a set_activation ends, and an only_output is taken that
frees at once (`cim_control_unit.cpp:57-77`). `releaseResource` is called by threads and the
list is emptied by a method, so that with methods first no list waits. The history variable
`joined` records that a release has joined a list that waits. Two properties have it in
their statement, `NoReleaseLost` and `Ends`, which promise nothing from then on; without it
TLC finds both violated. All others are checked and proved in any order.

*LocalTransfer.* `issue`, `read`, `write` hold, per data path, the batch the stage
thread works on and where it waits. Memory cells hold values named after the cell
they started in, so that a batch carrying wrong data is visible. The latency of an
access is the time between `Serve` (data moves) and `FinishAccess` (the asker goes on).

*VectorUnit.* Both units have the same threads, so one module stands for both; a program
is of one of them (`SimdPrograms`, `ReducePrograms`), and `Unit` says of which where they differ: what the write stage counts, and scalar inputs, which
the issue thread of the SIMD unit reads. `stage[f][k]` is the k-th pipeline stage of a
functor. Accesses take any time and end in any order. `finish_read_` of the unit's memory
socket wakes the issue thread and the read stage together (`Woken`).

*CimUnits.* What is right here depends on latencies, so this module counts cycles: a state
that waits for time has a field `left`, and `Tick` takes one from all of them when nothing
else can happen: in `Quiet` states, where the guards of all other actions are false. They are
written out there, because the prover knows no ENABLED; TLC has compared the two on three
instances (that of `CimUnitsOneSparse`, one of two macros and slow stages, one without any
latency). Each thread is a variable (`sub` is `processSubIns`; `mask`, `meta` the two
readers; `control` the executing thread of the control unit), `ipu[g][0]` and
`stage[g][0]` are issue thread and pipeline of group `g`, `ipu[g][n]` and `stage[g][n]` those
of its n-th macro. A queue of accesses belongs to each memory. How many batches the inputs of
a macro need is data, hence any number up to one for each bit.

*TransmitSocket.* The same three stages for the global data path, the five fields of
the socket and the queue of each switch. A delivery runs the handler of the core it
goes to; `Wakes` is an event without memory. `matched` is a history variable: which
send met which receive.

*ScalarUnit.* `phase` is the place in the period: `ProcessDecode` and `Edge` are the core,
`StartExecute` to `FinishStore` the two threads of the unit, which take no time, and
`ServeScalar`, `ServeOther` and `EndAccess` the memories, where accesses of other units do.
Every instruction of the ISA is decoded; those of other units end in `given`, with the
operands they were given. `ref` is a history variable, the sequential machine, that takes
an instruction when decode does.

*Configuration, AddressSpace, Statistics.* Operators, no state: a record of the model is a
struct of the code, a sequence a vector, a function a map. Each `...Valid` is a
`checkValid`; numbers the code compares with zero only are taken from small sets
(`Powers`). A name is a sequence, so that the delimiter of duplicates (`ram_1`) can be part
of one. A counter has an id, the path of its keys, and a name, which counters share;
`Below` is the tree, `AddPipelineStageDynamicEnergyPJ` the stack of one counter,
`AddActivityTime` the two tags of one statistic.

*Simulation.* One action per step of `LayerSimulator` and `NetworkSimulator`
(`Load`, `Report`, `ReadReport`, `EndCase`), per core that ends (`FinishRun`) and per kind of
activity (`UnitActivity`, `MemoryAccess`, `NetworkTransfer`): each adds to the counters,
hardware statistics and instruction statistics the code adds to. `log` and `reports` are
history variables, from which the properties say what should have been measured. A process
without a report (`died`) aborts the network simulator, which parses it all the same.

Left out of all of them: the wording of names and logs. In the modules of the first group,
energy and the operand decoding that only produces numbers. A set bit of a memory bitmap is
a set member.

## 3. What TLC checks

| Run | Instance | Question and answer |
| --- | --- | --- |
| `ConflictHandlerTransfer` | transfer unit, 6 kinds of instruction on 4 data paths, 2 memories, 3 instructions | Are path map and conflict exact after any sequence of bookings and releases, whatever the order of the hash table? Yes; and it implements the scoreboard, and a stall ends. |
| `CoreIssueLoop` | SIMD and transfer unit, a loop over transfers, a SIMD instruction with a RAW and a WAR on them, a jump past the end, up to 5 instructions; processes of a delta cycle in any order | Is every instruction started exactly once, in order, never against a hazard, also when its unit is not ready, and does the core end once at most and not early? Yes. Does every release find its booking, and does the core end? Yes, unless a release joins a list that waits, which a kernel that runs methods first excludes. |
| `CoreIssuePeriodOne` | `period_ns` = 1 | Is decoding safe at the default period? **No**, see section 6. |
| `LocalTransfer` | 6 transfers of 2 batches, bus and one dedicated path, 3 memories of 4 cells | Does memory end as if transfers ran one by one, is a freed instruction over, does all complete? Yes. |
| `VectorUnit` | all programs of 3 SIMD instructions of 5 kinds on 2 functors of 1 and 2 stages, all of 3 reduce instructions of 4 kinds with widths of 2 and 3 outputs | Does each batch run on the functor of its instruction, is a freed instruction over, are outputs collected over batches written in place and counted anew, do the threads never all wait for each other though two share an event, does all complete? Yes. |
| `CimUnitsOneSparse` | all pairs of 7 CIM instructions and 4 triples, 2 macro groups, 3 memories of 1 and 3 cycles | Has data been read when it is used, is an instruction over when it has finished, does an output wait for the computation, do macros see the activation the program set, does all complete? Yes, of instructions with one kind of sparsity and stages no slower than the IPU. |
| `CimUnitsBothSparse` | one instruction with mask and meta data | Are both waited for? **No**, see section 6. |
| `CimUnitsLongAdder` | a result adder stage of 2 cycles, compute and output | Does the output wait? **No**, see section 6. |
| `TransmitSocketAgreeing` | 3 cores, 4 sends and receives of one tag in a row, competing senders, global loads and stores in between | Do all meet as they should and complete? Yes. |
| `TransmitSocketCrossed` | 2 transfers taken in the other order | Do both sides confirm the tag? **No**, see section 6. |
| `ScalarUnit` | a program of 19 instructions with a loop, 4 words in 2 memories, registers of 5 bits, 3 accesses of other units | Is every instruction decoded with the operands a sequential machine has, and does all end? Yes, as long as no load or store queues behind an access of another unit: then the next instruction is decoded with the old value. |
| `Simulation` | 36 configurations one step from each other, 10 of them accepted; tests with activities of functors, memories and network on 2 cores | Do accepted configurations give every byte one address, every instruction its functor, every pair of memories its path? Are times, energies and reports those of the activities? Yes. |

**Bounds.** `MaxIns` (3, 4 or 5 instructions) bounds the programs. A conflict relates
two instructions; a third is needed for a release that leaves something behind on a
path, and a fourth for one that arrives while a release and a booking are both under
way. Two memories and two functors are enough to be equal or different, and four data
paths give two of a kind. In `LocalTransfer` a batch fills one cell: two batches are the
least that has a first that is not the last, and four cells let transfers overlap
themselves, each other and neither. `TransmitSocket` needs two senders for one receiver
to compete, and two transfers of one sender to be confused. `CimUnits` has two groups, a
first and a last one, and a memory slower than the others, so that accesses end in
another order than they began. `ScalarUnit` needs words of few bits, for overflow and
negative numbers to occur, a special register that is bound and one that is not, and `MaxIns` (30)
instructions for its loop to go round twice; three accesses of other units are a queue of two
behind one that is served. `Simulation` has three activities in a layer, which is
the least for two of a pipeline that overlap and a third that bridges or follows them, in
a time of `MaxTime` (3) ns for them to start in, on memories of a few bytes whose parts of the address
space are equal to them or larger; three layers and cases are the least in which a sum, a
name used twice and a case passed over occur. The state spaces are finite without constraints; only a jump
back in `CoreIssue` is bounded, in its guard (`Increments`): the loop goes round once. The runs `ConflictHandlerTransfer` and `VectorUnit` allow all programs of
their kinds; those of the others fix programs chosen so that each hazard occurs.
Deadlock checking is off where the program ends: `Completes` says there that everything
got done. In `CoreIssue` the clock never stops, and deadlock is checked.

**Fairness.** The SystemC kernel runs every runnable process before time goes on, hence
weak fairness of each process (in `CoreIssue` and `CimUnits`, of the kernel as a whole: it
may not stop, and order is its own). Latencies and network delays are finite, hence weak fairness of
memories and switches; `ScalarUnit` has strong fairness of an access that ends and of an
edge without stall, since time goes round and other units may ask again in between.
`Simulation` states no fairness and no liveness. `CoreIssue` assumes that a unit ends what it has begun, which
`Completes` of `LocalTransfer`, `VectorUnit` and `CimUnits` shows of the units. There it is strong fairness,
because the model lets the pipeline act only at the end of a delta cycle
(`PipelineTurn`), a reduction: those steps commute with all steps but two methods of the same unit.
`Ends` also has `joined` in it, which is about the order of processes and not about fairness.

## 4. What is proved

Every safety property of the passing runs of `ConflictHandler`, `CoreIssue`, `LocalTransfer`, `VectorUnit`,
`CimUnits`, `TransmitSocket` and `ScalarUnit` is a theorem, for every value of the constants that the
named assumptions allow; so are the refinements of `Scoreboard` and of `Rendezvous`.

### The conflict handler

`ConflictHandlerProofs` proves, for every set of memories and functors, every set of
dedicated data paths, every unit, every program and every number of instructions:

| Theorem | Statement |
| --- | --- |
| `Invariance` | `Spec => []IInv`, the inductive invariant |
| `TypeCorrect` | `Spec => []TypeOK` |
| `PathMapIsExact` | `Spec => []PathMapExact` |
| `ConflictIsExact` | `Spec => []ConflictExact` |
| `HazardFreedom` | `Spec => []NoHazardInFlight` |
| `Implements` | `Spec => Abstract!Spec`: the handler implements `Scoreboard` |

They assume `FunctorAssumption`, `DedicatedAssumption`, `KindsAssumption`,
`UnitAssumption` and `MaxInsAssumption`, which say what the decoder puts in a payload: ids are
numbers, SIMD and reduce instructions have a functor, only transfers have a data path.

The argument. None of the properties is inductive alone. An entry of the path map keeps
the functor of the *last* payload added (`operator+=` in `payload.cpp`), so it stands for
all of them only if all share one: this is so because no two conflicting instructions are
in flight. They are not, because the conflict reported is exact; and that it is, rests on
the path map. `IInv` joins them with what decode guarantees: the instruction in decode
is younger than all in flight (`NextOK`, `BookingIsYoungest`), an instruction in flight
has a functor if and only if its unit has functors (`InFlightOK`), and whatever
changes the conflict has triggered the method that computes it (`ConflictFresh`).
`EntryConflict` (in `ResourcesProofs`) is the central lemma: a union conflicts with an instruction if and only if one of its parts does. There is one lemma per action; the release, which
resets and re-adds, is the long one (`ReleaseStep`).

### The core

`CoreIssueProofs` proves, for every set of units, every program with its jumps, every order in
which the kernel runs processes and any time the units take:

| Theorem | Statement |
| --- | --- |
| `Invariance` | `Spec => []IInv`, the first inductive invariant |
| `TypeOKHolds` | `Spec => []TypeOK` |
| `EdgeAgreesHolds` | `Spec => []EdgeAgrees`: decode stage and FSM decide alike |
| `TakenExactlyHolds` | `Spec => []TakenExactly`: what left decode is taken, each instruction once, in its unit and in the order of the program |
| `EndsWhenDoneHolds` | `Spec => []EndsWhenDone`: the core ends once and while no unit has an instruction starting or executing |
| `NoReleaseLostHolds` | `Spec => []NoReleaseLost`: as long as no release has joined a list that waits, what is booked belongs to an instruction that works, or its release is under way |
| `BookInvariance` | `Spec => [](IInv /\ BInv)`, with the second inductive invariant |
| `NoHazardHolds` | `Spec => []NoHazard`, over all units of the core |
| `BooksInOrderHolds` | `Spec => BooksInOrder`: the core implements `Scoreboard` |

All have the hypothesis `~ PeriodIsOne`. It cannot be spared: `CoreIssuePeriodOne` is the
counterexample (section 6). `ProgramAssumption` says what the decoder puts in a payload
and that a jump leads to an instruction or past the last one.

The argument is one about delta cycles. Of every signal that is computed from others, `IInv` says
that it has the value it should have or that the method which computes it is about to run
(`StallOK`, `EnableOK`, `IssueOK`, `InputOK`, `ConflictOK`). Decoding has a delta cycle to itself,
1 ns before the edge, and in the first delta cycle of the edge nothing runs but the clock, the update
of the program counter and the FSMs (`KernelOK`). So every signal is settled when an edge
begins, and `processUpdatePC` and the FSMs, which read different signals, in any order,
decide alike (`SettledAgrees`, `EdgeAgreesOK`). `TakingOK` keeps the books: what has passed decode and what is
passing is what has been taken and what is starting, as sequences of instructions with their units; at rest nothing passes or starts.
An FSM that is ready and enabled with an instruction at its input is called at the next edge
(`CalledAtEdge`), or the instruction would be lost. The end spreads from decoding to units
to core, and each step of it needs the one before to be stable (`EndOK`, `UnitEndOK`, `CallOK`).

`BInv` adds the tables. In every unit the path map is exact (`PathsOK`) and one functor is
in flight (`SharedOK`), which is what makes the lemmas of `ResourcesProofs` apply. From the edge at which an
instruction leaves decode until it is taken (`Leaving`), no booking is under way in any unit and it
conflicts with nothing booked (`LeavingOK`). It holds at that edge because all conflicts are settled
(`LeavesFree`) and later because nothing is booked before it is taken and releases only take away. So
`Execute` is a booking of the scoreboard (`ExecuteStep`), a release of a handler one of its
releases (`ReleaseStep`), and all else a stutter (`ScoreboardStep`). A third invariant, `ReleaseOK`, follows a release
from the list to the handler: the list holds what waits for `processReleaseResource` and nothing
else, and an instruction whose booking is under way has not got as far. The first two invariants have been
checked with TLC on the program of `CoreIssueLoop` and two others before they were proved.

### The pipelines

`VectorUnitProofs` and `LocalTransferProofs` prove, for all programs, functors with any number of
stages, widths, data paths and memories:

| Theorem | Statement |
| --- | --- |
| `TypeOKHolds` (both) | `Spec => []TypeOK` |
| `FreedIsOverHolds` (both) | `Spec => []FreedIsOver`: who has released has read all it reads, and only its last batch is being written |
| `FunctorOfInsHolds` | `Spec => []FunctorOfIns`: each batch runs on the functor of its instruction |
| `WritesInPlaceHolds` | `Spec => []WritesInPlace`: each write begins where the last one ended, an instruction ends complete |
| `NeverStuckHolds` | `Spec => []NeverStuck`: the threads of a vector unit never all wait before every instruction has finished |
| `DataInSequenceHolds` | `Spec => []DataInSequence`: memory is as if transfers ran one after the other |

They assume what the code gives or demands: functors and stages there is at least one of
(`FunctorsAssumption`), an instruction has a batch (`ProgramsAssumption`, `ProgramAssumption`: one of no elements has
none if a batch is one element, would never be released, and is a listed hazard), its cells
are cells of its memories, and a path joins what the configuration says (`PairsAssumption`).

Both rest on a line. The stages hold batches, the later the stage the earlier the batch
(`LineInv`), so whoever holds a batch that is not the last one in the write stage still holds its
resources (`Holds`). As instructions that hold resources together do not conflict, they run on one functor of
the unit (`OneFunctor`), and that it has many pipelines does not matter. `VectorUnit` then
counts (`CountInv`): of each instruction some number of batches has left the line and some has been
started, and the line holds exactly those in between (`NoneMissing`). So the write stage meets each in turn, and its two counters, which are
reset by the write that an instruction ends with, say how many outputs there were.
`NeverStuck` needs who wakes whom: a thread that waits for an access has one of its own under
way, whatever else may wake it (`Reads`), and the batch whose end the issue thread waits for is still
in the read stage or, without pipelining, has not left the write stage (`Awaited`). Where no thread can
go on the stages are empty from the last one to the first (`BlockedIsIdle`), so that all batches
have left and their instructions have released and finished (`Leaves`). It is the part of `Completes`
that needs no fairness.

`LocalTransfer` has a line per data path, without gaps (`Chain`), and memories whose queues all
paths fill. The queue of a memory is in program order nonetheless (`QueueInOrder`), because an access is asked for
while resources are held, so that what asked before on another path and conflicts
is older. While an access waits no younger transfer has written to its memory
(`NotOvertaken`); hence it is served with exactly the writes before it done, and the cell has the
value that the sequential run gives it (`CellsRight`, where `UpTo` names "exactly the writes before").

### The scalar unit

`ScalarUnitProofs` proves `TypeOKHolds`, which the run leaves to it, and `DecodesSequentiallyHolds`, for any program, binding of special registers,
memories and width of registers. They assume `ProgramAssumption` (registers that exist; no memory operation hidden in
the function field of another), `BindingAssumption` and `MemoriesAssumption`. The registers and the memory are one scalar instruction
at most behind the reference. What is to come of that instruction is known from its payload alone (`Yields`),
since it carries its operands; and it comes before the next one is decoded, because its access is the head of the queue of a memory that
is not busy (`AtHead`), so that time cannot advance. Where the access has to queue
this fails, and with it the property: that is what `delayed` is in it for, and the third observation of section 6.

### The CIM units

`CimUnitsProofs` proves, for any latencies of memories and network, any number of groups and
macros and any programs, and unless the statement says otherwise for any latencies of the stages:

| Theorem | Statement |
| --- | --- |
| `Invariance` | `Spec => []IInv`, the inductive invariant |
| `TypeOKHolds` | `Spec => []TypeOK` |
| `ReadDataFinishedHolds` | `OneKindOfSparsity` implies `Spec => []ReadDataFinished` |
| `LastGroupInOrder` | in the last group of an instruction, `ActiveInOrder` |
| `ActiveInOrderHolds` | `OneGroupEach` or `StagesInTime` implies `Spec => []ActiveInOrder` |
| `FinishIsOverHolds` | `StagesInTime` implies `Spec => []FinishIsOver` |
| `OutputAfterComputeHolds` | `StagesInTime` and `ShortResultAdder` imply `Spec => []OutputAfterCompute` |

They assume `LatencyAssumption` (times are numbers, the shift adder is a stage with one after it),
`SizeAssumption` (a group has a macro; a macro simulation has no sparsity, `cim_unit.cpp:20`) and
`ProgramsAssumption` (operands are memories, groups and macros that exist; a computation has a
group and a bit). `OneKindOfSparsity`, no instruction with both mask and meta data, cannot be
spared (`CimUnitsBothSparse`). `OneGroupEach` holds of every macro simulation, where one group stands for all, and of one
configured group. `StagesInTime`, no stage of a pipeline takes longer than the IPU, and `ShortResultAdder`, the last
stage takes a cycle at most, hold of all configurations of the repository (where the adder tree takes
two cycles it has two stages), but `checkValid` asks for neither. With a result adder of two cycles
`OutputAfterCompute` fails (`CimUnitsLongAdder`), with a slower stage `FinishIsOver` may (section 6).

*What no latency decides.* This part of the argument needs no time, so its invariant says nothing of
`left` but that it is a number: `Tick` changes nothing else,
except that an instruction may leave decode, which is where the scoreboard counts. All instructions
use the CIM unit, so one does not leave decode while an instruction of the other unit is booked (`Apart`, `UnitsConflict`).
A computation is booked from issue until its last batch enters the last stage of its last group; to
know that this batch has nothing behind it, `InLine` follows the instruction through issue thread,
`processSubIns`, the groups and their stages, with `Given` for a group that has had its part: it comes to
each group once, and a last batch leaves the group without it. So while the last group looks for
active macros the instruction is booked, every set_activation before it has released and none after it
has been taken. Those that have released are those that have taken effect (`ActiveOK`), because
the control unit runs one after the other (`ControlInOrder`) and releases and sets in one step. An
earlier group may still look for macros when the last one has released, if it was given more to do:
that takes the times.

*What latencies decide.* If no stage is slower than the IPU, batches in a pipeline keep the distance at
which they were issued (`PipelineOK`). So a batch that is over in one stage never finds the next one
taken: of those that wait the foremost would be nearer to the one before it than an IPU's time. And
a macro, which gets at most as many batches as its group and gets them first, has issued the last
of them when its group has (`MacrosAlong`), so a group never waits for a macro. Together (`Pipelined`): when
time goes on every batch is under way (`StagesGoOn`) and no group is still looking for active macros
(`NoGroupWaits`). Three invariants follow from that.
`MacrosFirst`: a group looks for macros in the cycle in which it was given its part, when its instruction was booked,
and no control instruction behind it has left decode until that cycle is over.
`LastIsOver`: `OverIn(i, t)` says that all the groups and macros hold of instruction `i` is over in
`t` cycles. The last group is given its part last, and has a batch for every bit; from then on
nothing of `i` takes longer than the last batch of that group, wherever this one is. When it leaves
the last stage, `t` is 0; whatever a group still held in a `Quiet` state would take longer.
`LeavesInTime` and `ReleasedAtLast`: a computation that is neither booked nor finished is in the last stage of its last
group; it entered it booked, so the first control instruction to leave decode leaves a cycle later, when
a result adder of one cycle has ended.

The time a batch has been under way is a sum over the stages (`Upto`), a recursive function, whose
equations need an induction; `UptoFacts` takes the least number for which the sums do not exist.

`OneRead` is the invariant of the reads: of all that the compute unit waits for one access is
under way (`Sole`), so that the event they share means that one. An instruction with mask and meta data is the only one
that asks for two. All these invariants have been checked with TLC before they were proved, on the programs of
`CimUnitsOneSparse`: those that no latency decides with slow stages too, the others on two more
programs with an IPU of three cycles, stages of up to three and two macros.

### The handshakes

`TransmitSocketProofs` proves, for any cores and any programs of sends,
 receives, global loads and stores, those that never complete included:

| Theorem | Statement |
| --- | --- |
| `Invariance` | `Spec => []IInv`, the inductive invariant |
| `TypeCorrect` | `Spec => []TypeOK` |
| `HandshakesConfirmed` | `Spec => []HandshakeConfirmed`: "send-recv not match" is never reported |
| `DataHasItsReader` | `Spec => []DataHasReader`: data is neither lost nor taken for that of another sender |
| `MeetsInOrder` | `TagsAgree` implies `Spec => Implements`: sends and receives meet as `Rendezvous` says |

They assume `NoCoreAssumption` and `ProgramAssumption`: a send or receive names a core.
`MeetsInOrder` also assumes `TagsAgree`: all that goes from one core to another carries one tag. Without an
assumption of this kind it is false, since a receive that waits does not look at the
tag (section 6). It is stronger than what the run needs, where it holds too: that the two programs
list their transfers with the same tags in the same order would do, but to say so means counting along
sequences, an induction.

The argument follows a handshake. `receiver_wait_data_ready_` says nothing of who sent, a
notification nobody waits for is lost, and one map entry per sender holds what has been
heard of it; so the properties rest on there being no second message that could be taken for the first. Of a
sender that waits there is at most one trace: its message, the entry of the map of its
receiver, or the confirmation on its way back (`SenderReadyOK`, `MapOK`,
`ReceiverReadyOK`). The confirmation is sent by the read stage when it starts to wait for the
data, and a receive meets one send (`MetOnce`); so from the confirmation on, the send has
a claim to that stage (`ClaimsOK`), which the data inherits (`DataOK`), and no other data
can have one (`DeliverDataStep`). For the refinement the invariant `JInv` adds who has met already: every
transfer a core has gone past, and no sender whose message or entry still waits, unless its receive is
about to answer (`MetIsServed`). The conjuncts of both invariants have been checked with TLC on the
programs of both runs of `TransmitSocket` before they were proved. Steps that do not touch
handshakes are treated once for all of them (`Quiet`, `NoMeeting`).

### What is only model-checked

* `CimUnits`: `ActiveInOrder` where a stage is slower than the IPU and instructions use more than one group; no run
  has that.
* `Simulation`. `Statistics` walks trees with RECURSIVE operators and `AddressSpace` uses the module
  Bitwise; the prover takes neither, so no module with theorems reaches them. `AddressesExact` and
  `DecodesAsConfigured` are checks of functions on chosen configurations.
* All liveness (`StallEnds`, `Ends`, `Completes`), and so that `TransmitSocket` completes: the prover handles
  neither liveness under fairness nor ENABLED.

Induction over data needs theorems with operator parameters, which the installed provers cannot
instantiate. Where a proof needs one, as for the recursive functions `Copied` and
`InSequence` of `LocalTransfer`, it takes the least element of a set of numbers instead
(`LeastNatural`, `Recursion`).

The theorems of the conflict handler hold for the handler of every unit, that of
the SIMD unit with its functors and scalar inputs included, so one run of the handler is enough.

## 5. What is not modelled, and why

* Reading and writing files: JSON of configurations, ISA encodings, images of memories, the
  layout of reports. A configuration is in the model once it has been read.
* What the chip does, in `Simulation`, and energy, in the modules of the chip: the two
  are joined by the activities only. Time is in whole nanoseconds, and sums do not overflow.
* The counts of instructions (`ins_stat.cpp`) and the checks of registers and memory after
  a test: not part of a simulation, commented out at their callers.
* Decoders V1 and V3: not the one `core.h` selects.
* Illegal programs: an instruction of no batches (a transfer of no bytes between memories
  one byte wide: `ProgramAssumption` of `LocalTransfer`, `ProgramsAssumption` of
  `VectorUnit`), a vector instruction without a functor, a division by zero, an address in no
  memory: the id of the address space then indexes a list unchecked (`memory_unit.cpp:67`).
* A result adder of no cycles in the CIM unit (`LatencyAssumption` of `CimUnits`), which makes the
  control unit wait for a negative time.

## 6. Findings

* **`period_ns` = 1** (`CoreIssuePeriodOne`). The decode thread waits `period_ns - 1`, so
  with the default of `SimConfig`, which the configuration check accepts, decoding
  coincides with the edge. `processUpdatePC` and the FSM act on the stall of the
  instruction before: one starts while what it depends on is in flight. All
  configurations of the repository set a longer period.
* **The tag of a transfer is not confirmed** (`TransmitSocketCrossed`). `doc/ISA.md` says
  both sides use the tag to confirm the transfer. A receive that has to wait is woken by
  any send of its sender, whatever the tag, and answers with the tag of that send. The run
  shows a send and a receive with different tags that meet.
* **Mask and meta data are not waited for** (`CimUnitsBothSparse`). The two readers of the
  CIM compute unit wait on one event, so the read that ends first wakes both, and macro
  groups start before the other has been read, against the comment "wait for read data
  finish". Configurations of the repository switch both kinds of sparsity on.
* **An output may overtake its computation** (`CimUnitsLongAdder`). `doc/ISA.md` says that
  cim-output waits until the cim-compute before it has been executed. The CIM unit is
  released when the last stage of the result adder begins; if that takes more than a cycle,
  the output starts before it ends. All configurations of the repository have one cycle. For
  the same reason `FinishIsOver` needs stages no slower than the IPU: a slower one backs up in
  the groups that are used more, and the last group may report the end first.

Three more things that the models show and no text of the repository contradicts. A scalar
load or store that queues behind an access of another unit takes time, while the unit
is ready at once and books no register, so that what follows is decoded with old values;
`DecodesSequentially` has that premise. A simulation until a given time reports no latency and
no static energy, because only the last core to finish sets the running time (`ReportExact` states
it so). An invalid configuration is never reported as such: the layer's process
dies, and the network simulator with it (`LoadInvalid`, `ReadNothing`).

## 7. Plan

In order of importance:

1. A composition of several cores with the chip, so that `FinishRun` of `Simulation` follows from
   `Ends` of `CoreIssue` instead of being free.
2. Runs of `CimUnits` with stages slower than the IPU and three macro groups: is `ActiveInOrder` kept there, where
   `FinishIsOver` is not?
3. Proofs about `Simulation`, with the trees of `Statistics` written as recursive functions and the bits of
   `AddressSpace` as numbers.
