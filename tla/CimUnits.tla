------------------------------- MODULE CimUnits -------------------------------
(***************************************************************************)
(* The CIM compute unit (core/execute_unit/cim_compute_unit.cpp), the CIM  *)
(* control unit (cim_control_unit.cpp) and the CIM unit they share         *)
(* (core/cim_unit/): macro groups, each a pipeline that decides when an    *)
(* instruction is released and finished, and macros, each a pipeline of    *)
(* its own that runs beside it.                                            *)
(*                                                                         *)
(* Time is counted in clock cycles.  A step of a thread takes no time, and *)
(* time advances (Tick) when no thread can go on, as in the SystemC kernel;*)
(* steps at the same time are taken in any order.  An instruction leaves   *)
(* decode at the beginning of a cycle, if at the end of the one before its *)
(* unit was ready and it conflicted with nothing booked (CoreIssue).       *)
(***************************************************************************)
EXTENDS Resources, Sequences, FiniteSetsExt

CONSTANTS
  Cim,                    \* the memory that is the CIM unit
  ConfigGroupCnt,         \* config_group_cnt_
  Macros,                 \* 1 .. the macros of a group
  MacroSimulation,        \* macro_simulation_: one group stands for all of them
  ValueSparse, BitSparse, \* config_.value_sparse, config_.bit_sparse
  OutputMacroGroupCnt,    \* value_sparse_config.output_macro_group_cnt
  AccessTime,             \* per memory, cycles of an access
  IpuLatency,
  StageLatency,           \* per stage of a pipeline, from sram_read to result_adder
  ShiftAdder,             \* the last stage before the result adder
  NetworkLatency,         \* value_sparse_config.latency_cycle
  ResultAdderLatency,     \* config_.result_adder.latency_cycle
  Programs                \* sequences of instructions: see the assumption

Stages == 1 .. Len(StageLatency)

Groups == IF MacroSimulation THEN {0} ELSE 0 .. ConfigGroupCnt - 1

Operators == {"set_activation", "only_output", "output_sum", "output_sum_move"}

ASSUME LatencyAssumption ==
  /\ Len(StageLatency) \in Nat /\ {ShiftAdder, ShiftAdder + 1} \subseteq Stages
  /\ \A k \in Stages : StageLatency[k] \in Nat
  /\ \A m \in Memories : AccessTime[m] \in Nat
  /\ {IpuLatency, NetworkLatency} \subseteq Nat
  /\ ResultAdderLatency \in Nat \ {0} \* The control unit waits for one cycle less.

ASSUME SizeAssumption ==
  /\ {ConfigGroupCnt, OutputMacroGroupCnt} \subseteq Nat \ {0}
  /\ 1 \in Macros /\ Macros = 1 .. Cardinality(Macros) /\ Cim \in Memories
  /\ {MacroSimulation, ValueSparse, BitSparse} \subseteq BOOLEAN
  /\ MacroSimulation => ~ ValueSparse /\ ~ BitSparse

\* A compute instruction of no groups or no input bits would never be released.
ASSUME ProgramsAssumption ==
  \A p \in Programs :
    /\ Len(p) \in Nat /\ DOMAIN p = 1 .. Len(p)
    /\ \A i \in DOMAIN p :
         \/ /\ p[i].unit = "cim_compute"
            /\ {p[i].input, p[i].mask, p[i].meta} \subseteq Memories
            /\ {p[i].activation_group_num, p[i].input_bit_width} \subseteq Nat \ {0}
            /\ {p[i].value_sparse, p[i].bit_sparse} \subseteq BOOLEAN
         \/ /\ p[i].unit = "cim_control" /\ p[i].op \in Operators
            /\ {p[i].mask, p[i].output} \subseteq Memories
            /\ p[i].groups \subseteq Groups  \* those it sets: one, or all of them
            /\ p[i].columns \subseteq Macros \* those in which it activates a column

VARIABLES
  program, next_ins,
  starting,               \* the instruction that leaves decode in this cycle, or 0
  booked, finished,
  issue,                  \* per unit, the instruction its issue thread holds, or 0
  sub,                    \* processSubIns
  mask, meta,             \* the threads that read value sparse masks, bit sparse meta data
  control,                \* processExecute of the control unit
  queue,                  \* per memory, accesses
  ipu,                    \* per group, the issue threads: 0 its own, then the macros'
  stage,                  \* per group and pipeline, its stages
  active                  \* per group, the macros that have an active column

front == <<next_ins, starting, issue>>
board == <<booked, finished>>
readers == <<sub, mask, meta>>
macro_groups == <<ipu, stage, active>>
cim_vars == <<front, board, readers, control, queue, macro_groups>>
vars == <<program, cim_vars>>

Ids == DOMAIN program
Units == {"cim_compute", "cim_control"}
Pipelines == {0} \cup Macros

Idle == [ins |-> 0, at |-> "idle"]

Init ==
  /\ program \in Programs
  /\ next_ins = 1 /\ starting = 0
  /\ booked = {} /\ finished = {}
  /\ issue = [u \in Units |-> 0]
  /\ sub = Idle /\ mask = 0 /\ meta = 0 /\ control = Idle
  /\ queue = [m \in Memories |-> <<>>]
  /\ ipu = [g \in Groups |-> [n \in Pipelines |-> Idle]]
  /\ stage = [g \in Groups |-> [n \in Pipelines |-> [k \in Stages |-> Idle]]]
  /\ active = [g \in Groups |-> Macros]

-----------------------------------------------------------------------------
(***************************************************************************)
(* Booking.                                                                *)
(***************************************************************************)
UsesMask(i) == ValueSparse /\ program[i].value_sparse

UsesMeta(i) == BitSparse /\ program[i].bit_sparse

LocalReadOf(i) ==
  LET ins == program[i]
  IN  IF ins.unit = "cim_compute"
        THEN {ins.input} \cup (IF UsesMask(i) THEN {ins.mask} ELSE {})
                         \cup (IF UsesMeta(i) THEN {ins.meta} ELSE {})
        ELSE IF ins.op \in {"set_activation", "output_sum"} THEN {ins.mask} ELSE {}

\* Mutant: the CIM unit itself is not booked.
ReadOfLocal(i) == LocalReadOf(i)

ReadOf(i) == {Cim} \cup LocalReadOf(i)

WriteOf(i) ==
  IF program[i].unit = "cim_control" /\ program[i].op # "set_activation"
    THEN {program[i].output} ELSE {}

ConflictInfo(i) ==
  [ins_id |-> i, unit |-> program[i].unit, functor |-> NoFunctor, path |-> NoPath,
   read |-> ReadOf(i), write |-> WriteOf(i)]

Stalled(i) == \E j \in booked : ConflictWithIns(ConflictInfo(j), ConflictInfo(i))

\* Mutant: resources are never released.
ReleaseNever(S, i) == S

\* The release is seen by decode at the end of the cycle.
Release(S, i) == S \ {i}

\* waitForExecuteAndGetPayload, and the booking.
Take ==
  LET i == starting
  IN  /\ i # 0
      /\ starting' = 0
      /\ next_ins' = i + 1
      /\ booked' = booked \cup {i}
      /\ issue' = [issue EXCEPT ![program[i].unit] = i]
      /\ UNCHANGED <<finished, readers, control, queue, macro_groups>>

-----------------------------------------------------------------------------
(***************************************************************************)
(* Memories.  An access of the compute unit that ends notifies its one     *)
(* finish_read_, and whoever waits for a read goes on.                     *)
(***************************************************************************)
Access(who, m) == [who |-> who, left |-> AccessTime[m]]

Asking(q, who, m) == [q EXCEPT ![m] = Append(@, Access(who, m))]

ComputeThreads == {"sub", "mask", "meta"}

\* In a macro simulation the one group reads the inputs of all that it stands for.
InputReads(i) ==
  IF MacroSimulation THEN Min({program[i].activation_group_num, ConfigGroupCnt}) ELSE 1

ReadInputs(i, g, left) ==
  [ins |-> i, at |-> IF left = 0 THEN "run" ELSE "access", group |-> g, left |-> left]

AskInput(q, i, left) == IF left = 0 THEN q ELSE Asking(q, "sub", program[i].input)

\* A read of the compute unit has ended.
WakeReaders(rest) ==
  /\ mask' = 0
  /\ meta' = 0
  /\ IF sub.at = "access"
       THEN /\ sub' = ReadInputs(sub.ins, sub.group, sub.left - 1)
            /\ queue' = AskInput(rest, sub.ins, sub.left - 1)
       ELSE sub' = sub /\ queue' = rest
  /\ UNCHANGED control

\* The control unit has its own socket, and one thread that waits on it.
WakeControl(rest) ==
  /\ control' = [control EXCEPT !.at = IF @ = "read" THEN "have_read" ELSE "written"]
  /\ queue' = rest
  /\ UNCHANGED readers

FinishAccess(m) ==
  /\ queue[m] # <<>> /\ Head(queue[m]).left = 0
  /\ LET rest == [queue EXCEPT ![m] = Tail(@)]
     IN  IF Head(queue[m]).who \in ComputeThreads THEN WakeReaders(rest) ELSE WakeControl(rest)
  /\ UNCHANGED <<front, board, macro_groups>>

-----------------------------------------------------------------------------
(***************************************************************************)
(* The compute unit.                                                       *)
(***************************************************************************)

\* The issue thread hands over; mask and meta data are read in parallel.
StartSub ==
  LET i == issue["cim_compute"]
      with_mask == IF UsesMask(i) THEN Asking(queue, "mask", program[i].mask) ELSE queue
  IN  /\ i # 0 /\ sub = Idle
      /\ issue' = [issue EXCEPT !["cim_compute"] = 0]
      /\ sub' = [ins |-> i, at |-> "reading"]
      /\ mask' = IF UsesMask(i) THEN i ELSE mask
      /\ meta' = IF UsesMeta(i) THEN i ELSE meta
      /\ queue' = IF UsesMeta(i) THEN Asking(with_mask, "meta", program[i].meta) ELSE with_mask
      /\ UNCHANGED <<next_ins, starting, board, control, macro_groups>>

\* Mutant: mask and meta data are not waited for.
DataReadAlways == TRUE

DataRead == mask = 0 /\ meta = 0

\* Then the inputs of the first group.
FinishReadData ==
  /\ sub.at = "reading"
  /\ DataRead
  /\ sub' = ReadInputs(sub.ins, 0, InputReads(sub.ins))
  /\ queue' = AskInput(queue, sub.ins, InputReads(sub.ins))
  /\ UNCHANGED <<front, board, mask, meta, control, macro_groups>>

GroupCnt(i) == Min({program[i].activation_group_num, Cardinality(Groups)})

\* On to the inputs of the next group, or to the next instruction.
NextGroup ==
  IF sub.group = GroupCnt(sub.ins) - 1
    THEN sub' = Idle /\ queue' = queue
    ELSE /\ sub' = ReadInputs(sub.ins, sub.group + 1, InputReads(sub.ins))
         /\ queue' = AskInput(queue, sub.ins, InputReads(sub.ins))

ThroughNetwork == UsesMask(sub.ins) /\ (sub.group + 1) % OutputMacroGroupCnt = 0

RunMacroGroup ==
  /\ sub.at = "run"
  /\ ipu[sub.group][0] = Idle
  /\ ipu' = [ipu EXCEPT ![sub.group][0] = [ins |-> sub.ins, at |-> "macros", macro |-> 1]]
  /\ IF ThroughNetwork
       THEN /\ sub' = [sub EXCEPT !.at = "network", !.left = NetworkLatency]
            /\ queue' = queue
       ELSE NextGroup
  /\ UNCHANGED <<front, board, mask, meta, control, stage, active>>

LeaveNetwork ==
  /\ sub.at = "network" /\ sub.left = 0
  /\ NextGroup
  /\ UNCHANGED <<front, board, mask, meta, control, macro_groups>>

-----------------------------------------------------------------------------
(***************************************************************************)
(* The macro groups.  Pipeline 0 of a group is its own, pipeline n that of *)
(* its n-th macro, which has as many batches as its inputs need: up to one *)
(* for each bit, none if they are all zero.                                *)
(***************************************************************************)
Batches(i, count) == [ins |-> i, at |-> "ipu", batch |-> 0, count |-> count, left |-> IpuLatency]

StartMacro(g) ==
  LET own == ipu[g][0]
      n == own.macro
      width == program[own.ins].input_bit_width
      then == IF n + 1 \in Macros THEN [own EXCEPT !.macro = n + 1] ELSE Batches(own.ins, width)
  IN  /\ own.at = "macros"
      /\ ipu[g][n] = Idle
      /\ \E count \in IF n \in active[g] THEN 0 .. width ELSE {0} :
           ipu' = [ipu EXCEPT ![g][0] = then,
                              ![g][n] = IF count = 0 THEN Idle ELSE Batches(own.ins, count)]
      /\ UNCHANGED <<front, board, readers, control, queue, stage, active>>

InStage(s, k) ==
  [ins |-> s.ins, at |-> "execute", last |-> s.last, left |-> StageLatency[k]]

IssueBatch(g, n) ==
  LET s == ipu[g][n]
      last == s.batch = s.count - 1
  IN  /\ s.at = "ipu" /\ s.left = 0
      /\ stage[g][n][1] = Idle
      /\ stage' = [stage EXCEPT ![g][n][1] = InStage([ins |-> s.ins, last |-> last], 1)]
      /\ ipu' = [ipu EXCEPT ![g][n] =
                   IF last THEN Idle ELSE [s EXCEPT !.batch = @ + 1, !.left = IpuLatency]]
      /\ UNCHANGED <<front, board, readers, control, queue, active>>

\* Mutant: the first group releases and finishes.
LastGroupFirst(g, i) == g = 0

\* Mutant: off by one.
LastGroupLate(g, i) == g = GroupCnt(i)

LastGroup(g, i) == g = GroupCnt(i) - 1

\* The shift adder passes on the last batch only.  The last stage of the last group
\* releases when it begins.
NextStage(g, n, k) ==
  LET s == stage[g][n][k]
      goes_on == k = ShiftAdder => s.last
      releases == n = 0 /\ goes_on /\ k + 1 = Len(StageLatency) /\ LastGroup(g, s.ins)
  IN  /\ k < Len(StageLatency)
      /\ s # Idle /\ s.left = 0
      /\ goes_on => stage[g][n][k + 1] = Idle
      /\ stage' = [stage EXCEPT ![g][n][k] = Idle,
                                ![g][n][k + 1] = IF goes_on THEN InStage(s, k + 1) ELSE @]
      /\ booked' = IF releases THEN Release(booked, s.ins) ELSE booked
      /\ UNCHANGED <<front, finished, readers, control, queue, ipu, active>>

EndStage(g, n) ==
  LET k == Len(StageLatency)
      s == stage[g][n][k]
  IN  /\ s # Idle /\ s.left = 0
      /\ stage' = [stage EXCEPT ![g][n][k] = Idle]
      /\ finished' = IF n = 0 /\ LastGroup(g, s.ins) THEN finished \cup {s.ins} ELSE finished
      /\ UNCHANGED <<front, booked, readers, control, queue, ipu, active>>

-----------------------------------------------------------------------------
(***************************************************************************)
(* The control unit.                                                       *)
(***************************************************************************)
Executing(i, at, left) == [ins |-> i, at |-> at, left |-> left]

\* What an operation begins with.
FirstStep(op) ==
  CASE op \in {"set_activation", "output_sum"} -> "read"
    [] op = "output_sum_move" -> "sum"
    [] op = "only_output" -> "write"

StartControl ==
  LET i == issue["cim_control"]
      at == FirstStep(program[i].op)
  IN  /\ i # 0 /\ control = Idle
      /\ issue' = [issue EXCEPT !["cim_control"] = 0]
      /\ control' = Executing(i, at, IF at = "sum" THEN ResultAdderLatency - 1 ELSE 0)
      /\ queue' = CASE at = "read" -> Asking(queue, "control", program[i].mask)
                    [] at = "write" -> Asking(queue, "control", program[i].output)
                    [] OTHER -> queue
      /\ booked' = IF at = "write" THEN Release(booked, i) ELSE booked
      /\ UNCHANGED <<next_ins, starting, finished, readers, macro_groups>>

\* The columns are set when resources have been released, in the same step.
SetActivation ==
  /\ control.at = "have_read" /\ program[control.ins].op = "set_activation"
  /\ booked' = Release(booked, control.ins)
  /\ active' = [g \in Groups |-> IF g \in program[control.ins].groups
                                   THEN program[control.ins].columns ELSE active[g]]
  /\ finished' = finished \cup {control.ins}
  /\ control' = Idle
  /\ UNCHANGED <<front, readers, queue, ipu, stage>>

OutputSum ==
  /\ control.at = "have_read" /\ program[control.ins].op = "output_sum"
  /\ control' = Executing(control.ins, "sum", ResultAdderLatency - 1)
  /\ UNCHANGED <<front, board, readers, queue, macro_groups>>

WriteSum ==
  /\ control.at = "sum" /\ control.left = 0
  /\ booked' = Release(booked, control.ins)
  /\ control' = Executing(control.ins, "write", 0)
  /\ queue' = Asking(queue, "control", program[control.ins].output)
  /\ UNCHANGED <<front, finished, readers, macro_groups>>

EndOutput ==
  /\ control.at = "written"
  /\ finished' = finished \cup {control.ins}
  /\ control' = Idle
  /\ UNCHANGED <<front, booked, readers, queue, macro_groups>>

-----------------------------------------------------------------------------
MacroGroup(g) ==
  \/ StartMacro(g)
  \/ \E n \in Pipelines : \/ IssueBatch(g, n) \/ EndStage(g, n)
                          \/ \E k \in Stages : NextStage(g, n, k)

\* What takes no time.
Instant ==
  \/ Take \/ \E m \in Memories : FinishAccess(m)
  \/ StartSub \/ FinishReadData \/ RunMacroGroup \/ LeaveNetwork
  \/ \E g \in Groups : MacroGroup(g)
  \/ StartControl \/ SetActivation \/ OutputSum \/ WriteSum \/ EndOutput

\* No thread can go on: the guards of Instant, all false.
Quiet ==
  /\ starting = 0
  /\ \A m \in Memories : queue[m] # <<>> => Head(queue[m]).left # 0
  /\ issue["cim_compute"] # 0 => sub # Idle
  /\ issue["cim_control"] # 0 => control # Idle
  /\ sub.at = "reading" => ~ DataRead
  /\ sub.at = "run" => ipu[sub.group][0] # Idle
  /\ sub.at = "network" => sub.left # 0
  /\ control.at \notin {"have_read", "written"}
  /\ control.at = "sum" => control.left # 0
  /\ \A g \in Groups :
       /\ ipu[g][0].at = "macros" => ipu[g][ipu[g][0].macro] # Idle
       /\ \A n \in Pipelines :
            /\ ipu[g][n].at = "ipu" /\ ipu[g][n].left = 0 => stage[g][n][1] # Idle
            /\ \A k \in Stages :
                 LET s == stage[g][n][k]
                 IN  s # Idle /\ s.left = 0 =>
                       /\ k < Len(StageLatency)
                       /\ k = ShiftAdder => s.last
                       /\ stage[g][n][k + 1] # Idle

Later(left) == IF left = 0 THEN 0 ELSE left - 1

Aged(s) == IF "left" \in DOMAIN s /\ s.at # "access" THEN [s EXCEPT !.left = Later(@)] ELSE s

Leaves(i) == i \in Ids /\ issue[program[i].unit] = 0 /\ ~ Stalled(i)

\* A cycle passes: every latency, and the access at the head of each queue.
Tick ==
  /\ Quiet
  /\ finished # Ids
  /\ sub' = Aged(sub) /\ control' = Aged(control)
  /\ queue' = [m \in Memories |->
                 IF queue[m] = <<>> THEN <<>> ELSE [queue[m] EXCEPT ![1].left = Later(@)]]
  /\ ipu' = [g \in Groups |-> [n \in Pipelines |-> Aged(ipu[g][n])]]
  /\ stage' = [g \in Groups |-> [n \in Pipelines |-> [k \in Stages |-> Aged(stage[g][n][k])]]]
  /\ starting' = IF Leaves(next_ins) THEN next_ins ELSE 0
  /\ UNCHANGED <<next_ins, issue, board, mask, meta, active>>

Next == (Instant \/ Tick) /\ UNCHANGED program

Spec == Init /\ [][Next]_vars

\* The kernel runs until nothing is left to do.
FairSpec == Spec /\ WF_vars(Next)

-----------------------------------------------------------------------------
(***************************************************************************)
(* Properties.                                                             *)
(***************************************************************************)

\* The threads hold instructions that have left decode, in the group they may be in.
TypeOK ==
  /\ next_ins \in 1 .. Len(program) + 1 /\ starting \in {0, next_ins}
  /\ booked \subseteq 1 .. next_ins - 1 /\ finished \subseteq 1 .. next_ins - 1
  /\ finished \cap booked = {}
  /\ sub # Idle => program[sub.ins].unit = "cim_compute"
  /\ sub.at \in {"access", "run", "network"} => sub.group \in 0 .. GroupCnt(sub.ins) - 1
  /\ \A m \in Memories : \A a \in DOMAIN queue[m] : queue[m][a].left \in 0 .. AccessTime[m]
  /\ \A g \in Groups : active[g] \subseteq Macros

\* The accesses of a thread that are not over.
UnderWay(who) == {m \in Memories : \E a \in DOMAIN queue[m] : queue[m][a].who = who}

\* "wait for read data finish" (cim_compute_unit.cpp:110): no group is given work before
\* mask, meta data and its inputs have been read.
ReadDataFinished ==
  /\ sub.at \in {"access", "run", "network"} => UnderWay("mask") = {} /\ UnderWay("meta") = {}
  /\ sub.at \in {"run", "network"} => UnderWay("sub") = {}

InMacroGroups(i) ==
  \E g \in Groups : \E n \in Pipelines :
    ipu[g][n].ins = i \/ \E k \in Stages : stage[g][n][k].ins = i

\* The last stage of the last group alone reports the end of an instruction
\* (macro_group_module.cpp:64): when it has, and time goes on, no group and no macro
\* still works on the instruction.  It holds of pipelines no stage of which is slower than
\* the IPU: a slower one backs up in a group that the instruction before used too.
FinishIsOver ==
  Quiet => \A i \in finished : ~ InMacroGroups(i)

\* "needs to wait until the cim-compute before it has been executed" (doc/ISA.md:172).
OutputAfterCompute ==
  Quiet /\ control # Idle /\ program[control.ins].op # "set_activation" =>
    \A i \in 1 .. control.ins - 1 :
      program[i].unit = "cim_compute" => i \in finished /\ ~ InMacroGroups(i)

\* The macros an instruction finds active are those that the last set_activation before
\* it in the program activated, though compute instructions overlap and the columns are
\* read and written without a lock (macro.cpp:100, macro_group.cpp:57-67).
SetBefore(i, g) ==
  {j \in 1 .. i - 1 : /\ program[j].unit = "cim_control"
                      /\ program[j].op = "set_activation" /\ g \in program[j].groups}

ActiveInOrder ==
  \A g \in Groups :
    ipu[g][0].at = "macros" =>
      LET sets == SetBefore(ipu[g][0].ins, g)
      IN  active[g] = IF sets = {} THEN Macros ELSE program[Max(sets)].columns

\* Every instruction is finished.
Completes == <>(finished = Ids)

=============================================================================
