------------------------------ MODULE CoreIssue ------------------------------
(***************************************************************************)
(* The front end of a core (core/core.cpp) with the part of its execution  *)
(* units that every unit shares (core/execute_unit/execute_unit.cpp), the  *)
(* FSM and the clock between them (base_component) and one conflict        *)
(* handler per unit, as the SystemC kernel runs them: delta cycle by delta *)
(* cycle.                                                                  *)
(*                                                                         *)
(* The kernel.  A process that is runnable runs to its next wait, in any   *)
(* order with the others; a signal written takes its value, and wakes the  *)
(* processes sensitive to it, in the next delta cycle; so does an event    *)
(* notified with SC_ZERO_TIME; an event notified at once makes its         *)
(* processes runnable in the same delta cycle.  Time advances when nothing *)
(* is left to do, between the two instants of a clock period: "decode",    *)
(* 1 ns before the edge, and "edge".  They are one if the period is 1 ns,  *)
(* the default of SimConfig; no configuration of the repository has it.    *)
(* The standard leaves the order of the processes of a delta cycle open,   *)
(* and so does Next.  The reference implementation, which                  *)
(* src/CMakeLists.txt:12 builds the simulator with, runs all methods       *)
(* before the threads: joined records whether ReleaseResource, the only    *)
(* step for which it matters, has been in another order.                   *)
(*                                                                         *)
(* What a unit does with an instruction once it has taken it is its        *)
(* environment here: it becomes ready for the next one, releases what it   *)
(* booked and finishes, at any time.                                       *)
(***************************************************************************)
EXTENDS Resources, Sequences, FiniteSets

CONSTANTS
  Units,     \* the execution units of the core
  Program,   \* ins_list_: kinds of instructions, each with its set inc of PC increments
  PeriodIsOne,  \* whether period_ns is 1: decoding coincides with the clock edge
  MaxIns     \* bound on the instructions decoded: no jump back beyond it

ASSUME PeriodAssumption == PeriodIsOne \in BOOLEAN

ASSUME UnitsAssumption ==
  Units \subseteq {"scalar", "simd", "reduce", "transfer", "cim_compute", "cim_control"}

\* What decoder_v2.cpp puts in a payload: every SIMD and reduce instruction has a
\* functor (one without is not issued).  A jump leads to an instruction, or past the
\* last one.
ASSUME ProgramAssumption ==
  /\ Program \in Seq([unit : Units \cup {"control", "none"},
                      functor : Functors \cup {NoFunctor}, path : DataPath,
                      read : SUBSET Memories, write : SUBSET Memories,
                      inc : SUBSET Int])
  /\ \A i \in 1 .. Len(Program) :
       LET ins == Program[i]
       IN  /\ ins.functor = NoFunctor <=> ins.unit \notin {"simd", "reduce"}
           /\ ins.unit # "control" => ins.inc = {1}
           /\ \A inc \in ins.inc : inc # 0 /\ i + inc >= 1
           /\ \E inc \in ins.inc : inc > 0

VARIABLES
  phase, runnable, notified, signal, next_value,           \* the kernel
  ins_index, pc_increment, cur_ins_payload,                \* core.h
  cur_ins_conflict_info, ins_id, finish_run_calls,
  is_pos_edge, pos_edge_events, is_ready,                  \* clock.h, fsm.h
  waiting, running_ins_cnt, release_list, finish_decode,   \* execute_unit.h
  finish_run,
  holding, executing,                                      \* the units' pipelines
  ins_map, path_map,                                       \* conflict_handler.h
  passed, taken, joined                                    \* history

kernel == <<phase, runnable, notified, signal, next_value>>
core == <<ins_index, pc_increment, cur_ins_payload, cur_ins_conflict_info, ins_id,
          finish_run_calls>>
clock == <<is_pos_edge, pos_edge_events, is_ready>>
unit == <<waiting, running_ins_cnt, release_list, finish_decode, finish_run>>
pipeline == <<holding, executing>>
tables == <<ins_map, path_map>>
history == <<passed, taken, joined>>

vars == <<kernel, core, clock, unit, pipeline, tables, history>>

Nothing == EmptyPayload("none")

\* An instruction of the history, with the unit it went to.
Entry(u, id) == [unit |-> u, ins_id |-> id]

-----------------------------------------------------------------------------
(***************************************************************************)
(* Signals, with the processes that are sensitive to them.  A payload that *)
(* is a null pointer, or not valid, is Nothing.                            *)
(***************************************************************************)
CoreSignals == {<<"id_finish", "core">>, <<"id_stall", "core">>}

UnitSignals ==
  {"id_ex_payload", "id_ex_enable", "ready", "resource_allocate",
   "resource_release", "unit_finish", "conflict", "fsm_in", "fsm_out"} \X Units

Signals == CoreSignals \cup UnitSignals

Sensitive(s) ==
  LET u == s[2]
  IN  CASE s[1] = "id_finish" -> {<<"processStall", "core">>} \cup ({"processIdFinish"} \X Units)
        [] s[1] = "id_stall" -> {<<"processIssue", "core">>, <<"processIdExEnable", "core">>}
        [] s[1] = "id_ex_payload" -> {<<"checkInst", u>>}
        [] s[1] = "id_ex_enable" -> {<<"fsmProcessEnable", u>>}
        [] s[1] = "ready" -> {<<"processUnitResourceConflict", u>>}
        [] s[1] = "resource_allocate" -> {<<"processUnitResourceAllocate", u>>}
        [] s[1] = "resource_release" -> {<<"processUnitResourceRelease", u>>}
        [] s[1] = "unit_finish" -> {<<"processFinishRun", "core">>}
        [] s[1] = "conflict" -> {<<"processStall", "core">>}
        [] s[1] = "fsm_in" -> {<<"fsmProcessInput", u>>}
        [] OTHER -> {}

(***************************************************************************)
(* What a process does to the kernel.                                      *)
(***************************************************************************)

\* It runs, and makes others runnable in the same delta cycle.
Run(process, woken) ==
  /\ process \in runnable
  /\ runnable' = (runnable \ {process}) \cup woken
  /\ UNCHANGED <<phase, signal>>

\* It notifies others for the next delta cycle.
Notify(processes) == notified' = notified \cup processes

\* It writes a signal: the last value of a delta cycle counts.
Write(s, value) == next_value' = [next_value EXCEPT ![s] = value]

\* It writes the signal of this name of every unit.
WriteEach(name, values) ==
  next_value' = [s \in Signals |-> IF s[1] = name THEN values[s[2]] ELSE next_value[s]]

WriteNothing == UNCHANGED next_value
NotifyNobody == UNCHANGED notified

Changed == {s \in Signals : next_value[s] # signal[s]}

\* Nothing is left to do at this point of time.
Quiescent == runnable = {} /\ notified = {} /\ Changed = {}

\* start_exec_ is lost if the thread of the unit is not waiting for it.
Heard(process) == process[1] = "execute" => waiting[process[2]]

DeltaCycle ==
  /\ runnable = {}
  /\ ~ Quiescent
  /\ runnable' = {p \in notified : Heard(p)} \cup UNION {Sensitive(s) : s \in Changed}
  /\ notified' = {}
  /\ signal' = next_value
  /\ UNCHANGED <<phase, next_value, core, clock, unit, pipeline, tables, history>>

AtDecode == {<<"processDecode", "core">>}
AtEdge == {<<"clockProcess", "core">>, <<"processUpdatePC", "core">>}

AdvanceTime ==
  /\ Quiescent
  /\ IF PeriodIsOne
       THEN runnable' = AtDecode \cup AtEdge /\ UNCHANGED phase
       ELSE \/ phase = "edge" /\ phase' = "decode" /\ runnable' = AtDecode
            \/ phase = "decode" /\ phase' = "edge" /\ runnable' = AtEdge
  /\ UNCHANGED <<notified, signal, next_value, core, clock, unit, pipeline, tables, history>>

-----------------------------------------------------------------------------
(***************************************************************************)
(* The threads and methods of the core.                                    *)
(***************************************************************************)
Decoding == cur_ins_conflict_info.unit = "none"

CurIns == Program[ins_index + 1]

\* A jump goes back only while there is room for more instructions.
Increments == {inc \in CurIns.inc : inc > 0 \/ ins_id + Len(Program) < MaxIns}

\* decode, with what it calls in decoder_v2.cpp: decode_new_ins_trigger_ is
\* notified at once.
DecodeIns ==
  LET payload == PayloadOf(CurIns, ins_id + 1)
  IN  /\ Run(<<"processDecode", "core">>,
             {<<"processIssue", "core">>} \cup ({"processUnitResourceConflict"} \X Units))
      /\ Decoding
      /\ ins_index < Len(Program)
      /\ pc_increment' \in Increments
      /\ ins_id' = ins_id + 1
      /\ cur_ins_payload' = payload
      /\ cur_ins_conflict_info' = payload
      /\ WriteNothing /\ NotifyNobody
      /\ UNCHANGED <<ins_index, finish_run_calls, clock, unit, pipeline, tables, history>>

DecodeFinish ==
  /\ Run(<<"processDecode", "core">>, {})
  /\ Decoding
  /\ ins_index >= Len(Program)
  /\ pc_increment' = 0
  /\ Write(<<"id_finish", "core">>, TRUE)
  /\ NotifyNobody
  /\ UNCHANGED <<ins_index, cur_ins_payload, cur_ins_conflict_info, ins_id,
                 finish_run_calls, clock, unit, pipeline, tables, history>>

DecodeStalled ==
  /\ Run(<<"processDecode", "core">>, {})
  /\ ~ Decoding
  /\ WriteNothing /\ NotifyNobody
  /\ UNCHANGED <<core, clock, unit, pipeline, tables, history>>

ProcessUpdatePC ==
  /\ Run(<<"processUpdatePC", "core">>, {})
  /\ IF signal[<<"id_stall", "core">>]
       THEN UNCHANGED <<ins_index, cur_ins_conflict_info, passed>>
       ELSE /\ ins_index' = ins_index + pc_increment
            /\ cur_ins_conflict_info' = Nothing
            /\ passed' = IF cur_ins_conflict_info.unit \in Units
                           THEN Append(passed, Entry(cur_ins_conflict_info.unit,
                                                     cur_ins_conflict_info.ins_id))
                           ELSE passed
  /\ WriteNothing /\ NotifyNobody
  /\ UNCHANGED <<pc_increment, cur_ins_payload, ins_id, finish_run_calls, clock, unit,
                 pipeline, tables, taken, joined>>

\* The payload goes to its unit, a null pointer to all others.
ProcessIssue ==
  /\ Run(<<"processIssue", "core">>, {})
  /\ IF cur_ins_payload.ins_id = -1
       THEN WriteNothing
       ELSE WriteEach("id_ex_payload",
                      [u \in Units |-> IF u = cur_ins_payload.unit THEN cur_ins_payload
                                                                   ELSE Nothing])
  /\ NotifyNobody
  /\ UNCHANGED <<core, clock, unit, pipeline, tables, history>>

ProcessStall ==
  /\ Run(<<"processStall", "core">>, {})
  /\ Write(<<"id_stall", "core">>,
           \/ signal[<<"id_finish", "core">>]
           \/ \E u \in Units : signal[<<"conflict", u>>])
  /\ NotifyNobody
  /\ UNCHANGED <<core, clock, unit, pipeline, tables, history>>

ProcessIdExEnable ==
  /\ Run(<<"processIdExEnable", "core">>, {})
  /\ WriteEach("id_ex_enable", [u \in Units |-> ~ signal[<<"id_stall", "core">>]])
  /\ NotifyNobody
  /\ UNCHANGED <<core, clock, unit, pipeline, tables, history>>

\* finish_run_call_ tells the chip, which stops the simulation after the last core.
ProcessFinishRun ==
  /\ Run(<<"processFinishRun", "core">>, {})
  /\ finish_run_calls' =
       IF \A u \in Units : signal[<<"unit_finish", u>>] THEN finish_run_calls + 1
                                                        ELSE finish_run_calls
  /\ WriteNothing /\ NotifyNobody
  /\ UNCHANGED <<ins_index, pc_increment, cur_ins_payload, cur_ins_conflict_info, ins_id,
                 clock, unit, pipeline, tables, history>>

-----------------------------------------------------------------------------
(***************************************************************************)
(* The clock and the FSM of each unit.                                     *)
(***************************************************************************)
ClockProcess ==
  /\ Run(<<"clockProcess", "core">>, {"fsmProcess"} \X pos_edge_events)
  /\ is_pos_edge' = TRUE
  /\ pos_edge_events' = {}
  /\ Notify({<<"endPosEdge", "core">>})
  /\ WriteNothing
  /\ UNCHANGED <<is_ready, core, unit, pipeline, tables, history>>

EndPosEdge ==
  /\ Run(<<"endPosEdge", "core">>, {})
  /\ is_pos_edge' = FALSE
  /\ WriteNothing /\ NotifyNobody
  /\ UNCHANGED <<pos_edge_events, is_ready, core, unit, pipeline, tables, history>>

\* Mutant: the stall of the decode stage does not hold the FSM back.
StartsStalled(u) ==
  is_ready[u] /\ is_pos_edge /\ signal[<<"fsm_in", u>>] # Nothing

Starts(u) ==
  /\ is_ready[u]
  /\ signal[<<"id_ex_enable", u>>]
  /\ is_pos_edge
  /\ signal[<<"fsm_in", u>>] # Nothing

FsmProcess(u) ==
  /\ Run(<<"fsmProcess", u>>, {})
  /\ IF Starts(u)
       THEN /\ is_ready' = [is_ready EXCEPT ![u] = FALSE]
            /\ Notify({<<"execute", u>>})
            /\ Write(<<"fsm_out", u>>, signal[<<"fsm_in", u>>])
       ELSE /\ UNCHANGED is_ready
            /\ WriteNothing /\ NotifyNobody
  /\ UNCHANGED <<is_pos_edge, pos_edge_events, core, unit, pipeline, tables, history>>

\* Its other methods only ask for a call of process at the next edge.
AskNextPosEdge(process, u, asks) ==
  /\ Run(<<process, u>>, {})
  /\ pos_edge_events' = IF asks THEN pos_edge_events \cup {u} ELSE pos_edge_events
  /\ WriteNothing /\ NotifyNobody
  /\ UNCHANGED <<is_pos_edge, core, unit, pipeline, tables, history>>

FsmProcessInput(u) ==
  /\ AskNextPosEdge("fsmProcessInput", u, signal[<<"fsm_in", u>>] # Nothing)
  /\ UNCHANGED is_ready

\* Mutant: an instruction that had to wait is not looked at again.
FsmProcessEnableOnce(u) ==
  /\ AskNextPosEdge("fsmProcessEnable", u, FALSE)
  /\ UNCHANGED is_ready

FsmProcessEnable(u) ==
  /\ AskNextPosEdge("fsmProcessEnable", u, signal[<<"id_ex_enable", u>>])
  /\ UNCHANGED is_ready

FsmFinishExec(u) ==
  /\ AskNextPosEdge("fsmFinishExec", u, TRUE)
  /\ is_ready' = [is_ready EXCEPT ![u] = TRUE]

-----------------------------------------------------------------------------
(***************************************************************************)
(* The methods of an execution unit.                                       *)
(***************************************************************************)
CheckInst(u) ==
  LET payload == signal[<<"id_ex_payload", u>>]
  IN  /\ Run(<<"checkInst", u>>, {})
      /\ Write(<<"fsm_in", u>>, IF payload.unit = u THEN payload ELSE Nothing)
      /\ NotifyNobody
      /\ UNCHANGED <<core, clock, unit, pipeline, tables, history>>

\* The unit's thread takes an instruction, books it and passes it on to its
\* stages; if they are free it is ready for the next one in the same breath, and
\* the FALSE written to ready_ is never seen.
Execute(u, scalars, free) ==
  LET ins == signal[<<"fsm_out", u>>]
  IN  /\ Run(<<"execute", u>>, {})
      /\ waiting[u]
      /\ next_value' = [next_value EXCEPT ![<<"ready", u>>] = free,
                            ![<<"resource_allocate", u>>] = Booking(ins, scalars)]
      /\ Notify(IF free THEN {<<"fsmFinishExec", u>>} ELSE {})
      /\ waiting' = [waiting EXCEPT ![u] = free]
      /\ running_ins_cnt' = [running_ins_cnt EXCEPT ![u] = @ + 1]
      /\ holding' = [holding EXCEPT ![u] = @ \cup {ins.ins_id}]
      /\ executing' = [executing EXCEPT ![u] = @ \cup {ins.ins_id}]
      /\ taken' = Append(taken, Entry(u, ins.ins_id))
      /\ UNCHANGED <<core, clock, release_list, finish_decode, finish_run, tables, passed, joined>>

\* Mutant: the end of decoding ends a unit that is still running.
IdleAlways(u) == TRUE

Idle(u) == running_ins_cnt[u] = 0

ProcessIdFinish(u) ==
  LET id_finish == signal[<<"id_finish", "core">>]
  IN  /\ Run(<<"processIdFinish", u>>, {})
      /\ finish_decode' = [finish_decode EXCEPT ![u] = @ \/ id_finish]
      /\ finish_run' = [finish_run EXCEPT ![u] = @ \/ (id_finish /\ Idle(u))]
      /\ Notify(IF id_finish /\ Idle(u) THEN {<<"unitProcessFinishRun", u>>} ELSE {})
      /\ WriteNothing
      /\ UNCHANGED <<core, clock, waiting, running_ins_cnt, release_list, pipeline,
                     tables, history>>

ProcessReleaseResource(u) ==
  /\ Run(<<"processReleaseResource", u>>, {})
  /\ Write(<<"resource_release", u>>, release_list[u])
  /\ release_list' = [release_list EXCEPT ![u] = {}]
  /\ NotifyNobody
  /\ UNCHANGED <<core, clock, waiting, running_ins_cnt, finish_decode, finish_run,
                 pipeline, tables, history>>

UnitProcessFinishRun(u) ==
  /\ Run(<<"unitProcessFinishRun", u>>, {})
  /\ Write(<<"unit_finish", u>>, finish_run[u])
  /\ NotifyNobody
  /\ UNCHANGED <<core, clock, unit, pipeline, tables, history>>

-----------------------------------------------------------------------------
(***************************************************************************)
(* The conflict handler of a unit, as in ConflictHandler.                  *)
(***************************************************************************)
ProcessUnitResourceAllocate(u) ==
  LET new == signal[<<"resource_allocate", u>>]
  IN  /\ Run(<<"processUnitResourceAllocate", u>>, {})
      /\ IF new.ins_id # -1 /\ \A p \in ins_map[u] : p.ins_id # new.ins_id
           THEN /\ ins_map' = [ins_map EXCEPT ![u] = @ \cup {new}]
                /\ path_map' = [path_map EXCEPT ![u][UniqueId(new.path)] = Plus(@, new)]
                /\ Notify({<<"processUnitResourceConflict", u>>})
           ELSE UNCHANGED tables /\ NotifyNobody
      /\ WriteNothing
      /\ UNCHANGED <<core, clock, unit, pipeline, history>>

ProcessUnitResourceRelease(u) ==
  LET freed == {p \in ins_map[u] : p.ins_id \in signal[<<"resource_release", u>>]}
      rest  == ins_map[u] \ freed
  IN  /\ Run(<<"processUnitResourceRelease", u>>, {})
      /\ IF freed # {}
           THEN /\ ins_map' = [ins_map EXCEPT ![u] = rest]
                /\ \E last \in [{k \in PathKeys : On(rest, k) # {}} -> rest] :
                     /\ \A k \in DOMAIN last : last[k] \in On(rest, k)
                     /\ path_map' = [path_map EXCEPT ![u] = PathMapAfter(@, u, freed, rest, last)]
                /\ Notify({<<"processUnitResourceConflict", u>>})
           ELSE UNCHANGED tables /\ NotifyNobody
      /\ WriteNothing
      /\ UNCHANGED <<core, clock, unit, pipeline, history>>

\* Mutant: a unit looks only at its own instructions.
UnitConflictOwn(u) == u = cur_ins_conflict_info.unit /\ ~ signal[<<"ready", u>>]

\* Mutant: a unit that is not ready is no conflict.
UnitConflictNotReady(u) ==
  \E k \in PathKeys : ConflictWithIns(path_map[u][k], cur_ins_conflict_info)

UnitConflict(u) ==
  \/ u = cur_ins_conflict_info.unit /\ ~ signal[<<"ready", u>>]
  \/ \E k \in PathKeys : ConflictWithIns(path_map[u][k], cur_ins_conflict_info)

ProcessUnitResourceConflict(u) ==
  /\ Run(<<"processUnitResourceConflict", u>>, {})
  /\ Write(<<"conflict", u>>, UnitConflict(u))
  /\ NotifyNobody
  /\ UNCHANGED <<core, clock, unit, pipeline, tables, history>>

-----------------------------------------------------------------------------
(***************************************************************************)
(* What the pipelines of a unit do, called by processes of its own.        *)
(***************************************************************************)

\* The unit's thread goes back to waiting for the next instruction.
ReadyForNextExecute(u) ==
  /\ ~ waiting[u]
  /\ waiting' = [waiting EXCEPT ![u] = TRUE]
  /\ Write(<<"ready", u>>, TRUE)
  /\ Notify({<<"fsmFinishExec", u>>})
  /\ UNCHANGED <<phase, runnable, signal, core, clock, running_ins_cnt, release_list,
                 finish_decode, finish_run, pipeline, tables, history>>

\* Mutant: the list remembers the last release only.
ReleaseListLast(u, id) == {id}

ReleaseList(u, id) == release_list[u] \cup {id}

(***************************************************************************)
(* A release takes those along that it finds in the list, and the list is  *)
(* emptied when processReleaseResource runs.  In a delta cycle in which    *)
(* that method has yet to run for an earlier release, a later one would    *)
(* join it one delta cycle early, and if its instruction was taken in this *)
(* delta cycle be seen by the conflict handler before the booking: the CIM *)
(* control unit gets there when the mask read of a set_activation ends at  *)
(* the edge at which an only_output is taken (cim_control_unit.cpp:57-77). *)
(* releaseResource is called by threads only; a kernel that runs methods   *)
(* first has emptied the list by then, and joined stays FALSE.             *)
(***************************************************************************)
ReleaseResource(u, id) ==
  /\ id \in holding[u]
  /\ holding' = [holding EXCEPT ![u] = @ \ {id}]
  /\ release_list' = [release_list EXCEPT ![u] = ReleaseList(u, id)]
  /\ Notify({<<"processReleaseResource", u>>})
  /\ joined' = (joined \/ <<"processReleaseResource", u>> \in runnable)
  /\ UNCHANGED <<phase, runnable, signal, next_value, core, clock, waiting, running_ins_cnt,
                 finish_decode, finish_run, executing, tables, passed, taken>>

\* Mutant: the counter is tested before it is decremented.
EndsUnitLate(u) == running_ins_cnt[u] = 0 /\ finish_decode[u]

EndsUnit(u) == running_ins_cnt[u] - 1 = 0 /\ finish_decode[u]

\* An instruction ends after it has released what it booked.
FinishInstruction(u, id) ==
  LET last == EndsUnit(u)
  IN  /\ id \in executing[u] \ holding[u]
      /\ executing' = [executing EXCEPT ![u] = @ \ {id}]
      /\ running_ins_cnt' = [running_ins_cnt EXCEPT ![u] = @ - 1]
      /\ finish_run' = [finish_run EXCEPT ![u] = @ \/ last]
      /\ Notify(IF last THEN {<<"unitProcessFinishRun", u>>} ELSE {})
      /\ UNCHANGED <<phase, runnable, signal, next_value, core, clock, waiting, release_list,
                     finish_decode, holding, tables, history>>

-----------------------------------------------------------------------------
(***************************************************************************)
(* The specification begins when the processes have run once, as they all  *)
(* do at time 0, and what that wrote has settled.  With a period of 1 ns   *)
(* processDecode waits 0 ns: its first run is at time 0 too.               *)
(***************************************************************************)
InitialValue(s) ==
  CASE s[1] \in {"id_ex_payload", "resource_allocate", "fsm_in", "fsm_out"} -> Nothing
    [] s[1] = "resource_release" -> {}
    [] s[1] \in {"ready", "id_ex_enable"} -> TRUE
    [] OTHER -> FALSE

Init ==
  /\ phase = "edge" /\ notified = {}
  /\ runnable = IF PeriodIsOne THEN AtDecode ELSE {}
  /\ signal = [s \in Signals |-> InitialValue(s)]
  /\ next_value = signal
  /\ ins_index = 0 /\ pc_increment = 0 /\ ins_id = 0 /\ finish_run_calls = 0
  /\ cur_ins_payload = Nothing /\ cur_ins_conflict_info = Nothing
  /\ is_pos_edge = FALSE /\ pos_edge_events = Units
  /\ is_ready = [u \in Units |-> TRUE]
  /\ waiting = [u \in Units |-> TRUE]
  /\ running_ins_cnt = [u \in Units |-> 0]
  /\ release_list = [u \in Units |-> {}]
  /\ finish_decode = [u \in Units |-> FALSE]
  /\ finish_run = [u \in Units |-> FALSE]
  /\ holding = [u \in Units |-> {}]
  /\ executing = [u \in Units |-> {}]
  /\ ins_map = [u \in Units |-> {}]
  /\ path_map = [u \in Units |-> [k \in PathKeys |-> EmptyPayload(u)]]
  /\ passed = <<>> /\ taken = <<>> /\ joined = FALSE

CoreProcess ==
  \/ DecodeIns \/ DecodeFinish \/ DecodeStalled
  \/ ProcessUpdatePC \/ ProcessIssue \/ ProcessStall \/ ProcessIdExEnable
  \/ ProcessFinishRun
  \/ ClockProcess \/ EndPosEdge

UnitProcess(u) ==
  \/ FsmProcess(u) \/ FsmProcessInput(u) \/ FsmProcessEnable(u) \/ FsmFinishExec(u)
  \/ CheckInst(u)
  \/ \E scalars \in ScalarInputs(signal[<<"fsm_out", u>>]), free \in BOOLEAN :
       Execute(u, scalars, free)
  \/ ProcessIdFinish(u) \/ ProcessReleaseResource(u) \/ UnitProcessFinishRun(u)
  \/ ProcessUnitResourceAllocate(u)
  \/ ProcessUnitResourceRelease(u)
  \/ ProcessUnitResourceConflict(u)

Kernel == DeltaCycle \/ AdvanceTime \/ CoreProcess \/ \E u \in Units : UnitProcess(u)

(***************************************************************************)
(* A process of the pipelines runs among the others of a delta cycle, but  *)
(* shares state only with two methods of its unit: with all others its     *)
(* steps commute, and come last here.                                      *)
(***************************************************************************)
PipelineTurn(u) ==
  runnable \subseteq {<<"processReleaseResource", u>>, <<"processIdFinish", u>>}

Pipeline(u) ==
  /\ PipelineTurn(u)
  /\ \/ ReadyForNextExecute(u)
     \/ \E id \in holding[u] : ReleaseResource(u, id)
     \/ \E id \in executing[u] : FinishInstruction(u, id)

Next == Kernel \/ \E u \in Units : Pipeline(u)

Spec == Init /\ [][Next]_vars

(***************************************************************************)
(* The kernel goes on, and the pipelines end what they have begun: strong  *)
(* fairness, for PipelineTurn lets them run at the end of a delta cycle    *)
(* only.                                                                   *)
(***************************************************************************)
Fairness ==
  /\ WF_vars(Kernel)
  /\ \A u \in Units : SF_vars(Pipeline(u))

FairSpec == Spec /\ Fairness

-----------------------------------------------------------------------------
\* The types of the state; a unit's counter is the number of its instructions.
TypeOK ==
  /\ phase \in {"decode", "edge"}
  /\ DOMAIN signal = Signals /\ DOMAIN next_value = Signals
  /\ ins_index \in Nat /\ pc_increment \in Int
  /\ cur_ins_payload \in Payload /\ cur_ins_conflict_info \in Payload
  /\ pos_edge_events \subseteq Units
  /\ \A u \in Units :
       /\ running_ins_cnt[u] = Cardinality(executing[u])
       /\ holding[u] \subseteq executing[u]
       /\ ins_map[u] \subseteq Payload

(***************************************************************************)
(* When a clock edge is over, the units have taken the instructions that   *)
(* have left decode for a unit, each in the unit it is for, once, and in   *)
(* the order of decoding: none is lost, repeated, overtaken or taken by    *)
(* another between processUpdatePC (core.cpp:93-101) and the FSM           *)
(* (fsm.h:47-56), which decide on two different signals whether it goes.   *)
(***************************************************************************)
InOrder(entries) ==
  \A i, j \in DOMAIN entries : i < j => entries[i].ins_id < entries[j].ins_id

TakenExactly == Quiescent => taken = passed /\ InOrder(taken)

\* What makes that true: just before the edge the unit of an instruction that will
\* leave decode has it at the input of its FSM, which is ready, enabled and will be
\* called; and no other FSM would start anything.
EdgeAgrees ==
  Quiescent /\ phase = "decode" =>
    \A u \in Units :
      LET goes == cur_ins_conflict_info.unit = u /\ ~ signal[<<"id_stall", "core">>]
          starts == /\ is_ready[u] /\ signal[<<"id_ex_enable", u>>]
                    /\ signal[<<"fsm_in", u>>] # Nothing
      IN  /\ goes <=> starts
          /\ goes => /\ u \in pos_edge_events
                     /\ signal[<<"fsm_in", u>>] = cur_ins_conflict_info

(***************************************************************************)
(* The core reports its end once, when every instruction has been decoded  *)
(* and has finished (core.cpp:129-137, execute_unit.cpp:39-47 and 85-92).  *)
(***************************************************************************)
EndsWhenDone ==
  /\ finish_run_calls <= 1
  /\ finish_run_calls = 1 =>
       /\ ins_index >= Len(Program)
       /\ taken = passed
       /\ \A u \in Units : executing[u] = {}

\* And it does report it, unless a release has joined a list that waits, which may
\* leave decode stalled for ever (NoReleaseLost).
Ends == <>(joined \/ finish_run_calls = 1)

(***************************************************************************)
(* What a conflict handler has in its table is still held by an            *)
(* instruction, or its release is on the way through the list of the unit  *)
(* (execute_unit.cpp:75-83), the signal and the handler's method           *)
(* (conflict_handler.cpp:27-56).  The list and the signal carry sets, are  *)
(* written over and are read once; a release that came before its booking  *)
(* would leave the booking in the table for ever, and the decode stage     *)
(* stalled.  It takes a release that joins a list which waits.             *)
(***************************************************************************)
ReleaseUnderWay(u) ==
  LET release == <<"resource_release", u>>
  IN  (IF <<"processReleaseResource", u>> \in runnable \cup notified
         THEN release_list[u] ELSE {})
      \cup (next_value[release] \ signal[release])
      \cup (IF <<"processUnitResourceRelease", u>> \in runnable THEN signal[release] ELSE {})

NoReleaseLost ==
  ~ joined =>
    \A u \in Units : \A p \in ins_map[u] :
      p.ins_id \in holding[u] \cup ReleaseUnderWay(u)

(***************************************************************************)
(* All units together implement the scoreboard of the core: an instruction *)
(* is taken in program order, and only when it conflicts with nothing that *)
(* any unit has booked, its own booking under way included.                *)
(***************************************************************************)
BookingUnderWay(u) ==
  \/ <<"processUnitResourceAllocate", u>> \in runnable
  \/ <<"resource_allocate", u>> \in Changed

InFlight ==
  UNION {ins_map[u] \cup (IF BookingUnderWay(u)
                            THEN {next_value[<<"resource_allocate", u>>]} ELSE {}) : u \in Units}

LastTaken == IF taken = <<>> THEN -1 ELSE taken[Len(taken)].ins_id

Abstract == INSTANCE Scoreboard WITH booked <- InFlight, lastBooked <- LastTaken

BooksInOrder == Abstract!Spec

\* Of two instructions in flight anywhere in the core the younger one conflicts
\* with nothing of the older one.
NoHazard == Abstract!NoHazard

=============================================================================
