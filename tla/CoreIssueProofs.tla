--------------------------- MODULE CoreIssueProofs ---------------------------
(***************************************************************************)
(* The front end of a core keeps TypeOK, EdgeAgrees, TakenExactly and      *)
(* EndsWhenDone, and then NoHazard and BooksInOrder: the units together    *)
(* implement the scoreboard.  This holds for any set of units, any program *)
(* and any bound MaxIns, with the processes of a delta cycle in any order, *)
(* provided that the clock period is more than 1 ns (with 1 ns decoding    *)
(* falls on the clock edge, and the run CoreIssuePeriodOne shows what that *)
(* breaks).  It keeps NoReleaseLost if moreover the kernel runs methods    *)
(* before threads.                                                         *)
(*                                                                         *)
(* The inductive invariant IInv says                                       *)
(*   - what runs together: decoding runs alone, and in the first delta     *)
(*     cycle of a clock edge there is nothing but the clock, the update of *)
(*     the program counter and the FSMs (KernelOK);                        *)
(*   - that each signal computed from others has its value, or the method  *)
(*     that computes it is about to run (StallOK .. ConflictOK).  So when  *)
(*     an edge begins every signal is settled, and the decode stage and    *)
(*     the FSMs, which read different ones, decide alike;                  *)
(*   - where an FSM and the thread of its unit stand (ThreadOK), and that  *)
(*     an FSM that could start is going to be called (CalledAtEdge);       *)
(*   - the accounting behind TakenExactly: the sequence of what has passed *)
(*     decode, with the instruction that is passing, is that of what has   *)
(*     been taken, with the instruction that is starting, and the latter   *)
(*     grows by the one in decode, in its unit (TakingOK);                 *)
(*   - how the end spreads, from decoding to the units to the core (EndOK, *)
(*     UnitEndOK, CallOK).                                                 *)
(* On top of it BInv says what the tables of the units hold, and that an   *)
(* instruction that has left decode and is not taken yet meets no booking  *)
(* under way and conflicts with nothing in flight.  ReleaseOK follows the  *)
(* releases of a unit to its table.                                        *)
(***************************************************************************)
EXTENDS CoreIssue, ResourcesProofs, FiniteSetTheorems, TLAPS

-----------------------------------------------------------------------------
(***************************************************************************)
(* The kernel: what runs together.                                         *)
(***************************************************************************)
\* What runs now or in the next delta cycle.
Pending == runnable \cup notified

\* The processes of the first delta cycle of a clock edge.
EdgeProcesses == AtEdge \cup ({"fsmProcess"} \X Units)

\* Nothing else happens while the core decodes.
InDecode ==
  <<"processDecode", "core">> \in runnable =>
    /\ phase = "decode"
    /\ runnable = AtDecode
    /\ notified = {}
    /\ next_value = signal

\* In the first delta cycle of a clock edge there is nothing but the clock, the
\* update of the program counter and the FSMs, and they only start instructions.
InEdge ==
  runnable \cap EdgeProcesses # {} =>
    /\ phase = "edge"
    /\ runnable \subseteq EdgeProcesses
    /\ notified \subseteq {<<"endPosEdge", "core">>} \cup ({"execute"} \X Units)
    /\ \A s \in Signals : s[1] # "fsm_out" => next_value[s] = signal[s]

\* The processes that wait for an event of the next delta cycle.
Notified ==
  {<<"endPosEdge", "core">>} \cup
  ({"execute", "fsmFinishExec", "unitProcessFinishRun", "processUnitResourceConflict",
    "processReleaseResource"} \X Units)

\* The kernel holds a value of each signal and runs what belongs together.
KernelOK ==
  /\ phase \in {"decode", "edge"}
  /\ signal = [s \in Signals |-> signal[s]]
  /\ next_value = [s \in Signals |-> next_value[s]]
  /\ notified \subseteq Notified
  /\ InDecode
  /\ InEdge
  /\ \A u \in Units : <<"fsmProcess", u>> \in runnable => is_pos_edge

-----------------------------------------------------------------------------
(***************************************************************************)
(* Every signal that is computed from others has been computed from their  *)
(* present values, or the method that computes it is about to run.         *)
(***************************************************************************)
\* What a unit is given of an instruction: nothing unless it is its own.
ToUnit(payload, u) == IF payload.unit = u THEN payload ELSE Nothing

\* id_stall, from id_finish and the conflicts.
StallOK ==
  \/ <<"processStall", "core">> \in runnable
  \/ next_value[<<"id_stall", "core">>] <=>
       \/ signal[<<"id_finish", "core">>]
       \/ \E u \in Units : signal[<<"conflict", u>>]

\* id_ex_enable, from id_stall.
EnableOK(u) ==
  \/ <<"processIdExEnable", "core">> \in runnable
  \/ next_value[<<"id_ex_enable", u>>] <=> ~ signal[<<"id_stall", "core">>]

\* id_ex_payload, from the instruction in decode.
IssueOK(u) ==
  /\ \/ <<"processIssue", "core">> \in runnable
     \/ next_value[<<"id_ex_payload", u>>] = ToUnit(cur_ins_payload, u)
  /\ cur_ins_payload.ins_id = -1 => next_value[<<"id_ex_payload", u>>] = Nothing

\* The input of the FSM, from id_ex_payload.
InputOK(u) ==
  \/ <<"checkInst", u>> \in runnable
  \/ next_value[<<"fsm_in", u>>] = ToUnit(signal[<<"id_ex_payload", u>>], u)

\* conflict, from the tables, ready and the instruction in decode.
ConflictOK(u) ==
  \/ <<"processUnitResourceConflict", u>> \in Pending
  \/ next_value[<<"conflict", u>>] <=> UnitConflict(u)

-----------------------------------------------------------------------------
(***************************************************************************)
(* The FSM of a unit and its thread.                                       *)
(***************************************************************************)
\* The thread of the unit has been told to take an instruction.
Starting(u) == <<"execute", u>> \in Pending

\* The FSM has been told that the thread waits again.
Resuming(u) == <<"fsmFinishExec", u>> \in Pending

\* An FSM that could start is called at the next edge, or will ask to be.
CalledAtEdge(u) ==
  is_ready[u] /\ signal[<<"id_ex_enable", u>>] /\ signal[<<"fsm_in", u>>] # Nothing =>
    \/ u \in pos_edge_events
    \/ <<"fsmProcess", u>> \in runnable
    \/ <<"fsmProcessInput", u>> \in runnable
    \/ <<"fsmProcessEnable", u>> \in runnable

\* The thread waits if and only if its FSM is ready, or is being told so.
ThreadOK(u) ==
  /\ next_value[<<"ready", u>>] <=> waiting[u]
  /\ waiting[u] <=> is_ready[u] \/ Starting(u) \/ Resuming(u)
  /\ ~ (is_ready[u] /\ Starting(u))
  /\ ~ (is_ready[u] /\ Resuming(u))
  /\ ~ (Starting(u) /\ Resuming(u))
  /\ ~ (<<"execute", u>> \in runnable /\ <<"execute", u>> \in notified)
  /\ ~ (<<"fsmFinishExec", u>> \in runnable /\ <<"fsmFinishExec", u>> \in notified)

-----------------------------------------------------------------------------
(***************************************************************************)
(* The instruction in decode, and the one the units are given.             *)
(***************************************************************************)
\* Decoding of this period is over, and the instruction has not left decode yet.
Decoded ==
  \/ phase = "decode" /\ <<"processDecode", "core">> \notin runnable
  \/ <<"processUpdatePC", "core">> \in runnable

\* The instruction in decode is the one the units are given, or there is none.
DecodeOK ==
  /\ ins_id \in Nat /\ ins_index \in Nat /\ pc_increment \in Int
  /\ cur_ins_payload \in Payload
  /\ \/ cur_ins_payload = Nothing
     \/ cur_ins_payload.ins_id = ins_id /\ ins_id # 0
  /\ cur_ins_payload.ins_id = -1 => cur_ins_payload = Nothing
  /\ cur_ins_conflict_info \in {Nothing, cur_ins_payload}
  /\ Decoded => next_value[<<"id_finish", "core">>] \/ cur_ins_conflict_info = cur_ins_payload
  /\ Decoded \/ cur_ins_conflict_info.unit # "none" => ins_index + pc_increment \in Nat

\* The instruction in decode leaves for a unit in this delta cycle.
Passing ==
  /\ <<"processUpdatePC", "core">> \in runnable
  /\ ~ signal[<<"id_stall", "core">>]
  /\ cur_ins_conflict_info.unit \in Units

\* The FSM of the unit starts an instruction in this delta cycle.
ToStart(u) ==
  /\ \/ <<"clockProcess", "core">> \in runnable /\ u \in pos_edge_events
     \/ <<"fsmProcess", u>> \in runnable
  /\ is_ready[u] /\ signal[<<"id_ex_enable", u>>] /\ signal[<<"fsm_in", u>>] # Nothing

\* The histories of instructions decoded so far.
Entries(n) == [unit : Units, ins_id : 1 .. n]
Histories(n) == Seq(Entries(n))

\* The instructions of a history.
IdsOf(entries) == {entries[k].ins_id : k \in DOMAIN entries}

\* The entry of the instruction in decode.
Current == Entry(cur_ins_payload.unit, ins_id)

\* What passed or passes is what has been taken or starts, in this order.
TakingOK ==
  /\ passed \in Histories(ins_id) /\ taken \in Histories(ins_id)
  /\ InOrder(taken)
  /\ cur_ins_conflict_info.unit \in Units => ins_id \notin IdsOf(passed)
  /\ \A u \in Units : ToStart(u) \/ Starting(u) => ins_id \notin IdsOf(taken)
  /\ (IF Passing THEN Append(passed, Current) ELSE passed) =
       (IF \E u \in Units : ToStart(u) \/ Starting(u) THEN Append(taken, Current) ELSE taken)

\* The thread finds the instruction of the decode stage at the output of its FSM.
StartedOK(u) ==
  Starting(u) =>
    /\ phase = "edge"
    /\ cur_ins_payload.unit = u
    /\ next_value[<<"fsm_out", u>>] = cur_ins_payload
    /\ <<"execute", u>> \in runnable =>
         signal[<<"fsm_out", u>>] = next_value[<<"fsm_out", u>>]

-----------------------------------------------------------------------------
(***************************************************************************)
(* The units' pipelines, and the end of the program.                       *)
(***************************************************************************)
\* The counter counts what the unit runs.
PipelineOK(u) ==
  /\ IsFiniteSet(executing[u])
  /\ executing[u] \subseteq IdsOf(taken)
  /\ running_ins_cnt[u] = Cardinality(executing[u])
  /\ holding[u] \subseteq executing[u]

\* Bookings are payloads, and the path map those of the unit.
TablesOK(u) ==
  /\ signal[<<"resource_allocate", u>>] \in Payload
  /\ next_value[<<"resource_allocate", u>>] \in Payload
  /\ \A k \in PathKeys : path_map[u][k].unit = u

\* The types of the rest of the state.
StateOK ==
  /\ pos_edge_events \subseteq Units
  /\ is_ready \in [Units -> BOOLEAN] /\ waiting \in [Units -> BOOLEAN]
  /\ running_ins_cnt \in [Units -> Int] /\ release_list \in [Units -> SUBSET Nat]
  /\ finish_decode \in [Units -> BOOLEAN] /\ finish_run \in [Units -> BOOLEAN]
  /\ holding \in [Units -> SUBSET Nat] /\ executing \in [Units -> SUBSET Nat]
  /\ ins_map \in [Units -> SUBSET Payload]
  /\ path_map \in [Units -> [PathKeys -> Payload]]

\* When decoding has finished there is nothing to decode and nothing starts.
EndOK ==
  /\ signal[<<"id_finish", "core">>] => next_value[<<"id_finish", "core">>]
  /\ next_value[<<"id_finish", "core">>] =>
       /\ ins_index >= Len(Program)
       /\ cur_ins_conflict_info.unit = "none"
       /\ \A u \in Units : ~ Starting(u)

\* A unit ends after decoding has, when it runs nothing.
UnitEndOK(u) ==
  /\ signal[<<"unit_finish", u>>] \in BOOLEAN /\ next_value[<<"unit_finish", u>>] \in BOOLEAN
  /\ finish_decode[u] => signal[<<"id_finish", "core">>]
  /\ finish_run[u] => finish_decode[u] /\ executing[u] = {}
  /\ signal[<<"unit_finish", u>>] => next_value[<<"unit_finish", u>>]
  /\ next_value[<<"unit_finish", u>>] => finish_run[u]

\* The core is told its end once, after the end of each unit.
CallOK ==
  /\ finish_run_calls \in {0, 1}
  /\ finish_run_calls = 1 =>
       /\ Units # {}
       /\ \A u \in Units : signal[<<"unit_finish", u>>]
       /\ <<"processFinishRun", "core">> \notin runnable
  /\ <<"processFinishRun", "core">> \in runnable => Units # {}

\* The inductive invariant.
IInv ==
  /\ KernelOK
  /\ StateOK
  /\ StallOK
  /\ \A u \in Units :
       /\ EnableOK(u) /\ IssueOK(u) /\ InputOK(u) /\ ConflictOK(u)
       /\ CalledAtEdge(u) /\ ThreadOK(u) /\ StartedOK(u)
       /\ PipelineOK(u) /\ TablesOK(u) /\ UnitEndOK(u)
  /\ DecodeOK /\ TakingOK
  /\ EndOK /\ CallOK

-----------------------------------------------------------------------------
(***************************************************************************)
(* Lemmas about payloads and the tables.                                   *)
(***************************************************************************)

\* The payload of no instruction is one, with no unit.
LEMMA NothingIsPayload ==
  /\ Nothing \in Payload
  /\ Nothing.ins_id = -1
  /\ Nothing.unit = "none"
  /\ Nothing.unit \notin Units
BY UnitsAssumption DEF Nothing, EmptyPayload, Payload, ExecuteUnitType, DataPath, NoPath

\* The payload a data path is reset to has the type of one.
LEMMA EmptyOfUnitIsPayload ==
  \A u \in Units : EmptyPayload(u) \in Payload /\ EmptyPayload(u).unit = u
BY UnitsAssumption DEF EmptyPayload, Payload, ExecuteUnitType, DataPath, NoPath

\* What a history has after one more instruction.
LEMMA LongerHistory ==
  ASSUME NEW n \in Nat, NEW s \in Histories(n), NEW e \in Entries(n)
  PROVE  /\ Append(s, e) \in Histories(n)
         /\ Append(s, e) # <<>>
         /\ Append(s, e)[Len(Append(s, e))] = e
         /\ IdsOf(Append(s, e)) = IdsOf(s) \cup {e.ins_id}
         /\ InOrder(s) /\ e.ins_id = n /\ n \notin IdsOf(s) => InOrder(Append(s, e))
<1> DEFINE longer == Append(s, e)
<1>0. s \in Seq(Entries(n))
  BY DEF Histories
<1>1. /\ longer \in Histories(n) /\ longer # <<>>
      /\ Len(longer) = Len(s) + 1 /\ Len(s) \in Nat
      /\ DOMAIN s = 1 .. Len(s) /\ DOMAIN longer = 1 .. Len(s) + 1
      /\ longer[Len(s) + 1] = e
      /\ \A k \in 1 .. Len(s) : longer[k] = s[k] /\ s[k] \in Entries(n)
  <2>1. longer \in Seq(Entries(n)) /\ Len(longer) = Len(s) + 1 /\ Len(s) \in Nat
    BY <1>0
  <2>2. DOMAIN s = 1 .. Len(s) /\ DOMAIN longer = 1 .. Len(s) + 1 /\ longer # <<>>
    BY <1>0, <2>1
  <2>3. longer[Len(s) + 1] = e /\ \A k \in 1 .. Len(s) : longer[k] = s[k] /\ s[k] \in Entries(n)
    BY <1>0
  <2>4. QED
    BY <2>1, <2>2, <2>3 DEF Histories
<1> HIDE DEF longer
<1>2. IdsOf(longer) = IdsOf(s) \cup {e.ins_id}
  <2>1. ASSUME NEW id \in IdsOf(longer)
        PROVE  id \in IdsOf(s) \cup {e.ins_id}
    <3>1. PICK k \in 1 .. Len(s) + 1 : id = longer[k].ins_id
      BY <1>1 DEF IdsOf
    <3>2. k \in 1 .. Len(s) \/ k = Len(s) + 1
      BY <1>1
    <3>3. QED
      BY <1>1, <3>1, <3>2 DEF IdsOf
  <2>2. ASSUME NEW id \in IdsOf(s)
        PROVE  id \in IdsOf(longer)
    <3>1. PICK k \in 1 .. Len(s) : id = s[k].ins_id
      BY <1>1 DEF IdsOf
    <3>2. k \in DOMAIN longer /\ longer[k] = s[k]
      BY <1>1
    <3>3. QED
      BY <3>1, <3>2 DEF IdsOf
  <2>3. e.ins_id \in IdsOf(longer)
    <3>1. Len(s) + 1 \in DOMAIN longer /\ longer[Len(s) + 1] = e
      BY <1>1
    <3>2. QED
      BY <3>1 DEF IdsOf
  <2>4. QED
    BY <2>1, <2>2, <2>3
<1>3. ASSUME InOrder(s), e.ins_id = n, n \notin IdsOf(s)
      PROVE  InOrder(longer)
  <2>1. \A k \in 1 .. Len(s) : s[k].ins_id < n
    <3>1. \A k \in 1 .. Len(s) : s[k].ins_id \in 1 .. n /\ s[k].ins_id \in IdsOf(s)
      BY <1>1 DEF IdsOf, Entries
    <3>2. QED
      BY <1>3, <3>1
  <2>2. SUFFICES ASSUME NEW i \in 1 .. Len(s) + 1, NEW j \in 1 .. Len(s) + 1, i < j
                 PROVE  longer[i].ins_id < longer[j].ins_id
    BY <1>1 DEF InOrder
  <2>3. i \in 1 .. Len(s)
    BY <1>1, <2>2
  <2>4. CASE j = Len(s) + 1
    BY <1>1, <1>3, <2>1, <2>3, <2>4
  <2>5. CASE j # Len(s) + 1
    <3>1. j \in 1 .. Len(s)
      BY <1>1, <2>5
    <3>2. QED
      BY <1>1, <1>3, <2>2, <2>3, <3>1 DEF InOrder
  <2>6. QED
    BY <2>4, <2>5
<1>4. QED
  BY <1>1, <1>2, <1>3 DEF longer

\* Decoding one more instruction leaves a history one.
LEMMA HistoryKept ==
  ASSUME NEW n \in Nat, NEW s \in Histories(n)
  PROVE  s \in Histories(n + 1) /\ IdsOf(s) \subseteq 1 .. n
<1>1. s \in Seq(Entries(n))
  BY DEF Histories
<1>2. s \in Histories(n + 1)
  <2>1. Entries(n) \subseteq Entries(n + 1)
    BY DEF Entries
  <2>2. QED
    BY <1>1, <2>1 DEF Histories
<1>3. \A k \in DOMAIN s : s[k].ins_id \in 1 .. n
  <2>1. \A k \in DOMAIN s : s[k] \in Entries(n)
    BY <1>1
  <2>2. QED
    BY <2>1 DEF Entries
<1>4. QED
  BY <1>2, <1>3 DEF IdsOf

\* The instruction in decode is the last one of the histories that have it.
LEMMA CurrentEntry ==
  ASSUME DecodeOK, cur_ins_payload.unit \in Units
  PROVE  /\ Current \in Entries(ins_id) /\ Current.ins_id = ins_id
         /\ ins_id \in Nat \ {0} /\ cur_ins_payload.ins_id = ins_id
<1>1. cur_ins_payload # Nothing /\ cur_ins_payload.ins_id = ins_id /\ ins_id \in Nat \ {0}
  BY NothingIsPayload DEF DecodeOK
<1>2. QED
  BY <1>1 DEF Current, Entry, Entries

\* Decoding an instruction of the program gives a payload.
LEMMA DecodedIsPayload ==
  ASSUME NEW i \in 1 .. Len(Program), NEW id \in Nat
  PROVE  /\ PayloadOf(Program[i], id) \in Payload
         /\ PayloadOf(Program[i], id).ins_id = id
         /\ PayloadOf(Program[i], id).unit = Program[i].unit
         /\ Program[i].inc \in SUBSET Int
<1> DEFINE Kinds == [unit : Units \cup {"control", "none"},
                     functor : Functors \cup {NoFunctor}, path : DataPath,
                     read : SUBSET Memories, write : SUBSET Memories,
                     inc : SUBSET Int]
<1>1. Program \in Seq(Kinds)
  BY ProgramAssumption
<1> HIDE DEF Kinds
<1>2. Program[i] \in Kinds
  BY <1>1
<1>3. /\ Program[i].unit \in Units \cup {"control", "none"}
      /\ Program[i].functor \in Functors \cup {NoFunctor}
      /\ Program[i].path \in DataPath
      /\ Program[i].read \in SUBSET Memories
      /\ Program[i].write \in SUBSET Memories
      /\ Program[i].inc \in SUBSET Int
  BY <1>2 DEF Kinds
<1>4. Program[i].unit \in ExecuteUnitType
  BY <1>3, UnitsAssumption DEF ExecuteUnitType
<1>5. QED
  BY <1>3, <1>4 DEF PayloadOf, Payload

\* What is booked of a payload is a payload of the same instruction.
LEMMA BookingIsPayload ==
  ASSUME NEW ins \in Payload, NEW scalars
  PROVE  /\ Booking(ins, scalars) \in Payload
         /\ Booking(ins, scalars).ins_id = ins.ins_id
BY DEF Booking, Payload

\* Adding payloads to one leaves a payload of its unit.
LEMMA AddedIsPayload ==
  ASSUME NEW p \in Payload, NEW S \in SUBSET Payload, NEW q \in Payload
  PROVE  /\ Plus(p, q) \in Payload /\ Plus(p, q).unit = p.unit
         /\ AddAll(p, S, q) \in Payload /\ AddAll(p, S, q).unit = p.unit
<1>1. UNION {r.read : r \in S} \subseteq Memories /\ UNION {r.write : r \in S} \subseteq Memories
  BY DEF Payload
<1>2. Plus(p, q) \in Payload /\ Plus(p, q).unit = p.unit
  BY DEF Plus, Payload
<1>3. AddAll(p, S, q) \in Payload /\ AddAll(p, S, q).unit = p.unit
  BY <1>1 DEF AddAll, Payload
<1>4. QED
  BY <1>2, <1>3

\* The path maps of a unit.
PathMaps(u) == [PathKeys -> {p \in Payload : p.unit = u}]

\* Releasing bookings leaves a path map of the unit.
LEMMA PathMapAfterIsTyped ==
  ASSUME NEW u \in Units, NEW paths \in PathMaps(u), NEW freed, NEW rest \in SUBSET Payload,
         NEW last, \A k \in PathKeys : On(rest, k) # {} => last[k] \in Payload
  PROVE  PathMapAfter(paths, u, freed, rest, last) \in PathMaps(u)
<1> DEFINE base(k) == IF On(freed, k) # {} THEN EmptyPayload(u) ELSE paths[k]
           entry(k) == IF On(rest, k) = {} THEN base(k) ELSE AddAll(base(k), On(rest, k), last[k])
<1>1. \A k \in PathKeys : base(k) \in Payload /\ base(k).unit = u
  BY EmptyOfUnitIsPayload DEF PathMaps
<1>2. \A k \in PathKeys : On(rest, k) \in SUBSET Payload
  BY DEF On
<1>3. \A k \in PathKeys : On(rest, k) # {} => last[k] \in Payload
  OBVIOUS
<1> HIDE DEF base
<1>4. ASSUME NEW k \in PathKeys
      PROVE  entry(k) \in Payload /\ entry(k).unit = u
  <2>1. CASE On(rest, k) = {}
    BY <1>1, <2>1
  <2>2. CASE On(rest, k) # {}
    BY <1>1, <1>2, <1>3, <2>2, AddedIsPayload
  <2>3. QED
    BY <2>1, <2>2
<1> HIDE DEF entry
<1>5. PathMapAfter(paths, u, freed, rest, last) = [k \in PathKeys |-> entry(k)]
  BY DEF PathMapAfter, entry, base
<1>6. QED
  BY <1>4, <1>5 DEF PathMaps

\* What processUnitResourceRelease does to the state.
LEMMA ReleaseEffect ==
  ASSUME NEW u \in Units, ProcessUnitResourceRelease(u)
  PROVE  /\ Run(<<"processUnitResourceRelease", u>>, {})
         /\ UNCHANGED <<next_value, core, clock, unit, pipeline, history>>
         /\ \/ UNCHANGED tables /\ NotifyNobody
            \/ /\ Notify({<<"processUnitResourceConflict", u>>})
               /\ \E freed \in SUBSET ins_map[u] :
                    /\ ins_map' = [ins_map EXCEPT ![u] = @ \ freed]
                    /\ \E last \in [{k \in PathKeys : On(ins_map[u] \ freed, k) # {}}
                                      -> ins_map[u] \ freed] :
                         /\ \A k \in DOMAIN last : last[k] \in On(ins_map[u] \ freed, k)
                         /\ path_map' = [path_map EXCEPT ![u] =
                                           PathMapAfter(@, u, freed, ins_map[u] \ freed, last)]
<1> DEFINE freed == {p \in ins_map[u] : p.ins_id \in signal[<<"resource_release", u>>]}
           rest == ins_map[u] \ freed
<1>1. /\ Run(<<"processUnitResourceRelease", u>>, {})
      /\ UNCHANGED <<next_value, core, clock, unit, pipeline, history>>
  BY Zenon DEF ProcessUnitResourceRelease, WriteNothing
<1>2. \/ UNCHANGED tables /\ NotifyNobody
      \/ /\ Notify({<<"processUnitResourceConflict", u>>})
         /\ ins_map' = [ins_map EXCEPT ![u] = rest]
         /\ \E last \in [{k \in PathKeys : On(rest, k) # {}} -> rest] :
              /\ \A k \in DOMAIN last : last[k] \in On(rest, k)
              /\ path_map' = [path_map EXCEPT ![u] = PathMapAfter(@, u, freed, rest, last)]
  BY Zenon DEF ProcessUnitResourceRelease
<1>3. freed \in SUBSET ins_map[u]
  OBVIOUS
<1> HIDE DEF freed
<1>4. QED
  BY <1>1, <1>2, <1>3, Zenon

\* What it leaves alone.
LEMMA ReleaseFrame ==
  ASSUME NEW u \in Units, ProcessUnitResourceRelease(u)
  PROVE  /\ <<"processUnitResourceRelease", u>> \in runnable
         /\ runnable' = runnable \ {<<"processUnitResourceRelease", u>>}
         /\ \/ notified' = notified
            \/ notified' = notified \cup {<<"processUnitResourceConflict", u>>}
         /\ UNCHANGED <<phase, signal, next_value, core, clock, unit, pipeline, history>>
BY ReleaseEffect DEF Run, Notify, NotifyNobody

-----------------------------------------------------------------------------
(***************************************************************************)
(* Lemmas about the kernel.                                                *)
(***************************************************************************)

\* The processes that each signal wakes (the sensitivity lists of core.cpp:181-198,
\* execute_unit.cpp:13-31, conflict_handler.cpp and fsm.h:33-45).
LEMMA WhoWakes ==
  /\ Sensitive(<<"id_finish", "core">>) =
       {<<"processStall", "core">>} \cup ({"processIdFinish"} \X Units)
  /\ Sensitive(<<"id_stall", "core">>) =
       {<<"processIssue", "core">>, <<"processIdExEnable", "core">>}
  /\ \A u \in Units :
       /\ Sensitive(<<"id_ex_payload", u>>) = {<<"checkInst", u>>}
       /\ Sensitive(<<"id_ex_enable", u>>) = {<<"fsmProcessEnable", u>>}
       /\ Sensitive(<<"ready", u>>) = {<<"processUnitResourceConflict", u>>}
       /\ Sensitive(<<"resource_allocate", u>>) = {<<"processUnitResourceAllocate", u>>}
       /\ Sensitive(<<"resource_release", u>>) = {<<"processUnitResourceRelease", u>>}
       /\ Sensitive(<<"unit_finish", u>>) = {<<"processFinishRun", "core">>}
       /\ Sensitive(<<"conflict", u>>) = {<<"processStall", "core">>}
       /\ Sensitive(<<"fsm_in", u>>) = {<<"fsmProcessInput", u>>}
       /\ Sensitive(<<"fsm_out", u>>) = {}
<1>1. /\ Sensitive(<<"id_finish", "core">>) =
           {<<"processStall", "core">>} \cup ({"processIdFinish"} \X Units)
      /\ Sensitive(<<"id_stall", "core">>) =
           {<<"processIssue", "core">>, <<"processIdExEnable", "core">>}
  BY Zenon DEF Sensitive
<1>2. ASSUME NEW u \in Units
      PROVE  /\ Sensitive(<<"id_ex_payload", u>>) = {<<"checkInst", u>>}
             /\ Sensitive(<<"id_ex_enable", u>>) = {<<"fsmProcessEnable", u>>}
             /\ Sensitive(<<"ready", u>>) = {<<"processUnitResourceConflict", u>>}
  BY Zenon DEF Sensitive
<1>3. ASSUME NEW u \in Units
      PROVE  /\ Sensitive(<<"resource_allocate", u>>) = {<<"processUnitResourceAllocate", u>>}
             /\ Sensitive(<<"resource_release", u>>) = {<<"processUnitResourceRelease", u>>}
             /\ Sensitive(<<"unit_finish", u>>) = {<<"processFinishRun", "core">>}
  BY Zenon DEF Sensitive
<1>4. ASSUME NEW u \in Units
      PROVE  /\ Sensitive(<<"conflict", u>>) = {<<"processStall", "core">>}
             /\ Sensitive(<<"fsm_in", u>>) = {<<"fsmProcessInput", u>>}
             /\ Sensitive(<<"fsm_out", u>>) = {}
  BY Zenon DEF Sensitive
<1>5. QED
  BY <1>1, <1>2, <1>3, <1>4

\* A process that a signal wakes is none of the clock edge, of decoding, or of those
\* that wait for an event alone.
LEMMA WokenProcesses ==
  \A s \in Signals : \A p \in Sensitive(s) :
    p[1] \in {"processStall", "processIdFinish", "processIssue", "processIdExEnable",
              "checkInst", "fsmProcessEnable", "processUnitResourceConflict",
              "processUnitResourceAllocate", "processUnitResourceRelease",
              "processFinishRun", "fsmProcessInput"}
<1>1. \A s \in CoreSignals : s = <<"id_finish", "core">> \/ s = <<"id_stall", "core">>
  BY DEF CoreSignals
<1>2. ASSUME NEW s \in UnitSignals
      PROVE  \E u \in Units :
               \/ s = <<"id_ex_payload", u>> \/ s = <<"id_ex_enable", u>>
               \/ s = <<"ready", u>> \/ s = <<"resource_allocate", u>>
               \/ s = <<"resource_release", u>> \/ s = <<"unit_finish", u>>
               \/ s = <<"conflict", u>> \/ s = <<"fsm_in", u>> \/ s = <<"fsm_out", u>>
  BY DEF UnitSignals
<1>3. ASSUME NEW s \in CoreSignals, NEW p \in Sensitive(s)
      PROVE  p[1] \in {"processStall", "processIdFinish", "processIssue", "processIdExEnable"}
  BY <1>1, WhoWakes
<1>4. ASSUME NEW s \in UnitSignals, NEW p \in Sensitive(s)
      PROVE  p[1] \in {"processStall", "checkInst", "fsmProcessEnable",
                       "processUnitResourceConflict", "processUnitResourceAllocate",
                       "processUnitResourceRelease", "processFinishRun", "fsmProcessInput"}
  <2>1. PICK u \in Units :
               \/ s = <<"id_ex_payload", u>> \/ s = <<"id_ex_enable", u>>
               \/ s = <<"ready", u>> \/ s = <<"resource_allocate", u>>
               \/ s = <<"resource_release", u>> \/ s = <<"unit_finish", u>>
               \/ s = <<"conflict", u>> \/ s = <<"fsm_in", u>> \/ s = <<"fsm_out", u>>
    BY <1>2
  <2>2. /\ Sensitive(<<"id_ex_payload", u>>) = {<<"checkInst", u>>}
        /\ Sensitive(<<"id_ex_enable", u>>) = {<<"fsmProcessEnable", u>>}
        /\ Sensitive(<<"ready", u>>) = {<<"processUnitResourceConflict", u>>}
        /\ Sensitive(<<"resource_allocate", u>>) = {<<"processUnitResourceAllocate", u>>}
        /\ Sensitive(<<"resource_release", u>>) = {<<"processUnitResourceRelease", u>>}
        /\ Sensitive(<<"unit_finish", u>>) = {<<"processFinishRun", "core">>}
        /\ Sensitive(<<"conflict", u>>) = {<<"processStall", "core">>}
        /\ Sensitive(<<"fsm_in", u>>) = {<<"fsmProcessInput", u>>}
        /\ Sensitive(<<"fsm_out", u>>) = {}
    BY WhoWakes
  <2>3. Sensitive(s) \in {{<<"checkInst", u>>}, {<<"fsmProcessEnable", u>>},
                          {<<"processUnitResourceConflict", u>>},
                          {<<"processUnitResourceAllocate", u>>},
                          {<<"processUnitResourceRelease", u>>},
                          {<<"processFinishRun", "core">>},
                          {<<"processStall", "core">>},
                          {<<"fsmProcessInput", u>>}, {}}
    BY <2>1, <2>2
  <2>4. QED
    BY <2>3
<1>5. QED
  BY <1>3, <1>4 DEF Signals

\* What is runnable after a delta cycle that matters to the invariant.
LEMMA DeltaRuns ==
  ASSUME IInv, DeltaCycle
  PROVE  /\ runnable' \cap (EdgeProcesses \cup AtDecode) = {}
         /\ \A u \in Units :
              /\ <<"execute", u>> \in runnable' <=> Starting(u)
              /\ <<"fsmFinishExec", u>> \in runnable' <=> Resuming(u)
<1>1. runnable = {}
  BY DEF DeltaCycle
<1>2. \A p : p \in runnable' <=> \/ p \in notified /\ Heard(p)
                                 \/ \E s \in Changed : p \in Sensitive(s)
  BY DEF DeltaCycle
<1>3. Changed \subseteq Signals
  BY DEF Changed
<1>4. \A p : p \in notified => p[1] \in {"endPosEdge", "execute", "fsmFinishExec",
          "unitProcessFinishRun", "processUnitResourceConflict", "processReleaseResource"}
  BY DEF IInv, KernelOK, Notified
<1>5. \A p \in runnable' : p[1] \notin {"clockProcess", "processUpdatePC", "fsmProcess", "processDecode"}
  BY <1>2, <1>3, <1>4, WokenProcesses
<1>6. runnable' \cap (EdgeProcesses \cup AtDecode) = {}
  BY <1>5 DEF EdgeProcesses, AtEdge, AtDecode
<1>7. ASSUME NEW u \in Units
      PROVE  /\ <<"execute", u>> \in runnable' <=> Starting(u)
             /\ <<"fsmFinishExec", u>> \in runnable' <=> Resuming(u)
  <2>1. \A s \in Changed : <<"execute", u>> \notin Sensitive(s) /\ <<"fsmFinishExec", u>> \notin Sensitive(s)
    BY <1>3, WokenProcesses
  <2>2. Heard(<<"fsmFinishExec", u>>)
    BY DEF Heard
  <2>3. Starting(u) => Heard(<<"execute", u>>)
    BY DEF Heard, IInv, ThreadOK
  <2>4. QED
    BY <1>1, <1>2, <2>1, <2>2, <2>3 DEF Starting, Resuming, Pending
<1>8. QED
  BY <1>6, <1>7

\* Each method whose inputs have changed runs.
LEMMA DeltaWakes ==
  ASSUME IInv, DeltaCycle
  PROVE  /\ \A s \in Signals : signal'[s] # signal[s] => Sensitive(s) \subseteq runnable'
         /\ notified \ ({"execute"} \X Units) \subseteq runnable'
<1>1. \A s \in Signals : signal'[s] # signal[s] => Sensitive(s) \subseteq runnable'
  BY DEF DeltaCycle, Changed
<1>2. \A p \in notified : p \notin {"execute"} \X Units => Heard(p)
  BY DEF Heard, IInv, KernelOK, Notified
<1>3. QED
  BY <1>1, <1>2 DEF DeltaCycle

\* Outside the first delta cycle of an edge, and of decoding, none of its processes runs.
LEMMA Calm ==
  ASSUME IInv, NEW p \in runnable, p \notin EdgeProcesses, p \notin AtDecode
  PROVE  runnable \cap (EdgeProcesses \cup AtDecode) = {}
BY DEF IInv, KernelOK, InDecode, InEdge, AtDecode

\* The same while the pipelines run.
LEMMA CalmPipelines ==
  ASSUME NEW u \in Units, PipelineTurn(u)
  PROVE  runnable \cap (EdgeProcesses \cup AtDecode) = {}
<1>1. \A p \in runnable : p[1] \in {"processReleaseResource", "processIdFinish"}
  BY DEF PipelineTurn
<1>2. QED
  BY <1>1 DEF EdgeProcesses, AtEdge, AtDecode

-----------------------------------------------------------------------------
(***************************************************************************)
(* The kernel keeps its shape.                                             *)
(***************************************************************************)

\* A step outside the first delta cycle of an edge, and of decoding, that does not
\* begin one.
LEMMA CalmStep ==
  ASSUME KernelOK,
         runnable' \cap (EdgeProcesses \cup AtDecode) = {},
         UNCHANGED phase, notified' \subseteq Notified,
         signal' = [s \in Signals |-> signal'[s]],
         next_value' = [s \in Signals |-> next_value'[s]]
  PROVE  KernelOK'
BY DEF KernelOK, InDecode, InEdge, AtDecode, EdgeProcesses

\* A process that runs outside of them leaves none of theirs runnable.
LEMMA CalmRun ==
  ASSUME IInv, NEW p, NEW woken, Run(p, woken),
         p[1] \notin {"processDecode", "clockProcess", "processUpdatePC", "fsmProcess"},
         woken \cap (EdgeProcesses \cup AtDecode) = {}
  PROVE  runnable' \cap (EdgeProcesses \cup AtDecode) = {} /\ UNCHANGED <<phase, signal>>
<1>1. p \notin EdgeProcesses /\ p \notin AtDecode
  BY DEF EdgeProcesses, AtEdge, AtDecode
<1>2. runnable \cap (EdgeProcesses \cup AtDecode) = {}
  BY <1>1, Calm DEF Run
<1>3. QED
  BY <1>2 DEF Run

\* The first delta cycle of an edge and decoding keep the shape of the kernel.
LEMMA TimedKernelStep ==
  ASSUME IInv, DecodeIns \/ DecodeFinish \/ DecodeStalled \/ ProcessUpdatePC \/ ClockProcess
               \/ \E u \in Units : FsmProcess(u)
  PROVE  KernelOK'
<1> USE DEF Run, Write, WriteNothing, Notify, NotifyNobody, Notified, EdgeProcesses,
           AtEdge, AtDecode
<1>0. pos_edge_events \subseteq Units /\ KernelOK
  BY DEF IInv, StateOK

<1>1. CASE DecodeIns
  BY <1>0, <1>1 DEF KernelOK, InDecode, InEdge, DecodeIns
<1>2. CASE DecodeFinish
  BY <1>0, <1>2 DEF KernelOK, InDecode, InEdge, DecodeFinish
<1>3. CASE DecodeStalled
  BY <1>0, <1>3 DEF KernelOK, InDecode, InEdge, DecodeStalled
<1>4. CASE ProcessUpdatePC
  <2>1. /\ phase = "edge" /\ runnable \subseteq EdgeProcesses
        /\ notified \subseteq {<<"endPosEdge", "core">>} \cup ({"execute"} \X Units)
        /\ \A s \in Signals : s[1] # "fsm_out" => next_value[s] = signal[s]
    BY <1>0, <1>4 DEF ProcessUpdatePC, KernelOK, InEdge
  <2>2. UNCHANGED <<phase, signal, next_value>> /\ runnable' \subseteq EdgeProcesses
    BY <1>0, <1>4, <2>1 DEF ProcessUpdatePC
  <2>3. /\ notified' \subseteq {<<"endPosEdge", "core">>} \cup ({"execute"} \X Units)
        /\ \A u \in Units : <<"fsmProcess", u>> \in runnable' => is_pos_edge'
    BY <1>0, <1>4, <2>1 DEF ProcessUpdatePC, KernelOK, clock
  <2>4. <<"processDecode", "core">> \notin runnable'
    BY <2>2
  <2>5. QED
    BY <1>0, <2>1, <2>2, <2>3, <2>4 DEF KernelOK, InDecode, InEdge
<1>5. CASE ClockProcess
  <2>1. /\ phase = "edge" /\ runnable \subseteq EdgeProcesses
        /\ notified \subseteq {<<"endPosEdge", "core">>} \cup ({"execute"} \X Units)
        /\ \A s \in Signals : s[1] # "fsm_out" => next_value[s] = signal[s]
    BY <1>0, <1>5 DEF ClockProcess, KernelOK, InEdge
  <2>2. UNCHANGED <<phase, signal, next_value>> /\ runnable' \subseteq EdgeProcesses
    BY <1>0, <1>5, <2>1 DEF ClockProcess
  <2>3. /\ notified' \subseteq {<<"endPosEdge", "core">>} \cup ({"execute"} \X Units)
        /\ \A u \in Units : <<"fsmProcess", u>> \in runnable' => is_pos_edge'
    BY <1>0, <1>5, <2>1 DEF ClockProcess, KernelOK, clock
  <2>4. <<"processDecode", "core">> \notin runnable'
    BY <2>2
  <2>5. QED
    BY <1>0, <2>1, <2>2, <2>3, <2>4 DEF KernelOK, InDecode, InEdge
<1>6. ASSUME NEW u \in Units, FsmProcess(u)
     PROVE  KernelOK'
  <2>1. /\ phase = "edge" /\ runnable \subseteq EdgeProcesses
        /\ notified \subseteq {<<"endPosEdge", "core">>} \cup ({"execute"} \X Units)
        /\ \A s \in Signals : s[1] # "fsm_out" => next_value[s] = signal[s]
    BY <1>0, <1>6 DEF FsmProcess, KernelOK, InEdge
  <2>2. UNCHANGED <<phase, signal, is_pos_edge>> /\ runnable' \subseteq runnable
    BY <1>6 DEF FsmProcess
  <2>3. notified' \subseteq {<<"endPosEdge", "core">>} \cup ({"execute"} \X Units)
    BY <1>6, <2>1 DEF FsmProcess
  <2>4. /\ next_value' = [s \in Signals |-> next_value'[s]]
        /\ \A s \in Signals : s[1] # "fsm_out" => next_value'[s] = next_value[s]
    BY <1>0, <1>6 DEF FsmProcess, KernelOK
  <2>5. <<"processDecode", "core">> \notin runnable'
    BY <2>1, <2>2
  <2>6. QED
    BY <1>0, <2>1, <2>2, <2>3, <2>4, <2>5 DEF KernelOK, InDecode, InEdge
<1>7. QED
  BY <1>1, <1>2, <1>3, <1>4, <1>5, <1>6

\* Every step keeps the shape of the kernel.
LEMMA KernelStep ==
  ASSUME IInv, ~ PeriodIsOne, Next
  PROVE  KernelOK'
<1> DEFINE Timed == EdgeProcesses \cup AtDecode
<1>0. /\ KernelOK /\ notified \subseteq Notified
      /\ <<"endPosEdge", "core">> \in Notified
      /\ \A u \in Units : /\ <<"fsmFinishExec", u>> \in Notified
                          /\ <<"unitProcessFinishRun", u>> \in Notified
                          /\ <<"processUnitResourceConflict", u>> \in Notified
                          /\ <<"processReleaseResource", u>> \in Notified
                          /\ <<"execute", u>> \in Notified
  BY DEF IInv, KernelOK, Notified
<1>1. CASE DeltaCycle
  BY <1>0, <1>1, DeltaRuns, CalmStep DEF DeltaCycle, KernelOK
<1>2. CASE AdvanceTime
  <2>1. /\ runnable = {} /\ notified = {} /\ next_value = signal
        /\ UNCHANGED <<notified, signal, next_value, is_pos_edge>>
    BY <1>0, <1>2 DEF AdvanceTime, Quiescent, Changed, KernelOK, clock
  <2>2. \/ phase' = "decode" /\ runnable' = AtDecode
        \/ phase' = "edge" /\ runnable' = AtEdge
    BY <1>2 DEF AdvanceTime
  <2>3. \A u \in Units : <<"fsmProcess", u>> \notin runnable'
    BY <2>2 DEF AtEdge, AtDecode
  <2>4. InDecode' /\ InEdge'
    BY <1>0, <2>1, <2>2 DEF InDecode, InEdge, AtDecode, AtEdge, EdgeProcesses
  <2>5. QED
    BY <1>0, <2>1, <2>2, <2>3, <2>4 DEF KernelOK
<1>3. CASE DecodeIns \/ DecodeFinish \/ DecodeStalled \/ ProcessUpdatePC \/ ClockProcess
           \/ \E u \in Units : FsmProcess(u)
  BY <1>3, TimedKernelStep
<1>4. CASE ProcessIssue
  <2>1. Run(<<"processIssue", "core">>, {})
    BY <1>4 DEF ProcessIssue
  <2>2. runnable' \cap Timed = {} /\ UNCHANGED <<phase, signal>>
    BY <2>1, CalmRun
  <2>3. /\ notified' \subseteq Notified
        /\ next_value' = [s \in Signals |-> next_value'[s]]
    BY <1>0, <1>4 DEF ProcessIssue, KernelOK, Write, WriteEach, WriteNothing, Notify,
       NotifyNobody
  <2>4. QED
    BY <1>0, <2>2, <2>3, CalmStep DEF KernelOK
<1>5. CASE ProcessStall
  <2>1. Run(<<"processStall", "core">>, {})
    BY <1>5 DEF ProcessStall
  <2>2. runnable' \cap Timed = {} /\ UNCHANGED <<phase, signal>>
    BY <2>1, CalmRun
  <2>3. /\ notified' \subseteq Notified
        /\ next_value' = [s \in Signals |-> next_value'[s]]
    BY <1>0, <1>5 DEF ProcessStall, KernelOK, Write, WriteEach, WriteNothing, Notify,
       NotifyNobody
  <2>4. QED
    BY <1>0, <2>2, <2>3, CalmStep DEF KernelOK
<1>6. CASE ProcessIdExEnable
  <2>1. Run(<<"processIdExEnable", "core">>, {})
    BY <1>6 DEF ProcessIdExEnable
  <2>2. runnable' \cap Timed = {} /\ UNCHANGED <<phase, signal>>
    BY <2>1, CalmRun
  <2>3. /\ notified' \subseteq Notified
        /\ next_value' = [s \in Signals |-> next_value'[s]]
    BY <1>0, <1>6 DEF ProcessIdExEnable, KernelOK, Write, WriteEach, WriteNothing, Notify,
       NotifyNobody
  <2>4. QED
    BY <1>0, <2>2, <2>3, CalmStep DEF KernelOK
<1>7. CASE ProcessFinishRun
  <2>1. Run(<<"processFinishRun", "core">>, {})
    BY <1>7 DEF ProcessFinishRun
  <2>2. runnable' \cap Timed = {} /\ UNCHANGED <<phase, signal>>
    BY <2>1, CalmRun
  <2>3. /\ notified' \subseteq Notified
        /\ next_value' = [s \in Signals |-> next_value'[s]]
    BY <1>0, <1>7 DEF ProcessFinishRun, KernelOK, Write, WriteEach, WriteNothing, Notify,
       NotifyNobody
  <2>4. QED
    BY <1>0, <2>2, <2>3, CalmStep DEF KernelOK
<1>8. CASE EndPosEdge
  <2>1. Run(<<"endPosEdge", "core">>, {})
    BY <1>8 DEF EndPosEdge
  <2>2. runnable' \cap Timed = {} /\ UNCHANGED <<phase, signal>>
    BY <2>1, CalmRun
  <2>3. /\ notified' \subseteq Notified
        /\ next_value' = [s \in Signals |-> next_value'[s]]
    BY <1>0, <1>8 DEF EndPosEdge, KernelOK, Write, WriteEach, WriteNothing, Notify,
       NotifyNobody
  <2>4. QED
    BY <1>0, <2>2, <2>3, CalmStep DEF KernelOK
<1>9. ASSUME NEW u \in Units,
             FsmProcessInput(u)
      PROVE  KernelOK'
  <2>1. Run(<<"fsmProcessInput", u>>, {})
    BY <1>9 DEF FsmProcessInput, AskNextPosEdge
  <2>2. runnable' \cap Timed = {} /\ UNCHANGED <<phase, signal>>
    BY <2>1, CalmRun
  <2>3. /\ notified' \subseteq Notified
        /\ next_value' = [s \in Signals |-> next_value'[s]]
    BY <1>0, <1>9 DEF FsmProcessInput, AskNextPosEdge, KernelOK, Write, WriteEach,
           WriteNothing, Notify,
       NotifyNobody
  <2>4. QED
    BY <1>0, <2>2, <2>3, CalmStep DEF KernelOK
<1>10. ASSUME NEW u \in Units,
              FsmProcessEnable(u)
       PROVE  KernelOK'
  <2>1. Run(<<"fsmProcessEnable", u>>, {})
    BY <1>10 DEF FsmProcessEnable, AskNextPosEdge
  <2>2. runnable' \cap Timed = {} /\ UNCHANGED <<phase, signal>>
    BY <2>1, CalmRun
  <2>3. /\ notified' \subseteq Notified
        /\ next_value' = [s \in Signals |-> next_value'[s]]
    BY <1>0, <1>10 DEF FsmProcessEnable, AskNextPosEdge, KernelOK, Write, WriteEach,
           WriteNothing, Notify,
       NotifyNobody
  <2>4. QED
    BY <1>0, <2>2, <2>3, CalmStep DEF KernelOK
<1>11. ASSUME NEW u \in Units,
              FsmFinishExec(u)
       PROVE  KernelOK'
  <2>1. Run(<<"fsmFinishExec", u>>, {})
    BY <1>11 DEF FsmFinishExec, AskNextPosEdge
  <2>2. runnable' \cap Timed = {} /\ UNCHANGED <<phase, signal>>
    BY <2>1, CalmRun
  <2>3. /\ notified' \subseteq Notified
        /\ next_value' = [s \in Signals |-> next_value'[s]]
    BY <1>0, <1>11 DEF FsmFinishExec, AskNextPosEdge, KernelOK, Write, WriteEach,
           WriteNothing, Notify,
       NotifyNobody
  <2>4. QED
    BY <1>0, <2>2, <2>3, CalmStep DEF KernelOK
<1>12. ASSUME NEW u \in Units,
              CheckInst(u)
       PROVE  KernelOK'
  <2>1. Run(<<"checkInst", u>>, {})
    BY <1>12 DEF CheckInst
  <2>2. runnable' \cap Timed = {} /\ UNCHANGED <<phase, signal>>
    BY <2>1, CalmRun
  <2>3. /\ notified' \subseteq Notified
        /\ next_value' = [s \in Signals |-> next_value'[s]]
    BY <1>0, <1>12 DEF CheckInst, KernelOK, Write, WriteEach, WriteNothing, Notify,
       NotifyNobody
  <2>4. QED
    BY <1>0, <2>2, <2>3, CalmStep DEF KernelOK
<1>13. ASSUME NEW u \in Units, NEW scalars, NEW free \in BOOLEAN,
              Execute(u, scalars, free)
       PROVE  KernelOK'
  <2>1. Run(<<"execute", u>>, {})
    BY <1>13 DEF Execute
  <2>2. runnable' \cap Timed = {} /\ UNCHANGED <<phase, signal>>
    BY <2>1, CalmRun
  <2>3. /\ notified' \subseteq Notified
        /\ next_value' = [s \in Signals |-> next_value'[s]]
    BY <1>0, <1>13 DEF Execute, KernelOK, Write, WriteEach, WriteNothing, Notify,
       NotifyNobody
  <2>4. QED
    BY <1>0, <2>2, <2>3, CalmStep DEF KernelOK
<1>14. ASSUME NEW u \in Units,
              ProcessIdFinish(u)
       PROVE  KernelOK'
  <2>1. Run(<<"processIdFinish", u>>, {})
    BY <1>14 DEF ProcessIdFinish
  <2>2. runnable' \cap Timed = {} /\ UNCHANGED <<phase, signal>>
    BY <2>1, CalmRun
  <2>3. /\ notified' \subseteq Notified
        /\ next_value' = [s \in Signals |-> next_value'[s]]
    BY <1>0, <1>14 DEF ProcessIdFinish, KernelOK, Write, WriteEach, WriteNothing, Notify,
       NotifyNobody
  <2>4. QED
    BY <1>0, <2>2, <2>3, CalmStep DEF KernelOK
<1>15. ASSUME NEW u \in Units,
              ProcessReleaseResource(u)
       PROVE  KernelOK'
  <2>1. Run(<<"processReleaseResource", u>>, {})
    BY <1>15 DEF ProcessReleaseResource
  <2>2. runnable' \cap Timed = {} /\ UNCHANGED <<phase, signal>>
    BY <2>1, CalmRun
  <2>3. /\ notified' \subseteq Notified
        /\ next_value' = [s \in Signals |-> next_value'[s]]
    BY <1>0, <1>15 DEF ProcessReleaseResource, KernelOK, Write, WriteEach, WriteNothing,
           Notify,
       NotifyNobody
  <2>4. QED
    BY <1>0, <2>2, <2>3, CalmStep DEF KernelOK
<1>16. ASSUME NEW u \in Units,
              UnitProcessFinishRun(u)
       PROVE  KernelOK'
  <2>1. Run(<<"unitProcessFinishRun", u>>, {})
    BY <1>16 DEF UnitProcessFinishRun
  <2>2. runnable' \cap Timed = {} /\ UNCHANGED <<phase, signal>>
    BY <2>1, CalmRun
  <2>3. /\ notified' \subseteq Notified
        /\ next_value' = [s \in Signals |-> next_value'[s]]
    BY <1>0, <1>16 DEF UnitProcessFinishRun, KernelOK, Write, WriteEach, WriteNothing,
           Notify,
       NotifyNobody
  <2>4. QED
    BY <1>0, <2>2, <2>3, CalmStep DEF KernelOK
<1>17. ASSUME NEW u \in Units,
              ProcessUnitResourceAllocate(u)
       PROVE  KernelOK'
  <2>1. Run(<<"processUnitResourceAllocate", u>>, {})
    BY <1>17 DEF ProcessUnitResourceAllocate
  <2>2. runnable' \cap Timed = {} /\ UNCHANGED <<phase, signal>>
    BY <2>1, CalmRun
  <2>3. /\ notified' \subseteq Notified
        /\ next_value' = [s \in Signals |-> next_value'[s]]
    BY <1>0, <1>17 DEF ProcessUnitResourceAllocate, KernelOK, Write, WriteEach,
           WriteNothing, Notify,
       NotifyNobody
  <2>4. QED
    BY <1>0, <2>2, <2>3, CalmStep DEF KernelOK
<1>18. ASSUME NEW u \in Units,
              ProcessUnitResourceRelease(u)
       PROVE  KernelOK'
  <2>1. Run(<<"processUnitResourceRelease", u>>, {})
    BY <1>18 DEF ProcessUnitResourceRelease
  <2>2. runnable' \cap Timed = {} /\ UNCHANGED <<phase, signal>>
    BY <2>1, CalmRun
  <2>3. /\ notified' \subseteq Notified
        /\ next_value' = [s \in Signals |-> next_value'[s]]
    BY <1>0, <1>18, ReleaseEffect DEF KernelOK, Notify, NotifyNobody
  <2>4. QED
    BY <1>0, <2>2, <2>3, CalmStep DEF KernelOK
<1>19. ASSUME NEW u \in Units,
              ProcessUnitResourceConflict(u)
       PROVE  KernelOK'
  <2>1. Run(<<"processUnitResourceConflict", u>>, {})
    BY <1>19 DEF ProcessUnitResourceConflict
  <2>2. runnable' \cap Timed = {} /\ UNCHANGED <<phase, signal>>
    BY <2>1, CalmRun
  <2>3. /\ notified' \subseteq Notified
        /\ next_value' = [s \in Signals |-> next_value'[s]]
    BY <1>0, <1>19 DEF ProcessUnitResourceConflict, KernelOK, Write, WriteEach,
           WriteNothing, Notify,
       NotifyNobody
  <2>4. QED
    BY <1>0, <2>2, <2>3, CalmStep DEF KernelOK
<1>20. ASSUME NEW u \in Units, Pipeline(u)
      PROVE  KernelOK'
  <2>1. /\ UNCHANGED <<phase, runnable, signal>>
        /\ notified' \subseteq Notified
        /\ next_value' = [s \in Signals |-> next_value'[s]]
    BY <1>0, <1>20 DEF Pipeline, ReadyForNextExecute, ReleaseResource, FinishInstruction,
       KernelOK, Write, Notify
  <2>2. runnable \cap Timed = {}
    BY <1>20, CalmPipelines DEF Pipeline
  <2>3. QED
    BY <1>0, <2>1, <2>2, CalmStep DEF KernelOK
<1>21. QED
  BY <1>1, <1>2, <1>3, <1>4, <1>5, <1>6, <1>7, <1>8, <1>9, <1>10, <1>11, <1>12, <1>13,
     <1>14, <1>15, <1>16, <1>17, <1>18, <1>19, <1>20
     DEF Next, Kernel, CoreProcess, UnitProcess

-----------------------------------------------------------------------------
(***************************************************************************)
(* The state keeps its types.                                              *)
(***************************************************************************)
\* The thread of a unit takes the instruction in decode.
LEMMA StartedIns ==
  ASSUME IInv, NEW u \in Units, <<"execute", u>> \in runnable
  PROVE  /\ signal[<<"fsm_out", u>>] = cur_ins_payload
         /\ cur_ins_payload \in Payload
         /\ cur_ins_payload.ins_id = ins_id
         /\ cur_ins_payload.unit = u
         /\ ins_id \in Nat
<1>1. /\ signal[<<"fsm_out", u>>] = cur_ins_payload
      /\ cur_ins_payload.unit = u
  BY DEF IInv, StartedOK, Starting, Pending
<1>2. cur_ins_payload # Nothing
  BY <1>1, NothingIsPayload
<1>3. QED
  BY <1>1, <1>2 DEF IInv, DecodeOK

\* A release leaves tables of payloads, each path with those of its unit.
LEMMA ReleaseTyped ==
  ASSUME IInv, NEW u \in Units, ProcessUnitResourceRelease(u)
  PROVE  /\ ins_map' \in [Units -> SUBSET Payload]
         /\ path_map' \in [Units -> [PathKeys -> Payload]]
         /\ \A v \in Units, k \in PathKeys : path_map'[v][k].unit = v
<1>1. /\ ins_map \in [Units -> SUBSET Payload]
      /\ path_map \in [Units -> [PathKeys -> Payload]]
      /\ \A v \in Units, k \in PathKeys : path_map[v][k].unit = v
  BY DEF IInv, StateOK, TablesOK
<1>2. CASE UNCHANGED tables
  BY <1>1, <1>2 DEF tables
<1>3. ASSUME NEW freed \in SUBSET ins_map[u],
             ins_map' = [ins_map EXCEPT ![u] = @ \ freed],
             NEW last \in [{k \in PathKeys : On(ins_map[u] \ freed, k) # {}} -> ins_map[u] \ freed],
             path_map' = [path_map EXCEPT ![u] =
                            PathMapAfter(@, u, freed, ins_map[u] \ freed, last)]
      PROVE  /\ ins_map' \in [Units -> SUBSET Payload]
             /\ path_map' \in [Units -> [PathKeys -> Payload]]
             /\ \A v \in Units, k \in PathKeys : path_map'[v][k].unit = v
  <2> DEFINE paths == path_map[u]
             rest == ins_map[u] \ freed
             after == PathMapAfter(paths, u, freed, rest, last)
  <2>1. rest \in SUBSET Payload /\ \A k \in PathKeys : On(rest, k) # {} => last[k] \in Payload
    BY <1>1
  <2>2. ins_map' \in [Units -> SUBSET Payload] /\ path_map' = [path_map EXCEPT ![u] = after]
    BY <1>1, <1>3
  <2>3. paths \in [PathKeys -> Payload] /\ \A k \in PathKeys : paths[k].unit = u
    BY <1>1
  <2> HIDE DEF paths, rest
  <2>4. paths \in PathMaps(u)
    BY <2>3 DEF PathMaps
  <2>5. after \in PathMaps(u)
    BY <2>1, <2>4, PathMapAfterIsTyped
  <2> HIDE DEF after
  <2>6. QED
    BY <1>1, <2>2, <2>5 DEF PathMaps
<1>4. QED
  BY <1>2, <1>3, ReleaseEffect

\* Every step keeps the types of the units' state.
LEMMA StateStep ==
  ASSUME IInv, Next
  PROVE  StateOK'
<1> USE DEF Run, Write, WriteEach, WriteNothing, Notify, NotifyNobody, Signals, CoreSignals,
           UnitSignals, core, clock, unit, pipeline, tables, history
<1>1. CASE DeltaCycle
  BY <1>1 DEF IInv, StateOK, DeltaCycle
<1>2. CASE AdvanceTime
  BY <1>2 DEF IInv, StateOK, AdvanceTime
<1>3. CASE ClockProcess
  BY <1>3 DEF IInv, StateOK, ClockProcess
<1>4. ASSUME NEW u \in Units,
             FsmProcess(u)
      PROVE  StateOK'
  BY <1>4 DEF IInv, StateOK, FsmProcess
<1>5. ASSUME NEW u \in Units,
             FsmProcessInput(u) \/ FsmProcessEnable(u) \/ FsmFinishExec(u)
      PROVE  StateOK'
  BY <1>5 DEF IInv, StateOK, FsmProcessInput, AskNextPosEdge, FsmProcessEnable,
         FsmFinishExec
<1>6. ASSUME NEW u \in Units, NEW scalars, NEW free \in BOOLEAN,
             Execute(u, scalars, free)
      PROVE  StateOK'
  BY <1>6, StartedIns DEF IInv, StateOK, Execute
<1>7. ASSUME NEW u \in Units,
             ProcessIdFinish(u)
      PROVE  StateOK'
  BY <1>7 DEF IInv, StateOK, ProcessIdFinish
<1>8. ASSUME NEW u \in Units,
             ProcessReleaseResource(u)
      PROVE  StateOK'
  BY <1>8 DEF IInv, StateOK, ProcessReleaseResource
<1>9. ASSUME NEW u \in Units,
             ProcessUnitResourceAllocate(u)
      PROVE  StateOK'
  <2>1. StateOK /\ signal[<<"resource_allocate", u>>] \in Payload
    BY DEF IInv, TablesOK
  <2>2. CASE UNCHANGED tables
    BY <1>9, <2>1, <2>2 DEF StateOK, ProcessUnitResourceAllocate
  <2>3. CASE ~ UNCHANGED tables
    <3> DEFINE new == signal[<<"resource_allocate", u>>]
               key == UniqueId(new.path)
    <3>0. ins_map' = [ins_map EXCEPT ![u] = @ \cup {new}]
      BY <1>9, <2>3 DEF ProcessUnitResourceAllocate
    <3>1. ins_map' \in [Units -> SUBSET Payload]
      BY <2>1, <3>0 DEF StateOK
    <3>2. path_map' = [path_map EXCEPT ![u][key] = Plus(@, new)]
      BY <1>9, <2>3 DEF ProcessUnitResourceAllocate
    <3>3. \A k \in PathKeys : Plus(path_map[u][k], new) \in Payload
      BY <2>1, AddedIsPayload DEF StateOK
    <3>4. path_map' \in [Units -> [PathKeys -> Payload]]
      BY <2>1, <3>2, <3>3 DEF StateOK
    <3>5. QED
      BY <1>9, <2>1, <3>1, <3>4 DEF StateOK, ProcessUnitResourceAllocate
  <2>4. QED
    BY <2>2, <2>3
<1>10. ASSUME NEW u \in Units,
              ProcessUnitResourceRelease(u)
       PROVE  StateOK'
  BY <1>10, ReleaseTyped, ReleaseFrame DEF IInv, StateOK, ProcessUnitResourceRelease
<1>11. ASSUME NEW u \in Units, PipelineTurn(u),
              ReadyForNextExecute(u)
       PROVE  StateOK'
  BY <1>11 DEF IInv, StateOK, ReadyForNextExecute
<1>12. ASSUME NEW u \in Units, NEW id, PipelineTurn(u),
              ReleaseResource(u, id)
       PROVE  StateOK'
  BY <1>12 DEF IInv, StateOK, ReleaseResource, ReleaseList
<1>13. ASSUME NEW u \in Units, NEW id, PipelineTurn(u),
              FinishInstruction(u, id)
       PROVE  StateOK'
  BY <1>13 DEF IInv, StateOK, FinishInstruction
<1>14. CASE DecodeIns \/ DecodeFinish \/ DecodeStalled \/ ProcessUpdatePC \/ ProcessIssue
            \/ ProcessStall \/ ProcessIdExEnable \/ ProcessFinishRun \/ EndPosEdge
  BY <1>14 DEF IInv, StateOK, DecodeIns, DecodeFinish, DecodeStalled,
         ProcessUpdatePC, ProcessIssue, ProcessStall, ProcessIdExEnable,
         ProcessFinishRun, EndPosEdge
<1>15. ASSUME NEW u \in Units,
              CheckInst(u) \/ UnitProcessFinishRun(u)
              \/ ProcessUnitResourceConflict(u)
       PROVE  StateOK'
  BY <1>15 DEF IInv, StateOK, CheckInst, UnitProcessFinishRun,
         ProcessUnitResourceConflict
<1>16. QED
  BY <1>1, <1>2, <1>3, <1>4, <1>5, <1>6, <1>7, <1>8, <1>9, <1>10, <1>11, <1>12,
     <1>13, <1>14, <1>15
     DEF Next, Kernel, CoreProcess, UnitProcess, Pipeline

-----------------------------------------------------------------------------
(***************************************************************************)
(* What holds when everything has settled: at rest, and through the first  *)
(* delta cycle of a clock edge.                                            *)
(***************************************************************************)
Settled == Quiescent \/ runnable \cap EdgeProcesses # {}

\* A settled state reads the signals as they were computed.
LEMMA SettledMeans ==
  ASSUME IInv, Settled
  PROVE  /\ \A s \in Signals : s[1] # "fsm_out" => next_value[s] = signal[s]
         /\ \A p \in runnable :
              p[1] \in {"processDecode", "clockProcess", "processUpdatePC", "fsmProcess"}
         /\ \A p \in notified : p[1] \in {"endPosEdge", "execute"}
<1>1. CASE Quiescent
  BY <1>1 DEF Quiescent, Changed
<1>2. CASE runnable \cap EdgeProcesses # {}
  BY <1>2 DEF IInv, KernelOK, InEdge, EdgeProcesses, AtEdge
<1>3. QED
  BY <1>1, <1>2 DEF Settled

\* What the units are given is what the decode stage holds, and they are enabled if
\* and only if nothing stalls it.
LEMMA SettledSignals ==
  ASSUME IInv, Settled
  PROVE  /\ signal[<<"id_stall", "core">>] <=>
              \/ signal[<<"id_finish", "core">>]
              \/ \E u \in Units : UnitConflict(u)
         /\ \A u \in Units :
              /\ signal[<<"id_ex_enable", u>>] <=> ~ signal[<<"id_stall", "core">>]
              /\ signal[<<"fsm_in", u>>] = ToUnit(cur_ins_payload, u)
              /\ signal[<<"conflict", u>>] <=> UnitConflict(u)
              /\ signal[<<"ready", u>>] <=> waiting[u]
<1> DEFINE Here(n) == \A u \in Units : <<n, u>> \in Signals /\ next_value[<<n, u>>] = signal[<<n, u>>]
<1>1. /\ next_value[<<"id_stall", "core">>] = signal[<<"id_stall", "core">>]
      /\ Here("conflict") /\ Here("id_ex_enable") /\ Here("id_ex_payload") /\ Here("fsm_in")
      /\ Here("ready")
  BY SettledMeans DEF Signals, CoreSignals, UnitSignals
<1>2. /\ <<"processStall", "core">> \notin runnable /\ <<"processIdExEnable", "core">> \notin runnable
      /\ <<"processIssue", "core">> \notin runnable
      /\ \A u \in Units : /\ <<"checkInst", u>> \notin runnable
                          /\ <<"processUnitResourceConflict", u>> \notin Pending
  BY SettledMeans DEF Pending
<1> HIDE DEF UnitConflict
<1>3. \A u \in Units : signal[<<"conflict", u>>] <=> UnitConflict(u)
  BY <1>1, <1>2 DEF IInv, ConflictOK
<1>4. signal[<<"id_stall", "core">>] <=>
        signal[<<"id_finish", "core">>] \/ \E u \in Units : UnitConflict(u)
  BY <1>1, <1>2, <1>3 DEF IInv, StallOK
<1>5. \A u \in Units : /\ signal[<<"id_ex_enable", u>>] <=> ~ signal[<<"id_stall", "core">>]
                       /\ signal[<<"ready", u>>] <=> waiting[u]
  BY <1>1, <1>2 DEF IInv, EnableOK, ThreadOK
<1>6. ASSUME NEW u \in Units
      PROVE  signal[<<"fsm_in", u>>] = ToUnit(cur_ins_payload, u)
  <2>1. signal[<<"id_ex_payload", u>>] = ToUnit(cur_ins_payload, u)
    BY <1>1, <1>2 DEF IInv, IssueOK
  <2>2. signal[<<"fsm_in", u>>] = ToUnit(signal[<<"id_ex_payload", u>>], u)
    BY <1>1, <1>2 DEF IInv, InputOK
  <2>3. QED
    BY <2>1, <2>2, NothingIsPayload DEF ToUnit
<1>7. QED
  BY <1>3, <1>4, <1>5, <1>6

\* Nothing conflicts with an empty decode stage.
LEMMA NothingConflicts ==
  ASSUME IInv, NEW u \in Units, cur_ins_conflict_info = Nothing
  PROVE  ~ UnitConflict(u)
<1>1. \A k \in PathKeys : path_map[u][k] \in Payload /\ path_map[u][k].unit = u
  BY DEF IInv, StateOK, TablesOK
<1>2. u # "none"
  BY UnitsAssumption
<1>3. \A p \in Payload : p.unit = u => ~ ConflictWithIns(p, Nothing)
  BY <1>2 DEF ConflictWithIns, FunctorConflict, Nothing, EmptyPayload, Intersects, Used,
              Payload
<1>4. QED
  BY <1>1, <1>2, <1>3, NothingIsPayload DEF UnitConflict

\* The same after a step that empties it.
LEMMA NothingConflictsNext ==
  ASSUME IInv, NEW u \in Units, cur_ins_conflict_info' = Nothing, UNCHANGED tables
  PROVE  ~ UnitConflict(u)'
<1>1. \A k \in PathKeys : path_map'[u][k] \in Payload /\ path_map'[u][k].unit = u
  <2>1. StateOK /\ TablesOK(u) /\ path_map' = path_map
    BY DEF IInv, tables
  <2>2. QED
    BY <2>1 DEF StateOK, TablesOK
<1>2. u # "none"
  BY UnitsAssumption
<1>3. \A p \in Payload : p.unit = u => ~ ConflictWithIns(p, Nothing)
  BY <1>2 DEF ConflictWithIns, FunctorConflict, Nothing, EmptyPayload, Intersects, Used,
              Payload
<1>4. QED
  BY <1>1, <1>2, <1>3, NothingIsPayload DEF UnitConflict

\* The conflict of a unit depends on the decode stage, its tables and its ready signal.
LEMMA SameConflict ==
  ASSUME NEW u \in Units, UNCHANGED <<cur_ins_conflict_info, path_map>>,
         signal'[<<"ready", u>>] = signal[<<"ready", u>>]
  PROVE  UnitConflict(u)' <=> UnitConflict(u)
BY DEF UnitConflict

-----------------------------------------------------------------------------
(***************************************************************************)
(* What is computed from signals stays up to date.                         *)
(***************************************************************************)
\* The stall of the decode stage (core.cpp:115-121).
LEMMA StallStep ==
  ASSUME IInv, Next
  PROVE  StallOK'
<1> USE DEF Run, Write, WriteEach, WriteNothing, Notify, NotifyNobody, Signals, CoreSignals,
           UnitSignals, core, clock, unit, pipeline, tables, history
<1>0. KernelOK /\ StallOK
  BY DEF IInv
<1>1. CASE DeltaCycle
  <2>1. runnable = {} /\ UNCHANGED next_value
    BY <1>1 DEF DeltaCycle
  <2>2. ASSUME <<"processStall", "core">> \notin runnable'
        PROVE  /\ signal'[<<"id_finish", "core">>] = signal[<<"id_finish", "core">>]
               /\ \A u \in Units : signal'[<<"conflict", u>>] = signal[<<"conflict", u>>]
    BY <1>1, <2>2, DeltaWakes, WhoWakes
  <2>3. QED
    BY <1>0, <2>1, <2>2 DEF StallOK
<1>2. CASE AdvanceTime
  BY <1>2, <1>0 DEF KernelOK, StallOK, Quiescent, AdvanceTime
<1>3. CASE ProcessStall
  BY <1>3, <1>0 DEF KernelOK, StallOK, ProcessStall
<1>4. CASE DecodeIns \/ DecodeFinish \/ DecodeStalled \/ ProcessUpdatePC \/ ProcessIssue
           \/ ProcessIdExEnable \/ ProcessFinishRun \/ ClockProcess \/ EndPosEdge
  BY <1>4, <1>0 DEF KernelOK, StallOK, DecodeIns, DecodeFinish, DecodeStalled,
         ProcessUpdatePC, ProcessIssue, ProcessIdExEnable, ProcessFinishRun,
         ClockProcess, EndPosEdge
<1>5. ASSUME NEW u \in Units, NEW scalars, NEW free \in BOOLEAN,
             FsmProcess(u) \/ FsmProcessInput(u) \/ FsmProcessEnable(u)
             \/ FsmFinishExec(u) \/ CheckInst(u) \/ Execute(u, scalars, free)
      PROVE  StallOK'
  BY <1>5, <1>0 DEF KernelOK, StallOK, FsmProcess, FsmProcessInput, AskNextPosEdge,
         FsmProcessEnable, FsmFinishExec, CheckInst, Execute
<1>6. ASSUME NEW u \in Units,
             ProcessIdFinish(u) \/ ProcessReleaseResource(u)
             \/ UnitProcessFinishRun(u) \/ ProcessUnitResourceAllocate(u)
             \/ ProcessUnitResourceConflict(u)
      PROVE  StallOK'
  BY <1>6, <1>0 DEF KernelOK, StallOK, ProcessIdFinish, ProcessReleaseResource,
         UnitProcessFinishRun, ProcessUnitResourceAllocate,
         ProcessUnitResourceConflict
<1>7. ASSUME NEW u \in Units,
             ProcessUnitResourceRelease(u)
      PROVE  StallOK'
  BY <1>7, ReleaseEffect, <1>0 DEF KernelOK, StallOK, ProcessUnitResourceRelease
<1>8. ASSUME NEW u \in Units, NEW id, PipelineTurn(u),
             ReadyForNextExecute(u) \/ ReleaseResource(u, id)
             \/ FinishInstruction(u, id)
      PROVE  StallOK'
  BY <1>8, <1>0 DEF KernelOK, StallOK, ReadyForNextExecute, ReleaseResource,
         FinishInstruction
<1>9. QED
  BY <1>1, <1>2, <1>3, <1>4, <1>5, <1>6, <1>7, <1>8
     DEF Next, Kernel, CoreProcess, UnitProcess, Pipeline

\* What enables the FSMs (core.cpp:123-127).
LEMMA EnableStep ==
  ASSUME IInv, NEW v \in Units, Next
  PROVE  EnableOK(v)'
<1> USE DEF Run, Write, WriteEach, WriteNothing, Notify, NotifyNobody, Signals, CoreSignals,
           UnitSignals, core, clock, unit, pipeline, tables, history
<1>0. KernelOK /\ EnableOK(v)
  BY DEF IInv
<1>1. CASE DeltaCycle
  <2>1. runnable = {} /\ UNCHANGED next_value
    BY <1>1 DEF DeltaCycle
  <2>2. ASSUME <<"processIdExEnable", "core">> \notin runnable'
        PROVE  signal'[<<"id_stall", "core">>] = signal[<<"id_stall", "core">>]
    BY <1>1, <2>2, DeltaWakes, WhoWakes
  <2>3. QED
    BY <1>0, <2>1, <2>2 DEF EnableOK
<1>2. CASE AdvanceTime
  BY <1>2, <1>0 DEF KernelOK, EnableOK, Quiescent, AdvanceTime
<1>3. CASE ProcessIdExEnable
  BY <1>3, <1>0 DEF KernelOK, EnableOK, ProcessIdExEnable
<1>4. ASSUME NEW u \in Units, NEW scalars, NEW free \in BOOLEAN,
             FsmProcess(u) \/ FsmProcessInput(u) \/ FsmProcessEnable(u)
             \/ FsmFinishExec(u) \/ CheckInst(u) \/ Execute(u, scalars, free)
      PROVE  EnableOK(v)'
  <2>1. UNCHANGED signal /\ next_value'[<<"id_ex_enable", v>>] = next_value[<<"id_ex_enable", v>>]
    BY <1>4, <1>0 DEF KernelOK, FsmProcess, FsmProcessInput, AskNextPosEdge,
           FsmProcessEnable, FsmFinishExec, CheckInst, Execute
  <2>2. <<"processIdExEnable", "core">> \in runnable => <<"processIdExEnable", "core">> \in runnable'
    BY <1>4 DEF FsmProcess, FsmProcessInput, AskNextPosEdge, FsmProcessEnable,
                FsmFinishExec, CheckInst, Execute
  <2>3. QED
    BY <1>0, <2>1, <2>2 DEF EnableOK
<1>5. CASE DecodeIns \/ DecodeFinish \/ DecodeStalled \/ ProcessUpdatePC \/ ProcessIssue
           \/ ProcessStall \/ ProcessFinishRun \/ ClockProcess \/ EndPosEdge
  BY <1>5, <1>0 DEF KernelOK, EnableOK, DecodeIns, DecodeFinish, DecodeStalled,
         ProcessUpdatePC, ProcessIssue, ProcessStall, ProcessFinishRun,
         ClockProcess, EndPosEdge
<1>6. ASSUME NEW u \in Units,
             ProcessIdFinish(u) \/ ProcessReleaseResource(u)
             \/ UnitProcessFinishRun(u) \/ ProcessUnitResourceAllocate(u)
             \/ ProcessUnitResourceConflict(u)
      PROVE  EnableOK(v)'
  BY <1>6, <1>0 DEF KernelOK, EnableOK, ProcessIdFinish, ProcessReleaseResource,
         UnitProcessFinishRun, ProcessUnitResourceAllocate,
         ProcessUnitResourceConflict
<1>7. ASSUME NEW u \in Units,
             ProcessUnitResourceRelease(u)
      PROVE  EnableOK(v)'
  BY <1>7, ReleaseEffect, <1>0 DEF KernelOK, EnableOK, ProcessUnitResourceRelease
<1>8. ASSUME NEW u \in Units, NEW id, PipelineTurn(u),
             ReadyForNextExecute(u) \/ ReleaseResource(u, id)
             \/ FinishInstruction(u, id)
      PROVE  EnableOK(v)'
  BY <1>8, <1>0 DEF KernelOK, EnableOK, ReadyForNextExecute, ReleaseResource,
         FinishInstruction
<1>9. QED
  BY <1>1, <1>2, <1>3, <1>4, <1>5, <1>6, <1>7, <1>8
     DEF Next, Kernel, CoreProcess, UnitProcess, Pipeline

\* What the units are given (core.cpp:103-113).
LEMMA IssueStep ==
  ASSUME IInv, NEW v \in Units, Next
  PROVE  IssueOK(v)'
<1> USE DEF Run, Write, WriteEach, WriteNothing, Notify, NotifyNobody, Signals, CoreSignals,
           UnitSignals, core, clock, unit, pipeline, tables, history
<1>0. KernelOK /\ IssueOK(v) /\ DecodeOK
  BY DEF IInv
<1>1. CASE DeltaCycle
  <2>1. runnable = {} /\ UNCHANGED <<next_value, cur_ins_payload>>
    BY <1>1 DEF DeltaCycle
  <2>2. QED
    BY <1>0, <2>1 DEF IssueOK
<1>2. CASE AdvanceTime
  BY <1>2, <1>0 DEF KernelOK, IssueOK, ToUnit, Quiescent, AdvanceTime
<1>3. CASE DecodeIns
  BY <1>3, <1>0 DEF IssueOK, DecodeOK, PayloadOf, DecodeIns
<1>4. CASE ProcessIssue
  BY <1>4, <1>0, NothingIsPayload DEF KernelOK, IssueOK, ToUnit, DecodeOK,
         ProcessIssue
<1>5. CASE DecodeFinish \/ DecodeStalled \/ ProcessUpdatePC \/ ProcessStall
           \/ ProcessIdExEnable \/ ProcessFinishRun \/ ClockProcess \/ EndPosEdge
  BY <1>5, <1>0 DEF KernelOK, IssueOK, ToUnit, DecodeFinish, DecodeStalled,
         ProcessUpdatePC, ProcessStall, ProcessIdExEnable, ProcessFinishRun,
         ClockProcess, EndPosEdge
<1>6. ASSUME NEW u \in Units, NEW scalars, NEW free \in BOOLEAN,
             FsmProcess(u) \/ FsmProcessInput(u) \/ FsmProcessEnable(u)
             \/ FsmFinishExec(u) \/ CheckInst(u) \/ Execute(u, scalars, free)
      PROVE  IssueOK(v)'
  BY <1>6, <1>0 DEF KernelOK, IssueOK, ToUnit, FsmProcess, FsmProcessInput,
         AskNextPosEdge, FsmProcessEnable, FsmFinishExec, CheckInst, Execute
<1>7. ASSUME NEW u \in Units,
             ProcessIdFinish(u) \/ ProcessReleaseResource(u)
             \/ UnitProcessFinishRun(u) \/ ProcessUnitResourceAllocate(u)
             \/ ProcessUnitResourceConflict(u)
      PROVE  IssueOK(v)'
  BY <1>7, <1>0 DEF KernelOK, IssueOK, ToUnit, ProcessIdFinish,
         ProcessReleaseResource, UnitProcessFinishRun, ProcessUnitResourceAllocate,
         ProcessUnitResourceConflict
<1>8. ASSUME NEW u \in Units,
             ProcessUnitResourceRelease(u)
      PROVE  IssueOK(v)'
  BY <1>8, ReleaseEffect, <1>0 DEF KernelOK, IssueOK, ToUnit, ProcessUnitResourceRelease
<1>9. ASSUME NEW u \in Units, NEW id, PipelineTurn(u),
             ReadyForNextExecute(u) \/ ReleaseResource(u, id)
             \/ FinishInstruction(u, id)
      PROVE  IssueOK(v)'
  BY <1>9, <1>0 DEF KernelOK, IssueOK, ToUnit, ReadyForNextExecute, ReleaseResource,
         FinishInstruction
<1>10. QED
  BY <1>1, <1>2, <1>3, <1>4, <1>5, <1>6, <1>7, <1>8, <1>9
     DEF Next, Kernel, CoreProcess, UnitProcess, Pipeline

\* What the FSMs are given (execute_unit.cpp:49-56).
LEMMA InputStep ==
  ASSUME IInv, NEW v \in Units, Next
  PROVE  InputOK(v)'
<1> USE DEF Run, Write, WriteEach, WriteNothing, Notify, NotifyNobody, Signals, CoreSignals,
           UnitSignals, core, clock, unit, pipeline, tables, history
<1>0. KernelOK /\ InputOK(v)
  BY DEF IInv
<1>1. CASE DeltaCycle
  <2>1. runnable = {} /\ UNCHANGED next_value
    BY <1>1 DEF DeltaCycle
  <2>2. ASSUME <<"checkInst", v>> \notin runnable'
        PROVE  signal'[<<"id_ex_payload", v>>] = signal[<<"id_ex_payload", v>>]
    BY <1>1, <2>2, DeltaWakes, WhoWakes
  <2>3. QED
    BY <1>0, <2>1, <2>2 DEF InputOK
<1>2. CASE AdvanceTime
  BY <1>2, <1>0 DEF KernelOK, InputOK, ToUnit, Quiescent, AdvanceTime
<1>3. ASSUME NEW u \in Units,
             CheckInst(u)
      PROVE  InputOK(v)'
  BY <1>3, <1>0 DEF KernelOK, InputOK, ToUnit, CheckInst
<1>4. CASE DecodeIns \/ DecodeFinish \/ DecodeStalled \/ ProcessUpdatePC \/ ProcessIssue
           \/ ProcessStall \/ ProcessIdExEnable \/ ProcessFinishRun \/ ClockProcess
           \/ EndPosEdge
  BY <1>4, <1>0 DEF KernelOK, InputOK, ToUnit, DecodeIns, DecodeFinish,
         DecodeStalled, ProcessUpdatePC, ProcessIssue, ProcessStall,
         ProcessIdExEnable, ProcessFinishRun, ClockProcess, EndPosEdge
<1>5. ASSUME NEW u \in Units, NEW scalars, NEW free \in BOOLEAN,
             FsmProcess(u) \/ FsmProcessInput(u) \/ FsmProcessEnable(u)
             \/ FsmFinishExec(u) \/ Execute(u, scalars, free)
      PROVE  InputOK(v)'
  BY <1>5, <1>0 DEF KernelOK, InputOK, ToUnit, FsmProcess, FsmProcessInput,
         AskNextPosEdge, FsmProcessEnable, FsmFinishExec, Execute
<1>6. ASSUME NEW u \in Units,
             ProcessIdFinish(u) \/ ProcessReleaseResource(u)
             \/ UnitProcessFinishRun(u) \/ ProcessUnitResourceAllocate(u)
             \/ ProcessUnitResourceConflict(u)
      PROVE  InputOK(v)'
  BY <1>6, <1>0 DEF KernelOK, InputOK, ToUnit, ProcessIdFinish,
         ProcessReleaseResource, UnitProcessFinishRun, ProcessUnitResourceAllocate,
         ProcessUnitResourceConflict
<1>7. ASSUME NEW u \in Units,
             ProcessUnitResourceRelease(u)
      PROVE  InputOK(v)'
  BY <1>7, ReleaseEffect, <1>0 DEF KernelOK, InputOK, ToUnit, ProcessUnitResourceRelease
<1>8. ASSUME NEW u \in Units, NEW id, PipelineTurn(u),
             ReadyForNextExecute(u) \/ ReleaseResource(u, id)
             \/ FinishInstruction(u, id)
      PROVE  InputOK(v)'
  BY <1>8, <1>0 DEF KernelOK, InputOK, ToUnit, ReadyForNextExecute, ReleaseResource,
         FinishInstruction
<1>9. QED
  BY <1>1, <1>2, <1>3, <1>4, <1>5, <1>6, <1>7, <1>8
     DEF Next, Kernel, CoreProcess, UnitProcess, Pipeline

\* The conflict each unit reports (conflict_handler.cpp:58-64).
LEMMA ConflictStep ==
  ASSUME IInv, NEW v \in Units, Next
  PROVE  ConflictOK(v)'
<1> USE DEF Run, Write, WriteEach, WriteNothing, Notify, NotifyNobody, Signals, CoreSignals,
           UnitSignals, core, clock, unit, pipeline, tables, history
<1>0. KernelOK /\ StateOK /\ ConflictOK(v)
  BY DEF IInv
<1>1. CASE DeltaCycle
  <2>1. CASE signal'[<<"ready", v>>] = signal[<<"ready", v>>]
    <3>1. UnitConflict(v)' <=> UnitConflict(v)
      BY <1>1, <2>1, SameConflict DEF DeltaCycle
    <3>2. <<"processUnitResourceConflict", v>> \in Pending =>
            <<"processUnitResourceConflict", v>> \in Pending'
      BY <1>1, DeltaWakes DEF DeltaCycle, Pending
    <3>3. next_value' = next_value
      BY <1>1 DEF DeltaCycle
    <3>4. QED
      BY <1>0, <3>1, <3>2, <3>3 DEF ConflictOK
  <2>2. CASE signal'[<<"ready", v>>] # signal[<<"ready", v>>]
    <3>1. <<"processUnitResourceConflict", v>> \in runnable'
      BY <1>1, <2>2, DeltaWakes, WhoWakes
    <3>2. QED
      BY <3>1 DEF ConflictOK, Pending
  <2>3. QED
    BY <2>1, <2>2
<1>2. CASE AdvanceTime
  <2>1. UnitConflict(v)' <=> UnitConflict(v)
    BY <1>2, SameConflict DEF AdvanceTime
  <2>2. <<"processUnitResourceConflict", v>> \notin Pending /\ UNCHANGED next_value
    BY <1>2 DEF AdvanceTime, Quiescent, Pending
  <2>3. QED
    BY <1>0, <2>1, <2>2 DEF ConflictOK
<1>3. CASE DecodeIns
  BY <1>3 DEF Pending, ConflictOK, DecodeIns
<1>4. CASE ProcessUpdatePC
  <2>1. UNCHANGED <<tables, signal, next_value>>
    BY <1>4 DEF ProcessUpdatePC
  <2>2. CASE cur_ins_conflict_info' = cur_ins_conflict_info
    <3>1. UnitConflict(v)' <=> UnitConflict(v)
      BY <2>1, <2>2, SameConflict
    <3>2. <<"processUnitResourceConflict", v>> \in Pending =>
            <<"processUnitResourceConflict", v>> \in Pending'
      BY <1>4 DEF ProcessUpdatePC, Pending
    <3>3. QED
      BY <1>0, <2>1, <3>1, <3>2 DEF ConflictOK
  <2>3. CASE cur_ins_conflict_info' # cur_ins_conflict_info
    <3>1. ~ signal[<<"id_stall", "core">>] /\ cur_ins_conflict_info' = Nothing
      BY <1>4, <2>3 DEF ProcessUpdatePC
    <3>2. Settled
      BY <1>4 DEF ProcessUpdatePC, Settled, EdgeProcesses, AtEdge
    <3>3. ~ signal[<<"conflict", v>>]
      BY <3>1, <3>2, SettledSignals
    <3>4. <<"conflict", v>> \in Signals
      OBVIOUS
    <3>5. ~ next_value'[<<"conflict", v>>]
      BY <2>1, <3>2, <3>3, <3>4, SettledMeans
    <3>6. ~ UnitConflict(v)'
      BY <2>1, <3>1, NothingConflictsNext
    <3>7. QED
      BY <3>5, <3>6 DEF ConflictOK
  <2>4. QED
    BY <2>2, <2>3
<1>5. ASSUME NEW u \in Units, NEW scalars, NEW free \in BOOLEAN,
             Execute(u, scalars, free)
      PROVE  ConflictOK(v)'
  <2>1. UnitConflict(v)' <=> UnitConflict(v)
    BY <1>5, SameConflict DEF Execute
  <2>2. next_value'[<<"conflict", v>>] = next_value[<<"conflict", v>>]
    BY <1>5, <1>0 DEF Execute, KernelOK
  <2>3. <<"processUnitResourceConflict", v>> \in Pending => <<"processUnitResourceConflict", v>> \in Pending'
    BY <1>5 DEF Execute, Pending
  <2>4. QED
    BY <1>0, <2>1, <2>2, <2>3 DEF ConflictOK
<1>6. ASSUME NEW u \in Units,
             ProcessUnitResourceAllocate(u)
      PROVE  ConflictOK(v)'
  <2>1. UNCHANGED <<signal, next_value, cur_ins_conflict_info>>
    BY <1>6 DEF ProcessUnitResourceAllocate
  <2>2. CASE UNCHANGED path_map \/ v # u
    <3>1. path_map'[v] = path_map[v]
      BY <1>6, <1>0, <2>2 DEF ProcessUnitResourceAllocate, StateOK
    <3>2. UnitConflict(v)' <=> UnitConflict(v)
      BY <2>1, <3>1 DEF UnitConflict
    <3>3. <<"processUnitResourceConflict", v>> \in Pending =>
            <<"processUnitResourceConflict", v>> \in Pending'
      BY <1>6 DEF ProcessUnitResourceAllocate, Pending
    <3>4. QED
      BY <1>0, <2>1, <3>2, <3>3 DEF ConflictOK
  <2>3. CASE ~ UNCHANGED path_map /\ v = u
    BY <1>6, <2>3 DEF ProcessUnitResourceAllocate, ConflictOK, Pending
  <2>4. QED
    BY <2>2, <2>3
<1>7. ASSUME NEW u \in Units,
             ProcessUnitResourceRelease(u)
      PROVE  ConflictOK(v)'
  <2>1. UNCHANGED <<signal, next_value, cur_ins_conflict_info>>
    BY <1>7, ReleaseEffect
  <2>2. CASE UNCHANGED path_map \/ v # u
    <3>1. path_map'[v] = path_map[v]
      BY <1>7, <1>0, <2>2, ReleaseEffect DEF StateOK
    <3>2. UnitConflict(v)' <=> UnitConflict(v)
      BY <2>1, <3>1 DEF UnitConflict
    <3>3. <<"processUnitResourceConflict", v>> \in Pending =>
            <<"processUnitResourceConflict", v>> \in Pending'
      BY <1>7, ReleaseEffect DEF Pending
    <3>4. QED
      BY <1>0, <2>1, <3>2, <3>3 DEF ConflictOK
  <2>3. CASE ~ UNCHANGED path_map /\ v = u
    BY <1>7, <2>3, ReleaseEffect DEF ConflictOK, Pending
  <2>4. QED
    BY <2>2, <2>3
<1>8. ASSUME NEW u \in Units,
             ProcessUnitResourceConflict(u)
      PROVE  ConflictOK(v)'
  <2>1. UnitConflict(v)' <=> UnitConflict(v)
    BY <1>8, SameConflict DEF ProcessUnitResourceConflict
  <2>2. CASE v = u
    BY <1>8, <1>0, <2>1, <2>2 DEF ProcessUnitResourceConflict, ConflictOK, KernelOK
  <2>3. CASE v # u
    BY <1>8, <1>0, <2>1, <2>3 DEF ProcessUnitResourceConflict, ConflictOK, KernelOK,
           Pending
  <2>4. QED
    BY <2>2, <2>3
<1>9. CASE DecodeFinish \/ DecodeStalled \/ ProcessIssue \/ ProcessStall
           \/ ProcessIdExEnable \/ ProcessFinishRun \/ ClockProcess \/ EndPosEdge
  <2>1. UnitConflict(v)' <=> UnitConflict(v)
    BY <1>9, SameConflict DEF DecodeFinish, DecodeStalled, ProcessIssue, ProcessStall,
           ProcessIdExEnable, ProcessFinishRun, ClockProcess, EndPosEdge
  <2>2. next_value'[<<"conflict", v>>] = next_value[<<"conflict", v>>]
    BY <1>9, <1>0 DEF DecodeFinish, DecodeStalled, ProcessIssue, ProcessStall,
           ProcessIdExEnable, ProcessFinishRun, ClockProcess, EndPosEdge, KernelOK
  <2>3. <<"processUnitResourceConflict", v>> \in Pending => <<"processUnitResourceConflict", v>> \in Pending'
    BY <1>9 DEF DecodeFinish, DecodeStalled, ProcessIssue, ProcessStall,
                ProcessIdExEnable, ProcessFinishRun, ClockProcess, EndPosEdge, Pending
  <2>4. QED
    BY <1>0, <2>1, <2>2, <2>3 DEF ConflictOK
<1>10. ASSUME NEW u \in Units,
              FsmProcess(u) \/ FsmProcessInput(u) \/ FsmProcessEnable(u)
              \/ FsmFinishExec(u) \/ CheckInst(u)
       PROVE  ConflictOK(v)'
  <2>1. UnitConflict(v)' <=> UnitConflict(v)
    BY <1>10, SameConflict DEF FsmProcess, FsmProcessInput, AskNextPosEdge,
           FsmProcessEnable, FsmFinishExec, CheckInst
  <2>2. next_value'[<<"conflict", v>>] = next_value[<<"conflict", v>>]
    BY <1>10, <1>0 DEF FsmProcess, FsmProcessInput, AskNextPosEdge, FsmProcessEnable,
           FsmFinishExec, CheckInst, KernelOK
  <2>3. <<"processUnitResourceConflict", v>> \in Pending => <<"processUnitResourceConflict", v>> \in Pending'
    BY <1>10 DEF FsmProcess, FsmProcessInput, AskNextPosEdge, FsmProcessEnable,
                 FsmFinishExec, CheckInst, Pending
  <2>4. QED
    BY <1>0, <2>1, <2>2, <2>3 DEF ConflictOK
<1>11. ASSUME NEW u \in Units,
              ProcessIdFinish(u) \/ ProcessReleaseResource(u)
              \/ UnitProcessFinishRun(u)
       PROVE  ConflictOK(v)'
  <2>1. UnitConflict(v)' <=> UnitConflict(v)
    BY <1>11, SameConflict DEF ProcessIdFinish, ProcessReleaseResource,
           UnitProcessFinishRun
  <2>2. next_value'[<<"conflict", v>>] = next_value[<<"conflict", v>>]
    BY <1>11, <1>0 DEF ProcessIdFinish, ProcessReleaseResource, UnitProcessFinishRun,
           KernelOK
  <2>3. <<"processUnitResourceConflict", v>> \in Pending => <<"processUnitResourceConflict", v>> \in Pending'
    BY <1>11 DEF ProcessIdFinish, ProcessReleaseResource, UnitProcessFinishRun, Pending
  <2>4. QED
    BY <1>0, <2>1, <2>2, <2>3 DEF ConflictOK
<1>12. ASSUME NEW u \in Units, NEW id, PipelineTurn(u),
              ReadyForNextExecute(u) \/ ReleaseResource(u, id)
              \/ FinishInstruction(u, id)
       PROVE  ConflictOK(v)'
  <2>1. UnitConflict(v)' <=> UnitConflict(v)
    BY <1>12, SameConflict DEF ReadyForNextExecute, ReleaseResource, FinishInstruction
  <2>2. next_value'[<<"conflict", v>>] = next_value[<<"conflict", v>>]
    BY <1>12, <1>0 DEF ReadyForNextExecute, ReleaseResource, FinishInstruction, KernelOK
  <2>3. <<"processUnitResourceConflict", v>> \in Pending => <<"processUnitResourceConflict", v>> \in Pending'
    BY <1>12 DEF ReadyForNextExecute, ReleaseResource, FinishInstruction, Pending
  <2>4. QED
    BY <1>0, <2>1, <2>2, <2>3 DEF ConflictOK
<1>13. QED
  BY <1>1, <1>2, <1>3, <1>4, <1>5, <1>6, <1>7, <1>8, <1>9, <1>10, <1>11, <1>12
     DEF Next, Kernel, CoreProcess, UnitProcess, Pipeline

-----------------------------------------------------------------------------
(***************************************************************************)
(* The FSM of a unit and its thread.                                       *)
(***************************************************************************)
\* What the FSM and the thread of a unit depend on.
LEMMA SameThread ==
  ASSUME NEW v \in Units, ThreadOK(v),
         <<"execute", v>> \in runnable' <=> <<"execute", v>> \in runnable,
         <<"execute", v>> \in notified' <=> <<"execute", v>> \in notified,
         <<"fsmFinishExec", v>> \in runnable' <=> <<"fsmFinishExec", v>> \in runnable,
         <<"fsmFinishExec", v>> \in notified' <=> <<"fsmFinishExec", v>> \in notified,
         is_ready'[v] = is_ready[v], waiting'[v] = waiting[v],
         next_value'[<<"ready", v>>] = next_value[<<"ready", v>>]
  PROVE  ThreadOK(v)'
BY DEF ThreadOK, Starting, Resuming, Pending

\* What a start depends on.
LEMMA SameStart ==
  ASSUME NEW v \in Units, StartedOK(v),
         <<"execute", v>> \in runnable' => <<"execute", v>> \in runnable,
         <<"execute", v>> \in notified' => <<"execute", v>> \in notified,
         UNCHANGED <<phase, cur_ins_payload, signal>>,
         next_value'[<<"fsm_out", v>>] = next_value[<<"fsm_out", v>>]
  PROVE  StartedOK(v)'
BY DEF StartedOK, Starting, Pending

\* An FSM that could start is called at the next edge (fsm.h:58-73).
LEMMA CalledStep ==
  ASSUME IInv, NEW v \in Units, Next
  PROVE  CalledAtEdge(v)'
<1> USE DEF Run, Write, WriteEach, WriteNothing, Notify, NotifyNobody, Signals, CoreSignals,
           UnitSignals, core, clock, unit, pipeline, tables, history
<1>0. KernelOK /\ StateOK /\ CalledAtEdge(v)
  BY DEF IInv
<1>1. CASE DeltaCycle
  <2>1. runnable = {} /\ UNCHANGED <<is_ready, pos_edge_events>>
    BY <1>1 DEF DeltaCycle
  <2>2. /\ \/ <<"fsmProcessInput", v>> \in runnable'
           \/ signal'[<<"fsm_in", v>>] = signal[<<"fsm_in", v>>]
        /\ \/ <<"fsmProcessEnable", v>> \in runnable'
           \/ signal'[<<"id_ex_enable", v>>] = signal[<<"id_ex_enable", v>>]
    BY <1>1, DeltaWakes, WhoWakes
  <2>3. QED
    BY <1>0, <2>1, <2>2 DEF CalledAtEdge
<1>2. CASE AdvanceTime
  BY <1>2, <1>0 DEF KernelOK, CalledAtEdge, Quiescent, AdvanceTime
<1>3. CASE ClockProcess
  BY <1>3, <1>0 DEF KernelOK, StateOK, CalledAtEdge, ClockProcess
<1>4. ASSUME NEW u \in Units,
             FsmProcess(u)
      PROVE  CalledAtEdge(v)'
  BY <1>4, <1>0 DEF KernelOK, StateOK, CalledAtEdge, Starts, FsmProcess
<1>5. CASE DecodeIns \/ DecodeFinish \/ DecodeStalled \/ ProcessUpdatePC \/ ProcessIssue
           \/ ProcessStall \/ ProcessIdExEnable \/ ProcessFinishRun \/ EndPosEdge
  BY <1>5, <1>0 DEF KernelOK, StateOK, CalledAtEdge, DecodeIns, DecodeFinish,
         DecodeStalled, ProcessUpdatePC, ProcessIssue, ProcessStall,
         ProcessIdExEnable, ProcessFinishRun, EndPosEdge
<1>6. ASSUME NEW u \in Units,
             FsmProcessInput(u) \/ FsmProcessEnable(u) \/ FsmFinishExec(u)
             \/ CheckInst(u)
      PROVE  CalledAtEdge(v)'
  BY <1>6, <1>0 DEF KernelOK, StateOK, CalledAtEdge, FsmProcessInput,
         AskNextPosEdge, FsmProcessEnable, FsmFinishExec, CheckInst
<1>7. ASSUME NEW u \in Units, NEW scalars, NEW free \in BOOLEAN,
             Execute(u, scalars, free)
      PROVE  CalledAtEdge(v)'
  BY <1>7, <1>0 DEF KernelOK, StateOK, CalledAtEdge, Execute
<1>8. ASSUME NEW u \in Units,
             ProcessIdFinish(u) \/ ProcessReleaseResource(u)
             \/ UnitProcessFinishRun(u) \/ ProcessUnitResourceAllocate(u)
             \/ ProcessUnitResourceConflict(u)
      PROVE  CalledAtEdge(v)'
  BY <1>8, <1>0 DEF KernelOK, StateOK, CalledAtEdge, ProcessIdFinish,
         ProcessReleaseResource, UnitProcessFinishRun, ProcessUnitResourceAllocate,
         ProcessUnitResourceConflict
<1>9. ASSUME NEW u \in Units,
             ProcessUnitResourceRelease(u)
      PROVE  CalledAtEdge(v)'
  BY <1>9, ReleaseEffect, <1>0 DEF KernelOK, StateOK, CalledAtEdge,
         ProcessUnitResourceRelease
<1>10. ASSUME NEW u \in Units, NEW id, PipelineTurn(u),
              ReadyForNextExecute(u) \/ ReleaseResource(u, id)
              \/ FinishInstruction(u, id)
       PROVE  CalledAtEdge(v)'
  BY <1>10, <1>0 DEF KernelOK, StateOK, CalledAtEdge, ReadyForNextExecute,
         ReleaseResource, FinishInstruction
<1>11. QED
  BY <1>1, <1>2, <1>3, <1>4, <1>5, <1>6, <1>7, <1>8, <1>9, <1>10
     DEF Next, Kernel, CoreProcess, UnitProcess, Pipeline

\* A unit waits for an instruction if its FSM is ready, starts it or is told
\* (fsm.h:47-73, execute_unit.h:75-101).
LEMMA ThreadStep ==
  ASSUME IInv, NEW v \in Units, Next
  PROVE  ThreadOK(v)'
<1> USE DEF Run, Write, WriteEach, WriteNothing, Notify, NotifyNobody, Signals, CoreSignals,
           UnitSignals, core, clock, unit, pipeline, tables, history
<1>0. KernelOK /\ StateOK /\ ThreadOK(v)
  BY DEF IInv
<1>1. CASE DeltaCycle
  BY <1>1, DeltaRuns DEF IInv, KernelOK, ThreadOK, Starting, Resuming, Pending,
         DeltaCycle
<1>2. CASE AdvanceTime
  <2>1. /\ ~ Starting(v) /\ ~ Resuming(v) /\ notified' = {}
        /\ UNCHANGED <<is_ready, waiting, next_value>>
    BY <1>2 DEF AdvanceTime, Quiescent, Starting, Resuming, Pending
  <2>2. <<"execute", v>> \notin runnable' /\ <<"fsmFinishExec", v>> \notin runnable'
    BY <1>2 DEF AdvanceTime, AtDecode, AtEdge
  <2>3. QED
    BY <1>0, <2>1, <2>2 DEF ThreadOK, Starting, Resuming, Pending
<1>3. CASE DecodeIns \/ DecodeFinish \/ DecodeStalled \/ ProcessUpdatePC \/ ProcessIssue
           \/ ProcessStall \/ ProcessIdExEnable \/ ProcessFinishRun
  <2>1. /\ <<"execute", v>> \in runnable' <=> <<"execute", v>> \in runnable
        /\ <<"execute", v>> \in notified' <=> <<"execute", v>> \in notified
        /\ <<"fsmFinishExec", v>> \in runnable' <=> <<"fsmFinishExec", v>> \in runnable
        /\ <<"fsmFinishExec", v>> \in notified' <=> <<"fsmFinishExec", v>> \in notified
    BY <1>3 DEF DecodeIns, DecodeFinish, DecodeStalled, ProcessUpdatePC, ProcessIssue,
                ProcessStall, ProcessIdExEnable, ProcessFinishRun
  <2>2. /\ is_ready'[v] = is_ready[v] /\ waiting'[v] = waiting[v]
        /\ next_value'[<<"ready", v>>] = next_value[<<"ready", v>>]
    BY <1>3, <1>0 DEF DecodeIns, DecodeFinish, DecodeStalled, ProcessUpdatePC,
           ProcessIssue, ProcessStall, ProcessIdExEnable, ProcessFinishRun, KernelOK,
           StateOK
  <2>3. QED
    BY <1>0, <2>1, <2>2, SameThread
<1>4. CASE ClockProcess
  <2>1. /\ <<"execute", v>> \in runnable' <=> <<"execute", v>> \in runnable
        /\ <<"execute", v>> \in notified' <=> <<"execute", v>> \in notified
        /\ <<"fsmFinishExec", v>> \in runnable' <=> <<"fsmFinishExec", v>> \in runnable
        /\ <<"fsmFinishExec", v>> \in notified' <=> <<"fsmFinishExec", v>> \in notified
    BY <1>4 DEF ClockProcess
  <2>2. /\ is_ready'[v] = is_ready[v] /\ waiting'[v] = waiting[v]
        /\ next_value'[<<"ready", v>>] = next_value[<<"ready", v>>]
    BY <1>4, <1>0 DEF ClockProcess, KernelOK, StateOK
  <2>3. QED
    BY <1>0, <2>1, <2>2, SameThread
<1>5. CASE EndPosEdge
  <2>1. /\ <<"execute", v>> \in runnable' <=> <<"execute", v>> \in runnable
        /\ <<"execute", v>> \in notified' <=> <<"execute", v>> \in notified
        /\ <<"fsmFinishExec", v>> \in runnable' <=> <<"fsmFinishExec", v>> \in runnable
        /\ <<"fsmFinishExec", v>> \in notified' <=> <<"fsmFinishExec", v>> \in notified
    BY <1>5 DEF EndPosEdge
  <2>2. /\ is_ready'[v] = is_ready[v] /\ waiting'[v] = waiting[v]
        /\ next_value'[<<"ready", v>>] = next_value[<<"ready", v>>]
    BY <1>5, <1>0 DEF EndPosEdge, KernelOK, StateOK
  <2>3. QED
    BY <1>0, <2>1, <2>2, SameThread
<1>6. ASSUME NEW u \in Units,
             FsmProcess(u)
      PROVE  ThreadOK(v)'
  <2>1. CASE v # u
    <3>1. /\ <<"execute", v>> \in runnable' <=> <<"execute", v>> \in runnable
          /\ <<"execute", v>> \in notified' <=> <<"execute", v>> \in notified
          /\ <<"fsmFinishExec", v>> \in runnable' <=> <<"fsmFinishExec", v>> \in runnable
          /\ <<"fsmFinishExec", v>> \in notified' <=> <<"fsmFinishExec", v>> \in notified
      BY <1>6, <2>1 DEF FsmProcess
    <3>2. /\ is_ready'[v] = is_ready[v] /\ waiting'[v] = waiting[v]
          /\ next_value'[<<"ready", v>>] = next_value[<<"ready", v>>]
      BY <1>6, <2>1, <1>0 DEF FsmProcess, KernelOK, StateOK
    <3>3. QED
      BY <1>0, <3>1, <3>2, SameThread
  <2>2. CASE v = u
    <3>1. CASE ~ Starts(u)
      BY <1>6, <1>0, <2>2, <3>1 DEF FsmProcess, ThreadOK, Starting, Resuming, Pending
    <3>2. CASE Starts(u)
      <4>1. is_ready[u] /\ waiting[u] /\ ~ Starting(u) /\ ~ Resuming(u)
        BY <1>0, <2>2, <3>2 DEF Starts, ThreadOK
      <4>2. /\ ~ is_ready'[u] /\ UNCHANGED waiting
            /\ next_value'[<<"ready", u>>] = next_value[<<"ready", u>>]
        BY <1>6, <1>0, <3>2 DEF FsmProcess, KernelOK, StateOK
      <4>3. /\ <<"execute", u>> \in notified' /\ <<"execute", u>> \notin runnable'
            /\ <<"fsmFinishExec", u>> \notin notified' /\ <<"fsmFinishExec", u>> \notin runnable'
        BY <1>6, <3>2, <4>1 DEF FsmProcess, Starting, Resuming, Pending
      <4>4. QED
        BY <1>0, <2>2, <4>1, <4>2, <4>3 DEF ThreadOK, Starting, Resuming, Pending
    <3>3. QED
      BY <3>1, <3>2
  <2>3. QED
    BY <2>1, <2>2
<1>7. ASSUME NEW u \in Units,
             FsmFinishExec(u)
      PROVE  ThreadOK(v)'
  <2>1. CASE v # u
    <3>1. /\ <<"execute", v>> \in runnable' <=> <<"execute", v>> \in runnable
          /\ <<"execute", v>> \in notified' <=> <<"execute", v>> \in notified
          /\ <<"fsmFinishExec", v>> \in runnable' <=> <<"fsmFinishExec", v>> \in runnable
          /\ <<"fsmFinishExec", v>> \in notified' <=> <<"fsmFinishExec", v>> \in notified
      BY <1>7, <2>1 DEF FsmFinishExec, AskNextPosEdge
    <3>2. /\ is_ready'[v] = is_ready[v] /\ waiting'[v] = waiting[v]
          /\ next_value'[<<"ready", v>>] = next_value[<<"ready", v>>]
      BY <1>7, <2>1, <1>0 DEF FsmFinishExec, AskNextPosEdge, KernelOK, StateOK
    <3>3. QED
      BY <1>0, <3>1, <3>2, SameThread
  <2>2. CASE v = u
    BY <1>7, <1>0, <2>2 DEF FsmFinishExec, AskNextPosEdge, KernelOK, StateOK, ThreadOK,
           Starting, Resuming,
       Pending
  <2>3. QED
    BY <2>1, <2>2
<1>8. ASSUME NEW u \in Units, NEW scalars, NEW free \in BOOLEAN,
             Execute(u, scalars, free)
      PROVE  ThreadOK(v)'
  <2>1. CASE v # u
    <3>1. /\ <<"execute", v>> \in runnable' <=> <<"execute", v>> \in runnable
          /\ <<"execute", v>> \in notified' <=> <<"execute", v>> \in notified
          /\ <<"fsmFinishExec", v>> \in runnable' <=> <<"fsmFinishExec", v>> \in runnable
          /\ <<"fsmFinishExec", v>> \in notified' <=> <<"fsmFinishExec", v>> \in notified
      BY <1>8, <2>1 DEF Execute
    <3>2. /\ is_ready'[v] = is_ready[v] /\ waiting'[v] = waiting[v]
          /\ next_value'[<<"ready", v>>] = next_value[<<"ready", v>>]
      BY <1>8, <2>1, <1>0 DEF Execute, KernelOK, StateOK
    <3>3. QED
      BY <1>0, <3>1, <3>2, SameThread
  <2>2. CASE v = u
    BY <1>8, <1>0, <2>2 DEF Execute, KernelOK, StateOK, ThreadOK, Starting, Resuming,
       Pending
  <2>3. QED
    BY <2>1, <2>2
<1>9. ASSUME NEW u \in Units,
             FsmProcessInput(u) \/ FsmProcessEnable(u) \/ CheckInst(u)
      PROVE  ThreadOK(v)'
  <2>1. /\ <<"execute", v>> \in runnable' <=> <<"execute", v>> \in runnable
        /\ <<"execute", v>> \in notified' <=> <<"execute", v>> \in notified
        /\ <<"fsmFinishExec", v>> \in runnable' <=> <<"fsmFinishExec", v>> \in runnable
        /\ <<"fsmFinishExec", v>> \in notified' <=> <<"fsmFinishExec", v>> \in notified
    BY <1>9 DEF FsmProcessInput, AskNextPosEdge, FsmProcessEnable, CheckInst
  <2>2. /\ is_ready'[v] = is_ready[v] /\ waiting'[v] = waiting[v]
        /\ next_value'[<<"ready", v>>] = next_value[<<"ready", v>>]
    BY <1>9, <1>0 DEF FsmProcessInput, AskNextPosEdge, FsmProcessEnable, CheckInst,
           KernelOK, StateOK
  <2>3. QED
    BY <1>0, <2>1, <2>2, SameThread
<1>10. ASSUME NEW u \in Units,
              ProcessIdFinish(u) \/ ProcessReleaseResource(u)
              \/ UnitProcessFinishRun(u) \/ ProcessUnitResourceAllocate(u)
              \/ ProcessUnitResourceConflict(u)
       PROVE  ThreadOK(v)'
  <2>1. /\ <<"execute", v>> \in runnable' <=> <<"execute", v>> \in runnable
        /\ <<"execute", v>> \in notified' <=> <<"execute", v>> \in notified
        /\ <<"fsmFinishExec", v>> \in runnable' <=> <<"fsmFinishExec", v>> \in runnable
        /\ <<"fsmFinishExec", v>> \in notified' <=> <<"fsmFinishExec", v>> \in notified
    BY <1>10 DEF ProcessIdFinish, ProcessReleaseResource, UnitProcessFinishRun,
                 ProcessUnitResourceAllocate, ProcessUnitResourceConflict
  <2>2. /\ is_ready'[v] = is_ready[v] /\ waiting'[v] = waiting[v]
        /\ next_value'[<<"ready", v>>] = next_value[<<"ready", v>>]
    BY <1>10, <1>0 DEF ProcessIdFinish, ProcessReleaseResource, UnitProcessFinishRun,
           ProcessUnitResourceAllocate, ProcessUnitResourceConflict, KernelOK, StateOK
  <2>3. QED
    BY <1>0, <2>1, <2>2, SameThread
<1>11. ASSUME NEW u \in Units, PipelineTurn(u),
              ReadyForNextExecute(u)
       PROVE  ThreadOK(v)'
  <2>1. CASE v # u
    <3>1. /\ <<"execute", v>> \in runnable' <=> <<"execute", v>> \in runnable
          /\ <<"execute", v>> \in notified' <=> <<"execute", v>> \in notified
          /\ <<"fsmFinishExec", v>> \in runnable' <=> <<"fsmFinishExec", v>> \in runnable
          /\ <<"fsmFinishExec", v>> \in notified' <=> <<"fsmFinishExec", v>> \in notified
      BY <1>11, <2>1 DEF ReadyForNextExecute
    <3>2. /\ is_ready'[v] = is_ready[v] /\ waiting'[v] = waiting[v]
          /\ next_value'[<<"ready", v>>] = next_value[<<"ready", v>>]
      BY <1>11, <2>1, <1>0 DEF ReadyForNextExecute, KernelOK, StateOK
    <3>3. QED
      BY <1>0, <3>1, <3>2, SameThread
  <2>2. CASE v = u
    BY <1>11, <1>0, <2>2 DEF ReadyForNextExecute, KernelOK, StateOK, ThreadOK, Starting,
           Resuming,
       Pending
  <2>3. QED
    BY <2>1, <2>2
<1>12. ASSUME NEW u \in Units, NEW id, PipelineTurn(u),
              ReleaseResource(u, id) \/ FinishInstruction(u, id)
       PROVE  ThreadOK(v)'
  <2>1. /\ <<"execute", v>> \in runnable' <=> <<"execute", v>> \in runnable
        /\ <<"execute", v>> \in notified' <=> <<"execute", v>> \in notified
        /\ <<"fsmFinishExec", v>> \in runnable' <=> <<"fsmFinishExec", v>> \in runnable
        /\ <<"fsmFinishExec", v>> \in notified' <=> <<"fsmFinishExec", v>> \in notified
    BY <1>12 DEF ReleaseResource, FinishInstruction
  <2>2. /\ is_ready'[v] = is_ready[v] /\ waiting'[v] = waiting[v]
        /\ next_value'[<<"ready", v>>] = next_value[<<"ready", v>>]
    BY <1>12, <1>0 DEF ReleaseResource, FinishInstruction, KernelOK, StateOK
  <2>3. QED
    BY <1>0, <2>1, <2>2, SameThread
<1>13. ASSUME NEW u \in Units,
              ProcessUnitResourceRelease(u)
       PROVE  ThreadOK(v)'
  <2>0. /\ runnable' = runnable \ {<<"processUnitResourceRelease", u>>}
        /\ \/ notified' = notified
           \/ notified' = notified \cup {<<"processUnitResourceConflict", u>>}
    BY <1>13, ReleaseFrame
  <2>1. /\ <<"execute", v>> \in runnable' <=> <<"execute", v>> \in runnable
        /\ <<"execute", v>> \in notified' <=> <<"execute", v>> \in notified
        /\ <<"fsmFinishExec", v>> \in runnable' <=> <<"fsmFinishExec", v>> \in runnable
        /\ <<"fsmFinishExec", v>> \in notified' <=> <<"fsmFinishExec", v>> \in notified
    BY <2>0
  <2>2. /\ is_ready'[v] = is_ready[v] /\ waiting'[v] = waiting[v]
        /\ next_value'[<<"ready", v>>] = next_value[<<"ready", v>>]
    BY <1>13, ReleaseFrame, <1>0 DEF KernelOK, StateOK
  <2>3. QED
    BY <1>0, <2>1, <2>2, SameThread
<1>14. QED
  BY <1>1, <1>2, <1>3, <1>4, <1>5, <1>6, <1>7, <1>8, <1>9, <1>10, <1>11, <1>12,
     <1>13
     DEF Next, Kernel, CoreProcess, UnitProcess, Pipeline

\* An instruction that an FSM starts is the one in decode.
LEMMA StartedStep ==
  ASSUME IInv, NEW v \in Units, Next
  PROVE  StartedOK(v)'
<1> USE DEF Run, Write, WriteEach, WriteNothing, Notify, NotifyNobody, Signals, CoreSignals,
           UnitSignals, core, clock, unit, pipeline, tables, history
<1>0. KernelOK /\ StateOK /\ ThreadOK(v) /\ StartedOK(v)
  BY DEF IInv
<1>1. CASE DeltaCycle
  BY <1>1, DeltaRuns DEF IInv, KernelOK, StartedOK, Starting, Pending, DeltaCycle
<1>2. CASE AdvanceTime
  <2>1. <<"execute", v>> \notin runnable' /\ notified' = {}
    BY <1>2 DEF AdvanceTime, AtDecode, AtEdge, Quiescent
  <2>2. QED
    BY <2>1 DEF StartedOK, Starting, Pending
<1>3. CASE DecodeIns
  BY <1>3 DEF IInv, KernelOK, InDecode, AtDecode, StartedOK, Starting, Pending,
         DecodeIns
<1>4. CASE DecodeFinish \/ DecodeStalled \/ ProcessUpdatePC \/ ProcessIssue
           \/ ProcessStall \/ ProcessIdExEnable \/ ProcessFinishRun \/ EndPosEdge
  <2>1. /\ <<"execute", v>> \in runnable' => <<"execute", v>> \in runnable
        /\ <<"execute", v>> \in notified' => <<"execute", v>> \in notified
    BY <1>4 DEF DecodeFinish, DecodeStalled, ProcessUpdatePC, ProcessIssue, ProcessStall,
                ProcessIdExEnable, ProcessFinishRun, EndPosEdge
  <2>2. /\ UNCHANGED <<phase, cur_ins_payload, signal>>
        /\ next_value'[<<"fsm_out", v>>] = next_value[<<"fsm_out", v>>]
    BY <1>4, <1>0 DEF DecodeFinish, DecodeStalled, ProcessUpdatePC, ProcessIssue,
           ProcessStall, ProcessIdExEnable, ProcessFinishRun, EndPosEdge, KernelOK
  <2>3. QED
    BY <1>0, <2>1, <2>2, SameStart
<1>5. CASE ClockProcess
  <2>1. /\ <<"execute", v>> \in runnable' => <<"execute", v>> \in runnable
        /\ <<"execute", v>> \in notified' => <<"execute", v>> \in notified
    BY <1>5 DEF ClockProcess
  <2>2. /\ UNCHANGED <<phase, cur_ins_payload, signal>>
        /\ next_value'[<<"fsm_out", v>>] = next_value[<<"fsm_out", v>>]
    BY <1>5, <1>0 DEF ClockProcess, KernelOK
  <2>3. QED
    BY <1>0, <2>1, <2>2, SameStart
<1>6. ASSUME NEW u \in Units,
             FsmProcess(u)
      PROVE  StartedOK(v)'
  <2>1. CASE v # u \/ ~ Starts(u)
    <3>1. /\ <<"execute", v>> \in runnable' => <<"execute", v>> \in runnable
          /\ <<"execute", v>> \in notified' => <<"execute", v>> \in notified
      BY <1>6, <2>1 DEF FsmProcess
    <3>2. /\ UNCHANGED <<phase, cur_ins_payload, signal>>
          /\ next_value'[<<"fsm_out", v>>] = next_value[<<"fsm_out", v>>]
      BY <1>6, <2>1, <1>0 DEF FsmProcess, KernelOK
    <3>3. QED
      BY <1>0, <3>1, <3>2, SameStart
  <2>2. CASE v = u /\ Starts(u)
    <3>1. Settled /\ phase = "edge"
      BY <1>6, <1>0 DEF FsmProcess, Settled, EdgeProcesses, KernelOK, InEdge
    <3>2. signal[<<"fsm_in", u>>] = ToUnit(cur_ins_payload, u)
      BY <3>1, SettledSignals
    <3>3. cur_ins_payload.unit = u /\ signal[<<"fsm_in", u>>] = cur_ins_payload
      BY <2>2, <3>2 DEF Starts, ToUnit
    <3>4. <<"execute", u>> \notin runnable
      BY <1>0, <2>2 DEF Starts, ThreadOK, Starting, Pending
    <3>5. <<"execute", u>> \notin runnable' /\ next_value'[<<"fsm_out", u>>] = cur_ins_payload
      BY <1>6, <1>0, <2>2, <3>3, <3>4 DEF FsmProcess, KernelOK
    <3>6. UNCHANGED <<phase, cur_ins_payload>>
      BY <1>6 DEF FsmProcess
    <3>7. QED
      BY <2>2, <3>1, <3>3, <3>5, <3>6 DEF StartedOK
  <2>3. QED
    BY <2>1, <2>2
<1>7. ASSUME NEW u \in Units,
             FsmProcessInput(u) \/ FsmProcessEnable(u) \/ FsmFinishExec(u)
             \/ CheckInst(u)
      PROVE  StartedOK(v)'
  <2>1. /\ <<"execute", v>> \in runnable' => <<"execute", v>> \in runnable
        /\ <<"execute", v>> \in notified' => <<"execute", v>> \in notified
    BY <1>7 DEF FsmProcessInput, AskNextPosEdge, FsmProcessEnable, FsmFinishExec,
                CheckInst
  <2>2. /\ UNCHANGED <<phase, cur_ins_payload, signal>>
        /\ next_value'[<<"fsm_out", v>>] = next_value[<<"fsm_out", v>>]
    BY <1>7, <1>0 DEF FsmProcessInput, AskNextPosEdge, FsmProcessEnable, FsmFinishExec,
           CheckInst, KernelOK
  <2>3. QED
    BY <1>0, <2>1, <2>2, SameStart
<1>8. ASSUME NEW u \in Units, NEW scalars, NEW free \in BOOLEAN,
             Execute(u, scalars, free)
      PROVE  StartedOK(v)'
  <2>1. /\ <<"execute", v>> \in runnable' => <<"execute", v>> \in runnable
        /\ <<"execute", v>> \in notified' => <<"execute", v>> \in notified
    BY <1>8 DEF Execute
  <2>2. /\ UNCHANGED <<phase, cur_ins_payload, signal>>
        /\ next_value'[<<"fsm_out", v>>] = next_value[<<"fsm_out", v>>]
    BY <1>8, <1>0 DEF Execute, KernelOK
  <2>3. QED
    BY <1>0, <2>1, <2>2, SameStart
<1>9. ASSUME NEW u \in Units,
             ProcessIdFinish(u) \/ ProcessReleaseResource(u)
             \/ UnitProcessFinishRun(u) \/ ProcessUnitResourceAllocate(u)
             \/ ProcessUnitResourceConflict(u)
      PROVE  StartedOK(v)'
  <2>1. /\ <<"execute", v>> \in runnable' => <<"execute", v>> \in runnable
        /\ <<"execute", v>> \in notified' => <<"execute", v>> \in notified
    BY <1>9 DEF ProcessIdFinish, ProcessReleaseResource, UnitProcessFinishRun,
                ProcessUnitResourceAllocate, ProcessUnitResourceConflict
  <2>2. /\ UNCHANGED <<phase, cur_ins_payload, signal>>
        /\ next_value'[<<"fsm_out", v>>] = next_value[<<"fsm_out", v>>]
    BY <1>9, <1>0 DEF ProcessIdFinish, ProcessReleaseResource, UnitProcessFinishRun,
           ProcessUnitResourceAllocate, ProcessUnitResourceConflict, KernelOK
  <2>3. QED
    BY <1>0, <2>1, <2>2, SameStart
<1>10. ASSUME NEW u \in Units, NEW id, PipelineTurn(u),
              ReadyForNextExecute(u) \/ ReleaseResource(u, id)
              \/ FinishInstruction(u, id)
       PROVE  StartedOK(v)'
  <2>1. /\ <<"execute", v>> \in runnable' => <<"execute", v>> \in runnable
        /\ <<"execute", v>> \in notified' => <<"execute", v>> \in notified
    BY <1>10 DEF ReadyForNextExecute, ReleaseResource, FinishInstruction
  <2>2. /\ UNCHANGED <<phase, cur_ins_payload, signal>>
        /\ next_value'[<<"fsm_out", v>>] = next_value[<<"fsm_out", v>>]
    BY <1>10, <1>0 DEF ReadyForNextExecute, ReleaseResource, FinishInstruction, KernelOK
  <2>3. QED
    BY <1>0, <2>1, <2>2, SameStart
<1>11. ASSUME NEW u \in Units,
              ProcessUnitResourceRelease(u)
       PROVE  StartedOK(v)'
  <2>0. /\ runnable' = runnable \ {<<"processUnitResourceRelease", u>>}
        /\ \/ notified' = notified
           \/ notified' = notified \cup {<<"processUnitResourceConflict", u>>}
    BY <1>11, ReleaseFrame
  <2>1. /\ <<"execute", v>> \in runnable' => <<"execute", v>> \in runnable
        /\ <<"execute", v>> \in notified' => <<"execute", v>> \in notified
    BY <2>0
  <2>2. /\ UNCHANGED <<phase, cur_ins_payload, signal>>
        /\ next_value'[<<"fsm_out", v>>] = next_value[<<"fsm_out", v>>]
    BY <1>11, ReleaseFrame, <1>0 DEF KernelOK
  <2>3. QED
    BY <1>0, <2>1, <2>2, SameStart
<1>12. QED
  BY <1>1, <1>2, <1>3, <1>4, <1>5, <1>6, <1>7, <1>8, <1>9, <1>10, <1>11
     DEF Next, Kernel, CoreProcess, UnitProcess, Pipeline

-----------------------------------------------------------------------------
(***************************************************************************)
(* The units' pipelines and tables.                                        *)
(***************************************************************************)
\* What the types of a unit's tables depend on.
LEMMA SameTables ==
  ASSUME NEW v \in Units, TablesOK(v), UNCHANGED <<path_map, signal>>,
         next_value'[<<"resource_allocate", v>>] = next_value[<<"resource_allocate", v>>]
  PROVE  TablesOK(v)'
BY DEF TablesOK

\* The thread of a unit takes the instruction in decode.
LEMMA TakenLonger ==
  ASSUME IInv, NEW u \in Units, NEW scalars, NEW free, Execute(u, scalars, free)
  PROVE  /\ taken' = Append(taken, Current)
         /\ taken' \in Histories(ins_id) /\ taken' # <<>>
         /\ taken'[Len(taken')] = Current /\ Current.ins_id = ins_id
         /\ IdsOf(taken)' = IdsOf(taken) \cup {ins_id}
         /\ InOrder(taken')
<1>1. /\ signal[<<"fsm_out", u>>].ins_id = ins_id
      /\ Starting(u) /\ cur_ins_payload.unit = u
  BY StartedIns DEF Execute, Run, Starting, Pending
<1>2. /\ taken \in Histories(ins_id) /\ InOrder(taken)
      /\ ins_id \notin IdsOf(taken)
  BY <1>1 DEF IInv, TakingOK
<1>3. Current \in Entries(ins_id) /\ Current.ins_id = ins_id /\ ins_id \in Nat
  BY <1>1, CurrentEntry DEF IInv
<1>4. taken' = Append(taken, Current)
  BY <1>1 DEF Execute, Current
<1>5. /\ Append(taken, Current) \in Histories(ins_id) /\ Append(taken, Current) # <<>>
      /\ Append(taken, Current)[Len(Append(taken, Current))] = Current
      /\ IdsOf(Append(taken, Current)) = IdsOf(taken) \cup {ins_id}
      /\ InOrder(Append(taken, Current))
  BY <1>2, <1>3, LongerHistory
<1>6. IdsOf(taken)' = IdsOf(taken')
  BY DEF IdsOf
<1>7. QED
  BY <1>3, <1>4, <1>5, <1>6

\* A unit counts the instructions it has taken and not finished.
LEMMA PipelineStep ==
  ASSUME IInv, NEW v \in Units, Next
  PROVE  PipelineOK(v)'
<1> USE DEF Run, Write, WriteEach, WriteNothing, Notify, NotifyNobody, Signals, CoreSignals,
           UnitSignals, core, clock, unit, pipeline, tables, history
<1>0. StateOK /\ PipelineOK(v)
  BY DEF IInv
<1>1. CASE DeltaCycle \/ AdvanceTime
  BY <1>1 DEF IInv, PipelineOK, DeltaCycle, AdvanceTime
<1>2. ASSUME NEW u \in Units, NEW scalars, NEW free \in BOOLEAN,
             Execute(u, scalars, free)
      PROVE  PipelineOK(v)'
  <2>1. /\ signal[<<"fsm_out", u>>].ins_id = ins_id /\ ins_id \in Nat
        /\ Starting(u)
    BY <1>2, StartedIns DEF Execute, Starting, Pending
  <2>2. ins_id \notin IdsOf(taken)
    BY <2>1 DEF IInv, TakingOK
  <2>3. IdsOf(taken)' = IdsOf(taken) \cup {ins_id}
    BY <1>2, <2>1, TakenLonger
  <2>4. CASE v # u
    <3>1. /\ executing'[v] = executing[v] /\ holding'[v] = holding[v]
          /\ running_ins_cnt'[v] = running_ins_cnt[v]
      BY <1>2, <1>0, <2>4 DEF Execute, StateOK
    <3>2. QED
      BY <1>0, <2>3, <3>1 DEF PipelineOK
  <2>5. CASE v = u
    <3>1. /\ executing'[v] = executing[v] \cup {ins_id}
          /\ holding'[v] = holding[v] \cup {ins_id}
          /\ running_ins_cnt'[v] = running_ins_cnt[v] + 1
      BY <1>2, <1>0, <2>1, <2>5 DEF Execute, StateOK
    <3>2. ins_id \notin executing[v] /\ IsFiniteSet(executing[v])
      BY <1>0, <2>2 DEF PipelineOK
    <3>3. /\ IsFiniteSet(executing[v] \cup {ins_id})
          /\ Cardinality(executing[v] \cup {ins_id}) = Cardinality(executing[v]) + 1
      BY <3>2, FS_AddElement
    <3>4. QED
      BY <1>0, <2>3, <3>1, <3>3 DEF PipelineOK
  <2>6. QED
    BY <2>4, <2>5
<1>3. ASSUME NEW u \in Units,
             ProcessUnitResourceRelease(u)
      PROVE  PipelineOK(v)'
  BY <1>3, <1>0, ReleaseFrame DEF PipelineOK, ProcessUnitResourceRelease
<1>4. ASSUME NEW u \in Units, PipelineTurn(u),
             ReadyForNextExecute(u)
      PROVE  PipelineOK(v)'
  BY <1>4 DEF IInv, PipelineOK, ReadyForNextExecute
<1>5. ASSUME NEW u \in Units, NEW id, PipelineTurn(u),
             ReleaseResource(u, id)
      PROVE  PipelineOK(v)'
  BY <1>5, <1>0 DEF StateOK, PipelineOK, ReleaseResource
<1>6. ASSUME NEW u \in Units, NEW id, PipelineTurn(u),
             FinishInstruction(u, id)
      PROVE  PipelineOK(v)'
  <2>1. CASE v # u
    <3>1. /\ executing'[v] = executing[v] /\ holding'[v] = holding[v]
          /\ running_ins_cnt'[v] = running_ins_cnt[v] /\ taken' = taken
      BY <1>6, <1>0, <2>1 DEF FinishInstruction, StateOK
    <3>2. QED
      BY <1>0, <3>1 DEF PipelineOK
  <2>2. CASE v = u
    <3>1. /\ executing'[v] = executing[v] \ {id}
          /\ holding'[v] = holding[v] /\ id \in executing[v] \ holding[v]
          /\ running_ins_cnt'[v] = running_ins_cnt[v] - 1 /\ taken' = taken
      BY <1>6, <1>0, <2>2 DEF FinishInstruction, StateOK
    <3>2. /\ IsFiniteSet(executing[v] \ {id})
          /\ Cardinality(executing[v] \ {id}) = Cardinality(executing[v]) - 1
      BY <1>0, <3>1, FS_RemoveElement DEF PipelineOK
    <3>3. QED
      BY <1>0, <3>1, <3>2 DEF PipelineOK
  <2>3. QED
    BY <2>1, <2>2
<1>7. CASE DecodeIns \/ DecodeFinish \/ DecodeStalled \/ ProcessUpdatePC \/ ProcessIssue
           \/ ProcessStall \/ ProcessIdExEnable \/ ProcessFinishRun \/ ClockProcess
           \/ EndPosEdge
  BY <1>7 DEF IInv, PipelineOK, DecodeIns, DecodeFinish, DecodeStalled,
         ProcessUpdatePC, ProcessIssue, ProcessStall, ProcessIdExEnable,
         ProcessFinishRun, ClockProcess, EndPosEdge
<1>8. ASSUME NEW u \in Units,
             FsmProcess(u) \/ FsmProcessInput(u) \/ FsmProcessEnable(u)
             \/ FsmFinishExec(u) \/ CheckInst(u) \/ ProcessIdFinish(u)
             \/ ProcessReleaseResource(u) \/ UnitProcessFinishRun(u)
             \/ ProcessUnitResourceAllocate(u)
             \/ ProcessUnitResourceConflict(u)
      PROVE  PipelineOK(v)'
  BY <1>8 DEF IInv, PipelineOK, FsmProcess, FsmProcessInput, AskNextPosEdge,
         FsmProcessEnable, FsmFinishExec, CheckInst, ProcessIdFinish,
         ProcessReleaseResource, UnitProcessFinishRun, ProcessUnitResourceAllocate,
         ProcessUnitResourceConflict
<1>9. QED
  BY <1>1, <1>2, <1>3, <1>4, <1>5, <1>6, <1>7, <1>8
     DEF Next, Kernel, CoreProcess, UnitProcess, Pipeline

\* The tables hold payloads, and those of a unit its own.
LEMMA TablesStep ==
  ASSUME IInv, NEW v \in Units, Next
  PROVE  TablesOK(v)'
<1> USE DEF Run, Write, WriteEach, WriteNothing, Notify, NotifyNobody, Signals, CoreSignals,
           UnitSignals, core, clock, unit, pipeline, tables, history
<1>0. KernelOK /\ StateOK /\ TablesOK(v)
  BY DEF IInv
<1>1. CASE DeltaCycle \/ AdvanceTime
  BY <1>1 DEF IInv, KernelOK, StateOK, TablesOK, DeltaCycle, AdvanceTime
<1>2. ASSUME NEW u \in Units, NEW scalars, NEW free \in BOOLEAN,
             Execute(u, scalars, free)
      PROVE  TablesOK(v)'
  <2>1. Booking(signal[<<"fsm_out", u>>], scalars) \in Payload
    BY <1>2, StartedIns, BookingIsPayload DEF Execute
  <2>2. QED
    BY <1>2, <1>0, <2>1 DEF Execute, KernelOK, TablesOK
<1>3. ASSUME NEW u \in Units,
             ProcessUnitResourceAllocate(u)
      PROVE  TablesOK(v)'
  <2> DEFINE new == signal[<<"resource_allocate", u>>]
             key == UniqueId(new.path)
  <2>1. UNCHANGED <<signal, next_value>>
    BY <1>3 DEF ProcessUnitResourceAllocate
  <2>2. \/ path_map' = path_map
        \/ path_map' = [path_map EXCEPT ![u][key] = Plus(@, new)]
    BY <1>3 DEF ProcessUnitResourceAllocate
  <2>3. new \in Payload
    BY DEF IInv, TablesOK
  <2>4. \A k \in PathKeys : path_map[v][k] \in Payload /\ path_map[v][k].unit = v
    BY <1>0 DEF StateOK, TablesOK
  <2>5. \A k \in PathKeys : Plus(path_map[v][k], new).unit = v
    BY <2>3, <2>4, AddedIsPayload
  <2>6. \A k \in PathKeys : path_map'[v][k].unit = v
    <3>1. CASE path_map'[v] = path_map[v]
      BY <2>4, <3>1
    <3>2. CASE path_map'[v] = [path_map[v] EXCEPT ![key] = Plus(@, new)]
      <4>1. path_map[v] \in [PathKeys -> Payload]
        BY <1>0 DEF StateOK
      <4> HIDE DEF key
      <4>2. QED
        BY <2>4, <2>5, <3>2, <4>1
    <3>3. QED
      BY <1>0, <2>2, <3>1, <3>2 DEF StateOK
  <2>7. QED
    BY <1>0, <2>1, <2>6 DEF TablesOK
<1>4. ASSUME NEW u \in Units,
             ProcessUnitResourceRelease(u)
      PROVE  TablesOK(v)'
  BY <1>4, <1>0, ReleaseTyped, ReleaseFrame DEF TablesOK, ProcessUnitResourceRelease
<1>5. ASSUME NEW u \in Units,
             ProcessIdFinish(u)
      PROVE  TablesOK(v)'
  BY <1>5 DEF IInv, KernelOK, StateOK, TablesOK, ProcessIdFinish
<1>6. ASSUME NEW u \in Units,
             ProcessReleaseResource(u) \/ UnitProcessFinishRun(u)
             \/ ProcessUnitResourceConflict(u)
      PROVE  TablesOK(v)'
  <2>1. /\ UNCHANGED <<path_map, signal>>
        /\ next_value'[<<"resource_allocate", v>>] = next_value[<<"resource_allocate", v>>]
    BY <1>6, <1>0 DEF KernelOK, ProcessReleaseResource, UnitProcessFinishRun,
           ProcessUnitResourceConflict
  <2>2. QED
    BY <1>0, <2>1, SameTables
<1>7. CASE DecodeIns \/ DecodeFinish \/ DecodeStalled \/ ProcessUpdatePC \/ ProcessIssue
           \/ ProcessStall \/ ProcessIdExEnable \/ ProcessFinishRun \/ ClockProcess
           \/ EndPosEdge
  <2>1. /\ UNCHANGED <<path_map, signal>>
        /\ next_value'[<<"resource_allocate", v>>] = next_value[<<"resource_allocate", v>>]
    BY <1>7, <1>0 DEF KernelOK, DecodeIns, DecodeFinish, DecodeStalled, ProcessUpdatePC,
           ProcessIssue, ProcessStall, ProcessIdExEnable, ProcessFinishRun, ClockProcess,
           EndPosEdge
  <2>2. QED
    BY <1>0, <2>1, SameTables
<1>8. ASSUME NEW u \in Units,
             FsmProcess(u) \/ FsmProcessInput(u) \/ FsmProcessEnable(u)
             \/ FsmFinishExec(u) \/ CheckInst(u)
      PROVE  TablesOK(v)'
  <2>1. /\ UNCHANGED <<path_map, signal>>
        /\ next_value'[<<"resource_allocate", v>>] = next_value[<<"resource_allocate", v>>]
    BY <1>8, <1>0 DEF KernelOK, FsmProcess, FsmProcessInput, AskNextPosEdge,
           FsmProcessEnable, FsmFinishExec, CheckInst
  <2>2. QED
    BY <1>0, <2>1, SameTables
<1>9. ASSUME NEW u \in Units, NEW id, PipelineTurn(u),
             ReadyForNextExecute(u) \/ ReleaseResource(u, id)
             \/ FinishInstruction(u, id)
      PROVE  TablesOK(v)'
  <2>1. /\ UNCHANGED <<path_map, signal>>
        /\ next_value'[<<"resource_allocate", v>>] = next_value[<<"resource_allocate", v>>]
    BY <1>9, <1>0 DEF KernelOK, ReadyForNextExecute, ReleaseResource, FinishInstruction
  <2>2. QED
    BY <1>0, <2>1, SameTables
<1>10. QED
  BY <1>1, <1>2, <1>3, <1>4, <1>5, <1>6, <1>7, <1>8, <1>9
     DEF Next, Kernel, CoreProcess, UnitProcess, Pipeline

-----------------------------------------------------------------------------
(***************************************************************************)
(* The instruction in decode.                                              *)
(***************************************************************************)
\* A process other than decode runs when the core is not about to decode.
LEMMA NotDecoding ==
  ASSUME IInv, NEW p \in runnable, p[1] # "processDecode"
  PROVE  <<"processDecode", "core">> \notin runnable
BY DEF IInv, KernelOK, InDecode, AtDecode

\* A jump that does not lead before the first instruction leads to one or past them.
LEMMA JumpsForward ==
  ASSUME NEW index \in Nat, NEW inc \in Int, index + 1 + inc >= 1
  PROVE  index + inc \in Nat
OBVIOUS

\* What the instruction in decode depends on.
LEMMA SameDecode ==
  ASSUME DecodeOK, Decoded' => Decoded, UNCHANGED core,
         next_value'[<<"id_finish", "core">>] = next_value[<<"id_finish", "core">>]
  PROVE  DecodeOK'
<1>1. DecodeOK
  OBVIOUS
<1> HIDE DEF Decoded
<1>2. QED
  BY <1>1 DEF DecodeOK, core

\* The instruction in decode, and the program counter after it (core.cpp:74-101).
LEMMA DecodeStep ==
  ASSUME IInv, ~ PeriodIsOne, Next
  PROVE  DecodeOK'
<1> USE DEF Run, Write, WriteEach, WriteNothing, Notify, NotifyNobody, Signals, CoreSignals,
           UnitSignals, core, clock, unit, pipeline, tables, history
<1>0. KernelOK /\ DecodeOK
  BY DEF IInv
<1>1. CASE DeltaCycle
  <2>1. Decoded' => Decoded
    BY <1>1, DeltaRuns DEF DeltaCycle, Decoded, EdgeProcesses, AtEdge
  <2>2. QED
    BY <1>1, <1>0, <2>1, SameDecode DEF DeltaCycle
<1>2. CASE AdvanceTime
  <2>1. Decoded' => Decoded
    BY <1>2 DEF AdvanceTime, Decoded, Quiescent, AtDecode, AtEdge
  <2>2. QED
    BY <1>2, <1>0, <2>1, SameDecode DEF AdvanceTime
<1>3. CASE DecodeIns
  <2> DEFINE i == ins_index + 1
             payload == PayloadOf(Program[i], ins_id + 1)
  <2>1. i \in 1 .. Len(Program) /\ ins_id \in Nat /\ ins_index \in Nat
    <3>1. Len(Program) \in Nat
      BY ProgramAssumption
    <3>2. QED
      BY <1>3, <1>0, <3>1 DEF DecodeIns, DecodeOK
  <2>2. /\ pc_increment' \in Program[i].inc
        /\ ins_index' = ins_index /\ ins_id' = ins_id + 1
        /\ cur_ins_payload' = payload /\ cur_ins_conflict_info' = payload
    BY <1>3 DEF DecodeIns, Increments, CurIns
  <2>3. payload \in Payload /\ payload.ins_id = ins_id + 1 /\ Program[i].inc \in SUBSET Int
    <3>1. ins_id + 1 \in Nat
      BY <2>1
    <3>2. QED
      BY <2>1, <3>1, DecodedIsPayload
  <2>4. pc_increment' \in Int /\ i + pc_increment' >= 1
    <3>1. \A inc \in Program[i].inc : i + inc >= 1
      BY <2>1, ProgramAssumption
    <3>2. QED
      BY <2>2, <2>3, <3>1
  <2> HIDE DEF payload
  <2>5. ins_index' + pc_increment' \in Nat
    <3>1. ins_index' = ins_index /\ ins_index \in Nat
      BY <2>1, <2>2
    <3>2. pc_increment' \in Int /\ ins_index + 1 + pc_increment' >= 1
      BY <2>4
    <3>3. ins_index + pc_increment' \in Nat
      BY <3>1, <3>2, JumpsForward
    <3>4. QED
      BY <3>1, <3>3
  <2>6. /\ ins_id' \in Nat /\ ins_index' \in Nat /\ pc_increment' \in Int
        /\ cur_ins_payload' \in Payload /\ cur_ins_payload'.ins_id = ins_id'
        /\ cur_ins_payload'.ins_id # -1 /\ ins_id' # 0
        /\ cur_ins_conflict_info' = cur_ins_payload'
    BY <2>1, <2>2, <2>3, <2>4
  <2>7. QED
    BY <2>5, <2>6 DEF DecodeOK
<1>4. CASE DecodeFinish
  <2>1. /\ pc_increment' = 0 /\ next_value'[<<"id_finish", "core">>]
        /\ UNCHANGED <<ins_index, ins_id, cur_ins_payload, cur_ins_conflict_info>>
    BY <1>4, <1>0 DEF DecodeFinish, KernelOK
  <2>2. QED
    BY <1>0, <2>1 DEF DecodeOK
<1>5. CASE DecodeStalled
  <2>1. cur_ins_conflict_info.unit # "none" /\ UNCHANGED <<core, next_value>>
    BY <1>5 DEF DecodeStalled, Decoding
  <2>2. cur_ins_conflict_info = cur_ins_payload
    BY <1>0, <2>1, NothingIsPayload DEF DecodeOK
  <2>3. QED
    BY <1>0, <2>1, <2>2 DEF DecodeOK
<1>6. CASE ProcessUpdatePC
  <2>1. phase = "edge" /\ Decoded
    BY <1>6, <1>0 DEF ProcessUpdatePC, KernelOK, InEdge, EdgeProcesses, AtEdge, Decoded
  <2>2. ~ Decoded'
    BY <1>6, <2>1 DEF ProcessUpdatePC, Decoded
  <2>3. UNCHANGED <<ins_id, pc_increment, cur_ins_payload, next_value>>
    BY <1>6 DEF ProcessUpdatePC
  <2>4. CASE UNCHANGED <<ins_index, cur_ins_conflict_info>>
    BY <1>0, <2>1, <2>2, <2>3, <2>4 DEF DecodeOK
  <2>5. CASE ins_index' = ins_index + pc_increment /\ cur_ins_conflict_info' = Nothing
    BY <1>0, <2>1, <2>2, <2>3, <2>5, NothingIsPayload DEF DecodeOK
  <2>6. QED
    BY <1>6, <2>4, <2>5 DEF ProcessUpdatePC
<1>7. CASE ProcessIssue \/ ProcessStall \/ ProcessIdExEnable \/ EndPosEdge
  <2>1. Decoded' => Decoded
    BY <1>7, NotDecoding DEF ProcessIssue, ProcessStall, ProcessIdExEnable, EndPosEdge,
           Decoded
  <2>2. UNCHANGED core /\ next_value'[<<"id_finish", "core">>] = next_value[<<"id_finish", "core">>]
    BY <1>7, <1>0 DEF ProcessIssue, ProcessStall, ProcessIdExEnable, EndPosEdge, KernelOK
  <2>3. QED
    BY <1>0, <2>1, <2>2, SameDecode
<1>8. CASE ProcessFinishRun
  <2>1. Decoded' => Decoded
    BY <1>8, NotDecoding DEF ProcessFinishRun, Decoded
  <2>2. UNCHANGED <<ins_index, pc_increment, cur_ins_payload, cur_ins_conflict_info, ins_id, next_value>>
    BY <1>8 DEF ProcessFinishRun
  <2>3. QED
    BY <1>0, <2>1, <2>2 DEF DecodeOK
<1>9. CASE ClockProcess
  <2>1. Decoded' => Decoded
    BY <1>9, NotDecoding DEF ClockProcess, Decoded
  <2>2. UNCHANGED core /\ next_value'[<<"id_finish", "core">>] = next_value[<<"id_finish", "core">>]
    BY <1>9, <1>0 DEF ClockProcess, KernelOK
  <2>3. QED
    BY <1>0, <2>1, <2>2, SameDecode
<1>10. ASSUME NEW u \in Units, NEW scalars, NEW free \in BOOLEAN,
              FsmProcess(u) \/ FsmProcessInput(u) \/ FsmProcessEnable(u)
              \/ FsmFinishExec(u) \/ CheckInst(u) \/ Execute(u, scalars, free)
       PROVE  DecodeOK'
  <2>1. Decoded' => Decoded
    BY <1>10, NotDecoding DEF FsmProcess, FsmProcessInput, AskNextPosEdge,
           FsmProcessEnable, FsmFinishExec, CheckInst, Execute, Decoded
  <2>2. UNCHANGED core /\ next_value'[<<"id_finish", "core">>] = next_value[<<"id_finish", "core">>]
    BY <1>10, <1>0 DEF FsmProcess, FsmProcessInput, AskNextPosEdge, FsmProcessEnable,
           FsmFinishExec, CheckInst, Execute, KernelOK
  <2>3. QED
    BY <1>0, <2>1, <2>2, SameDecode
<1>11. ASSUME NEW u \in Units,
              ProcessIdFinish(u) \/ ProcessReleaseResource(u)
              \/ UnitProcessFinishRun(u) \/ ProcessUnitResourceAllocate(u)
              \/ ProcessUnitResourceConflict(u)
       PROVE  DecodeOK'
  <2>1. Decoded' => Decoded
    BY <1>11, NotDecoding DEF ProcessIdFinish, ProcessReleaseResource,
           UnitProcessFinishRun, ProcessUnitResourceAllocate, ProcessUnitResourceConflict,
           Decoded
  <2>2. UNCHANGED core /\ next_value'[<<"id_finish", "core">>] = next_value[<<"id_finish", "core">>]
    BY <1>11, <1>0 DEF ProcessIdFinish, ProcessReleaseResource, UnitProcessFinishRun,
           ProcessUnitResourceAllocate, ProcessUnitResourceConflict, KernelOK
  <2>3. QED
    BY <1>0, <2>1, <2>2, SameDecode
<1>12. ASSUME NEW u \in Units,
              ProcessUnitResourceRelease(u)
       PROVE  DecodeOK'
  <2>1. Decoded' => Decoded
    BY <1>12, ReleaseFrame, NotDecoding DEF Decoded
  <2>2. UNCHANGED core /\ next_value' = next_value
    BY <1>12, ReleaseFrame
  <2>3. QED
    BY <1>0, <2>1, <2>2, SameDecode
<1>13. ASSUME NEW u \in Units, NEW id, PipelineTurn(u),
              ReadyForNextExecute(u) \/ ReleaseResource(u, id)
              \/ FinishInstruction(u, id)
       PROVE  DecodeOK'
  <2>1. Decoded' => Decoded
    BY <1>13 DEF ReadyForNextExecute, ReleaseResource, FinishInstruction, Decoded
  <2>2. UNCHANGED core /\ next_value'[<<"id_finish", "core">>] = next_value[<<"id_finish", "core">>]
    BY <1>13, <1>0 DEF ReadyForNextExecute, ReleaseResource, FinishInstruction, KernelOK
  <2>3. QED
    BY <1>0, <2>1, <2>2, SameDecode
<1>14. QED
  BY <1>1, <1>2, <1>3, <1>4, <1>5, <1>6, <1>7, <1>8, <1>9, <1>10, <1>11, <1>12,
     <1>13
     DEF Next, Kernel, CoreProcess, UnitProcess, Pipeline

-----------------------------------------------------------------------------
(***************************************************************************)
(* What leaves decode is what is taken.                                    *)
(***************************************************************************)
\* The two decisions agree in every settled state: see EdgeAgrees.
LEMMA SettledAgrees ==
  ASSUME IInv, Settled, NEW u \in Units,
         next_value[<<"id_finish", "core">>] \/ cur_ins_conflict_info = cur_ins_payload
  PROVE  LET goes == cur_ins_conflict_info.unit = u /\ ~ signal[<<"id_stall", "core">>]
             starts == signal[<<"id_ex_enable", u>>] /\ signal[<<"fsm_in", u>>] # Nothing
         IN  /\ goes <=> starts
             /\ goes => /\ waiting[u]
                        /\ signal[<<"fsm_in", u>>] = cur_ins_conflict_info
                        /\ cur_ins_conflict_info.ins_id = ins_id
                        /\ cur_ins_conflict_info = cur_ins_payload
<1>1. <<"id_finish", "core">> \in Signals
  BY DEF Signals, CoreSignals
<1>2. next_value[<<"id_finish", "core">>] = signal[<<"id_finish", "core">>]
  BY <1>1, SettledMeans
<1>3. /\ signal[<<"id_finish", "core">>] => signal[<<"id_stall", "core">>]
      /\ signal[<<"id_ex_enable", u>>] <=> ~ signal[<<"id_stall", "core">>]
      /\ signal[<<"fsm_in", u>>] = ToUnit(cur_ins_payload, u)
      /\ ~ signal[<<"id_stall", "core">>] => ~ UnitConflict(u)
      /\ signal[<<"ready", u>>] <=> waiting[u]
  BY SettledSignals
<1>4. ~ signal[<<"id_stall", "core">>] => cur_ins_conflict_info = cur_ins_payload
  BY <1>2, <1>3
<1>5. cur_ins_payload.unit = u => cur_ins_payload # Nothing /\ cur_ins_payload.ins_id = ins_id
  BY NothingIsPayload DEF IInv, DecodeOK
<1>6. ~ UnitConflict(u) /\ cur_ins_conflict_info.unit = u => signal[<<"ready", u>>]
  BY DEF UnitConflict
<1>7. QED
  BY <1>3, <1>4, <1>5, <1>6 DEF ToUnit

\* Just before a clock edge, both sides agree on what will happen at it.
LEMMA EdgeAgreesOK ==
  ASSUME IInv
  PROVE  EdgeAgrees
<1> SUFFICES ASSUME Quiescent, phase = "decode", NEW u \in Units
             PROVE  LET goes == cur_ins_conflict_info.unit = u /\ ~ signal[<<"id_stall", "core">>]
                        starts == /\ is_ready[u] /\ signal[<<"id_ex_enable", u>>]
                                  /\ signal[<<"fsm_in", u>>] # Nothing
                    IN  /\ goes <=> starts
                        /\ goes => /\ u \in pos_edge_events
                                   /\ signal[<<"fsm_in", u>>] = cur_ins_conflict_info
  BY DEF EdgeAgrees
<1> DEFINE goes == cur_ins_conflict_info.unit = u /\ ~ signal[<<"id_stall", "core">>]
           wanted == signal[<<"id_ex_enable", u>>] /\ signal[<<"fsm_in", u>>] # Nothing
<1>1. Settled /\ Decoded /\ Pending = {} /\ runnable = {}
  BY DEF Settled, Decoded, Quiescent, Pending
<1>2. /\ goes <=> wanted
      /\ goes => waiting[u] /\ signal[<<"fsm_in", u>>] = cur_ins_conflict_info
  BY <1>1, SettledAgrees DEF IInv, DecodeOK
<1>3. waiting[u] <=> is_ready[u]
  BY <1>1 DEF IInv, ThreadOK, Starting, Resuming
<1>4. is_ready[u] /\ wanted => u \in pos_edge_events
  BY <1>1 DEF IInv, CalledAtEdge
<1>5. QED
  BY <1>2, <1>3, <1>4

\* Outside the first delta cycle of an edge nothing is about to pass or to start.
LEMMA OutsideEdge ==
  ASSUME runnable \cap EdgeProcesses = {}
  PROVE  ~ Passing /\ \A u \in Units : ~ ToStart(u)
BY DEF Passing, ToStart, EdgeProcesses, AtEdge

\* The same after a step.
LEMMA OutsideEdgeNext ==
  ASSUME runnable' \cap EdgeProcesses = {}
  PROVE  ~ Passing' /\ \A u \in Units : ~ ToStart(u)'
BY DEF Passing, ToStart, EdgeProcesses, AtEdge

\* Before an instruction is decoded, and whenever nothing is left to do, what was
\* taken is what has passed.
LEMMA AtRest ==
  ASSUME TakingOK, runnable \cap EdgeProcesses = {}, \A u \in Units : ~ Starting(u)
  PROVE  taken = passed
BY OutsideEdge DEF TakingOK

\* What is accounted for depends on what passes and what starts.
LEMMA SameTaking ==
  ASSUME TakingOK, UNCHANGED <<ins_id, cur_ins_payload, cur_ins_conflict_info, passed, taken>>,
         Passing' <=> Passing,
         \A u \in Units : ToStart(u)' \/ Starting(u)' <=> ToStart(u) \/ Starting(u)
  PROVE  TakingOK'
<1>1. TakingOK
  OBVIOUS
<1>2. (\E u \in Units : ToStart(u)' \/ Starting(u)') <=> \E u \in Units : ToStart(u) \/ Starting(u)
  OBVIOUS
<1>3. Current' = Current
  BY DEF Current, Entry
<1> HIDE DEF Passing, ToStart, Starting, Current
<1>4. QED
  BY <1>1, <1>2, <1>3 DEF TakingOK, IdsOf, InOrder

\* Steps outside the first delta cycle of an edge that start nothing.
LEMMA CalmTaking ==
  ASSUME TakingOK, UNCHANGED <<ins_id, cur_ins_payload, cur_ins_conflict_info, passed, taken>>,
         runnable \cap EdgeProcesses = {}, runnable' \cap EdgeProcesses = {},
         \A u \in Units : Starting(u)' <=> Starting(u)
  PROVE  TakingOK'
BY OutsideEdge, OutsideEdgeNext, SameTaking

\* An instruction that passes at an edge is taken after it, and no other.
LEMMA TakingStep ==
  ASSUME IInv, ~ PeriodIsOne, Next
  PROVE  TakingOK'
<1> USE DEF Run, Write, WriteEach, WriteNothing, Notify, NotifyNobody, Signals, CoreSignals,
           UnitSignals, core, clock, unit, pipeline, tables, history
<1>0. KernelOK /\ StateOK /\ TakingOK /\ DecodeOK
  BY DEF IInv
<1>1. CASE DeltaCycle
  <2>1. runnable = {} /\ runnable' \cap EdgeProcesses = {}
    BY <1>1, DeltaRuns DEF DeltaCycle
  <2>2. \A w \in Units : Starting(w)' <=> Starting(w)
    BY <1>1, DeltaRuns DEF DeltaCycle, Starting, Pending
  <2>3. QED
    BY <1>1, <1>0, <2>1, <2>2, CalmTaking DEF DeltaCycle
<1>2. CASE AdvanceTime
  <2>1. /\ Quiescent /\ runnable = {} /\ notified = {} /\ notified' = {}
        /\ UNCHANGED <<signal, next_value, core, clock, unit, history>>
    BY <1>2 DEF AdvanceTime, Quiescent
  <2>2. \A w \in Units : ~ Starting(w)
    BY <2>1 DEF Starting, Pending
  <2>3. taken = passed
    BY <1>0, <2>1, <2>2, AtRest
  <2>4. CASE runnable' = AtDecode
    <3>1. runnable' \cap EdgeProcesses = {} /\ \A w \in Units : ~ Starting(w)'
      BY <2>1, <2>4 DEF AtDecode, EdgeProcesses, AtEdge, Starting, Pending
    <3>2. QED
      BY <1>0, <2>1, <2>2, <3>1, CalmTaking
  <2>5. CASE phase = "decode" /\ runnable' = AtEdge
    <3>1. \A w \in Units : ~ Starting(w)'
      BY <2>1, <2>5 DEF AtEdge, Starting, Pending
    <3>2. \A w \in Units :
            ToStart(w)' <=> /\ w \in pos_edge_events
                            /\ is_ready[w] /\ signal[<<"id_ex_enable", w>>]
                            /\ signal[<<"fsm_in", w>>] # Nothing
      BY <2>1, <2>5 DEF AtEdge, ToStart
    <3>3. Passing' <=> ~ signal[<<"id_stall", "core">>] /\ cur_ins_conflict_info.unit \in Units
      BY <2>1, <2>5 DEF AtEdge, Passing
    <3>4. \A w \in Units : ToStart(w)' <=> cur_ins_conflict_info.unit = w /\ ~ signal[<<"id_stall", "core">>]
      BY <2>1, <2>5, <3>2, EdgeAgreesOK DEF EdgeAgrees
    <3>5. (\E w \in Units : ToStart(w)' \/ Starting(w)') <=> Passing'
      BY <3>1, <3>3, <3>4
    <3>6. \A w \in Units : ToStart(w)' \/ Starting(w)' => ins_id \notin IdsOf(taken)
      BY <1>0, <2>3, <3>1, <3>4 DEF TakingOK
    <3>7. UNCHANGED <<ins_id, cur_ins_payload, cur_ins_conflict_info, passed, taken>>
      BY <2>1
    <3>8. Current' = Current
      BY <3>7 DEF Current, Entry
    <3>9. QED
      BY <1>0, <2>3, <3>5, <3>6, <3>7, <3>8 DEF TakingOK, IdsOf, InOrder
  <2>6. QED
    BY <1>2, <2>4, <2>5 DEF AdvanceTime
<1>3. CASE DecodeIns
  <2>1. /\ runnable = AtDecode /\ notified = {} /\ notified' = {}
        /\ runnable' = {<<"processIssue", "core">>} \cup ({"processUnitResourceConflict"} \X Units)
    BY <1>3, <1>0 DEF DecodeIns, KernelOK, InDecode, AtDecode
  <2>2. runnable \cap EdgeProcesses = {} /\ runnable' \cap EdgeProcesses = {}
    BY <2>1 DEF AtDecode, EdgeProcesses, AtEdge
  <2>3. \A w \in Units : ~ Starting(w) /\ ~ Starting(w)'
    BY <2>1 DEF AtDecode, Starting, Pending
  <2>4. taken = passed
    BY <1>0, <2>2, <2>3, AtRest
  <2>5. ~ Passing' /\ \A w \in Units : ~ ToStart(w)'
    BY <2>2, OutsideEdgeNext
  <2>6. ins_id \in Nat /\ ins_id' = ins_id + 1 /\ UNCHANGED <<passed, taken>>
    BY <1>3, <1>0 DEF DecodeIns, DecodeOK
  <2>7. /\ passed' \in Histories(ins_id') /\ taken' \in Histories(ins_id')
        /\ ins_id' \notin IdsOf(passed)'
    <3>1. passed \in Histories(ins_id) /\ taken \in Histories(ins_id)
      BY <1>0 DEF TakingOK
    <3>2. /\ passed \in Histories(ins_id + 1) /\ taken \in Histories(ins_id + 1)
          /\ IdsOf(passed) \subseteq 1 .. ins_id
      BY <2>6, <3>1, HistoryKept
    <3>3. IdsOf(passed)' = IdsOf(passed)
      BY <2>6 DEF IdsOf
    <3>4. QED
      BY <2>6, <3>2, <3>3
  <2>8. InOrder(taken)'
    BY <1>0, <2>6 DEF TakingOK, InOrder
  <2>9. QED
    BY <2>3, <2>4, <2>5, <2>6, <2>7, <2>8 DEF TakingOK
<1>4. CASE DecodeFinish \/ DecodeStalled
  <2>1. /\ runnable = AtDecode /\ runnable' = {} /\ notified = {} /\ notified' = {}
        /\ UNCHANGED <<ins_id, cur_ins_payload, cur_ins_conflict_info, passed, taken>>
    BY <1>4, <1>0 DEF DecodeFinish, DecodeStalled, KernelOK, InDecode, AtDecode
  <2>2. runnable \cap EdgeProcesses = {} /\ runnable' \cap EdgeProcesses = {}
    BY <2>1 DEF AtDecode, EdgeProcesses, AtEdge
  <2>3. \A w \in Units : Starting(w)' <=> Starting(w)
    BY <2>1 DEF AtDecode, Starting, Pending
  <2>4. QED
    BY <1>0, <2>1, <2>2, <2>3, CalmTaking
<1>5. CASE ProcessUpdatePC
  <2>1. ~ Passing' /\ \A w \in Units : ToStart(w)' \/ Starting(w)' <=> ToStart(w) \/ Starting(w)
    <3>1. ~ Passing'
      BY <1>5 DEF ProcessUpdatePC, Passing
    <3>2. \A w \in Units : (Starting(w)' <=> Starting(w)) /\ (ToStart(w)' <=> ToStart(w))
      BY <1>5 DEF ProcessUpdatePC, Starting, Pending, ToStart
    <3>3. QED
      BY <3>1, <3>2
  <2>2. UNCHANGED <<ins_id, cur_ins_payload, taken>>
    BY <1>5 DEF ProcessUpdatePC
  <2>3. CASE signal[<<"id_stall", "core">>]
    <3>1. ~ Passing /\ UNCHANGED <<cur_ins_conflict_info, passed>>
      BY <1>5, <2>3 DEF ProcessUpdatePC, Passing
    <3>2. QED
      BY <1>0, <2>1, <2>2, <3>1, SameTaking
  <2>4. CASE ~ signal[<<"id_stall", "core">>]
    <3>1. cur_ins_conflict_info' = Nothing
      BY <1>5, <2>4 DEF ProcessUpdatePC
    <3>2. Passing <=> cur_ins_conflict_info.unit \in Units
      BY <1>5, <2>4 DEF ProcessUpdatePC, Passing
    <3>3. passed' = IF Passing THEN Append(passed, Current) ELSE passed
      <4>1. cur_ins_conflict_info.unit \in Units =>
              cur_ins_conflict_info = cur_ins_payload /\ cur_ins_payload.ins_id = ins_id
        BY <1>0, NothingIsPayload, CurrentEntry DEF DecodeOK
      <4>2. QED
        BY <1>5, <2>4, <3>2, <4>1 DEF ProcessUpdatePC, Current
    <3>4. passed' \in Histories(ins_id)
      <4>1. passed \in Histories(ins_id) /\ ins_id \in Nat
        BY <1>0 DEF TakingOK, DecodeOK
      <4>2. Passing => Current \in Entries(ins_id)
        BY <1>0, <3>2, NothingIsPayload, CurrentEntry DEF DecodeOK
      <4>3. QED
        BY <3>3, <4>1, <4>2, LongerHistory
    <3>5. (\E w \in Units : ToStart(w)' \/ Starting(w)') <=> \E w \in Units : ToStart(w) \/ Starting(w)
      BY <2>1
    <3>6. Current' = Current
      BY <2>2 DEF Current, Entry
    <3>7. passed' = IF \E w \in Units : ToStart(w)' \/ Starting(w)'
                      THEN Append(taken', Current') ELSE taken'
      BY <1>0, <2>2, <3>3, <3>5, <3>6 DEF TakingOK
    <3>8. \A w \in Units : ToStart(w)' \/ Starting(w)' => ins_id \notin IdsOf(taken)'
      BY <1>0, <2>1, <2>2 DEF TakingOK, IdsOf
    <3>9. taken' \in Histories(ins_id) /\ InOrder(taken)'
      BY <1>0, <2>2 DEF TakingOK, InOrder
    <3>10. QED
      BY <2>1, <2>2, <3>1, <3>4, <3>7, <3>8, <3>9, NothingIsPayload DEF TakingOK
  <2>5. QED
    BY <2>3, <2>4
<1>6. CASE ClockProcess
  <2>1. UNCHANGED <<ins_id, cur_ins_payload, cur_ins_conflict_info, passed, taken, signal, is_ready>>
    BY <1>6 DEF ClockProcess
  <2>2. Passing' <=> Passing
    BY <1>6, <2>1 DEF ClockProcess, Passing
  <2>3. ASSUME NEW w \in Units
        PROVE  (ToStart(w)' <=> ToStart(w)) /\ (Starting(w)' <=> Starting(w))
    BY <1>6, <2>1 DEF ClockProcess, ToStart, Starting, Pending
  <2>4. QED
    BY <1>0, <2>1, <2>2, <2>3, SameTaking
<1>7. ASSUME NEW u \in Units,
             FsmProcess(u)
      PROVE  TakingOK'
  <2>1. UNCHANGED <<ins_id, cur_ins_payload, cur_ins_conflict_info, passed, taken, signal>> /\ is_pos_edge
    BY <1>7, <1>0 DEF FsmProcess, KernelOK
  <2>2. Passing' <=> Passing
    BY <1>7, <2>1 DEF FsmProcess, Passing
  <2>3. ASSUME NEW w \in Units, w # u
        PROVE  (ToStart(w)' <=> ToStart(w)) /\ (Starting(w)' <=> Starting(w))
    BY <1>7, <1>0, <2>1, <2>3 DEF FsmProcess, StateOK, ToStart, Starting, Pending
  <2>4. ToStart(u)' \/ Starting(u)' <=> ToStart(u) \/ Starting(u)
    <3>1. CASE Starts(u)
      <4>1. ToStart(u)
        BY <1>7, <3>1 DEF FsmProcess, Starts, ToStart
      <4>2. Starting(u)'
        BY <1>7, <3>1 DEF FsmProcess, Starting, Pending
      <4>3. QED
        BY <4>1, <4>2
    <3>2. CASE ~ Starts(u)
      <4>1. ~ ToStart(u) /\ ~ ToStart(u)'
        BY <1>7, <2>1, <3>2 DEF FsmProcess, Starts, ToStart
      <4>2. Starting(u)' <=> Starting(u)
        BY <1>7, <3>2 DEF FsmProcess, Starting, Pending
      <4>3. QED
        BY <4>1, <4>2
    <3>3. QED
      BY <3>1, <3>2
  <2>5. \A w \in Units : ToStart(w)' \/ Starting(w)' <=> ToStart(w) \/ Starting(w)
    BY <2>3, <2>4
  <2>6. QED
    BY <1>0, <2>1, <2>2, <2>5, SameTaking
<1>8. ASSUME NEW u \in Units, NEW scalars, NEW free \in BOOLEAN,
             Execute(u, scalars, free)
      PROVE  TakingOK'
  <2>1. /\ signal[<<"fsm_out", u>>].ins_id = ins_id /\ ins_id \in Nat
        /\ Starting(u) /\ cur_ins_payload.unit = u
    BY <1>8, StartedIns DEF Execute, Starting, Pending
  <2>2. runnable \cap EdgeProcesses = {} /\ runnable' \cap EdgeProcesses = {}
    <3>1. <<"execute", u>> \in runnable /\ runnable' \subseteq runnable
      BY <1>8 DEF Execute
    <3>2. <<"execute", u>> \notin EdgeProcesses /\ <<"execute", u>> \notin AtDecode
      BY DEF EdgeProcesses, AtEdge, AtDecode
    <3>3. QED
      BY <3>1, <3>2, Calm
  <2>3. ~ Passing /\ ~ Passing' /\ \A w \in Units : ~ ToStart(w) /\ ~ ToStart(w)'
    BY <2>2, OutsideEdge, OutsideEdgeNext
  <2>4. \A w \in Units : ~ Starting(w)'
    <3>1. \A w \in Units : Starting(w) => w = u
      BY <2>1 DEF IInv, StartedOK
    <3>2. <<"execute", u>> \notin notified
      BY <1>8 DEF Execute, IInv, ThreadOK
    <3>3. \A w \in Units : Starting(w)' => Starting(w) /\ w # u
      BY <1>8, <3>2 DEF Execute, Starting, Pending
    <3>4. QED
      BY <3>1, <3>3
  <2>5. /\ taken' = Append(taken, Current) /\ taken' \in Histories(ins_id)
        /\ InOrder(taken)'
    BY <1>8, TakenLonger DEF InOrder
  <2>6. UNCHANGED <<ins_id, cur_ins_conflict_info, passed>>
    BY <1>8 DEF Execute
  <2>7. passed = taken'
    BY <1>0, <2>1, <2>3, <2>5 DEF TakingOK
  <2>8. cur_ins_conflict_info'.unit \in Units => ins_id' \notin IdsOf(passed)'
    BY <1>0, <2>6 DEF TakingOK, IdsOf
  <2>9. QED
    BY <2>3, <2>4, <2>5, <2>6, <2>7, <2>8 DEF TakingOK
<1>9. CASE ProcessIssue \/ ProcessStall \/ ProcessIdExEnable
  <2>1. UNCHANGED <<ins_id, cur_ins_payload, cur_ins_conflict_info, passed, taken>>
    BY <1>9 DEF ProcessIssue, ProcessStall, ProcessIdExEnable
  <2>2. /\ \E p \in runnable : p \notin EdgeProcesses /\ p \notin AtDecode
        /\ runnable' \subseteq runnable \cup {<<"processIssue", "core">>} \cup ({"processUnitResourceConflict"} \X Units)
    BY <1>9 DEF ProcessIssue, ProcessStall, ProcessIdExEnable, EdgeProcesses, AtEdge,
                AtDecode
  <2>3. runnable \cap EdgeProcesses = {}
    BY <2>2, Calm
  <2>4. runnable' \cap EdgeProcesses = {}
    BY <2>2, <2>3 DEF EdgeProcesses, AtEdge
  <2>5. \A w \in Units : Starting(w)' <=> Starting(w)
    BY <1>9 DEF ProcessIssue, ProcessStall, ProcessIdExEnable, Starting, Pending
  <2>6. QED
    BY <1>0, <2>1, <2>3, <2>4, <2>5, CalmTaking
<1>10. CASE ProcessFinishRun \/ EndPosEdge
  <2>1. UNCHANGED <<ins_id, cur_ins_payload, cur_ins_conflict_info, passed, taken>>
    BY <1>10 DEF ProcessFinishRun, EndPosEdge
  <2>2. /\ \E p \in runnable : p \notin EdgeProcesses /\ p \notin AtDecode
        /\ runnable' \subseteq runnable \cup {<<"processIssue", "core">>} \cup ({"processUnitResourceConflict"} \X Units)
    BY <1>10 DEF ProcessFinishRun, EndPosEdge, EdgeProcesses, AtEdge, AtDecode
  <2>3. runnable \cap EdgeProcesses = {}
    BY <2>2, Calm
  <2>4. runnable' \cap EdgeProcesses = {}
    BY <2>2, <2>3 DEF EdgeProcesses, AtEdge
  <2>5. \A w \in Units : Starting(w)' <=> Starting(w)
    BY <1>10 DEF ProcessFinishRun, EndPosEdge, Starting, Pending
  <2>6. QED
    BY <1>0, <2>1, <2>3, <2>4, <2>5, CalmTaking
<1>11. ASSUME NEW u \in Units,
              FsmProcessInput(u) \/ FsmProcessEnable(u) \/ FsmFinishExec(u)
              \/ CheckInst(u)
       PROVE  TakingOK'
  <2>1. UNCHANGED <<ins_id, cur_ins_payload, cur_ins_conflict_info, passed, taken>>
    BY <1>11 DEF FsmProcessInput, AskNextPosEdge, FsmProcessEnable, FsmFinishExec,
                 CheckInst
  <2>2. /\ \E p \in runnable : p \notin EdgeProcesses /\ p \notin AtDecode
        /\ runnable' \subseteq runnable \cup {<<"processIssue", "core">>} \cup ({"processUnitResourceConflict"} \X Units)
    BY <1>11 DEF FsmProcessInput, AskNextPosEdge, FsmProcessEnable, FsmFinishExec,
                 CheckInst, EdgeProcesses, AtEdge, AtDecode
  <2>3. runnable \cap EdgeProcesses = {}
    BY <2>2, Calm
  <2>4. runnable' \cap EdgeProcesses = {}
    BY <2>2, <2>3 DEF EdgeProcesses, AtEdge
  <2>5. \A w \in Units : Starting(w)' <=> Starting(w)
    BY <1>11 DEF FsmProcessInput, AskNextPosEdge, FsmProcessEnable, FsmFinishExec,
                 CheckInst, Starting, Pending
  <2>6. QED
    BY <1>0, <2>1, <2>3, <2>4, <2>5, CalmTaking
<1>12. ASSUME NEW u \in Units,
              ProcessIdFinish(u) \/ ProcessReleaseResource(u)
              \/ UnitProcessFinishRun(u) \/ ProcessUnitResourceAllocate(u)
              \/ ProcessUnitResourceConflict(u)
       PROVE  TakingOK'
  <2>1. UNCHANGED <<ins_id, cur_ins_payload, cur_ins_conflict_info, passed, taken>>
    BY <1>12 DEF ProcessIdFinish, ProcessReleaseResource, UnitProcessFinishRun,
                 ProcessUnitResourceAllocate, ProcessUnitResourceConflict
  <2>2. /\ \E p \in runnable : p \notin EdgeProcesses /\ p \notin AtDecode
        /\ runnable' \subseteq runnable \cup {<<"processIssue", "core">>} \cup ({"processUnitResourceConflict"} \X Units)
    BY <1>12 DEF ProcessIdFinish, ProcessReleaseResource, UnitProcessFinishRun,
                 ProcessUnitResourceAllocate, ProcessUnitResourceConflict, EdgeProcesses,
                 AtEdge, AtDecode
  <2>3. runnable \cap EdgeProcesses = {}
    BY <2>2, Calm
  <2>4. runnable' \cap EdgeProcesses = {}
    BY <2>2, <2>3 DEF EdgeProcesses, AtEdge
  <2>5. \A w \in Units : Starting(w)' <=> Starting(w)
    BY <1>12 DEF ProcessIdFinish, ProcessReleaseResource, UnitProcessFinishRun,
                 ProcessUnitResourceAllocate, ProcessUnitResourceConflict, Starting,
                 Pending
  <2>6. QED
    BY <1>0, <2>1, <2>3, <2>4, <2>5, CalmTaking
<1>13. ASSUME NEW u \in Units,
              ProcessUnitResourceRelease(u)
       PROVE  TakingOK'
  <2>0. /\ runnable' = runnable \ {<<"processUnitResourceRelease", u>>}
        /\ \/ notified' = notified
           \/ notified' = notified \cup {<<"processUnitResourceConflict", u>>}
    BY <1>13, ReleaseFrame

  <2>1. UNCHANGED <<ins_id, cur_ins_payload, cur_ins_conflict_info, passed, taken>>
    BY <1>13, ReleaseFrame
  <2>2. /\ \E p \in runnable : p \notin EdgeProcesses /\ p \notin AtDecode
        /\ runnable' \subseteq runnable \cup {<<"processIssue", "core">>} \cup ({"processUnitResourceConflict"} \X Units)
    BY <1>13, ReleaseFrame DEF EdgeProcesses, AtEdge, AtDecode
  <2>3. runnable \cap EdgeProcesses = {}
    BY <2>2, Calm
  <2>4. runnable' \cap EdgeProcesses = {}
    BY <2>2, <2>3 DEF EdgeProcesses, AtEdge
  <2>5. \A w \in Units : Starting(w)' <=> Starting(w)
    BY <2>0 DEF Starting, Pending
  <2>6. QED
    BY <1>0, <2>1, <2>3, <2>4, <2>5, CalmTaking
<1>14. ASSUME NEW u \in Units, NEW id, PipelineTurn(u),
              ReadyForNextExecute(u) \/ ReleaseResource(u, id)
              \/ FinishInstruction(u, id)
       PROVE  TakingOK'
  <2>1. UNCHANGED <<runnable, ins_id, cur_ins_payload, cur_ins_conflict_info, passed, taken>>
    BY <1>14 DEF ReadyForNextExecute, ReleaseResource, FinishInstruction
  <2>2. runnable \cap EdgeProcesses = {}
    BY <1>14, CalmPipelines
  <2>3. \A w \in Units : Starting(w)' <=> Starting(w)
    BY <1>14 DEF ReadyForNextExecute, ReleaseResource, FinishInstruction, Starting,
                 Pending
  <2>4. QED
    BY <1>0, <2>1, <2>2, <2>3, CalmTaking
<1>15. QED
  BY <1>1, <1>2, <1>3, <1>4, <1>5, <1>6, <1>7, <1>8, <1>9, <1>10, <1>11, <1>12,
     <1>13, <1>14
     DEF Next, Kernel, CoreProcess, UnitProcess, Pipeline

-----------------------------------------------------------------------------
(***************************************************************************)
(* The end of the program.                                                 *)
(***************************************************************************)
\* What the end of decoding depends on.
LEMMA SameEnd ==
  ASSUME EndOK, UNCHANGED <<ins_index, cur_ins_conflict_info, signal>>,
         next_value'[<<"id_finish", "core">>] = next_value[<<"id_finish", "core">>],
         \A u \in Units : Starting(u)' => Starting(u)
  PROVE  EndOK'
BY DEF EndOK

\* Only the end of a unit calls processFinishRun (core.cpp:181-198).
LEMMA WhoCallsFinish ==
  ASSUME NEW s \in Signals, <<"processFinishRun", "core">> \in Sensitive(s)
  PROVE  \E u \in Units : s = <<"unit_finish", u>>
<1> DEFINE finish == <<"processFinishRun", "core">>
<1>1. finish \notin Sensitive(<<"id_finish", "core">>)
  <2>1. Sensitive(<<"id_finish", "core">>) =
          {<<"processStall", "core">>} \cup ({"processIdFinish"} \X Units)
    BY WhoWakes
  <2>2. QED
    BY <2>1
<1>2. finish \notin Sensitive(<<"id_stall", "core">>)
  <2>1. Sensitive(<<"id_stall", "core">>) =
          {<<"processIssue", "core">>, <<"processIdExEnable", "core">>}
    BY WhoWakes
  <2>2. QED
    BY <2>1
<1>3. ASSUME NEW u \in Units, s # <<"unit_finish", u>>,
             \/ s = <<"id_ex_payload", u>> \/ s = <<"id_ex_enable", u>>
             \/ s = <<"ready", u>> \/ s = <<"resource_allocate", u>>
             \/ s = <<"resource_release", u>> \/ s = <<"unit_finish", u>>
             \/ s = <<"conflict", u>> \/ s = <<"fsm_in", u>> \/ s = <<"fsm_out", u>>
      PROVE  finish \notin Sensitive(s)
  <2>1. /\ Sensitive(<<"id_ex_payload", u>>) = {<<"checkInst", u>>}
        /\ Sensitive(<<"id_ex_enable", u>>) = {<<"fsmProcessEnable", u>>}
        /\ Sensitive(<<"ready", u>>) = {<<"processUnitResourceConflict", u>>}
        /\ Sensitive(<<"resource_allocate", u>>) = {<<"processUnitResourceAllocate", u>>}
        /\ Sensitive(<<"resource_release", u>>) = {<<"processUnitResourceRelease", u>>}
        /\ Sensitive(<<"conflict", u>>) = {<<"processStall", "core">>}
        /\ Sensitive(<<"fsm_in", u>>) = {<<"fsmProcessInput", u>>}
        /\ Sensitive(<<"fsm_out", u>>) = {}
    BY WhoWakes
  <2>2. Sensitive(s) \in {{<<"checkInst", u>>}, {<<"fsmProcessEnable", u>>},
                          {<<"processUnitResourceConflict", u>>},
                          {<<"processUnitResourceAllocate", u>>},
                          {<<"processUnitResourceRelease", u>>},
                          {<<"processStall", "core">>},
                          {<<"fsmProcessInput", u>>}, {}}
    BY <1>3, <2>1
  <2>3. QED
    BY <2>2
<1>4. \/ s = <<"id_finish", "core">> \/ s = <<"id_stall", "core">>
      \/ \E u \in Units :
           \/ s = <<"id_ex_payload", u>> \/ s = <<"id_ex_enable", u>>
           \/ s = <<"ready", u>> \/ s = <<"resource_allocate", u>>
           \/ s = <<"resource_release", u>> \/ s = <<"unit_finish", u>>
           \/ s = <<"conflict", u>> \/ s = <<"fsm_in", u>> \/ s = <<"fsm_out", u>>
  BY DEF Signals, CoreSignals, UnitSignals
<1>5. QED
  BY <1>1, <1>2, <1>3, <1>4

\* Once decoding has finished nothing is decoded or started (core.cpp:84-87).
LEMMA EndStep ==
  ASSUME IInv, ~ PeriodIsOne, Next
  PROVE  EndOK'
<1> USE DEF Run, Write, WriteEach, WriteNothing, Notify, NotifyNobody, Signals, CoreSignals,
           UnitSignals, core, clock, unit, pipeline, tables, history
<1>0. KernelOK /\ StateOK /\ DecodeOK /\ EndOK
  BY DEF IInv
<1>1. CASE DeltaCycle
  <2>1. \A w \in Units : Starting(w)' => Starting(w)
    BY <1>1, DeltaRuns DEF DeltaCycle, Starting, Pending
  <2>2. UNCHANGED <<ins_index, cur_ins_conflict_info, next_value>> /\ signal' = next_value
    BY <1>1 DEF DeltaCycle
  <2>3. QED
    BY <1>0, <2>1, <2>2 DEF EndOK
<1>2. CASE AdvanceTime
  <2>1. \A w \in Units : ~ Starting(w)'
    BY <1>2 DEF AdvanceTime, Quiescent, AtEdge, AtDecode, Starting, Pending
  <2>2. QED
    BY <1>2, <1>0, <2>1, SameEnd DEF AdvanceTime
<1>3. CASE DecodeIns
  <2>1. Len(Program) \in Nat /\ ins_index \in Nat /\ ins_index < Len(Program)
    BY <1>3, <1>0, ProgramAssumption DEF DecodeIns, DecodeOK
  <2>2. ~ next_value[<<"id_finish", "core">>] /\ UNCHANGED <<next_value, signal>>
    BY <1>3, <1>0, <2>1 DEF DecodeIns, EndOK
  <2>3. QED
    BY <1>0, <2>2 DEF EndOK
<1>4. CASE DecodeFinish
  <2>1. /\ next_value'[<<"id_finish", "core">>]
        /\ ins_index' >= Len(Program) /\ cur_ins_conflict_info'.unit = "none"
    BY <1>4, <1>0 DEF DecodeFinish, Decoding, KernelOK
  <2>2. runnable' = {} /\ notified' = {}
    BY <1>4, <1>0 DEF DecodeFinish, KernelOK, InDecode, AtDecode
  <2>3. \A w \in Units : ~ Starting(w)'
    BY <2>2 DEF Starting, Pending
  <2>4. QED
    BY <2>1, <2>3 DEF EndOK
<1>5. CASE ProcessUpdatePC
  <2>1. Settled /\ <<"id_finish", "core">> \in Signals
    BY <1>5 DEF ProcessUpdatePC, Settled, EdgeProcesses, AtEdge
  <2>2. next_value[<<"id_finish", "core">>] => signal[<<"id_stall", "core">>]
    BY <2>1, SettledMeans, SettledSignals
  <2>3. \A w \in Units : Starting(w)' => Starting(w)
    BY <1>5 DEF ProcessUpdatePC, Starting, Pending
  <2>4. QED
    BY <1>5, <1>0, <2>2, <2>3 DEF ProcessUpdatePC, EndOK
<1>6. ASSUME NEW u \in Units,
             FsmProcess(u)
      PROVE  EndOK'
  <2>1. Settled /\ <<"id_finish", "core">> \in Signals
    BY <1>6 DEF FsmProcess, Settled, EdgeProcesses
  <2>2. next_value[<<"id_finish", "core">>] => ~ signal[<<"id_ex_enable", u>>]
    BY <2>1, SettledMeans, SettledSignals
  <2>3. next_value[<<"id_finish", "core">>] => \A w \in Units : Starting(w)' => Starting(w)
    BY <1>6, <2>2 DEF FsmProcess, Starts, Starting, Pending
  <2>4. /\ UNCHANGED <<ins_index, cur_ins_conflict_info, signal>>
        /\ next_value'[<<"id_finish", "core">>] = next_value[<<"id_finish", "core">>]
    BY <1>6, <1>0 DEF FsmProcess, KernelOK
  <2>5. QED
    BY <1>0, <2>3, <2>4 DEF EndOK
<1>7. CASE ProcessIssue \/ ProcessStall \/ ProcessIdExEnable \/ EndPosEdge \/ ClockProcess
           \/ DecodeStalled
  <2>1. /\ UNCHANGED <<ins_index, cur_ins_conflict_info, signal>>
        /\ next_value'[<<"id_finish", "core">>] = next_value[<<"id_finish", "core">>]
    BY <1>7, <1>0 DEF ProcessIssue, ProcessStall, ProcessIdExEnable, EndPosEdge,
           ClockProcess, DecodeStalled, KernelOK
  <2>2. \A w \in Units : Starting(w)' => Starting(w)
    BY <1>7 DEF ProcessIssue, ProcessStall, ProcessIdExEnable, EndPosEdge, ClockProcess,
                DecodeStalled, Starting, Pending
  <2>3. QED
    BY <1>0, <2>1, <2>2, SameEnd
<1>8. CASE ProcessFinishRun
  <2>1. /\ UNCHANGED <<ins_index, cur_ins_conflict_info, signal>>
        /\ next_value'[<<"id_finish", "core">>] = next_value[<<"id_finish", "core">>]
    BY <1>8, <1>0 DEF ProcessFinishRun, KernelOK
  <2>2. \A w \in Units : Starting(w)' => Starting(w)
    BY <1>8 DEF ProcessFinishRun, Starting, Pending
  <2>3. QED
    BY <1>0, <2>1, <2>2, SameEnd
<1>9. ASSUME NEW u \in Units, NEW scalars, NEW free \in BOOLEAN,
             FsmProcessInput(u) \/ FsmProcessEnable(u) \/ FsmFinishExec(u)
             \/ CheckInst(u) \/ Execute(u, scalars, free)
      PROVE  EndOK'
  <2>1. /\ UNCHANGED <<ins_index, cur_ins_conflict_info, signal>>
        /\ next_value'[<<"id_finish", "core">>] = next_value[<<"id_finish", "core">>]
    BY <1>9, <1>0 DEF FsmProcessInput, AskNextPosEdge, FsmProcessEnable, FsmFinishExec,
           CheckInst, Execute, KernelOK
  <2>2. \A w \in Units : Starting(w)' => Starting(w)
    BY <1>9 DEF FsmProcessInput, AskNextPosEdge, FsmProcessEnable, FsmFinishExec,
                CheckInst, Execute, Starting, Pending
  <2>3. QED
    BY <1>0, <2>1, <2>2, SameEnd
<1>10. ASSUME NEW u \in Units,
              ProcessIdFinish(u) \/ ProcessReleaseResource(u)
              \/ UnitProcessFinishRun(u) \/ ProcessUnitResourceAllocate(u)
              \/ ProcessUnitResourceConflict(u)
       PROVE  EndOK'
  <2>1. /\ UNCHANGED <<ins_index, cur_ins_conflict_info, signal>>
        /\ next_value'[<<"id_finish", "core">>] = next_value[<<"id_finish", "core">>]
    BY <1>10, <1>0 DEF ProcessIdFinish, ProcessReleaseResource, UnitProcessFinishRun,
           ProcessUnitResourceAllocate, ProcessUnitResourceConflict, KernelOK
  <2>2. \A w \in Units : Starting(w)' => Starting(w)
    BY <1>10 DEF ProcessIdFinish, ProcessReleaseResource, UnitProcessFinishRun,
                 ProcessUnitResourceAllocate, ProcessUnitResourceConflict, Starting,
                 Pending
  <2>3. QED
    BY <1>0, <2>1, <2>2, SameEnd
<1>11. ASSUME NEW u \in Units,
              ProcessUnitResourceRelease(u)
       PROVE  EndOK'
  <2>0. /\ runnable' = runnable \ {<<"processUnitResourceRelease", u>>}
        /\ \/ notified' = notified
           \/ notified' = notified \cup {<<"processUnitResourceConflict", u>>}
    BY <1>11, ReleaseFrame
  <2>1. UNCHANGED <<ins_index, cur_ins_conflict_info, signal, next_value>>
    BY <1>11, ReleaseFrame
  <2>2. \A w \in Units : Starting(w)' => Starting(w)
    BY <2>0 DEF Starting, Pending
  <2>3. QED
    BY <1>0, <2>1, <2>2, SameEnd
<1>12. ASSUME NEW u \in Units, NEW id, PipelineTurn(u),
              ReadyForNextExecute(u) \/ ReleaseResource(u, id)
              \/ FinishInstruction(u, id)
       PROVE  EndOK'
  <2>1. /\ UNCHANGED <<ins_index, cur_ins_conflict_info, signal>>
        /\ next_value'[<<"id_finish", "core">>] = next_value[<<"id_finish", "core">>]
    BY <1>12, <1>0 DEF ReadyForNextExecute, ReleaseResource, FinishInstruction, KernelOK
  <2>2. \A w \in Units : Starting(w)' => Starting(w)
    BY <1>12 DEF ReadyForNextExecute, ReleaseResource, FinishInstruction, Starting,
                 Pending
  <2>3. QED
    BY <1>0, <2>1, <2>2, SameEnd
<1>13. QED
  BY <1>1, <1>2, <1>3, <1>4, <1>5, <1>6, <1>7, <1>8, <1>9, <1>10, <1>11, <1>12
     DEF Next, Kernel, CoreProcess, UnitProcess, Pipeline


\* What the end of a unit depends on.
LEMMA SameUnitEnd ==
  ASSUME NEW v \in Units, UnitEndOK(v), UNCHANGED <<signal, finish_decode, finish_run>>,
         executing'[v] = executing[v],
         next_value'[<<"unit_finish", v>>] = next_value[<<"unit_finish", v>>]
  PROVE  UnitEndOK(v)'
BY DEF UnitEndOK

\* A unit ends when decoding has ended and it runs nothing (execute_unit.cpp:39-47, 85-92).
LEMMA UnitEndStep ==
  ASSUME IInv, NEW v \in Units, Next
  PROVE  UnitEndOK(v)'
<1> USE DEF Run, Write, WriteEach, WriteNothing, Notify, NotifyNobody, Signals, CoreSignals,
           UnitSignals, core, clock, unit, pipeline, tables, history
<1>0. KernelOK /\ StateOK /\ PipelineOK(v) /\ EndOK /\ UnitEndOK(v)
  BY DEF IInv
<1>1. CASE DeltaCycle
  BY <1>1, <1>0 DEF UnitEndOK, EndOK, DeltaCycle
<1>2. CASE AdvanceTime
  BY <1>2, <1>0, SameUnitEnd DEF AdvanceTime
<1>3. CASE DecodeIns \/ DecodeFinish \/ DecodeStalled \/ ProcessUpdatePC \/ ProcessIssue
           \/ ProcessStall \/ ProcessIdExEnable \/ ProcessFinishRun \/ ClockProcess
           \/ EndPosEdge
  <2>1. /\ UNCHANGED <<signal, finish_decode, finish_run>> /\ executing'[v] = executing[v]
        /\ next_value'[<<"unit_finish", v>>] = next_value[<<"unit_finish", v>>]
    BY <1>3, <1>0 DEF DecodeIns, DecodeFinish, DecodeStalled, ProcessUpdatePC,
           ProcessIssue, ProcessStall, ProcessIdExEnable, ProcessFinishRun, ClockProcess,
           EndPosEdge, KernelOK
  <2>2. QED
    BY <1>0, <2>1, SameUnitEnd
<1>4. ASSUME NEW u \in Units,
             FsmProcess(u) \/ FsmProcessInput(u) \/ FsmProcessEnable(u)
             \/ FsmFinishExec(u) \/ CheckInst(u)
      PROVE  UnitEndOK(v)'
  <2>1. /\ UNCHANGED <<signal, finish_decode, finish_run>> /\ executing'[v] = executing[v]
        /\ next_value'[<<"unit_finish", v>>] = next_value[<<"unit_finish", v>>]
    BY <1>4, <1>0 DEF FsmProcess, FsmProcessInput, AskNextPosEdge, FsmProcessEnable,
           FsmFinishExec, CheckInst, KernelOK
  <2>2. QED
    BY <1>0, <2>1, SameUnitEnd
<1>5. ASSUME NEW u \in Units, NEW scalars, NEW free \in BOOLEAN,
             Execute(u, scalars, free)
      PROVE  UnitEndOK(v)'
  <2>1. Starting(u)
    BY <1>5 DEF Execute, Starting, Pending
  <2>2. ~ next_value[<<"id_finish", "core">>] /\ ~ signal[<<"id_finish", "core">>]
    BY <1>0, <2>1 DEF EndOK
  <2>3. ~ finish_run[v]
    BY <1>0, <2>2 DEF UnitEndOK
  <2>4. /\ UNCHANGED <<signal, finish_decode, finish_run>>
        /\ next_value'[<<"unit_finish", v>>] = next_value[<<"unit_finish", v>>]
    BY <1>5, <1>0 DEF Execute, KernelOK
  <2>5. QED
    BY <1>0, <2>3, <2>4 DEF UnitEndOK
<1>6. ASSUME NEW u \in Units,
             ProcessIdFinish(u)
      PROVE  UnitEndOK(v)'
  <2>1. UNCHANGED <<signal, next_value, executing>>
    BY <1>6 DEF ProcessIdFinish
  <2>2. CASE v # u
    <3>1. finish_decode'[v] = finish_decode[v] /\ finish_run'[v] = finish_run[v]
      BY <1>6, <1>0, <2>2 DEF ProcessIdFinish, StateOK
    <3>2. QED
      BY <1>0, <2>1, <3>1 DEF UnitEndOK
  <2>3. CASE v = u
    <3>1. /\ finish_decode'[v] <=> finish_decode[v] \/ signal[<<"id_finish", "core">>]
          /\ finish_run'[v] <=> finish_run[v] \/ (signal[<<"id_finish", "core">>] /\ Idle(v))
      BY <1>6, <1>0, <2>3 DEF ProcessIdFinish, StateOK
    <3>2. Idle(v) => executing[v] = {}
      BY <1>0, FS_EmptySet DEF Idle, PipelineOK
    <3>3. QED
      BY <1>0, <2>1, <3>1, <3>2 DEF UnitEndOK
  <2>4. QED
    BY <2>2, <2>3
<1>7. ASSUME NEW u \in Units,
             UnitProcessFinishRun(u)
      PROVE  UnitEndOK(v)'
  <2>1. UNCHANGED <<signal, finish_decode, finish_run, executing>>
    BY <1>7 DEF UnitProcessFinishRun
  <2>2. /\ v # u => next_value'[<<"unit_finish", v>>] = next_value[<<"unit_finish", v>>]
        /\ v = u => next_value'[<<"unit_finish", v>>] = finish_run[v]
    BY <1>7, <1>0 DEF UnitProcessFinishRun, KernelOK
  <2>3. QED
    BY <1>0, <2>1, <2>2 DEF UnitEndOK, StateOK
<1>8. ASSUME NEW u \in Units,
             ProcessReleaseResource(u) \/ ProcessUnitResourceAllocate(u)
             \/ ProcessUnitResourceConflict(u)
      PROVE  UnitEndOK(v)'
  <2>1. /\ UNCHANGED <<signal, finish_decode, finish_run>> /\ executing'[v] = executing[v]
        /\ next_value'[<<"unit_finish", v>>] = next_value[<<"unit_finish", v>>]
    BY <1>8, <1>0 DEF ProcessReleaseResource, ProcessUnitResourceAllocate,
           ProcessUnitResourceConflict, KernelOK
  <2>2. QED
    BY <1>0, <2>1, SameUnitEnd
<1>9. ASSUME NEW u \in Units,
             ProcessUnitResourceRelease(u)
      PROVE  UnitEndOK(v)'
  BY <1>9, <1>0, ReleaseFrame, SameUnitEnd DEF ProcessUnitResourceRelease
<1>10. ASSUME NEW u \in Units, NEW id, PipelineTurn(u),
              ReadyForNextExecute(u) \/ ReleaseResource(u, id)
       PROVE  UnitEndOK(v)'
  <2>1. /\ UNCHANGED <<signal, finish_decode, finish_run>> /\ executing'[v] = executing[v]
        /\ next_value'[<<"unit_finish", v>>] = next_value[<<"unit_finish", v>>]
    BY <1>10, <1>0 DEF ReadyForNextExecute, ReleaseResource, KernelOK
  <2>2. QED
    BY <1>0, <2>1, SameUnitEnd
<1>11. ASSUME NEW u \in Units, NEW id, PipelineTurn(u),
              FinishInstruction(u, id)
       PROVE  UnitEndOK(v)'
  <2>1. UNCHANGED <<signal, next_value, finish_decode>>
    BY <1>11 DEF FinishInstruction
  <2>2. CASE v # u
    <3>1. finish_run'[v] = finish_run[v] /\ executing'[v] = executing[v]
      BY <1>11, <1>0, <2>2 DEF FinishInstruction, StateOK
    <3>2. QED
      BY <1>0, <2>1, <3>1 DEF UnitEndOK
  <2>3. CASE v = u
    <3>1. /\ finish_run'[v] <=> finish_run[v] \/ EndsUnit(v)
          /\ executing'[v] = executing[v] \ {id} /\ id \in executing[v]
      BY <1>11, <1>0, <2>3 DEF FinishInstruction, StateOK
    <3>2. EndsUnit(v) => executing[v] \ {id} = {}
      <4>1. /\ IsFiniteSet(executing[v] \ {id})
            /\ Cardinality(executing[v] \ {id}) = Cardinality(executing[v]) - 1
        BY <1>0, <3>1, FS_RemoveElement DEF PipelineOK
      <4>2. QED
        BY <1>0, <4>1, FS_EmptySet DEF EndsUnit, PipelineOK
    <3>3. EndsUnit(v) => finish_decode[v]
      BY DEF EndsUnit
    <3>4. QED
      BY <1>0, <2>1, <3>1, <3>2, <3>3 DEF UnitEndOK
  <2>4. QED
    BY <2>2, <2>3
<1>12. QED
  BY <1>1, <1>2, <1>3, <1>4, <1>5, <1>6, <1>7, <1>8, <1>9, <1>10, <1>11
     DEF Next, Kernel, CoreProcess, UnitProcess, Pipeline

\* The core is told its end once (core.cpp:129-137).
LEMMA CallStep ==
  ASSUME IInv, Next
  PROVE  CallOK'
<1> USE DEF Run, Write, WriteEach, WriteNothing, Notify, NotifyNobody, Signals, CoreSignals,
           UnitSignals, core, clock, unit, pipeline, tables, history
<1>0. KernelOK /\ CallOK
  BY DEF IInv
<1>1. CASE DeltaCycle
  <2>1. UNCHANGED finish_run_calls /\ signal' = next_value
    BY <1>1 DEF DeltaCycle
  <2>2. <<"processFinishRun", "core">> \in runnable' =>
          \E u \in Units : next_value[<<"unit_finish", u>>] # signal[<<"unit_finish", u>>]
    <3>1. <<"processFinishRun", "core">> \in runnable' =>
            \/ <<"processFinishRun", "core">> \in notified
            \/ \E s \in Changed : <<"processFinishRun", "core">> \in Sensitive(s)
      BY <1>1 DEF DeltaCycle
    <3>2. <<"processFinishRun", "core">> \notin notified
      BY <1>0 DEF KernelOK, Notified
    <3>3. QED
      BY <3>1, <3>2, WhoCallsFinish DEF Changed
  <2>3. \A u \in Units : UnitEndOK(u)
    BY DEF IInv
  <2>4. finish_run_calls = 1 => \A u \in Units : next_value[<<"unit_finish", u>>] = signal[<<"unit_finish", u>>]
    BY <1>0, <2>3 DEF CallOK, UnitEndOK
  <2>5. QED
    BY <1>0, <2>1, <2>2, <2>3, <2>4 DEF CallOK, UnitEndOK
<1>2. CASE AdvanceTime
  <2>1. /\ UNCHANGED <<finish_run_calls, signal>> /\ <<"processFinishRun", "core">> \notin runnable'
    BY <1>2 DEF AdvanceTime, AtDecode, AtEdge
  <2>2. QED
    BY <1>0, <2>1 DEF CallOK
<1>3. CASE DecodeIns \/ DecodeFinish \/ DecodeStalled \/ ProcessUpdatePC \/ ProcessIssue
           \/ ProcessStall \/ ProcessIdExEnable \/ ClockProcess \/ EndPosEdge
  <2>1. /\ UNCHANGED <<finish_run_calls, signal>>
        /\ <<"processFinishRun", "core">> \in runnable' => <<"processFinishRun", "core">> \in runnable
    BY <1>3 DEF DecodeIns, DecodeFinish, DecodeStalled, ProcessUpdatePC, ProcessIssue,
                ProcessStall, ProcessIdExEnable, ClockProcess, EndPosEdge
  <2>2. QED
    BY <1>0, <2>1 DEF CallOK
<1>4. CASE ProcessFinishRun
  <2>1. /\ finish_run_calls = 0 /\ Units # {} /\ UNCHANGED signal
        /\ <<"processFinishRun", "core">> \notin runnable'
    BY <1>4, <1>0 DEF ProcessFinishRun, CallOK
  <2>2. \/ finish_run_calls' = 0
        \/ finish_run_calls' = 1 /\ \A u \in Units : signal[<<"unit_finish", u>>]
    BY <1>4, <2>1 DEF ProcessFinishRun
  <2>3. QED
    BY <2>1, <2>2 DEF CallOK
<1>5. ASSUME NEW u \in Units, NEW scalars, NEW free \in BOOLEAN,
             FsmProcess(u) \/ FsmProcessInput(u) \/ FsmProcessEnable(u)
             \/ FsmFinishExec(u) \/ CheckInst(u) \/ Execute(u, scalars, free)
             \/ ProcessIdFinish(u) \/ ProcessReleaseResource(u)
             \/ UnitProcessFinishRun(u) \/ ProcessUnitResourceAllocate(u)
             \/ ProcessUnitResourceConflict(u)
      PROVE  CallOK'
  <2>1. /\ UNCHANGED <<finish_run_calls, signal>>
        /\ <<"processFinishRun", "core">> \in runnable' => <<"processFinishRun", "core">> \in runnable
    BY <1>5 DEF FsmProcess, FsmProcessInput, AskNextPosEdge, FsmProcessEnable,
                FsmFinishExec, CheckInst, Execute, ProcessIdFinish,
                ProcessReleaseResource, UnitProcessFinishRun, ProcessUnitResourceAllocate,
                ProcessUnitResourceConflict
  <2>2. QED
    BY <1>0, <2>1 DEF CallOK
<1>6. ASSUME NEW u \in Units,
             ProcessUnitResourceRelease(u)
      PROVE  CallOK'
  <2>1. /\ UNCHANGED <<finish_run_calls, signal>>
        /\ runnable' = runnable \ {<<"processUnitResourceRelease", u>>}
    BY <1>6, ReleaseFrame
  <2>2. QED
    BY <1>0, <2>1 DEF CallOK
<1>7. ASSUME NEW u \in Units, NEW id, PipelineTurn(u),
             ReadyForNextExecute(u) \/ ReleaseResource(u, id)
             \/ FinishInstruction(u, id)
      PROVE  CallOK'
  <2>1. /\ UNCHANGED <<finish_run_calls, signal>>
        /\ <<"processFinishRun", "core">> \in runnable' => <<"processFinishRun", "core">> \in runnable
    BY <1>7 DEF ReadyForNextExecute, ReleaseResource, FinishInstruction
  <2>2. QED
    BY <1>0, <2>1 DEF CallOK
<1>8. QED
  BY <1>1, <1>2, <1>3, <1>4, <1>5, <1>6, <1>7
     DEF Next, Kernel, CoreProcess, UnitProcess, Pipeline

-----------------------------------------------------------------------------
(***************************************************************************)
(* The invariant holds at first, and through every step.                   *)
(***************************************************************************)

\* The values of the signals before the first edge.
LEMMA FirstValues ==
  /\ ~ InitialValue(<<"id_finish", "core">>)
  /\ ~ InitialValue(<<"id_stall", "core">>)
  /\ \A u \in Units :
       /\ InitialValue(<<"id_ex_payload", u>>) = Nothing
       /\ InitialValue(<<"resource_allocate", u>>) = Nothing
       /\ InitialValue(<<"fsm_in", u>>) = Nothing
       /\ InitialValue(<<"ready", u>>)
       /\ InitialValue(<<"id_ex_enable", u>>)
       /\ InitialValue(<<"unit_finish", u>>) = FALSE
       /\ InitialValue(<<"conflict", u>>) = FALSE
<1>1. ~ InitialValue(<<"id_finish", "core">>) /\ ~ InitialValue(<<"id_stall", "core">>)
  BY Zenon DEF InitialValue
<1>2. ASSUME NEW u \in Units
      PROVE  /\ InitialValue(<<"id_ex_payload", u>>) = Nothing
             /\ InitialValue(<<"resource_allocate", u>>) = Nothing
             /\ InitialValue(<<"fsm_in", u>>) = Nothing
  BY Zenon DEF InitialValue
<1>3. ASSUME NEW u \in Units
      PROVE  InitialValue(<<"ready", u>>) /\ InitialValue(<<"id_ex_enable", u>>)
  BY Zenon DEF InitialValue
<1>4. ASSUME NEW u \in Units
      PROVE  /\ InitialValue(<<"unit_finish", u>>) = FALSE
             /\ InitialValue(<<"conflict", u>>) = FALSE
  BY Zenon DEF InitialValue
<1>5. QED
  BY <1>1, <1>2, <1>3, <1>4

\* The invariant holds at first.
LEMMA InitOK ==
  ASSUME Init, ~ PeriodIsOne
  PROVE  IInv
<1>1. /\ runnable = {} /\ notified = {} /\ phase = "edge"
      /\ cur_ins_payload = Nothing /\ cur_ins_conflict_info = Nothing
      /\ signal = [s \in Signals |-> InitialValue(s)] /\ next_value = signal
  BY DEF Init
<1>2. \A s \in Signals : signal[s] = InitialValue(s) /\ next_value[s] = InitialValue(s)
  BY <1>1
<1>3. <<"id_finish", "core">> \in Signals /\ <<"id_stall", "core">> \in Signals
  BY DEF Signals, CoreSignals
<1>4. \A u \in Units :
        /\ <<"id_ex_payload", u>> \in Signals /\ <<"resource_allocate", u>> \in Signals
        /\ <<"fsm_in", u>> \in Signals /\ <<"ready", u>> \in Signals
        /\ <<"id_ex_enable", u>> \in Signals /\ <<"unit_finish", u>> \in Signals
        /\ <<"conflict", u>> \in Signals
  BY DEF Signals, UnitSignals
<1>5. ~ signal[<<"id_finish", "core">>] /\ ~ next_value[<<"id_finish", "core">>]
  BY <1>2, <1>3, FirstValues
<1>6. ~ signal[<<"id_stall", "core">>] /\ ~ next_value[<<"id_stall", "core">>]
  BY <1>2, <1>3, FirstValues
<1>7. ASSUME NEW u \in Units
      PROVE  /\ signal[<<"id_ex_payload", u>>] = Nothing
             /\ next_value[<<"id_ex_payload", u>>] = Nothing
             /\ signal[<<"resource_allocate", u>>] = Nothing
             /\ next_value[<<"resource_allocate", u>>] = Nothing
             /\ signal[<<"fsm_in", u>>] = Nothing /\ next_value[<<"fsm_in", u>>] = Nothing
             /\ next_value[<<"ready", u>>] /\ signal[<<"ready", u>>]
             /\ next_value[<<"id_ex_enable", u>>]
             /\ signal[<<"unit_finish", u>>] = FALSE /\ next_value[<<"unit_finish", u>>] = FALSE
             /\ signal[<<"conflict", u>>] = FALSE /\ next_value[<<"conflict", u>>] = FALSE
  BY <1>2, <1>4, FirstValues
<1>8. StateOK
  BY NothingIsPayload, EmptyOfUnitIsPayload DEF Init, StateOK
<1>9. KernelOK
  <2>1. signal = [s \in Signals |-> signal[s]] /\ next_value = [s \in Signals |-> next_value[s]]
    BY <1>1
  <2>2. QED
    BY <1>1, <2>1 DEF KernelOK, InDecode, InEdge
<1>10. StallOK
  BY <1>5, <1>6, <1>7 DEF StallOK
<1>11. ASSUME NEW u \in Units
       PROVE  EnableOK(u) /\ IssueOK(u) /\ InputOK(u) /\ CalledAtEdge(u)
  BY <1>1, <1>6, <1>7, NothingIsPayload
     DEF EnableOK, IssueOK, InputOK, CalledAtEdge, ToUnit, Init
<1>12. ASSUME NEW u \in Units
       PROVE  ThreadOK(u) /\ StartedOK(u)
  BY <1>1, <1>7 DEF ThreadOK, StartedOK, Starting, Resuming, Pending, Init
<1>13. ASSUME NEW u \in Units
       PROVE  PipelineOK(u)
  BY FS_EmptySet DEF PipelineOK, Init
<1>14. ASSUME NEW u \in Units
       PROVE  TablesOK(u)
  BY <1>7, NothingIsPayload, EmptyOfUnitIsPayload DEF TablesOK, Init
<1>15. ASSUME NEW u \in Units
       PROVE  UnitEndOK(u)
  BY <1>7 DEF UnitEndOK, Init
<1>16. ASSUME NEW u \in Units
       PROVE  ConflictOK(u)
  <2>1. \A p \in Payload : p.unit = u => ~ ConflictWithIns(p, Nothing)
    BY UnitsAssumption
       DEF ConflictWithIns, FunctorConflict, Nothing, EmptyPayload, Intersects, Used, Payload
  <2>2. \A k \in PathKeys : path_map[u][k] \in Payload /\ path_map[u][k].unit = u
    BY EmptyOfUnitIsPayload DEF Init
  <2>3. ~ UnitConflict(u)
    BY <1>1, <2>1, <2>2, NothingIsPayload DEF UnitConflict
  <2>4. QED
    BY <1>7, <2>3 DEF ConflictOK
<1>17. DecodeOK
  <2>1. ~ Decoded /\ cur_ins_conflict_info.unit = "none"
    BY <1>1, NothingIsPayload DEF Decoded
  <2>2. ins_id = 0 /\ ins_index = 0 /\ pc_increment = 0
    BY DEF Init
  <2>3. QED
    BY <1>1, <2>1, <2>2, NothingIsPayload DEF DecodeOK
<1>18. TakingOK
  <2>1. passed = <<>> /\ taken = <<>> /\ cur_ins_conflict_info = Nothing
    BY DEF Init
  <2>2. ~ Passing /\ \A u \in Units : ~ ToStart(u) /\ ~ Starting(u)
    BY <1>1 DEF Passing, ToStart, Starting, Pending, Init
  <2>3. <<>> \in Histories(ins_id) /\ InOrder(<<>>)
    BY DEF Histories, InOrder
  <2>4. QED
    BY <2>1, <2>2, <2>3, NothingIsPayload DEF TakingOK
<1>19. EndOK
  BY <1>5 DEF EndOK
<1>20. CallOK
  BY <1>1 DEF CallOK, Init
<1>21. QED
  BY <1>8, <1>9, <1>10, <1>11, <1>12, <1>13, <1>14, <1>15, <1>16, <1>17, <1>18, <1>19,
     <1>20
     DEF IInv

\* Every step preserves the invariant.
LEMMA NextOK ==
  ASSUME IInv, ~ PeriodIsOne, Next
  PROVE  IInv'
<1>1. ASSUME NEW u \in Units
      PROVE  /\ EnableOK(u)' /\ IssueOK(u)' /\ InputOK(u)' /\ ConflictOK(u)'
             /\ CalledAtEdge(u)' /\ ThreadOK(u)' /\ StartedOK(u)'
             /\ PipelineOK(u)' /\ TablesOK(u)' /\ UnitEndOK(u)'
  BY EnableStep, IssueStep, InputStep, ConflictStep, CalledStep, ThreadStep, StartedStep,
     PipelineStep, TablesStep, UnitEndStep
<1>2. KernelOK' /\ StateOK' /\ StallOK' /\ DecodeOK' /\ TakingOK' /\ EndOK' /\ CallOK'
  BY KernelStep, StateStep, StallStep, DecodeStep, TakingStep, EndStep, CallStep
<1>3. QED
  BY <1>1, <1>2 DEF IInv

\* So does a step in which nothing happens.
LEMMA StutterOK ==
  ASSUME IInv, UNCHANGED vars
  PROVE  IInv'
<1> USE DEF vars, kernel, core, clock, unit, pipeline, tables, history
<1>1. KernelOK' /\ StateOK' /\ StallOK'
  BY DEF IInv, KernelOK, InDecode, InEdge, StateOK, StallOK
<1>2. ASSUME NEW u \in Units
      PROVE  EnableOK(u)' /\ IssueOK(u)' /\ InputOK(u)' /\ CalledAtEdge(u)' /\ ThreadOK(u)'
  BY DEF IInv, EnableOK, IssueOK, InputOK, CalledAtEdge, ThreadOK, Starting, Resuming,
         Pending
<1>3. ASSUME NEW u \in Units
      PROVE  ConflictOK(u)'
  BY DEF IInv, ConflictOK, UnitConflict, Pending
<1>4. ASSUME NEW u \in Units
      PROVE  StartedOK(u)' /\ PipelineOK(u)' /\ TablesOK(u)' /\ UnitEndOK(u)'
  BY DEF IInv, StartedOK, PipelineOK, TablesOK, UnitEndOK, Starting, Pending
<1>5. DecodeOK' /\ TakingOK'
  <2>1. DecodeOK'
    BY DEF IInv, DecodeOK, Decoded
  <2>2. Passing' <=> Passing
    BY DEF Passing
  <2>3. ASSUME NEW u \in Units
        PROVE  ToStart(u)' \/ Starting(u)' <=> ToStart(u) \/ Starting(u)
    BY DEF ToStart, Starting, Pending
  <2>4. QED
    BY <2>1, <2>2, <2>3, SameTaking DEF IInv
<1>6. EndOK' /\ CallOK'
  BY DEF IInv, EndOK, CallOK, Starting, Pending
<1>7. QED
  BY <1>1, <1>2, <1>3, <1>4, <1>5, <1>6 DEF IInv

\* The invariant holds throughout every run with a clock period above 1 ns.
THEOREM Invariance ==
  ASSUME ~ PeriodIsOne
  PROVE  Spec => []IInv
<1>1. Init => IInv
  BY InitOK
<1>2. IInv /\ [Next]_vars => IInv'
  BY NextOK, StutterOK
<1>3. QED
  BY <1>1, <1>2, PTL DEF Spec

-----------------------------------------------------------------------------
(***************************************************************************)
(* What it implies.                                                        *)
(***************************************************************************)

\* The state keeps its types, and a unit counts its instructions right: the counter
\* that execute_unit.h keeps is the number of those that have begun and not ended.
THEOREM TypeOKHolds ==
  ASSUME ~ PeriodIsOne
  PROVE  Spec => []TypeOK
<1>1. IInv => TypeOK
  BY NothingIsPayload
     DEF IInv, KernelOK, StateOK, DecodeOK, PipelineOK, TypeOK
<1>2. QED
  BY <1>1, Invariance, PTL

\* Just before an edge the decode stage and the FSM of each unit, which read two
\* different signals (core.cpp:93-101, fsm.h:47-56), agree on whether the instruction
\* goes, and the FSM that will start it has it at its input and will be called.
THEOREM EdgeAgreesHolds ==
  ASSUME ~ PeriodIsOne
  PROVE  Spec => []EdgeAgrees
<1>1. IInv => EdgeAgrees
  BY EdgeAgreesOK
<1>2. QED
  BY <1>1, Invariance, PTL

\* When the edge is over, the units have taken exactly the instructions that left
\* decode for a unit: each once, in its unit, in the order of decoding.
THEOREM TakenExactlyHolds ==
  ASSUME ~ PeriodIsOne
  PROVE  Spec => []TakenExactly
<1>1. ASSUME IInv, Quiescent
      PROVE  taken = passed /\ InOrder(taken)
  <2>1. TakingOK /\ runnable = {} /\ \A u \in Units : ~ Starting(u)
    BY <1>1 DEF IInv, Quiescent, Starting, Pending
  <2>2. QED
    BY <2>1, AtRest DEF TakingOK
<1>2. IInv => TakenExactly
  BY <1>1 DEF TakenExactly
<1>3. QED
  BY <1>2, Invariance, PTL

\* The end of the core means that everything is over.
LEMMA EndsWhenDoneOK ==
  ASSUME IInv
  PROVE  EndsWhenDone
<1>1. finish_run_calls \in {0, 1}
  BY DEF IInv, CallOK
<1>2. SUFFICES ASSUME finish_run_calls = 1
               PROVE  /\ ins_index >= Len(Program)
                      /\ taken = passed
                      /\ \A u \in Units : executing[u] = {}
  BY <1>1 DEF EndsWhenDone
<1>3. Units # {} /\ \A u \in Units : signal[<<"unit_finish", u>>]
  BY <1>2 DEF IInv, CallOK
<1>4. \A u \in Units : finish_run[u] /\ signal[<<"id_finish", "core">>] /\ executing[u] = {}
  BY <1>3 DEF IInv, UnitEndOK
<1>5. signal[<<"id_finish", "core">>] /\ next_value[<<"id_finish", "core">>]
  BY <1>3, <1>4 DEF IInv, EndOK
<1>6. /\ ins_index >= Len(Program)
      /\ cur_ins_conflict_info.unit = "none"
      /\ \A u \in Units : ~ Starting(u)
  BY <1>5 DEF IInv, EndOK
<1>7. ~ Passing
  BY <1>6, NothingIsPayload DEF Passing
<1>8. ASSUME NEW u \in Units
      PROVE  ~ ToStart(u)
  <2>1. SUFFICES ASSUME ToStart(u)
                 PROVE  FALSE
    OBVIOUS
  <2>2. Settled
    BY <2>1 DEF ToStart, Settled, EdgeProcesses, AtEdge
  <2>3. ~ signal[<<"id_ex_enable", u>>]
    BY <1>5, <2>2, SettledSignals
  <2>4. QED
    BY <2>1, <2>3 DEF ToStart
<1>9. taken = passed
  BY <1>6, <1>7, <1>8 DEF IInv, TakingOK
<1>10. QED
  BY <1>4, <1>6, <1>9

\* A core that reports its end (core.cpp:129-137) does so once, after it has decoded
\* its last instruction, its units have taken every instruction that left decode, and
\* have finished them all.
THEOREM EndsWhenDoneHolds ==
  ASSUME ~ PeriodIsOne
  PROVE  Spec => []EndsWhenDone
<1>1. IInv => EndsWhenDone
  BY EndsWhenDoneOK
<1>2. QED
  BY <1>1, Invariance, PTL

-----------------------------------------------------------------------------
(***************************************************************************)
(* All units together implement the scoreboard of the core.                *)
(*                                                                         *)
(* A second invariant, BInv, says of the tables of all units what IInv     *)
(* leaves open: they are the union of what is booked, nothing in flight    *)
(* conflicts, and nothing in flight conflicts with an instruction that     *)
(* leaves the decode stage, from the edge on until it is booked itself.    *)
(***************************************************************************)
\* What a unit has in flight.
InFlightOf(u) ==
  ins_map[u] \cup (IF BookingUnderWay(u) THEN {next_value[<<"resource_allocate", u>>]} ELSE {})

\* A booking under way is new, and whatever is in flight has been taken by its unit.
BookingOK(u) ==
  /\ \A p \in InFlightOf(u) : p.unit = u /\ p.ins_id \in IdsOf(taken)
  /\ BookingUnderWay(u) =>
       \A p \in ins_map[u] : p.ins_id # next_value[<<"resource_allocate", u>>].ins_id
  /\ <<"processUnitResourceAllocate", u>> \in runnable =>
       next_value[<<"resource_allocate", u>>] = signal[<<"resource_allocate", u>>]
  /\ signal[<<"resource_allocate", u>>].ins_id \in IdsOf(taken) \cup {-1}
  /\ next_value[<<"resource_allocate", u>>].ins_id \in IdsOf(taken) \cup {-1}

\* Who has functors.
FunctorOK(p) == p.functor = NoFunctor <=> p.unit \notin {"simd", "reduce"}

\* All that a unit has in flight shares one functor.
SharedOK(u) ==
  /\ \A p \in InFlightOf(u) : FunctorOK(p)
  /\ \A p, q \in InFlightOf(u) : p.functor = q.functor

\* The path map is the union of what is booked.
PathsOK(u) == \A k \in PathKeys : Exact(u, On(ins_map[u], k), path_map[u][k])

\* The instruction in decode leaves it at this edge, or has left it and not been taken.
Leaving == Passing \/ ins_id \in IdsOf(passed) \ IdsOf(taken)

\* Nothing in flight conflicts with the instruction that leaves decode.
LeavingOK ==
  Leaving => \A u \in Units :
    /\ ~ BookingUnderWay(u)
    /\ \A p \in ins_map[u] : ~ ConflictWithIns(p, cur_ins_payload)

\* LastTaken is the youngest instruction taken.
LastOK == LastTaken \in IdsOf(taken) \cup {-1} /\ \A id \in IdsOf(taken) : id <= LastTaken

\* The second inductive invariant.
BInv ==
  /\ \A u \in Units : BookingOK(u) /\ SharedOK(u) /\ PathsOK(u)
  /\ FunctorOK(cur_ins_payload)
  /\ LeavingOK
  /\ LastOK
  /\ NoHazard

\* Steps that touch no table, no booking and nothing that has been taken.
TablesRest ==
  /\ UNCHANGED <<signal, ins_map, path_map, taken>>
  /\ \A u \in Units :
       /\ next_value'[<<"resource_allocate", u>>] = next_value[<<"resource_allocate", u>>]
       /\ <<"processUnitResourceAllocate", u>> \in runnable' <=>
            <<"processUnitResourceAllocate", u>> \in runnable

\* Nor the decode stage.
Undisturbed ==
  /\ TablesRest
  /\ UNCHANGED <<passed, ins_id, cur_ins_payload, cur_ins_conflict_info>>
  /\ <<"processUpdatePC", "core">> \in runnable' <=> <<"processUpdatePC", "core">> \in runnable

\* The processes that do not.
LEMMA UndisturbedStep ==
  ASSUME IInv, Next
  PROVE  \/ DeltaCycle \/ AdvanceTime \/ DecodeIns \/ ProcessUpdatePC
         \/ \E u \in Units : \E scalars \in ScalarInputs(signal[<<"fsm_out", u>>]), free \in BOOLEAN :
              Execute(u, scalars, free)
         \/ \E u \in Units : ProcessUnitResourceAllocate(u) \/ ProcessUnitResourceRelease(u)
         \/ Undisturbed
<1> USE DEF Run, Write, WriteEach, WriteNothing, Notify, NotifyNobody, Signals, CoreSignals,
           UnitSignals, core, clock, unit, pipeline, tables, history
<1>0. KernelOK /\ StateOK
  BY DEF IInv
<1>1. CASE DecodeFinish \/ DecodeStalled \/ ProcessIssue \/ ProcessStall
           \/ ProcessIdExEnable
           \/ ProcessFinishRun \/ ClockProcess \/ EndPosEdge
  <2>1. UNCHANGED <<signal, ins_map, path_map, taken, passed, ins_id, cur_ins_payload,
                    cur_ins_conflict_info>>
    BY <1>1 DEF DecodeFinish, DecodeStalled, ProcessIssue, ProcessStall,
                ProcessIdExEnable,
                ProcessFinishRun, ClockProcess, EndPosEdge
  <2>2. \A u \in Units :
          next_value'[<<"resource_allocate", u>>] = next_value[<<"resource_allocate", u>>]
    BY <1>0, <1>1 DEF DecodeFinish, DecodeStalled, ProcessIssue, ProcessStall,
                      ProcessIdExEnable, ProcessFinishRun, ClockProcess, EndPosEdge, KernelOK
  <2>3. \A p : p[1] \in {"processUnitResourceAllocate", "processUpdatePC"} =>
          (p \in runnable' <=> p \in runnable)
    BY <1>0, <1>1 DEF DecodeFinish, DecodeStalled, ProcessIssue, ProcessStall,
                      ProcessIdExEnable, ProcessFinishRun, ClockProcess, EndPosEdge
  <2>4. QED
    BY <2>1, <2>2, <2>3 DEF Undisturbed, TablesRest
<1>2. ASSUME NEW u \in Units,
             FsmProcess(u) \/ FsmProcessInput(u) \/ FsmProcessEnable(u) \/ FsmFinishExec(u)
             \/ CheckInst(u)
      PROVE  Undisturbed
  <2>1. UNCHANGED <<signal, ins_map, path_map, taken, passed, ins_id, cur_ins_payload,
                    cur_ins_conflict_info>>
    BY <1>2 DEF FsmProcess, FsmProcessInput, AskNextPosEdge, FsmProcessEnable,
                FsmFinishExec,
                CheckInst
  <2>2. \A v \in Units :
          next_value'[<<"resource_allocate", v>>] = next_value[<<"resource_allocate", v>>]
    BY <1>0, <1>2 DEF FsmProcess, FsmProcessInput, AskNextPosEdge, FsmProcessEnable,
                      FsmFinishExec, CheckInst, KernelOK
  <2>3. \A p : p[1] \in {"processUnitResourceAllocate", "processUpdatePC"} =>
          (p \in runnable' <=> p \in runnable)
    BY <1>2 DEF FsmProcess, FsmProcessInput, AskNextPosEdge, FsmProcessEnable,
                FsmFinishExec, CheckInst
  <2>4. QED
    BY <2>1, <2>2, <2>3 DEF Undisturbed, TablesRest
<1>3. ASSUME NEW u \in Units,
             ProcessIdFinish(u) \/ ProcessReleaseResource(u) \/ UnitProcessFinishRun(u)
             \/ ProcessUnitResourceConflict(u)
      PROVE  Undisturbed
  <2>1. UNCHANGED <<signal, ins_map, path_map, taken, passed, ins_id, cur_ins_payload,
                    cur_ins_conflict_info>>
    BY <1>3 DEF ProcessIdFinish, ProcessReleaseResource, UnitProcessFinishRun,
                ProcessUnitResourceConflict
  <2>2. \A v \in Units :
          next_value'[<<"resource_allocate", v>>] = next_value[<<"resource_allocate", v>>]
    BY <1>0, <1>3 DEF ProcessIdFinish, ProcessReleaseResource, UnitProcessFinishRun,
                      ProcessUnitResourceConflict, KernelOK
  <2>3. \A p : p[1] \in {"processUnitResourceAllocate", "processUpdatePC"} =>
          (p \in runnable' <=> p \in runnable)
    BY <1>3 DEF ProcessIdFinish, ProcessReleaseResource, UnitProcessFinishRun,
                ProcessUnitResourceConflict
  <2>4. QED
    BY <2>1, <2>2, <2>3 DEF Undisturbed, TablesRest
<1>4. ASSUME NEW u \in Units, NEW id,
             ReadyForNextExecute(u) \/ ReleaseResource(u, id) \/ FinishInstruction(u, id)
      PROVE  Undisturbed
  <2>1. UNCHANGED <<signal, ins_map, path_map, taken, passed, ins_id, cur_ins_payload,
                    cur_ins_conflict_info, runnable>>
    BY <1>4 DEF ReadyForNextExecute, ReleaseResource, FinishInstruction
  <2>2. \A v \in Units :
          next_value'[<<"resource_allocate", v>>] = next_value[<<"resource_allocate", v>>]
    BY <1>0, <1>4 DEF ReadyForNextExecute, ReleaseResource, FinishInstruction, KernelOK
  <2>3. QED
    BY <2>1, <2>2 DEF Undisturbed, TablesRest
<1>5. QED
  BY <1>1, <1>2, <1>3, <1>4 DEF Next, Kernel, CoreProcess, UnitProcess, Pipeline

\* Updating the program counter and decoding touch the decode stage only.
LEMMA DecodeStageStep ==
  ASSUME DecodeIns \/ ProcessUpdatePC
  PROVE  TablesRest
<1>1. UNCHANGED <<signal, ins_map, path_map, taken, next_value>>
  BY DEF DecodeIns, ProcessUpdatePC, Run, WriteNothing, tables, history
<1>2. \A p : p[1] = "processUnitResourceAllocate" => (p \in runnable' <=> p \in runnable)
  BY DEF DecodeIns, ProcessUpdatePC, Run
<1>3. QED
  BY <1>1, <1>2 DEF TablesRest

\* Only a booking calls the method that books (conflict_handler.cpp:24-37).
LEMMA WhoCallsAllocate ==
  ASSUME NEW s \in Signals, NEW u \in Units,
         <<"processUnitResourceAllocate", u>> \in Sensitive(s)
  PROVE  s = <<"resource_allocate", u>>
<1> DEFINE allocate == <<"processUnitResourceAllocate", u>>
<1>1. allocate \notin Sensitive(<<"id_finish", "core">>)
  <2>1. Sensitive(<<"id_finish", "core">>) =
          {<<"processStall", "core">>} \cup ({"processIdFinish"} \X Units)
    BY WhoWakes
  <2>2. QED
    BY <2>1
<1>2. allocate \notin Sensitive(<<"id_stall", "core">>)
  <2>1. Sensitive(<<"id_stall", "core">>) =
          {<<"processIssue", "core">>, <<"processIdExEnable", "core">>}
    BY WhoWakes
  <2>2. QED
    BY <2>1
<1>3. ASSUME NEW v \in Units, s # <<"resource_allocate", u>>,
             \/ s = <<"id_ex_payload", v>> \/ s = <<"id_ex_enable", v>>
             \/ s = <<"ready", v>> \/ s = <<"resource_allocate", v>>
             \/ s = <<"resource_release", v>> \/ s = <<"unit_finish", v>>
             \/ s = <<"conflict", v>> \/ s = <<"fsm_in", v>> \/ s = <<"fsm_out", v>>
      PROVE  allocate \notin Sensitive(s)
  <2>1. /\ Sensitive(<<"id_ex_payload", v>>) = {<<"checkInst", v>>}
        /\ Sensitive(<<"id_ex_enable", v>>) = {<<"fsmProcessEnable", v>>}
        /\ Sensitive(<<"ready", v>>) = {<<"processUnitResourceConflict", v>>}
        /\ Sensitive(<<"resource_allocate", v>>) = {<<"processUnitResourceAllocate", v>>}
        /\ Sensitive(<<"resource_release", v>>) = {<<"processUnitResourceRelease", v>>}
        /\ Sensitive(<<"unit_finish", v>>) = {<<"processFinishRun", "core">>}
        /\ Sensitive(<<"conflict", v>>) = {<<"processStall", "core">>}
        /\ Sensitive(<<"fsm_in", v>>) = {<<"fsmProcessInput", v>>}
        /\ Sensitive(<<"fsm_out", v>>) = {}
    BY WhoWakes
  <2>2. CASE s = <<"resource_allocate", v>>
    BY <1>3, <2>1, <2>2
  <2>3. CASE s # <<"resource_allocate", v>>
    <3>1. Sensitive(s) \in {{<<"checkInst", v>>}, {<<"fsmProcessEnable", v>>},
                            {<<"processUnitResourceConflict", v>>},
                            {<<"processUnitResourceRelease", v>>},
                            {<<"processFinishRun", "core">>}, {<<"processStall", "core">>},
                            {<<"fsmProcessInput", v>>}, {}}
      BY <1>3, <2>1, <2>3
    <3>2. QED
      BY <3>1
  <2>4. QED
    BY <2>2, <2>3
<1>4. \/ s = <<"id_finish", "core">> \/ s = <<"id_stall", "core">>
      \/ \E v \in Units :
           \/ s = <<"id_ex_payload", v>> \/ s = <<"id_ex_enable", v>>
           \/ s = <<"ready", v>> \/ s = <<"resource_allocate", v>>
           \/ s = <<"resource_release", v>> \/ s = <<"unit_finish", v>>
           \/ s = <<"conflict", v>> \/ s = <<"fsm_in", v>> \/ s = <<"fsm_out", v>>
  BY DEF Signals, CoreSignals, UnitSignals
<1>5. QED
  BY <1>1, <1>2, <1>3, <1>4

\* The next delta cycle takes a booking on its way, and begins none.
LEMMA DeltaBookings ==
  ASSUME IInv, DeltaCycle, NEW u \in Units
  PROVE  /\ BookingUnderWay(u)' <=> BookingUnderWay(u)
         /\ next_value' = next_value
         /\ signal' = next_value
         /\ UNCHANGED <<ins_map, path_map, taken>>
<1>1. UNCHANGED <<next_value, ins_map, path_map, taken>> /\ signal' = next_value /\ runnable = {}
  BY DEF DeltaCycle, tables, history
<1>2. Changed' = {}
  BY <1>1 DEF Changed
<1>3. <<"processUnitResourceAllocate", u>> \in runnable' <=> <<"resource_allocate", u>> \in Changed
  <2>1. <<"processUnitResourceAllocate", u>> \notin notified
    BY DEF IInv, KernelOK, Notified
  <2>2. \A p : p \in runnable' <=> \/ p \in notified /\ Heard(p)
                                   \/ \E s \in Changed : p \in Sensitive(s)
    BY DEF DeltaCycle
  <2>3. Changed \subseteq Signals
    BY DEF Changed
  <2>4. Sensitive(<<"resource_allocate", u>>) = {<<"processUnitResourceAllocate", u>>}
    BY WhoWakes
  <2>5. QED
    BY <2>1, <2>2, <2>3, <2>4, WhoCallsAllocate
<1>4. QED
  BY <1>1, <1>2, <1>3 DEF BookingUnderWay

-----------------------------------------------------------------------------
(***************************************************************************)
(* Bookings under way, step by step.                                       *)
(***************************************************************************)
\* The operators of the scoreboard are those of the units.
LEMMA SameOperators ==
  /\ Abstract!Payload = Payload
  /\ \A p, q : Abstract!ConflictWithIns(p, q) <=> ConflictWithIns(p, q)
<1>1. Abstract!Payload = Payload
  BY DEF Abstract!Payload, Payload, Abstract!ExecuteUnitType, ExecuteUnitType,
         Abstract!DataPath, DataPath
<1>2. \A p, q : Abstract!ConflictWithIns(p, q) <=> ConflictWithIns(p, q)
  BY DEF Abstract!ConflictWithIns, ConflictWithIns, Abstract!FunctorConflict,
         FunctorConflict,
         Abstract!PathConflict, PathConflict, Abstract!Intersects, Intersects,
         Abstract!Used, Used
<1>3. QED
  BY <1>1, <1>2

\* What is in flight in the core is what is in flight in its units.
LEMMA InFlightOfUnits ==
  /\ InFlight = UNION {InFlightOf(u) : u \in Units}
  /\ InFlight' = UNION {InFlightOf(u)' : u \in Units}
BY DEF InFlight, InFlightOf

\* What is in flight are payloads.
LEMMA InFlightPayloads ==
  ASSUME IInv, NEW u \in Units
  PROVE  InFlightOf(u) \in SUBSET Payload /\ ins_map[u] \in SUBSET Payload
BY DEF IInv, StateOK, TablesOK, InFlightOf

\* Nothing has happened to the bookings of a unit, except perhaps that the value of
\* its signal has become visible.
Still(u) ==
  /\ BookingUnderWay(u)' <=> BookingUnderWay(u)
  /\ ins_map'[u] = ins_map[u] /\ path_map'[u] = path_map[u] /\ IdsOf(taken) \subseteq IdsOf(taken)'
  /\ next_value'[<<"resource_allocate", u>>] = next_value[<<"resource_allocate", u>>]
  /\ signal'[<<"resource_allocate", u>>] \in
       {signal[<<"resource_allocate", u>>], next_value[<<"resource_allocate", u>>]}
  /\ <<"processUnitResourceAllocate", u>> \in runnable' =>
       next_value'[<<"resource_allocate", u>>] = signal'[<<"resource_allocate", u>>]

\* The steps that touch none.
LEMMA StillStep ==
  ASSUME IInv, BInv, NEW u \in Units, DeltaCycle \/ AdvanceTime \/ TablesRest
  PROVE  Still(u) /\ UNCHANGED <<ins_map, path_map, taken>>
<1>1. CASE DeltaCycle
  <2>1. next_value'[<<"resource_allocate", u>>] = signal'[<<"resource_allocate", u>>]
    BY <1>1, DeltaBookings
  <2>2. QED
    BY <1>1, <2>1, DeltaBookings DEF Still
<1>2. CASE AdvanceTime
  <2>1. /\ UNCHANGED <<signal, next_value, ins_map, path_map, taken>>
        /\ Changed = {} /\ runnable = {}
    BY <1>2 DEF AdvanceTime, Quiescent, tables, history
  <2>2. \A p \in runnable' : p[1] \in {"processDecode", "clockProcess", "processUpdatePC"}
    BY <1>2 DEF AdvanceTime, AtDecode, AtEdge
  <2>3. Changed' = {}
    BY <2>1 DEF Changed
  <2>4. ~ BookingUnderWay(u) /\ ~ BookingUnderWay(u)'
    BY <2>1, <2>2, <2>3 DEF BookingUnderWay
  <2>5. QED
    BY <2>1, <2>2, <2>4 DEF Still
<1>3. CASE TablesRest
  <2>1. <<"processUnitResourceAllocate", u>> \in runnable =>
          next_value[<<"resource_allocate", u>>] = signal[<<"resource_allocate", u>>]
    BY DEF BInv, BookingOK
  <2>2. BookingUnderWay(u)' <=> BookingUnderWay(u)
    BY <1>3 DEF TablesRest, BookingUnderWay, Changed
  <2>3. QED
    BY <1>3, <2>1, <2>2 DEF Still, TablesRest
<1>4. QED
  BY <1>1, <1>2, <1>3

\* What is said of the bookings of a unit stays true then.
LEMMA StillOK ==
  ASSUME NEW u \in Units, Still(u), BookingOK(u), SharedOK(u), PathsOK(u)
  PROVE  /\ InFlightOf(u)' = InFlightOf(u)
         /\ BookingOK(u)' /\ SharedOK(u)' /\ PathsOK(u)'
<1>1. InFlightOf(u)' = InFlightOf(u)
  BY DEF Still, InFlightOf
<1>2. BookingOK(u)'
  BY <1>1 DEF Still, BookingOK
<1>3. SharedOK(u)'
  BY <1>1 DEF SharedOK
<1>4. PathsOK(u)'
  BY DEF Still, PathsOK
<1>5. QED
  BY <1>1, <1>2, <1>3, <1>4

\* The thread of a unit takes the instruction that leaves decode, and no other leaves.
LEMMA ExecuteLeaving ==
  ASSUME IInv, NEW u \in Units, NEW scalars, NEW free, Execute(u, scalars, free)
  PROVE  /\ signal[<<"fsm_out", u>>] = cur_ins_payload
         /\ cur_ins_payload \in Payload
         /\ cur_ins_payload.ins_id = ins_id
         /\ cur_ins_payload.unit = u
         /\ ins_id \in Nat
         /\ ins_id \notin IdsOf(taken) /\ IdsOf(taken) \subseteq 1 .. ins_id
         /\ IdsOf(taken)' = IdsOf(taken) \cup {ins_id}
         /\ UNCHANGED <<ins_id, cur_ins_payload, passed>>
         /\ Leaving /\ ~ Leaving'
<1>1. <<"execute", u>> \in runnable
  BY DEF Execute, Run
<1>2. /\ signal[<<"fsm_out", u>>] = cur_ins_payload
      /\ cur_ins_payload \in Payload
      /\ cur_ins_payload.ins_id = ins_id
      /\ cur_ins_payload.unit = u
      /\ ins_id \in Nat
  BY <1>1, StartedIns
<1>3. /\ taken' = Append(taken, Current) /\ IdsOf(taken)' = IdsOf(taken) \cup {ins_id}
      /\ UNCHANGED <<ins_id, cur_ins_payload, passed>>
  BY TakenLonger DEF Execute, core
<1>4. Starting(u) /\ TakingOK
  BY <1>1 DEF Starting, Pending, IInv
<1>5. ins_id \notin IdsOf(taken) /\ IdsOf(taken) \subseteq 1 .. ins_id
  BY <1>2, <1>4, HistoryKept DEF TakingOK
<1>6. Leaving
  <2>1. Passing \/ passed = taken'
    BY <1>3, <1>4 DEF TakingOK
  <2>2. passed = taken' => ins_id \in IdsOf(passed)
    BY <1>3 DEF IdsOf
  <2>3. QED
    BY <1>5, <2>1, <2>2 DEF Leaving
<1>7. runnable \cap EdgeProcesses = {}
  <2>1. <<"execute", u>> \notin EdgeProcesses /\ <<"execute", u>> \notin AtDecode
    BY DEF EdgeProcesses, AtEdge, AtDecode
  <2>2. QED
    BY <1>1, <2>1, Calm
<1>8. runnable' \cap EdgeProcesses = {}
  BY <1>7 DEF Execute, Run
<1>9. ~ Leaving'
  BY <1>3, <1>8, OutsideEdgeNext DEF Leaving
<1>10. QED
  BY <1>2, <1>3, <1>5, <1>6, <1>9

\* It books what nothing in flight conflicts with.
LEMMA ExecuteBooks ==
  ASSUME IInv, BInv, NEW u \in Units, NEW scalars \in ScalarInputs(signal[<<"fsm_out", u>>]),
         NEW free, Execute(u, scalars, free),
         NEW new, new = Booking(cur_ins_payload, scalars)
  PROVE  /\ new \in Payload /\ new.unit = u /\ new.ins_id = ins_id /\ FunctorOK(new)
         /\ \A w \in Units : \A p \in InFlightOf(w) : ~ ConflictWithIns(p, new)
         /\ \A w \in Units : ~ BookingUnderWay(w)
         /\ UNCHANGED <<signal, ins_map, path_map>>
         /\ next_value'[<<"resource_allocate", u>>] = new
         /\ BookingUnderWay(u)'
         /\ <<"processUnitResourceAllocate", u>> \notin runnable'
         /\ InFlightOf(u)' = InFlightOf(u) \cup {new}
         /\ \A w \in Units \ {u} : Still(w)
<1>1. /\ new \in Payload /\ new.unit = u /\ new.ins_id = ins_id
      /\ new.functor = cur_ins_payload.functor
      /\ \A p : ~ ConflictWithIns(p, cur_ins_payload) => ~ ConflictWithIns(p, new)
  BY ExecuteLeaving, BookingIsLess
<1>2. FunctorOK(new)
  BY <1>1, ExecuteLeaving DEF BInv, FunctorOK
<1>3. \A w \in Units : /\ ~ BookingUnderWay(w)
                       /\ \A p \in ins_map[w] : ~ ConflictWithIns(p, cur_ins_payload)
  BY ExecuteLeaving DEF BInv, LeavingOK
<1>4. \A w \in Units : \A p \in InFlightOf(w) : ~ ConflictWithIns(p, new)
  BY <1>1, <1>3 DEF InFlightOf
<1>5. /\ UNCHANGED <<signal, ins_map, path_map>>
      /\ runnable' = runnable \ {<<"execute", u>>}
      /\ next_value' = [next_value EXCEPT ![<<"ready", u>>] = free,
                                          ![<<"resource_allocate", u>>] = new]
  BY ExecuteLeaving DEF Execute, Run, tables
<1>6. /\ \A w \in Units : <<"resource_allocate", w>> \in Signals
      /\ next_value = [s \in Signals |-> next_value[s]]
  BY DEF Signals, UnitSignals, IInv, KernelOK
<1>7. next_value'[<<"resource_allocate", u>>] = new
  BY <1>5, <1>6
<1>8. \A w \in Units \ {u} :
        next_value'[<<"resource_allocate", w>>] = next_value[<<"resource_allocate", w>>]
  BY <1>5, <1>6
<1>9. \A w \in Units : /\ <<"processUnitResourceAllocate", w>> \notin runnable
                       /\ <<"processUnitResourceAllocate", w>> \notin runnable'
  BY <1>3, <1>5 DEF BookingUnderWay
<1>10. BookingUnderWay(u)'
  <2>1. signal[<<"resource_allocate", u>>].ins_id \in IdsOf(taken) \cup {-1}
    BY DEF BInv, BookingOK
  <2>2. new.ins_id \notin IdsOf(taken) \cup {-1}
    BY <1>1, ExecuteLeaving
  <2>3. next_value'[<<"resource_allocate", u>>] # signal'[<<"resource_allocate", u>>]
    BY <1>5, <1>7, <2>1, <2>2
  <2>4. QED
    BY <1>6, <2>3 DEF BookingUnderWay, Changed
<1>11. InFlightOf(u)' = InFlightOf(u) \cup {new}
  BY <1>3, <1>5, <1>7, <1>10 DEF InFlightOf
<1>12. ASSUME NEW w \in Units \ {u}
       PROVE  Still(w)
  <2>1. ~ BookingUnderWay(w) /\ ~ BookingUnderWay(w)'
    BY <1>3, <1>5, <1>8, <1>9 DEF BookingUnderWay, Changed
  <2>2. IdsOf(taken) \subseteq IdsOf(taken)'
    BY ExecuteLeaving
  <2>3. QED
    BY <1>5, <1>8, <1>9, <2>1, <2>2 DEF Still
<1>13. QED
  BY <1>1, <1>2, <1>3, <1>4, <1>5, <1>7, <1>9, <1>10, <1>11, <1>12

\* Booking an instruction that is in flight changes nothing of what is
\* (conflict_handler.cpp:24-37).
LEMMA AllocateBooks ==
  ASSUME IInv, BInv, NEW u \in Units, ProcessUnitResourceAllocate(u)
  PROVE  /\ \A w \in Units : BookingOK(w)' /\ SharedOK(w)' /\ PathsOK(w)'
         /\ \A w \in Units : InFlightOf(w)' = InFlightOf(w)
         /\ UNCHANGED <<taken, passed, ins_id, cur_ins_payload>>
         /\ ~ Leaving'
<1> DEFINE new == signal[<<"resource_allocate", u>>]
           allocate == <<"processUnitResourceAllocate", u>>
<1>1. /\ allocate \in runnable
      /\ runnable' = runnable \ {allocate}
      /\ UNCHANGED <<signal, next_value, taken, passed, ins_id, cur_ins_payload>>
  BY DEF ProcessUnitResourceAllocate, Run, WriteNothing, core, history
<1>2. BookingOK(u) /\ SharedOK(u) /\ PathsOK(u)
  BY DEF BInv
<1>3. BookingUnderWay(u) /\ next_value[<<"resource_allocate", u>>] = new
  BY <1>1, <1>2 DEF BookingUnderWay, BookingOK
<1>4. InFlightOf(u) = ins_map[u] \cup {new}
  BY <1>3 DEF InFlightOf
<1>5. new \in Payload /\ new.ins_id \in IdsOf(taken) /\ \A p \in ins_map[u] : p.ins_id # new.ins_id
  BY <1>2, <1>3, <1>4, InFlightPayloads DEF BookingOK
<1>6. new.ins_id # -1
  <2>1. IdsOf(taken) \subseteq 1 .. ins_id /\ ins_id \in Nat
    BY HistoryKept DEF IInv, TakingOK, DecodeOK
  <2>2. QED
    BY <1>5, <2>1
<1>7. /\ ins_map' = [ins_map EXCEPT ![u] = @ \cup {new}]
      /\ path_map' = [path_map EXCEPT ![u][UniqueId(new.path)] = Plus(@, new)]
  BY <1>5, <1>6 DEF ProcessUnitResourceAllocate
<1>8. ins_map \in [Units -> SUBSET Payload] /\ path_map \in [Units -> [PathKeys -> Payload]]
  BY DEF IInv, StateOK
<1> HIDE DEF new
<1>9. /\ ins_map'[u] = ins_map[u] \cup {new}
      /\ path_map'[u] = [path_map[u] EXCEPT ![UniqueId(new.path)] = Plus(@, new)]
      /\ \A w \in Units \ {u} : ins_map'[w] = ins_map[w] /\ path_map'[w] = path_map[w]
  BY <1>7, <1>8
<1>10. ~ BookingUnderWay(u)' /\ InFlightOf(u)' = InFlightOf(u)
  <2>1. next_value'[<<"resource_allocate", u>>] = signal'[<<"resource_allocate", u>>]
    BY <1>1, <1>3 DEF new
  <2>2. ~ BookingUnderWay(u)'
    BY <1>1, <2>1 DEF BookingUnderWay, Changed
  <2>3. QED
    BY <1>4, <1>9, <2>2 DEF InFlightOf
<1>11. BookingOK(u)'
  BY <1>1, <1>2, <1>10 DEF BookingOK
<1>12. SharedOK(u)'
  BY <1>2, <1>10 DEF SharedOK
<1>13. PathsOK(u)'
  <2>1. \A p \in ins_map[u] : p.functor = new.functor
    BY <1>2, <1>4 DEF SharedOK
  <2>2. ins_map[u] \in SUBSET Payload /\ path_map[u] \in [PathKeys -> Payload]
    BY <1>8
  <2>3. \A k \in PathKeys : Exact(u, On(ins_map[u], k), path_map[u][k])
    BY <1>2 DEF PathsOK
  <2>4. ASSUME NEW k \in PathKeys
        PROVE  Exact(u, On(ins_map[u] \cup {new}, k),
                     [path_map[u] EXCEPT ![UniqueId(new.path)] = Plus(@, new)][k])
    BY <1>5, <2>1, <2>2, <2>3, AllocationExact
  <2>5. QED
    BY <1>9, <2>4 DEF PathsOK
<1>14. ASSUME NEW w \in Units \ {u}
       PROVE  InFlightOf(w)' = InFlightOf(w) /\ BookingOK(w)' /\ SharedOK(w)' /\ PathsOK(w)'
  <2>1. BookingOK(w) /\ SharedOK(w) /\ PathsOK(w)
    BY DEF BInv
  <2>2. BookingUnderWay(w)' <=> BookingUnderWay(w)
    BY <1>1 DEF BookingUnderWay, Changed
  <2>3. <<"processUnitResourceAllocate", w>> \in runnable' =>
          next_value'[<<"resource_allocate", w>>] = signal'[<<"resource_allocate", w>>]
    BY <1>1, <2>1 DEF BookingOK
  <2>4. Still(w)
    BY <1>1, <1>9, <2>2, <2>3 DEF Still
  <2>5. QED
    BY <2>1, <2>4, StillOK
<1>15. ~ Leaving'
  <2>1. ~ Leaving
    BY <1>3 DEF BInv, LeavingOK
  <2>2. Passing' => Passing
    BY <1>1 DEF Passing, ProcessUnitResourceAllocate, core
  <2>3. QED
    BY <1>1, <2>1, <2>2 DEF Leaving
<1>16. QED
  BY <1>1, <1>10, <1>11, <1>12, <1>13, <1>14, <1>15

\* A release frees what it finds booked, and rebuilds the unions of the rest
\* (conflict_handler.cpp:39-56).
LEMMA ReleaseFrees ==
  ASSUME IInv, BInv, NEW u \in Units, ProcessUnitResourceRelease(u)
  PROVE  /\ \A w \in Units : BookingOK(w)' /\ SharedOK(w)' /\ PathsOK(w)'
         /\ \E freed \in SUBSET ins_map[u] :
              /\ InFlightOf(u)' = InFlightOf(u) \ freed
              /\ ins_map'[u] = ins_map[u] \ freed
         /\ \A w \in Units \ {u} : InFlightOf(w)' = InFlightOf(w) /\ ins_map'[w] = ins_map[w]
         /\ UNCHANGED <<taken, passed, ins_id, cur_ins_payload>>
         /\ \A w \in Units : BookingUnderWay(w)' <=> BookingUnderWay(w)
         /\ Leaving' <=> Leaving
<1>1. /\ runnable' = runnable \ {<<"processUnitResourceRelease", u>>}
      /\ UNCHANGED <<signal, next_value, taken, passed, ins_id, cur_ins_payload,
                     cur_ins_conflict_info>>
  BY ReleaseFrame DEF core, history
<1>2. ins_map \in [Units -> SUBSET Payload] /\ path_map \in [Units -> [PathKeys -> Payload]]
  BY DEF IInv, StateOK
<1>3. PICK freed, rest, last :
        /\ freed \in SUBSET ins_map[u] /\ rest \in SUBSET ins_map[u]
        /\ rest = ins_map[u] \ freed
        /\ \/ freed = {} /\ UNCHANGED <<ins_map, path_map>>
           \/ /\ ins_map' = [ins_map EXCEPT ![u] = rest]
              /\ \A k \in PathKeys : On(rest, k) # {} => last[k] \in On(rest, k)
              /\ path_map' = [path_map EXCEPT ![u] = PathMapAfter(@, u, freed, rest, last)]
  <2>1. CASE UNCHANGED tables
    <3>1. {} \in SUBSET ins_map[u] /\ ins_map[u] \in SUBSET ins_map[u] /\ ins_map[u] = ins_map[u] \ {}
      OBVIOUS
    <3>2. QED
      BY <2>1, <3>1 DEF tables
  <2>2. ASSUME NEW freed \in SUBSET ins_map[u],
               ins_map' = [ins_map EXCEPT ![u] = @ \ freed],
               NEW last \in [{k \in PathKeys : On(ins_map[u] \ freed, k) # {}}
                               -> ins_map[u] \ freed],
               \A k \in DOMAIN last : last[k] \in On(ins_map[u] \ freed, k),
               path_map' = [path_map EXCEPT ![u] =
                              PathMapAfter(@, u, freed, ins_map[u] \ freed, last)]
        PROVE  \E gone, rest, end :
                 /\ gone \in SUBSET ins_map[u] /\ rest \in SUBSET ins_map[u]
                 /\ rest = ins_map[u] \ gone
                 /\ \/ gone = {} /\ UNCHANGED <<ins_map, path_map>>
                    \/ /\ ins_map' = [ins_map EXCEPT ![u] = rest]
                       /\ \A k \in PathKeys : On(rest, k) # {} => end[k] \in On(rest, k)
                       /\ path_map' = [path_map EXCEPT ![u] = PathMapAfter(@, u, gone, rest, end)]
    <3>1. \A k \in PathKeys : On(ins_map[u] \ freed, k) # {} =>
            last[k] \in On(ins_map[u] \ freed, k)
      BY <2>2
    <3>2. ins_map[u] \ freed \in SUBSET ins_map[u]
      OBVIOUS
    <3>3. ins_map' = [ins_map EXCEPT ![u] = ins_map[u] \ freed]
      BY <1>2, <2>2
    <3>4. \/ freed = {} /\ UNCHANGED <<ins_map, path_map>>
          \/ /\ ins_map' = [ins_map EXCEPT ![u] = ins_map[u] \ freed]
             /\ \A k \in PathKeys : On(ins_map[u] \ freed, k) # {} =>
                  last[k] \in On(ins_map[u] \ freed, k)
             /\ path_map' = [path_map EXCEPT ![u] =
                               PathMapAfter(@, u, freed, ins_map[u] \ freed, last)]
      BY <2>2, <3>1, <3>3
    <3>5. QED
      BY <3>2, <3>4, Zenon
  <2>3. QED
    BY <2>1, <2>2, ReleaseEffect
<1>4. BookingOK(u) /\ SharedOK(u) /\ PathsOK(u)
  BY DEF BInv
<1>5. ASSUME NEW w \in Units
      PROVE  /\ BookingUnderWay(w)' <=> BookingUnderWay(w)
             /\ <<"processUnitResourceAllocate", w>> \in runnable' =>
                  next_value'[<<"resource_allocate", w>>] = signal'[<<"resource_allocate", w>>]
  <2>1. BookingOK(w)
    BY DEF BInv
  <2>2. QED
    BY <1>1, <2>1 DEF BookingUnderWay, Changed, BookingOK
<1>6. ins_map'[u] = rest
  BY <1>2, <1>3
<1>7. InFlightOf(u)' = InFlightOf(u) \ freed
  <2>1. BookingUnderWay(u) => next_value[<<"resource_allocate", u>>] \notin freed
    BY <1>3, <1>4 DEF BookingOK
  <2>2. QED
    BY <1>1, <1>3, <1>5, <1>6, <2>1 DEF InFlightOf
<1>8. BookingOK(u)'
  BY <1>1, <1>3, <1>4, <1>5, <1>6, <1>7 DEF BookingOK
<1>9. SharedOK(u)'
  BY <1>4, <1>7 DEF SharedOK
<1>10. PathsOK(u)'
  <2>1. CASE UNCHANGED <<ins_map, path_map>>
    BY <1>4, <2>1 DEF PathsOK
  <2>2. CASE ~ UNCHANGED <<ins_map, path_map>>
    <3>1. /\ \A k \in PathKeys : On(rest, k) # {} => last[k] \in On(rest, k)
          /\ path_map' = [path_map EXCEPT ![u] = PathMapAfter(@, u, freed, rest, last)]
      BY <1>3, <2>2
    <3>2. path_map'[u] = PathMapAfter(path_map[u], u, freed, rest, last)
      BY <1>2, <3>1
    <3>3. /\ u \in ExecuteUnitType
          /\ ins_map[u] \in SUBSET Payload /\ path_map[u] \in [PathKeys -> Payload]
      BY <1>2, UnitsAssumption DEF ExecuteUnitType
    <3>4. \A k \in PathKeys : Exact(u, On(ins_map[u], k), path_map[u][k])
      BY <1>4 DEF PathsOK
    <3>5. ASSUME NEW k \in PathKeys
          PROVE  Exact(u, On(rest, k), PathMapAfter(path_map[u], u, freed, rest, last)[k])
      BY <1>3, <3>1, <3>3, <3>4, ReleaseExact
    <3>6. QED
      BY <1>6, <3>2, <3>5 DEF PathsOK
  <2>3. QED
    BY <2>1, <2>2
<1>11. ASSUME NEW w \in Units \ {u}
       PROVE  /\ InFlightOf(w)' = InFlightOf(w) /\ ins_map'[w] = ins_map[w]
              /\ BookingOK(w)' /\ SharedOK(w)' /\ PathsOK(w)'
  <2>1. BookingOK(w) /\ SharedOK(w) /\ PathsOK(w)
    BY DEF BInv
  <2>2. ins_map'[w] = ins_map[w] /\ path_map'[w] = path_map[w]
    BY <1>2, <1>3
  <2>3. Still(w)
    BY <1>1, <1>5, <2>2 DEF Still
  <2>4. QED
    BY <2>1, <2>2, <2>3, StillOK
<1>12. Leaving' <=> Leaving
  BY <1>1 DEF Leaving, Passing
<1>13. QED
  BY <1>1, <1>3, <1>5, <1>6, <1>7, <1>8, <1>9, <1>10, <1>11, <1>12

-----------------------------------------------------------------------------
(***************************************************************************)
(* The second invariant, and the steps of the scoreboard.                  *)
(***************************************************************************)
\* What an instruction that leaves decode must not meet.
LEMMA SameLeaving ==
  ASSUME LeavingOK, Leaving' => Leaving, UNCHANGED cur_ins_payload,
         \A u \in Units : (BookingUnderWay(u)' <=> BookingUnderWay(u)) /\ ins_map'[u] \subseteq ins_map[u]
  PROVE  LeavingOK'
BY DEF LeavingOK

\* An instruction leaves decode only when no unit reports a conflict with what it has
\* in flight: all signals have settled before the edge.
LEMMA LeavesFree ==
  ASSUME IInv, BInv, ~ PeriodIsOne, AdvanceTime
  PROVE  LeavingOK'
<1> SUFFICES ASSUME Leaving', NEW u \in Units
             PROVE  /\ ~ BookingUnderWay(u)'
                    /\ \A p \in ins_map'[u] : ~ ConflictWithIns(p, cur_ins_payload')
  BY DEF LeavingOK
<1>1. /\ Quiescent /\ runnable = {} /\ notified = {} /\ Changed = {}
      /\ UNCHANGED <<signal, next_value, ins_map, path_map, passed, taken, ins_id,
                     cur_ins_payload, cur_ins_conflict_info>>
  BY DEF AdvanceTime, Quiescent, tables, core, history
<1>2. taken = passed
  <2>1. TakingOK /\ \A w \in Units : ~ Starting(w)
    BY <1>1 DEF IInv, Starting, Pending
  <2>2. QED
    BY <1>1, <2>1, AtRest
<1>3. Passing'
  BY <1>1, <1>2 DEF Leaving
<1>4. phase = "decode" /\ runnable' = AtEdge
  BY <1>3 DEF AdvanceTime, Passing, AtDecode, AtEdge
<1>5. ~ signal[<<"id_stall", "core">>] /\ cur_ins_conflict_info.unit \in Units
  BY <1>1, <1>3 DEF Passing
<1>6. Settled /\ Decoded
  BY <1>1, <1>4 DEF Settled, Decoded
<1>7. cur_ins_conflict_info = cur_ins_payload
  BY <1>5, <1>6, SettledAgrees DEF IInv, DecodeOK
<1>8. ~ UnitConflict(u)
  BY <1>5, <1>6, SettledSignals
<1>9. \A p \in ins_map[u] : ~ ConflictWithIns(p, cur_ins_payload)
  <2>1. PathsOK(u) /\ BookingOK(u)
    BY DEF BInv
  <2>2. \A p \in ins_map[u] : p.unit = u
    BY <2>1 DEF BookingOK, InFlightOf
  <2>3. \A k \in PathKeys : Exact(u, On(ins_map[u], k), path_map[u][k])
    BY <2>1 DEF PathsOK
  <2>4. (\E k \in PathKeys : ConflictWithIns(path_map[u][k], cur_ins_payload))
          <=> \E p \in ins_map[u] : ConflictWithIns(p, cur_ins_payload)
    BY <2>2, <2>3, InFlightPayloads, PathsConflict
  <2>5. QED
    BY <1>7, <1>8, <2>4 DEF UnitConflict
<1>10. ~ BookingUnderWay(u)'
  <2>1. Changed' = {}
    BY <1>1 DEF Changed
  <2>2. <<"processUnitResourceAllocate", u>> \notin runnable'
    BY <1>4 DEF AtEdge
  <2>3. QED
    BY <2>1, <2>2 DEF BookingUnderWay
<1>11. QED
  BY <1>1, <1>9, <1>10

\* Until it is taken, the instruction has left decode or leaves it.
LEMMA LeavingRest ==
  ASSUME IInv, BInv, ~ PeriodIsOne,
         DeltaCycle \/ AdvanceTime \/ DecodeIns \/ ProcessUpdatePC \/ Undisturbed
  PROVE  LeavingOK'
<1>1. LeavingOK /\ TakingOK /\ DecodeOK
  BY DEF BInv, IInv
<1>2. ASSUME DeltaCycle \/ ProcessUpdatePC \/ Undisturbed, NEW u \in Units
      PROVE  (BookingUnderWay(u)' <=> BookingUnderWay(u)) /\ ins_map'[u] \subseteq ins_map[u]
  BY <1>2, StillStep, DecodeStageStep DEF Undisturbed, Still
<1>3. CASE AdvanceTime
  BY <1>3, LeavesFree
<1>4. CASE DeltaCycle
  <2>1. ~ Passing' /\ UNCHANGED <<ins_id, passed, taken, cur_ins_payload>>
    BY <1>4, DeltaRuns, OutsideEdgeNext DEF DeltaCycle, core, history
  <2>2. Leaving' => Leaving
    BY <2>1 DEF Leaving
  <2>3. QED
    BY <1>1, <1>2, <1>4, <2>1, <2>2, SameLeaving
<1>5. CASE DecodeIns
  <2>1. ins_id' = ins_id + 1 /\ ins_id \in Nat /\ UNCHANGED <<passed, taken>>
    BY <1>1, <1>5 DEF DecodeIns, DecodeOK, history
  <2>2. ins_id' \notin IdsOf(passed)'
    <3>1. IdsOf(passed) \subseteq 1 .. ins_id
      BY <1>1, <2>1, HistoryKept DEF TakingOK
    <3>2. IdsOf(passed)' = IdsOf(passed)
      BY <2>1 DEF IdsOf
    <3>3. QED
      BY <2>1, <3>1, <3>2
  <2>3. ~ Passing'
    <3>1. runnable = AtDecode
      BY <1>5 DEF DecodeIns, Run, IInv, KernelOK, InDecode
    <3>2. <<"processUpdatePC", "core">> \notin runnable'
      BY <1>5, <3>1 DEF DecodeIns, Run, AtDecode
    <3>3. QED
      BY <3>2 DEF Passing
  <2>4. QED
    BY <2>2, <2>3 DEF LeavingOK, Leaving
<1>6. CASE ProcessUpdatePC
  <2>1. UNCHANGED <<ins_id, taken, cur_ins_payload, signal>>
    BY <1>6 DEF ProcessUpdatePC, Run
  <2>2. ~ Passing'
    BY <1>6 DEF ProcessUpdatePC, Run, Passing
  <2>3. \/ passed' = passed
        \/ Passing
    BY <1>6 DEF ProcessUpdatePC, Run, Passing
  <2>4. Leaving' => Leaving
    BY <2>1, <2>2, <2>3 DEF Leaving
  <2>5. QED
    BY <1>1, <1>2, <1>6, <2>1, <2>4, SameLeaving
<1>7. CASE Undisturbed
  <2>1. Leaving' => Leaving
    BY <1>7 DEF Undisturbed, TablesRest, Leaving, Passing
  <2>2. QED
    BY <1>1, <1>2, <1>7, <2>1, SameLeaving DEF Undisturbed
<1>8. QED
  BY <1>3, <1>4, <1>5, <1>6, <1>7

\* The instruction in decode has a functor if its unit has functors.
LEMMA FunctorRest ==
  ASSUME IInv, BInv, DeltaCycle \/ AdvanceTime \/ DecodeIns \/ ProcessUpdatePC \/ Undisturbed
  PROVE  FunctorOK(cur_ins_payload)'
<1>1. FunctorOK(cur_ins_payload)
  BY DEF BInv
<1>2. CASE DecodeIns
  <2>1. cur_ins_payload' = PayloadOf(CurIns, ins_id + 1) /\ ins_index \in Nat
    BY <1>2 DEF DecodeIns, IInv, DecodeOK
  <2>2. ins_index + 1 \in 1 .. Len(Program)
    BY <1>2, <2>1, ProgramAssumption DEF DecodeIns
  <2>3. CurIns.functor = NoFunctor <=> CurIns.unit \notin {"simd", "reduce"}
    BY <2>2, ProgramAssumption DEF CurIns
  <2>4. QED
    BY <2>1, <2>3 DEF FunctorOK, PayloadOf
<1>3. CASE DeltaCycle \/ AdvanceTime \/ ProcessUpdatePC \/ Undisturbed
  <2>1. cur_ins_payload' = cur_ins_payload
    BY <1>3 DEF DeltaCycle, AdvanceTime, ProcessUpdatePC, Undisturbed, core
  <2>2. QED
    BY <1>1, <2>1 DEF FunctorOK
<1>4. QED
  BY <1>2, <1>3

\* Steps that change nothing of what is in flight.
LEMMA RestStep ==
  ASSUME IInv, BInv, ~ PeriodIsOne,
         DeltaCycle \/ AdvanceTime \/ DecodeIns \/ ProcessUpdatePC \/ Undisturbed
  PROVE  BInv' /\ InFlight' = InFlight /\ LastTaken' = LastTaken
<1>1. DeltaCycle \/ AdvanceTime \/ TablesRest
  BY DecodeStageStep DEF Undisturbed
<1>2. ASSUME NEW u \in Units
      PROVE  /\ InFlightOf(u)' = InFlightOf(u)
             /\ BookingOK(u)' /\ SharedOK(u)' /\ PathsOK(u)'
  <2>1. BookingOK(u) /\ SharedOK(u) /\ PathsOK(u)
    BY DEF BInv
  <2>2. QED
    BY <1>1, <2>1, StillStep, StillOK
<1>3. InFlight' = InFlight
  <2>1. InFlight' = UNION {InFlightOf(u)' : u \in Units}
    BY InFlightOfUnits
  <2>2. QED
    BY <1>2, <2>1, InFlightOfUnits
<1>4. taken' = taken
  BY <1>1 DEF DeltaCycle, AdvanceTime, TablesRest, history
<1>5. LastTaken' = LastTaken
  BY <1>4 DEF LastTaken
<1>6. LastOK'
  BY <1>4, <1>5 DEF BInv, LastOK
<1>7. NoHazard'
  BY <1>3 DEF BInv, NoHazard, Abstract!NoHazard
<1>8. LeavingOK' /\ FunctorOK(cur_ins_payload)'
  BY LeavingRest, FunctorRest
<1>9. QED
  BY <1>2, <1>3, <1>5, <1>6, <1>7, <1>8 DEF BInv

\* Booking an instruction in flight.
LEMMA AllocateStep ==
  ASSUME IInv, BInv, NEW u \in Units, ProcessUnitResourceAllocate(u)
  PROVE  BInv' /\ InFlight' = InFlight /\ LastTaken' = LastTaken
<1>1. /\ \A w \in Units : BookingOK(w)' /\ SharedOK(w)' /\ PathsOK(w)'
      /\ \A w \in Units : InFlightOf(w)' = InFlightOf(w)
      /\ UNCHANGED <<taken, cur_ins_payload>>
      /\ ~ Leaving'
  BY AllocateBooks
<1>2. InFlight' = InFlight
  BY <1>1, InFlightOfUnits
<1>3. LastTaken' = LastTaken
  BY <1>1 DEF LastTaken
<1>4. LastOK' /\ FunctorOK(cur_ins_payload)'
  BY <1>1, <1>3 DEF BInv, LastOK, FunctorOK
<1>5. NoHazard'
  BY <1>2 DEF BInv, NoHazard, Abstract!NoHazard
<1>6. LeavingOK'
  BY <1>1 DEF LeavingOK
<1>7. QED
  BY <1>1, <1>2, <1>3, <1>4, <1>5, <1>6 DEF BInv

\* A release is one of the scoreboard, or of nothing.
LEMMA ReleaseStep ==
  ASSUME IInv, BInv, NEW u \in Units, ProcessUnitResourceRelease(u)
  PROVE  /\ BInv' /\ LastTaken' = LastTaken
         /\ \E freed \in SUBSET InFlight : InFlight' = InFlight \ freed
<1>1. /\ \A w \in Units : BookingOK(w)' /\ SharedOK(w)' /\ PathsOK(w)'
      /\ \A w \in Units \ {u} : InFlightOf(w)' = InFlightOf(w) /\ ins_map'[w] = ins_map[w]
      /\ UNCHANGED <<taken, cur_ins_payload>>
      /\ \A w \in Units : BookingUnderWay(w)' <=> BookingUnderWay(w)
      /\ Leaving' <=> Leaving
  BY ReleaseFrees
<1>2. PICK freed \in SUBSET ins_map[u] : /\ InFlightOf(u)' = InFlightOf(u) \ freed
                                         /\ ins_map'[u] = ins_map[u] \ freed
  BY ReleaseFrees
<1>3. \A w \in Units : \A p \in InFlightOf(w) : p.unit = w
  BY DEF BInv, BookingOK
<1>4. freed \in SUBSET InFlightOf(u)
  BY DEF InFlightOf
<1>5. \A w \in Units \ {u} : InFlightOf(w) \cap freed = {}
  BY <1>3, <1>4
<1>6. InFlight' = InFlight \ freed /\ freed \in SUBSET InFlight
  BY <1>1, <1>2, <1>4, <1>5, InFlightOfUnits
<1>7. LastTaken' = LastTaken
  BY <1>1 DEF LastTaken
<1>8. LastOK' /\ FunctorOK(cur_ins_payload)'
  BY <1>1, <1>7 DEF BInv, LastOK, FunctorOK
<1>9. NoHazard'
  BY <1>6 DEF BInv, NoHazard, Abstract!NoHazard
<1>10. LeavingOK'
  <2>1. \A w \in Units : ins_map'[w] \subseteq ins_map[w]
    BY <1>1, <1>2
  <2>2. LeavingOK
    BY DEF BInv
  <2>3. QED
    BY <1>1, <2>1, <2>2, SameLeaving
<1>11. QED
  BY <1>1, <1>6, <1>7, <1>8, <1>9, <1>10 DEF BInv

\* Taking an instruction is a booking of the scoreboard.
LEMMA ExecuteStep ==
  ASSUME IInv, BInv, NEW u \in Units, NEW scalars \in ScalarInputs(signal[<<"fsm_out", u>>]),
         NEW free, Execute(u, scalars, free)
  PROVE  BInv' /\ \E p \in InFlight' : Abstract!Book(p)
<1> DEFINE new == Booking(cur_ins_payload, scalars)
<1>1. /\ ins_id \in Nat
      /\ ins_id \notin IdsOf(taken) /\ IdsOf(taken) \subseteq 1 .. ins_id
      /\ IdsOf(taken)' = IdsOf(taken) \cup {ins_id}
      /\ UNCHANGED <<ins_id, cur_ins_payload, passed>>
      /\ ~ Leaving'
  BY ExecuteLeaving
<1>2. /\ new \in Payload /\ new.unit = u /\ new.ins_id = ins_id /\ FunctorOK(new)
      /\ \A w \in Units : \A p \in InFlightOf(w) : ~ ConflictWithIns(p, new)
      /\ \A w \in Units : ~ BookingUnderWay(w)
      /\ UNCHANGED <<signal, ins_map, path_map>>
      /\ next_value'[<<"resource_allocate", u>>] = new
      /\ BookingUnderWay(u)'
      /\ <<"processUnitResourceAllocate", u>> \notin runnable'
      /\ InFlightOf(u)' = InFlightOf(u) \cup {new}
      /\ \A w \in Units \ {u} : Still(w)
  BY ExecuteBooks
<1> HIDE DEF new
<1>3. BookingOK(u) /\ SharedOK(u) /\ PathsOK(u)
  BY DEF BInv
<1>4. BookingOK(u)'
  <2>1. \A p \in InFlightOf(u)' : p.unit = u /\ p.ins_id \in IdsOf(taken)'
    BY <1>1, <1>2, <1>3 DEF BookingOK
  <2>2. \A p \in ins_map'[u] : p.ins_id # ins_id
    BY <1>1, <1>2, <1>3 DEF BookingOK, InFlightOf
  <2>3. signal'[<<"resource_allocate", u>>].ins_id \in IdsOf(taken)' \cup {-1}
    BY <1>1, <1>2, <1>3 DEF BookingOK
  <2>4. QED
    BY <1>1, <1>2, <2>1, <2>2, <2>3 DEF BookingOK
<1>5. SharedOK(u)'
  <2>1. ASSUME NEW p \in InFlightOf(u)
        PROVE  p.functor = new.functor
    <3>1. p.unit = u /\ new.unit = u /\ FunctorOK(p) /\ FunctorOK(new) /\ ~ FunctorConflict(p, new)
      BY <1>2, <1>3 DEF BookingOK, SharedOK, ConflictWithIns
    <3>2. QED
      BY <3>1 DEF FunctorOK, FunctorConflict
  <2>2. QED
    BY <1>2, <1>3, <2>1 DEF SharedOK
<1>6. PathsOK(u)'
  BY <1>2, <1>3 DEF PathsOK
<1>7. ASSUME NEW w \in Units \ {u}
      PROVE  InFlightOf(w)' = InFlightOf(w) /\ BookingOK(w)' /\ SharedOK(w)' /\ PathsOK(w)'
  <2>1. BookingOK(w) /\ SharedOK(w) /\ PathsOK(w)
    BY DEF BInv
  <2>2. QED
    BY <1>2, <2>1, StillOK
<1>8. InFlight' = InFlight \cup {new}
  BY <1>2, <1>7, InFlightOfUnits
<1>9. LastOK' /\ LastTaken' = ins_id /\ ins_id > LastTaken
  <2>1. IdsOf(taken) \subseteq Int /\ \A id \in IdsOf(taken) : id < ins_id
    BY <1>1
  <2>2. LastTaken \in Int /\ ins_id > LastTaken
    BY <1>1, <2>1 DEF BInv, LastOK
  <2>3. ins_id \in IdsOf(taken)' /\ \A other \in IdsOf(taken)' : other <= ins_id
    BY <1>1, <2>1
  <2>4. LastTaken' = ins_id
    BY TakenLonger DEF LastTaken
  <2>5. QED
    BY <2>2, <2>3, <2>4 DEF LastOK
<1>10. \A p \in InFlight : ~ ConflictWithIns(p, new) /\ p.ins_id < new.ins_id
  <2>1. \A w \in Units : \A p \in InFlightOf(w) : p.ins_id \in IdsOf(taken)
    BY DEF BInv, BookingOK
  <2>2. \A id \in IdsOf(taken) : id < ins_id
    BY <1>1
  <2>3. QED
    BY <1>2, <2>1, <2>2, InFlightOfUnits
<1>11. NoHazard'
  <2>1. new.ins_id \in Nat /\ \A p \in InFlight : p.ins_id \in Nat
    <3>1. \A w \in Units : \A p \in InFlightOf(w) : p.ins_id \in IdsOf(taken)
      BY DEF BInv, BookingOK
    <3>2. \A p \in InFlight : p.ins_id \in IdsOf(taken)
      BY <3>1, InFlightOfUnits
    <3>3. \A id \in IdsOf(taken) : id \in Nat
      BY <1>1
    <3>4. new.ins_id \in Nat
      BY <1>1, <1>2
    <3>5. QED
      BY <3>2, <3>3, <3>4
  <2>2. \A p, q \in InFlight : p.ins_id < q.ins_id => ~ Abstract!ConflictWithIns(p, q)
    BY DEF BInv, NoHazard, Abstract!NoHazard
  <2>3. \A p \in InFlight : ~ Abstract!ConflictWithIns(p, new) /\ ~ new.ins_id < p.ins_id
    BY <1>10, <2>1, SameOperators
  <2>4. ~ new.ins_id < new.ins_id
    BY <2>1
  <2>5. QED
    BY <1>8, <2>2, <2>3, <2>4 DEF NoHazard, Abstract!NoHazard
<1>12. LeavingOK' /\ FunctorOK(cur_ins_payload)'
  BY <1>1 DEF BInv, LeavingOK, FunctorOK
<1>13. BInv'
  <2>1. \A w \in Units : BookingOK(w)' /\ SharedOK(w)' /\ PathsOK(w)'
    BY <1>4, <1>5, <1>6, <1>7
  <2>2. QED
    BY <1>9, <1>11, <1>12, <2>1 DEF BInv
<1>14. Abstract!Book(new)
  BY <1>2, <1>8, <1>9, <1>10, SameOperators DEF Abstract!Book
<1>15. QED
  BY <1>8, <1>13, <1>14

\* At first nothing is in flight.
LEMMA NothingBooked ==
  ASSUME Init, ~ PeriodIsOne
  PROVE  BInv /\ Abstract!Init
<1>1. IInv
  BY InitOK
<1>2. /\ runnable = {} /\ taken = <<>> /\ passed = <<>> /\ ins_map = [u \in Units |-> {}]
      /\ path_map = [u \in Units |-> [k \in PathKeys |-> EmptyPayload(u)]]
      /\ cur_ins_payload = Nothing /\ next_value = signal
      /\ signal = [s \in Signals |-> InitialValue(s)]
  BY DEF Init
<1>3. ASSUME NEW u \in Units
      PROVE  /\ ~ BookingUnderWay(u)
             /\ InFlightOf(u) = {}
             /\ signal[<<"resource_allocate", u>>] = Nothing
  <2>1. ~ BookingUnderWay(u)
    BY <1>2 DEF BookingUnderWay, Changed
  <2>2. <<"resource_allocate", u>> \in Signals
    BY DEF Signals, UnitSignals
  <2>3. signal[<<"resource_allocate", u>>] = Nothing
    BY <1>2, <2>2, FirstValues
  <2>4. QED
    BY <1>2, <2>1, <2>3 DEF InFlightOf
<1>4. InFlight = {}
  BY <1>3, InFlightOfUnits
<1>5. ASSUME NEW u \in Units
      PROVE  BookingOK(u) /\ SharedOK(u) /\ PathsOK(u)
  <2>1. BookingOK(u)
    BY <1>2, <1>3, NothingIsPayload DEF BookingOK
  <2>2. SharedOK(u)
    BY <1>3 DEF SharedOK
  <2>3. PathsOK(u)
    BY <1>2 DEF PathsOK, Exact, On, EmptyPayload
  <2>4. QED
    BY <2>1, <2>2, <2>3
<1>6. FunctorOK(cur_ins_payload)
  BY <1>2 DEF FunctorOK, Nothing, EmptyPayload
<1>7. LeavingOK
  BY <1>2 DEF LeavingOK, Leaving, Passing
<1>8. LastTaken = -1
  BY <1>2 DEF LastTaken
<1>9. LastOK
  BY <1>2, <1>8 DEF LastOK, IdsOf
<1>10. NoHazard
  BY <1>4 DEF NoHazard, Abstract!NoHazard
<1>11. QED
  BY <1>4, <1>5, <1>6, <1>7, <1>8, <1>9, <1>10 DEF BInv, Abstract!Init

\* Every step keeps the second invariant, and is one of the scoreboard or changes
\* nothing of it.
LEMMA ScoreboardStep ==
  ASSUME IInv, BInv, ~ PeriodIsOne, [Next]_vars
  PROVE  BInv' /\ [Abstract!Next]_Abstract!vars
<1>1. CASE DeltaCycle \/ AdvanceTime \/ DecodeIns \/ ProcessUpdatePC \/ Undisturbed
  BY <1>1, RestStep DEF Abstract!vars
<1>2. ASSUME NEW u \in Units, ProcessUnitResourceAllocate(u)
      PROVE  BInv' /\ [Abstract!Next]_Abstract!vars
  BY <1>2, AllocateStep DEF Abstract!vars
<1>3. ASSUME NEW u \in Units, ProcessUnitResourceRelease(u)
      PROVE  BInv' /\ [Abstract!Next]_Abstract!vars
  <2>1. BInv' /\ LastTaken' = LastTaken
    BY <1>3, ReleaseStep
  <2>2. PICK freed \in SUBSET InFlight : InFlight' = InFlight \ freed
    BY <1>3, ReleaseStep
  <2>3. CASE freed = {}
    BY <2>1, <2>2, <2>3 DEF Abstract!vars
  <2>4. CASE freed # {}
    <3>1. Abstract!Free(freed)
      BY <2>1, <2>2, <2>4 DEF Abstract!Free
    <3>2. Abstract!Next
      BY <3>1 DEF Abstract!Next
    <3>3. QED
      BY <2>1, <3>2
  <2>5. QED
    BY <2>3, <2>4
<1>4. ASSUME NEW u \in Units, NEW scalars \in ScalarInputs(signal[<<"fsm_out", u>>]),
             NEW free \in BOOLEAN, Execute(u, scalars, free)
      PROVE  BInv' /\ [Abstract!Next]_Abstract!vars
  <2>1. BInv' /\ \E p \in InFlight' : Abstract!Book(p)
    BY <1>4, ExecuteStep
  <2>2. Abstract!Next
    BY <2>1 DEF Abstract!Next
  <2>3. QED
    BY <2>1, <2>2
<1>5. CASE UNCHANGED vars
  <2>1. Undisturbed
    BY <1>5 DEF vars, kernel, core, tables, history, Undisturbed, TablesRest
  <2>2. QED
    BY <1>1, <2>1
<1>6. QED
  BY <1>1, <1>2, <1>3, <1>4, <1>5, UndisturbedStep

\* The second invariant holds from the first state on.
THEOREM BookInvariance ==
  ASSUME ~ PeriodIsOne
  PROVE  Spec => [](IInv /\ BInv)
<1>1. Init => BInv
  BY NothingBooked
<1>2. IInv /\ BInv /\ [Next]_vars => BInv'
  BY ScoreboardStep
<1>3. QED
  BY <1>1, <1>2, Invariance, PTL DEF Spec

\* Of two instructions in flight anywhere in the core the younger one conflicts with
\* nothing of the older one (conflict_handler.cpp:58-64, core.cpp:93-121), if the
\* clock period is longer than 1 ns.
THEOREM NoHazardHolds ==
  ASSUME ~ PeriodIsOne
  PROVE  Spec => []NoHazard
<1>1. IInv /\ BInv => NoHazard
  BY DEF BInv
<1>2. QED
  BY <1>1, BookInvariance, PTL

\* Decode stage, FSMs, threads and conflict handlers of all units together implement
\* the scoreboard: instructions are taken in program order, and none while anything it
\* conflicts with is booked, or is being booked, in any unit.
THEOREM BooksInOrderHolds ==
  ASSUME ~ PeriodIsOne
  PROVE  Spec => BooksInOrder
<1>1. Init => Abstract!Init
  BY NothingBooked
<1>2. IInv /\ BInv /\ [Next]_vars => [Abstract!Next]_Abstract!vars
  BY ScoreboardStep
<1>3. QED
  BY <1>1, <1>2, BookInvariance, PTL DEF Spec, BooksInOrder, Abstract!Spec

-----------------------------------------------------------------------------
(***************************************************************************)
(* No release is lost, as long as none has joined a list that waits.       *)
(*                                                                         *)
(* A third invariant follows a release: what is booked is held, or in the  *)
(* list of its unit, which is about to be written out, or in the signal,   *)
(* which is about to be seen.  A booking under way is ahead of its         *)
(* release: while it is in the signal the release is in the list at most,  *)
(* and then the method that writes the list out does not run before the    *)
(* next delta cycle.  That is where the order of the kernel is needed.     *)
(***************************************************************************)
\* A release that the conflict handler will see in the next delta cycle.
Coming(u) == next_value[<<"resource_release", u>>] \ signal[<<"resource_release", u>>]

\* One that it sees in this delta cycle.
Arrived(u) ==
  IF <<"processUnitResourceRelease", u>> \in runnable
    THEN signal[<<"resource_release", u>>] ELSE {}

\* What a booking that arrives now still has ahead of it.
Ahead(u) == holding[u] \cup release_list[u] \cup Coming(u)

\* All releases that the signal of the unit carries.
Carried(u) == signal[<<"resource_release", u>>] \cup next_value[<<"resource_release", u>>]

ReleaseOK(u) ==
  /\ <<"processReleaseResource", u>> \in runnable =>
       /\ <<"processReleaseResource", u>> \notin notified
       /\ next_value[<<"resource_release", u>>] = signal[<<"resource_release", u>>]
  /\ release_list[u] # {} => <<"processReleaseResource", u>> \in Pending
  /\ \A p \in ins_map[u] : p.ins_id \in Ahead(u) \cup Arrived(u)
  /\ <<"resource_allocate", u>> \in Changed =>
       \/ next_value[<<"resource_allocate", u>>].ins_id \in holding[u]
       \/ /\ next_value[<<"resource_allocate", u>>].ins_id \in release_list[u]
          /\ <<"processReleaseResource", u>> \notin runnable
  /\ <<"processUnitResourceAllocate", u>> \in runnable =>
       next_value[<<"resource_allocate", u>>].ins_id \in Ahead(u)
  /\ holding[u] \cap release_list[u] = {}
  /\ (holding[u] \cup release_list[u]) \cap Carried(u) = {}
  /\ holding[u] \cup release_list[u] \cup Carried(u) \subseteq IdsOf(taken)

\* Nothing that matters to the releases of a unit happens.
Untouched(u) ==
  /\ holding'[u] = holding[u] /\ release_list'[u] = release_list[u] /\ ins_map'[u] = ins_map[u]
  /\ \A s \in {<<"resource_allocate", u>>, <<"resource_release", u>>} :
       next_value'[s] = next_value[s] /\ signal'[s] = signal[s]
  /\ \A p \in {<<"processReleaseResource", u>>, <<"processUnitResourceAllocate", u>>,
               <<"processUnitResourceRelease", u>>} : p \in runnable' <=> p \in runnable
  /\ <<"processReleaseResource", u>> \in notified' <=> <<"processReleaseResource", u>> \in notified
  /\ IdsOf(taken) \subseteq IdsOf(taken)'

\* Then what is said of them stays true.
LEMMA SameRelease ==
  ASSUME NEW u \in Units, ReleaseOK(u), Untouched(u)
  PROVE  ReleaseOK(u)'
<1>1. <<"resource_allocate", u>> \in Signals
  BY DEF Signals, UnitSignals
<1>2. <<"resource_allocate", u>> \in Changed' <=> <<"resource_allocate", u>> \in Changed
  BY <1>1 DEF Untouched, Changed
<1>3. /\ Ahead(u)' = Ahead(u) /\ Carried(u)' = Carried(u)
      /\ Arrived(u)' = Arrived(u)
      /\ <<"processReleaseResource", u>> \in Pending' <=> <<"processReleaseResource", u>> \in Pending
  BY DEF Untouched, Ahead, Coming, Carried, Arrived, Pending
<1> HIDE DEF Ahead, Carried, Arrived
<1>4. QED
  BY <1>2, <1>3 DEF Untouched, ReleaseOK

\* The processes that touch them.
LEMMA TouchingStep ==
  ASSUME IInv, Next, NEW v \in Units
  PROVE  \/ DeltaCycle \/ AdvanceTime
         \/ \E scalars \in ScalarInputs(signal[<<"fsm_out", v>>]), free \in BOOLEAN :
              Execute(v, scalars, free)
         \/ ProcessReleaseResource(v)
         \/ ProcessUnitResourceAllocate(v) \/ ProcessUnitResourceRelease(v)
         \/ \E id \in holding[v] : ReleaseResource(v, id)
         \/ Untouched(v)
<1> USE DEF Run, Write, WriteEach, WriteNothing, Notify, NotifyNobody, Signals, CoreSignals,
           UnitSignals, core, clock, unit, pipeline, tables, history
<1>0. KernelOK /\ StateOK
  BY DEF IInv
<1>1. CASE DecodeIns \/ DecodeFinish \/ DecodeStalled \/ ProcessUpdatePC \/ ProcessIssue
           \/ ProcessStall \/ ProcessIdExEnable \/ ProcessFinishRun \/ ClockProcess
           \/ EndPosEdge
  <2>1. UNCHANGED <<signal, holding, release_list, ins_map, taken>>
    BY <1>1 DEF DecodeIns, DecodeFinish, DecodeStalled, ProcessUpdatePC, ProcessIssue,
                ProcessStall, ProcessIdExEnable, ProcessFinishRun, ClockProcess, EndPosEdge
  <2>2. /\ next_value'[<<"resource_allocate", v>>] = next_value[<<"resource_allocate", v>>]
        /\ next_value'[<<"resource_release", v>>] = next_value[<<"resource_release", v>>]
    BY <1>0, <1>1
       DEF DecodeIns, DecodeFinish, DecodeStalled, ProcessUpdatePC, ProcessIssue,
           ProcessStall, ProcessIdExEnable, ProcessFinishRun, ClockProcess, EndPosEdge, KernelOK
  <2>3. \A p : p[1] \in {"processReleaseResource", "processUnitResourceAllocate",
                         "processUnitResourceRelease"} =>
          (p \in runnable' <=> p \in runnable) /\ (p \in notified' <=> p \in notified)
    BY <1>1 DEF DecodeIns, DecodeFinish, DecodeStalled, ProcessUpdatePC, ProcessIssue,
                ProcessStall, ProcessIdExEnable, ProcessFinishRun, ClockProcess, EndPosEdge
  <2>4. QED
    BY <2>1, <2>2, <2>3 DEF Untouched, IdsOf
<1>2. ASSUME NEW u \in Units,
             FsmProcess(u) \/ FsmProcessInput(u) \/ FsmProcessEnable(u) \/ FsmFinishExec(u)
             \/ CheckInst(u) \/ ProcessIdFinish(u) \/ UnitProcessFinishRun(u)
             \/ ProcessUnitResourceConflict(u)
      PROVE  Untouched(v)
  <2>1. UNCHANGED <<signal, holding, release_list, ins_map, taken>>
    BY <1>2 DEF FsmProcess, FsmProcessInput, AskNextPosEdge, FsmProcessEnable,
                FsmFinishExec, CheckInst, ProcessIdFinish, UnitProcessFinishRun,
                ProcessUnitResourceConflict
  <2>2. /\ next_value'[<<"resource_allocate", v>>] = next_value[<<"resource_allocate", v>>]
        /\ next_value'[<<"resource_release", v>>] = next_value[<<"resource_release", v>>]
    BY <1>0, <1>2 DEF FsmProcess, FsmProcessInput, AskNextPosEdge, FsmProcessEnable,
                FsmFinishExec, CheckInst, ProcessIdFinish, UnitProcessFinishRun,
                ProcessUnitResourceConflict, KernelOK
  <2>3. \A p : p[1] \in {"processReleaseResource", "processUnitResourceAllocate",
                         "processUnitResourceRelease"} =>
          (p \in runnable' <=> p \in runnable) /\ (p \in notified' <=> p \in notified)
    BY <1>2 DEF FsmProcess, FsmProcessInput, AskNextPosEdge, FsmProcessEnable,
                FsmFinishExec, CheckInst, ProcessIdFinish, UnitProcessFinishRun,
                ProcessUnitResourceConflict
  <2>4. QED
    BY <2>1, <2>2, <2>3 DEF Untouched, IdsOf
<1>3. ASSUME NEW u \in Units, NEW id, ReadyForNextExecute(u) \/ FinishInstruction(u, id)
      PROVE  Untouched(v)
  <2>1. UNCHANGED <<signal, runnable, holding, release_list, ins_map, taken>>
    BY <1>3 DEF ReadyForNextExecute, FinishInstruction
  <2>2. /\ next_value'[<<"resource_allocate", v>>] = next_value[<<"resource_allocate", v>>]
        /\ next_value'[<<"resource_release", v>>] = next_value[<<"resource_release", v>>]
    BY <1>0, <1>3 DEF ReadyForNextExecute, FinishInstruction, KernelOK
  <2>3. <<"processReleaseResource", v>> \in notified' <=> <<"processReleaseResource", v>> \in notified
    BY <1>3 DEF ReadyForNextExecute, FinishInstruction
  <2>4. QED
    BY <2>1, <2>2, <2>3 DEF Untouched, IdsOf
<1>4. ASSUME NEW u \in Units \ {v}, NEW scalars, NEW free, Execute(u, scalars, free)
      PROVE  Untouched(v)
  <2>1. /\ UNCHANGED <<signal, release_list, ins_map>> /\ holding'[v] = holding[v]
        /\ runnable' = runnable \ {<<"execute", u>>}
        /\ notified' \subseteq notified \cup {<<"fsmFinishExec", u>>} /\ notified \subseteq notified'
    BY <1>0, <1>4 DEF Execute, StateOK
  <2>2. /\ next_value'[<<"resource_allocate", v>>] = next_value[<<"resource_allocate", v>>]
        /\ next_value'[<<"resource_release", v>>] = next_value[<<"resource_release", v>>]
    BY <1>0, <1>4 DEF Execute, KernelOK
  <2>3. IdsOf(taken) \subseteq IdsOf(taken)'
    BY <1>4, TakenLonger
  <2>4. QED
    BY <2>1, <2>2, <2>3 DEF Untouched
<1>5. ASSUME NEW u \in Units \ {v}, ProcessReleaseResource(u) \/ ProcessUnitResourceAllocate(u)
      PROVE  Untouched(v)
  <2>1. /\ UNCHANGED <<signal, holding, taken>>
        /\ release_list'[v] = release_list[v] /\ ins_map'[v] = ins_map[v]
    BY <1>0, <1>5 DEF ProcessReleaseResource, ProcessUnitResourceAllocate, StateOK
  <2>2. /\ next_value'[<<"resource_allocate", v>>] = next_value[<<"resource_allocate", v>>]
        /\ next_value'[<<"resource_release", v>>] = next_value[<<"resource_release", v>>]
    BY <1>0, <1>5 DEF ProcessReleaseResource, ProcessUnitResourceAllocate, KernelOK
  <2>3. \A p : p[2] = v /\ p[1] # "processUnitResourceConflict" =>
          (p \in runnable' <=> p \in runnable) /\ (p \in notified' <=> p \in notified)
    BY <1>5 DEF ProcessReleaseResource, ProcessUnitResourceAllocate
  <2>4. QED
    BY <2>1, <2>2, <2>3 DEF Untouched, IdsOf
<1>6. ASSUME NEW u \in Units \ {v}, ProcessUnitResourceRelease(u)
      PROVE  Untouched(v)
  <2>1. /\ UNCHANGED <<signal, next_value, holding, release_list, taken>>
        /\ runnable' = runnable \ {<<"processUnitResourceRelease", u>>}
        /\ \/ notified' = notified
           \/ notified' = notified \cup {<<"processUnitResourceConflict", u>>}
    BY <1>6, ReleaseFrame
  <2>2. ins_map'[v] = ins_map[v]
    BY <1>0, <1>6, ReleaseEffect DEF StateOK
  <2>3. QED
    BY <2>1, <2>2 DEF Untouched, IdsOf
<1>7. ASSUME NEW u \in Units \ {v}, NEW id, ReleaseResource(u, id)
      PROVE  Untouched(v)
  <2>1. /\ UNCHANGED <<signal, next_value, runnable, ins_map, taken>>
        /\ release_list'[v] = release_list[v] /\ holding'[v] = holding[v]
        /\ notified' = notified \cup {<<"processReleaseResource", u>>}
    BY <1>0, <1>7 DEF ReleaseResource, StateOK
  <2>2. QED
    BY <2>1 DEF Untouched, IdsOf
<1>8. ASSUME NEW u \in Units, u # v, UnitProcess(u) \/ Pipeline(u)
      PROVE  Untouched(v)
  BY <1>2, <1>3, <1>4, <1>5, <1>6, <1>7, <1>8 DEF UnitProcess, Pipeline
<1>9. QED
  BY <1>1, <1>2, <1>3, <1>8 DEF Next, Kernel, CoreProcess, UnitProcess, Pipeline

-----------------------------------------------------------------------------
\* Only a release calls the method that frees (conflict_handler.cpp:39-56).
LEMMA WhoCallsRelease ==
  ASSUME IInv, DeltaCycle, NEW u \in Units
  PROVE  /\ <<"resource_release", u>> \in Changed => <<"processUnitResourceRelease", u>> \in runnable'
         /\ <<"processReleaseResource", u>> \in runnable' <=> <<"processReleaseResource", u>> \in notified
<1>1. \A p : p \in runnable' <=> \/ p \in notified /\ Heard(p)
                                 \/ \E s \in Changed : p \in Sensitive(s)
  BY DEF DeltaCycle
<1>2. Changed \subseteq Signals
  BY DEF Changed
<1>3. Sensitive(<<"resource_release", u>>) = {<<"processUnitResourceRelease", u>>}
  BY WhoWakes
<1>4. \A s \in Changed : <<"processReleaseResource", u>> \notin Sensitive(s)
  BY <1>2, WokenProcesses
<1>5. Heard(<<"processReleaseResource", u>>)
  BY DEF Heard
<1>6. QED
  BY <1>1, <1>3, <1>4, <1>5

\* The next delta cycle: what was coming arrives, and the list is written out.
LEMMA ReleaseDelta ==
  ASSUME IInv, BInv, DeltaCycle, NEW u \in Units, ReleaseOK(u)
  PROVE  ReleaseOK(u)'
<1> DEFINE release == <<"resource_release", u>>
           allocate == <<"resource_allocate", u>>
           writes == <<"processReleaseResource", u>>
<1>1. /\ runnable = {} /\ notified' = {} /\ signal' = next_value
      /\ UNCHANGED <<next_value, holding, release_list, ins_map, taken>>
  BY DEF DeltaCycle, unit, pipeline, tables, history
<1>2. release \in Signals /\ allocate \in Signals
  BY DEF Signals, UnitSignals
<1>3. Changed' = {}
  BY <1>1 DEF Changed
<1>4. writes \in runnable' <=> writes \in notified
  BY WhoCallsRelease
<1>5. Coming(u) \subseteq Arrived(u)' /\ Arrived(u) = {} /\ Coming(u)' = {}
  <2>1. Coming(u) # {} => release \in Changed
    BY <1>2 DEF Coming, Changed
  <2>2. Coming(u) # {} => <<"processUnitResourceRelease", u>> \in runnable'
    BY <2>1, WhoCallsRelease
  <2>3. QED
    BY <1>1, <2>2 DEF Coming, Arrived
<1>6. <<"processUnitResourceAllocate", u>> \in runnable' => allocate \in Changed
  <2>1. BookingUnderWay(u)' => BookingUnderWay(u)
    BY DeltaBookings
  <2>2. QED
    BY <1>1, <2>1 DEF BookingUnderWay
<1>7. Carried(u)' \subseteq Carried(u)
  BY <1>1 DEF Carried
<1>8. \A p \in ins_map'[u] : p.ins_id \in Ahead(u)' \cup Arrived(u)'
  <2>1. \A p \in ins_map[u] : p.ins_id \in Ahead(u)
    BY <1>5 DEF ReleaseOK
  <2>2. Ahead(u) \subseteq Ahead(u)' \cup Arrived(u)'
    BY <1>1, <1>5 DEF Ahead
  <2>3. QED
    BY <1>1, <2>1, <2>2
<1>9. <<"processUnitResourceAllocate", u>> \in runnable' =>
        next_value'[<<"resource_allocate", u>>].ins_id \in Ahead(u)'
  BY <1>1, <1>6 DEF ReleaseOK, Ahead
<1>10. release_list'[u] # {} => writes \in Pending'
  BY <1>1, <1>4 DEF ReleaseOK, Pending
<1>11. /\ holding'[u] \cap release_list'[u] = {}
       /\ (holding'[u] \cup release_list'[u]) \cap Carried(u)' = {}
       /\ holding'[u] \cup release_list'[u] \cup Carried(u)' \subseteq IdsOf(taken)'
  <2>1. IdsOf(taken)' = IdsOf(taken)
    BY <1>1 DEF IdsOf
  <2>2. QED
    BY <1>1, <1>7, <2>1 DEF ReleaseOK
<1> HIDE DEF Ahead, Arrived, Carried
<1>12. QED
  BY <1>1, <1>3, <1>8, <1>9, <1>10, <1>11 DEF ReleaseOK

\* Time goes on when every release has arrived.
LEMMA ReleaseTime ==
  ASSUME IInv, AdvanceTime, NEW u \in Units, ReleaseOK(u)
  PROVE  ReleaseOK(u)'
<1>1. /\ runnable = {}
      /\ UNCHANGED <<signal, next_value, notified, holding, release_list, ins_map, taken>>
  BY DEF AdvanceTime, Quiescent, unit, pipeline, tables, history
<1>2. \A p \in runnable' : p[1] \in {"processDecode", "clockProcess", "processUpdatePC"}
  BY DEF AdvanceTime, AtDecode, AtEdge
<1>3. Untouched(u)
  BY <1>1, <1>2 DEF Untouched, IdsOf
<1>4. QED
  BY <1>3, SameRelease

\* What is taken is held, and none of its releases is ahead of its booking.
LEMMA ReleaseExecute ==
  ASSUME IInv, BInv, NEW u \in Units, NEW scalars \in ScalarInputs(signal[<<"fsm_out", u>>]),
         NEW free, Execute(u, scalars, free), ReleaseOK(u)
  PROVE  ReleaseOK(u)'
<1> DEFINE new == Booking(cur_ins_payload, scalars)
           writes == <<"processReleaseResource", u>>
<1>1. /\ ins_id \notin IdsOf(taken) /\ IdsOf(taken)' = IdsOf(taken) \cup {ins_id}
      /\ signal[<<"fsm_out", u>>].ins_id = ins_id
  BY ExecuteLeaving
<1>2. /\ new.ins_id = ins_id /\ next_value'[<<"resource_allocate", u>>] = new
      /\ UNCHANGED <<signal, ins_map>>
      /\ <<"processUnitResourceAllocate", u>> \notin runnable'
  BY ExecuteBooks
<1> HIDE DEF new
<1>3. /\ UNCHANGED release_list /\ holding'[u] = holding[u] \cup {ins_id}
      /\ runnable' = runnable \ {<<"execute", u>>}
      /\ writes \in notified' <=> writes \in notified
      /\ next_value'[<<"resource_release", u>>] = next_value[<<"resource_release", u>>]
  <2>1. UNCHANGED release_list /\ holding'[u] = holding[u] \cup {ins_id}
    BY <1>1 DEF Execute, IInv, StateOK
  <2>2. runnable' = runnable \ {<<"execute", u>>} /\ (writes \in notified' <=> writes \in notified)
    BY DEF Execute, Run, Notify
  <2>3. next_value'[<<"resource_release", u>>] = next_value[<<"resource_release", u>>]
    <3>1. <<"resource_release", u>> \in Signals /\ next_value = [s \in Signals |-> next_value[s]]
      BY DEF Signals, UnitSignals, IInv, KernelOK
    <3>2. next_value' = [next_value EXCEPT ![<<"ready", u>>] = free,
                                ![<<"resource_allocate", u>>] = Booking(signal[<<"fsm_out", u>>], scalars)]
      BY DEF Execute
    <3>3. QED
      BY <3>1, <3>2
  <2>4. QED
    BY <2>1, <2>2, <2>3
<1>4. /\ Carried(u)' = Carried(u) /\ Coming(u)' = Coming(u) /\ Arrived(u)' = Arrived(u)
      /\ Ahead(u) \subseteq Ahead(u)'
      /\ writes \in Pending' <=> writes \in Pending
  BY <1>2, <1>3 DEF Carried, Coming, Arrived, Ahead, Pending
<1>5. /\ \A p \in ins_map'[u] : p.ins_id \in Ahead(u)' \cup Arrived(u)'
      /\ next_value'[<<"resource_allocate", u>>].ins_id \in holding'[u]
  BY <1>2, <1>3, <1>4 DEF ReleaseOK
<1>6. /\ holding'[u] \cap release_list'[u] = {}
      /\ (holding'[u] \cup release_list'[u]) \cap Carried(u)' = {}
      /\ holding'[u] \cup release_list'[u] \cup Carried(u)' \subseteq IdsOf(taken)'
  BY <1>1, <1>3, <1>4 DEF ReleaseOK
<1>7. /\ release_list'[u] # {} => writes \in Pending'
      /\ writes \in runnable' =>
           /\ writes \notin notified'
           /\ next_value'[<<"resource_release", u>>] = signal'[<<"resource_release", u>>]
  BY <1>2, <1>3, <1>4 DEF ReleaseOK
<1>8. QED
  BY <1>2, <1>5, <1>6, <1>7 DEF ReleaseOK

\* The list goes into the signal: nothing that is there is written over.
LEMMA ReleaseWrites ==
  ASSUME IInv, NEW u \in Units, ProcessReleaseResource(u), ReleaseOK(u)
  PROVE  ReleaseOK(u)'
<1> DEFINE release == <<"resource_release", u>>
           writes == <<"processReleaseResource", u>>
<1>1. /\ writes \in runnable /\ runnable' = runnable \ {writes}
      /\ UNCHANGED <<signal, notified, holding, ins_map, taken>>
      /\ release_list'[u] = {} /\ next_value'[release] = release_list[u]
      /\ next_value'[<<"resource_allocate", u>>] = next_value[<<"resource_allocate", u>>]
  <2>1. release \in Signals /\ next_value = [s \in Signals |-> next_value[s]]
    BY DEF Signals, UnitSignals, IInv, KernelOK
  <2>2. release_list \in [Units -> SUBSET Nat]
    BY DEF IInv, StateOK
  <2>3. QED
    BY <2>1, <2>2 DEF ProcessReleaseResource, Run, Write, NotifyNobody, pipeline, tables,
                      history
<1>2. writes \notin notified /\ next_value[release] = signal[release]
  BY <1>1 DEF ReleaseOK
<1>3. Coming(u) = {} /\ Coming(u)' = release_list[u] /\ Arrived(u)' = Arrived(u)
  BY <1>1, <1>2 DEF Coming, Arrived, ReleaseOK, Carried
<1>4. Ahead(u) \subseteq Ahead(u)' /\ Carried(u)' = signal[release] \cup release_list[u]
  BY <1>1, <1>3 DEF Ahead, Carried
<1>5. \A p \in ins_map'[u] : p.ins_id \in Ahead(u)' \cup Arrived(u)'
  BY <1>1, <1>3, <1>4 DEF ReleaseOK
<1>6. <<"resource_allocate", u>> \in Changed' => next_value[<<"resource_allocate", u>>].ins_id \in holding[u]
  <2>1. <<"resource_allocate", u>> \in Changed' => <<"resource_allocate", u>> \in Changed
    BY <1>1 DEF Changed
  <2>2. QED
    BY <1>1, <2>1 DEF ReleaseOK
<1>7. <<"processUnitResourceAllocate", u>> \in runnable' =>
        next_value'[<<"resource_allocate", u>>].ins_id \in Ahead(u)'
  BY <1>1, <1>4 DEF ReleaseOK
<1>8. IdsOf(taken)' = IdsOf(taken)
  BY <1>1 DEF IdsOf
<1>9. /\ holding'[u] \cap release_list'[u] = {}
      /\ (holding'[u] \cup release_list'[u]) \cap Carried(u)' = {}
      /\ holding'[u] \cup release_list'[u] \cup Carried(u)' \subseteq IdsOf(taken)'
  BY <1>1, <1>4, <1>8 DEF ReleaseOK, Carried
<1> HIDE DEF Ahead, Arrived, Carried
<1>10. QED
  BY <1>1, <1>5, <1>6, <1>7, <1>9 DEF ReleaseOK

\* A booking that arrives still has its release ahead of it.
LEMMA ReleaseAllocate ==
  ASSUME IInv, BInv, NEW u \in Units, ProcessUnitResourceAllocate(u), ReleaseOK(u)
  PROVE  ReleaseOK(u)'
<1> DEFINE new == signal[<<"resource_allocate", u>>]
           allocate == <<"processUnitResourceAllocate", u>>
<1>1. /\ allocate \in runnable /\ runnable' = runnable \ {allocate}
      /\ UNCHANGED <<signal, next_value, holding, release_list, taken>>
      /\ \/ notified' = notified
         \/ notified' = notified \cup {<<"processUnitResourceConflict", u>>}
  BY DEF ProcessUnitResourceAllocate, Run, WriteNothing, Notify, NotifyNobody, unit, pipeline,
         history
<1>2. new.ins_id \in Ahead(u)
  BY <1>1 DEF ReleaseOK, BInv, BookingOK
<1>3. ins_map'[u] \subseteq ins_map[u] \cup {new}
  BY DEF ProcessUnitResourceAllocate, tables, IInv, StateOK
<1>4. /\ Carried(u)' = Carried(u) /\ Arrived(u)' = Arrived(u) /\ Ahead(u)' = Ahead(u)
      /\ Changed' = Changed /\ IdsOf(taken)' = IdsOf(taken)
      /\ <<"processReleaseResource", u>> \in Pending' <=> <<"processReleaseResource", u>> \in Pending
  BY <1>1 DEF Carried, Coming, Arrived, Ahead, Pending, Changed, IdsOf
<1> HIDE DEF new, Ahead, Arrived, Carried
<1>5. \A p \in ins_map'[u] : p.ins_id \in Ahead(u)' \cup Arrived(u)'
  BY <1>2, <1>3, <1>4 DEF ReleaseOK
<1>6. QED
  BY <1>1, <1>4, <1>5 DEF ReleaseOK

\* What has arrived is freed.
LEMMA ReleaseFreesArrived ==
  ASSUME IInv, NEW u \in Units, ProcessUnitResourceRelease(u), ReleaseOK(u)
  PROVE  ReleaseOK(u)'
<1>1. /\ runnable' = runnable \ {<<"processUnitResourceRelease", u>>}
      /\ UNCHANGED <<signal, next_value, holding, release_list, taken>>
      /\ \/ notified' = notified
         \/ notified' = notified \cup {<<"processUnitResourceConflict", u>>}
  BY ReleaseFrame DEF unit, pipeline, history
<1>2. \A p \in ins_map'[u] :
        p \in ins_map[u] /\ p.ins_id \notin signal[<<"resource_release", u>>]
  <2> DEFINE freed == {p \in ins_map[u] : p.ins_id \in signal[<<"resource_release", u>>]}
             rest == ins_map[u] \ freed
  <2>1. \/ freed = {} /\ UNCHANGED ins_map
        \/ ins_map' = [ins_map EXCEPT ![u] = rest]
    BY Zenon DEF ProcessUnitResourceRelease, tables
  <2>2. ins_map \in [Units -> SUBSET Payload]
    BY DEF IInv, StateOK
  <2>3. ins_map'[u] \subseteq rest
    BY <2>1, <2>2
  <2>4. QED
    BY <2>3
<1>3. /\ Carried(u)' = Carried(u) /\ Ahead(u)' = Ahead(u)
      /\ Changed' = Changed /\ IdsOf(taken)' = IdsOf(taken)
      /\ <<"processReleaseResource", u>> \in Pending' <=> <<"processReleaseResource", u>> \in Pending
  BY <1>1 DEF Carried, Coming, Ahead, Pending, Changed, IdsOf
<1>4. \A p \in ins_map'[u] : p.ins_id \in Ahead(u)'
  BY <1>2, <1>3 DEF ReleaseOK, Arrived
<1> HIDE DEF Ahead, Arrived, Carried
<1>5. QED
  BY <1>1, <1>3, <1>4 DEF ReleaseOK

\* A release joins a list that is not about to be written out in this delta cycle.
LEMMA ReleaseJoins ==
  ASSUME IInv, ~ joined', NEW u \in Units, NEW id \in holding[u], ReleaseResource(u, id),
         ReleaseOK(u)
  PROVE  ReleaseOK(u)'
<1> DEFINE writes == <<"processReleaseResource", u>>
<1>1. /\ writes \notin runnable /\ notified' = notified \cup {writes}
      /\ UNCHANGED <<runnable, signal, next_value, ins_map, taken>>
  BY DEF ReleaseResource, Notify, tables
<1>2. /\ holding'[u] = holding[u] \ {id} /\ release_list'[u] = release_list[u] \cup {id}
  BY DEF ReleaseResource, ReleaseList, IInv, StateOK
<1>3. /\ Carried(u)' = Carried(u) /\ Arrived(u)' = Arrived(u) /\ Ahead(u) \subseteq Ahead(u)'
      /\ Changed' = Changed /\ IdsOf(taken)' = IdsOf(taken) /\ writes \in Pending'
  BY <1>1, <1>2 DEF Carried, Coming, Arrived, Ahead, Pending, Changed, IdsOf
<1> HIDE DEF Ahead, Arrived, Carried
<1>4. /\ \A p \in ins_map'[u] : p.ins_id \in Ahead(u)' \cup Arrived(u)'
      /\ <<"processUnitResourceAllocate", u>> \in runnable' =>
           next_value'[<<"resource_allocate", u>>].ins_id \in Ahead(u)'
  BY <1>1, <1>3 DEF ReleaseOK
<1>5. <<"resource_allocate", u>> \in Changed' =>
        \/ next_value'[<<"resource_allocate", u>>].ins_id \in holding'[u]
        \/ /\ next_value'[<<"resource_allocate", u>>].ins_id \in release_list'[u]
           /\ writes \notin runnable'
  BY <1>1, <1>2, <1>3 DEF ReleaseOK
<1>6. /\ holding'[u] \cap release_list'[u] = {}
      /\ (holding'[u] \cup release_list'[u]) \cap Carried(u)' = {}
      /\ holding'[u] \cup release_list'[u] \cup Carried(u)' \subseteq IdsOf(taken)'
  BY <1>2, <1>3 DEF ReleaseOK
<1>7. QED
  BY <1>1, <1>3, <1>4, <1>5, <1>6 DEF ReleaseOK

\* What has joined a list that waits is not forgotten.
LEMMA JoinedStays ==
  ASSUME [Next]_vars, joined
  PROVE  joined'
<1>1. CASE UNCHANGED vars
  BY <1>1 DEF vars, history
<1>2. CASE DeltaCycle \/ AdvanceTime
  BY <1>2 DEF DeltaCycle, AdvanceTime, history
<1>3. CASE CoreProcess
  BY <1>3 DEF CoreProcess, DecodeIns, DecodeFinish, DecodeStalled, ProcessUpdatePC,
       ProcessIssue, ProcessStall, ProcessIdExEnable, ProcessFinishRun, ClockProcess,
       EndPosEdge, history
<1>4. ASSUME NEW u \in Units, UnitProcess(u)
      PROVE  joined'
  <2>1. CASE FsmProcess(u) \/ FsmProcessInput(u) \/ FsmProcessEnable(u) \/ FsmFinishExec(u)
    BY <2>1 DEF FsmProcess, FsmProcessInput, FsmProcessEnable, FsmFinishExec, AskNextPosEdge,
         history
  <2>2. ASSUME NEW scalars, NEW free, Execute(u, scalars, free)
        PROVE  joined'
    BY <2>2 DEF Execute
  <2>3. CASE CheckInst(u)
    BY <2>3 DEF CheckInst, history
  <2>4. CASE ProcessIdFinish(u) \/ ProcessReleaseResource(u) \/ UnitProcessFinishRun(u)
    BY <2>4 DEF ProcessIdFinish, ProcessReleaseResource, UnitProcessFinishRun, history
  <2>5. CASE \/ ProcessUnitResourceAllocate(u) \/ ProcessUnitResourceRelease(u)
             \/ ProcessUnitResourceConflict(u)
    BY <2>5 DEF ProcessUnitResourceAllocate, ProcessUnitResourceRelease,
         ProcessUnitResourceConflict, history
  <2>6. QED
    BY <1>4, <2>1, <2>2, <2>3, <2>4, <2>5 DEF UnitProcess
<1>5. ASSUME NEW u \in Units, Pipeline(u)
      PROVE  joined'
  BY <1>5 DEF Pipeline, ReadyForNextExecute, ReleaseResource, FinishInstruction, history
<1>6. QED
  BY <1>1, <1>2, <1>3, <1>4, <1>5 DEF Next, Kernel

\* Every step keeps what is said of the releases of a unit.
LEMMA ReleaseOKStep ==
  ASSUME IInv, BInv, ~ joined', [Next]_vars, NEW u \in Units, ReleaseOK(u)
  PROVE  ReleaseOK(u)'
<1>1. CASE UNCHANGED vars
  <2>1. Untouched(u)
    BY <1>1 DEF vars, kernel, unit, pipeline, tables, history, Untouched, IdsOf
  <2>2. QED
    BY <2>1, SameRelease
<1>2. CASE Next
  BY <1>2, TouchingStep, SameRelease, ReleaseDelta, ReleaseTime, ReleaseExecute, ReleaseWrites,
     ReleaseAllocate, ReleaseFreesArrived, ReleaseJoins
<1>3. QED
  BY <1>1, <1>2

\* At first there is nothing to release.
LEMMA NothingToRelease ==
  ASSUME Init, ~ PeriodIsOne, NEW u \in Units
  PROVE  ReleaseOK(u)
<1>1. /\ runnable = {} /\ next_value = signal /\ signal = [s \in Signals |-> InitialValue(s)]
      /\ release_list[u] = {} /\ holding[u] = {} /\ ins_map[u] = {}
  BY DEF Init
<1>2. signal[<<"resource_release", u>>] = {}
  <2>1. <<"resource_release", u>> \in Signals
    BY DEF Signals, UnitSignals
  <2>2. InitialValue(<<"resource_release", u>>) = {}
    BY Zenon DEF InitialValue
  <2>3. QED
    BY <1>1, <2>1, <2>2
<1>3. Changed = {} /\ Carried(u) = {}
  BY <1>1, <1>2 DEF Changed, Carried
<1>4. QED
  BY <1>1, <1>3 DEF ReleaseOK

\* What a conflict handler has in its table is held by an instruction of its unit, or
\* its release is on the way (execute_unit.cpp:75-83, conflict_handler.cpp:27-56): no
\* booking stays for ever, unless a release has joined a list that waits, which a kernel
\* that runs methods before threads excludes.  The period must be longer than 1 ns.
THEOREM NoReleaseLostHolds ==
  ASSUME ~ PeriodIsOne
  PROVE  Spec => []NoReleaseLost
<1> DEFINE RInv == ~ joined => \A u \in Units : ReleaseOK(u)
<1>1. Init => RInv
  BY NothingToRelease
<1>2. IInv /\ BInv /\ RInv /\ [Next]_vars => RInv'
  BY ReleaseOKStep, JoinedStays
<1>3. RInv => NoReleaseLost
  <2>1. ASSUME NEW u \in Units, ReleaseOK(u), NEW p \in ins_map[u]
        PROVE  p.ins_id \in holding[u] \cup ReleaseUnderWay(u)
    <3>1. p.ins_id \in holding[u] \cup release_list[u] \cup Coming(u) \cup Arrived(u)
      BY <2>1 DEF ReleaseOK, Ahead
    <3>2. p.ins_id \in release_list[u] => <<"processReleaseResource", u>> \in runnable \cup notified
      BY <2>1 DEF ReleaseOK, Pending
    <3>3. QED
      BY <3>1, <3>2 DEF ReleaseUnderWay, Coming, Arrived
  <2>2. QED
    BY <2>1 DEF NoReleaseLost
<1> HIDE DEF RInv
<1>4. QED
  BY <1>1, <1>2, <1>3, BookInvariance, PTL DEF Spec

=============================================================================
