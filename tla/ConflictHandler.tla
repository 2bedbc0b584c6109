--------------------------- MODULE ConflictHandler ---------------------------
(***************************************************************************)
(* The conflict handler of one execution unit (core/conflict/              *)
(* conflict_handler.cpp): it books what the unit's instructions use when   *)
(* the unit writes resource_allocate_, frees it when the unit writes       *)
(* resource_release_, and tells the core whether the instruction in decode *)
(* must wait.  Its three SC_METHODs are the actions ProcessUnitResource... *)
(* they run, in any order, some time after the signal or event they are    *)
(* sensitive to: pending is the set of those still to run.                 *)
(*                                                                         *)
(* The rest of the core is reduced to what the handler can see of it:      *)
(* Decode, Issue and IssueElsewhere for the decode stage of core.cpp,      *)
(* ReadyForNextExecute and ReleaseResource for the unit (execute_unit.cpp).*)
(***************************************************************************)
EXTENDS Resources

CONSTANTS
  Unit,      \* execute_unit_type_
  Kinds,     \* instructions the programs are made of: payloads without an id
  MaxIns     \* bound on the number of instructions decoded

\* What decoder_v2.cpp puts in a payload: every SIMD and reduce instruction has
\* a functor (one without is not issued), only transfers use a data path.
ASSUME KindsAssumption ==
  \A k \in Kinds :
    /\ k \in [unit : ExecuteUnitType \ {"none"},
              functor : Functors \cup {NoFunctor}, path : DataPath,
              read : SUBSET Memories, write : SUBSET Memories]
    /\ k.functor = NoFunctor <=> k.unit \notin {"simd", "reduce"}
    /\ k.path = NoPath <=> k.unit # "transfer"

ASSUME UnitAssumption ==
  Unit \in {"scalar", "simd", "reduce", "transfer", "cim_compute", "cim_control"}

ASSUME MaxInsAssumption == MaxIns \in Nat

VARIABLES
  unit_ins_resource_allocate_map,  \* the payloads booked (each one under its own ins_id)
  data_path_resource_allocate_map, \* PathKeys -> their union, per data path
  resource_allocate,               \* signals of the unit ...
  resource_release,                \* ... (the set of the ids in the list)
  ready,
  conflict,                        \* conflict_, read by the stall logic
  next_ins,                        \* *next_ins_resource_allocate_
  ins_id,                          \* the decoder's instruction counter
  pending                          \* methods made runnable and not yet run

vars == <<unit_ins_resource_allocate_map, data_path_resource_allocate_map,
          resource_allocate, resource_release, ready, conflict, next_ins,
          ins_id, pending>>

maps == <<unit_ins_resource_allocate_map, data_path_resource_allocate_map>>

Nothing == EmptyPayload("none")

(***************************************************************************)
(* A key of the path map that was never booked is the same as one that has *)
(* been reset: neither conflicts with anything.                            *)
(***************************************************************************)
Init ==
  /\ unit_ins_resource_allocate_map = {}
  /\ data_path_resource_allocate_map = [k \in PathKeys |-> EmptyPayload(Unit)]
  /\ resource_allocate = Nothing
  /\ resource_release = {}
  /\ ready = TRUE
  /\ conflict = FALSE
  /\ next_ins = Nothing
  /\ ins_id = 0
  /\ pending = {}

-----------------------------------------------------------------------------
(***************************************************************************)
(* The handler.                                                            *)
(***************************************************************************)
AlreadyBooked(p) ==
  \E q \in unit_ins_resource_allocate_map : q.ins_id = p.ins_id

ProcessUnitResourceAllocate ==
  /\ "allocate" \in pending
  /\ IF resource_allocate.ins_id # -1 /\ ~ AlreadyBooked(resource_allocate)
       THEN /\ unit_ins_resource_allocate_map' =
                 unit_ins_resource_allocate_map \cup {resource_allocate}
            /\ data_path_resource_allocate_map' =
                 [data_path_resource_allocate_map EXCEPT
                    ![UniqueId(resource_allocate.path)] = Plus(@, resource_allocate)]
            /\ pending' = (pending \ {"allocate"}) \cup {"conflict"}
       ELSE /\ pending' = pending \ {"allocate"}
            /\ UNCHANGED maps
  /\ UNCHANGED <<resource_allocate, resource_release, ready, conflict, next_ins, ins_id>>

ProcessUnitResourceRelease ==
  LET freed == {p \in unit_ins_resource_allocate_map : p.ins_id \in resource_release}
      rest  == unit_ins_resource_allocate_map \ freed
  IN  /\ "release" \in pending
      /\ IF freed # {}
           THEN /\ unit_ins_resource_allocate_map' = rest
                /\ \E last \in [{k \in PathKeys : On(rest, k) # {}} -> rest] :
                     /\ \A k \in DOMAIN last : last[k] \in On(rest, k)
                     /\ data_path_resource_allocate_map' =
                          PathMapAfter(data_path_resource_allocate_map, Unit, freed, rest, last)
                /\ pending' = (pending \ {"release"}) \cup {"conflict"}
           ELSE /\ pending' = pending \ {"release"}
                /\ UNCHANGED maps
      /\ UNCHANGED <<resource_allocate, resource_release, ready, conflict, next_ins, ins_id>>

\* Mutant: a unit that is not ready is no conflict.
UnitConflictNotReady ==
  \E k \in PathKeys : ConflictWithIns(data_path_resource_allocate_map[k], next_ins)

\* Mutant: only the unit itself counts, not what it has booked.
UnitConflictUnit == Unit = next_ins.unit /\ ~ ready

UnitConflict ==
  \/ Unit = next_ins.unit /\ ~ ready
  \/ \E k \in PathKeys : ConflictWithIns(data_path_resource_allocate_map[k], next_ins)

ProcessUnitResourceConflict ==
  /\ "conflict" \in pending
  /\ conflict' = UnitConflict
  /\ pending' = pending \ {"conflict"}
  /\ UNCHANGED <<maps, resource_allocate, resource_release, ready, next_ins, ins_id>>

-----------------------------------------------------------------------------
(***************************************************************************)
(* The core around it.                                                     *)
(***************************************************************************)
Decode(kind) ==
  /\ next_ins.unit = "none"
  /\ ins_id < MaxIns
  /\ ins_id' = ins_id + 1
  /\ next_ins' = PayloadOf(kind, ins_id + 1)
  /\ pending' = pending \cup {"conflict"}
  /\ UNCHANGED <<maps, resource_allocate, resource_release, ready, conflict>>

(***************************************************************************)
(* The clock edge at which the instruction leaves decode: every method has *)
(* run and no handler reports a conflict (this one does not; the others    *)
(* may, then the edge changes nothing here).  The unit takes the           *)
(* instruction, is no longer ready and writes resource_allocate_.          *)
(***************************************************************************)
Issue(scalars) ==
  /\ next_ins.unit = Unit
  /\ pending = {}
  /\ ~ conflict
  /\ next_ins' = Nothing
  /\ ready' = FALSE
  /\ resource_allocate' = Booking(next_ins, scalars)
  /\ pending' = {"allocate", "conflict"}
  /\ UNCHANGED <<maps, resource_release, conflict, ins_id>>

\* The same edge for an instruction of another unit.
IssueElsewhere ==
  /\ next_ins.unit \notin {Unit, "none"}
  /\ pending = {}
  /\ ~ conflict
  /\ next_ins' = Nothing
  /\ UNCHANGED <<maps, resource_allocate, resource_release, ready, conflict, ins_id, pending>>

ReadyForNextExecute ==
  /\ ~ ready
  /\ ready' = TRUE
  /\ pending' = pending \cup {"conflict"}
  /\ UNCHANGED <<maps, resource_allocate, resource_release, conflict, next_ins, ins_id>>

\* The stages of the unit release instructions of different data paths, and of
\* one delta cycle, together or one by one.
ReleaseResource(ids) ==
  /\ "release" \notin pending
  /\ \A id \in ids : \E p \in unit_ins_resource_allocate_map : p.ins_id = id
  /\ resource_release' = ids
  /\ pending' = pending \cup {"release"}
  /\ UNCHANGED <<maps, resource_allocate, ready, conflict, next_ins, ins_id>>

BookedIds == {p.ins_id : p \in unit_ins_resource_allocate_map}

Next ==
  \/ \E kind \in Kinds : Decode(kind)
  \/ \E scalars \in ScalarInputs(next_ins) : Issue(scalars)
  \/ IssueElsewhere
  \/ ReadyForNextExecute
  \/ \E ids \in (SUBSET BookedIds) \ {{}} : ReleaseResource(ids)
  \/ ProcessUnitResourceAllocate
  \/ ProcessUnitResourceRelease
  \/ ProcessUnitResourceConflict

Spec == Init /\ [][Next]_vars

(***************************************************************************)
(* The kernel runs every runnable method, and a unit ends every instruction*)
(* it has begun: it becomes ready again and releases what it booked.       *)
(***************************************************************************)
Fairness ==
  /\ WF_vars(ProcessUnitResourceAllocate)
  /\ WF_vars(ProcessUnitResourceRelease)
  /\ WF_vars(ProcessUnitResourceConflict)
  /\ WF_vars(ReadyForNextExecute)
  /\ WF_vars(\E ids \in (SUBSET BookedIds) \ {{}} : ReleaseResource(ids))

FairSpec == Spec /\ Fairness

-----------------------------------------------------------------------------
\* The types of the tables, signals and counters.
TypeOK ==
  /\ unit_ins_resource_allocate_map \in SUBSET Payload
  /\ data_path_resource_allocate_map \in [PathKeys -> Payload]
  /\ resource_allocate \in Payload
  /\ resource_release \in SUBSET Int
  /\ ready \in BOOLEAN
  /\ conflict \in BOOLEAN
  /\ next_ins \in Payload
  /\ ins_id \in Nat
  /\ pending \in SUBSET {"allocate", "release", "conflict"}

\* Each entry of the path map is the union of what is booked on that path, with
\* the path and the functor all of it shares: nothing a release has freed is left
\* in it and nothing still in flight is lost (conflict_handler.cpp:39-56).
PathMapExact ==
  \A k \in PathKeys :
    LET here == On(unit_ins_resource_allocate_map, k)
        entry == data_path_resource_allocate_map[k]
    IN  /\ entry.unit = Unit
        /\ entry.read = UNION {p.read : p \in here}
        /\ entry.write = UNION {p.write : p \in here}
        /\ here = {} => entry.functor = NoFunctor /\ entry.path = NoPath
        /\ \A p \in here : entry.functor = p.functor /\ entry.path = p.path

\* The conflict the handler computes from the unions is exact: once its methods
\* have run, it is raised if and only if the unit is wanted and not ready or some
\* one instruction in flight conflicts with the one in decode.
ConflictExact ==
  pending = {} =>
    (conflict <=>
       \/ Unit = next_ins.unit /\ ~ ready
       \/ \E p \in unit_ins_resource_allocate_map : ConflictWithIns(p, next_ins))

\* The instructions that hold resources of this unit, the one whose booking is
\* under way included.
InFlight ==
  unit_ins_resource_allocate_map
    \cup (IF "allocate" \in pending THEN {resource_allocate} ELSE {})

\* A booking is abstractly made when the unit takes the instruction and ends
\* when the release is processed.
Abstract == INSTANCE Scoreboard
  WITH booked <- InFlight, lastBooked <- resource_allocate.ins_id

AbstractSpec == Abstract!Spec

\* Two instructions are in flight in the unit only if the younger one does not
\* read what the older one has still to write, runs on the same functor and
\* shares no memory with one on another data path.
NoHazardInFlight == Abstract!NoHazard

\* An instruction in decode is not held for ever: what it waits for ends, and
\* no trace of it stays in the tables.
StallEnds == conflict ~> ~ conflict

=============================================================================
