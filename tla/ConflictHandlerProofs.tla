------------------------ MODULE ConflictHandlerProofs ------------------------
(***************************************************************************)
(* ConflictHandler is proved correct for any memories, functors, data      *)
(* paths, programs and unit: its path map is exact (PathMapExact), the     *)
(* conflict it reports is exact (ConflictExact), and with it no hazard is  *)
(* ever in flight (NoHazardInFlight), so that it implements Scoreboard.    *)
(*                                                                         *)
(* None of the three is inductive alone.  The path map keeps the functor   *)
(* of the last instruction added, so it is exact only if all of a path     *)
(* share one, which holds because no hazard is in flight; and no hazard is *)
(* in flight because the reported conflict is exact, which in turn rests   *)
(* on the path map.  IInv joins them.                                      *)
(***************************************************************************)
EXTENDS ConflictHandler, ResourcesProofs, TLAPS

HasFunctor == Unit \in {"simd", "reduce"}

\* What decode and issue guarantee of an instruction in flight.
InFlightOK ==
  \A p \in InFlight :
    /\ p.unit = Unit
    /\ p.functor = NoFunctor <=> ~ HasFunctor
    /\ p.ins_id # -1
    /\ p.ins_id <= resource_allocate.ins_id

\* The instruction on its way into the table is younger than all of it.
BookingIsYoungest ==
  "allocate" \in pending =>
    \A p \in unit_ins_resource_allocate_map : p.ins_id < resource_allocate.ins_id

\* The instruction in decode is younger than any that was issued.
NextOK ==
  /\ next_ins.unit = "none" => next_ins = Nothing
  /\ next_ins.unit # "none" =>
       /\ next_ins.ins_id = ins_id
       /\ resource_allocate.ins_id < ins_id
       /\ next_ins.functor = NoFunctor <=> next_ins.unit \notin {"simd", "reduce"}
  /\ resource_allocate.ins_id <= ins_id

\* Whatever changes the conflict also makes the method that computes it run.
ConflictFresh == "conflict" \notin pending => (conflict <=> UnitConflict)

IInv ==
  /\ TypeOK
  /\ InFlightOK
  /\ BookingIsYoungest
  /\ NextOK
  /\ ConflictFresh
  /\ PathMapExact
  /\ NoHazardInFlight

-----------------------------------------------------------------------------
(***************************************************************************)
(* Lemmas about payloads.                                                  *)
(***************************************************************************)

\* Nothing conflicts with the payload an empty decode stage shows.
LEMMA NothingConflicts ==
  \A p \in Payload : p.unit # "none" => ~ ConflictWithIns(p, Nothing)
BY DEF ConflictWithIns, FunctorConflict, Nothing, EmptyPayload, Intersects, Used, Payload

\* The operators of the abstract specification are those of this one.
LEMMA SameConflict ==
  \A p, q : Abstract!ConflictWithIns(p, q) <=> ConflictWithIns(p, q)
BY DEF Abstract!ConflictWithIns, ConflictWithIns, Abstract!FunctorConflict, FunctorConflict,
       Abstract!PathConflict, PathConflict, Abstract!Intersects, Intersects,
       Abstract!Used, Used

\* The path map is exact if each of its entries is.
LEMMA ExactEntries ==
  PathMapExact <=>
    \A k \in PathKeys : Exact(Unit, On(unit_ins_resource_allocate_map, k),
                              data_path_resource_allocate_map[k])
BY DEF PathMapExact, Exact

\* The conflict computed from the unions is that of the instructions
\* (conflict_handler.cpp:58-64).
LEMMA UnitConflictExact ==
  ASSUME TypeOK, PathMapExact, \A p \in unit_ins_resource_allocate_map : p.unit = Unit
  PROVE  UnitConflict <=>
           \/ Unit = next_ins.unit /\ ~ ready
           \/ \E p \in unit_ins_resource_allocate_map : ConflictWithIns(p, next_ins)
<1>1. unit_ins_resource_allocate_map \in SUBSET Payload
  BY DEF TypeOK
<1>2. (\E k \in PathKeys : ConflictWithIns(data_path_resource_allocate_map[k], next_ins))
        <=> \E p \in unit_ins_resource_allocate_map : ConflictWithIns(p, next_ins)
  BY <1>1, ExactEntries, PathsConflict
<1>3. QED
  BY <1>2 DEF UnitConflict

-----------------------------------------------------------------------------
(***************************************************************************)
(* The steps.                                                              *)
(***************************************************************************)
\* The reset tables satisfy the invariant.
LEMMA InitOK == Init => IInv
<1> SUFFICES ASSUME Init PROVE IInv
  OBVIOUS
<1> USE DEF Init
<1>1. Nothing \in Payload /\ EmptyPayload(Unit) \in Payload
  BY EmptyIsPayload, UnitAssumption DEF Nothing, ExecuteUnitType
<1>2. TypeOK
  BY <1>1 DEF TypeOK
<1>3. InFlight = {}
  BY DEF InFlight
<1>4. InFlightOK /\ BookingIsYoungest /\ NoHazardInFlight
  BY <1>3 DEF InFlightOK, BookingIsYoungest, NoHazardInFlight, Abstract!NoHazard
<1>5. NextOK
  BY DEF NextOK, Nothing, EmptyPayload
<1>6. PathMapExact
  BY DEF PathMapExact, On, EmptyPayload
<1>7. ConflictFresh
  <2>1. ~ UnitConflict
    BY <1>2, <1>6, UnitConflictExact, UnitAssumption DEF Nothing, EmptyPayload
  <2>2. QED
    BY <2>1 DEF ConflictFresh
<1>8. QED
  BY <1>2, <1>4, <1>5, <1>6, <1>7 DEF IInv

\* Steps that change neither the tables nor what is in flight keep what is said
\* about them.
LEMMA TablesUnchanged ==
  ASSUME IInv, UNCHANGED maps, UNCHANGED resource_allocate,
         ("allocate" \in pending) <=> ("allocate" \in pending')
  PROVE  PathMapExact' /\ NoHazardInFlight' /\ InFlightOK' /\ BookingIsYoungest'
<1>1. InFlight' = InFlight
  BY DEF InFlight, maps
<1>2. PathMapExact'
  BY DEF IInv, PathMapExact, On, maps
<1>3. NoHazardInFlight'
  BY <1>1 DEF IInv, NoHazardInFlight, Abstract!NoHazard
<1>4. InFlightOK'
  BY <1>1 DEF IInv, InFlightOK
<1>5. BookingIsYoungest'
  BY DEF IInv, BookingIsYoungest, maps
<1>6. QED
  BY <1>2, <1>3, <1>4, <1>5

\* Decoding keeps the invariant: the new instruction is the youngest and the conflict
\* is computed again.
LEMMA DecodeStep == ASSUME IInv, NEW kind \in Kinds, Decode(kind) PROVE IInv'
<1> USE DEF Decode
<1>1. PayloadOf(kind, ins_id + 1) \in Payload
  BY KindsAssumption DEF PayloadOf, Payload, IInv, TypeOK
<1>2. TypeOK'
  BY <1>1 DEF IInv, TypeOK, maps
<1>3. PathMapExact' /\ NoHazardInFlight' /\ InFlightOK' /\ BookingIsYoungest'
  BY TablesUnchanged
<1>4. NextOK'
  BY KindsAssumption DEF IInv, TypeOK, NextOK, PayloadOf, Payload
<1>5. ConflictFresh'
  BY DEF ConflictFresh
<1>6. QED
  BY <1>2, <1>3, <1>4, <1>5 DEF IInv

\* Becoming ready keeps the invariant: the conflict is computed again.
LEMMA ReadyStep == ASSUME IInv, ReadyForNextExecute PROVE IInv'
<1> USE DEF ReadyForNextExecute
<1>1. TypeOK'
  BY DEF IInv, TypeOK, maps
<1>2. PathMapExact' /\ NoHazardInFlight' /\ InFlightOK' /\ BookingIsYoungest'
  BY TablesUnchanged
<1>3. NextOK' /\ ConflictFresh'
  BY DEF IInv, NextOK, ConflictFresh
<1>4. QED
  BY <1>1, <1>2, <1>3 DEF IInv

\* Writing resource_release_ keeps the invariant: the tables change only later.
LEMMA ReleaseResourceStep ==
  ASSUME IInv, NEW ids \in SUBSET BookedIds, ReleaseResource(ids)
  PROVE  IInv'
<1> USE DEF ReleaseResource
<1>1. ids \in SUBSET Int
  BY DEF BookedIds, IInv, TypeOK, Payload
<1>2. TypeOK'
  BY <1>1 DEF IInv, TypeOK, maps
<1>3. PathMapExact' /\ NoHazardInFlight' /\ InFlightOK' /\ BookingIsYoungest'
  BY TablesUnchanged
<1>4. NextOK'
  BY DEF IInv, NextOK
<1>5. ConflictFresh'
  BY DEF IInv, ConflictFresh, UnitConflict, maps
<1>6. QED
  BY <1>2, <1>3, <1>4, <1>5 DEF IInv

\* Computing the conflict makes it fresh.
LEMMA ConflictStep == ASSUME IInv, ProcessUnitResourceConflict PROVE IInv'
<1> USE DEF ProcessUnitResourceConflict
<1>1. TypeOK'
  BY DEF IInv, TypeOK, maps, UnitConflict
<1>2. PathMapExact' /\ NoHazardInFlight' /\ InFlightOK' /\ BookingIsYoungest'
  BY TablesUnchanged
<1>3. NextOK'
  BY DEF IInv, NextOK
<1>4. ConflictFresh'
  BY DEF ConflictFresh, UnitConflict, maps
<1>5. QED
  BY <1>1, <1>2, <1>3, <1>4 DEF IInv

\* An instruction of another unit leaves decode: nothing is left to conflict with.
LEMMA IssueElsewhereStep == ASSUME IInv, IssueElsewhere PROVE IInv'
<1> USE DEF IssueElsewhere
<1>1. Nothing \in Payload
  BY EmptyIsPayload DEF Nothing, ExecuteUnitType
<1>2. TypeOK'
  BY <1>1 DEF IInv, TypeOK, maps
<1>3. PathMapExact' /\ NoHazardInFlight' /\ InFlightOK' /\ BookingIsYoungest'
  BY TablesUnchanged
<1>4. NextOK'
  BY DEF IInv, NextOK, Nothing, EmptyPayload
<1>5. ~ UnitConflict'
  <2>1. \A k \in PathKeys : ~ ConflictWithIns(data_path_resource_allocate_map[k], Nothing)
    BY NothingConflicts, UnitAssumption DEF IInv, TypeOK, PathMapExact
  <2>2. Unit # Nothing.unit
    BY UnitAssumption DEF Nothing, EmptyPayload
  <2>3. QED
    BY <2>1, <2>2 DEF UnitConflict, maps
<1>6. ConflictFresh'
  BY <1>5 DEF ConflictFresh
<1>7. QED
  BY <1>2, <1>3, <1>4, <1>6 DEF IInv

(***************************************************************************)
(* The instruction that is issued conflicts with nothing in flight: the    *)
(* methods have run, so the reported conflict is that of the path map,     *)
(* which is that of the instructions booked.                               *)
(***************************************************************************)
LEMMA IssueStep ==
  ASSUME IInv, NEW scalars \in ScalarInputs(next_ins), Issue(scalars)
  PROVE  IInv'
<1> USE DEF Issue
<1> DEFINE booked == unit_ins_resource_allocate_map
           new == Booking(next_ins, scalars)
<1>1. /\ Nothing \in Payload
      /\ next_ins \in Payload
  BY EmptyIsPayload DEF Nothing, ExecuteUnitType, IInv, TypeOK
<1>2. /\ new \in Payload
      /\ new.ins_id = next_ins.ins_id
      /\ new.unit = Unit
      /\ new.functor = next_ins.functor
      /\ resource_allocate' = new
      /\ \A p : ~ ConflictWithIns(p, next_ins) => ~ ConflictWithIns(p, new)
  BY <1>1, BookingIsLess
<1> HIDE DEF new
<1>3. TypeOK'
  BY <1>1, <1>2 DEF IInv, TypeOK, maps
<1>4. InFlight = booked /\ InFlight' = booked \cup {new}
  BY <1>2 DEF InFlight, maps
<1>5. Unit # "none" /\ new.ins_id \in Int /\ new.ins_id # -1
  BY <1>2, UnitAssumption DEF IInv, TypeOK, Payload, NextOK
<1>6. \A p \in booked : p.unit = Unit /\ p.ins_id < new.ins_id
  BY <1>2, <1>4, <1>5 DEF IInv, InFlightOK, NextOK, TypeOK, Payload
<1>7. \A p \in booked : ~ ConflictWithIns(p, new)
  <2>1. ~ UnitConflict
    BY DEF IInv, ConflictFresh
  <2>2. QED
    BY <1>2, <2>1, <1>6, UnitConflictExact DEF IInv
<1>8. PathMapExact'
  BY DEF IInv, PathMapExact, On, maps
<1>9. NoHazardInFlight'
  <2>1. ASSUME NEW p \in booked, NEW q \in booked, p.ins_id < q.ins_id
        PROVE  ~ ConflictWithIns(p, q)
    BY <2>1, <1>4, SameConflict DEF IInv, NoHazardInFlight, Abstract!NoHazard
  <2>2. \A q \in booked : ~ (new.ins_id < q.ins_id)
    BY <1>5, <1>6 DEF IInv, TypeOK, Payload
  <2>3. ~ (new.ins_id < new.ins_id)
    BY <1>5
  <2>4. QED
    BY <1>4, <1>7, <2>1, <2>2, <2>3, SameConflict DEF NoHazardInFlight, Abstract!NoHazard
<1>10. InFlightOK'
  <2>1. \A p \in booked : (p.functor = NoFunctor <=> ~ HasFunctor) /\ p.ins_id # -1
    BY <1>4 DEF IInv, InFlightOK
  <2>2. new.functor = NoFunctor <=> ~ HasFunctor
    BY <1>2, <1>5 DEF IInv, NextOK, HasFunctor
  <2>3. \A p \in booked : p.ins_id <= new.ins_id
    BY <1>5, <1>6 DEF IInv, TypeOK, Payload
  <2>4. QED
    BY <1>2, <1>4, <1>5, <1>6, <2>1, <2>2, <2>3 DEF InFlightOK
<1>11. BookingIsYoungest'
  BY <1>2, <1>6 DEF BookingIsYoungest, maps
<1>12. NextOK'
  BY <1>2, <1>5 DEF IInv, NextOK, TypeOK, Nothing, EmptyPayload
<1>13. ConflictFresh'
  BY DEF ConflictFresh
<1>14. QED
  BY <1>3, <1>8, <1>9, <1>10, <1>11, <1>12, <1>13 DEF IInv

(***************************************************************************)
(* The methods that keep the tables.                                       *)
(***************************************************************************)
\* Booking keeps the path map exact: the payloads of a path share its functor.
LEMMA AllocateStep == ASSUME IInv, ProcessUnitResourceAllocate PROVE IInv'
<1> USE DEF ProcessUnitResourceAllocate
<1> DEFINE booked == unit_ins_resource_allocate_map
           new == resource_allocate
           paths == data_path_resource_allocate_map
<1>1. /\ booked \in SUBSET Payload
      /\ new \in Payload
      /\ paths \in [PathKeys -> Payload]
      /\ UniqueId(new.path) \in PathKeys
  BY PathsHaveKeys DEF IInv, TypeOK
<1>2. InFlight = booked \cup {new}
  BY DEF InFlight
<1>3. new.ins_id # -1 /\ ~ AlreadyBooked(new)
  <2>1. \A p \in booked : p.ins_id \in Int /\ p.ins_id < new.ins_id
    BY <1>1 DEF IInv, BookingIsYoungest, Payload
  <2>2. \A p \in booked : p.ins_id # new.ins_id
    BY <2>1, <1>1 DEF Payload
  <2>3. QED
    BY <2>2, <1>2 DEF IInv, InFlightOK, AlreadyBooked
<1>4. /\ booked' = booked \cup {new}
      /\ paths' = [paths EXCEPT ![UniqueId(new.path)] = Plus(@, new)]
      /\ pending' = (pending \ {"allocate"}) \cup {"conflict"}
  BY <1>3
<1>5. Plus(paths[UniqueId(new.path)], new) \in Payload
  BY <1>1, PlusIsPayload
<1>6. TypeOK'
  <2>1. paths' \in [PathKeys -> Payload]
    BY <1>1, <1>4, <1>5
  <2>2. QED
    BY <2>1, <1>1, <1>4 DEF IInv, TypeOK
<1>7. InFlight' = InFlight
  BY <1>2, <1>4 DEF InFlight
<1>8. NoHazardInFlight' /\ InFlightOK'
  BY <1>7 DEF IInv, NoHazardInFlight, Abstract!NoHazard, InFlightOK
<1>9. BookingIsYoungest' /\ NextOK' /\ ConflictFresh'
  BY <1>4 DEF IInv, BookingIsYoungest, NextOK, ConflictFresh
<1>10. PathMapExact'
  <2>1. ASSUME NEW p \in booked
        PROVE  p.functor = new.functor
    <3>1. p.ins_id < new.ins_id
      BY DEF IInv, BookingIsYoungest
    <3>2. ~ ConflictWithIns(p, new)
      BY <3>1, <1>2, SameConflict DEF IInv, NoHazardInFlight, Abstract!NoHazard
    <3>3. /\ p.unit = Unit /\ new.unit = Unit
          /\ p.functor = NoFunctor <=> ~ HasFunctor
          /\ new.functor = NoFunctor <=> ~ HasFunctor
      BY <1>2 DEF IInv, InFlightOK
    <3>4. QED
      BY <3>2, <3>3 DEF ConflictWithIns, FunctorConflict, HasFunctor
  <2>2. \A k \in PathKeys : Exact(Unit, On(booked, k), paths[k])
    BY ExactEntries DEF IInv
  <2>3. \A k \in PathKeys : Exact(Unit, On(booked', k), paths'[k])
    BY <1>1, <1>4, <2>1, <2>2, AllocationExact
  <2>4. QED
    BY <2>3 DEF PathMapExact, Exact, On
<1>11. QED
  BY <1>6, <1>8, <1>9, <1>10 DEF IInv

\* So does a release, whatever order the rest is added again in.
LEMMA ReleaseStep == ASSUME IInv, ProcessUnitResourceRelease PROVE IInv'
<1> DEFINE booked == unit_ins_resource_allocate_map
           paths == data_path_resource_allocate_map
           freed == {p \in booked : p.ins_id \in resource_release}
           rest == booked \ freed
<1>1. /\ booked \in SUBSET Payload
      /\ paths \in [PathKeys -> Payload]
      /\ UNCHANGED <<resource_allocate, resource_release, ready, conflict, next_ins, ins_id>>
      /\ ("allocate" \in pending) <=> ("allocate" \in pending')
  BY DEF IInv, TypeOK, ProcessUnitResourceRelease
<1>2. NextOK'
  BY <1>1 DEF IInv, NextOK
<1>3. CASE freed = {}
  <2>1. UNCHANGED maps /\ pending' = pending \ {"release"}
    BY <1>3 DEF ProcessUnitResourceRelease
  <2>2. TypeOK' /\ ConflictFresh'
    BY <2>1, <1>1 DEF IInv, TypeOK, ConflictFresh, UnitConflict, maps
  <2>3. QED
    BY <2>1, <2>2, <1>1, <1>2, TablesUnchanged DEF IInv
<1>4. CASE freed # {}
  <2>1. PICK last \in [{k \in PathKeys : On(rest, k) # {}} -> rest] :
          /\ \A k \in PathKeys : On(rest, k) # {} => last[k] \in On(rest, k)
          /\ paths' = PathMapAfter(paths, Unit, freed, rest, last)
    BY <1>4 DEF ProcessUnitResourceRelease
  <2>2. booked' = rest /\ pending' = (pending \ {"release"}) \cup {"conflict"}
    BY <1>4 DEF ProcessUnitResourceRelease
  <2>3. \A k \in PathKeys : Exact(Unit, On(booked, k), paths[k])
    BY ExactEntries DEF IInv
  <2>4. ASSUME NEW k \in PathKeys
        PROVE  paths'[k] \in Payload /\ Exact(Unit, On(rest, k), paths'[k])
    <3>1. Unit \in ExecuteUnitType /\ freed \in SUBSET booked /\ rest \in SUBSET booked
      BY UnitAssumption DEF ExecuteUnitType
    <3>2. On(rest, k) # {} => last[k] \in On(rest, k)
      BY <2>1
    <3> HIDE DEF freed
    <3>3. QED
      BY <1>1, <2>1, <2>3, <3>1, <3>2, ReleaseExact
  <2>5. paths' \in [PathKeys -> Payload]
    BY <2>1, <2>4 DEF PathMapAfter
  <2>6. TypeOK'
    BY <2>2, <2>5, <1>1 DEF IInv, TypeOK
  <2>7. PathMapExact'
    BY <2>2, <2>4 DEF PathMapExact, Exact, On
  <2>8. InFlight' \subseteq InFlight
    BY <1>1, <2>2 DEF InFlight
  <2>9. NoHazardInFlight' /\ InFlightOK'
    BY <2>8, <1>1 DEF IInv, NoHazardInFlight, Abstract!NoHazard, InFlightOK
  <2>10. BookingIsYoungest'
    BY <1>1, <2>2 DEF IInv, BookingIsYoungest
  <2>11. ConflictFresh'
    BY <2>2 DEF ConflictFresh
  <2>12. QED
    BY <1>2, <2>6, <2>7, <2>9, <2>10, <2>11 DEF IInv
<1>5. QED
  BY <1>3, <1>4

\* Every step keeps the invariant.
LEMMA Inductive == IInv /\ [Next]_vars => IInv'
<1> SUFFICES ASSUME IInv, [Next]_vars PROVE IInv'
  OBVIOUS
<1>1. CASE UNCHANGED vars
  <2>1. TypeOK' /\ NextOK' /\ ConflictFresh'
    BY <1>1 DEF IInv, TypeOK, NextOK, ConflictFresh, UnitConflict, vars, maps
  <2>2. QED
    BY <1>1, <2>1, TablesUnchanged DEF IInv, vars, maps
<1>2. QED
  BY <1>1, DecodeStep, IssueStep, IssueElsewhereStep, ReadyStep, ReleaseResourceStep,
     AllocateStep, ReleaseStep, ConflictStep DEF Next

-----------------------------------------------------------------------------
(***************************************************************************)
(* The theorems.                                                           *)
(***************************************************************************)

\* The inductive invariant.
THEOREM Invariance == Spec => []IInv
BY InitOK, Inductive, PTL DEF Spec

\* Every variable keeps its type (conflict_handler.h: the members and ports).
THEOREM TypeCorrect == Spec => []TypeOK
<1>1. IInv => TypeOK
  BY DEF IInv
<1>2. QED
  BY <1>1, Invariance, PTL

\* Resetting and re-adding after a release leaves each path with exactly what is
\* still in flight on it (conflict_handler.cpp: processUnitResourceRelease).
THEOREM PathMapIsExact == Spec => []PathMapExact
<1>1. IInv => PathMapExact
  BY DEF IInv
<1>2. QED
  BY <1>1, Invariance, PTL

\* The reported conflict is exact once the methods have run: no instruction waits
\* without a reason, none is let through in spite of one (conflict_handler.cpp:
\* processUnitResourceConflict).
THEOREM ConflictIsExact == Spec => []ConflictExact
<1>1. IInv => ConflictExact
  <2> SUFFICES ASSUME IInv, pending = {}
               PROVE  conflict <=>
                        \/ Unit = next_ins.unit /\ ~ ready
                        \/ \E p \in unit_ins_resource_allocate_map : ConflictWithIns(p, next_ins)
    BY DEF ConflictExact
  <2>1. \A p \in unit_ins_resource_allocate_map : p.unit = Unit
    BY DEF IInv, InFlightOK, InFlight
  <2>2. QED
    BY <2>1, UnitConflictExact DEF IInv, ConflictFresh
<1>2. QED
  BY <1>1, Invariance, PTL

\* No two instructions in flight in a unit conflict, in program order.
THEOREM HazardFreedom == Spec => []NoHazardInFlight
<1>1. IInv => NoHazardInFlight
  BY DEF IInv
<1>2. QED
  BY <1>1, Invariance, PTL

\* The payloads of the abstract specification are those of this one.
LEMMA SamePayload == Abstract!Payload = Payload
BY DEF Abstract!Payload, Payload, Abstract!ExecuteUnitType, ExecuteUnitType,
       Abstract!DataPath, DataPath

\* The handler with its tables and signals implements the abstract scoreboard.
THEOREM Implements == Spec => AbstractSpec
<1>1. Init => Abstract!Init
  BY DEF Init, Abstract!Init, InFlight, Nothing, EmptyPayload
<1>2. IInv /\ [Next]_vars => [Abstract!Next]_(Abstract!vars)
  <2> SUFFICES ASSUME IInv, [Next]_vars PROVE [Abstract!Next]_(Abstract!vars)
    OBVIOUS
  <2> DEFINE booked == unit_ins_resource_allocate_map
  <2>1. ASSUME NEW scalars \in ScalarInputs(next_ins), Issue(scalars)
        PROVE  Abstract!Next
    <3> DEFINE new == Booking(next_ins, scalars)
    <3>1. next_ins \in Payload /\ resource_allocate \in Payload /\ Unit # "none"
      BY UnitAssumption DEF IInv, TypeOK
    <3>2. /\ new \in Payload
          /\ new.ins_id = next_ins.ins_id
          /\ \A p : ~ ConflictWithIns(p, next_ins) => ~ ConflictWithIns(p, new)
      BY <3>1, BookingIsLess
    <3>3. resource_allocate' = new
      BY <2>1 DEF Issue
    <3> HIDE DEF new
    <3>4. InFlight = booked /\ InFlight' = booked \cup {new}
      BY <2>1, <3>3 DEF Issue, InFlight, maps
    <3>5. new.ins_id > resource_allocate.ins_id
      BY <2>1, <3>1, <3>2 DEF Issue, IInv, NextOK, TypeOK, Payload
    <3>6. \A p \in booked : ~ ConflictWithIns(p, next_ins)
      BY <2>1, UnitConflictExact DEF Issue, IInv, ConflictFresh, InFlightOK, InFlight
    <3>7. Abstract!Book(new)
      BY <3>2, <3>3, <3>4, <3>5, <3>6, SamePayload, SameConflict DEF Abstract!Book
    <3>8. QED
      BY <3>4, <3>7 DEF Abstract!Next
  <2>2. CASE ProcessUnitResourceRelease
    <3> DEFINE freed == {p \in booked : p.ins_id \in resource_release}
    <3>1. CASE freed = {}
      BY <2>2, <3>1 DEF ProcessUnitResourceRelease, maps, InFlight, Abstract!vars
    <3>2. CASE freed # {}
      <4>1. booked' = booked \ freed /\ resource_allocate' = resource_allocate
            /\ (("allocate" \in pending) <=> ("allocate" \in pending'))
        BY <2>2, <3>2 DEF ProcessUnitResourceRelease
      <4>2. "allocate" \in pending => resource_allocate \notin freed
        BY DEF IInv, BookingIsYoungest, TypeOK, Payload
      <4>3. InFlight' = InFlight \ freed /\ freed \subseteq InFlight
        BY <4>1, <4>2 DEF InFlight
      <4>4. Abstract!Free(freed)
        BY <3>2, <4>1, <4>3 DEF Abstract!Free
      <4>5. QED
        BY <4>3, <4>4 DEF Abstract!Next
    <3>3. QED
      BY <3>1, <3>2
  <2>3. CASE ProcessUnitResourceAllocate
    <3>1. CASE resource_allocate.ins_id # -1 /\ ~ AlreadyBooked(resource_allocate)
      BY <2>3, <3>1 DEF ProcessUnitResourceAllocate, InFlight, Abstract!vars
    <3>2. CASE ~ (resource_allocate.ins_id # -1 /\ ~ AlreadyBooked(resource_allocate))
      <4>1. resource_allocate \in InFlight /\ resource_allocate.ins_id # -1
        BY <2>3 DEF ProcessUnitResourceAllocate, InFlight, IInv, InFlightOK
      <4>2. PICK p \in booked : p.ins_id = resource_allocate.ins_id
        BY <3>2, <4>1 DEF AlreadyBooked
      <4>3. p.ins_id < resource_allocate.ins_id /\ resource_allocate.ins_id \in Int
        BY <2>3, <4>2 DEF ProcessUnitResourceAllocate, IInv, BookingIsYoungest, TypeOK, Payload
      <4>4. QED
        BY <4>2, <4>3
    <3>3. QED
      BY <3>1, <3>2
  <2>4. ASSUME \/ \E kind \in Kinds : Decode(kind)
               \/ IssueElsewhere
               \/ ReadyForNextExecute
               \/ \E ids \in (SUBSET BookedIds) \ {{}} : ReleaseResource(ids)
               \/ ProcessUnitResourceConflict
               \/ UNCHANGED vars
        PROVE  UNCHANGED Abstract!vars
    BY <2>4 DEF Decode, IssueElsewhere, ReadyForNextExecute, ReleaseResource,
                ProcessUnitResourceConflict, vars, maps, InFlight, Abstract!vars
  <2>5. QED
    BY <2>1, <2>2, <2>3, <2>4 DEF Next
<1>3. QED
  BY <1>1, <1>2, Invariance, PTL DEF Spec, AbstractSpec, Abstract!Spec

=============================================================================
