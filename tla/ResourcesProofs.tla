--------------------------- MODULE ResourcesProofs ---------------------------
(***************************************************************************)
(* Lemmas about the operators of Resources that the proofs about a         *)
(* conflict handler (ConflictHandlerProofs) and about the conflict         *)
(* handlers of a core (CoreIssueProofs) share: the tables stay exact when  *)
(* an instruction is booked or released, and an exact table finds exactly  *)
(* the conflicts of the instructions in it.                                *)
(***************************************************************************)
EXTENDS Resources, TLAPS

-----------------------------------------------------------------------------
(***************************************************************************)
(* Payloads and data paths.                                                *)
(***************************************************************************)

\* Two data paths with the same key are the same (payload.h: getUniqueId).
LEMMA UniqueIdInjective ==
  \A a, b \in DataPath : UniqueId(a) = UniqueId(b) => a = b
<1> SUFFICES ASSUME NEW a \in DataPath, NEW b \in DataPath, UniqueId(a) = UniqueId(b)
             PROVE  a = b
  OBVIOUS
<1> DEFINE Shared == {[type |-> t, id |-> 0] :
                         t \in {"none", "intra_core_bus", "inter_core_bus"}}
<1>1. a.id \in Int /\ b.id \in Int
  BY DedicatedAssumption DEF DataPath
<1>2. ASSUME NEW p \in DataPath
      PROVE  p \in Shared \/ TypeCode(p.type) = 3
  BY DEF DataPath, TypeCode
<1>3. ASSUME NEW p \in Shared
      PROVE  p.id = 0 /\ TypeCode(p.type) \in 0 .. 2
  BY DEF TypeCode
<1>4. TypeCode(a.type) \in 0 .. 3 /\ TypeCode(b.type) \in 0 .. 3
  BY <1>2, <1>3
<1> HIDE DEF Shared
<1>5. a.id = b.id /\ TypeCode(a.type) = TypeCode(b.type)
  <2>1. \A x, y \in Int, s, t \in 0 .. 3 : x * 4 + s = y * 4 + t => x = y /\ s = t
    OBVIOUS
  <2>2. a.id * 4 + TypeCode(a.type) = b.id * 4 + TypeCode(b.type)
    BY DEF UniqueId
  <2>3. QED
    BY <1>1, <1>4, <2>1, <2>2
<1>6. a.type = b.type
  BY <1>5 DEF DataPath, TypeCode
<1>7. QED
  BY <1>5, <1>6 DEF DataPath

\* Every payload has a data path, and with it a key of the path map.
LEMMA PathsHaveKeys == \A p \in Payload : p.path \in DataPath /\ UniqueId(p.path) \in PathKeys
BY DEF Payload, PathKeys

\* The payload a path is reset to has the type of one.
LEMMA EmptyIsPayload == \A u \in ExecuteUnitType : EmptyPayload(u) \in Payload
BY DEF EmptyPayload, Payload, DataPath, NoPath

\* What operator+= (payload.cpp:73-89) does to each field.
LEMMA PlusIsPayload ==
  \A p, q \in Payload :
    /\ Plus(p, q) \in Payload
    /\ Plus(p, q).unit = p.unit
    /\ Plus(p, q).read = p.read \cup q.read
    /\ Plus(p, q).write = p.write \cup q.write
    /\ Plus(p, q).functor = q.functor
    /\ Plus(p, q).path = q.path
<1> TAKE p, q \in Payload
<1>1. Plus(p, q) \in Payload
  BY DEF Plus, Payload
<1>2. /\ Plus(p, q).unit = p.unit
      /\ Plus(p, q).read = p.read \cup q.read
      /\ Plus(p, q).write = p.write \cup q.write
      /\ Plus(p, q).functor = q.functor
      /\ Plus(p, q).path = q.path
  BY DEF Plus, Payload
<1>3. QED
  BY <1>1, <1>2

\* Booking less than was checked raises no conflict the check did not see.
LEMMA BookingIsLess ==
  ASSUME NEW ins \in Payload, NEW scalars \in ScalarInputs(ins)
  PROVE  /\ Booking(ins, scalars) \in Payload
         /\ Booking(ins, scalars).ins_id = ins.ins_id
         /\ Booking(ins, scalars).unit = ins.unit
         /\ Booking(ins, scalars).functor = ins.functor
         /\ \A p : ~ ConflictWithIns(p, ins) => ~ ConflictWithIns(p, Booking(ins, scalars))
<1> DEFINE new == Booking(ins, scalars)
<1>1. /\ new \in Payload
      /\ new.ins_id = ins.ins_id
      /\ new.unit = ins.unit
      /\ new.functor = ins.functor
      /\ new.path = ins.path
      /\ new.write = ins.write
      /\ new.read \subseteq ins.read
  BY DEF Booking, Payload
<1> HIDE DEF new
<1>2. ASSUME NEW p, ConflictWithIns(p, new)
      PROVE  ConflictWithIns(p, ins)
  <2>1. FunctorConflict(p, new) => FunctorConflict(p, ins)
    BY <1>1 DEF FunctorConflict
  <2>2. Intersects(p.write, new.read) => Intersects(p.write, ins.read)
    BY <1>1 DEF Intersects
  <2>3. Intersects(Used(p), Used(new)) => Intersects(Used(p), Used(ins))
    BY <1>1 DEF Intersects, Used
  <2>4. QED
    BY <1>1, <1>2, <2>1, <2>2, <2>3 DEF ConflictWithIns
<1>3. QED
  BY <1>1, <1>2 DEF new

-----------------------------------------------------------------------------
(***************************************************************************)
(* The path map of a unit.                                                 *)
(***************************************************************************)

\* An entry is the union of the payloads here on its path, with the functor and the
\* path that all of them share.
Exact(unit, here, entry) ==
  /\ entry.unit = unit
  /\ entry.read = UNION {p.read : p \in here}
  /\ entry.write = UNION {p.write : p \in here}
  /\ here = {} => entry.functor = NoFunctor /\ entry.path = NoPath
  /\ \A p \in here : entry.functor = p.functor /\ entry.path = p.path

\* The union of the payloads of a path conflicts with an instruction if and only if
\* one of the payloads does.
LEMMA EntryConflict ==
  ASSUME NEW unit, NEW here, NEW entry, Exact(unit, here, entry),
         \A p \in here : p.unit = unit, NEW n
  PROVE  ConflictWithIns(entry, n) <=> \E p \in here : ConflictWithIns(p, n)
<1>1. /\ entry.unit = unit
      /\ entry.read = UNION {p.read : p \in here}
      /\ entry.write = UNION {p.write : p \in here}
      /\ here = {} => entry.functor = NoFunctor /\ entry.path = NoPath
      /\ \A p \in here : entry.functor = p.functor /\ entry.path = p.path
  BY DEF Exact
<1>2. \A p \in here : p.unit = unit
  OBVIOUS
<1>3. CASE here = {}
  <2>1. entry.read = {} /\ entry.write = {} /\ entry.functor = NoFunctor
    BY <1>1, <1>3
  <2>2. ~ ConflictWithIns(entry, n)
    BY <2>1 DEF ConflictWithIns, FunctorConflict, Intersects, Used
  <2>3. QED
    BY <1>3, <2>2
<1>4. CASE here # {}
  <2>1. \A p \in here : FunctorConflict(entry, n) <=> FunctorConflict(p, n)
    BY <1>1, <1>2 DEF FunctorConflict
  <2>2. \A p \in here : entry.unit = p.unit /\ entry.path = p.path
    BY <1>1, <1>2
  <2>3. Intersects(entry.write, n.read) <=> \E p \in here : Intersects(p.write, n.read)
    BY <1>1 DEF Intersects
  <2>4. Intersects(Used(entry), Used(n)) <=> \E p \in here : Intersects(Used(p), Used(n))
    BY <1>1 DEF Intersects, Used
  <2>5. QED
    BY <1>4, <2>1, <2>2, <2>3, <2>4 DEF ConflictWithIns
<1>5. QED
  BY <1>3, <1>4

\* The same of all paths together: the conflict computed from the unions is that of
\* the instructions (conflict_handler.cpp:58-64).
LEMMA PathsConflict ==
  ASSUME NEW unit, NEW S \in SUBSET Payload, \A p \in S : p.unit = unit,
         NEW paths, \A k \in PathKeys : Exact(unit, On(S, k), paths[k]), NEW n
  PROVE  (\E k \in PathKeys : ConflictWithIns(paths[k], n))
           <=> \E p \in S : ConflictWithIns(p, n)
<1>1. ASSUME NEW k \in PathKeys
      PROVE  ConflictWithIns(paths[k], n) <=> \E p \in On(S, k) : ConflictWithIns(p, n)
  <2>1. \A p \in On(S, k) : p.unit = unit
    BY DEF On
  <2>2. QED
    BY <2>1, EntryConflict
<1>2. \A p \in S : UniqueId(p.path) \in PathKeys
  BY PathsHaveKeys
<1>3. QED
  BY <1>1, <1>2 DEF On

\* Booking an instruction keeps the path map exact, if it has the functor of those
\* booked (conflict_handler.cpp:27-37).
LEMMA AllocationExact ==
  ASSUME NEW unit, NEW S \in SUBSET Payload, NEW paths \in [PathKeys -> Payload],
         \A k \in PathKeys : Exact(unit, On(S, k), paths[k]),
         NEW new \in Payload, \A p \in S : p.functor = new.functor,
         NEW k \in PathKeys
  PROVE  Exact(unit, On(S \cup {new}, k), [paths EXCEPT ![UniqueId(new.path)] = Plus(@, new)][k])
<1> DEFINE after == [paths EXCEPT ![UniqueId(new.path)] = Plus(@, new)]
<1>1. /\ paths[k] \in Payload
      /\ paths[k].unit = unit
      /\ paths[k].read = UNION {p.read : p \in On(S, k)}
      /\ paths[k].write = UNION {p.write : p \in On(S, k)}
      /\ On(S, k) = {} => paths[k].functor = NoFunctor /\ paths[k].path = NoPath
      /\ \A p \in On(S, k) : paths[k].functor = p.functor /\ paths[k].path = p.path
  BY DEF Exact
<1>2. CASE k # UniqueId(new.path)
  <2>1. On(S \cup {new}, k) = On(S, k)
    BY <1>2 DEF On
  <2>2. after[k] = paths[k]
    BY <1>2
  <2>3. QED
    BY <2>1, <2>2
<1>3. CASE k = UniqueId(new.path)
  <2>1. On(S \cup {new}, k) = On(S, k) \cup {new}
    BY <1>3 DEF On
  <2>2. after[k] = Plus(paths[k], new)
    BY <1>3
  <2>3. /\ after[k].unit = paths[k].unit
        /\ after[k].read = paths[k].read \cup new.read
        /\ after[k].write = paths[k].write \cup new.write
        /\ after[k].functor = new.functor
        /\ after[k].path = new.path
    BY <1>1, <2>2, PlusIsPayload
  <2>4. UNION {p.read : p \in On(S \cup {new}, k)} = paths[k].read \cup new.read
    BY <1>1, <2>1
  <2>5. UNION {p.write : p \in On(S \cup {new}, k)} = paths[k].write \cup new.write
    BY <1>1, <2>1
  <2>6. \A p \in On(S, k) : p.path = new.path
    BY <1>3, UniqueIdInjective, PathsHaveKeys DEF On
  <2>7. \A p \in On(S, k) : p.functor = new.functor
    BY DEF On
  <2> HIDE DEF after
  <2>8. \A p \in On(S \cup {new}, k) : after[k].functor = p.functor /\ after[k].path = p.path
    BY <2>1, <2>3, <2>6, <2>7
  <2>9. QED
    BY <1>1, <2>1, <2>3, <2>4, <2>5, <2>8 DEF Exact, after
<1>4. QED
  BY <1>2, <1>3

\* An entry that keeps nothing but what is booked, and to which all of that is added
\* again, is the union of it.
LEMMA RebuiltExact ==
  ASSUME NEW unit, NEW here \in SUBSET Payload, NEW base \in Payload, base.unit = unit,
         base.read \subseteq UNION {p.read : p \in here},
         base.write \subseteq UNION {p.write : p \in here},
         here = {} => base.functor = NoFunctor /\ base.path = NoPath,
         NEW last, here # {} => last \in here,
         \A p, q \in here : p.functor = q.functor /\ p.path = q.path,
         NEW entry, entry = IF here = {} THEN base ELSE AddAll(base, here, last)
  PROVE  entry \in Payload /\ Exact(unit, here, entry)
<1>1. CASE here = {}
  <2>1. UNION {p.read : p \in here} = {} /\ UNION {p.write : p \in here} = {}
    BY <1>1
  <2>2. entry = base /\ base.read = {} /\ base.write = {}
    BY <1>1, <2>1
  <2>3. QED
    BY <1>1, <2>1, <2>2 DEF Exact
<1>2. CASE here # {}
  <2>1. last \in here /\ last \in Payload /\ entry = AddAll(base, here, last)
    BY <1>2
  <2>2. /\ UNION {p.read : p \in here} \in SUBSET Memories
        /\ UNION {p.write : p \in here} \in SUBSET Memories
    BY DEF Payload
  <2>3. /\ entry \in Payload
        /\ entry.unit = base.unit
        /\ entry.read = base.read \cup UNION {p.read : p \in here}
        /\ entry.write = base.write \cup UNION {p.write : p \in here}
        /\ entry.functor = last.functor
        /\ entry.path = last.path
    <3> DEFINE read == UNION {p.read : p \in here}
               write == UNION {p.write : p \in here}
    <3>1. entry = [base EXCEPT !.read = @ \cup read, !.write = @ \cup write,
                               !.functor = last.functor, !.path = last.path]
      BY <2>1 DEF AddAll
    <3>2. read \in SUBSET Memories /\ write \in SUBSET Memories
      BY <2>2
    <3> HIDE DEF read, write
    <3>3. /\ entry \in Payload
          /\ entry.unit = base.unit
          /\ entry.read = base.read \cup read
          /\ entry.write = base.write \cup write
          /\ entry.functor = last.functor
          /\ entry.path = last.path
      BY <2>1, <3>1, <3>2 DEF Payload
    <3>4. QED
      BY <3>3 DEF read, write
  <2>4. \A p \in here : p.functor = last.functor /\ p.path = last.path
    BY <2>1
  <2>5. /\ entry.read = UNION {p.read : p \in here}
        /\ entry.write = UNION {p.write : p \in here}
    BY <2>3
  <2>6. QED
    BY <1>2, <2>3, <2>4, <2>5 DEF Exact
<1>3. QED
  BY <1>1, <1>2

\* A release keeps the path map exact, whatever order the rest is added again in
\* (conflict_handler.cpp:39-56).
LEMMA ReleaseExact ==
  ASSUME NEW unit \in ExecuteUnitType, NEW S \in SUBSET Payload,
         NEW paths \in [PathKeys -> Payload],
         \A k \in PathKeys : Exact(unit, On(S, k), paths[k]),
         NEW freed \in SUBSET S, NEW rest \in SUBSET S, rest = S \ freed, NEW last,
         NEW k \in PathKeys, On(rest, k) # {} => last[k] \in On(rest, k)
  PROVE  /\ PathMapAfter(paths, unit, freed, rest, last)[k] \in Payload
         /\ Exact(unit, On(rest, k), PathMapAfter(paths, unit, freed, rest, last)[k])
<1> DEFINE base == IF On(freed, k) # {} THEN EmptyPayload(unit) ELSE paths[k]
           here == On(rest, k)
           after == PathMapAfter(paths, unit, freed, rest, last)[k]
<1>1. after = IF here = {} THEN base ELSE AddAll(base, here, last[k])
  BY DEF PathMapAfter
<1>2. /\ paths[k] \in Payload
      /\ paths[k].unit = unit
      /\ paths[k].read = UNION {p.read : p \in On(S, k)}
      /\ paths[k].write = UNION {p.write : p \in On(S, k)}
      /\ On(S, k) = {} => paths[k].functor = NoFunctor /\ paths[k].path = NoPath
      /\ \A p \in On(S, k) : paths[k].functor = p.functor /\ paths[k].path = p.path
  BY DEF Exact
<1>3. On(S, k) = On(freed, k) \cup here
  BY DEF On
<1>4. here \in SUBSET Payload
  BY DEF On
<1>5. /\ base \in Payload /\ base.unit = unit
      /\ base.read \subseteq UNION {p.read : p \in here}
      /\ base.write \subseteq UNION {p.write : p \in here}
      /\ here = {} => base.functor = NoFunctor /\ base.path = NoPath
  <2>1. CASE On(freed, k) # {}
    <3>1. EmptyPayload(unit) \in Payload
      BY EmptyIsPayload
    <3>2. QED
      BY <2>1, <3>1 DEF EmptyPayload
  <2>2. CASE On(freed, k) = {}
    <3>1. base = paths[k] /\ On(S, k) = here
      BY <2>2, <1>3
    <3> HIDE DEF base, here
    <3>2. base.read = UNION {p.read : p \in here} /\ base.write = UNION {p.write : p \in here}
      BY <3>1, <1>2
    <3>3. QED
      BY <3>1, <3>2, <1>2
  <2>3. QED
    BY <2>1, <2>2
<1>6. \A p, q \in here : p.functor = q.functor /\ p.path = q.path
  BY <1>2, <1>3
<1>7. here # {} => last[k] \in here
  OBVIOUS
<1> HIDE DEF base, here, after
<1>8. after \in Payload /\ Exact(unit, here, after)
  BY <1>1, <1>4, <1>5, <1>6, <1>7, RebuiltExact
<1>9. QED
  BY <1>8 DEF here, after

=============================================================================
