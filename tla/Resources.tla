------------------------------ MODULE Resources ------------------------------
(***************************************************************************)
(* The resource payload an instruction is checked and booked with          *)
(* (core/conflict/payload.h and .cpp, DataPathPayload of core/payload.h):  *)
(* which local memories it reads and writes, which SIMD or reduce functor  *)
(* it runs on, which data path of the transfer unit it uses.               *)
(*                                                                         *)
(* A MemoryBitmap is the set of its bits.  used_memory_id is not kept as a *)
(* field of its own: every function that sets a bit of read_memory_id or   *)
(* of write_memory_id sets the same bit of used_memory_id.  simd_functor_  *)
(* cfg and reduce_functor_cfg are one field, the one of the unit type.     *)
(***************************************************************************)
EXTENDS Integers

CONSTANTS
  Memories,      \* ids of the local memories
  Functors,      \* functor configurations of the SIMD and reduce units
  NoFunctor,     \* nullptr
  DedicatedIds   \* ids of the local dedicated data paths

ASSUME FunctorAssumption == NoFunctor \notin Functors
ASSUME DedicatedAssumption == DedicatedIds \subseteq Nat

ExecuteUnitType ==
  {"none", "scalar", "simd", "reduce", "transfer", "cim_compute",
   "cim_control", "control"}

-----------------------------------------------------------------------------
(***************************************************************************)
(* Data paths.                                                             *)
(***************************************************************************)
DataPathType ==
  {"none", "intra_core_bus", "inter_core_bus", "local_dedicated_data_path"}

\* The integral value of the enumeration.
TypeCode(type) ==
  CASE type = "none" -> 0
    [] type = "intra_core_bus" -> 1
    [] type = "inter_core_bus" -> 2
    [] OTHER -> 3

NoPath == [type |-> "none", id |-> 0]

\* Only a dedicated data path has an id of its own.
DataPath ==
  {[type |-> t, id |-> 0] :
      t \in {"none", "intra_core_bus", "inter_core_bus"}}
    \cup {[type |-> "local_dedicated_data_path", id |-> i] : i \in DedicatedIds}

\* (id << 2) | type, the key of data_path_resource_allocate_map_.
UniqueId(path) == path.id * 4 + TypeCode(path.type)

PathKeys == {UniqueId(path) : path \in DataPath}

PathConflict(path, other) ==
  /\ path.type = other.type
  /\ path.type = "local_dedicated_data_path" => path.id = other.id

-----------------------------------------------------------------------------
(***************************************************************************)
(* Payloads.                                                               *)
(***************************************************************************)
Payload ==
  [ins_id : Int, unit : ExecuteUnitType, functor : Functors \cup {NoFunctor},
   path : DataPath, read : SUBSET Memories, write : SUBSET Memories]

EmptyPayload(unit) ==
  [ins_id |-> -1, unit |-> unit, functor |-> NoFunctor, path |-> NoPath,
   read |-> {}, write |-> {}]

\* Mutant: an address in no local memory sets a bit beyond the bitmap.
PayloadOfUnresolved(kind, id) ==
  [ins_id |-> id, unit |-> kind.unit, functor |-> kind.functor,
   path |-> kind.path, read |-> kind.read \cup {-10}, write |-> kind.write]

\* The payload of an instruction of this kind.
PayloadOf(kind, id) ==
  [ins_id |-> id, unit |-> kind.unit, functor |-> kind.functor,
   path |-> kind.path, read |-> kind.read, write |-> kind.write]

Used(p) == p.read \cup p.write

Intersects(S, T) == S \cap T # {}

\* Mutant: functors of one unit may run together.
FunctorConflictNever(p, ins) == FALSE

\* Two functors of the SIMD unit, or of the reduce unit, never run together.
FunctorConflict(p, ins) ==
  /\ p.unit = ins.unit
  /\ p.unit \in {"simd", "reduce"}
  /\ p.functor # NoFunctor
  /\ ins.functor # NoFunctor
  /\ p.functor # ins.functor

(***************************************************************************)
(* conflictWithIns: an instruction of the same unit on the same data path  *)
(* follows p through the same stages in order, so only a read of what p    *)
(* will write counts; any other one must not share a memory with p.        *)
(***************************************************************************)
ConflictWithIns(p, ins) ==
  \/ FunctorConflict(p, ins)
  \/ IF p.unit = ins.unit /\ PathConflict(ins.path, p.path)
       THEN Intersects(p.write, ins.read)
       ELSE Intersects(Used(p), Used(ins))

\* operator+=: the sets are united, the functor and the path are replaced.
Plus(p, other) ==
  [p EXCEPT !.read = @ \cup other.read,
            !.write = @ \cup other.write,
            !.functor = other.functor,
            !.path = other.path]

(***************************************************************************)
(* What an instruction books of what it was checked with.  The SIMD unit   *)
(* books the memories of the vector inputs only: those of the scalar       *)
(* inputs, read while it issues, are left out (simd_unit.cpp).  Which of   *)
(* the memories read these are is not kept.                                *)
(***************************************************************************)
Booking(ins, scalars) == [ins EXCEPT !.read = @ \ scalars]

ScalarInputs(ins) == IF ins.unit = "simd" THEN SUBSET ins.read ELSE {{}}

-----------------------------------------------------------------------------
(***************************************************************************)
(* The tables of a conflict handler: the instructions booked, and for each *)
(* data path the union of those on it.                                     *)
(***************************************************************************)

\* The instructions of S on the data path with key k.
On(S, k) == {p \in S : UniqueId(p.path) = k}

\* Adding every payload of S to base in an order that ends with last.
AddAll(base, S, last) ==
  [base EXCEPT !.read = @ \cup UNION {p.read : p \in S},
               !.write = @ \cup UNION {p.write : p \in S},
               !.functor = last.functor,
               !.path = last.path]

\* Mutant: what is still booked is not added again.
PathMapAfterReset(paths, unit, freed, rest, last) ==
  [k \in PathKeys |-> IF On(freed, k) # {} THEN EmptyPayload(unit) ELSE paths[k]]

\* Mutant: the paths are not reset.
PathMapAfterAdd(paths, unit, freed, rest, last) == paths

(***************************************************************************)
(* The path map of unit after a release: the data paths of the erased      *)
(* instructions are reset, then everything still booked is added again, on *)
(* every path.  The order is that of an unordered_map: any instruction of  *)
(* a path may be its last one.                                             *)
(***************************************************************************)
PathMapAfter(paths, unit, freed, rest, last) ==
  [k \in PathKeys |->
     LET base == IF On(freed, k) # {} THEN EmptyPayload(unit) ELSE paths[k]
     IN  IF On(rest, k) = {} THEN base ELSE AddAll(base, On(rest, k), last[k])]

=============================================================================
