-------------------------- MODULE MCConflictHandler --------------------------
\* The constants ConflictHandler is model-checked with.
EXTENDS ConflictHandler

CONSTANTS m1, m2, f1, f2

Kind(unit, functor, path, read, write) ==
  [unit |-> unit, functor |-> functor, path |-> path, read |-> read, write |-> write]

Bus(type) == [type |-> type, id |-> 0]
Dedicated(id) == [type |-> "local_dedicated_data_path", id |-> id]

\* Transfers on every kind of data path, each of them with a predecessor that
\* writes what it reads, and an instruction of another unit.
TransferKinds ==
  {Kind("transfer", NoFunctor, Bus("intra_core_bus"), {m1}, {m2}),
   Kind("transfer", NoFunctor, Bus("intra_core_bus"), {m2}, {m1}),
   Kind("transfer", NoFunctor, Bus("inter_core_bus"), {}, {m1}),
   Kind("transfer", NoFunctor, Dedicated(1), {m1}, {m1}),
   Kind("transfer", NoFunctor, Dedicated(2), {m2}, {m2}),
   Kind("simd", f1, NoPath, {m1}, {m2})}

TwoMemories == {m1, m2}
TwoFunctors == {f1, f2}
TwoDedicated == {1, 2}

=============================================================================
