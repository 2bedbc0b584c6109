----------------------------- MODULE MCCoreIssue -----------------------------
\* The programs CoreIssue is model-checked with.
EXTENDS CoreIssue

CONSTANTS m1, m2, f1, f2

Ins(unitType, functor, path, read, write) ==
  [unit |-> unitType, functor |-> functor, path |-> path, read |-> read,
   write |-> write, inc |-> {1}]

Bus == [type |-> "intra_core_bus", id |-> 0]

Simd(read, write) == Ins("simd", f1, NoPath, read, write)
Transfer(read, write) == Ins("transfer", NoFunctor, Bus, read, write)

TwoUnits == {"simd", "transfer"}
TwoMemories == {m1, m2}
TwoFunctors == {f1, f2}

Jump(targets) ==
  [unit |-> "control", functor |-> NoFunctor, path |-> NoPath, read |-> {},
   write |-> {}, inc |-> targets]

\* A transfer that waits for what the SIMD unit writes, a branch, and a SIMD
\* instruction that waits for both.
RawProgram ==
  <<Simd({m1}, {m2}), Transfer({m2}, {m1}), Jump({1, 2}), Simd({m1}, {m1})>>

\* Transfers in a row, a loop over them, a SIMD instruction that waits for all of
\* them, and an end by a jump past it.
LoopProgram == <<Transfer({m1}, {m2}), Jump({-1, 1, 2}), Simd({m2}, {m1})>>

=============================================================================
