----------------------------- MODULE MCVectorUnit -----------------------------
(***************************************************************************)
(* Small instances of VectorUnit: a functor of two pipeline stages and two *)
(* elements, one of a single stage and one element.                        *)
(***************************************************************************)
EXTENDS VectorUnit, TLC

CONSTANTS m1, m2, m3, f1, f2

ThreeMemories == {m1, m2, m3}
TwoFunctors == {f1, f2}
StageCnts == f1 :> 2 @@ f2 :> 1
FunctorCnts == f1 :> 2 @@ f2 :> 1

Ins(functor, vectors, scalars, target, len, width) ==
  [functor |-> functor, vectors |-> vectors, scalars |-> scalars, write |-> target, len |-> len,
   write_batch_vector_len |-> width]

SequencesOfThree(S) == [1 .. 3 -> S]

\* For each functor an instruction of several batches; one that writes a memory it
\* reads, one with scalar inputs only, two with both kinds of inputs, of which one has no
\* elements.
MCSimdPrograms ==
  SequencesOfThree(
    {Ins(f1, <<m1, m2>>, <<>>, m3, 5, 1),
     Ins(f1, <<m1>>, <<>>, m1, 3, 1),
     Ins(f2, <<m1>>, <<m2>>, m3, 2, 1),
     Ins(f2, <<>>, <<m2, m2>>, m2, 2, 1),
     Ins(f1, <<m3>>, <<m1>>, m2, 0, 1)})

\* Writes of two and three outputs, with and without a rest at the end; one writes the
\* memory it reads.
MCReducePrograms ==
  SequencesOfThree(
    {Ins(f2, <<m1>>, <<>>, m2, 5, 2),
     Ins(f2, <<m2>>, <<>>, m3, 3, 3),
     Ins(f1, <<m1>>, <<>>, m1, 6, 2),
     Ins(f1, <<m1>>, <<>>, m3, 7, 3)})

=============================================================================
