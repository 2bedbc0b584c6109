------------------------------ MODULE MCCimUnits ------------------------------
(***************************************************************************)
(* Small instances of CimUnits: two macro groups of one macro, three local *)
(* memories of different latency.                                          *)
(***************************************************************************)
EXTENDS CimUnits, TLC

CONSTANTS cim, m1, m2, m3

FourMemories == {cim, m1, m2, m3}
AccessTimes == cim :> 1 @@ m1 :> 1 @@ m2 :> 3 @@ m3 :> 1
OneMacro == 1 .. 1

\* sram_read, post_process, adder_tree, shift_adder, result_adder
ShortStages == <<1, 0, 1, 1, 1>>
LongResultAdder == <<1, 0, 1, 1, 2>>

Compute(input, groups, width, value_sparse, bit_sparse) ==
  [unit |-> "cim_compute", input |-> input, mask |-> m2, meta |-> m3,
   activation_group_num |-> groups, input_bit_width |-> width,
   value_sparse |-> value_sparse, bit_sparse |-> bit_sparse]

Control(op, mask_memory, output, groups, columns) ==
  [unit |-> "cim_control", op |-> op, mask |-> mask_memory, output |-> output,
   groups |-> groups, columns |-> columns]

Masked == Compute(m1, 2, 2, TRUE, FALSE)
WithMeta == Compute(m1, 1, 1, FALSE, TRUE)
Plain == Compute(m3, 2, 1, FALSE, FALSE)
SetBack == Control("set_activation", m1, m1, {1}, {1})
SetOne == Control("set_activation", m1, m1, {0}, {})
SetAll == Control("set_activation", m2, m1, {0, 1}, {})
Output == Control("only_output", m1, m2, {}, {})
OutputOfSum == Control("output_sum", m3, m1, {}, {})
OutputOfSumMove == Control("output_sum_move", m3, m3, {}, {})

\* All pairs, and what may overlap or come between three.  No instruction uses mask and
\* meta data both.
OneSparsePrograms ==
  [1 .. 2 -> {Masked, WithMeta, SetOne, SetAll, Output, OutputOfSum, OutputOfSumMove}]
    \cup {<<WithMeta, Masked, Plain>>, <<SetAll, Plain, SetOne>>, <<WithMeta, Plain, Output>>,
          <<SetAll, SetBack, Plain>>}

BothSparsePrograms == {<<Compute(m1, 2, 1, TRUE, TRUE)>>}

OutputPrograms == {<<Compute(m1, 2, 2, FALSE, FALSE), Control("only_output", m1, m2, {}, {})>>}

=============================================================================
