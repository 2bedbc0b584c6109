----------------------------- MODULE MCScalarUnit -----------------------------
(***************************************************************************)
(* A small instance of ScalarUnit: words of 5 bits, two memories of two    *)
(* words; one special register bound to a general one, one that is not.    *)
(***************************************************************************)
EXTENDS ScalarUnit, TLC

CONSTANTS m1, m2

TwoMemories == {m1, m2}
FourWords == 0 :> m1 @@ 1 :> m1 @@ 2 :> m2 @@ 3 :> m2

Specials ==
  {"cim_input_bit_width", "cim_output_bit_width", "activation_group_num", "group_input_step",
   "bit_sparse_meta_addr", "value_sparse_mask_addr", "simd_input_3_address",
   "simd_input_4_address", "vector_output_bit_width"} \cup {VectorWidths[k] : k \in 1 .. 4}

\* The two registers that a program moves often are general ones.
BoundSpecials == "activation_group_num" :> 2 @@ "simd_input_3_address" :> 3

Ins(op, funct, rs, rt, rd, imm) ==
  [op |-> op, funct |-> funct, rs |-> rs, rt |-> rt, rd |-> rd, re |-> rs, rf |-> rt, imm |-> imm,
   inputs |-> 3]

RI(funct, rs, rd, imm) == Ins("SC_RI", funct, rs, 0, rd, imm)
RR(funct, rs, rt, rd) == Ins("SC_RR", funct, rs, rt, rd, 0)
Load(rs, rd, imm) == Ins("SC_LD", "", rs, 0, rd, imm)
Store(rs, rt, imm) == Ins("SC_ST", "", rs, rt, 0, imm)
Other(op, rs, rt, rd) == Ins(op, "", rs, rt, rd, 0)

\* Stores and loads feed operands of a loop, whose counter is a register, and of
\* instructions of other units; register 0 is the base address.
LoopProgram ==
  <<Ins("G_LI", "", 0, 0, 1, 2),
    Ins("S_LI", "", 0, 0, "activation_group_num", 3),
    Ins("S_LI", "", 0, 0, "cim_input_bit_width", 8),
    RR("mul", 1, 2, 3),
    Store(0, 3, 0),
    Load(0, 2, 0),
    Other("CIM_MVM", 2, 3, 1),
    RI("sub", 1, 1, 1),
    Ins("GS_MOV", "", 1, 0, "vector_output_bit_width", 0),
    Ins("BGT", "", 1, 0, 0, -6),
    Other("VEC_OP", 1, 2, 3),
    Ins("SG_MOV", "", "activation_group_num", 0, 1, 0),
    RI("sra", 1, 1, 1),
    Store(0, 1, 2),
    RR("lt", 0, 1, 2),
    Load(0, 3, 2),
    Ins("BEQ", "", 3, 1, 0, 2),
    RI("or", 3, 3, 1),
    Other("MEM_CPY", 0, 3, 2)>>

=============================================================================
