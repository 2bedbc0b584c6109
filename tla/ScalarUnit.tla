------------------------------ MODULE ScalarUnit ------------------------------
(***************************************************************************)
(* The registers of a core: DecoderV2 reads them, 1 ns before a clock edge *)
(* (core/decoder/decoder_v2.cpp), the scalar unit writes them when it      *)
(* executes (core/execute_unit/scalar_unit.cpp, core/reg_unit/reg_unit.cpp)*)
(* and its loads and stores stand in the queue of a memory behind accesses *)
(* of the other units (memory/memory.cpp).                                 *)
(*                                                                         *)
(* No scoreboard protects a register: the unit books nothing and is ready  *)
(* for the next instruction as soon as its one stage has begun.  What      *)
(* makes that right is time: all a scalar instruction does takes none,     *)
(* until the next time decode runs.  Zero-time steps come in any order;    *)
(* time goes on, edge to decode and decode to edge, when none is left.     *)
(*                                                                         *)
(* An address stands for the four bytes of a word.  Instructions of the    *)
(* other units are the operands they were given: their work is accesses.   *)
(***************************************************************************)
EXTENDS Integers, Sequences

CONSTANTS
  GeneralRegs, SpecialRegs,   \* ids of registers
  Binding,      \* special_bind_map_: general register of some special ones
  Memories,     \* local memories
  MemoryOf,     \* address of a word -> its memory
  WordBits,     \* width of a register, 32 in the code
  Program,      \* ins_list_: op, funct, register fields and imm; no global load or store
  MaxIns,       \* bound on the instructions decoded
  MaxOthers     \* bound on the accesses of other units

ASSUME BindingAssumption ==
  DOMAIN Binding \subseteq SpecialRegs /\ \A s \in DOMAIN Binding : Binding[s] \in GeneralRegs

ASSUME MemoriesAssumption == \A a \in DOMAIN MemoryOf : MemoryOf[a] \in Memories

VARIABLES
  phase,                        \* "decode", 1 ns before the edge, or "edge"
  ins_index, cur,               \* core.h: index, payload in decode or None
  ins_id,
  general_regs, special_regs,   \* reg_unit.h
  issue, execute,               \* the unit's threads
  queue, busy,                  \* per memory, access_queue_ and whether it waits
  memory,                       \* words
  others,                       \* accesses other units have asked for
  given,                        \* history: operands given to other units
  delayed,                      \* history: a scalar access had to queue
  ref                           \* history: what one instruction after the other would do

registers == <<general_regs, special_regs>>
front == <<ins_index, cur, ins_id, given, ref>>
memories == <<queue, busy, memory, others, delayed>>
vars == <<phase, front, registers, issue, execute, memories>>

Addresses == DOMAIN MemoryOf
None == [unit |-> "none"]
Idle == [at |-> "idle"]

-----------------------------------------------------------------------------
(***************************************************************************)
(* Words, and what the unit computes.  Division rounds towards zero; a     *)
(* division by zero or a shift by a negative number is undefined in the    *)
(* code and not in the programs.                                           *)
(***************************************************************************)
Wrap(x) == ((x + 2^(WordBits - 1)) % 2^WordBits) - 2^(WordBits - 1)

Truth(b) == IF b THEN 1 ELSE 0

Abs(x) == IF x < 0 THEN -x ELSE x
Quotient(a, b) == (IF (a < 0) = (b < 0) THEN 1 ELSE -1) * (Abs(a) \div Abs(b))

\* The bits of a word.
Bit(x, i) == ((x % 2^WordBits) \div 2^i) % 2

And(a, b) ==
  LET sum[i \in 0 .. WordBits] ==
        IF i = 0 THEN 0 ELSE sum[i - 1] + 2^(i - 1) * Bit(a, i - 1) * Bit(b, i - 1)
  IN  sum[WordBits]

\* executeAndWriteRegister, but for load and assign.
Alu(op, a, b) ==
  Wrap(CASE op = "add" -> a + b
         [] op = "sub" -> a - b
         [] op = "mul" -> a * b
         [] op = "div" -> Quotient(a, b)
         [] op = "mod" -> a - b * Quotient(a, b)
         [] op = "sll" -> a * 2^b
         [] op = "srl" -> (a % 2^WordBits) \div 2^b
         [] op = "sra" -> a \div 2^b
         [] op = "min" -> IF a < b THEN a ELSE b
         [] op = "max" -> IF a < b THEN b ELSE a
         [] op = "and" -> And(a, b)
         [] op = "or" -> a + b - And(a, b)
         [] op = "eq" -> Truth(a = b)
         [] op = "ne" -> Truth(a # b)
         [] op = "gt" -> Truth(a > b)
         [] op = "lt" -> Truth(a < b)
         [] op = "lui" -> b * 2^(WordBits \div 2))

-----------------------------------------------------------------------------
(***************************************************************************)
(* Registers.                                                              *)
(***************************************************************************)

\* Mutant: a bound special register is read where it is not kept.
ReadRegisterUnbound(id, special) == IF special THEN special_regs[id] ELSE general_regs[id]

ReadRegister(id, special) ==
  IF ~ special THEN general_regs[id]
  ELSE IF id \in DOMAIN Binding THEN general_regs[Binding[id]]
  ELSE special_regs[id]

\* Who writes asks for the binding first, and the register file does not.
WriteRegister(id, special, value) ==
  IF special
    THEN special_regs' = [special_regs EXCEPT ![id] = value] /\ UNCHANGED general_regs
    ELSE general_regs' = [general_regs EXCEPT ![id] = value] /\ UNCHANGED special_regs

-----------------------------------------------------------------------------
(***************************************************************************)
(* Decoding.  What is decoded has its operands as values.                  *)
(***************************************************************************)
ScalarPayload(ins, op, src1, src2) ==
  [unit |-> "scalar", inc |-> 1, op |-> op, src1 |-> src1, src2 |-> src2, offset |-> ins.imm,
   dst |-> ins.rd, special |-> ins.op \in {"S_LI", "GS_MOV"}, ins |-> ins]

DecodeScalarIns(ins) ==
  LET rs(special) == ReadRegister(ins.rs, special)
      rt == ReadRegister(ins.rt, FALSE)
  IN  CASE ins.op = "SC_RR" -> ScalarPayload(ins, ins.funct, rs(FALSE), rt)
        [] ins.op = "SC_RI" -> ScalarPayload(ins, ins.funct, rs(FALSE), ins.imm)
        [] ins.op \in {"SC_LD", "SC_LDG"} -> ScalarPayload(ins, "load", rs(FALSE), 0)
        [] ins.op \in {"SC_ST", "SC_STG"} -> ScalarPayload(ins, "store", rs(FALSE), rt)
        [] ins.op \in {"G_LI", "S_LI"} -> ScalarPayload(ins, "assign", ins.imm, 0)
        [] ins.op \in {"GS_MOV", "SG_MOV"} -> ScalarPayload(ins, "assign", rs(ins.op = "SG_MOV"), 0)

Branches(ins, a, b) ==
  \/ ins.op = "JMP"
  \/ ins.op = "BEQ" /\ a = b
  \/ ins.op = "BNE" /\ a # b
  \/ ins.op = "BGT" /\ a > b
  \/ ins.op = "BLT" /\ a < b

ControlPayload(ins, branch) ==
  [unit |-> "control", inc |-> IF branch THEN ins.imm ELSE 1, ins |-> ins]

\* WAIT and BARRIER do nothing.
DecodeControlIns(ins) ==
  ControlPayload(ins, Branches(ins, ReadRegister(ins.rs, FALSE), ReadRegister(ins.rt, FALSE)))

(***************************************************************************)
(* The instructions of the other units: the fields that name a general     *)
(* register, the special registers.                                        *)
(***************************************************************************)
VectorWidths == <<"vector_input_1_bit_width", "vector_input_2_bit_width",
                  "vector_input_3_bit_width", "vector_input_4_bit_width">>

OperandFields(ins) ==
  CASE ins.op = "CIM_MVM" -> <<ins.rs, ins.rt, ins.re>>
    [] ins.op = "CIM_CFG" -> <<ins.rs, ins.rt>>
    [] ins.op = "CIM_OUT" -> <<ins.rd, ins.rs, ins.rt>>
    [] ins.op = "VEC_OP" -> <<ins.rs, IF ins.inputs < 2 THEN ins.rs ELSE ins.rt, ins.rd, ins.re>>
    [] ins.op = "REDUCE" -> <<ins.rs, ins.rd, ins.rt>>
    [] ins.op = "MEM_CPY" -> <<ins.rs, ins.rd, ins.rt>>
    [] ins.op \in {"SEND", "RECV"} -> <<ins.rs, ins.rt, ins.rd, ins.re, ins.rf>>

OperandSpecials(ins) ==
  CASE ins.op = "CIM_MVM" ->
         <<"cim_input_bit_width", "activation_group_num", "group_input_step",
           "bit_sparse_meta_addr", "value_sparse_mask_addr">>
    [] ins.op = "CIM_OUT" -> <<"activation_group_num", "cim_output_bit_width">>
    [] ins.op = "VEC_OP" ->
         SubSeq(<<"simd_input_3_address", "simd_input_4_address">>, 1, ins.inputs - 2)
           \o SubSeq(VectorWidths, 1, ins.inputs) \o <<"vector_output_bit_width">>
    [] ins.op = "REDUCE" -> <<"vector_input_1_bit_width", "vector_output_bit_width">>
    [] OTHER -> <<>>

OtherPayload(ins, general, special) ==
  [unit |-> "other", inc |-> 1, operands |-> <<ins.op, general, special>>, ins |-> ins]

DecodeOtherIns(ins) ==
  LET fields == OperandFields(ins)
      specials == OperandSpecials(ins)
  IN  OtherPayload(ins, [k \in DOMAIN fields |-> ReadRegister(fields[k], FALSE)],
                        [k \in DOMAIN specials |-> ReadRegister(specials[k], TRUE)])

ScalarOps ==
  {"SC_RR", "SC_RI", "SC_LD", "SC_LDG", "SC_ST", "SC_STG", "G_LI", "S_LI", "GS_MOV", "SG_MOV"}
ControlOps == {"BEQ", "BNE", "BGT", "BLT", "JMP", "WAIT", "BARRIER"}

DecodeIns(ins) ==
  IF ins.op \in ScalarOps THEN DecodeScalarIns(ins)
  ELSE IF ins.op \in ControlOps THEN DecodeControlIns(ins)
  ELSE DecodeOtherIns(ins)

\* Programs name registers that exist; the file is indexed unchecked.
ASSUME ProgramAssumption ==
  \A i \in DOMAIN Program :
    LET ins == Program[i]
    IN  /\ ins.op \in ScalarOps \cup ControlOps =>
             /\ ins.op \notin {"SC_LDG", "SC_STG"}
             /\ ins.funct \notin {"load", "store", "assign"}
             /\ ins.rs \in IF ins.op = "SG_MOV" THEN SpecialRegs ELSE GeneralRegs
             /\ ins.rt \in GeneralRegs
             /\ ins.rd \in IF ins.op \in {"S_LI", "GS_MOV"} THEN SpecialRegs ELSE GeneralRegs
        /\ ins.op \notin ScalarOps \cup ControlOps =>
             /\ \A k \in DOMAIN OperandFields(ins) : OperandFields(ins)[k] \in GeneralRegs
             /\ \A k \in DOMAIN OperandSpecials(ins) : OperandSpecials(ins)[k] \in SpecialRegs

-----------------------------------------------------------------------------
(***************************************************************************)
(* The reference: the effect of an instruction on the registers, memory    *)
(* and program counter that doc/ISA.md describes.  A bound special         *)
(* register and its general one are one register.                          *)
(***************************************************************************)
General(id) == <<"general", id>>
Special(id) == IF id \in DOMAIN Binding THEN General(Binding[id]) ELSE <<"special", id>>

Registers == {General(id) : id \in GeneralRegs} \cup {Special(id) : id \in SpecialRegs}

\* The register an instruction writes and the value it gets.
Target(ins) == IF ins.op \in {"S_LI", "GS_MOV"} THEN Special(ins.rd) ELSE General(ins.rd)

Result(m, ins) ==
  CASE ins.op = "SC_RR" -> Alu(ins.funct, m.regs[General(ins.rs)], m.regs[General(ins.rt)])
    [] ins.op = "SC_RI" -> Alu(ins.funct, m.regs[General(ins.rs)], ins.imm)
    [] ins.op = "SC_LD" -> m.memory[m.regs[General(ins.rs)] + ins.imm]
    [] ins.op \in {"G_LI", "S_LI"} -> ins.imm
    [] ins.op = "GS_MOV" -> m.regs[General(ins.rs)]
    [] ins.op = "SG_MOV" -> m.regs[Special(ins.rs)]

Inc(m, ins) ==
  IF ins.op \in ControlOps /\ Branches(ins, m.regs[General(ins.rs)], m.regs[General(ins.rt)])
    THEN ins.imm ELSE 1

Operands(m, ins) ==
  <<ins.op, [k \in DOMAIN OperandFields(ins) |-> m.regs[General(OperandFields(ins)[k])]],
            [k \in DOMAIN OperandSpecials(ins) |-> m.regs[Special(OperandSpecials(ins)[k])]]>>

SequentialStep(m, ins) ==
  [pc |-> m.pc + Inc(m, ins),
   regs |-> IF ins.op \in ScalarOps \ {"SC_ST"}
              THEN [m.regs EXCEPT ![Target(ins)] = Result(m, ins)] ELSE m.regs,
   memory |-> IF ins.op = "SC_ST"
                THEN [m.memory EXCEPT ![m.regs[General(ins.rs)] + ins.imm] = m.regs[General(ins.rt)]]
                ELSE m.memory,
   given |-> IF ins.op \in ScalarOps \cup ControlOps THEN m.given
             ELSE Append(m.given, Operands(m, ins))]

\* The state of the core as the reference sees it.
Architecture ==
  [pc |-> ins_index,
   regs |-> [r \in Registers |-> IF r[1] = "general" THEN general_regs[r[2]] ELSE special_regs[r[2]]],
   memory |-> memory,
   given |-> given]

-----------------------------------------------------------------------------
Init ==
  /\ phase = "decode"
  /\ ins_index = 1 /\ cur = None /\ ins_id = 0
  /\ general_regs = [r \in GeneralRegs |-> 0]
  /\ special_regs = [r \in SpecialRegs |-> 0]
  /\ issue = None /\ execute = Idle
  /\ queue = [m \in Memories |-> <<>>] /\ busy = [m \in Memories |-> FALSE]
  /\ memory = [a \in Addresses |-> 0]
  /\ others = 0 /\ given = <<>> /\ delayed = FALSE
  /\ ref = Architecture

(***************************************************************************)
(* The core, twice a period.                                               *)
(***************************************************************************)
Decodes == cur = None /\ ins_index \in DOMAIN Program /\ ins_id < MaxIns

ProcessDecode ==
  /\ phase = "decode"
  /\ Decodes
  /\ cur' = DecodeIns(Program[ins_index])
  /\ ins_id' = ins_id + 1
  /\ ref' = SequentialStep(ref, Program[ins_index])
  /\ UNCHANGED <<phase, ins_index, given, registers, issue, execute, memories>>

\* The unit is not ready while its thread waits for its stage; what stalls another
\* unit is not modelled here, stall is any value then.
Stall(stall) ==
  \/ cur.unit = "scalar" /\ issue # None
  \/ cur.unit = "other" /\ stall

\* At the edge an instruction leaves decode, and the period ends that an instruction
\* without a store keeps its stage.
Edge(stall) ==
  LET goes == cur # None /\ ~ Stall(stall)
  IN  /\ phase = "decode"
      /\ ~ Decodes
      /\ phase' = "edge"
      /\ ins_index' = IF goes THEN ins_index + cur.inc ELSE ins_index
      /\ cur' = IF goes THEN None ELSE cur
      /\ issue' = IF goes /\ cur.unit = "scalar" THEN cur ELSE issue
      /\ given' = IF goes /\ cur.unit = "other" THEN Append(given, cur.operands) ELSE given
      /\ execute' = IF execute.at = "period" THEN Idle ELSE execute
      /\ UNCHANGED <<ins_id, ref, registers, memories>>

(***************************************************************************)
(* The threads of the unit.                                                *)
(***************************************************************************)
\* process: the stage is free.
StartExecute ==
  /\ phase = "edge"
  /\ issue # None
  /\ execute = Idle
  /\ execute' = [at |-> "run", payload |-> issue]
  /\ issue' = None
  /\ UNCHANGED <<phase, front, registers, memories>>

At(at) == [execute EXCEPT !.at = at]

\* executeInst, no access: the register is written at once.
ExecuteAtOnce ==
  LET p == execute.payload
      bound == p.special /\ p.dst \in DOMAIN Binding
  IN  /\ execute.at = "run"
      /\ p.op \notin {"load", "store"}
      /\ IF p.op = "assign"
           THEN WriteRegister(IF bound THEN Binding[p.dst] ELSE p.dst, p.special /\ ~ bound, p.src1)
           ELSE WriteRegister(p.dst, FALSE, Alu(p.op, p.src1, p.src2))
      /\ execute' = At("period")
      /\ UNCHANGED <<phase, front, issue, memories>>

Address(p) == p.src1 + p.offset

\* executeInst, load or store: the access joins the queue.  An address in no memory ends
\* the simulator.
RequestAccess ==
  LET m == MemoryOf[Address(execute.payload)]
  IN  /\ execute.at = "run"
      /\ execute.payload.op \in {"load", "store"}
      /\ Address(execute.payload) \in Addresses
      /\ queue' = [queue EXCEPT ![m] = Append(@, "scalar")]
      /\ delayed' = (delayed \/ busy[m] \/ queue[m] # <<>>)
      /\ execute' = At("access")
      /\ UNCHANGED <<phase, front, registers, issue, busy, memory, others>>

\* The access is over: a load writes its register, a store is done.
FinishLoad ==
  /\ execute.at = "answered"
  /\ execute.payload.op = "load"
  /\ WriteRegister(execute.payload.dst, FALSE, execute.data)
  /\ execute' = At("period")
  /\ UNCHANGED <<phase, front, issue, memories>>

\* Mutant: a store does not give its stage back.
FinishStoreBusy ==
  /\ execute.at = "answered"
  /\ execute.payload.op = "store"
  /\ execute' = At("stored")
  /\ UNCHANGED <<phase, front, registers, issue, memories>>

FinishStore ==
  /\ execute.at = "answered"
  /\ execute.payload.op = "store"
  /\ execute' = Idle
  /\ UNCHANGED <<phase, front, registers, issue, memories>>

(***************************************************************************)
(* A memory serves its queue; only accesses of other units take time.      *)
(***************************************************************************)
CanServe(m) == queue[m] # <<>> /\ ~ busy[m]

ServeScalar(m) ==
  LET p == execute.payload
  IN  /\ CanServe(m)
      /\ Head(queue[m]) = "scalar"
      /\ queue' = [queue EXCEPT ![m] = Tail(@)]
      /\ IF p.op = "load"
           THEN /\ execute' = [at |-> "answered", payload |-> p, data |-> memory[Address(p)]]
                /\ UNCHANGED memory
           ELSE /\ execute' = At("answered")
                /\ memory' = [memory EXCEPT ![Address(p)] = p.src2]
      /\ UNCHANGED <<phase, front, registers, issue, busy, others, delayed>>

ServeOther(m) ==
  /\ CanServe(m)
  /\ Head(queue[m]) = "other"
  /\ queue' = [queue EXCEPT ![m] = Tail(@)]
  /\ busy' = [busy EXCEPT ![m] = TRUE]
  /\ UNCHANGED <<phase, front, registers, issue, execute, memory, others, delayed>>

\* Latencies are whole periods.
EndAccess(m) ==
  /\ phase = "edge"
  /\ busy[m]
  /\ busy' = [busy EXCEPT ![m] = FALSE]
  /\ UNCHANGED <<phase, front, registers, issue, execute, queue, memory, others, delayed>>

\* Another unit asks for an access, to words that no scalar instruction uses.
OtherAccess(m) ==
  /\ phase = "edge"
  /\ others < MaxOthers
  /\ others' = others + 1
  /\ queue' = [queue EXCEPT ![m] = Append(@, "other")]
  /\ UNCHANGED <<phase, front, registers, issue, execute, busy, memory, delayed>>

Unit == StartExecute \/ ExecuteAtOnce \/ RequestAccess \/ FinishLoad \/ FinishStore

\* Something is left to do at this point of time.
Active ==
  \/ issue # None /\ execute = Idle
  \/ execute.at \in {"run", "answered"}
  \/ \E m \in Memories : CanServe(m)

AdvanceTime ==
  /\ phase = "edge"
  /\ ~ Active
  /\ phase' = "decode"
  /\ UNCHANGED <<front, registers, issue, execute, memories>>

Next ==
  \/ ProcessDecode
  \/ \E stall \in BOOLEAN : Edge(stall)
  \/ Unit
  \/ \E m \in Memories : ServeScalar(m) \/ ServeOther(m) \/ EndAccess(m) \/ OtherAccess(m)
  \/ AdvanceTime

Spec == Init /\ [][Next]_vars

\* The kernel runs what can run; an access ends, and so does the stall of another unit.
FairSpec ==
  /\ Spec
  /\ WF_vars(ProcessDecode) /\ WF_vars(Edge(TRUE)) /\ SF_vars(Edge(FALSE))
  /\ WF_vars(Unit) /\ WF_vars(AdvanceTime)
  /\ \A m \in Memories : WF_vars(ServeScalar(m)) /\ WF_vars(ServeOther(m)) /\ SF_vars(EndAccess(m))

-----------------------------------------------------------------------------
(***************************************************************************)
(* Properties.                                                             *)
(***************************************************************************)

\* The types of the state; there is one scalar access at most, the one of the stage.
TypeOK ==
  /\ phase \in {"decode", "edge"}
  /\ execute.at \in {"idle", "run", "access", "answered", "period"}
  /\ DOMAIN general_regs = GeneralRegs /\ DOMAIN special_regs = SpecialRegs
  /\ DOMAIN memory = Addresses
  /\ \A m \in Memories : \A k \in DOMAIN queue[m] :
       queue[m][k] = "scalar" =>
         /\ execute.at = "access" /\ m = MemoryOf[Address(execute.payload)]
         /\ \A n \in DOMAIN queue[m] : queue[m][n] = "scalar" => n = k

(***************************************************************************)
(* A register has its value when the decoder reads it, though nothing says *)
(* that it will be written (decoder_v2.cpp:104-140, scalar_unit.cpp:66-77):*)
(* what has been executed by the time decode runs is what instructions     *)
(* executed one after the other leave, in registers, memory and operands   *)
(* given to other units.  It holds as long as no load or store has had to  *)
(* queue: behind an access of another unit it takes time, and what follows *)
(* is decoded with old values.                                             *)
(***************************************************************************)
DecodesSequentially ==
  phase = "decode" /\ cur = None /\ ~ delayed => Architecture = ref

\* And whatever had to wait, what is decoded ends: neither the thread that waits for its
\* stage nor the stage that waits for its access waits for ever.
Drained == cur = None /\ issue = None /\ execute.at \in {"idle", "period"}

Ends == <>[](Drained /\ ~ Decodes)

=============================================================================
