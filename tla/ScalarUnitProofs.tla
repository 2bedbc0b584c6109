--------------------------- MODULE ScalarUnitProofs ---------------------------
(***************************************************************************)
(* ScalarUnit is proved correct for any program, any binding of special    *)
(* registers, any memories and any width of a register.                    *)
(*                                                                         *)
(* The registers and the memory are always one scalar instruction at most  *)
(* behind the reference.  That instruction has its operands; what is to    *)
(* come of it is known from its payload alone.  Time cannot go on before   *)
(* it has come, because its access, if it has one, is the head of the      *)
(* queue of a memory that is not busy.                                     *)
(***************************************************************************)
EXTENDS ScalarUnit, TLAPS

-----------------------------------------------------------------------------
(***************************************************************************)
(* The inductive invariant.                                                *)
(***************************************************************************)

\* The registers of the reference.
RegsOf(g, s) == [r \in Registers |-> IF r[1] = "general" THEN g[r[2]] ELSE s[r[2]]]

ExecuteTypes(e) ==
  \/ e = Idle
  \/ /\ e.at \in {"run", "access", "answered", "period"}
     /\ \/ e = [at |-> e.at, payload |-> e.payload]
        \/ e = [at |-> e.at, payload |-> e.payload, data |-> e.data]
     /\ e.at \in {"access", "answered"} => e.payload.op \in {"load", "store"}

RecordOf(r) == r = [pc |-> r.pc, regs |-> r.regs, memory |-> r.memory, given |-> r.given]

\* An entry of the unit is the one of its stage.
ScalarEntry(q, e) ==
  \A m \in Memories : \A k \in DOMAIN q[m] :
    q[m][k] = "scalar" =>
      /\ e.at = "access" /\ m = MemoryOf[Address(e.payload)]
      /\ \A n \in DOMAIN q[m] : q[m][n] = "scalar" => n = k

Types ==
  /\ phase \in {"decode", "edge"}
  /\ cur = None \/ cur.unit \in {"scalar", "control", "other"}
  /\ issue = None \/ issue.unit = "scalar"
  /\ ExecuteTypes(execute)
  /\ DOMAIN general_regs = GeneralRegs /\ DOMAIN special_regs = SpecialRegs
  /\ DOMAIN memory = Addresses
  /\ queue \in [Memories -> Seq({"scalar", "other"})]
  /\ busy \in [Memories -> BOOLEAN]
  /\ delayed \in BOOLEAN
  /\ RecordOf(ref)
  /\ ScalarEntry(queue, execute)

\* No scalar instruction is under way.
Settled == issue = None /\ execute.at \in {"idle", "period"}

Destination(p) == IF p.op = "assign" /\ p.special THEN Special(p.dst) ELSE General(p.dst)

Value(p) == IF p.op = "assign" THEN p.src1 ELSE Alu(p.op, p.src1, p.src2)

\* Executing the scalar payload p on registers and memory gives those of r.
Yields(p, regs, mem, r) ==
  /\ p.op = "load" =>
       r.regs = [regs EXCEPT ![General(p.dst)] = mem[Address(p)]] /\ r.memory = mem
  /\ p.op = "store" =>
       r.regs = regs /\ r.memory = [mem EXCEPT ![Address(p)] = p.src2]
  /\ p.op \notin {"load", "store"} =>
       r.regs = [regs EXCEPT ![Destination(p)] = Value(p)] /\ r.memory = mem

\* What is left when p has been decoded and not executed.
Owes(p, regs, mem, giv, r) ==
  /\ p.unit = "scalar" => Yields(p, regs, mem, r) /\ r.given = giv
  /\ p.unit = "control" => r.regs = regs /\ r.memory = mem /\ r.given = giv
  /\ p.unit = "other" => r.regs = regs /\ r.memory = mem /\ r.given = Append(giv, p.operands)

\* And when its memory has answered.
Answered(e, regs, mem, r) ==
  /\ e.payload.op = "load" => r.regs = [regs EXCEPT ![General(e.payload.dst)] = e.data]
  /\ e.payload.op = "store" => r.regs = regs
  /\ r.memory = mem

\* Nothing is before the access of the stage.
AtHead(e, q, b) ==
  e.at = "access" =>
    LET m == MemoryOf[Address(e.payload)]
    IN  Address(e.payload) \in Addresses /\ q[m] # <<>> /\ Head(q[m]) = "scalar" /\ ~ b[m]

Regs == RegsOf(general_regs, special_regs)

InDecode ==
  /\ phase = "decode" => Settled
  /\ cur # None =>
       /\ Settled
       /\ ref.pc = ins_index + cur.inc
       /\ Owes(cur, Regs, memory, given, ref)

Counted == cur = None => ref.pc = ins_index /\ ref.given = given

UnderWay ==
  /\ issue # None => execute = Idle /\ Yields(issue, Regs, memory, ref)
  /\ execute.at \in {"run", "access"} => Yields(execute.payload, Regs, memory, ref)
  /\ execute.at = "answered" => Answered(execute, Regs, memory, ref)
  /\ AtHead(execute, queue, busy)
  /\ Settled /\ cur = None => ref.regs = Regs /\ ref.memory = memory

InStep == InDecode /\ Counted /\ UnderWay

Inv == Types /\ (delayed \/ InStep)

-----------------------------------------------------------------------------
(***************************************************************************)
(* Registers.                                                              *)
(***************************************************************************)

\* A register is read where the reference keeps it.
LEMMA ReadsGeneral ==
  ASSUME NEW id \in GeneralRegs
  PROVE  ReadRegister(id, FALSE) = Regs[General(id)]
<1>1. General(id) \in Registers
  BY DEF Registers
<1>2. General(id)[1] = "general" /\ General(id)[2] = id
  BY DEF General
<1> QED
  BY <1>1, <1>2 DEF ReadRegister, Regs, RegsOf

LEMMA ReadsSpecial ==
  ASSUME NEW id \in SpecialRegs
  PROVE  ReadRegister(id, TRUE) = Regs[Special(id)]
<1>1. Special(id) \in Registers
  BY DEF Registers
<1>2. CASE id \in DOMAIN Binding
  <2>1. Special(id) = General(Binding[id])
    BY <1>2 DEF Special
  <2>2. General(Binding[id])[1] = "general" /\ General(Binding[id])[2] = Binding[id]
    BY DEF General
  <2> QED
    BY <1>1, <1>2, <2>1, <2>2 DEF ReadRegister, Regs, RegsOf
<1>3. CASE id \notin DOMAIN Binding
  <2>1. Special(id)[1] # "general" /\ Special(id)[2] = id
    BY <1>3 DEF Special
  <2> QED
    BY <1>1, <1>3, <2>1 DEF ReadRegister, Regs, RegsOf
<1> QED
  BY <1>2, <1>3

\* The registers of the reference are pairs of a kind and an id.
LEMMA RegisterIs ==
  ASSUME NEW r \in Registers
  PROVE  \/ r[1] = "general" /\ r[2] \in GeneralRegs /\ r = General(r[2])
         \/ r[1] # "general" /\ r[2] \in SpecialRegs \ DOMAIN Binding /\ r = Special(r[2])
<1>1. CASE r \in {General(id) : id \in GeneralRegs}
  BY <1>1 DEF General
<1>2. CASE r \in {Special(id) : id \in SpecialRegs}
  <2>1. PICK id \in SpecialRegs : r = Special(id)
    BY <1>2
  <2>2. CASE id \in DOMAIN Binding
    BY <2>1, <2>2, BindingAssumption DEF Special, General
  <2>3. CASE id \notin DOMAIN Binding
    BY <2>1, <2>3 DEF Special
  <2> QED
    BY <2>2, <2>3
<1> QED
  BY <1>1, <1>2 DEF Registers

Put(f, x, v) == [f EXCEPT ![x] = v]

\* Writing a general register writes one register of the reference.
LEMMA WritesGeneral ==
  ASSUME NEW g, NEW s, NEW id, NEW v, DOMAIN g = GeneralRegs, NEW h, h = Put(g, id, v)
  PROVE  RegsOf(h, s) = Put(RegsOf(g, s), General(id), v)
<1>1. \A x \in GeneralRegs : h[x] = IF x = id THEN v ELSE g[x]
  BY DEF Put
<1>2. ASSUME NEW r \in Registers
      PROVE  RegsOf(h, s)[r] = IF r = General(id) THEN v ELSE RegsOf(g, s)[r]
  <2>1. CASE r[1] = "general"
    <3>1. r[2] \in GeneralRegs /\ r = General(r[2])
      BY <2>1, RegisterIs
    <3>2. r = General(id) <=> r[2] = id
      BY <3>1 DEF General
    <3>3. RegsOf(h, s)[r] = h[r[2]] /\ RegsOf(g, s)[r] = g[r[2]]
      BY <2>1 DEF RegsOf
    <3> QED
      BY <1>1, <3>1, <3>2, <3>3
  <2>2. CASE r[1] # "general"
    <3>1. r # General(id)
      BY <2>2 DEF General
    <3> QED
      BY <2>2, <3>1 DEF RegsOf
  <2> QED
    BY <2>1, <2>2
<1>3. RegsOf(h, s) = [r \in Registers |-> RegsOf(h, s)[r]]
  BY DEF RegsOf
<1>4. Put(RegsOf(g, s), General(id), v)
        = [r \in Registers |-> IF r = General(id) THEN v ELSE RegsOf(g, s)[r]]
  BY DEF RegsOf, Put
<1> QED
  BY <1>2, <1>3, <1>4

\* And so does writing a special register that is not bound.
LEMMA WritesSpecial ==
  ASSUME NEW g, NEW s, NEW id, NEW v, DOMAIN s = SpecialRegs, id \notin DOMAIN Binding,
         NEW h, h = Put(s, id, v)
  PROVE  RegsOf(g, h) = Put(RegsOf(g, s), Special(id), v)
<1>1. \A x \in SpecialRegs : h[x] = IF x = id THEN v ELSE s[x]
  BY DEF Put
<1>2. ASSUME NEW r \in Registers
      PROVE  RegsOf(g, h)[r] = IF r = Special(id) THEN v ELSE RegsOf(g, s)[r]
  <2>1. CASE r[1] # "general"
    <3>1. r[2] \in SpecialRegs \ DOMAIN Binding /\ r = Special(r[2])
      BY <2>1, RegisterIs
    <3>2. r = Special(id) <=> r[2] = id
      BY <3>1 DEF Special
    <3>3. RegsOf(g, h)[r] = h[r[2]] /\ RegsOf(g, s)[r] = s[r[2]]
      BY <2>1 DEF RegsOf
    <3> QED
      BY <1>1, <3>1, <3>2, <3>3
  <2>2. CASE r[1] = "general"
    <3>1. r # Special(id)
      BY <2>2 DEF Special
    <3> QED
      BY <2>2, <3>1 DEF RegsOf
  <2> QED
    BY <2>1, <2>2
<1>3. RegsOf(g, h) = [r \in Registers |-> RegsOf(g, h)[r]]
  BY DEF RegsOf
<1>4. Put(RegsOf(g, s), Special(id), v)
        = [r \in Registers |-> IF r = Special(id) THEN v ELSE RegsOf(g, s)[r]]
  BY DEF RegsOf, Put
<1> QED
  BY <1>2, <1>3, <1>4

-----------------------------------------------------------------------------
(***************************************************************************)
(* Decoding: what is decoded while the registers and the memory are those  *)
(* of the reference m is what the instruction needs to become its step.    *)
(***************************************************************************)
InStepWith(m) == m.regs = Regs /\ m.memory = memory /\ m.given = given

Decoded(p, m, r) ==
  /\ p.unit \in {"scalar", "control", "other"}
  /\ r.pc = m.pc + p.inc
  /\ Owes(p, Regs, memory, given, r)

LEMMA DecodesScalar ==
  ASSUME NEW i \in DOMAIN Program, NEW m, InStepWith(m), Program[i].op \in ScalarOps
  PROVE  Decoded(DecodeIns(Program[i]), m, SequentialStep(m, Program[i]))
<1>1. PICK ins : ins = Program[i]
  OBVIOUS
<1>2. PICK r : r = SequentialStep(m, ins)
  OBVIOUS
<1>3. PICK p : p = DecodeIns(ins)
  OBVIOUS
<1> SUFFICES Decoded(p, m, r)
  BY <1>1, <1>2, <1>3
<1>4. /\ ins.op \in {"SC_RR", "SC_RI", "SC_LD", "SC_ST", "G_LI", "S_LI", "GS_MOV", "SG_MOV"}
      /\ ins.funct \notin {"load", "store", "assign"}
      /\ ins.rt \in GeneralRegs
      /\ ins.op # "SG_MOV" => ins.rs \in GeneralRegs
      /\ ins.op = "SG_MOV" => ins.rs \in SpecialRegs
  BY <1>1, ProgramAssumption DEF ScalarOps
<1>5. p = DecodeScalarIns(ins)
  BY <1>1, <1>3 DEF DecodeIns
<1>6. PICK rs, rt :
        /\ rs = IF ins.op = "SG_MOV" THEN m.regs[Special(ins.rs)] ELSE m.regs[General(ins.rs)]
        /\ rt = m.regs[General(ins.rt)]
  OBVIOUS
<1>7. /\ ReadRegister(ins.rt, FALSE) = rt
      /\ ins.op # "SG_MOV" => ReadRegister(ins.rs, FALSE) = rs
      /\ ins.op = "SG_MOV" => ReadRegister(ins.rs, TRUE) = rs
  BY <1>4, <1>6, ReadsGeneral, ReadsSpecial DEF InStepWith
<1>8. /\ r.pc = m.pc + Inc(m, ins)
      /\ ins.op # "SC_ST" =>
           r.regs = [Regs EXCEPT ![Target(ins)] = Result(m, ins)] /\ r.memory = memory
      /\ ins.op = "SC_ST" => r.regs = Regs /\ r.memory = [memory EXCEPT ![rs + ins.imm] = rt]
      /\ r.given = given
  BY <1>1, <1>2, <1>4, <1>6 DEF SequentialStep, ScalarOps, InStepWith
<1>9. Inc(m, ins) = 1
  BY <1>4 DEF Inc, ControlOps
<1>10. PICK op, src1, src2 :
         /\ ins.op \in {"SC_RR", "SC_RI"} =>
              op = ins.funct /\ src1 = rs /\ src2 = IF ins.op = "SC_RR" THEN rt ELSE ins.imm
         /\ ins.op = "SC_LD" => op = "load" /\ src1 = rs /\ src2 = 0
         /\ ins.op = "SC_ST" => op = "store" /\ src1 = rs /\ src2 = rt
         /\ ins.op \in {"G_LI", "S_LI"} => op = "assign" /\ src1 = ins.imm /\ src2 = 0
         /\ ins.op \in {"GS_MOV", "SG_MOV"} => op = "assign" /\ src1 = rs /\ src2 = 0
  OBVIOUS
<1>11. p = ScalarPayload(ins, op, src1, src2)
  <2>1. CASE ins.op \in {"SC_RR", "SC_RI", "SC_LD", "SC_ST", "G_LI", "S_LI"}
    BY <1>5, <1>7, <1>10, <2>1 DEF DecodeScalarIns
  <2>2. CASE ins.op \in {"GS_MOV", "SG_MOV"}
    <3>1. ReadRegister(ins.rs, ins.op = "SG_MOV") = rs
      <4>1. CASE ins.op = "SG_MOV"
        BY <1>7, <4>1
      <4>2. CASE ins.op # "SG_MOV"
        BY <1>7, <4>2
      <4> QED
        BY <4>1, <4>2
    <3> QED
      BY <1>5, <1>10, <2>2, <3>1 DEF DecodeScalarIns
  <2> QED
    BY <1>4, <2>1, <2>2
<1>12. /\ p.unit = "scalar" /\ p.inc = 1 /\ p.op = op /\ p.src1 = src1 /\ p.src2 = src2
       /\ p.offset = ins.imm /\ p.dst = ins.rd
       /\ p.special = (ins.op \in {"S_LI", "GS_MOV"})
  BY <1>11 DEF ScalarPayload
<1>13. ASSUME Yields(p, Regs, memory, r)
       PROVE  Decoded(p, m, r)
  <2>1. p.unit = "scalar" /\ p.inc = 1
    BY <1>12
  <2>2. r.pc = m.pc + p.inc /\ r.given = given
    BY <1>8, <1>9, <2>1
  <2>3. Owes(p, Regs, memory, given, r)
    BY <1>13, <2>1, <2>2 DEF Owes
  <2> QED
    BY <2>1, <2>2, <2>3 DEF Decoded
<1>14. CASE ins.op \in {"SC_RR", "SC_RI"}
  <2>1. Result(m, ins) = Alu(op, src1, src2)
    BY <1>6, <1>10, <1>14 DEF Result
  <2>2. Target(ins) = General(p.dst)
    BY <1>12, <1>14 DEF Target
  <2>3. p.op \notin {"load", "store", "assign"}
    BY <1>4, <1>10, <1>12, <1>14
  <2>4. Value(p) = Alu(op, src1, src2) /\ Destination(p) = General(p.dst)
    BY <1>12, <2>3 DEF Value, Destination
  <2>5. Yields(p, Regs, memory, r)
    BY <1>8, <1>14, <2>1, <2>2, <2>3, <2>4 DEF Yields
  <2> QED
    BY <1>13, <2>5
<1>15. CASE ins.op = "SC_LD"
  <2>1. Result(m, ins) = memory[Address(p)]
    BY <1>6, <1>10, <1>12, <1>15 DEF Result, Address, InStepWith
  <2>2. Target(ins) = General(p.dst)
    BY <1>12, <1>15 DEF Target
  <2>3. Yields(p, Regs, memory, r)
    BY <1>8, <1>10, <1>12, <1>15, <2>1, <2>2 DEF Yields
  <2> QED
    BY <1>13, <2>3
<1>16. CASE ins.op = "SC_ST"
  <2>1. Address(p) = rs + ins.imm
    BY <1>10, <1>12, <1>16 DEF Address
  <2>2. Yields(p, Regs, memory, r)
    BY <1>8, <1>10, <1>12, <1>16, <2>1 DEF Yields
  <2> QED
    BY <1>13, <2>2
<1>17. CASE ins.op \in {"G_LI", "S_LI", "GS_MOV", "SG_MOV"}
  <2>1. op = "assign"
    BY <1>10, <1>17
  <2>2. Result(m, ins) = src1
    BY <1>6, <1>10, <1>17 DEF Result
  <2>3. Target(ins) = Destination(p)
    BY <1>12, <1>17, <2>1 DEF Target, Destination
  <2>4. Value(p) = src1
    BY <1>12, <2>1 DEF Value
  <2>5. Yields(p, Regs, memory, r)
    BY <1>8, <1>12, <1>17, <2>1, <2>2, <2>3, <2>4 DEF Yields
  <2> QED
    BY <1>13, <2>5
<1> QED
  BY <1>4, <1>14, <1>15, <1>16, <1>17

LEMMA DecodesControl ==
  ASSUME NEW i \in DOMAIN Program, NEW m, InStepWith(m), Program[i].op \in ControlOps
  PROVE  Decoded(DecodeIns(Program[i]), m, SequentialStep(m, Program[i]))
<1>1. PICK ins : ins = Program[i]
  OBVIOUS
<1>2. PICK r : r = SequentialStep(m, ins)
  OBVIOUS
<1>3. ins.op \notin ScalarOps
  BY <1>1 DEF ScalarOps, ControlOps
<1>4. ins.rs \in GeneralRegs /\ ins.rt \in GeneralRegs
  BY <1>1, ProgramAssumption DEF ScalarOps, ControlOps
<1>5. ReadRegister(ins.rs, FALSE) = m.regs[General(ins.rs)]
      /\ ReadRegister(ins.rt, FALSE) = m.regs[General(ins.rt)]
  BY <1>4, ReadsGeneral DEF InStepWith
<1>6. PICK branch : branch = Branches(ins, m.regs[General(ins.rs)], m.regs[General(ins.rt)])
  OBVIOUS
<1>7. DecodeIns(ins) = ControlPayload(ins, branch)
  BY <1>1, <1>3, <1>5, <1>6 DEF DecodeIns, DecodeControlIns
<1>8. Inc(m, ins) = IF branch THEN ins.imm ELSE 1
  BY <1>1, <1>6 DEF Inc
<1>9. r.pc = m.pc + Inc(m, ins) /\ r.regs = m.regs /\ r.memory = m.memory /\ r.given = m.given
  <2>1. ins.op # "SC_ST" /\ ins.op \notin ScalarOps \ {"SC_ST"}
    BY <1>3 DEF ScalarOps
  <2> QED
    BY <1>1, <1>2, <2>1 DEF SequentialStep
<1>10. PICK p : p = ControlPayload(ins, branch)
  OBVIOUS
<1>11. p.unit = "control" /\ p.inc = Inc(m, ins)
  BY <1>8, <1>10 DEF ControlPayload
<1>12. Decoded(p, m, r)
  BY <1>9, <1>11 DEF Decoded, Owes, InStepWith
<1> QED
  BY <1>1, <1>2, <1>7, <1>10, <1>12

LEMMA DecodesOther ==
  ASSUME NEW i \in DOMAIN Program, NEW m, InStepWith(m),
         Program[i].op \notin ScalarOps \cup ControlOps
  PROVE  Decoded(DecodeIns(Program[i]), m, SequentialStep(m, Program[i]))
<1>1. PICK ins : ins = Program[i]
  OBVIOUS
<1>2. PICK r : r = SequentialStep(m, ins)
  OBVIOUS
<1>3. PICK fields, specials : fields = OperandFields(ins) /\ specials = OperandSpecials(ins)
  OBVIOUS
<1>4. /\ \A k \in DOMAIN fields : fields[k] \in GeneralRegs
      /\ \A k \in DOMAIN specials : specials[k] \in SpecialRegs
  BY <1>1, <1>3, ProgramAssumption
<1>5. [k \in DOMAIN fields |-> ReadRegister(fields[k], FALSE)]
        = [k \in DOMAIN fields |-> m.regs[General(fields[k])]]
  <2>1. \A k \in DOMAIN fields : ReadRegister(fields[k], FALSE) = m.regs[General(fields[k])]
    BY <1>4, ReadsGeneral DEF InStepWith
  <2> QED
    BY <2>1
<1>6. [k \in DOMAIN specials |-> ReadRegister(specials[k], TRUE)]
        = [k \in DOMAIN specials |-> m.regs[Special(specials[k])]]
  <2>1. \A k \in DOMAIN specials : ReadRegister(specials[k], TRUE) = m.regs[Special(specials[k])]
    BY <1>4, ReadsSpecial DEF InStepWith
  <2> QED
    BY <2>1
<1>7. PICK general, special :
        /\ general = [k \in DOMAIN fields |-> m.regs[General(fields[k])]]
        /\ special = [k \in DOMAIN specials |-> m.regs[Special(specials[k])]]
  OBVIOUS
<1>8. DecodeIns(ins) = DecodeOtherIns(ins)
  BY <1>1 DEF DecodeIns
<1>9. DecodeOtherIns(ins) = OtherPayload(ins, general, special)
  <2>1. DecodeOtherIns(ins)
          = OtherPayload(ins, [k \in DOMAIN fields |-> ReadRegister(fields[k], FALSE)],
                              [k \in DOMAIN specials |-> ReadRegister(specials[k], TRUE)])
    BY <1>3 DEF DecodeOtherIns
  <2> QED
    BY <1>5, <1>6, <1>7, <2>1
<1>10. Operands(m, ins) = <<ins.op, general, special>>
  BY <1>3, <1>7 DEF Operands
<1>11. PICK operands : operands = Operands(m, ins)
  OBVIOUS
<1>12. Inc(m, ins) = 1
  BY <1>1 DEF Inc
<1>13. r.pc = m.pc + 1 /\ r.regs = m.regs /\ r.memory = m.memory
         /\ r.given = Append(m.given, operands)
  <2>1. ins.op # "SC_ST" /\ ins.op \notin ScalarOps \ {"SC_ST"}
          /\ ins.op \notin ScalarOps \cup ControlOps
    BY <1>1 DEF ScalarOps
  <2> QED
    BY <1>2, <1>11, <1>12, <2>1 DEF SequentialStep
<1>14. PICK p : p = OtherPayload(ins, general, special)
  OBVIOUS
<1>15. p.unit = "other" /\ p.inc = 1 /\ p.operands = operands
  BY <1>10, <1>11, <1>14 DEF OtherPayload
<1>16. Decoded(p, m, r)
  BY <1>13, <1>15 DEF Decoded, Owes, InStepWith
<1> QED
  BY <1>1, <1>2, <1>8, <1>9, <1>14, <1>16

LEMMA DecodesAsReference ==
  ASSUME NEW i \in DOMAIN Program, NEW m, InStepWith(m)
  PROVE  Decoded(DecodeIns(Program[i]), m, SequentialStep(m, Program[i]))
BY DecodesScalar, DecodesControl, DecodesOther

-----------------------------------------------------------------------------
(***************************************************************************)
(* Stages.                                                                 *)
(***************************************************************************)

\* What the stage does next with its payload.
LEMMA AtIs ==
  ASSUME NEW at, ExecuteTypes(execute), execute # Idle
  PROVE  At(at).at = at /\ At(at).payload = execute.payload
<1>1. CASE execute = [at |-> execute.at, payload |-> execute.payload]
  <2>1. PICK e, p : e = execute.at /\ p = execute.payload
    OBVIOUS
  <2>2. execute = [at |-> e, payload |-> p]
    BY <1>1, <2>1
  <2> QED
    BY <2>2 DEF At
<1>2. CASE execute = [at |-> execute.at, payload |-> execute.payload, data |-> execute.data]
  <2>1. PICK e, p, d : e = execute.at /\ p = execute.payload /\ d = execute.data
    OBVIOUS
  <2>2. execute = [at |-> e, payload |-> p, data |-> d]
    BY <1>2, <2>1
  <2> QED
    BY <2>2 DEF At
<1> QED
  BY <1>1, <1>2 DEF ExecuteTypes

LEMMA AtTypes ==
  ASSUME NEW at \in {"run", "access", "answered", "period"}, ExecuteTypes(execute), execute # Idle,
         at \in {"access", "answered"} => execute.payload.op \in {"load", "store"}
  PROVE  ExecuteTypes(At(at))
<1>1. At(at).at = at /\ At(at).payload = execute.payload
  BY AtIs
<1>2. CASE execute = [at |-> execute.at, payload |-> execute.payload]
  <2>1. PICK e, p : e = execute.at /\ p = execute.payload
    OBVIOUS
  <2>2. execute = [at |-> e, payload |-> p]
    BY <1>2, <2>1
  <2>3. At(at) = [at |-> at, payload |-> p]
    BY <2>2 DEF At
  <2>4. At(at) = [at |-> At(at).at, payload |-> At(at).payload]
    BY <2>3
  <2> QED
    BY <1>1, <2>4 DEF ExecuteTypes
<1>3. CASE execute = [at |-> execute.at, payload |-> execute.payload, data |-> execute.data]
  <2>1. PICK e, p, d : e = execute.at /\ p = execute.payload /\ d = execute.data
    OBVIOUS
  <2>2. execute = [at |-> e, payload |-> p, data |-> d]
    BY <1>3, <2>1
  <2>3. At(at) = [at |-> at, payload |-> p, data |-> d]
    BY <2>2 DEF At
  <2>4. At(at) = [at |-> At(at).at, payload |-> At(at).payload, data |-> At(at).data]
    BY <2>3
  <2> QED
    BY <1>1, <2>4 DEF ExecuteTypes
<1> QED
  BY <1>2, <1>3 DEF ExecuteTypes

\* Without an access of the stage there is no entry of the unit.
NoEntry(q) == \A m \in Memories : \A k \in DOMAIN q[m] : q[m][k] # "scalar"

LEMMA NoEntryIs ==
  ASSUME NEW q, NEW e
  PROVE  /\ NoEntry(q) => ScalarEntry(q, e)
         /\ e.at # "access" /\ ScalarEntry(q, e) => NoEntry(q)
BY DEF NoEntry, ScalarEntry

-----------------------------------------------------------------------------
(***************************************************************************)
(* The initial state.                                                      *)
(***************************************************************************)
LEMMA InitHolds == Init => Inv
<1> SUFFICES ASSUME Init PROVE Types /\ InStep
  BY DEF Inv
<1>1. ref = Architecture /\ cur = None /\ issue = None /\ execute = Idle
  BY DEF Init
<1>2. ref.pc = ins_index /\ ref.regs = Regs /\ ref.memory = memory /\ ref.given = given
  BY <1>1 DEF Architecture, Regs, RegsOf
<1>3. RecordOf(ref)
  BY <1>1 DEF Architecture, RecordOf
<1>4. \A m \in Memories : queue[m] = <<>>
  BY DEF Init
<1>5. NoEntry(queue)
  BY <1>4 DEF NoEntry
<1>6. ScalarEntry(queue, execute)
  BY <1>5, NoEntryIs
<1>7. queue \in [Memories -> Seq({"scalar", "other"})]
  BY DEF Init
<1>8. Types
  BY <1>1, <1>3, <1>6, <1>7 DEF Init, Types, ExecuteTypes
<1>9. InStep
  BY <1>1, <1>2 DEF InStep, InDecode, Counted, UnderWay, Settled, AtHead, Idle
<1> QED
  BY <1>8, <1>9

-----------------------------------------------------------------------------
(***************************************************************************)
(* The core.                                                               *)
(***************************************************************************)
LEMMA ProcessDecodeTypes == Types /\ ProcessDecode => Types'
<1> SUFFICES ASSUME Types, ProcessDecode PROVE Types'
  OBVIOUS
<1>1. PICK ins : ins = Program[ins_index]
  OBVIOUS
<1>2. cur' = DecodeIns(ins) /\ ref' = SequentialStep(ref, ins)
  BY <1>1 DEF ProcessDecode
<1>3. cur'.unit \in {"scalar", "control", "other"}
  <2>1. Architecture.regs = Regs /\ Architecture.memory = memory /\ Architecture.given = given
    BY DEF Architecture, Regs, RegsOf
  <2>2. ins_index \in DOMAIN Program
    BY DEF ProcessDecode, Decodes
  <2>3. Decoded(DecodeIns(ins), Architecture, SequentialStep(Architecture, ins))
    BY <1>1, <2>1, <2>2, DecodesAsReference DEF InStepWith
  <2> QED
    BY <1>2, <2>3 DEF Decoded
<1>4. RecordOf(ref')
  <2>1. PICK a, b, c, d : ref' = [pc |-> a, regs |-> b, memory |-> c, given |-> d]
    BY <1>2 DEF SequentialStep
  <2> QED
    BY <2>1 DEF RecordOf
<1>5. RecordOf(ref)'
  BY <1>4 DEF RecordOf
<1>6. UNCHANGED <<phase, issue, execute, general_regs, special_regs, memory, queue, busy, delayed>>
  BY DEF ProcessDecode, registers, memories
<1> QED
  BY <1>3, <1>5, <1>6 DEF Types

LEMMA ProcessDecodeInStep == Types /\ InStep /\ ProcessDecode => InStep'
<1> SUFFICES ASSUME Types, InStep, ProcessDecode PROVE InStep'
  OBVIOUS
<1>1. PICK ins : ins = Program[ins_index]
  OBVIOUS
<1>2. cur' = DecodeIns(ins) /\ ref' = SequentialStep(ref, ins)
  BY <1>1 DEF ProcessDecode
<1>3. cur = None /\ phase = "decode" /\ ins_index \in DOMAIN Program
  BY DEF ProcessDecode, Decodes
<1>4. Settled
  BY <1>3 DEF InStep, InDecode
<1>5. ref.pc = ins_index /\ ref.given = given /\ ref.regs = Regs /\ ref.memory = memory
  BY <1>3, <1>4 DEF InStep, Counted, UnderWay
<1>6. Decoded(cur', ref, ref')
  BY <1>1, <1>2, <1>3, <1>5, DecodesAsReference DEF InStepWith
<1>7. UNCHANGED <<phase, ins_index, given, issue, execute, general_regs, special_regs, memory,
                  queue, busy>>
  BY DEF ProcessDecode, registers, memories
<1>8. Regs' = Regs
  BY <1>7 DEF Regs
<1>9. Settled'
  BY <1>4, <1>7 DEF Settled
<1>10. cur' # None
  BY <1>6 DEF Decoded, None
<1>11. InDecode'
  <2>1. ref'.pc = ins_index' + cur'.inc
    BY <1>5, <1>6, <1>7 DEF Decoded
  <2>2. Owes(cur', Regs', memory', given', ref')
    BY <1>6, <1>7, <1>8 DEF Decoded
  <2> QED
    BY <1>9, <2>1, <2>2 DEF InDecode
<1>12. UnderWay'
  <2>1. issue' = None /\ execute'.at \in {"idle", "period"}
    BY <1>9 DEF Settled
  <2> QED
    BY <1>10, <2>1 DEF UnderWay, AtHead
<1> QED
  BY <1>10, <1>11, <1>12 DEF InStep, Counted

\* The unit of what leaves decode decides where it goes.
LEMMA EdgeTypes == ASSUME NEW stall \in BOOLEAN PROVE Types /\ Edge(stall) => Types'
<1> SUFFICES ASSUME Types, Edge(stall) PROVE Types'
  OBVIOUS
<1>1. UNCHANGED <<ref, general_regs, special_regs, memory, queue, busy, delayed>>
  BY DEF Edge, registers, memories
<1>2. phase' = "edge"
  BY DEF Edge
<1>3. cur' = None \/ cur'.unit \in {"scalar", "control", "other"}
  BY DEF Edge, Types
<1>4. issue' = None \/ issue'.unit = "scalar"
  BY DEF Edge, Types
<1>5. execute' = IF execute.at = "period" THEN Idle ELSE execute
  BY DEF Edge
<1>6. ExecuteTypes(execute')
  BY <1>5 DEF ExecuteTypes, Types
<1>7. ScalarEntry(queue', execute')
  <2>1. CASE execute.at = "period"
    BY <1>1, <2>1, NoEntryIs DEF Types
  <2>2. CASE execute.at # "period"
    BY <1>1, <1>5, <2>2 DEF Types
  <2> QED
    BY <2>1, <2>2
<1>8. ScalarEntry(queue, execute)' /\ ExecuteTypes(execute)'
  BY <1>6, <1>7 DEF ScalarEntry, ExecuteTypes, Address, Idle
<1> QED
  BY <1>1, <1>2, <1>3, <1>4, <1>8 DEF Types, RecordOf

LEMMA EdgeInStep == ASSUME NEW stall \in BOOLEAN PROVE Types /\ InStep /\ Edge(stall) => InStep'
<1> SUFFICES ASSUME Types, InStep, Edge(stall) PROVE InStep'
  OBVIOUS
<1>1. UNCHANGED <<ref, general_regs, special_regs, memory, queue, busy>>
  BY DEF Edge, registers, memories
<1>2. Regs' = Regs
  BY <1>1 DEF Regs
<1>3. phase = "decode" /\ phase' = "edge"
  BY DEF Edge
<1>4. Settled
  BY <1>3 DEF InStep, InDecode
<1>5. execute' = Idle /\ issue = None
  <2>1. execute.at = "idle" => execute = Idle
    BY DEF Types, ExecuteTypes
  <2> QED
    BY <1>4, <2>1 DEF Edge, Settled
<1>6. execute'.at = "idle"
  BY <1>5 DEF Idle
<1>7. CASE cur # None /\ ~ Stall(stall)
  <2>1. /\ ins_index' = ins_index + cur.inc
        /\ cur' = None
        /\ issue' = IF cur.unit = "scalar" THEN cur ELSE None
        /\ given' = IF cur.unit = "other" THEN Append(given, cur.operands) ELSE given
    BY <1>5, <1>7 DEF Edge
  <2>2. ref.pc = ins_index + cur.inc /\ Owes(cur, Regs, memory, given, ref)
    BY <1>7 DEF InStep, InDecode
  <2>3. cur.unit \in {"scalar", "control", "other"}
    BY <1>7 DEF Types
  <2>4. Counted'
    BY <1>1, <2>1, <2>2, <2>3 DEF Counted, Owes
  <2>5. InDecode'
    BY <1>3, <2>1 DEF InDecode
  <2>6. CASE cur.unit = "scalar"
    <3>1. issue' = cur /\ Yields(cur, Regs, memory, ref)
      BY <2>1, <2>2, <2>6 DEF Owes
    <3>2. Yields(issue', Regs', memory', ref')
      BY <1>1, <1>2, <3>1
    <3>3. issue' # None
      BY <1>7, <3>1
    <3>4. UnderWay'
      BY <1>5, <1>6, <3>2, <3>3 DEF UnderWay, AtHead, Settled
    <3> QED
      BY <2>4, <2>5, <3>4 DEF InStep
  <2>7. CASE cur.unit # "scalar"
    <3>1. issue' = None
      BY <2>1, <2>7
    <3>2. ref'.regs = Regs' /\ ref'.memory = memory'
      BY <1>1, <1>2, <2>2, <2>3, <2>7 DEF Owes
    <3>3. UnderWay'
      BY <1>6, <3>1, <3>2 DEF UnderWay, AtHead
    <3> QED
      BY <2>4, <2>5, <3>3 DEF InStep
  <2> QED
    BY <2>6, <2>7
<1>8. CASE ~ (cur # None /\ ~ Stall(stall))
  <2>1. ins_index' = ins_index /\ cur' = cur /\ issue' = None /\ given' = given
    BY <1>5, <1>8 DEF Edge
  <2>2. Settled'
    BY <1>6, <2>1 DEF Settled
  <2>3. Counted'
    BY <1>1, <2>1 DEF Counted, InStep
  <2>4. InDecode'
    <3>1. ASSUME cur' # None
          PROVE  ref'.pc = ins_index' + cur'.inc /\ Owes(cur', Regs', memory', given', ref')
      BY <1>1, <1>2, <2>1, <3>1 DEF InDecode, InStep
    <3> QED
      BY <2>2, <3>1 DEF InDecode
  <2>5. UnderWay'
    <3>1. cur' = None => ref'.regs = Regs' /\ ref'.memory = memory'
      BY <1>1, <1>2, <1>4, <2>1 DEF InStep, UnderWay
    <3> QED
      BY <1>6, <2>1, <3>1 DEF UnderWay, AtHead
  <2> QED
    BY <2>3, <2>4, <2>5 DEF InStep
<1> QED
  BY <1>7, <1>8

-----------------------------------------------------------------------------
(***************************************************************************)
(* The threads of the unit.  While the stage works, or is about to, nothing*)
(* is in decode.                                                           *)
(***************************************************************************)
LEMMA NotSettled ==
  ASSUME Types, InStep, ~ Settled
  PROVE  cur = None /\ phase = "edge" /\ ref.pc = ins_index /\ ref.given = given
BY DEF Types, InStep, InDecode, Counted

LEMMA StartExecuteTypes == Types /\ StartExecute => Types'
<1> SUFFICES ASSUME Types, StartExecute PROVE Types'
  OBVIOUS
<1>1. execute' = [at |-> "run", payload |-> issue] /\ issue' = None /\ execute = Idle
  BY DEF StartExecute
<1>2. UNCHANGED <<phase, cur, ref, general_regs, special_regs, memory, queue, busy, delayed>>
  BY DEF StartExecute, front, registers, memories
<1>3. ExecuteTypes(execute')
  <2>1. execute'.at = "run" /\ execute'.payload = issue
    BY <1>1
  <2> QED
    BY <1>1, <2>1 DEF ExecuteTypes
<1>4. ScalarEntry(queue', execute')
  BY <1>1, <1>2, NoEntryIs DEF Types, Idle
<1>5. ScalarEntry(queue, execute)' /\ ExecuteTypes(execute)'
  BY <1>3, <1>4 DEF ScalarEntry, ExecuteTypes, Address, Idle
<1> QED
  BY <1>1, <1>2, <1>5 DEF Types, RecordOf

LEMMA StartExecuteInStep == Types /\ InStep /\ StartExecute => InStep'
<1> SUFFICES ASSUME Types, InStep, StartExecute PROVE InStep'
  OBVIOUS
<1>1. /\ execute' = [at |-> "run", payload |-> issue] /\ issue' = None
      /\ execute = Idle /\ issue # None
  BY DEF StartExecute
<1>2. UNCHANGED <<phase, ins_index, cur, given, ref, general_regs, special_regs, memory>>
  BY DEF StartExecute, front, registers, memories
<1>3. Regs' = Regs
  BY <1>2 DEF Regs
<1>4. execute'.at = "run" /\ execute'.payload = issue
  BY <1>1
<1>5. cur' = None /\ phase' = "edge" /\ ref'.pc = ins_index' /\ ref'.given = given'
  BY <1>1, <1>2, NotSettled DEF Settled
<1>6. Yields(execute'.payload, Regs', memory', ref')
  BY <1>1, <1>2, <1>3, <1>4 DEF InStep, UnderWay
<1>7. UnderWay'
  BY <1>1, <1>4, <1>6 DEF UnderWay, AtHead, Settled
<1> QED
  BY <1>5, <1>7 DEF InStep, InDecode, Counted

LEMMA ExecuteAtOnceTypes == Types /\ ExecuteAtOnce => Types'
<1> SUFFICES ASSUME Types, ExecuteAtOnce PROVE Types'
  OBVIOUS
<1>1. execute.at = "run" /\ execute' = At("period")
  BY DEF ExecuteAtOnce
<1>2. UNCHANGED <<phase, cur, ref, issue, memory, queue, busy, delayed>>
  BY DEF ExecuteAtOnce, front, memories
<1>3. DOMAIN general_regs' = GeneralRegs /\ DOMAIN special_regs' = SpecialRegs
  BY DEF ExecuteAtOnce, WriteRegister, Types
<1>4. execute # Idle
  BY <1>1 DEF Idle
<1>5. ExecuteTypes(execute') /\ execute'.at = "period"
  BY <1>1, <1>4, AtTypes, AtIs DEF Types
<1>6. ScalarEntry(queue', execute')
  BY <1>1, <1>2, NoEntryIs DEF Types
<1>7. ScalarEntry(queue, execute)' /\ ExecuteTypes(execute)'
  BY <1>5, <1>6 DEF ScalarEntry, ExecuteTypes, Address, Idle
<1> QED
  BY <1>2, <1>3, <1>7 DEF Types, RecordOf

\* The payload is written where the reference has its destination.
LEMMA ExecuteAtOnceWrites ==
  ASSUME Types, ExecuteAtOnce
  PROVE  Regs' = Put(Regs, Destination(execute.payload), Value(execute.payload))
<1>1. PICK p : p = execute.payload
  OBVIOUS
<1>2. DOMAIN general_regs = GeneralRegs /\ DOMAIN special_regs = SpecialRegs
  BY DEF Types
<1>3. Regs' = RegsOf(general_regs', special_regs') /\ Regs = RegsOf(general_regs, special_regs)
  BY DEF Regs, RegsOf
<1>4. PICK g, h, s, t :
        g = general_regs /\ h = general_regs' /\ s = special_regs /\ t = special_regs'
  OBVIOUS
<1> SUFFICES RegsOf(h, t) = Put(RegsOf(g, s), Destination(p), Value(p))
  BY <1>1, <1>3, <1>4
<1>5. CASE p.op = "assign" /\ p.special /\ p.dst \notin DOMAIN Binding
  <2>1. t = Put(s, p.dst, p.src1) /\ h = g
    BY <1>1, <1>4, <1>5 DEF ExecuteAtOnce, WriteRegister, Put
  <2>2. Destination(p) = Special(p.dst) /\ Value(p) = p.src1
    BY <1>5 DEF Destination, Value
  <2>3. h = g /\ t = Put(s, p.dst, p.src1) /\ DOMAIN s = SpecialRegs /\ p.dst \notin DOMAIN Binding
    BY <1>2, <1>4, <1>5, <2>1
  <2>4. RegsOf(g, t) = Put(RegsOf(g, s), Special(p.dst), p.src1)
    BY <2>3, WritesSpecial
  <2> QED
    BY <2>2, <2>3, <2>4
<1>6. CASE p.op = "assign" /\ p.special /\ p.dst \in DOMAIN Binding
  <2>1. h = Put(g, Binding[p.dst], p.src1) /\ t = s
    BY <1>1, <1>4, <1>6 DEF ExecuteAtOnce, WriteRegister, Put
  <2>2. Destination(p) = General(Binding[p.dst]) /\ Value(p) = p.src1
    BY <1>6 DEF Destination, Value, Special
  <2>3. h = Put(g, Binding[p.dst], p.src1) /\ t = s /\ DOMAIN g = GeneralRegs
    BY <1>2, <1>4, <2>1
  <2>4. RegsOf(h, s) = Put(RegsOf(g, s), General(Binding[p.dst]), p.src1)
    BY <2>3, WritesGeneral
  <2> QED
    BY <2>2, <2>3, <2>4
<1>7. CASE ~ (p.op = "assign" /\ p.special)
  <2>1. h = Put(g, p.dst, Value(p)) /\ t = s
    <3>1. CASE p.op = "assign"
      BY <1>1, <1>4, <1>7, <3>1 DEF ExecuteAtOnce, WriteRegister, Put, Value
    <3>2. CASE p.op # "assign"
      BY <1>1, <1>4, <3>2 DEF ExecuteAtOnce, WriteRegister, Put, Value
    <3> QED
      BY <3>1, <3>2
  <2>2. Destination(p) = General(p.dst)
    BY <1>7 DEF Destination
  <2>3. h = Put(g, p.dst, Value(p)) /\ t = s /\ DOMAIN g = GeneralRegs
    BY <1>2, <1>4, <2>1
  <2>4. RegsOf(h, s) = Put(RegsOf(g, s), General(p.dst), Value(p))
    BY <2>3, WritesGeneral
  <2> QED
    BY <2>2, <2>3, <2>4
<1> QED
  BY <1>5, <1>6, <1>7

LEMMA ExecuteAtOnceInStep == Types /\ InStep /\ ExecuteAtOnce => InStep'
<1> SUFFICES ASSUME Types, InStep, ExecuteAtOnce PROVE InStep'
  OBVIOUS
<1>1. execute.at = "run" /\ execute' = At("period") /\ execute.payload.op \notin {"load", "store"}
  BY DEF ExecuteAtOnce
<1>2. UNCHANGED <<phase, ins_index, cur, given, ref, issue, memory>>
  BY DEF ExecuteAtOnce, front, memories
<1>3. execute'.at = "period"
  BY <1>1, AtIs DEF Types, Idle
<1>4. issue' = None
  BY <1>1, <1>2 DEF InStep, UnderWay, Idle
<1>5. cur' = None /\ phase' = "edge" /\ ref'.pc = ins_index' /\ ref'.given = given'
  BY <1>1, <1>2, NotSettled DEF Settled
<1>6. ref'.regs = Regs' /\ ref'.memory = memory'
  <2>1. Yields(execute.payload, Regs, memory, ref)
    BY <1>1 DEF InStep, UnderWay
  <2> QED
    BY <1>1, <1>2, <2>1, ExecuteAtOnceWrites DEF Yields, Put
<1>7. UnderWay'
  BY <1>3, <1>4, <1>6 DEF UnderWay, AtHead
<1> QED
  BY <1>5, <1>7 DEF InStep, InDecode, Counted

\* An entry joins the queue of one memory.
LEMMA Appended ==
  ASSUME NEW q \in [Memories -> Seq({"scalar", "other"})], NEW m \in Memories,
         NEW x \in {"scalar", "other"}, NEW new, new = [q EXCEPT ![m] = Append(@, x)]
  PROVE  /\ new \in [Memories -> Seq({"scalar", "other"})]
         /\ \A n \in Memories : n # m => new[n] = q[n]
         /\ DOMAIN q[m] = 1 .. Len(q[m]) /\ Len(q[m]) \in Nat
         /\ DOMAIN new[m] = 1 .. Len(q[m]) + 1
         /\ \A k \in 1 .. Len(q[m]) : new[m][k] = q[m][k]
         /\ new[m][Len(q[m]) + 1] = x
         /\ q[m] # <<>> => new[m] # <<>> /\ Head(new[m]) = Head(q[m])
         /\ q[m] = <<>> => new[m] # <<>> /\ Head(new[m]) = x
<1>1. PICK s \in Seq({"scalar", "other"}) : s = q[m]
  OBVIOUS
<1>2. new[m] = Append(s, x)
  BY <1>1
<1>3. new \in [Memories -> Seq({"scalar", "other"})] /\ \A n \in Memories : n # m => new[n] = q[n]
  OBVIOUS
<1>4. PICK t : t = Append(s, x)
  OBVIOUS
<1>5. /\ DOMAIN s = 1 .. Len(s) /\ Len(s) \in Nat
      /\ DOMAIN t = 1 .. Len(s) + 1
      /\ \A k \in 1 .. Len(s) : t[k] = s[k]
      /\ t[Len(s) + 1] = x
  BY <1>4
<1>6. t # <<>>
  BY <1>4
<1>7. s # <<>> => Head(t) = Head(s)
  BY <1>4
<1>8. s = <<>> => Head(t) = x
  BY <1>4
<1>9. q[m] = s /\ new[m] = t
  BY <1>1, <1>2, <1>4
<1>10. /\ DOMAIN q[m] = 1 .. Len(q[m]) /\ Len(q[m]) \in Nat
       /\ DOMAIN new[m] = 1 .. Len(q[m]) + 1
       /\ \A k \in 1 .. Len(q[m]) : new[m][k] = q[m][k]
       /\ new[m][Len(q[m]) + 1] = x
  BY <1>5, <1>9
<1>11. /\ q[m] # <<>> => new[m] # <<>> /\ Head(new[m]) = Head(q[m])
       /\ q[m] = <<>> => new[m] # <<>> /\ Head(new[m]) = x
  BY <1>6, <1>7, <1>8, <1>9
<1> QED
  BY <1>3, <1>10, <1>11

\* The head leaves the queue of one memory.
LEMMA Tailed ==
  ASSUME NEW q \in [Memories -> Seq({"scalar", "other"})], NEW m \in Memories, q[m] # <<>>,
         NEW new, new = [q EXCEPT ![m] = Tail(@)]
  PROVE  /\ new \in [Memories -> Seq({"scalar", "other"})]
         /\ \A n \in Memories : n # m => new[n] = q[n]
         /\ Head(q[m]) = q[m][1] /\ 1 \in DOMAIN q[m]
         /\ \A k \in DOMAIN new[m] :
              k \in Nat /\ k >= 1 /\ k + 1 \in DOMAIN q[m] /\ new[m][k] = q[m][k + 1]
<1>1. PICK s \in Seq({"scalar", "other"}) : s = q[m] /\ s # <<>>
  OBVIOUS
<1>2. new[m] = Tail(s)
  BY <1>1
<1>3. PICK t : t = Tail(s)
  OBVIOUS
<1>4. /\ t \in Seq({"scalar", "other"}) /\ Head(s) = s[1] /\ 1 \in DOMAIN s
      /\ \A k \in DOMAIN t : k \in Nat /\ k >= 1 /\ k + 1 \in DOMAIN s /\ t[k] = s[k + 1]
  BY <1>1, <1>3
<1>5. \A n \in Memories : n # m => new[n] = q[n]
  OBVIOUS
<1>6. new \in [Memories -> Seq({"scalar", "other"})]
  BY <1>2, <1>3, <1>4
<1> QED
  BY <1>1, <1>2, <1>3, <1>4, <1>5, <1>6

LEMMA RequestAccessTypes == Types /\ RequestAccess => Types'
<1> SUFFICES ASSUME Types, RequestAccess PROVE Types'
  OBVIOUS
<1>1. PICK m \in Memories : m = MemoryOf[Address(execute.payload)]
  BY MemoriesAssumption DEF RequestAccess, Addresses
<1>2. /\ execute.at = "run" /\ execute.payload.op \in {"load", "store"}
      /\ execute' = At("access")
      /\ queue' = [queue EXCEPT ![m] = Append(@, "scalar")]
      /\ delayed' = (delayed \/ busy[m] \/ queue[m] # <<>>)
  BY <1>1 DEF RequestAccess
<1>3. UNCHANGED <<phase, cur, ref, general_regs, special_regs, issue, memory, busy>>
  BY DEF RequestAccess, front, registers
<1>4. ExecuteTypes(execute') /\ execute'.at = "access" /\ execute'.payload = execute.payload
  BY <1>2, AtTypes, AtIs DEF Types, Idle
<1>5. NoEntry(queue)
  BY <1>2, NoEntryIs DEF Types
<1>6. PICK q, new : q = queue /\ new = queue'
  OBVIOUS
<1>7. /\ new \in [Memories -> Seq({"scalar", "other"})]
      /\ \A n \in Memories : n # m => new[n] = q[n]
      /\ DOMAIN q[m] = 1 .. Len(q[m]) /\ Len(q[m]) \in Nat
      /\ DOMAIN new[m] = 1 .. Len(q[m]) + 1
      /\ \A k \in 1 .. Len(q[m]) : new[m][k] = q[m][k]
  <2>1. q \in [Memories -> Seq({"scalar", "other"})] /\ new = [q EXCEPT ![m] = Append(@, "scalar")]
    BY <1>2, <1>6 DEF Types
  <2> QED
    BY <2>1, Appended
<1>8. \A n \in Memories : \A k \in DOMAIN new[n] :
        new[n][k] = "scalar" => n = m /\ k = Len(q[m]) + 1
  <2>1. ASSUME NEW n \in Memories, NEW k \in DOMAIN new[n], new[n][k] = "scalar"
        PROVE  n = m /\ k = Len(q[m]) + 1
    <3>1. n = m
      BY <1>5, <1>6, <1>7, <2>1 DEF NoEntry
    <3>2. k \notin 1 .. Len(q[m])
      BY <1>5, <1>6, <1>7, <2>1, <3>1 DEF NoEntry
    <3> QED
      BY <1>7, <2>1, <3>1, <3>2
  <2> QED
    BY <2>1
<1>9. ScalarEntry(queue', execute')
  BY <1>1, <1>4, <1>6, <1>8 DEF ScalarEntry
<1>10. ScalarEntry(queue, execute)' /\ ExecuteTypes(execute)'
  BY <1>4, <1>9 DEF ScalarEntry, ExecuteTypes, Address, Idle
<1>11. delayed' \in BOOLEAN
  BY <1>2
<1> QED
  BY <1>3, <1>6, <1>7, <1>10, <1>11 DEF Types, RecordOf

\* If it has not been delayed, the access is the head of its queue.
LEMMA RequestAccessInStep == Types /\ InStep /\ RequestAccess => delayed' \/ InStep'
<1> SUFFICES ASSUME Types, InStep, RequestAccess, ~ delayed' PROVE InStep'
  OBVIOUS
<1>1. PICK m \in Memories : m = MemoryOf[Address(execute.payload)]
  BY MemoriesAssumption DEF RequestAccess, Addresses
<1>2. /\ execute.at = "run" /\ execute' = At("access")
      /\ queue' = [queue EXCEPT ![m] = Append(@, "scalar")]
      /\ delayed' = (delayed \/ busy[m] \/ queue[m] # <<>>)
      /\ Address(execute.payload) \in Addresses
  BY <1>1 DEF RequestAccess
<1>3. UNCHANGED <<phase, ins_index, cur, given, ref, general_regs, special_regs, issue, memory, busy>>
  BY DEF RequestAccess, front, registers
<1>4. execute'.at = "access" /\ execute'.payload = execute.payload
  BY <1>2, AtIs DEF Types, Idle
<1>5. PICK q, new : q = queue /\ new = queue'
  OBVIOUS
<1>6. ~ busy[m] /\ q[m] = <<>>
  BY <1>2, <1>5
<1>7. new[m] # <<>> /\ Head(new[m]) = "scalar"
  <2>1. q \in [Memories -> Seq({"scalar", "other"})] /\ new = [q EXCEPT ![m] = Append(@, "scalar")]
    BY <1>2, <1>5 DEF Types
  <2> QED
    BY <1>6, <2>1, Appended
<1>8. AtHead(execute', queue', busy')
  BY <1>1, <1>2, <1>3, <1>4, <1>5, <1>6, <1>7 DEF AtHead
<1>9. AtHead(execute, queue, busy)'
  BY <1>8 DEF AtHead, Address
<1>10. Regs' = Regs
  BY <1>3 DEF Regs
<1>11. issue' = None
  BY <1>2, <1>3 DEF InStep, UnderWay, Idle
<1>12. cur' = None /\ phase' = "edge" /\ ref'.pc = ins_index' /\ ref'.given = given'
  BY <1>2, <1>3, NotSettled DEF Settled
<1>13. Yields(execute'.payload, Regs', memory', ref')
  BY <1>2, <1>3, <1>4, <1>10 DEF InStep, UnderWay
<1>14. UnderWay'
  BY <1>4, <1>9, <1>11, <1>13 DEF UnderWay, Settled
<1> QED
  BY <1>12, <1>14 DEF InStep, InDecode, Counted

LEMMA FinishLoadTypes == Types /\ FinishLoad => Types'
<1> SUFFICES ASSUME Types, FinishLoad PROVE Types'
  OBVIOUS
<1>1. execute.at = "answered" /\ execute' = At("period")
  BY DEF FinishLoad
<1>2. UNCHANGED <<phase, cur, ref, issue, memory, queue, busy, delayed>>
  BY DEF FinishLoad, front, memories
<1>3. DOMAIN general_regs' = GeneralRegs /\ DOMAIN special_regs' = SpecialRegs
  BY DEF FinishLoad, WriteRegister, Types
<1>4. ExecuteTypes(execute') /\ execute'.at = "period"
  BY <1>1, AtTypes, AtIs DEF Types, Idle
<1>5. ScalarEntry(queue', execute')
  BY <1>1, <1>2, NoEntryIs DEF Types
<1>6. ScalarEntry(queue, execute)' /\ ExecuteTypes(execute)'
  BY <1>4, <1>5 DEF ScalarEntry, ExecuteTypes, Address, Idle
<1> QED
  BY <1>2, <1>3, <1>6 DEF Types, RecordOf

LEMMA FinishLoadInStep == Types /\ InStep /\ FinishLoad => InStep'
<1> SUFFICES ASSUME Types, InStep, FinishLoad PROVE InStep'
  OBVIOUS
<1>1. execute.at = "answered" /\ execute.payload.op = "load" /\ execute' = At("period")
  BY DEF FinishLoad
<1>2. UNCHANGED <<phase, ins_index, cur, given, ref, issue, memory>>
  BY DEF FinishLoad, front, memories
<1>3. execute'.at = "period"
  BY <1>1, AtIs DEF Types, Idle
<1>4. issue' = None
  BY <1>1, <1>2 DEF InStep, UnderWay, Idle
<1>5. cur' = None /\ phase' = "edge" /\ ref'.pc = ins_index' /\ ref'.given = given'
  BY <1>1, <1>2, NotSettled DEF Settled
<1>6. PICK g, h, s, id, v :
        /\ g = general_regs /\ h = general_regs' /\ s = special_regs
        /\ id = execute.payload.dst /\ v = execute.data
  OBVIOUS
<1>7. h = Put(g, id, v) /\ special_regs' = s /\ DOMAIN g = GeneralRegs
  BY <1>6 DEF FinishLoad, WriteRegister, Put, Types
<1>8. Regs' = Put(Regs, General(id), v)
  <2>1. RegsOf(h, s) = Put(RegsOf(g, s), General(id), v)
    BY <1>7, WritesGeneral
  <2>2. Regs' = RegsOf(general_regs', special_regs') /\ Regs = RegsOf(general_regs, special_regs)
    BY DEF Regs, RegsOf
  <2> QED
    BY <1>6, <1>7, <2>1, <2>2
<1>9. ref'.regs = Regs' /\ ref'.memory = memory'
  <2>1. Answered(execute, Regs, memory, ref)
    BY <1>1 DEF InStep, UnderWay
  <2>2. ref.regs = Put(Regs, General(id), v) /\ ref.memory = memory
    BY <1>1, <1>6, <2>1 DEF Answered, Put
  <2> QED
    BY <1>2, <1>8, <2>2
<1>10. UnderWay'
  BY <1>3, <1>4, <1>9 DEF UnderWay, AtHead
<1> QED
  BY <1>5, <1>10 DEF InStep, InDecode, Counted

LEMMA FinishStoreTypes == Types /\ FinishStore => Types'
<1> SUFFICES ASSUME Types, FinishStore PROVE Types'
  OBVIOUS
<1>1. execute.at = "answered" /\ execute' = Idle
  BY DEF FinishStore
<1>2. UNCHANGED <<phase, cur, ref, issue, general_regs, special_regs, memory, queue, busy, delayed>>
  BY DEF FinishStore, front, registers, memories
<1>3. ScalarEntry(queue', execute')
  BY <1>1, <1>2, NoEntryIs DEF Types
<1>4. ScalarEntry(queue, execute)' /\ ExecuteTypes(execute)'
  BY <1>1, <1>3 DEF ScalarEntry, ExecuteTypes, Address, Idle
<1> QED
  BY <1>2, <1>4 DEF Types, RecordOf

LEMMA FinishStoreInStep == Types /\ InStep /\ FinishStore => InStep'
<1> SUFFICES ASSUME Types, InStep, FinishStore PROVE InStep'
  OBVIOUS
<1>1. execute.at = "answered" /\ execute.payload.op = "store" /\ execute' = Idle
  BY DEF FinishStore
<1>2. UNCHANGED <<phase, ins_index, cur, given, ref, issue, general_regs, special_regs, memory>>
  BY DEF FinishStore, front, registers, memories
<1>3. execute'.at = "idle"
  BY <1>1 DEF Idle
<1>4. issue' = None
  BY <1>1, <1>2 DEF InStep, UnderWay, Idle
<1>5. cur' = None /\ phase' = "edge" /\ ref'.pc = ins_index' /\ ref'.given = given'
  BY <1>1, <1>2, NotSettled DEF Settled
<1>6. Regs' = Regs
  BY <1>2 DEF Regs
<1>7. ref'.regs = Regs' /\ ref'.memory = memory'
  BY <1>1, <1>2, <1>6 DEF InStep, UnderWay, Answered
<1>8. UnderWay'
  BY <1>3, <1>4, <1>7 DEF UnderWay, AtHead
<1> QED
  BY <1>5, <1>8 DEF InStep, InDecode, Counted

-----------------------------------------------------------------------------
(***************************************************************************)
(* The memories.                                                           *)
(***************************************************************************)

\* What a memory serves to the unit is what its stage has asked for.
LEMMA ServeScalarIs ==
  ASSUME Types, NEW m \in Memories, ServeScalar(m)
  PROVE  /\ execute.at = "access" /\ m = MemoryOf[Address(execute.payload)]
         /\ queue' \in [Memories -> Seq({"scalar", "other"})] /\ NoEntry(queue')
<1>1. PICK q, new : q = queue /\ new = queue'
  OBVIOUS
<1>2. q \in [Memories -> Seq({"scalar", "other"})] /\ q[m] # <<>> /\ Head(q[m]) = "scalar"
        /\ new = [q EXCEPT ![m] = Tail(@)]
  BY <1>1 DEF ServeScalar, CanServe, Types
<1>3. /\ new \in [Memories -> Seq({"scalar", "other"})]
      /\ \A n \in Memories : n # m => new[n] = q[n]
      /\ Head(q[m]) = q[m][1] /\ 1 \in DOMAIN q[m]
      /\ \A k \in DOMAIN new[m] :
           k \in Nat /\ k >= 1 /\ k + 1 \in DOMAIN q[m] /\ new[m][k] = q[m][k + 1]
  BY <1>2, Tailed
<1>4. \A n \in Memories : \A k \in DOMAIN q[n] :
        q[n][k] = "scalar" =>
          /\ execute.at = "access" /\ n = MemoryOf[Address(execute.payload)]
          /\ \A l \in DOMAIN q[n] : q[n][l] = "scalar" => l = k
  BY <1>1 DEF Types, ScalarEntry
<1>5. execute.at = "access" /\ m = MemoryOf[Address(execute.payload)]
  BY <1>2, <1>3, <1>4
<1>6. ASSUME NEW n \in Memories, NEW k \in DOMAIN new[n], new[n][k] = "scalar"
      PROVE  FALSE
  <2>1. n = m
    BY <1>3, <1>4, <1>5, <1>6
  <2>2. k \in Nat /\ k >= 1 /\ k + 1 \in DOMAIN q[m] /\ q[m][k + 1] = "scalar"
    BY <1>3, <1>6, <2>1
  <2>3. k + 1 = 1
    BY <1>2, <1>3, <1>4, <2>2
  <2> QED
    BY <2>2, <2>3
<1> QED
  BY <1>1, <1>3, <1>5, <1>6 DEF NoEntry

LEMMA ServeScalarTypes == ASSUME NEW m \in Memories PROVE Types /\ ServeScalar(m) => Types'
<1> SUFFICES ASSUME Types, ServeScalar(m) PROVE Types'
  OBVIOUS
<1>1. execute.at = "access" /\ queue' \in [Memories -> Seq({"scalar", "other"})] /\ NoEntry(queue')
  BY ServeScalarIs
<1>2. UNCHANGED <<phase, cur, ref, issue, general_regs, special_regs, busy, delayed>>
  BY DEF ServeScalar, front, registers
<1>3. DOMAIN memory' = Addresses
  BY DEF ServeScalar, Types
<1>4. execute # Idle /\ execute.payload.op \in {"load", "store"}
  BY <1>1 DEF Types, ExecuteTypes, Idle
<1>5. ExecuteTypes(execute')
  <2>1. CASE execute.payload.op = "load"
    <3>1. PICK p, d : p = execute.payload /\ d = memory[Address(p)]
      OBVIOUS
    <3>2. execute' = [at |-> "answered", payload |-> p, data |-> d]
      BY <2>1, <3>1 DEF ServeScalar
    <3>3. execute'.at = "answered" /\ execute'.payload = p /\ execute'.data = d
      BY <3>2
    <3> QED
      BY <1>4, <3>1, <3>2, <3>3 DEF ExecuteTypes
  <2>2. CASE execute.payload.op # "load"
    <3>1. execute' = At("answered")
      BY <2>2 DEF ServeScalar
    <3> QED
      BY <1>4, <3>1, AtTypes DEF Types
  <2> QED
    BY <2>1, <2>2
<1>6. ScalarEntry(queue', execute')
  BY <1>1, NoEntryIs
<1>7. ScalarEntry(queue, execute)' /\ ExecuteTypes(execute)'
  BY <1>5, <1>6 DEF ScalarEntry, ExecuteTypes, Address, Idle
<1> QED
  BY <1>1, <1>2, <1>3, <1>7 DEF Types, RecordOf

LEMMA ServeScalarInStep ==
  ASSUME NEW m \in Memories PROVE Types /\ InStep /\ ServeScalar(m) => InStep'
<1> SUFFICES ASSUME Types, InStep, ServeScalar(m) PROVE InStep'
  OBVIOUS
<1>1. execute.at = "access"
  BY ServeScalarIs
<1>2. UNCHANGED <<phase, ins_index, cur, given, ref, issue, general_regs, special_regs>>
  BY DEF ServeScalar, front, registers
<1>3. PICK p : p = execute.payload
  OBVIOUS
<1>4. p.op \in {"load", "store"} /\ execute # Idle
  BY <1>1, <1>3 DEF Types, ExecuteTypes, Idle
<1>5. issue' = None
  BY <1>1, <1>2 DEF InStep, UnderWay, Idle
<1>6. cur' = None /\ phase' = "edge" /\ ref'.pc = ins_index' /\ ref'.given = given'
  BY <1>1, <1>2, NotSettled DEF Settled
<1>7. Regs' = Regs
  BY <1>2 DEF Regs
<1>8. Yields(p, Regs, memory, ref)
  BY <1>1, <1>3 DEF InStep, UnderWay
<1>9. execute'.at = "answered" /\ Answered(execute', Regs', memory', ref')
  <2>1. CASE p.op = "load"
    <3>1. PICK d : d = memory[Address(p)]
      OBVIOUS
    <3>2. execute' = [at |-> "answered", payload |-> p, data |-> d] /\ memory' = memory
      BY <1>3, <2>1, <3>1 DEF ServeScalar
    <3>3. execute'.at = "answered" /\ execute'.payload = p /\ execute'.data = d
      BY <3>2
    <3>4. ref.regs = [Regs EXCEPT ![General(p.dst)] = d] /\ ref.memory = memory
      BY <1>8, <2>1, <3>1 DEF Yields
    <3> QED
      BY <1>2, <1>7, <2>1, <3>2, <3>3, <3>4 DEF Answered
  <2>2. CASE p.op = "store"
    <3>1. execute' = At("answered") /\ memory' = [memory EXCEPT ![Address(p)] = p.src2]
      BY <1>3, <2>2 DEF ServeScalar
    <3>2. execute'.at = "answered" /\ execute'.payload = p
      BY <1>3, <1>4, <3>1, AtIs DEF Types
    <3>3. ref.regs = Regs /\ ref.memory = memory'
      BY <1>8, <2>2, <3>1 DEF Yields
    <3> QED
      BY <1>2, <1>7, <2>2, <3>2, <3>3 DEF Answered
  <2> QED
    BY <1>4, <2>1, <2>2
<1>10. Answered(execute, Regs, memory, ref)'
  BY <1>9
<1>11. UnderWay'
  BY <1>5, <1>9, <1>10 DEF UnderWay, AtHead, Settled
<1> QED
  BY <1>6, <1>11 DEF InStep, InDecode, Counted

\* The other steps of a memory, and of time, are none of the core or the unit.
LEMMA QuietInStep ==
  ASSUME Types, InStep, UNCHANGED <<front, registers, issue, execute, memory>>,
         AtHead(execute', queue', busy'), phase' = phase \/ Settled
  PROVE  InStep'
<1>1. UNCHANGED <<ins_index, cur, given, ref, issue, execute, general_regs, special_regs, memory>>
  BY DEF front, registers
<1>2. Regs' = Regs
  BY <1>1 DEF Regs
<1>3. Settled' = Settled
  BY <1>1 DEF Settled
<1>4. InDecode'
  <2>1. phase' = "decode" => Settled'
    BY <1>3 DEF InStep, InDecode
  <2>2. ASSUME cur' # None
        PROVE  Settled' /\ ref'.pc = ins_index' + cur'.inc /\ Owes(cur', Regs', memory', given', ref')
    BY <1>1, <1>2, <1>3, <2>2 DEF InStep, InDecode
  <2> QED
    BY <2>1, <2>2 DEF InDecode
<1>5. Counted'
  BY <1>1 DEF InStep, Counted
<1>6. AtHead(execute, queue, busy)'
  BY DEF AtHead, Address
<1>7. UnderWay'
  <2>1. issue' # None => execute' = Idle /\ Yields(issue', Regs', memory', ref')
    BY <1>1, <1>2 DEF InStep, UnderWay
  <2>2. execute'.at \in {"run", "access"} => Yields(execute'.payload, Regs', memory', ref')
    BY <1>1, <1>2 DEF InStep, UnderWay
  <2>3. execute'.at = "answered" => Answered(execute', Regs', memory', ref')
    BY <1>1, <1>2 DEF InStep, UnderWay
  <2>4. Settled' /\ cur' = None => ref'.regs = Regs' /\ ref'.memory = memory'
    BY <1>1, <1>2, <1>3 DEF InStep, UnderWay
  <2>5. Answered(execute, Regs, memory, ref)' <=> Answered(execute', Regs', memory', ref')
    BY DEF Answered
  <2> QED
    BY <1>6, <2>1, <2>2, <2>3, <2>4, <2>5 DEF UnderWay
<1> QED
  BY <1>4, <1>5, <1>7 DEF InStep

\* Their types, given those of the queues.
LEMMA QuietTypes ==
  ASSUME Types, UNCHANGED <<front, registers, issue, execute, memory, delayed>>,
         phase' \in {"decode", "edge"}, queue' \in [Memories -> Seq({"scalar", "other"})],
         busy' \in [Memories -> BOOLEAN], ScalarEntry(queue', execute')
  PROVE  Types'
<1>1. ScalarEntry(queue, execute)'
  BY DEF ScalarEntry, Address
<1> QED
  BY <1>1 DEF Types, RecordOf, ExecuteTypes, front, registers

\* An access of another unit that is served is not before the one of the stage.
LEMMA ServeOtherTypes == ASSUME NEW m \in Memories PROVE Types /\ ServeOther(m) => Types'
<1> SUFFICES ASSUME Types, ServeOther(m) PROVE Types'
  OBVIOUS
<1>1. PICK q, new : q = queue /\ new = queue'
  OBVIOUS
<1>2. q \in [Memories -> Seq({"scalar", "other"})] /\ q[m] # <<>> /\ new = [q EXCEPT ![m] = Tail(@)]
  BY <1>1 DEF ServeOther, CanServe, Types
<1>3. /\ new \in [Memories -> Seq({"scalar", "other"})]
      /\ \A n \in Memories : n # m => new[n] = q[n]
      /\ \A k \in DOMAIN new[m] :
           k \in Nat /\ k >= 1 /\ k + 1 \in DOMAIN q[m] /\ new[m][k] = q[m][k + 1]
  BY <1>2, Tailed
<1>4. \A n \in Memories : \A k \in DOMAIN q[n] :
        q[n][k] = "scalar" =>
          /\ execute.at = "access" /\ n = MemoryOf[Address(execute.payload)]
          /\ \A l \in DOMAIN q[n] : q[n][l] = "scalar" => l = k
  BY <1>1 DEF Types, ScalarEntry
<1>5. UNCHANGED <<phase, front, registers, issue, execute, memory, delayed>>
  BY DEF ServeOther
<1>6. ASSUME NEW n \in Memories, NEW k \in DOMAIN new[n], new[n][k] = "scalar"
      PROVE  /\ execute.at = "access" /\ n = MemoryOf[Address(execute.payload)]
             /\ \A l \in DOMAIN new[n] : new[n][l] = "scalar" => l = k
  <2>1. CASE n # m
    BY <1>3, <1>4, <1>6, <2>1
  <2>2. CASE n = m
    <3>1. k \in Nat /\ k + 1 \in DOMAIN q[m] /\ q[m][k + 1] = "scalar"
      BY <1>3, <1>6, <2>2
    <3>2. ASSUME NEW l \in DOMAIN new[m], new[m][l] = "scalar"
          PROVE  l = k
      <4>1. l \in Nat /\ l + 1 \in DOMAIN q[m] /\ q[m][l + 1] = "scalar"
        BY <1>3, <3>2
      <4>2. l + 1 = k + 1
        BY <1>4, <3>1, <4>1
      <4> QED
        BY <3>1, <4>1, <4>2
    <3>3. execute.at = "access" /\ m = MemoryOf[Address(execute.payload)]
      BY <1>4, <3>1
    <3> QED
      BY <2>2, <3>2, <3>3
  <2> QED
    BY <2>1, <2>2
<1>7. ScalarEntry(queue', execute')
  BY <1>1, <1>5, <1>6 DEF ScalarEntry
<1>8. busy' \in [Memories -> BOOLEAN]
  BY DEF ServeOther, Types
<1>9. phase' \in {"decode", "edge"} /\ UNCHANGED <<front, registers, issue, execute, memory, delayed>>
  BY <1>5 DEF Types
<1> QED
  BY <1>1, <1>3, <1>7, <1>8, <1>9, QuietTypes

LEMMA ServeOtherInStep ==
  ASSUME NEW m \in Memories PROVE Types /\ InStep /\ ServeOther(m) => InStep'
<1> SUFFICES ASSUME Types, InStep, ServeOther(m) PROVE InStep'
  OBVIOUS
<1>1. UNCHANGED <<phase, front, registers, issue, execute, memory>>
  BY DEF ServeOther
<1>2. AtHead(execute', queue', busy')
  <2>1. SUFFICES ASSUME execute.at = "access" PROVE AtHead(execute', queue', busy')
    BY <1>1 DEF AtHead
  <2>2. PICK n \in Memories : n = MemoryOf[Address(execute.payload)]
    BY <2>1, MemoriesAssumption DEF InStep, UnderWay, AtHead, Addresses
  <2>3. /\ Address(execute.payload) \in Addresses
        /\ queue[n] # <<>> /\ Head(queue[n]) = "scalar" /\ ~ busy[n]
    BY <2>1, <2>2 DEF InStep, UnderWay, AtHead
  <2>4. n # m
    BY <2>3 DEF ServeOther
  <2>5. queue'[n] = queue[n] /\ busy'[n] = busy[n]
    BY <2>2, <2>4 DEF ServeOther, Types
  <2> QED
    BY <1>1, <2>2, <2>3, <2>5 DEF AtHead
<1> QED
  BY <1>1, <1>2, QuietInStep

LEMMA EndAccessTypes == ASSUME NEW m \in Memories PROVE Types /\ EndAccess(m) => Types'
<1> SUFFICES ASSUME Types, EndAccess(m) PROVE Types'
  OBVIOUS
<1>1. UNCHANGED <<phase, front, registers, issue, execute, queue, memory, delayed>>
  BY DEF EndAccess
<1>2. busy' \in [Memories -> BOOLEAN]
  BY DEF EndAccess, Types
<1>3. /\ phase' \in {"decode", "edge"} /\ queue' \in [Memories -> Seq({"scalar", "other"})]
      /\ ScalarEntry(queue', execute')
      /\ UNCHANGED <<front, registers, issue, execute, memory, delayed>>
  BY <1>1 DEF Types
<1> QED
  BY <1>2, <1>3, QuietTypes

LEMMA EndAccessInStep ==
  ASSUME NEW m \in Memories PROVE Types /\ InStep /\ EndAccess(m) => InStep'
<1> SUFFICES ASSUME Types, InStep, EndAccess(m) PROVE InStep'
  OBVIOUS
<1>1. UNCHANGED <<phase, front, registers, issue, execute, queue, memory>>
  BY DEF EndAccess
<1>2. \A n \in Memories : ~ busy[n] => ~ busy'[n]
  BY DEF EndAccess, Types
<1>3. AtHead(execute', queue', busy')
  <2>1. SUFFICES ASSUME execute.at = "access" PROVE AtHead(execute', queue', busy')
    BY <1>1 DEF AtHead
  <2>2. PICK n \in Memories : n = MemoryOf[Address(execute.payload)]
    BY <2>1, MemoriesAssumption DEF InStep, UnderWay, AtHead, Addresses
  <2>3. /\ Address(execute.payload) \in Addresses
        /\ queue[n] # <<>> /\ Head(queue[n]) = "scalar" /\ ~ busy[n]
    BY <2>1, <2>2 DEF InStep, UnderWay, AtHead
  <2> QED
    BY <1>1, <1>2, <2>2, <2>3 DEF AtHead
<1> QED
  BY <1>1, <1>3, QuietInStep

LEMMA OtherAccessTypes == ASSUME NEW m \in Memories PROVE Types /\ OtherAccess(m) => Types'
<1> SUFFICES ASSUME Types, OtherAccess(m) PROVE Types'
  OBVIOUS
<1>1. PICK q, new : q = queue /\ new = queue'
  OBVIOUS
<1>2. q \in [Memories -> Seq({"scalar", "other"})] /\ new = [q EXCEPT ![m] = Append(@, "other")]
  BY <1>1 DEF OtherAccess, Types
<1>3. /\ new \in [Memories -> Seq({"scalar", "other"})]
      /\ \A n \in Memories : n # m => new[n] = q[n]
      /\ DOMAIN q[m] = 1 .. Len(q[m]) /\ Len(q[m]) \in Nat
      /\ DOMAIN new[m] = 1 .. Len(q[m]) + 1
      /\ \A k \in 1 .. Len(q[m]) : new[m][k] = q[m][k]
      /\ new[m][Len(q[m]) + 1] = "other"
  BY <1>2, Appended
<1>4. \A n \in Memories : \A k \in DOMAIN new[n] :
        new[n][k] = "scalar" => k \in DOMAIN q[n] /\ q[n][k] = "scalar"
  <2>1. ASSUME NEW n \in Memories, NEW k \in DOMAIN new[n], new[n][k] = "scalar"
        PROVE  k \in DOMAIN q[n] /\ q[n][k] = "scalar"
    <3>1. CASE n # m
      BY <1>3, <2>1, <3>1
    <3>2. CASE n = m
      <4>1. k # Len(q[m]) + 1
        BY <1>3, <2>1, <3>2
      <4>2. k \in 1 .. Len(q[m])
        BY <1>3, <2>1, <3>2, <4>1
      <4> QED
        BY <1>3, <2>1, <3>2, <4>2
    <3> QED
      BY <3>1, <3>2
  <2> QED
    BY <2>1
<1>5. UNCHANGED <<phase, front, registers, issue, execute, memory, delayed, busy>>
  BY DEF OtherAccess
<1>6. ScalarEntry(queue', execute')
  <2>1. \A n \in Memories : \A k \in DOMAIN q[n] :
          q[n][k] = "scalar" =>
            /\ execute.at = "access" /\ n = MemoryOf[Address(execute.payload)]
            /\ \A l \in DOMAIN q[n] : q[n][l] = "scalar" => l = k
    BY <1>1 DEF Types, ScalarEntry
  <2>2. \A n \in Memories : \A k \in DOMAIN new[n] :
          new[n][k] = "scalar" =>
            /\ execute.at = "access" /\ n = MemoryOf[Address(execute.payload)]
            /\ \A l \in DOMAIN new[n] : new[n][l] = "scalar" => l = k
    BY <1>4, <2>1
  <2> QED
    BY <1>1, <1>5, <2>2 DEF ScalarEntry
<1>7. /\ phase' \in {"decode", "edge"} /\ busy' \in [Memories -> BOOLEAN]
      /\ UNCHANGED <<front, registers, issue, execute, memory, delayed>>
  BY <1>5 DEF Types
<1> QED
  BY <1>1, <1>3, <1>6, <1>7, QuietTypes

LEMMA OtherAccessInStep ==
  ASSUME NEW m \in Memories PROVE Types /\ InStep /\ OtherAccess(m) => InStep'
<1> SUFFICES ASSUME Types, InStep, OtherAccess(m) PROVE InStep'
  OBVIOUS
<1>1. UNCHANGED <<phase, front, registers, issue, execute, busy, memory>>
  BY DEF OtherAccess
<1>2. AtHead(execute', queue', busy')
  <2>1. SUFFICES ASSUME execute.at = "access" PROVE AtHead(execute', queue', busy')
    BY <1>1 DEF AtHead
  <2>2. PICK n \in Memories : n = MemoryOf[Address(execute.payload)]
    BY <2>1, MemoriesAssumption DEF InStep, UnderWay, AtHead, Addresses
  <2>3. /\ Address(execute.payload) \in Addresses
        /\ queue[n] # <<>> /\ Head(queue[n]) = "scalar" /\ ~ busy[n]
    BY <2>1, <2>2 DEF InStep, UnderWay, AtHead
  <2>4. PICK q, new : q = queue /\ new = queue'
    OBVIOUS
  <2>5. new[n] # <<>> /\ Head(new[n]) = "scalar"
    <3>1. /\ q \in [Memories -> Seq({"scalar", "other"})]
          /\ new = [q EXCEPT ![m] = Append(@, "other")]
      BY <2>4 DEF OtherAccess, Types
    <3>2. /\ \A k \in Memories : k # m => new[k] = q[k]
          /\ q[m] # <<>> => new[m] # <<>> /\ Head(new[m]) = Head(q[m])
      BY <3>1, Appended
    <3> QED
      BY <2>2, <2>3, <2>4, <3>2
  <2> QED
    BY <1>1, <2>2, <2>3, <2>4, <2>5 DEF AtHead
<1> QED
  BY <1>1, <1>2, QuietInStep

LEMMA AdvanceTimeTypes == Types /\ AdvanceTime => Types'
<1> SUFFICES ASSUME Types, AdvanceTime PROVE Types'
  OBVIOUS
<1>1. UNCHANGED <<front, registers, issue, execute, memory, delayed, queue, busy>> /\ phase' = "decode"
  BY DEF AdvanceTime, memories
<1>2. /\ queue' \in [Memories -> Seq({"scalar", "other"})] /\ busy' \in [Memories -> BOOLEAN]
      /\ ScalarEntry(queue', execute')
  BY <1>1 DEF Types
<1> QED
  BY <1>1, <1>2, QuietTypes

\* Time waits for the unit, and for the memory that can serve it.
LEMMA AdvanceTimeInStep == Types /\ InStep /\ AdvanceTime => InStep'
<1> SUFFICES ASSUME Types, InStep, AdvanceTime PROVE InStep'
  OBVIOUS
<1>1. UNCHANGED <<front, registers, issue, execute, memory, queue, busy>>
  BY DEF AdvanceTime, memories
<1>2. ~ Active
  BY DEF AdvanceTime
<1>3. issue = None
  BY <1>2 DEF Active, InStep, UnderWay
<1>4. execute.at \notin {"run", "answered"}
  BY <1>2 DEF Active
<1>5. execute.at # "access"
  <2>1. SUFFICES ASSUME execute.at = "access" PROVE FALSE
    OBVIOUS
  <2>2. PICK n \in Memories : n = MemoryOf[Address(execute.payload)]
    BY <2>1, MemoriesAssumption DEF InStep, UnderWay, AtHead, Addresses
  <2>3. queue[n] # <<>> /\ ~ busy[n]
    BY <2>1, <2>2 DEF InStep, UnderWay, AtHead
  <2> QED
    BY <1>2, <2>3 DEF Active, CanServe
<1>6. Settled
  BY <1>3, <1>4, <1>5 DEF Settled, Types, ExecuteTypes, Idle
<1>7. AtHead(execute', queue', busy')
  BY <1>1, <1>5 DEF AtHead
<1> QED
  BY <1>1, <1>6, <1>7, QuietInStep

-----------------------------------------------------------------------------
(***************************************************************************)
(* Every step.                                                             *)
(***************************************************************************)
LEMMA NextTypes == Types /\ [Next]_vars => Types'
<1> SUFFICES ASSUME Types, [Next]_vars PROVE Types'
  OBVIOUS
<1>1. CASE ProcessDecode
  BY <1>1, ProcessDecodeTypes
<1>2. CASE \E stall \in BOOLEAN : Edge(stall)
  BY <1>2, EdgeTypes
<1>3. CASE Unit
  BY <1>3, StartExecuteTypes, ExecuteAtOnceTypes, RequestAccessTypes, FinishLoadTypes,
     FinishStoreTypes DEF Unit
<1>4. CASE \E m \in Memories : ServeScalar(m) \/ ServeOther(m) \/ EndAccess(m) \/ OtherAccess(m)
  BY <1>4, ServeScalarTypes, ServeOtherTypes, EndAccessTypes, OtherAccessTypes
<1>5. CASE AdvanceTime
  BY <1>5, AdvanceTimeTypes
<1>6. CASE UNCHANGED vars
  BY <1>6 DEF vars, front, registers, memories, Types, RecordOf, ScalarEntry, ExecuteTypes, Address
<1> QED
  BY <1>1, <1>2, <1>3, <1>4, <1>5, <1>6 DEF Next

LEMMA NextInStep == Types /\ InStep /\ [Next]_vars => delayed' \/ InStep'
<1> SUFFICES ASSUME Types, InStep, [Next]_vars PROVE delayed' \/ InStep'
  OBVIOUS
<1>1. CASE ProcessDecode
  BY <1>1, ProcessDecodeInStep
<1>2. CASE \E stall \in BOOLEAN : Edge(stall)
  BY <1>2, EdgeInStep
<1>3. CASE Unit
  BY <1>3, StartExecuteInStep, ExecuteAtOnceInStep, RequestAccessInStep, FinishLoadInStep,
     FinishStoreInStep DEF Unit
<1>4. CASE \E m \in Memories : ServeScalar(m) \/ ServeOther(m) \/ EndAccess(m) \/ OtherAccess(m)
  BY <1>4, ServeScalarInStep, ServeOtherInStep, EndAccessInStep, OtherAccessInStep
<1>5. CASE AdvanceTime
  BY <1>5, AdvanceTimeInStep
<1>6. CASE UNCHANGED vars
  <2>1. UNCHANGED <<phase, front, registers, issue, execute, memory, queue, busy>>
    BY <1>6 DEF vars, memories
  <2>2. AtHead(execute', queue', busy')
    BY <2>1 DEF InStep, UnderWay
  <2> QED
    BY <2>1, <2>2, QuietInStep
<1> QED
  BY <1>1, <1>2, <1>3, <1>4, <1>5, <1>6 DEF Next

\* What had to queue has had to.
LEMMA DelayedStays == delayed /\ [Next]_vars => delayed'
BY DEF Next, vars, front, memories, ProcessDecode, Edge, Unit, StartExecute, ExecuteAtOnce,
       RequestAccess, FinishLoad, FinishStore, ServeScalar, ServeOther, EndAccess, OtherAccess,
       AdvanceTime

LEMMA Invariant == Spec => []Inv
<1>1. Init => Inv
  BY InitHolds
<1>2. Inv /\ [Next]_vars => Inv'
  BY NextTypes, NextInStep, DelayedStays DEF Inv
<1> QED
  BY <1>1, <1>2, PTL DEF Spec

(***************************************************************************)
(* The state keeps its types: the one scalar access in a queue is the one  *)
(* that the stage of the unit waits for (scalar_unit.cpp:66-105,           *)
(* memory.cpp:43-80).                                                      *)
(***************************************************************************)
THEOREM TypeOKHolds == Spec => []TypeOK
<1>1. Inv => TypeOK
  BY DEF Inv, Types, ExecuteTypes, ScalarEntry, TypeOK, Idle
<1> QED
  BY <1>1, Invariant, PTL

(***************************************************************************)
(* For any program, a register has its value when the decoder reads it, as *)
(* long as no load or store has had to queue: what is left by the time     *)
(* decode runs is what instructions executed one after the other leave     *)
(* (decoder_v2.cpp:104-140, scalar_unit.cpp:66-77).                        *)
(***************************************************************************)
THEOREM DecodesSequentiallyHolds == Spec => []DecodesSequentially
<1>1. Inv => DecodesSequentially
  <2> SUFFICES ASSUME Inv, phase = "decode", cur = None, ~ delayed PROVE Architecture = ref
    BY DEF DecodesSequentially
  <2>1. InStep /\ Settled
    BY DEF Inv, InStep, InDecode
  <2>2. ref.pc = ins_index /\ ref.given = given /\ ref.regs = Regs /\ ref.memory = memory
    BY <2>1 DEF InStep, Counted, UnderWay
  <2>3. ref = [pc |-> ref.pc, regs |-> ref.regs, memory |-> ref.memory, given |-> ref.given]
    BY DEF Inv, Types, RecordOf
  <2>4. Architecture = [pc |-> ins_index, regs |-> Regs, memory |-> memory, given |-> given]
    BY DEF Architecture, Regs, RegsOf
  <2> QED
    BY <2>2, <2>3, <2>4
<1> QED
  BY <1>1, Invariant, PTL

=============================================================================
