----------------------------- MODULE AddressSpace -----------------------------
(***************************************************************************)
(* What is built from a configuration, once it has been accepted: the      *)
(* address space (address_space/address_space.cpp), the memories that      *)
(* stand in it (memory/memory_unit.cpp and the three kinds of hardware),   *)
(* and the tables of the decoder, by which it finds functors               *)
(* (core/decoder/decoder.h) and data paths                                 *)
(* (core/decoder/data_path_manager.cpp).                                   *)
(***************************************************************************)
EXTENDS Configuration, SequencesExt, Bitwise

CONSTANTS
  PathIdBits,    \* LOG2_CEIL_LOCAL_MEMORY_COUNT_MAX, 5 in the code
  OpcodeBits     \* SIMD_INSTRUCTION_OPCODE_BIT_LENGTH, 8 in the code

ERROR_MEMORY_ID == -10
ERROR_MEMORY_AS_OFFSET == -1
None == [name |-> <<>>]

-----------------------------------------------------------------------------
(***************************************************************************)
(* The address space: the parts one after the other, the duplicates of a   *)
(* memory each in a part of its own, local and global ids counted apart.   *)
(***************************************************************************)
PartSize(element, info) == IF element.size < 0 THEN info.size ELSE element.size

AppendPart(parts, name, info, size) ==
  Append(parts,
    [name |-> name, is_global |-> info.is_global, size |-> size,
     memory_id |-> Cardinality({k \in DOMAIN parts : parts[k].is_global = info.is_global}),
     as_offset |-> IF parts = <<>> THEN 0 ELSE Last(parts).as_offset + Last(parts).size])

AppendElement(parts, element, infos) ==
  LET info == infos[element.name]
      ids == [k \in 1 .. info.duplicate_cnt |-> k - 1]
  IN  FoldLeft(LAMBDA acc, id : AppendPart(acc, DuplicateMemoryName(element.name, id), info,
                                           PartSize(element, info)),
               parts, ids)

BuildAddressSpace(chip) ==
  FoldLeft(LAMBDA acc, element : AppendElement(acc, element, MemoryInfoMap(chip)),
           <<>>, chip.address_space_config)

\* as_name_map_: the first of a name stays.
ByName(as, name) == SelectInSeq(as, LAMBDA p : p.name = name)

MemoryId(as, name) ==
  IF ByName(as, name) = 0 THEN ERROR_MEMORY_ID ELSE as[ByName(as, name)].memory_id

MemoryAddressSpaceOffset(as, name) ==
  IF ByName(as, name) = 0 THEN ERROR_MEMORY_AS_OFFSET ELSE as[ByName(as, name)].as_offset

MemoryCount(as, is_global) == Len(SelectSeq(as, LAMBDA p : p.is_global = is_global))

\* as_address_map_: the last part that begins at or before an address, however far it is.
ByAddress(as, address_byte) == SelectLastInSeq(as, LAMBDA p : p.as_offset <= address_byte)

IdByAddress(as, address_byte, is_global) ==
  LET k == ByAddress(as, address_byte)
  IN  IF k # 0 /\ as[k].is_global = is_global THEN as[k].memory_id ELSE ERROR_MEMORY_ID

LocalMemoryId(as, address_byte) == IdByAddress(as, address_byte, FALSE)
GlobalMemoryId(as, address_byte) == IdByAddress(as, address_byte, TRUE)

IsAddressGlobal(as, address_byte) ==
  ByAddress(as, address_byte) # 0 /\ as[ByAddress(as, address_byte)].is_global

\* Below the first part, memory 0, local.
MemoryInfoByAddress(as, address_byte) ==
  LET k == ByAddress(as, address_byte)
  IN  IF k = 0 THEN <<0, FALSE>> ELSE <<as[k].memory_id, as[k].is_global>>

-----------------------------------------------------------------------------
(***************************************************************************)
(* The hardware of a memory: whether an access is inside, how long it      *)
(* takes, in periods, and how often it counts the power of a word.         *)
(***************************************************************************)
RAMHardware(name, c) ==
  [name |-> name, kind |-> "ram", size |-> c.size_byte, config |-> c]
RegBufferHardware(name, c) ==
  [name |-> name, kind |-> "reg_buffer", size |-> c.size_byte, config |-> c]
CimHardware(c) ==
  [name |-> c.name_as_memory, kind |-> "cim", size |-> CimByteSize(c), config |-> c]

Overflows(hw, address_byte, size_byte) ==
  address_byte < 0 \/ address_byte + size_byte > hw.size

Min2(a, b) == IF a < b THEN a ELSE b

RAMDelay(c, size_byte, write) ==
  IntDivCeil(size_byte, c.width_byte)
    * (IF write THEN c.write_latency_cycle ELSE c.read_latency_cycle)

\* A read is there at once, yet counts the power of a period.
RegBufferDelay(c, size_byte, write) == IF write THEN 1 ELSE 0
RegBufferUnits(c, size_byte, write) ==
  IntDivCeil(Min2(size_byte, IF write THEN c.write_max_width_byte ELSE c.read_max_width_byte),
             c.rw_min_unit_byte)

CimDelay(c, size_byte, write) ==
  IntDivCeil(size_byte * BYTE_TO_BIT, CimBitWidth(c))
    * (IF write THEN c.sram.write_latency_cycle ELSE c.sram.read_latency_cycle)

\* No delay, no activity and no data if it is not inside.
AccessAndGetDelay(hw, address_byte, size_byte, write) ==
  IF Overflows(hw, address_byte, size_byte) THEN [ok |-> FALSE, delay |-> 0]
  ELSE [ok |-> TRUE,
        delay |-> CASE hw.kind = "ram" -> RAMDelay(hw.config, size_byte, write)
                    [] hw.kind = "reg_buffer" -> RegBufferDelay(hw.config, size_byte, write)
                    [] hw.kind = "cim" -> CimDelay(hw.config, size_byte, write)]

\* The period of activity a register buffer counts, and the words it counts it for.
ActivityOf(hw, size_byte, write) ==
  IF hw.kind = "reg_buffer"
    THEN [latency |-> 1, units |-> RegBufferUnits(hw.config, size_byte, write)]
    ELSE [latency |-> AccessAndGetDelay(hw, 0, size_byte, write).delay, units |-> 1]

DataWidthByte(hw, write) ==
  CASE hw.kind = "ram" -> hw.config.width_byte
    [] hw.kind = "reg_buffer" -> IF write THEN hw.config.write_max_width_byte
                                          ELSE hw.config.read_max_width_byte
    [] hw.kind = "cim" -> CimByteWidth(hw.config)

-----------------------------------------------------------------------------
(***************************************************************************)
(* A memory unit: the hardware of its list, and the CIM unit mounted to a  *)
(* local one, each at the id the address space gives its name.             *)
(***************************************************************************)
Duplicates(c) ==
  [k \in 1 .. c.duplicate_cnt |->
     IF c.type = "ram" THEN RAMHardware(DuplicateMemoryName(c.name, k - 1), c.ram_config)
     ELSE RegBufferHardware(DuplicateMemoryName(c.name, k - 1), c.reg_buffer_config)]

HardwareOf(list) == FoldLeft(LAMBDA acc, c : acc \o Duplicates(c), <<>>, list)

UnitHardware(chip, is_global) ==
  IF is_global THEN HardwareOf(GlobalMemories(chip))
  ELSE HardwareOf(LocalMemories(chip)) \o <<CimHardware(chip.core_config.cim_unit_config)>>

\* memory_list_, by id; of two memories with one id the later stays.
MemoryList(as, chip, is_global) ==
  FoldLeft(LAMBDA list, hw : [list EXCEPT ![MemoryId(as, hw.name)] = hw],
           [id \in 0 .. MemoryCount(as, is_global) - 1 |-> None],
           UnitHardware(chip, is_global))

\* A memory unit's access: the memory of an address, and what it is asked for there.
UnitAccess(as, chip, is_global, address_byte, size_byte, write) ==
  LET id == IF is_global THEN GlobalMemoryId(as, address_byte) ELSE LocalMemoryId(as, address_byte)
      hw == MemoryList(as, chip, is_global)[id]
      local_address == address_byte - MemoryAddressSpaceOffset(as, hw.name)
  IN  [hw |-> hw, at |-> local_address,
       answer |-> AccessAndGetDelay(hw, local_address, size_byte, write)]

-----------------------------------------------------------------------------
(***************************************************************************)
(* Functors.                                                               *)
(***************************************************************************)
\* The key of simd_ins_config_map_.
IdentityCode(input_cnt, opcode) == (input_cnt * 2^OpcodeBits) | opcode

SIMDInstruction(unit, input_cnt, opcode) ==
  SelectInSeq(unit.instruction_list,
    LAMBDA i : IdentityCode(i.input_cnt, i.opcode) = IdentityCode(input_cnt, opcode))

FunctorByName(unit, name) == SelectInSeq(unit.functor_list, LAMBDA f : f.name = name)

\* The functor of the first binding with these widths; none if there is no such.
SIMDFunctor(unit, input_cnt, opcode, widths) ==
  LET k == SIMDInstruction(unit, input_cnt, opcode)
      list == IF k = 0 THEN <<>> ELSE unit.instruction_list[k].functor_binding_list
      Fits(b) == /\ b.input_bit_width.inputs = widths
                 /\ FunctorByName(unit, b.functor_name) # 0
                 /\ LET f == unit.functor_list[FunctorByName(unit, b.functor_name)]
                    IN  f.input_cnt = input_cnt /\ f.data_bit_width.inputs = widths
      first == SelectInSeq(list, Fits)
  IN  IF first = 0 THEN None ELSE unit.functor_list[FunctorByName(unit, list[first].functor_name)]

ReduceFunctor(unit, funct, input_bit_width, output_bit_width) ==
  LET k == SelectInSeq(unit.functor_list, LAMBDA f : f.funct = funct)
  IN  IF /\ k # 0
         /\ unit.functor_list[k].input_bit_width = input_bit_width
         /\ unit.functor_list[k].output_bit_width = output_bit_width
        THEN unit.functor_list[k] ELSE None

\* The widths the decoder asks for: those of the special registers, 0 for inputs
\* that the instruction does not have.
DecodedWidths(input_cnt, widths) == [k \in Inputs |-> IF k <= input_cnt THEN widths[k] ELSE 0]

-----------------------------------------------------------------------------
(***************************************************************************)
(* Data paths.  The id of a pair has one memory in its upper bits: with    *)
(* more than 2^PathIdBits memories two pairs may have one id.              *)
(***************************************************************************)
Max2(a, b) == IF a < b THEN b ELSE a
MemoryPairUniqueId(id1, id2) == (Min2(id1, id2) * 2^PathIdBits) | Max2(id1, id2)

PairIds(as, path) ==
  {MemoryPairUniqueId(MemoryId(as, DuplicateMemoryName(p.memory_1.name, p.memory_1.duplicate_id)),
                      MemoryId(as, DuplicateMemoryName(p.memory_2.name, p.memory_2.duplicate_id))) :
     p \in Elements(path.memory_pair_list)}

ContainsMemoryPair(as, path, id1, id2) ==
  id1 >= 0 /\ id2 >= 0 /\ MemoryPairUniqueId(id1, id2) \in PairIds(as, path)

IntraCoreBus == [type |-> "intra_core_bus", id |-> 0]

DecodedDataPath(as, paths, src_id, dst_id) ==
  LET k == SelectInSeq(paths, LAMBDA p : ContainsMemoryPair(as, p, src_id, dst_id))
  IN  IF k = 0 THEN IntraCoreBus ELSE [type |-> "local_dedicated_data_path", id |-> paths[k].id]

=============================================================================
