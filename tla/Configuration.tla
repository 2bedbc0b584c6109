---------------------------- MODULE Configuration ----------------------------
(***************************************************************************)
(* The configuration of a simulation (config/config.h) and what            *)
(* Config::checkValid accepts (config/config.cpp): the only filter between *)
(* a JSON file and the hardware built from it.                             *)
(*                                                                         *)
(* A name is a sequence: <<"ram">>, or <<"ram", 1>> for the text that has  *)
(* the delimiter of duplicate memories in it; the empty text is <<>>.      *)
(* Powers, and other numbers only energy is computed from, are a set.      *)
(***************************************************************************)
EXTENDS Integers, Sequences, FiniteSets

CONSTANTS
  Names,                             \* names that configurations use
  SPECIAL_REG_NUM, GENERAL_REG_NUM,  \* constant.h
  SIMD_MAX_OPCODE, REDUCE_MAX_FUNCT,
  BYTE_TO_BIT

SIMD_MAX_INPUT_NUM == 4

-----------------------------------------------------------------------------
(***************************************************************************)
(* The structures.                                                         *)
(***************************************************************************)
Powers == SUBSET Int
Inputs == 1 .. SIMD_MAX_INPUT_NUM

ControlUnitConfig == [powers : Powers]
SpecialRegisterBindingConfig == [special : Int, general : Int]
RegisterUnitConfig == [powers : Powers, special_register_binding : Seq(SpecialRegisterBindingConfig)]
ScalarFunctorConfig == [inst_name : Names, powers : Powers]
ScalarUnitConfig == [powers : Powers, functor_list : Seq(ScalarFunctorConfig)]

SIMDDataWidthConfig == [inputs : [Inputs -> Int], output : Int]
SIMDFunctorConfig ==
  [name : Names, input_cnt : Nat, data_bit_width : SIMDDataWidthConfig, functor_cnt : Int,
   latency_cycle : Int, pipeline_stage_cnt : Int, powers : Powers]
SIMDInstructionFunctorBindingConfig ==
  [input_bit_width : SIMDDataWidthConfig, functor_name : Names]
SIMDInstructionConfig ==
  [name : Names, input_cnt : Nat, opcode : Nat,
   inputs_type : [Inputs -> {"vector", "scalar", "other"}],
   functor_binding_list : Seq(SIMDInstructionFunctorBindingConfig)]
SIMDUnitConfig ==
  [functor_list : Seq(SIMDFunctorConfig), instruction_list : Seq(SIMDInstructionConfig)]

ReduceFunctorConfig ==
  [name : Names, funct : Nat, input_bit_width : Int, output_bit_width : Int,
   reduce_input_cnt : Int, latency_cycle : Int, pipeline_stage_cnt : Int, powers : Powers]
ReduceUnitConfig == [functor_list : Seq(ReduceFunctorConfig)]

CimMacroSizeConfig ==
  [compartment_cnt_per_macro : Int, element_cnt_per_compartment : Int,
   row_cnt_per_element : Int, bit_width_per_row : Int]
CimModuleConfig == [latency_cycle : Int, pipeline_stage_cnt : Int, powers : Powers]
CimSRAMConfig ==
  [as_mode : {"intergroup", "intragroup", "other"}, write_latency_cycle : Int,
   read_latency_cycle : Int, powers : Powers]
CimValueSparseConfig ==
  [mask_bit_width : Int, latency_cycle : Int, output_macro_group_cnt : Int, powers : Powers]
CimBitSparseConfig ==
  [mask_bit_width : Int, latency_cycle : Int, unit_byte : Int, powers : Powers]
CimUnitConfig ==
  [macro_total_cnt : Int, macro_group_size : Int, macro_size : CimMacroSizeConfig,
   name_as_memory : Names, ipu : CimModuleConfig, sram : CimSRAMConfig,
   adder_tree : CimModuleConfig, shift_adder : CimModuleConfig, result_adder : CimModuleConfig,
   value_sparse : BOOLEAN, value_sparse_config : CimValueSparseConfig,
   bit_sparse : BOOLEAN, bit_sparse_config : CimBitSparseConfig, input_bit_sparse : BOOLEAN]

RAMConfig ==
  [size_byte : Int, width_byte : Int, write_latency_cycle : Int, read_latency_cycle : Int,
   powers : Powers, has_image : BOOLEAN, image_file : Names]
RegBufferConfig ==
  [size_byte : Int, read_max_width_byte : Int, write_max_width_byte : Int,
   rw_min_unit_byte : Int, powers : Powers, has_image : BOOLEAN, image_file : Names]
MemoryConfig ==
  [name : Names, type : {"ram", "reg_buffer", "other"}, duplicate_cnt : Int,
   ram_config : RAMConfig, reg_buffer_config : RegBufferConfig]
MemoryUnitConfig == [memory_list : Seq(MemoryConfig)]

DataPathMemoryConfig == [name : Names, duplicate_id : Int]
DataPathMemoryPairConfig == [memory_1 : DataPathMemoryConfig, memory_2 : DataPathMemoryConfig]
LocalDedicatedDataPathConfig == [id : Nat, memory_pair_list : Seq(DataPathMemoryPairConfig)]
TransferUnitConfig == [local_dedicated_data_path_list : Seq(LocalDedicatedDataPathConfig)]

CoreConfig ==
  [control_unit_config : ControlUnitConfig, register_unit_config : RegisterUnitConfig,
   scalar_unit_config : ScalarUnitConfig, simd_unit_config : SIMDUnitConfig,
   reduce_unit_config : ReduceUnitConfig, cim_unit_config : CimUnitConfig,
   local_memory_unit_config : MemoryUnitConfig, transfer_unit_config : TransferUnitConfig]
NetworkConfig == [bus_width_byte : Int, network_config_file_path : Names]
GlobalMemoryConfig ==
  [global_memory_unit_config : MemoryUnitConfig, global_memory_switch_id : Int]
AddressSpaceElementConfig == [name : Names, size : Int]
ChipConfig ==
  [core_cnt : Int, core_config : CoreConfig, global_memory_config : GlobalMemoryConfig,
   network_config : NetworkConfig, address_space_config : Seq(AddressSpaceElementConfig)]
SimConfig ==
  [period_ns : Int, sim_mode : {"run_until_time", "run_one_round", "other"},
   data_mode : {"real_data", "not_real_data", "other"}, sim_time_ms : Int]
Config == [chip_config : ChipConfig, sim_config : SimConfig]

-----------------------------------------------------------------------------
(***************************************************************************)
(* Helpers of the checks, and of util/util.h.                              *)
(***************************************************************************)
Elements(s) == {s[k] : k \in DOMAIN s}
Positive(numbers) == \A n \in numbers : n > 0
NotNegative(numbers) == \A n \in numbers : n >= 0
NoneTwice(key, list) == \A j, k \in DOMAIN list : list[j][key] = list[k][key] => j = k
Divides(b, a) == a % b = 0

\* Division of C, towards zero.
IntDivCeil(a, b) == (IF a - 1 < 0 THEN -((1 - a) \div b) ELSE (a - 1) \div b) + 1

Empty(name) == name = <<>>
HasDelimiter(name) == Len(name) > 1
DuplicateMemoryName(name, duplicate_id) ==
  IF duplicate_id = 0 THEN name ELSE Append(name, duplicate_id)

-----------------------------------------------------------------------------
(***************************************************************************)
(* Units of a core.                                                        *)
(***************************************************************************)
ControlUnitValid(c) == NotNegative(c.powers)

SpecialRegisterBindingValid(c) ==
  c.special \in 0 .. SPECIAL_REG_NUM - 1 /\ c.general \in 0 .. GENERAL_REG_NUM - 1

RegisterUnitValid(c) ==
  /\ NotNegative(c.powers)
  /\ \A e \in Elements(c.special_register_binding) : SpecialRegisterBindingValid(e)

ScalarFunctorValid(c) == ~ Empty(c.inst_name) /\ NotNegative(c.powers)

ScalarUnitValid(c) ==
  NotNegative(c.powers) /\ \A e \in Elements(c.functor_list) : ScalarFunctorValid(e)

DataWidthValid(width) == width \in {1, 2, 4, 8, 16, 32, 64}

\* Inputs the instruction does not have are not looked at.
SIMDDataWidthValid(c, input_cnt, check_output) ==
  /\ \A k \in 1 .. input_cnt : DataWidthValid(c.inputs[k])
  /\ check_output => DataWidthValid(c.output)

PipelineValid(c) ==
  /\ c.pipeline_stage_cnt > 0
  /\ NotNegative({c.latency_cycle} \cup c.powers)
  /\ Divides(c.pipeline_stage_cnt, c.latency_cycle)

SIMDFunctorValid(c) ==
  /\ ~ Empty(c.name)
  /\ c.input_cnt <= SIMD_MAX_INPUT_NUM
  /\ c.functor_cnt > 0
  /\ PipelineValid(c)
  /\ SIMDDataWidthValid(c.data_bit_width, c.input_cnt, TRUE)

SIMDBindingValid(c, input_cnt) ==
  ~ Empty(c.functor_name) /\ SIMDDataWidthValid(c.input_bit_width, input_cnt, FALSE)

SIMDInstructionValid(c) ==
  /\ ~ Empty(c.name)
  /\ c.input_cnt <= SIMD_MAX_INPUT_NUM
  /\ c.opcode <= SIMD_MAX_OPCODE
  /\ \A k \in 1 .. c.input_cnt : c.inputs_type[k] # "other"
  /\ \A b \in Elements(c.functor_binding_list) : SIMDBindingValid(b, c.input_cnt)

BindingMatches(binding, instruction, functors) ==
  \E f \in Elements(functors) :
    /\ f.name = binding.functor_name
    /\ f.input_cnt = instruction.input_cnt
    /\ f.data_bit_width.inputs = binding.input_bit_width.inputs

\* Mutant: bindings are not compared with their functors.
SIMDUnitValidUnbound(c) ==
  /\ \A e \in Elements(c.functor_list) : SIMDFunctorValid(e)
  /\ \A e \in Elements(c.instruction_list) : SIMDInstructionValid(e)
  /\ NoneTwice("name", c.functor_list)
  /\ NoneTwice("opcode", c.instruction_list)

SIMDUnitValid(c) ==
  /\ \A e \in Elements(c.functor_list) : SIMDFunctorValid(e)
  /\ \A e \in Elements(c.instruction_list) : SIMDInstructionValid(e)
  /\ NoneTwice("name", c.functor_list)
  /\ NoneTwice("opcode", c.instruction_list)
  /\ \A i \in Elements(c.instruction_list) : \A b \in Elements(i.functor_binding_list) :
       BindingMatches(b, i, c.functor_list)

ReduceFunctorValid(c) ==
  /\ ~ Empty(c.name)
  /\ c.funct <= REDUCE_MAX_FUNCT
  /\ DataWidthValid(c.input_bit_width) /\ DataWidthValid(c.output_bit_width)
  /\ c.reduce_input_cnt > 0
  /\ PipelineValid(c)

ReduceUnitValid(c) ==
  /\ \A e \in Elements(c.functor_list) : ReduceFunctorValid(e)
  /\ NoneTwice("funct", c.functor_list)

-----------------------------------------------------------------------------
(***************************************************************************)
(* The CIM unit, which is a memory too.                                    *)
(***************************************************************************)
CimMacroSizeValid(c) ==
  Positive({c.compartment_cnt_per_macro, c.element_cnt_per_compartment,
            c.row_cnt_per_element, c.bit_width_per_row})

CimModuleValid(c) == PipelineValid(c)

CimSRAMValid(c) ==
  /\ c.as_mode # "other"
  /\ NotNegative({c.write_latency_cycle, c.read_latency_cycle} \cup c.powers)

CimValueSparseValid(c) ==
  /\ Positive({c.mask_bit_width, c.output_macro_group_cnt})
  /\ NotNegative({c.latency_cycle} \cup c.powers)

CimBitSparseValid(c) ==
  /\ Positive({c.mask_bit_width, c.unit_byte})
  /\ NotNegative({c.latency_cycle} \cup c.powers)

CimByteSize(c) ==
  IntDivCeil(c.macro_size.bit_width_per_row * c.macro_size.row_cnt_per_element
               * c.macro_size.element_cnt_per_compartment
               * c.macro_size.compartment_cnt_per_macro * c.macro_total_cnt, BYTE_TO_BIT)

CimBitWidth(c) ==
  c.macro_size.bit_width_per_row * c.macro_size.element_cnt_per_compartment
    * (IF c.sram.as_mode = "intergroup" THEN c.macro_total_cnt ELSE c.macro_group_size)

CimByteWidth(c) == IntDivCeil(CimBitWidth(c), BYTE_TO_BIT)

CimUnitValid(c) ==
  /\ Positive({c.macro_total_cnt, c.macro_group_size})
  /\ Divides(c.macro_group_size, c.macro_total_cnt)
  /\ ~ Empty(c.name_as_memory) /\ ~ HasDelimiter(c.name_as_memory)
  /\ CimMacroSizeValid(c.macro_size)
  /\ CimModuleValid(c.ipu)
  /\ CimSRAMValid(c.sram)
  /\ \A module \in {c.adder_tree, c.shift_adder, c.result_adder} : CimModuleValid(module)
  /\ c.value_sparse => CimValueSparseValid(c.value_sparse_config)
  /\ c.bit_sparse => CimBitSparseValid(c.bit_sparse_config)

-----------------------------------------------------------------------------
(***************************************************************************)
(* Memories and the data paths between them.                               *)
(***************************************************************************)
RAMValid(c) ==
  /\ Positive({c.size_byte, c.width_byte})
  /\ Divides(c.width_byte, c.size_byte)
  /\ NotNegative({c.write_latency_cycle, c.read_latency_cycle} \cup c.powers)
  /\ c.has_image => ~ Empty(c.image_file)

RegBufferValid(c) ==
  /\ Positive({c.size_byte, c.read_max_width_byte, c.write_max_width_byte, c.rw_min_unit_byte})
  /\ \A width \in {c.read_max_width_byte, c.write_max_width_byte} :
       Divides(width, c.size_byte) /\ Divides(c.rw_min_unit_byte, width)
  /\ NotNegative(c.powers)
  /\ c.has_image => ~ Empty(c.image_file)

MemoryByteSize(c) ==
  IF c.type = "ram" THEN c.ram_config.size_byte ELSE c.reg_buffer_config.size_byte

MemoryValid(c) ==
  /\ ~ Empty(c.name) /\ ~ HasDelimiter(c.name)
  /\ c.duplicate_cnt > 0
  /\ \/ c.type = "ram" /\ RAMValid(c.ram_config)
     \/ c.type = "reg_buffer" /\ RegBufferValid(c.reg_buffer_config)

MemoryUnitValid(c) == \A e \in Elements(c.memory_list) : MemoryValid(e)

DataPathMemoryValid(c) == ~ Empty(c.name) /\ c.duplicate_id >= 0

PairIsSameWith(p, q) == {p.memory_1, p.memory_2} = {q.memory_1, q.memory_2}

PairValid(c) == DataPathMemoryValid(c.memory_1) /\ DataPathMemoryValid(c.memory_2)

DataPathConflictWith(c, another) ==
  \/ c.id = another.id
  \/ \E p \in Elements(c.memory_pair_list) : \E q \in Elements(another.memory_pair_list) :
       PairIsSameWith(p, q)

DataPathValid(c) ==
  /\ \A e \in Elements(c.memory_pair_list) : PairValid(e)
  /\ \A j, k \in DOMAIN c.memory_pair_list :
       j < k => ~ PairIsSameWith(c.memory_pair_list[j], c.memory_pair_list[k])

TransferUnitValid(c) ==
  LET paths == c.local_dedicated_data_path_list
  IN  /\ \A e \in Elements(paths) : DataPathValid(e)
      /\ \A j, k \in DOMAIN paths : j < k => ~ DataPathConflictWith(paths[j], paths[k])

-----------------------------------------------------------------------------
(***************************************************************************)
(* Core, chip and simulation.                                              *)
(***************************************************************************)
CoreValid(c) ==
  /\ ControlUnitValid(c.control_unit_config) /\ RegisterUnitValid(c.register_unit_config)
  /\ ScalarUnitValid(c.scalar_unit_config) /\ SIMDUnitValid(c.simd_unit_config)
  /\ ReduceUnitValid(c.reduce_unit_config) /\ CimUnitValid(c.cim_unit_config)
  /\ MemoryUnitValid(c.local_memory_unit_config) /\ TransferUnitValid(c.transfer_unit_config)

NetworkValid(c) == c.bus_width_byte > 0 /\ ~ Empty(c.network_config_file_path)

GlobalMemoryValid(c) == MemoryUnitValid(c.global_memory_unit_config)

AddressSpaceElementValid(c) == ~ Empty(c.name) /\ ~ HasDelimiter(c.name) /\ c.size # 0

LocalMemories(c) == c.core_config.local_memory_unit_config.memory_list
GlobalMemories(c) == c.global_memory_config.global_memory_unit_config.memory_list

\* What is known of a memory by its name; of two with one name, the first.
MemoryInfos(list, is_global) ==
  [k \in DOMAIN list |-> [name |-> list[k].name, size |-> MemoryByteSize(list[k]),
                          is_global |-> is_global, duplicate_cnt |-> list[k].duplicate_cnt]]

AllMemoryInfos(c) ==
  MemoryInfos(LocalMemories(c), FALSE) \o MemoryInfos(GlobalMemories(c), TRUE)
    \o <<[name |-> c.core_config.cim_unit_config.name_as_memory,
          size |-> CimByteSize(c.core_config.cim_unit_config),
          is_global |-> FALSE, duplicate_cnt |-> 1]>>

MemoryInfoMap(c) ==
  LET infos == AllMemoryInfos(c)
      First(name) == CHOOSE k \in DOMAIN infos :
                       infos[k].name = name /\ \A j \in 1 .. k - 1 : infos[j].name # name
  IN  [name \in {info.name : info \in Elements(infos)} |-> infos[First(name)]]

AddressSpaceWithMemoryValid(info, elements) ==
  \E e \in Elements(elements) :
    e.name = info.name /\ (e.size > 0 => e.size >= info.size)

\* Mutant: a part of the address space may be smaller than its memory.
AddressSpaceValidSmaller(c) ==
  /\ NoneTwice("name", c.address_space_config)
  /\ Cardinality(DOMAIN MemoryInfoMap(c)) = Len(c.address_space_config)
  /\ DOMAIN MemoryInfoMap(c) \subseteq {e.name : e \in Elements(c.address_space_config)}

AddressSpaceValid(c) ==
  /\ NoneTwice("name", c.address_space_config)
  /\ Cardinality(DOMAIN MemoryInfoMap(c)) = Len(c.address_space_config)
  /\ \A name \in DOMAIN MemoryInfoMap(c) :
       AddressSpaceWithMemoryValid(MemoryInfoMap(c)[name], c.address_space_config)

LocalDedicatedDataPathsValid(c) ==
  \A path \in Elements(c.core_config.transfer_unit_config.local_dedicated_data_path_list) :
    \A pair \in Elements(path.memory_pair_list) : \A m \in {pair.memory_1, pair.memory_2} :
      /\ m.name \in DOMAIN MemoryInfoMap(c)
      /\ ~ MemoryInfoMap(c)[m.name].is_global
      /\ m.duplicate_id < MemoryInfoMap(c)[m.name].duplicate_cnt

ChipValid(c) ==
  /\ c.core_cnt > 0
  /\ CoreValid(c.core_config) /\ GlobalMemoryValid(c.global_memory_config)
  /\ NetworkValid(c.network_config)
  /\ \A e \in Elements(c.address_space_config) : AddressSpaceElementValid(e)
  /\ NoneTwice("name", AllMemoryInfos(c))
  /\ AddressSpaceValid(c)
  /\ LocalDedicatedDataPathsValid(c)

SimValid(c) ==
  /\ c.period_ns > 0
  /\ c.sim_mode # "other" /\ c.data_mode # "other"
  /\ c.sim_mode = "run_until_time" => c.sim_time_ms > 0

ConfigValid(c) == ChipValid(c.chip_config) /\ SimValid(c.sim_config)

=============================================================================
