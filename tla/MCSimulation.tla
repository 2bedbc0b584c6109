----------------------------- MODULE MCSimulation -----------------------------
(***************************************************************************)
(* A chip of two cores with little in it, the configurations that differ   *)
(* from its own in one place, valid and invalid, and three tests: the      *)
(* layers of one have activities of every kind.                            *)
(***************************************************************************)
EXTENDS Simulation

MCNames ==
  {<<>>, <<"ram">>, <<"reg">>, <<"dram">>, <<"cim">>, <<"ram", 1>>, <<"add">>, <<"add8">>,
   <<"mac">>, <<"sum">>, <<"SC_RI">>, <<"other">>, <<"net.json">>, <<"image">>}

NoPowers == {0, 1}
Widths(a, b, c, d) == [inputs |-> <<a, b, c, d>>, output |-> 32]

Functor(name, cnt, w, latency, stages) ==
  [name |-> name, input_cnt |-> cnt, data_bit_width |-> w, functor_cnt |-> 2,
   latency_cycle |-> latency, pipeline_stage_cnt |-> stages, powers |-> NoPowers]
Binding(w, name) == [input_bit_width |-> w, functor_name |-> name]
Instr(name, cnt, opcode, list) ==
  [name |-> name, input_cnt |-> cnt, opcode |-> opcode,
   inputs_type |-> <<"vector", "scalar", "vector", "vector">>, functor_binding_list |-> list]

SIMD ==
  [functor_list |-> <<Functor(<<"add">>, 2, Widths(32, 32, 0, 0), 2, 2),
                      Functor(<<"add8">>, 2, Widths(8, 8, 0, 0), 1, 1),
                      Functor(<<"mac">>, 2, Widths(8, 32, 0, 0), 1, 1)>>,
   instruction_list |->
     <<Instr(<<"add">>, 2, 0, <<Binding(Widths(32, 32, 0, 0), <<"add">>),
                                Binding(Widths(8, 8, 0, 0), <<"add8">>)>>),
       Instr(<<"mac">>, 2, 1, <<Binding(Widths(8, 32, 0, 0), <<"mac">>)>>)>>]

Reduce ==
  [functor_list |-> <<[name |-> <<"sum">>, funct |-> 0, input_bit_width |-> 8,
                       output_bit_width |-> 32, reduce_input_cnt |-> 4, latency_cycle |-> 2,
                       pipeline_stage_cnt |-> 1, powers |-> NoPowers]>>]

Module(latency, stages) ==
  [latency_cycle |-> latency, pipeline_stage_cnt |-> stages, powers |-> NoPowers]

CIM ==
  [macro_total_cnt |-> 2, macro_group_size |-> 2, name_as_memory |-> <<"cim">>,
   macro_size |-> [compartment_cnt_per_macro |-> 1, element_cnt_per_compartment |-> 1,
                   row_cnt_per_element |-> 1, bit_width_per_row |-> 8],
   ipu |-> Module(1, 1), adder_tree |-> Module(2, 2), shift_adder |-> Module(1, 1),
   result_adder |-> Module(1, 1),
   sram |-> [as_mode |-> "intergroup", write_latency_cycle |-> 1, read_latency_cycle |-> 1,
             powers |-> NoPowers],
   value_sparse |-> FALSE,
   value_sparse_config |-> [mask_bit_width |-> 1, latency_cycle |-> 1,
                            output_macro_group_cnt |-> 1, powers |-> NoPowers],
   bit_sparse |-> FALSE,
   bit_sparse_config |-> [mask_bit_width |-> 1, latency_cycle |-> 1, unit_byte |-> 1,
                          powers |-> NoPowers],
   input_bit_sparse |-> FALSE]

RAM(size) ==
  [size_byte |-> size, width_byte |-> 2, write_latency_cycle |-> 1, read_latency_cycle |-> 2,
   powers |-> NoPowers, has_image |-> FALSE, image_file |-> <<>>]
Reg ==
  [size_byte |-> 2, read_max_width_byte |-> 2, write_max_width_byte |-> 1, rw_min_unit_byte |-> 1,
   powers |-> NoPowers, has_image |-> FALSE, image_file |-> <<>>]
Mem(name, type, cnt, size) ==
  [name |-> name, type |-> type, duplicate_cnt |-> cnt, ram_config |-> RAM(size),
   reg_buffer_config |-> Reg]
Place(name, id) == [name |-> name, duplicate_id |-> id]
Pair(a, b) == [memory_1 |-> a, memory_2 |-> b]
Path(id, list) == [id |-> id, memory_pair_list |-> list]
Part(name, size) == [name |-> name, size |-> size]

CORE ==
  [control_unit_config |-> [powers |-> NoPowers],
   register_unit_config |-> [powers |-> NoPowers,
                             special_register_binding |-> <<[special |-> 1, general |-> 2]>>],
   scalar_unit_config |-> [powers |-> NoPowers,
                           functor_list |-> <<[inst_name |-> <<"SC_RI">>, powers |-> NoPowers]>>],
   simd_unit_config |-> SIMD, reduce_unit_config |-> Reduce, cim_unit_config |-> CIM,
   local_memory_unit_config |->
     [memory_list |-> <<Mem(<<"ram">>, "ram", 2, 4), Mem(<<"reg">>, "reg_buffer", 1, 4)>>],
   transfer_unit_config |->
     [local_dedicated_data_path_list |->
        <<Path(1, <<Pair(Place(<<"ram">>, 0), Place(<<"reg">>, 0)),
                    Pair(Place(<<"reg">>, 0), Place(<<"reg">>, 0))>>),
          Path(2, <<Pair(Place(<<"ram">>, 1), Place(<<"cim">>, 0))>>)>>]]

Base ==
  [chip_config |->
     [core_cnt |-> 2, core_config |-> CORE,
      global_memory_config |->
        [global_memory_unit_config |-> [memory_list |-> <<Mem(<<"dram">>, "ram", 1, 4)>>],
         global_memory_switch_id |-> -10],
      network_config |-> [bus_width_byte |-> 2, network_config_file_path |-> <<"net.json">>],
      address_space_config |->
        <<Part(<<"cim">>, -1), Part(<<"ram">>, 5), Part(<<"dram">>, -1), Part(<<"reg">>, 3)>>],
   sim_config |-> [period_ns |-> 1, sim_mode |-> "run_one_round",
                   data_mode |-> "not_real_data", sim_time_ms |-> 0]]

\* Configurations one step away: what is accepted has to work, what is not to be refused.
With(core) == [Base EXCEPT !.chip_config.core_config = core]
Sim(sim) == [Base EXCEPT !.sim_config = sim]
Space(list) == [Base EXCEPT !.chip_config.address_space_config = list]
Paths(list) ==
  With([CORE EXCEPT !.transfer_unit_config.local_dedicated_data_path_list = list])
Instructions(list) == With([CORE EXCEPT !.simd_unit_config.instruction_list = list])
Cim(c) == With([CORE EXCEPT !.cim_unit_config = c])
Locals(list) == With([CORE EXCEPT !.local_memory_unit_config.memory_list = list])

Variants ==
  {Base,
   \* address spaces: other orders, sizes left to the memory, too small, twice, missing
   Space(<<Part(<<"ram">>, -1), Part(<<"reg">>, 2), Part(<<"cim">>, 4), Part(<<"dram">>, 4)>>),
   Space(<<Part(<<"cim">>, -1), Part(<<"ram">>, 3), Part(<<"dram">>, -1), Part(<<"reg">>, 3)>>),
   Space(<<Part(<<"cim">>, -1), Part(<<"ram">>, 5), Part(<<"dram">>, -1), Part(<<"dram">>, 3)>>),
   Space(<<Part(<<"cim">>, -1), Part(<<"ram">>, 5), Part(<<"reg">>, 3)>>),
   Space(<<Part(<<"cim">>, 0), Part(<<"ram">>, 5), Part(<<"dram">>, -1), Part(<<"reg">>, 3)>>),
   Space(<<Part(<<"cim">>, 0), Part(<<"ram", 1>>, 5), Part(<<"dram">>, -1), Part(<<"reg">>, 3)>>),
   \* memories: one name twice, a name with the delimiter, a width that does not divide
   Locals(<<Mem(<<"ram">>, "ram", 2, 4), Mem(<<"ram">>, "reg_buffer", 1, 4)>>),
   Locals(<<Mem(<<"ram">>, "ram", 2, 4), Mem(<<"ram", 1>>, "ram", 1, 4)>>),
   Locals(<<Mem(<<"ram">>, "ram", 1, 5), Mem(<<"reg">>, "reg_buffer", 1, 4)>>),
   Locals(<<Mem(<<"ram">>, "ram", 3, 2), Mem(<<"reg">>, "reg_buffer", 2, 4)>>),
   Locals(<<Mem(<<"ram">>, "other", 1, 4), Mem(<<"reg">>, "reg_buffer", 1, 4)>>),
   [Base EXCEPT !.chip_config.global_memory_config.global_memory_unit_config.memory_list[1].duplicate_cnt = 2],
   \* data paths: a pair twice, in two directions, of a duplicate that is not there
   Paths(<<>>),
   Paths(<<Path(1, <<Pair(Place(<<"ram">>, 0), Place(<<"ram">>, 1)),
                     Pair(Place(<<"ram">>, 1), Place(<<"ram">>, 0))>>)>>),
   Paths(<<Path(1, <<Pair(Place(<<"ram">>, 0), Place(<<"ram">>, 1))>>),
           Path(2, <<Pair(Place(<<"ram">>, 1), Place(<<"ram">>, 0))>>)>>),
   Paths(<<Path(1, <<Pair(Place(<<"ram">>, 0), Place(<<"ram">>, 1))>>),
           Path(1, <<Pair(Place(<<"ram">>, 0), Place(<<"reg">>, 0))>>)>>),
   Paths(<<Path(1, <<Pair(Place(<<"ram">>, 0), Place(<<"ram">>, 2))>>)>>),
   Paths(<<Path(1, <<Pair(Place(<<"ram">>, 0), Place(<<"dram">>, 0))>>)>>),
   Paths(<<Path(3, <<Pair(Place(<<"ram">>, 1), Place(<<"ram">>, 1)),
                     Pair(Place(<<"cim">>, 0), Place(<<"reg">>, 0))>>)>>),
   \* functors and bindings: of other widths, of no functor, of one opcode, or without need
   Instructions(<<Instr(<<"add">>, 2, 0, <<Binding(Widths(8, 32, 0, 0), <<"add">>)>>)>>),
   Instructions(<<Instr(<<"add">>, 2, 0, <<Binding(Widths(8, 32, 0, 0), <<"other">>)>>)>>),
   Instructions(<<Instr(<<"add">>, 2, 0, <<Binding(Widths(8, 8, 0, 0), <<"add8">>),
                                           Binding(Widths(8, 8, 0, 0), <<"add8">>)>>)>>),
   Instructions(<<Instr(<<"add">>, 1, 0, <<Binding(Widths(32, 0, 0, 0), <<"add">>)>>)>>),
   Instructions(<<Instr(<<"add">>, 2, 1, <<Binding(Widths(8, 8, 0, 0), <<"add8">>)>>),
                  Instr(<<"mac">>, 2, 1, <<Binding(Widths(8, 32, 0, 0), <<"mac">>)>>)>>),
   With([CORE EXCEPT !.simd_unit_config =
           [functor_list |-> <<Functor(<<"add">>, 2, Widths(8, 8, 8, 0), 1, 1)>>,
            instruction_list |->
              <<Instr(<<"add">>, 2, 0, <<Binding(Widths(8, 8, 8, 0), <<"add">>)>>)>>]]),
   With([CORE EXCEPT !.reduce_unit_config.functor_list = @ \o @]),
   With([CORE EXCEPT !.simd_unit_config.functor_list[1].pipeline_stage_cnt = 3]),
   With([CORE EXCEPT !.register_unit_config.special_register_binding[1].special = 32]),
   With([CORE EXCEPT !.scalar_unit_config.functor_list[1].inst_name = <<>>]),
   \* CIM units: sparse, of two groups, of groups that do not divide the macros
   Cim([CIM EXCEPT !.value_sparse = TRUE, !.bit_sparse = TRUE, !.macro_total_cnt = 4]),
   Cim([CIM EXCEPT !.sram.as_mode = "intragroup", !.input_bit_sparse = TRUE]),
   Cim([CIM EXCEPT !.macro_total_cnt = 3]),
   Cim([CIM EXCEPT !.value_sparse = TRUE, !.value_sparse_config.mask_bit_width = 0]),
   Sim([Base.sim_config EXCEPT !.sim_mode = "run_until_time"]),
   Sim([Base.sim_config EXCEPT !.period_ns = 0])}

-----------------------------------------------------------------------------
TagOf(core, ins_id, opcode, group) ==
  [core_id |-> core, ins_id |-> ins_id, inst_opcode |-> opcode, inst_group_tag |-> group]
Attention == <<<<"attention">>>>
Softmax == <<<<"attention">>, <<"softmax">>>>

Core(k) == <<<<"Chip">>, <<"Core", k>>>>
Stage(core, unit, functor, cycles, power, group) ==
  [kind |-> "unit", id |-> Core(core) \o <<unit, functor>>, cycles |-> cycles, power |-> power,
   tag |-> TagOf(core, 1, "VEC_OP", group), operator |-> <<functor[1]>>]
Access(core, address, size, write, group) ==
  [kind |-> "memory", is_global |-> FALSE, address_byte |-> address, size_byte |-> size,
   write |-> write, power |-> 1, tag |-> TagOf(core, 2, "MEM_CPY", group)]
Transfer(core, src, dst, size) ==
  [kind |-> "network", src_id |-> src, dst_id |-> dst, size_byte |-> size,
   tag |-> TagOf(core, 2, "MEM_CPY", <<>>)]

\* A pipeline and other hardware of two cores, one of which waits on the network.
Busy ==
  [max |-> 3,
   activities |->
     {Stage(0, <<"SIMDUnit">>, <<"add">>, 3, 1, Softmax),
      Stage(0, <<"SIMDUnit">>, <<"add">>, 1, 3, Attention),
      Stage(0, <<"SIMDUnit">>, <<"add">>, 2, 2, Softmax),
      Stage(1, <<"SIMDUnit">>, <<"add">>, 1, 1, <<>>),
      Access(1, 8, 3, FALSE, Attention)}]

\* The memories: the last bytes of one, a register buffer, the CIM unit, beyond a memory.
Moves ==
  [max |-> 2,
   activities |->
     {Access(0, 2, 4, TRUE, Softmax), Access(0, 0, 2, FALSE, <<>>), Access(0, 0, 1, TRUE, <<>>),
      Access(1, 16, 2, FALSE, Attention), Access(1, 17, 1, TRUE, <<>>), Access(1, 17, 2, TRUE, <<>>),
      [Access(0, 12, 2, TRUE, <<>>) EXCEPT !.is_global = TRUE],
      Transfer(0, 0, -10, 3), Transfer(1, 1, 0, 2)}]

Idle == [max |-> 0, activities |-> {}]
Untagged == [max |-> 1, activities |-> {Access(1, 8, 3, FALSE, <<<<"unknown">>>>)}]

Case(name, config, layers) ==
  [test |-> TRUE, test_case_name |-> name, config |-> config, layers |-> layers]
Profile ==
  [hardware |-> TRUE, each_core |-> TRUE, single_inst |-> TRUE, inst_type |-> TRUE,
   inst_group |-> TRUE,
   inst_groups |-> <<[name |-> <<"attention">>,
                      sub_groups |-> <<[name |-> <<"softmax">>, sub_groups |-> <<>>]>>]>>]

TestOf(cases, profiling) ==
  [generate_report |-> TRUE, OP_count |-> 6, profiling |-> profiling, test_case_config |-> cases,
   compare |-> TRUE, compare_config |-> <<[compare |-> TRUE, test_case_1 |-> "a", test_case_2 |-> "b"]>>]

UntilThree ==
  Sim([Base.sim_config EXCEPT !.sim_mode = "run_until_time", !.sim_time_ms = 3])

MCTests ==
  {TestOf(<<Case("a", c, <<Idle, Idle>>)>>, Profile) : c \in Variants}
    \cup {TestOf(<<Case("a", Base, <<Busy>>)>>, Profile),
          TestOf(<<Case("a", Base, <<Moves, Idle>>),
                   [Case("b", Base, <<Idle>>) EXCEPT !.test = FALSE],
                   Case("b", Base, <<Idle>>), Case("b", UntilThree, <<Idle>>)>>,
                 [Profile EXCEPT !.each_core = FALSE, !.single_inst = FALSE]),
          TestOf(<<Case("a", UntilThree, <<Idle, Untagged>>)>>, [Profile EXCEPT !.hardware = FALSE]),
          [TestOf(<<Case("a", Base, <<Busy>>)>>, Profile) EXCEPT !.generate_report = FALSE]}

ASSUME \A t \in MCTests : \A c \in Elements(t.test_case_config) : c.config \in Config

MCStaticPower(id) ==
  CASE Len(id) = 3 -> 1
    [] Len(id) = 4 -> IF id[4][1] \in {"ram", "add"} THEN 2 ELSE 0
    [] OTHER -> 0

MCLatency == <<0, -10>> :> 1 @@ <<1, 0>> :> 2
MCEnergy == <<0, -10>> :> 3

=============================================================================
