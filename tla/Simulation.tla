------------------------------ MODULE Simulation ------------------------------
(***************************************************************************)
(* The simulators: NetworkSimulator runs the layers of its test cases one  *)
(* after the other, each in a process of its own (LayerSimulator), which   *)
(* checks the configuration, builds a chip, runs it and leaves a report in *)
(* a file.  What the chip does meanwhile is the business of the other      *)
(* modules; here it is a series of activities, drawn from a set for each   *)
(* layer, that are counted where the chip's hardware counts them.          *)
(***************************************************************************)
EXTENDS Statistics

CONSTANTS
  Tests,             \* of test configurations
  NetworkLatency,    \* latency_map_ and energy_map_, from <<src_id, dst_id>>
  NetworkEnergy,
  MaxTime            \* bound: time of a run, in ns

VARIABLES
  test,              \* the test configuration of this run of NetworkSimulator
  case, layer,       \* test case and layer under way
  phase,             \* of the layer: see Phases
  now,               \* sc_time_stamp()
  energy,            \* the energy counters, by id
  hardware,          \* HardwareProfiler: [stats, bound]
  insts,             \* InstProfiler::timing_statistic_map_
  finished,          \* cores that have called processFinishRun
  running_time,
  file,              \* the layer's report, in its file
  total, reporters,  \* Reporter total_reporter; std::map reporters
  all_tests_passed,
  compared,          \* comparisons written to the report of the network
  log,               \* history: the activities of the layer
  reports            \* history: the reports of the layers of the test case

chip_vars == <<now, energy, hardware, insts, finished, running_time, log>>
test_vars == <<total, reporters, all_tests_passed, compared, reports>>
vars == <<test, case, layer, phase, file, chip_vars, test_vars>>

\* A layer is loaded, runs, has stopped, has left its process with a report or without;
\* then all is done, or NetworkSimulator has ended with an exception.
Phases == {"load", "run", "stopped", "exited", "died", "done", "aborted"}

NoFile == [latency |-> -1]
NoReporter == NewReporter(0, NewEnergyReporter, 0)

TestCase == test.test_case_config[case]
Layer == TestCase.layers[layer]
Config0 == TestCase.config
Profiling == test.profiling
Cores == 0 .. Config0.chip_config.core_cnt - 1
Period == Config0.sim_config.period_ns

\* The test cases that are run; the others are passed over.
NextCase(after) ==
  LET due == {k \in DOMAIN test.test_case_config : k > after /\ test.test_case_config[k].test}
  IN  IF test.generate_report /\ due # {} THEN CHOOSE k \in due : \A j \in due : k <= j ELSE 0

-----------------------------------------------------------------------------
(***************************************************************************)
(* LayerSimulator::run.                                                    *)
(***************************************************************************)
\* An invalid configuration builds no chip, and there is nothing to report on.
LoadInvalid ==
  /\ phase = "load" /\ ~ ConfigValid(Config0)
  /\ phase' = "died"
  /\ UNCHANGED <<test, case, layer, file, chip_vars, test_vars>>

Load ==
  /\ phase = "load" /\ ConfigValid(Config0)
  /\ phase' = "run"
  /\ LET counters == Below(ChipCounter(Config0), <<<<"Chip">>>>, <<>>)
     IN  energy' = [id \in {c.id : c \in counters} |->
                      NewEnergy((CHOOSE c \in counters : c.id = id).mult_pipeline_stage)]
  /\ hardware' = BindHardware(Profiling, Config0)
  /\ insts' = NewInstStatistics(Profiling)
  /\ now' = 0 /\ finished' = {} /\ running_time' = 0 /\ log' = <<>>
  /\ UNCHANGED <<test, case, layer, file, test_vars>>

\* EnergyCounter::addActivityTime, and the energy: of a latency and a power, or given.
Count(id, latency, counter, tag, operator) ==
  /\ IF GroupIsNull(Profiling, insts, tag) THEN phase' = "died" ELSE UNCHANGED phase
  /\ energy' = [energy EXCEPT ![id] = counter]
  /\ hardware' = [hardware EXCEPT !.stats =
                    HardwareActivity(@, hardware.bound[id], now, latency)]
  /\ insts' = IF GroupIsNull(Profiling, insts, tag) THEN insts
              ELSE InstActivity(insts, InstNames(Profiling, tag), operator, now, latency)

Log(id, latency, power, pj, tag, operator) ==
  log' = Append(log, [id |-> id, start |-> now, latency |-> latency, power |-> power,
                      pj |-> pj, tag |-> tag, operator |-> operator])

CanAct(a) == phase = "run" /\ Len(log) < Layer.max /\ a.tag.core_id \notin finished

\* A functor or a stage of a unit.
UnitActivity(a) ==
  /\ CanAct(a) /\ a.kind = "unit"
  /\ LET latency == a.cycles * Period
     IN  /\ Count(a.id, latency, AddDynamicEnergyPJ(energy[a.id], now, latency, a.power),
                  a.tag, a.operator)
         /\ Log(a.id, latency, a.power, latency * a.power, a.tag, a.operator)
  /\ UNCHANGED <<test, case, layer, now, finished, running_time, file, test_vars>>

\* The counter of a memory, and the tag it counts with: that of the core it stands in.
MemoryCounter(a, hw) ==
  LET Kind == IF a.write THEN <<"write">> ELSE <<"read">>
      core == <<"Core", a.tag.core_id>>
  IN  IF a.is_global THEN <<<<"Chip">>, <<"GlobalMemory">>, hw.name, Kind>>
      ELSE IF hw.kind = "cim"
        THEN <<<<"Chip">>, core, <<"CimUnit">>, IF a.write THEN <<"sram write">> ELSE <<"sram read">>>>
      ELSE <<<<"Chip">>, core, <<"LocalMemoryUnit">>, hw.name, Kind>>

MemoryTag(a) == [a.tag EXCEPT !.core_id = IF a.is_global THEN -1 ELSE @]

MemoryOperator(a, hw) ==
  <<IF hw.kind = "cim" THEN <<"CimUnit">> ELSE hw.name,
    IF ~ a.write THEN "_read" ELSE IF hw.kind = "reg_buffer" THEN "write" ELSE "_write">>

\* An access outside of the memory it is sent to changes nothing.
MemoryAccess(a) ==
  /\ CanAct(a) /\ a.kind = "memory"
  /\ LET chip == Config0.chip_config
         access == UnitAccess(BuildAddressSpace(chip), chip, a.is_global, a.address_byte,
                              a.size_byte, a.write)
         activity == ActivityOf(access.hw, a.size_byte, a.write)
         latency == activity.latency * Period
         power == activity.units * a.power
         id == MemoryCounter(a, access.hw)
     IN  /\ access.answer.ok
         /\ Count(id, latency, AddDynamicEnergyPJ(energy[id], now, latency, power),
                  MemoryTag(a), MemoryOperator(a, access.hw))
         /\ Log(id, latency, power, latency * power, MemoryTag(a), MemoryOperator(a, access.hw))
  /\ UNCHANGED <<test, case, layer, now, finished, running_time, file, test_vars>>

\* Network::transferAndGetDelay.
NetworkTransfer(a) ==
  /\ CanAct(a) /\ a.kind = "network"
  /\ LET times == Flits(Config0.chip_config.network_config, a.size_byte)
         latency == times * FlitCost(NetworkLatency, a.src_id, a.dst_id) * Period
         pj == times * FlitCost(NetworkEnergy, a.src_id, a.dst_id)
         id == <<<<"Chip">>, <<"Network">>>>
     IN  /\ Count(id, latency, [energy[id] EXCEPT !.dynamic = @ + pj], a.tag, <<"transport">>)
         /\ Log(id, latency, 0, pj, a.tag, <<"transport">>)
  /\ UNCHANGED <<test, case, layer, now, finished, running_time, file, test_vars>>

Until(c) == IF c.sim_mode = "run_until_time" THEN c.sim_time_ms ELSE MaxTime

Tick ==
  /\ phase = "run" /\ now < Until(Config0.sim_config)
  /\ now' = now + 1
  /\ UNCHANGED <<test, case, layer, phase, file, energy, hardware, insts, finished,
                 running_time, log, test_vars>>

\* sc_start returns at its time; nobody has called finishRun then.
TimeUp ==
  /\ phase = "run" /\ Config0.sim_config.sim_mode = "run_until_time"
  /\ now = Until(Config0.sim_config)
  /\ phase' = "stopped"
  /\ UNCHANGED <<test, case, layer, file, chip_vars, test_vars>>

\* Chip::processFinishRun: the last core stops the simulation and closes the statistics.
FinishRun(core) ==
  /\ phase = "run" /\ core \notin finished
  /\ finished' = finished \cup {core}
  /\ IF finished' # Cores THEN UNCHANGED <<phase, running_time, hardware, insts>>
     ELSE /\ phase' = "stopped"
          /\ running_time' = now
          /\ hardware' = [hardware EXCEPT !.stats =
                            [n \in DOMAIN @ |-> CloseSegment(@[n])]]
          /\ insts' = [n \in DOMAIN insts |->
                         [o \in DOMAIN insts[n] |-> CloseSegment(insts[n][o])]]
  /\ UNCHANGED <<test, case, layer, file, now, energy, log, test_vars>>

\* Chip::report and LayerSimulator::report.
Report ==
  /\ phase = "stopped"
  /\ phase' = "exited"
  /\ file' = NewReporter(running_time,
               GetEnergyReporter(ChipCounter(Config0), <<<<"Chip">>>>, energy, running_time), 0)
  /\ UNCHANGED <<test, case, layer, chip_vars, test_vars>>

-----------------------------------------------------------------------------
(***************************************************************************)
(* NetworkSimulator: test_network and test_wrap.                           *)
(***************************************************************************)
\* The file of a layer that failed is not there to be parsed.
ReadNothing ==
  /\ phase = "died"
  /\ phase' = "aborted"
  /\ all_tests_passed' = FALSE
  /\ UNCHANGED <<test, case, layer, file, chip_vars, total, reporters, compared, reports>>

ReadReport ==
  /\ phase = "exited" /\ layer < Len(TestCase.layers)
  /\ total' = ReporterPlus(total, file) /\ reports' = Append(reports, file)
  /\ file' = NoFile
  /\ layer' = layer + 1 /\ phase' = "load"
  /\ UNCHANGED <<test, case, chip_vars, reporters, all_tests_passed, compared>>

\* reporters.emplace: of two test cases of one name the first stays.
Emplace(map, name, r) == IF name \in DOMAIN map THEN map ELSE map @@ (name :> r)

Comparisons(map) ==
  {[of |-> c, result |-> ReporterCompare(map[c.test_case_1], map[c.test_case_2])] :
     c \in {d \in Elements(test.compare_config) :
              test.compare /\ d.compare /\ {d.test_case_1, d.test_case_2} \subseteq DOMAIN map}}

EndCase ==
  /\ phase = "exited" /\ layer = Len(TestCase.layers)
  /\ reporters' = Emplace(reporters, TestCase.test_case_name,
                          SetOPCount(ReporterPlus(total, file), test.OP_count))
  /\ file' = NoFile /\ total' = NoReporter /\ reports' = <<>> /\ layer' = 1
  /\ IF NextCase(case) # 0
       THEN case' = NextCase(case) /\ phase' = "load" /\ UNCHANGED compared
       ELSE case' = case /\ phase' = "done" /\ compared' = Comparisons(reporters')
  /\ UNCHANGED <<test, chip_vars, all_tests_passed>>

-----------------------------------------------------------------------------
Init ==
  /\ test \in Tests
  /\ case = NextCase(0) /\ layer = 1
  /\ phase = IF NextCase(0) = 0 THEN "done" ELSE "load"
  /\ now = 0 /\ energy = <<>> /\ hardware = [stats |-> <<>>, bound |-> <<>>] /\ insts = <<>>
  /\ finished = {} /\ running_time = 0 /\ log = <<>>
  /\ file = NoFile /\ total = NoReporter /\ reporters = <<>> /\ reports = <<>>
  /\ all_tests_passed = TRUE /\ compared = {}

Next ==
  \/ LoadInvalid \/ Load
  \/ phase = "run" /\ \E a \in Layer.activities :
                        UnitActivity(a) \/ MemoryAccess(a) \/ NetworkTransfer(a)
  \/ Tick \/ TimeUp
  \/ phase = "run" /\ \E core \in Cores : FinishRun(core)
  \/ Report \/ ReadNothing \/ ReadReport \/ EndCase

Spec == Init /\ [][Next]_vars

-----------------------------------------------------------------------------
(***************************************************************************)
(* What the configuration promises.                                        *)
(***************************************************************************)
Chip == Config0.chip_config
JustBuilt == phase = "run" /\ now = 0 /\ log = <<>> /\ finished = {}

\* The bytes of the address space before a memory: its element's predecessors,
\* duplicates and all, and the duplicates of its own before it.
ElementBytes(e) == PartSize(e, MemoryInfoMap(Chip)[e.name])
BytesBefore(k, duplicate_id) ==
  LET list == Chip.address_space_config
  IN  duplicate_id * ElementBytes(list[k])
      + MapThenSumSet(LAMBDA j : MemoryInfoMap(Chip)[list[j].name].duplicate_cnt
                                   * ElementBytes(list[j]), 1 .. k - 1)

\* Every byte of every memory of an accepted configuration has one address, at which
\* the memory unit of its kind finds that byte and no other: parts of the address space
\* do not overlap, and ids, offsets and duplicates of memories are told apart.
AddressesExact ==
  JustBuilt =>
    LET as == BuildAddressSpace(Chip)
    IN  \A k \in DOMAIN Chip.address_space_config :
          LET e == Chip.address_space_config[k]
              info == MemoryInfoMap(Chip)[e.name]
          IN  \A duplicate_id \in 0 .. info.duplicate_cnt - 1, byte \in 0 .. info.size - 1 :
                LET address == BytesBefore(k, duplicate_id) + byte
                    found == UnitAccess(as, Chip, info.is_global, address, 1, TRUE)
                IN  /\ IsAddressGlobal(as, address) = info.is_global
                    /\ found.hw.name = DuplicateMemoryName(e.name, duplicate_id)
                    /\ found.at = byte /\ found.answer.ok

\* The path configured between two memories, in either direction.
ConfiguredPath(m1, m2) ==
  LET paths == Chip.core_config.transfer_unit_config.local_dedicated_data_path_list
      Name(m) == DuplicateMemoryName(m.name, m.duplicate_id)
      over == {path \in Elements(paths) : \E p \in Elements(path.memory_pair_list) :
                 {Name(p.memory_1), Name(p.memory_2)} = {m1, m2}}
  IN  IF over = {} THEN IntraCoreBus
      ELSE [type |-> "local_dedicated_data_path", id |-> (CHOOSE p \in over : TRUE).id]

\* What the decoder finds for an instruction is what the configuration binds to it: a
\* functor of the widths asked for, if a binding that leaves the inputs the instruction
\* does not have at zero promises one, and the data path of its two memories.
DecodesAsConfigured ==
  JustBuilt =>
    LET core == Chip.core_config
        simd == core.simd_unit_config
        as == BuildAddressSpace(Chip)
        local == {hw.name : hw \in Elements(UnitHardware(Chip, FALSE))}
    IN  /\ \A i \in Elements(simd.instruction_list) :
             \A b \in Elements(i.functor_binding_list) :
               LET widths == b.input_bit_width.inputs
                   f == SIMDFunctor(simd, i.input_cnt, i.opcode, widths)
               IN  DecodedWidths(i.input_cnt, widths) = widths =>
                     /\ f \in Elements(simd.functor_list)
                     /\ f.input_cnt = i.input_cnt /\ f.data_bit_width.inputs = widths
                     /\ \E c \in Elements(i.functor_binding_list) : c.functor_name = f.name
        /\ \A f \in Elements(core.reduce_unit_config.functor_list) :
             ReduceFunctor(core.reduce_unit_config, f.funct, f.input_bit_width,
                           f.output_bit_width) = f
        /\ Cardinality(local) <= 2^PathIdBits =>
             \A m1, m2 \in local :
               DecodedDataPath(as, core.transfer_unit_config.local_dedicated_data_path_list,
                               MemoryId(as, m1), MemoryId(as, m2)) = ConfiguredPath(m1, m2)

-----------------------------------------------------------------------------
(***************************************************************************)
(* What the measurements promise, from the history of activities.          *)
(***************************************************************************)
Counters == Below(ChipCounter(Config0), <<<<"Chip">>>>, <<>>)

\* The full names a counter goes by: from the chip, and from its core.
FullNames(c) ==
  {<<<<"Chip">>>> \o c.name}
    \cup (IF Profiling.each_core /\ Len(c.id) > 1 /\ c.id[2][1] = "Core"
            THEN {<<c.id[2]>> \o Tail(c.name)} ELSE {})

Instants(entries) == UNION {entry.start .. entry.start + entry.latency - 1 : entry \in entries}

\* A statistic that is over: its segments are apart, and are the instants, each once.
IsUnionOf(t, instants) ==
  LET list == t.time_segment_list
  IN  /\ t.activity_time = Cardinality(instants)
      /\ UNION {s[1] .. s[2] - 1 : s \in Elements(list)} = instants
      /\ \A k \in 1 .. Len(list) - 1 : list[k][2] < list[k + 1][1]

\* When all cores have finished, the time of activity of a piece of hardware, of an
\* instruction, of a type or of a group of instructions is that of the union of the
\* activities below it, whatever their order, and however they overlap or touch.
ActivityIsUnion ==
  phase = "stopped" /\ finished = Cores =>
    /\ LET all == Counters
           names == UNION {FullNames(c) : c \in all}
           active == {c \in all : \E entry \in Elements(log) : entry.id = c.id}
       IN  /\ Profiling.hardware =>
                DOMAIN hardware.stats = UNION {{SubSeq(n, 1, j) : j \in 1 .. Len(n)} : n \in names}
           /\ \A n \in DOMAIN hardware.stats :
                LET ids == {c.id : c \in {d \in active : Concerns(n, FullNames(d))}}
                IN  IsUnionOf(hardware.stats[n],
                              Instants({entry \in Elements(log) : entry.id \in ids}))
    /\ \A n \in DOMAIN insts :
         LET of == {entry \in Elements(log) : Concerns(n, InstNames(Profiling, entry.tag))}
         IN  /\ DOMAIN insts[n] = {entry.operator : entry \in of}
             /\ \A o \in DOMAIN insts[n] :
                  IsUnionOf(insts[n][o], Instants({entry \in of : entry.operator = o}))

\* The energy of a counter: of a pipeline, the strongest activity of each instant.
DynamicOf(c) ==
  LET mine == {k \in DOMAIN log : log[k].id = c.id}
      Powers0(t) == {0} \cup {log[k].power : k \in {j \in mine :
                                t \in log[j].start .. log[j].start + log[j].latency - 1}}
  IN  IF c.mult_pipeline_stage
        THEN MapThenSumSet(LAMBDA t : Max(Powers0(t)), Instants({log[k] : k \in mine}))
        ELSE MapThenSumSet(LAMBDA k : log[k].pj, mine)

\* The report of a module, by the names on the way to it; zeroes if there is none.
RECURSIVE NodeAt(_, _)
NodeAt(r, name) ==
  IF name = <<>> THEN r
  ELSE IF Head(name) \in DOMAIN r.sub_modules THEN NodeAt(r.sub_modules[Head(name)], Tail(name))
  ELSE NewEnergyReporter

\* A layer's report has, for every module name, the energy of all the hardware of that
\* name: its static power for as long as the chip ran until its last core finished, and
\* the dynamic energy of the activities below it.  A test case adds its layers' reports.
ReportExact ==
  /\ phase = "exited" =>
       LET time == IF finished = Cores THEN now ELSE 0
           all == Counters
       IN  /\ file.latency = time
           /\ \A name \in {c.name : c \in all} :
                LET node == NodeAt(file.energy_reporter, name)
                    below == {c \in all : IsPrefix(name, c.name)}
                IN  /\ node.static = MapThenSumSet(LAMBDA c : StaticPower(c.id) * time, below)
                    /\ node.dynamic = MapThenSumSet(DynamicOf, below)
                    /\ node.total = node.static + node.dynamic
  /\ phase = "load" /\ reports # <<>> =>
       /\ total.latency = MapThenSumSet(LAMBDA k : reports[k].latency, DOMAIN reports)
       /\ total.total_energy = total.energy_reporter.total
       /\ \A name \in {c.name : c \in Counters} :
            NodeAt(total.energy_reporter, name).total
              = MapThenSumSet(LAMBDA k : NodeAt(reports[k].energy_reporter, name).total,
                              DOMAIN reports)

=============================================================================
