------------------------------ MODULE Statistics ------------------------------
(***************************************************************************)
(* What a simulation measures: the tree of energy counters of a chip       *)
(* (base_component/energy_counter.cpp), the times of activity bound to it  *)
(* (profiler/), and the reports made of them (util/reporter.cpp).          *)
(*                                                                         *)
(* A counter is known by its id, the sequence of keys on the way to it;    *)
(* its full name is the sequence of names, which counters may share.       *)
(* Times are whole nanoseconds.                                            *)
(***************************************************************************)
EXTENDS AddressSpace

CONSTANT StaticPower(_)   \* of a counter, by its id

-----------------------------------------------------------------------------
(***************************************************************************)
(* The tree of counters of a chip.                                         *)
(***************************************************************************)
Counter(key, name, mult_pipeline_stage, subs) ==
  [key |-> key, name |-> name, mult_pipeline_stage |-> mult_pipeline_stage, subs |-> subs]

Leaf(name) == Counter(name, name, FALSE, <<>>)
If(condition, list) == IF condition THEN list ELSE <<>>

FunctorCounters(list) ==
  [k \in DOMAIN list |-> Counter(list[k].name, list[k].name, list[k].pipeline_stage_cnt > 1, <<>>)]

MemoryCounters(list) ==
  LET all == HardwareOf(list)
  IN  [k \in DOMAIN all |-> Counter(all[k].name, all[k].name, FALSE,
                                    <<Leaf(<<"read">>), Leaf(<<"write">>)>>)]

\* One macro stands for all of them if nothing depends on the data.
MacroSimulation(c, sim) ==
  sim.data_mode = "not_real_data" /\ ~ c.bit_sparse /\ ~ c.input_bit_sparse /\ ~ c.value_sparse

MacroCounters(c, group, macro) ==
  LET Of(name, stages) == Counter(<<name, group, macro>>, <<name>>, stages > 1, <<>>)
  IN  If(c.value_sparse \/ macro = 0, <<Of("ipu", 1)>>)
      \o If(c.bit_sparse, <<Of("meta buffer", 1)>>)
      \o <<Of("sram read", 1), Of("post process", 1),
           Of("adder tree", c.adder_tree.pipeline_stage_cnt),
           Of("shift adder", c.shift_adder.pipeline_stage_cnt),
           Of("result adder", c.result_adder.pipeline_stage_cnt)>>

CimUnitCounters(c, sim) ==
  LET one == MacroSimulation(c, sim)
      groups == IF one THEN 1 ELSE c.macro_total_cnt \div c.macro_group_size
      macros == IF one THEN 1 ELSE c.macro_group_size
  IN  FlattenSeq([k \in 1 .. groups * macros |->
                    MacroCounters(c, (k - 1) \div macros, (k - 1) % macros)])
      \o <<Leaf(<<"sram read">>), Leaf(<<"sram write">>)>>

CoreCounter(id, c, sim) ==
  LET cim == c.cim_unit_config
      Unit(key, name, subs) == Counter(<<key>>, <<name>>, FALSE, subs)
  IN  Counter(<<"Core", id>>, <<"Core Overview">>, FALSE,
        <<Unit("ScalarUnit", "ScalarUnit", <<>>),
          Unit("SIMDUnit", "SIMDUnit", FunctorCounters(c.simd_unit_config.functor_list)),
          Unit("ReduceUnit", "ReduceUnit", FunctorCounters(c.reduce_unit_config.functor_list)),
          Unit("CimUnit", "CimUnit", CimUnitCounters(cim, sim)),
          Unit("CimComputeUnit", "CimUnit",
               If(cim.value_sparse, <<Leaf(<<"value sparsity network">>)>>)
                 \o If(cim.bit_sparse, <<Leaf(<<"meta buffer">>)>>)),
          Unit("CimControlUnit", "CimUnit", <<Leaf(<<"result adder">>)>>),
          Unit("LocalMemoryUnit", "LocalMemoryUnit",
               MemoryCounters(c.local_memory_unit_config.memory_list))>>)

ChipCounter(config) ==
  LET c == config.chip_config
  IN  Counter(<<"Chip">>, <<"Chip">>, FALSE,
        [k \in 1 .. c.core_cnt |-> CoreCounter(k - 1, c.core_config, config.sim_config)]
        \o <<Counter(<<"GlobalMemory">>, <<"GlobalMemory">>, FALSE,
                     MemoryCounters(GlobalMemories(c))),
             Leaf(<<"Network">>)>>)

\* The counters of a tree: ids with their counter and the names on the way.
RECURSIVE Below(_, _, _)
Below(counter, id, name) ==
  {[id |-> id, name |-> name, mult_pipeline_stage |-> counter.mult_pipeline_stage]}
    \cup UNION {Below(sub, Append(id, sub.key), Append(name, sub.name)) :
                  sub \in Elements(counter.subs)}

-----------------------------------------------------------------------------
(***************************************************************************)
(* Time of activity: the segment under way, [start_time_tag, end_time_tag),*)
(* and those that are over.                                                *)
(***************************************************************************)
NewTimingStatistic ==
  [start_time_tag |-> 0, end_time_tag |-> 0, activity_time |-> 0, time_segment_list |-> <<>>]

\* TimingStatistic::finishRun, and what a segment that is over adds.
CloseSegment(t) ==
  IF t.end_time_tag > t.start_time_tag
    THEN [t EXCEPT !.activity_time = @ + t.end_time_tag - t.start_time_tag,
                   !.time_segment_list = Append(@, <<t.start_time_tag, t.end_time_tag>>)]
    ELSE t

\* Mutant: the last activity to begin ends the segment.
AddActivityTimeLast(t, now, latency) ==
  IF now > t.end_time_tag
    THEN [CloseSegment(t) EXCEPT !.start_time_tag = now, !.end_time_tag = now + latency]
    ELSE [t EXCEPT !.end_time_tag = now + latency]

AddActivityTime(t, now, latency) ==
  IF t.end_time_tag >= now + latency THEN t
  ELSE IF now > t.end_time_tag
    THEN [CloseSegment(t) EXCEPT !.start_time_tag = now, !.end_time_tag = now + latency]
    ELSE [t EXCEPT !.end_time_tag = now + latency]

\* A statistic passes activity on to its parent, whose name is a prefix of its own.
Concerns(name, names) == \E n \in names : IsPrefix(name, n)

HardwareActivity(stats, names, now, latency) ==
  [n \in DOMAIN stats |-> IF Concerns(n, names) THEN AddActivityTime(stats[n], now, latency)
                                                ELSE stats[n]]

InstActivity(stats, names, operator, now, latency) ==
  [n \in DOMAIN stats \cup names |->
     LET before == IF n \in DOMAIN stats THEN stats[n] ELSE <<>>
         Of(o) == IF o \in DOMAIN before THEN before[o] ELSE NewTimingStatistic
     IN  IF ~ Concerns(n, names) THEN before
         ELSE [o \in DOMAIN before \cup {operator} |->
                 IF o = operator THEN AddActivityTime(Of(o), now, latency) ELSE before[o]]]

-----------------------------------------------------------------------------
(***************************************************************************)
(* The profilers.  A full name already bound is shared.                    *)
(***************************************************************************)
\* A tree of counters under a name: each has one more name, which gets a statistic if it
\* has none.  A counter bound to a name already has its tree bound below that name.
BindEnergyCounter(profiler, name, counter, id) ==
  LET tree == Below(counter, id, name)
      names == {c.name : c \in tree}
  IN  [stats |-> [n \in DOMAIN profiler.stats \cup names |->
                    IF n \in DOMAIN profiler.stats THEN profiler.stats[n] ELSE NewTimingStatistic],
       bound |-> [k \in DOMAIN profiler.bound |->
                    profiler.bound[k] \cup {c.name : c \in {d \in tree : d.id = k}}]]

\* Profiler::bindHardware: the chip, then each core as a tree of its own.
BindHardware(profiling, config) ==
  LET chip == ChipCounter(config)
      ids == {c.id : c \in Below(chip, <<chip.key>>, <<>>)}
      none == [stats |-> <<>>, bound |-> [id \in ids |-> {}]]
      all == BindEnergyCounter(none, <<<<"Chip">>>>, chip, <<chip.key>>)
      cores == SubSeq(chip.subs, 1, config.chip_config.core_cnt)
  IN  IF ~ profiling.hardware THEN none
      ELSE IF ~ profiling.each_core THEN all
      ELSE FoldLeft(LAMBDA p, core : BindEnergyCounter(p, <<core.key>>, core, <<chip.key, core.key>>),
                    all, cores)

\* InstProfiler::addInstGroup: the groups of the profile, and those below them.
RECURSIVE InstGroupNames(_, _)
InstGroupNames(groups, parent) ==
  UNION {{Append(parent, g.name)} \cup InstGroupNames(g.sub_groups, Append(parent, g.name)) :
           g \in Elements(groups)}

NewInstStatistics(profiling) == [name \in InstGroupNames(profiling.inst_groups, <<>>) |-> <<>>]

SingleInstName(tag) == <<<<"Core", tag.core_id, tag.inst_opcode, tag.ins_id>>>>
InstTypeName(tag) == <<<<tag.inst_opcode>>>>

\* The statistics an activity is added to: single instruction, type and group.
InstNames(profiling, tag) ==
  (IF profiling.single_inst THEN {SingleInstName(tag)} ELSE {})
    \cup (IF profiling.inst_type THEN {InstTypeName(tag)} ELSE {})
    \cup (IF profiling.inst_group /\ tag.inst_group_tag # <<>> THEN {tag.inst_group_tag} ELSE {})

\* timing_statistic_map_[tag] of a group that the profile does not have is null.
GroupIsNull(profiling, stats, tag) ==
  profiling.inst_group /\ tag.inst_group_tag # <<>> /\ tag.inst_group_tag \notin DOMAIN stats

-----------------------------------------------------------------------------
(***************************************************************************)
(* Energy.  The stages of a pipeline count the power of the strongest      *)
(* activity only: a stack of [end_time, power], the top ending first.      *)
(***************************************************************************)
NewEnergy(mult_pipeline_stage) ==
  [mult_pipeline_stage |-> mult_pipeline_stage, dynamic |-> 0, stack |-> <<>>]
Tag(end_time, power) == [end_time |-> end_time, power |-> power]

\* Down the stack, to the end of the new activity.
RECURSIVE Walk(_, _, _)
Walk(w, end, power) ==
  IF w.stack = <<>> \/ w.now >= end THEN w
  ELSE LET cur == Head(w.stack)
           down == [w EXCEPT !.stack = Tail(@), !.now = cur.end_time]
           Adds(until, temp) == [down EXCEPT !.dynamic = @ + (power - cur.power) * (until - w.now),
                                             !.temp = temp \o @]
       IN  Walk(IF power <= cur.power THEN [down EXCEPT !.temp = <<cur>> \o @]
                ELSE IF cur.end_time > end THEN Adds(end, <<cur, Tag(end, power)>>)
                ELSE Adds(cur.end_time, <<Tag(cur.end_time, power)>>),
                end, power)

AddPipelineStageDynamicEnergyPJ(e, now, latency, power) ==
  LET end == now + latency
      live == IF \E k \in DOMAIN e.stack : e.stack[k].end_time > now
                THEN SubSeq(e.stack, SelectInSeq(e.stack, LAMBDA t : t.end_time > now),
                            Len(e.stack))
                ELSE <<>>
      walked == Walk([dynamic |-> e.dynamic, stack |-> live, temp |-> <<>>, now |-> now],
                     end, power)
      last == walked.now < end
      temp == If(last, <<Tag(end, power)>>) \o walked.temp
      Push(s, t) == IF s = <<>> \/ t.power > Head(s).power THEN <<t>> \o s ELSE s
  IN  [e EXCEPT !.dynamic = walked.dynamic + IF last THEN power * (end - walked.now) ELSE 0,
                !.stack = FoldLeft(Push, walked.stack, temp)]

AddDynamicEnergyPJ(e, now, latency, power) ==
  IF e.mult_pipeline_stage THEN AddPipelineStageDynamicEnergyPJ(e, now, latency, power)
  ELSE [e EXCEPT !.dynamic = @ + latency * power]

-----------------------------------------------------------------------------
(***************************************************************************)
(* Reports.  A ratio is a pair; what divides by zero is reported as zero.  *)
(***************************************************************************)
Zero == <<0, 1>>
Ratio(a, b) == IF b = 0 THEN Zero ELSE <<a, b>>
Over(r, s) == IF s[1] = 0 THEN Zero ELSE <<r[1] * s[2], r[2] * s[1]>>

NewEnergyReporter == [total |-> 0, static |-> 0, dynamic |-> 0, sub_modules |-> <<>>]

Plus(r, s) == [r EXCEPT !.total = @ + s.total, !.static = @ + s.static, !.dynamic = @ + s.dynamic]

RECURSIVE Accumulate(_, _)
Accumulate(r, another) ==
  LET a == r.sub_modules  b == another.sub_modules
  IN  [Plus(r, another) EXCEPT !.sub_modules =
         [n \in DOMAIN a \cup DOMAIN b |-> IF n \notin DOMAIN b THEN a[n]
                                           ELSE IF n \notin DOMAIN a THEN b[n]
                                           ELSE Accumulate(a[n], b[n])]]

\* Mutant: of the modules of one name the last is kept.
AddSubModuleLast(r, name, sub_module) ==
  [Plus(r, sub_module) EXCEPT !.sub_modules = (name :> sub_module) @@ @]

AddSubModule(r, name, sub_module) ==
  [Plus(r, sub_module) EXCEPT !.sub_modules =
     IF name \in DOMAIN @ THEN [@ EXCEPT ![name] = Accumulate(@, sub_module)]
                          ELSE @ @@ (name :> sub_module)]

RECURSIVE GetEnergyReporter(_, _, _, _)
GetEnergyReporter(counter, id, energy, running_time) ==
  LET static == StaticPower(id) * running_time
      own == [total |-> static + energy[id].dynamic, static |-> static,
              dynamic |-> energy[id].dynamic, sub_modules |-> <<>>]
  IN  FoldLeft(LAMBDA r, sub : AddSubModule(r, sub.name,
                 GetEnergyReporter(sub, Append(id, sub.key), energy, running_time)),
               own, counter.subs)

\* The figures that follow from latency, energy and operations.
Figures(r) ==
  LET average_power == Ratio(r.total_energy, r.latency)
      TOPS == Ratio(r.OP_count, r.latency)
  IN  [r EXCEPT !.average_power = average_power, !.TOPS = TOPS,
                !.TOPS_per_W = Over(TOPS, average_power)]

NewReporter(latency, energy_reporter, OP_count) ==
  Figures([latency |-> latency, total_energy |-> energy_reporter.total, OP_count |-> OP_count,
           energy_reporter |-> energy_reporter, average_power |-> Zero, TOPS |-> Zero,
           TOPS_per_W |-> Zero])

ReporterPlus(r, another) ==
  Figures([r EXCEPT !.latency = @ + another.latency,
                    !.total_energy = @ + another.total_energy,
                    !.OP_count = @ + another.OP_count,
                    !.energy_reporter = Accumulate(@, another.energy_reporter)])

SetOPCount(r, OP_count) == Figures([r EXCEPT !.OP_count = OP_count])

RECURSIVE EnergyCompare(_, _)
EnergyCompare(r1, r2) ==
  [diff |-> <<r1.total - r2.total, r1.static - r2.static, r1.dynamic - r2.dynamic>>,
   ratio |-> <<Ratio(r1.total, r2.total), Ratio(r1.static, r2.static),
               Ratio(r1.dynamic, r2.dynamic)>>,
   sub_modules |-> [n \in DOMAIN r1.sub_modules \cap DOMAIN r2.sub_modules |->
                      EnergyCompare(r1.sub_modules[n], r2.sub_modules[n])]]

\* Of the figures that are ratios themselves only the quotient is kept.
ReporterCompare(r1, r2) ==
  [latency |-> <<r1.latency - r2.latency, Ratio(r1.latency, r2.latency)>>,
   total_energy |-> <<r1.total_energy - r2.total_energy, Ratio(r1.total_energy, r2.total_energy)>>,
   average_power |-> Over(r1.average_power, r2.average_power),
   TOPS |-> Over(r1.TOPS, r2.TOPS), TOPS_per_W |-> Over(r1.TOPS_per_W, r2.TOPS_per_W),
   energy |-> EnergyCompare(r1.energy_reporter, r2.energy_reporter)]

-----------------------------------------------------------------------------
(***************************************************************************)
(* The network: flits, and the time and energy of each between two ids; a  *)
(* pair the file of the network does not have costs nothing.               *)
(***************************************************************************)
Flits(c, data_size_byte) == IntDivCeil(data_size_byte, c.bus_width_byte)
FlitCost(map, src_id, dst_id) ==
  IF <<src_id, dst_id>> \in DOMAIN map THEN map[<<src_id, dst_id>>] ELSE 0

=============================================================================
