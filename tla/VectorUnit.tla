------------------------------ MODULE VectorUnit ------------------------------
(***************************************************************************)
(* The SIMD unit (core/execute_unit/simd_unit.cpp) or the reduce unit      *)
(* (reduce_unit.cpp): an issue thread that splits an instruction into      *)
(* batches, a read stage, for each functor configuration a pipeline of its *)
(* own, and one write stage at the end of all of them.                     *)
(*                                                                         *)
(* The core in front of the unit is the scoreboard that CoreIssue is shown *)
(* to implement.  An action is what a thread does between two waits; a     *)
(* stage that is started begins before the thread that started it goes on. *)
(* Memories answer after any time, and in any order; a functor stage takes *)
(* any time.  The issue thread and the read stage share finish_read_, the  *)
(* event of the unit's memory socket: it wakes both.                       *)
(***************************************************************************)
EXTENDS Resources, Sequences, FiniteSets, Functions

CONSTANTS
  StageCnt,     \* per functor, pipeline_stage_cnt
  FunctorCnt,   \* per functor, functor_cnt or reduce_input_cnt: elements of a batch
  SimdPrograms, ReducePrograms,  \* of each unit, sequences of instructions: functor,
                \* vectors and scalars (the memory of each input), write (memory), len,
                \* write_batch_vector_len
  Pipeline      \* config_.pipeline

ASSUME UnitAssumption == SimdPrograms \cap ReducePrograms = {}

ASSUME PipelineAssumption == Pipeline \in BOOLEAN

ASSUME FunctorsAssumption ==
  \A f \in Functors : StageCnt[f] \in Nat \ {0} /\ FunctorCnt[f] \in Nat \ {0}

\* An instruction of no elements has one batch, or none if a batch is one element: then
\* it would never be released.  A reduce instruction has one input.
ASSUME ProgramsAssumption ==
  \A p \in SimdPrograms \cup ReducePrograms :
    /\ Len(p) \in Nat /\ DOMAIN p = 1 .. Len(p)
    /\ \A i \in DOMAIN p :
         LET ins == p[i]
         IN  /\ ins.functor \in Functors
             /\ Len(ins.vectors) \in Nat /\ Len(ins.scalars) \in Nat
             /\ ins.len \in Nat /\ ins.write_batch_vector_len \in Nat \ {0}
             /\ ins.len = 0 /\ ins.vectors # <<>> => FunctorCnt[ins.functor] > 1
             /\ p \in ReducePrograms => Len(ins.vectors) = 1 /\ ins.scalars = <<>>

VARIABLES
  program,                \* the one that runs
  next_ins,               \* of the program, 1 .. Len(program) + 1
  booked, release_list,   \* the scoreboard, as in LocalTransfer
  issue, read, write,     \* the threads of the unit
  stage,                  \* per functor, its pipeline stages
  executing_functor_,
  reading,                \* per thread, its read accesses that are not over
  output_cumulative_cnt, write_cumulative_cnt,
  written,                \* per instruction, how many batches have been written out
  finished

threads == <<issue, read, write, stage>>
counters == <<output_cumulative_cnt, write_cumulative_cnt, written>>
unit_vars == <<next_ins, booked, release_list, threads, executing_functor_, reading, counters,
               finished>>
vars == <<program, unit_vars>>

\* The unit that is modelled, by the program it runs.
Unit == IF program \in ReducePrograms THEN "reduce" ELSE "simd"

Ids == DOMAIN program

Idle == [ins |-> 0, batch |-> 0, at |-> "idle"]

Init ==
  /\ program \in SimdPrograms \cup ReducePrograms
  /\ next_ins = 1 /\ booked = {} /\ release_list = {}
  /\ issue = Idle /\ read = Idle /\ write = Idle
  /\ stage = [f \in Functors |-> [k \in 1 .. StageCnt[f] |-> Idle]]
  /\ executing_functor_ = NoFunctor
  /\ reading = [thread \in {"issue", "read"} |-> 0]
  /\ output_cumulative_cnt = 0 /\ write_cumulative_cnt = 0
  /\ written = [i \in Ids |-> 0]
  /\ finished = {}

-----------------------------------------------------------------------------
(***************************************************************************)
(* decodeAndGetInfo and getDataConflictInfo.                               *)
(***************************************************************************)
\* Division in the code rounds towards zero.
IntDivCeil(a, b) == IF a = 0 /\ b > 1 THEN 1 ELSE (a - 1) \div b + 1

ProcessTimes(i) ==
  IF program[i].vectors = <<>> THEN 1 ELSE IntDivCeil(program[i].len, FunctorCnt[program[i].functor])

\* Mutant: one batch too many.
LastBatchLate(s) == s.batch = ProcessTimes(s.ins)

LastBatch(s) == s.batch = ProcessTimes(s.ins) - 1

UsePipeline(i) == Pipeline /\ program[i].write \notin Range(program[i].vectors)

ConflictInfo(i) ==
  [ins_id |-> i, unit |-> Unit, functor |-> program[i].functor, path |-> NoPath,
   read |-> Range(program[i].vectors) \cup Range(program[i].scalars),
   write |-> {program[i].write}]

\* What is booked: without the scalar inputs.
Allocated(i) == [ConflictInfo(i) EXCEPT !.read = Range(program[i].vectors)]

Stalled(i) == \E j \in booked : ConflictWithIns(Allocated(j), ConflictInfo(i))

-----------------------------------------------------------------------------
(***************************************************************************)
(* Reads.  A thread that has inputs left waits at "access" for finish_read_.*)
(***************************************************************************)

\* The thread begins to read its inputs, or goes on to at when it has none.
Reading(i, batch, inputs, at) ==
  [ins |-> i, batch |-> batch, left |-> inputs, at |-> IF inputs = 0 THEN at ELSE "access"]

Asks(thread, inputs) ==
  IF inputs = 0 THEN reading ELSE [reading EXCEPT ![thread] = @ + 1]

\* Woken, it asks for its next input.
Woken(s, at) == IF s.at = "access" THEN Reading(s.ins, s.batch, s.left - 1, at) ELSE s

AsksAgain(s) == IF s.at = "access" /\ s.left > 1 THEN 1 ELSE 0

\* Mutant: the access of the other thread ends and nobody is told.
FinishAccessUnheard(thread) ==
  /\ reading[thread] > 0
  /\ reading' = [reading EXCEPT ![thread] = @ - 1]
  /\ UNCHANGED <<next_ins, booked, release_list, threads, executing_functor_, counters, finished>>

FinishAccess(thread) ==
  /\ reading[thread] > 0
  /\ issue' = Woken(issue, "batch")
  /\ read' = Woken(read, "data")
  /\ reading' = [t \in DOMAIN reading |->
                   reading[t] - (IF t = thread THEN 1 ELSE 0)
                     + AsksAgain(IF t = "issue" THEN issue ELSE read)]
  /\ UNCHANGED <<next_ins, booked, release_list, write, stage, executing_functor_, counters,
                 finished>>

-----------------------------------------------------------------------------
(***************************************************************************)
(* The threads of the unit.                                                *)
(***************************************************************************)

\* The issue thread takes the next instruction and reads its scalar inputs.
Take ==
  LET i == next_ins
      scalars == Len(program[i].scalars)
  IN  /\ issue = Idle
      /\ i \in Ids
      /\ ~ Stalled(i)
      /\ next_ins' = i + 1
      /\ booked' = booked \cup {i}
      /\ executing_functor_' = program[i].functor
      /\ issue' = Reading(i, 0, scalars, "batch")
      /\ reading' = Asks("issue", scalars)
      /\ UNCHANGED <<release_list, read, write, stage, counters, finished>>

ProcessRelease ==
  /\ release_list # {}
  /\ booked' = booked \ release_list
  /\ release_list' = {}
  /\ UNCHANGED <<next_ins, threads, executing_functor_, reading, counters, finished>>

\* cur_ins_next_batch_ is lost if the issue thread does not wait for it.
NextBatch ==
  IF issue.at = "wait_next_batch" THEN [issue EXCEPT !.at = "batch", !.batch = @ + 1] ELSE issue

\* After the last batch the unit is ready for the next instruction.
StartRead ==
  LET inputs == Len(program[issue.ins].vectors)
  IN  /\ issue.at = "batch"
      /\ read = Idle
      /\ read' = Reading(issue.ins, issue.batch, inputs, "data")
      /\ reading' = Asks("read", inputs)
      /\ issue' = IF LastBatch(issue) THEN Idle ELSE [issue EXCEPT !.at = "wait_next_batch"]
      /\ UNCHANGED <<next_ins, booked, release_list, write, stage, executing_functor_, counters,
                     finished>>

Batch(s, at) == [ins |-> s.ins, batch |-> s.batch, at |-> at]

\* The functor is the one executing now, not one the batch carries with it.
StartFunctor ==
  LET first == stage[executing_functor_][1]
  IN  /\ read.at = "data"
      /\ first = Idle
      /\ stage' = [stage EXCEPT ![executing_functor_][1] = Batch(read, "execute")]
      /\ read' = Idle
      /\ issue' = IF UsePipeline(read.ins) /\ ~ LastBatch(read) THEN NextBatch ELSE issue
      /\ UNCHANGED <<next_ins, booked, release_list, write, executing_functor_, reading, counters,
                     finished>>

StartNextStage(f, k) ==
  /\ k < StageCnt[f]
  /\ stage[f][k] # Idle /\ stage[f][k + 1] = Idle
  /\ stage' = [stage EXCEPT ![f][k + 1] = stage[f][k], ![f][k] = Idle]
  /\ UNCHANGED <<next_ins, booked, release_list, issue, read, write, executing_functor_, reading,
                 counters, finished>>

-----------------------------------------------------------------------------
(***************************************************************************)
(* The write stage.  The SIMD unit writes each batch; the reduce unit, of  *)
(* which a batch gives one output, writes when it has a width of them.     *)
(***************************************************************************)

Writes(s, outputs) ==
  \/ Unit = "simd"
  \/ outputs = program[s.ins].write_batch_vector_len
  \/ LastBatch(s)

WriteAccess(s, outputs) ==
  IF Unit = "simd"
    THEN [ins |-> s.ins, batch |-> s.batch, at |-> "access", from |-> s.batch, count |-> 1]
    ELSE [ins |-> s.ins, batch |-> s.batch, at |-> "access",
          from |-> write_cumulative_cnt * program[s.ins].write_batch_vector_len,
          count |-> outputs]

\* Mutant: the resources are released with the first batch.
ReleasesFirst(s) == s.batch = 0

Releases(s) == LastBatch(s)

\* The last stage of a functor starts the write stage, which goes on to its access;
\* the release comes before it.
StartWrite(f) ==
  LET s == stage[f][StageCnt[f]]
      outputs == output_cumulative_cnt + 1
  IN  /\ s # Idle
      /\ write = Idle
      /\ stage' = [stage EXCEPT ![f][StageCnt[f]] = Idle]
      /\ write' = IF Writes(s, outputs) THEN WriteAccess(s, outputs) ELSE Batch(s, "written")
      /\ release_list' = IF Releases(s) THEN release_list \cup {s.ins} ELSE release_list
      /\ output_cumulative_cnt' = IF Unit = "reduce" THEN outputs ELSE 0
      /\ UNCHANGED <<next_ins, booked, issue, read, executing_functor_, reading,
                     write_cumulative_cnt, written, finished>>

FinishWrite ==
  /\ write.at = "access"
  /\ write' = [write EXCEPT !.at = "written"]
  /\ written' = [written EXCEPT ![write.ins] = @ + write.count]
  /\ output_cumulative_cnt' = 0
  /\ write_cumulative_cnt' = IF Unit = "reduce" THEN write_cumulative_cnt + 1 ELSE 0
  /\ UNCHANGED <<next_ins, booked, release_list, issue, read, stage, executing_functor_, reading,
                 finished>>

\* Mutant: the count of writes goes on into the next instruction.
WriteCntAfterKept(s) == write_cumulative_cnt

WriteCntAfter(s) == IF LastBatch(s) THEN 0 ELSE write_cumulative_cnt

\* Mutant: only the read stage asks for the next batch.
EndsBatchNever(s) == FALSE

EndsBatch(s) == ~ UsePipeline(s.ins) /\ ~ LastBatch(s)

EndWrite ==
  /\ write.at = "written"
  /\ write' = Idle
  /\ issue' = IF EndsBatch(write) THEN NextBatch ELSE issue
  /\ write_cumulative_cnt' = WriteCntAfter(write)
  /\ finished' = IF LastBatch(write) THEN finished \cup {write.ins} ELSE finished
  /\ UNCHANGED <<next_ins, booked, release_list, read, stage, executing_functor_, reading,
                 output_cumulative_cnt, written>>

-----------------------------------------------------------------------------
Functor(f) == StartWrite(f) \/ \E k \in 1 .. StageCnt[f] : StartNextStage(f, k)

Next ==
  /\ UNCHANGED program
  /\ \/ Take \/ ProcessRelease \/ StartRead \/ StartFunctor \/ FinishWrite \/ EndWrite
     \/ \E thread \in {"issue", "read"} : FinishAccess(thread)
     \/ \E f \in Functors : Functor(f)

Spec == Init /\ [][Next]_vars

\* The kernel runs every thread that can go on, and every latency ends.
Fairness ==
  /\ WF_unit_vars(Take) /\ WF_unit_vars(ProcessRelease)
  /\ WF_unit_vars(StartRead) /\ WF_unit_vars(StartFunctor)
  /\ WF_unit_vars(FinishWrite) /\ WF_unit_vars(EndWrite)
  /\ \A thread \in {"issue", "read"} : WF_unit_vars(FinishAccess(thread))
  /\ \A f \in Functors : WF_unit_vars(Functor(f))

FairSpec == Spec /\ Fairness

-----------------------------------------------------------------------------
(***************************************************************************)
(* Properties.                                                             *)
(***************************************************************************)
IsBatch(s, at) ==
  s = Idle \/ (s.ins \in Ids /\ s.batch \in 0 .. ProcessTimes(s.ins) - 1 /\ s.at \in at)

\* Every thread holds a batch of an instruction and waits where it may; the counters
\* stay within the outputs of one instruction.
TypeOK ==
  /\ next_ins \in 1 .. Len(program) + 1
  /\ release_list \subseteq booked /\ booked \subseteq Ids /\ finished \subseteq Ids
  /\ IsBatch(issue, {"access", "batch", "wait_next_batch"})
  /\ IsBatch(read, {"access", "data"})
  /\ IsBatch(write, {"access", "written"})
  /\ \A f \in Functors : \A k \in 1 .. StageCnt[f] : IsBatch(stage[f][k], {"execute"})
  /\ executing_functor_ \in Functors \cup {NoFunctor}
  /\ \A i \in Ids : written[i] \in 0 .. ProcessTimes(i)
  /\ write_cumulative_cnt \in Nat /\ output_cumulative_cnt \in Nat

(***************************************************************************)
(* The read stage asks for executing_functor_ when it has read             *)
(* (simd_unit.cpp:157), by when the issue thread may have taken another    *)
(* instruction: still each batch runs on the functor of its instruction,   *)
(* and no two functors are busy together, whose last stages would both     *)
(* start the one write stage (submodule_socket.h:20-24).                   *)
(***************************************************************************)
Busy(f) == \E k \in 1 .. StageCnt[f] : stage[f][k] # Idle

FunctorOfIns ==
  /\ \A f \in Functors : \A k \in 1 .. StageCnt[f] :
       stage[f][k] # Idle => program[stage[f][k].ins].functor = f
  /\ \A f, g \in Functors : Busy(f) /\ Busy(g) => f = g

\* Outputs are written where they belong, though the reduce unit counts them over
\* batches (reduce_unit.cpp:161-197): each write begins where the last one of its
\* instruction ended and holds all there is, and an instruction ends complete.
WritesInPlace ==
  /\ write.at = "access" =>
       /\ write.from = written[write.ins]
       /\ write.from + write.count = write.batch + 1
  /\ \A i \in finished : written[i] = ProcessTimes(i)

\* An instruction whose resources are free has read all it reads, and only its last
\* batch is still in the write stage.
FreedIsOver ==
  \A i \in Ids :
    i < next_ins /\ i \notin booked \ release_list =>
      /\ issue.ins # i /\ read.ins # i
      /\ \A f \in Functors : \A k \in 1 .. StageCnt[f] : stage[f][k].ins # i
      /\ write.ins = i => LastBatch(write)

(***************************************************************************)
(* The issue thread and the read stage wait for one event, which wakes     *)
(* either one whosever access is over (memory_socket.h:35), and            *)
(* cur_ins_next_batch_ is lost on a thread that does not wait for it yet:  *)
(* still the threads never all wait for each other before every            *)
(* instruction has finished.  Blocked says that no thread can go on, no    *)
(* access is under way and nothing is to be released.                      *)
(***************************************************************************)
Blocked ==
  /\ issue = Idle => next_ins \notin Ids \/ Stalled(next_ins)
  /\ release_list = {}
  /\ ~ (issue.at = "batch" /\ read = Idle)
  /\ read.at = "data" => stage[executing_functor_][1] # Idle
  /\ \A f \in Functors : \A k \in 1 .. StageCnt[f] - 1 :
       stage[f][k] # Idle => stage[f][k + 1] # Idle
  /\ \A f \in Functors : stage[f][StageCnt[f]] # Idle => write # Idle
  /\ write.at \notin {"access", "written"}
  /\ \A thread \in DOMAIN reading : reading[thread] = 0

NeverStuck == Blocked => finished = Ids

\* Every instruction finishes: no notification of a next batch, or of a read that has
\* ended, is lost.
Completes == <>(finished = Ids)

=============================================================================
