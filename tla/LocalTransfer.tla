---------------------------- MODULE LocalTransfer ----------------------------
(***************************************************************************)
(* Transfers inside a core: the thread of the transfer unit and the three  *)
(* stage threads of each local data path (LocalTransferDataPath in core/   *)
(* execute_unit/transfer_unit.cpp) with the SubmoduleSockets between them, *)
(* and the local memories they read and write (memory/memory.cpp), each    *)
(* with its queue and its thread.                                          *)
(*                                                                         *)
(* The core in front of the unit is the scoreboard that CoreIssue is shown *)
(* to implement.  An action is what a thread does between two waits; a     *)
(* stage that is started begins before the thread that started it goes on. *)
(* Data is followed cell by cell, a batch of a transfer filling one cell.  *)
(***************************************************************************)
EXTENDS Resources, Sequences, FiniteSets

CONSTANTS
  Cells,            \* addresses of a memory
  Program,          \* the transfers: src, dst <<memory, first cell>>, process_times
  DedicatedPairs,   \* per dedicated data path, the pairs of memories it joins
  Pipeline          \* config_.pipeline

ASSUME PipelineAssumption == Pipeline \in BOOLEAN

ASSUME PairsAssumption ==
  /\ DOMAIN DedicatedPairs = DedicatedIds
  /\ \A id \in DedicatedIds : DedicatedPairs[id] \subseteq SUBSET Memories

\* A transfer of no bytes has one batch, or none if memories are one byte wide: then it
\* would never be released.
ASSUME ProgramAssumption ==
  /\ Len(Program) \in Nat /\ DOMAIN Program = 1 .. Len(Program)
  /\ \A i \in DOMAIN Program :
       LET ins == Program[i]
       IN  /\ ins.process_times \in Nat \ {0}
           /\ ins.src[1] \in Memories /\ ins.dst[1] \in Memories
           /\ \A b \in 0 .. ins.process_times - 1 :
                ins.src[2] + b \in Cells /\ ins.dst[2] + b \in Cells

VARIABLES
  next_ins,                   \* of the program, 1 .. Len(Program) + 1
  booked,                     \* the scoreboard: ids of the instructions that hold resources
  release_list,               \* released, not yet processed by the conflict handler
  unit,                       \* what the thread of the unit is handing over, 0 for nothing
  issue, read, write,         \* per data path, the stages
  access_queue, serving, data_,  \* per memory
  finished                    \* ids of the instructions that have finished

stages == <<issue, read, write>>
memory == <<access_queue, serving, data_>>
vars == <<next_ins, booked, release_list, unit, stages, memory, finished>>

LocalPaths == {path \in DataPath : path.type \in {"intra_core_bus", "local_dedicated_data_path"}}

\* A cell; also a value, named after the cell that holds it at the start.
Cell == Memories \X Cells

Idle == [ins |-> 0, batch |-> 0, at |-> "idle"]
NoAccess == [type |-> "none"]

Init ==
  /\ next_ins = 1 /\ booked = {} /\ release_list = {} /\ unit = 0
  /\ issue = [p \in LocalPaths |-> Idle]
  /\ read = [p \in LocalPaths |-> Idle]
  /\ write = [p \in LocalPaths |-> Idle]
  /\ access_queue = [m \in Memories |-> <<>>]
  /\ serving = [m \in Memories |-> NoAccess]
  /\ data_ = [c \in Cell |-> c]
  /\ finished = {}

-----------------------------------------------------------------------------
(***************************************************************************)
(* Decoding a transfer.                                                    *)
(***************************************************************************)
Src(i, batch) == <<Program[i].src[1], Program[i].src[2] + batch>>
Dst(i, batch) == <<Program[i].dst[1], Program[i].dst[2] + batch>>

\* Mutant: one batch too many.
LastBatchLate(stage) == stage.batch = Program[stage.ins].process_times

LastBatch(stage) == stage.batch = Program[stage.ins].process_times - 1

\* decodeTransferInsDataPath: the first dedicated path that joins the two memories.
DecodedPath(i) ==
  LET pair == {Program[i].src[1], Program[i].dst[1]}
      joining == {id \in DedicatedIds : pair \in DedicatedPairs[id]}
  IN  IF joining = {}
        THEN [type |-> "intra_core_bus", id |-> 0]
        ELSE [type |-> "local_dedicated_data_path",
              id |-> CHOOSE id \in joining : \A other \in joining : id <= other]

UsePipeline(i) == Pipeline /\ Program[i].src[1] # Program[i].dst[1]

ConflictInfo(i) ==
  [ins_id |-> i, unit |-> "transfer", functor |-> NoFunctor, path |-> DecodedPath(i),
   read |-> {Program[i].src[1]}, write |-> {Program[i].dst[1]}]

-----------------------------------------------------------------------------
(***************************************************************************)
(* The core and the thread of the unit.                                    *)
(***************************************************************************)

Stalled(i) == \E j \in booked : ConflictWithIns(ConflictInfo(j), ConflictInfo(i))

Take ==
  /\ unit = 0
  /\ next_ins \in DOMAIN Program
  /\ ~ Stalled(next_ins)
  /\ unit' = next_ins
  /\ booked' = booked \cup {next_ins}
  /\ next_ins' = next_ins + 1
  /\ UNCHANGED <<release_list, stages, memory, finished>>

\* waitAndStartNextStage to the path, then readyForNextExecute.
HandOver ==
  LET path == DecodedPath(unit)
  IN  /\ unit # 0
      /\ issue[path] = Idle
      /\ issue' = [issue EXCEPT ![path] = [ins |-> unit, batch |-> 0, at |-> "batch"]]
      /\ unit' = 0
      /\ UNCHANGED <<next_ins, booked, release_list, read, write, memory, finished>>

\* processReleaseResource and, deltas later, the conflict handler.
ProcessRelease ==
  /\ release_list # {}
  /\ booked' = booked \ release_list
  /\ release_list' = {}
  /\ UNCHANGED <<next_ins, unit, stages, memory, finished>>

-----------------------------------------------------------------------------
(***************************************************************************)
(* The stages of a data path.                                              *)
(***************************************************************************)
Access(request) == access_queue' = [access_queue EXCEPT ![request.cell[1]] = Append(@, request)]

\* cur_ins_next_batch_ is lost if the issue stage does not wait for it.
NextBatch(path) ==
  IF issue[path].at = "wait_next_batch"
    THEN [issue EXCEPT ![path].at = "batch", ![path].batch = @ + 1]
    ELSE issue

StartRead(path) ==
  LET stage == issue[path]
  IN  /\ stage.at = "batch"
      /\ read[path] = Idle
      /\ read' = [read EXCEPT ![path] = [ins |-> stage.ins, batch |-> stage.batch, at |-> "access"]]
      /\ issue' = [issue EXCEPT ![path] =
                     IF LastBatch(stage) THEN Idle ELSE [@ EXCEPT !.at = "wait_next_batch"]]
      /\ Access([type |-> "read", path |-> path, cell |-> Src(stage.ins, stage.batch)])
      /\ UNCHANGED <<next_ins, booked, release_list, unit, write, serving, data_, finished>>

\* Mutant: the resources are released with the first batch.
ReleasesFirst(stage) == stage.batch = 0

Releases(stage) == LastBatch(stage)

\* The read stage passes its data on and is free; what the write stage does up to
\* its access follows at once: the release comes first.
StartWrite(path) ==
  LET stage == read[path]
  IN  /\ stage.at = "data"
      /\ write[path] = Idle
      /\ write' = [write EXCEPT ![path] = [stage EXCEPT !.at = "access"]]
      /\ read' = [read EXCEPT ![path] = Idle]
      /\ issue' = IF UsePipeline(stage.ins) /\ ~ LastBatch(stage) THEN NextBatch(path) ELSE issue
      /\ release_list' = IF Releases(stage) THEN release_list \cup {stage.ins} ELSE release_list
      /\ Access([type |-> "write", path |-> path, cell |-> Dst(stage.ins, stage.batch),
                 data |-> stage.data])
      /\ UNCHANGED <<next_ins, booked, unit, serving, data_, finished>>

\* Mutant: only the read stage asks for the next batch.
EndsBatchNever(stage) == FALSE

EndsBatch(stage) == ~ UsePipeline(stage.ins) /\ ~ LastBatch(stage)

\* The write stage after its access: the next batch, or finishInstruction.
EndWrite(path) ==
  LET stage == write[path]
  IN  /\ stage.at = "written"
      /\ write' = [write EXCEPT ![path] = Idle]
      /\ issue' = IF EndsBatch(stage) THEN NextBatch(path) ELSE issue
      /\ finished' = IF LastBatch(stage) THEN finished \cup {stage.ins} ELSE finished
      /\ UNCHANGED <<next_ins, booked, release_list, unit, read, memory>>

-----------------------------------------------------------------------------
(***************************************************************************)
(* A memory serves its queue: the data moves when the access begins, the   *)
(* thread that asked goes on when its latency is over.                     *)
(***************************************************************************)

\* Mutant: back instead of front.
ServedYoungest(queue) == queue[Len(queue)]

Served(queue) == Head(queue)

Serve(m) ==
  LET request == Served(access_queue[m])
  IN  /\ serving[m] = NoAccess
      /\ access_queue[m] # <<>>
      /\ access_queue' = [access_queue EXCEPT ![m] = Tail(@)]
      /\ IF request.type = "write"
           THEN /\ data_' = [data_ EXCEPT ![request.cell] = request.data]
                /\ serving' = [serving EXCEPT ![m] = [type |-> "write", path |-> request.path]]
           ELSE /\ UNCHANGED data_
                /\ serving' = [serving EXCEPT ![m] =
                                 [type |-> "read", path |-> request.path,
                                  data |-> data_[request.cell]]]
      /\ UNCHANGED <<next_ins, booked, release_list, unit, stages, finished>>

FinishAccess(m) ==
  LET path == serving[m].path
  IN  /\ serving[m] # NoAccess
      /\ serving' = [serving EXCEPT ![m] = NoAccess]
      /\ IF serving[m].type = "read"
           THEN /\ read' = [read EXCEPT ![path] =
                              [ins |-> @.ins, batch |-> @.batch, at |-> "data",
                               data |-> serving[m].data]]
                /\ UNCHANGED write
           ELSE /\ write' = [write EXCEPT ![path].at = "written"]
                /\ UNCHANGED read
      /\ UNCHANGED <<next_ins, booked, release_list, unit, issue, access_queue, data_, finished>>

-----------------------------------------------------------------------------
Path(p) == StartRead(p) \/ StartWrite(p) \/ EndWrite(p)

MemoryProcess(m) == Serve(m) \/ FinishAccess(m)

Next ==
  \/ Take \/ HandOver \/ ProcessRelease
  \/ \E p \in LocalPaths : Path(p)
  \/ \E m \in Memories : MemoryProcess(m)

Spec == Init /\ [][Next]_vars

\* The kernel runs every thread that can go on, and every latency ends.
Fairness ==
  /\ WF_vars(Take) /\ WF_vars(HandOver) /\ WF_vars(ProcessRelease)
  /\ \A p \in LocalPaths : WF_vars(Path(p))
  /\ \A m \in Memories : WF_vars(MemoryProcess(m))

FairSpec == Spec /\ Fairness

-----------------------------------------------------------------------------
(***************************************************************************)
(* Properties.                                                             *)
(***************************************************************************)
Ids == DOMAIN Program

Batches == UNION {{i} \X (0 .. Program[i].process_times - 1) : i \in Ids}

Stage(at) == {[ins |-> b[1], batch |-> b[2], at |-> at] : b \in Batches}

DataStage(at) ==
  {[ins |-> b[1], batch |-> b[2], at |-> a, data |-> v] : b \in Batches, a \in at, v \in Cell}

\* Every stage holds a batch of a transfer, every access a cell of its memory.
TypeOK ==
  /\ next_ins \in 1 .. Len(Program) + 1 /\ unit \in Ids \cup {0}
  /\ booked \subseteq Ids /\ release_list \subseteq booked /\ finished \subseteq Ids
  /\ \A p \in LocalPaths :
       /\ issue[p] \in {Idle} \cup Stage("batch") \cup Stage("wait_next_batch")
       /\ read[p] \in {Idle} \cup Stage("access") \cup DataStage({"data"})
       /\ write[p] \in {Idle} \cup DataStage({"access", "written"})
  /\ \A m \in Memories : \A k \in DOMAIN access_queue[m] :
       access_queue[m][k].cell \in {m} \X Cells
  /\ data_ \in [Cell -> Cell]

(***************************************************************************)
(* The reference: the transfers one after the other, batch by batch.       *)
(***************************************************************************)

\* What memory holds after the first n batches of transfer i, n = 0 .. process_times.
Copied(start, i) ==
  LET after[n \in 0 .. Program[i].process_times] ==
        IF n = 0 THEN start
                 ELSE [after[n - 1] EXCEPT ![Dst(i, n - 1)] = after[n - 1][Src(i, n - 1)]]
  IN  after

\* And after the first i transfers.
InSequence[i \in Ids \cup {0}] ==
  IF i = 0 THEN [c \in Cell |-> c]
           ELSE Copied(InSequence[i - 1], i)[Program[i].process_times]

Expected(i, batch) == Copied(InSequence[i - 1], i)[batch][Src(i, batch)]

Done == finished = Ids

\* However the transfers overlap, each batch carries what it would carry if they
\* ran one after the other, and memory ends as it would then: releasing at the
\* start of the last write (transfer_unit.cpp:77-79) lets nobody read too early,
\* because the access of the write is in the queue of its memory before any other.
DataInSequence ==
  /\ \A p \in LocalPaths :
       /\ read[p].at = "data" => read[p].data = Expected(read[p].ins, read[p].batch)
       /\ write[p] # Idle => write[p].data = Expected(write[p].ins, write[p].batch)
  /\ Done => data_ = InSequence[Len(Program)]

\* An instruction whose resources are free has read all it reads, and of what it
\* writes only the last batch is under way.
FreedIsOver ==
  \A i \in Ids :
    i < next_ins /\ i \notin booked \ release_list =>
      /\ unit # i
      /\ \A p \in LocalPaths :
           /\ issue[p].ins # i /\ read[p].ins # i
           /\ write[p].ins = i => LastBatch(write[p])

\* Every transfer finishes: no notification of the next batch is lost, and no
\* stage waits for one that waits for it.
Completes == <>Done

=============================================================================
