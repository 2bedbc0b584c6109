-------------------------- MODULE VectorUnitProofs --------------------------
(***************************************************************************)
(* VectorUnit is proved correct for any programs, any functors and any     *)
(* number of pipeline stages.                                              *)
(*                                                                         *)
(* The argument has three parts.  The batches in the unit stand in a line,   *)
(* the later the stage the earlier the batch, so that the last batch of an *)
(* instruction is behind all others: whoever holds a batch that is not in  *)
(* the write stage still holds its resources.  And as the instructions     *)
(* that hold resources run on one functor, there is one line.              *)
(*                                                                         *)
(* The second part counts.  The batches of an instruction that stand in    *)
(* the line are those between the ones that have left it and the ones that *)
(* have been started, none missing; so the write stage meets each of them  *)
(* in turn, and its counters say how many there were.                      *)
(*                                                                         *)
(* The third part says who wakes whom: a thread that waits for an access   *)
(* has one under way, and the batch for whose end the issue thread waits   *)
(* is still where that end will be told.                                   *)
(***************************************************************************)
EXTENDS VectorUnit, WellFoundedInduction, TLAPS

-----------------------------------------------------------------------------
(***************************************************************************)
(* The first part of the inductive invariant: the line.                    *)
(***************************************************************************)

\* Of instruction i of program p.
Times(p, i) ==
  IF p[i].vectors = <<>> THEN 1 ELSE IntDivCeil(p[i].len, FunctorCnt[p[i].functor])

Last(p, s) == s.batch = Times(p, s.ins) - 1

Pipelined(p, i) == Pipeline /\ p[i].write \notin Range(p[i].vectors)

IssueType == [ins : Nat \ {0}, batch : Nat, left : Nat, at : {"access", "batch", "wait_next_batch"}]

ReadType == [ins : Nat \ {0}, batch : Nat, left : Nat, at : {"access", "data"}]

StageType == [ins : Nat \ {0}, batch : Nat, at : {"execute"}]

WriteType ==
  [ins : Nat \ {0}, batch : Nat, at : {"written"}]
    \cup [ins : Nat \ {0}, batch : Nat, at : {"access", "written"}, from : Int, count : Int]

Types ==
  /\ program \in SimdPrograms \cup ReducePrograms
  /\ next_ins \in 1 .. Len(program) + 1
  /\ release_list \subseteq booked
  /\ \A i \in booked : i \in DOMAIN program /\ i < next_ins
  /\ issue \in {Idle} \cup IssueType
  /\ read \in {Idle} \cup ReadType
  /\ write \in {Idle} \cup WriteType
  /\ DOMAIN stage = Functors
  /\ \A f \in Functors : stage[f] \in [1 .. StageCnt[f] -> {Idle} \cup StageType]
  /\ executing_functor_ \in Functors \cup {NoFunctor}

\* A batch of its instruction, of one that has been taken.
InRange(s, p, next) ==
  s # Idle => s.ins \in DOMAIN p /\ s.ins < next /\ s.batch < Times(p, s.ins)

Ranges ==
  /\ InRange(issue, program, next_ins)
  /\ issue.at = "wait_next_batch" => ~ Last(program, issue)
  /\ InRange(read, program, next_ins)
  /\ \A f \in Functors : \A k \in 1 .. StageCnt[f] : InRange(stage[f][k], program, next_ins)
  /\ InRange(write, program, next_ins)

Earlier(s, t) == s.ins < t.ins \/ (s.ins = t.ins /\ s.batch < t.batch)

\* Behind s in the line there is nothing later.
Ahead(s, t) == s # Idle /\ t # Idle => Earlier(t, s)

InOrder ==
  /\ Ahead(read, write)
  /\ \A f \in Functors : \A k \in 1 .. StageCnt[f] :
       /\ Ahead(read, stage[f][k])
       /\ Ahead(stage[f][k], write)
       /\ \A l \in 1 .. StageCnt[f] : k < l => Ahead(stage[f][k], stage[f][l])

\* The issue thread is ahead of the line, or waits with a batch that is in it.
Leads(s, t) ==
  s # Idle /\ t # Idle =>
    /\ ~ Earlier(s, t)
    /\ s.at # "wait_next_batch" => Earlier(t, s)

IssueFirst ==
  /\ Leads(issue, read) /\ Leads(issue, write)
  /\ \A f \in Functors : \A k \in 1 .. StageCnt[f] : Leads(issue, stage[f][k])

\* The instructions that hold resources and have not asked to release them.
Live == booked \ release_list

Holds ==
  /\ issue # Idle => issue.ins \in Live
  /\ read # Idle => read.ins \in Live
  /\ \A f \in Functors : \A k \in 1 .. StageCnt[f] :
       stage[f][k] # Idle => stage[f][k].ins \in Live
  /\ write # Idle /\ ~ Last(program, write) => write.ins \in Live

OneFunctor ==
  /\ \A i \in booked : program[i].functor = executing_functor_
  /\ \A f \in Functors : \A k \in 1 .. StageCnt[f] :
       stage[f][k] # Idle => program[stage[f][k].ins].functor = f

\* Who waits for a read has one left.
Left ==
  /\ issue.at = "access" => issue.left > 0
  /\ read.at = "access" => read.left > 0

LineInv == Types /\ Left /\ Ranges /\ InOrder /\ IssueFirst /\ Holds /\ OneFunctor

-----------------------------------------------------------------------------
\* Every instruction has a batch.
LEMMA TimesPositive ==
  ASSUME NEW p \in SimdPrograms \cup ReducePrograms, NEW i \in DOMAIN p
  PROVE  Times(p, i) \in Nat /\ Times(p, i) >= 1
<1>1. CASE p[i].vectors = <<>>
  BY <1>1 DEF Times
<1>2. CASE p[i].vectors # <<>>
  <2>1. PICK len, cnt : len = p[i].len /\ cnt = FunctorCnt[p[i].functor]
    OBVIOUS
  <2>2. len \in Nat /\ cnt \in Nat \ {0} /\ (len = 0 => cnt > 1)
    BY <1>2, <2>1, ProgramsAssumption, FunctorsAssumption
  <2>3. Times(p, i) = IntDivCeil(len, cnt)
    BY <1>2, <2>1 DEF Times
  <2>4. len > 0 => (len - 1) \div cnt \in Nat
    BY <2>2
  <2> QED
    BY <2>2, <2>3, <2>4 DEF IntDivCeil
<1> QED
  BY <1>1, <1>2

\* What the definitions of VectorUnit say of the program that runs.
LEMMA ProgramFacts ==
  /\ \A i : ProcessTimes(i) = Times(program, i)
  /\ \A i : UsePipeline(i) = Pipelined(program, i)
  /\ LastBatch(issue) = Last(program, issue)
  /\ LastBatch(read) = Last(program, read)
  /\ LastBatch(write) = Last(program, write)
  /\ \A f, k : LastBatch(stage[f][k]) = Last(program, stage[f][k])
BY DEF ProcessTimes, Times, UsePipeline, Pipelined, LastBatch, Last

\* A thread that has something to do has an instruction.
LEMMA IdleNot ==
  ASSUME Types
  PROVE  /\ Idle.ins = 0 /\ Idle.batch = 0 /\ Idle.at = "idle"
         /\ issue # Idle => issue \in IssueType
         /\ read # Idle => read \in ReadType
         /\ write # Idle => write \in WriteType
         /\ \A f \in Functors : \A k \in 1 .. StageCnt[f] :
              stage[f][k] # Idle => stage[f][k] \in StageType
<1>1. Idle.ins = 0 /\ Idle.batch = 0 /\ Idle.at = "idle"
  BY DEF Idle
<1>2. \A f \in Functors : \A k \in 1 .. StageCnt[f] :
        stage[f][k] # Idle => stage[f][k] \in StageType
  BY DEF Types
<1> QED
  BY <1>1, <1>2 DEF Types

\* What has the batch of another is in its place.
Alike(s, t) == (s = Idle <=> t = Idle) /\ s.ins = t.ins /\ s.batch = t.batch

LEMMA AlikeFacts ==
  ASSUME NEW s, NEW t, Alike(s, t)
  PROVE  /\ \A u : (Ahead(s, u) <=> Ahead(t, u)) /\ (Ahead(u, s) <=> Ahead(u, t))
         /\ \A u : Leads(u, s) <=> Leads(u, t)
         /\ \A p, n : (InRange(s, p, n) <=> InRange(t, p, n)) /\ (Last(p, s) <=> Last(p, t))
         /\ (s.at = "wait_next_batch" <=> t.at = "wait_next_batch") =>
              \A u : Leads(s, u) <=> Leads(t, u)
BY DEF Alike, Ahead, Leads, Earlier, InRange, Last

\* What is idle is in nobody's way.
LEMMA IdleFacts ==
  /\ \A u : Ahead(Idle, u) /\ Ahead(u, Idle) /\ Leads(Idle, u) /\ Leads(u, Idle)
  /\ \A p, n : InRange(Idle, p, n)
BY DEF Ahead, Leads, InRange

LEMMA InitLine == Init => LineInv
<1> SUFFICES ASSUME Init PROVE LineInv
  OBVIOUS
<1>1. Types
  BY ProgramsAssumption, FunctorsAssumption DEF Init, Types
<1>2. \A f \in Functors : \A k \in 1 .. StageCnt[f] : stage[f][k] = Idle
  BY DEF Init
<1>3. Idle.at = "idle"
  BY DEF Idle
<1> QED
  BY <1>1, <1>2, <1>3
     DEF Init, LineInv, Left, Ranges, InRange, InOrder, Ahead, IssueFirst, Leads, Holds, OneFunctor

\* The functors of two instructions that hold resources together are the same.
LEMMA TakeFunctor ==
  ASSUME LineInv, Take
  PROVE  /\ next_ins \in Ids
         /\ program[next_ins].functor \in Functors
         /\ \A j \in booked : program[j].functor = program[next_ins].functor
<1>1. next_ins \in Ids /\ ~ Stalled(next_ins)
  BY DEF Take
<1>2. \A i \in Ids : program[i].functor \in Functors
  BY ProgramsAssumption DEF LineInv, Types, Ids
<1>3. ASSUME NEW j \in booked PROVE program[j].functor = program[next_ins].functor
  <2>1. j \in Ids
    BY DEF LineInv, Types, Ids
  <2>2. ~ FunctorConflict(Allocated(j), ConflictInfo(next_ins))
    BY <1>1 DEF Stalled, ConflictWithIns
  <2>3. /\ Allocated(j).unit = Unit /\ Allocated(j).functor = program[j].functor
        /\ ConflictInfo(next_ins).unit = Unit
        /\ ConflictInfo(next_ins).functor = program[next_ins].functor
    BY DEF Allocated, ConflictInfo
  <2>4. Unit \in {"simd", "reduce"}
    BY DEF Unit
  <2> QED
    BY <1>1, <1>2, <2>1, <2>2, <2>3, <2>4, FunctorAssumption DEF FunctorConflict
<1> QED
  BY <1>1, <1>2, <1>3

LEMMA TakeLine ==
  ASSUME LineInv, Take, program' = program
  PROVE  LineInv'
<1>1. PICK i : i = next_ins
  OBVIOUS
<1>2. /\ i \in Ids /\ program[i].functor \in Functors
      /\ \A j \in booked : program[j].functor = program[i].functor
  BY <1>1, TakeFunctor
<1>3. /\ issue = Idle
      /\ next_ins' = i + 1 /\ booked' = booked \cup {i}
      /\ executing_functor_' = program[i].functor
      /\ release_list' = release_list /\ read' = read /\ write' = write /\ stage' = stage
  BY <1>1 DEF Take
<1>4. Len(program[i].scalars) \in Nat
  BY <1>2, ProgramsAssumption DEF LineInv, Types, Ids
<1>5. /\ issue' \in IssueType /\ issue'.ins = i /\ issue'.batch = 0
      /\ issue'.at # "wait_next_batch" /\ (issue'.at = "access" => issue'.left > 0)
  <2>1. i \in Nat \ {0}
    BY <1>2, ProgramsAssumption DEF LineInv, Types, Ids
  <2>2. issue' = Reading(i, 0, Len(program[i].scalars), "batch")
    BY <1>1 DEF Take
  <2> QED
    BY <1>4, <2>1, <2>2 DEF Reading, IssueType
<1>6. Times(program, i) \in Nat /\ Times(program, i) >= 1
  BY <1>2, TimesPositive DEF LineInv, Types, Ids
<1>7. i \in Nat /\ i \notin booked /\ i <= Len(program) /\ Ids = 1 .. Len(program)
      /\ Len(program) \in Nat
  BY <1>1, <1>2, ProgramsAssumption DEF LineInv, Types, Ids
<1>8. Types' /\ Left'
  BY <1>1, <1>2, <1>3, <1>5, <1>7 DEF LineInv, Types, Left
<1>9. Ranges'
  <2>1. \A s : InRange(s, program, next_ins) => InRange(s, program, i + 1)
    BY <1>1, <1>7 DEF InRange, Ids
  <2>2. InRange(issue', program, i + 1)
    BY <1>2, <1>5, <1>6, <1>7 DEF InRange, Ids
  <2> QED
    BY <1>1, <1>3, <1>5, <2>1, <2>2 DEF LineInv, Ranges
<1>10. InOrder'
  BY <1>3 DEF LineInv, InOrder
<1>11. IssueFirst'
  <2>1. \A s : InRange(s, program, i) => Leads(issue', s)
    BY <1>5, <1>7 DEF InRange, Leads, Earlier, Ids
  <2> QED
    BY <1>1, <1>3, <2>1 DEF LineInv, Ranges, IssueFirst
<1>12. Holds'
  <2>1. Live' = Live \cup {i}
    BY <1>3, <1>7 DEF LineInv, Types, Live
  <2> QED
    BY <1>3, <1>5, <2>1 DEF LineInv, Holds
<1>13. OneFunctor'
  BY <1>2, <1>3 DEF LineInv, OneFunctor
<1> QED
  BY <1>8, <1>9, <1>10, <1>11, <1>12, <1>13 DEF LineInv

LEMMA ProcessReleaseLine ==
  ASSUME LineInv, ProcessRelease, program' = program
  PROVE  LineInv'
<1>1. /\ booked' = booked \ release_list /\ release_list' = {}
      /\ next_ins' = next_ins /\ issue' = issue /\ read' = read /\ write' = write
      /\ stage' = stage /\ executing_functor_' = executing_functor_
  BY DEF ProcessRelease, threads
<1>2. Live' = Live
  BY <1>1 DEF Live
<1> QED
  BY <1>1, <1>2
     DEF LineInv, Types, Left, Ranges, InOrder, IssueFirst, Holds, OneFunctor

\* Woken, a thread has the batch it had.
LEMMA WokenFacts ==
  ASSUME Types, NEW s \in {issue, read}, NEW at \in {"batch", "data"}
  PROVE  /\ Alike(Woken(s, at), s)
         /\ Woken(s, at).at = "wait_next_batch" <=> s.at = "wait_next_batch"
         /\ Woken(s, at).at # "access" \/ s.at = "access"
<1>1. CASE s.at = "access"
  <2>1. Woken(s, at) = Reading(s.ins, s.batch, s.left - 1, at)
    BY <1>1 DEF Woken
  <2>2. /\ Woken(s, at).ins = s.ins /\ Woken(s, at).batch = s.batch
        /\ Woken(s, at).at # "wait_next_batch"
    BY <2>1 DEF Reading
  <2>3. s # Idle /\ s.ins # 0
    BY <1>1, IdleNot DEF IssueType, ReadType
  <2> QED
    BY <1>1, <2>2, <2>3, IdleNot DEF Alike
<1>2. CASE s.at # "access"
  BY <1>2 DEF Woken, Alike
<1> QED
  BY <1>1, <1>2

\* The types of what is woken, given that whoever waits for a read has one to wait for.
LEMMA WokenTypes ==
  ASSUME Types, issue.at = "access" => issue.left > 0, read.at = "access" => read.left > 0
  PROVE  /\ Woken(issue, "batch") \in {Idle} \cup IssueType
         /\ Woken(read, "data") \in {Idle} \cup ReadType
         /\ Woken(issue, "batch").at = "access" => Woken(issue, "batch").left > 0
         /\ Woken(read, "data").at = "access" => Woken(read, "data").left > 0
<1>1. ASSUME issue.at = "access"
      PROVE  /\ Woken(issue, "batch") \in IssueType
             /\ Woken(issue, "batch").at = "access" => Woken(issue, "batch").left > 0
  <2>1. issue \in IssueType
    BY <1>1, IdleNot
  <2>2. Woken(issue, "batch") = Reading(issue.ins, issue.batch, issue.left - 1, "batch")
    BY <1>1 DEF Woken
  <2> QED
    BY <1>1, <2>1, <2>2 DEF Reading, IssueType
<1>2. ASSUME read.at = "access"
      PROVE  /\ Woken(read, "data") \in ReadType
             /\ Woken(read, "data").at = "access" => Woken(read, "data").left > 0
  <2>1. read \in ReadType
    BY <1>2, IdleNot
  <2>2. Woken(read, "data") = Reading(read.ins, read.batch, read.left - 1, "data")
    BY <1>2 DEF Woken
  <2> QED
    BY <1>2, <2>1, <2>2 DEF Reading, ReadType
<1>3. issue.at # "access" => Woken(issue, "batch") = issue
  BY DEF Woken
<1>4. read.at # "access" => Woken(read, "data") = read
  BY DEF Woken
<1> QED
  BY <1>1, <1>2, <1>3, <1>4 DEF Types

\* A read that is over changes what its threads wait for, and no batch.
LEMMA FinishAccessLine ==
  ASSUME LineInv, NEW thread, FinishAccess(thread), program' = program
  PROVE  LineInv'
<1>1. /\ next_ins' = next_ins /\ booked' = booked /\ release_list' = release_list
      /\ write' = write /\ stage' = stage /\ executing_functor_' = executing_functor_
      /\ issue' = Woken(issue, "batch") /\ read' = Woken(read, "data")
  BY DEF FinishAccess
<1>2. /\ Alike(issue', issue) /\ (issue'.at = "wait_next_batch" <=> issue.at = "wait_next_batch")
      /\ Alike(read', read)
  BY <1>1, WokenFacts DEF LineInv
<1>3. Types' /\ Left'
  BY <1>1, WokenTypes DEF LineInv, Types, Left
<1>4. Ranges'
  BY <1>1, <1>2, AlikeFacts DEF LineInv, Ranges
<1>5. InOrder'
  BY <1>1, <1>2, AlikeFacts DEF LineInv, InOrder
<1>6. IssueFirst'
  BY <1>1, <1>2, AlikeFacts DEF LineInv, IssueFirst
<1>7. Holds'
  <2>1. Live' = Live
    BY <1>1 DEF Live
  <2> QED
    BY <1>1, <1>2, <2>1 DEF LineInv, Holds, Alike
<1>8. OneFunctor'
  BY <1>1 DEF LineInv, OneFunctor
<1> QED
  BY <1>3, <1>4, <1>5, <1>6, <1>7, <1>8 DEF LineInv

LEMMA StartReadLine ==
  ASSUME LineInv, StartRead, program' = program
  PROVE  LineInv'
<1>1. /\ issue.at = "batch" /\ read = Idle /\ issue # Idle /\ issue \in IssueType
      /\ next_ins' = next_ins /\ booked' = booked /\ release_list' = release_list
      /\ write' = write /\ stage' = stage /\ executing_functor_' = executing_functor_
  BY IdleNot DEF LineInv, StartRead
<1>2. issue.ins \in DOMAIN program /\ issue.ins \in Nat \ {0}
  BY <1>1, IdleNot DEF LineInv, Ranges, InRange, IssueType
<1>3. PICK inputs \in Nat : inputs = Len(program[issue.ins].vectors)
  BY <1>2, ProgramsAssumption DEF LineInv, Types
<1>4. /\ read' \in ReadType /\ read'.ins = issue.ins /\ read'.batch = issue.batch
      /\ read'.at = "access" => read'.left > 0
  <2>1. read' = Reading(issue.ins, issue.batch, inputs, "data")
    BY <1>3 DEF StartRead
  <2> QED
    BY <1>1, <1>2, <1>3, <2>1 DEF Reading, ReadType, IssueType
<1>5. \/ Last(program, issue) /\ issue' = Idle
      \/ /\ ~ Last(program, issue) /\ issue' \in IssueType /\ Alike(issue', issue)
         /\ issue'.at = "wait_next_batch"
  <2>1. issue' = IF Last(program, issue) THEN Idle ELSE [issue EXCEPT !.at = "wait_next_batch"]
    BY ProgramFacts DEF StartRead
  <2>2. PICK w : w = [issue EXCEPT !.at = "wait_next_batch"]
    OBVIOUS
  <2>3. /\ w \in IssueType /\ w.ins = issue.ins /\ w.batch = issue.batch
        /\ w.at = "wait_next_batch"
    BY <1>1, <2>2 DEF IssueType
  <2>4. w # Idle
    BY <1>2, <2>3, IdleNot DEF LineInv
  <2> QED
    BY <1>1, <2>1, <2>2, <2>3, <2>4 DEF Alike
<1>6. Alike(read', issue)
  BY <1>1, <1>2, <1>4, IdleNot DEF LineInv, Alike
<1>7. Types' /\ Left'
  BY <1>1, <1>4, <1>5, IdleNot DEF LineInv, Types, Left
<1>8. Ranges'
  <2>1. InRange(issue', program, next_ins) /\ InRange(read', program, next_ins)
    BY <1>5, <1>6, AlikeFacts, IdleFacts DEF LineInv, Ranges
  <2>2. issue'.at = "wait_next_batch" => ~ Last(program, issue')
    BY <1>5, AlikeFacts, IdleNot DEF LineInv
  <2> QED
    BY <1>1, <2>1, <2>2 DEF LineInv, Ranges
<1>9. InOrder'
  <2>1. \A u : Leads(issue, u) => Ahead(read', u)
    BY <1>1, <1>6, AlikeFacts DEF Leads, Ahead
  <2> QED
    BY <1>1, <2>1 DEF LineInv, InOrder, IssueFirst
<1>10. IssueFirst'
  <2>1. \A u : Leads(issue, u) => Leads(issue', u)
    BY <1>5, IdleFacts DEF Leads, Alike, Earlier
  <2>2. Leads(issue', read')
    <3>1. issue.ins \in Nat /\ issue.batch \in Nat
      BY <1>1 DEF IssueType
    <3> QED
      BY <1>5, <1>6, <3>1, IdleFacts DEF Leads, Alike, Earlier
  <2> QED
    BY <1>1, <2>1, <2>2 DEF LineInv, IssueFirst
<1>11. Holds'
  <2>1. Live' = Live
    BY <1>1 DEF Live
  <2> QED
    BY <1>1, <1>4, <1>5, <2>1 DEF LineInv, Holds, Alike
<1>12. OneFunctor'
  BY <1>1 DEF LineInv, OneFunctor
<1> QED
  BY <1>7, <1>8, <1>9, <1>10, <1>11, <1>12 DEF LineInv

\* The next batch is the issue thread's own, and still ahead of the line.
LEMMA NextBatchFacts ==
  ASSUME LineInv
  PROVE  /\ NextBatch \in {Idle} \cup IssueType
         /\ NextBatch = Idle <=> issue = Idle
         /\ NextBatch.ins = issue.ins
         /\ NextBatch.at = "access" => NextBatch.left > 0
         /\ NextBatch.at # "wait_next_batch"
         /\ InRange(NextBatch, program, next_ins)
         /\ \A u : u.ins \in Nat /\ u.batch \in Nat /\ Leads(issue, u) => Leads(NextBatch, u)
         /\ issue.at # "wait_next_batch" => NextBatch = issue
         /\ issue.at = "wait_next_batch" =>
              NextBatch.at = "batch" /\ NextBatch.batch = issue.batch + 1
<1>1. CASE issue.at = "wait_next_batch"
  <2>1. issue \in IssueType /\ issue # Idle
    BY <1>1, IdleNot DEF LineInv
  <2>2. PICK next : next = [issue EXCEPT !.at = "batch", !.batch = @ + 1]
    OBVIOUS
  <2> PICK b \in Nat : b = issue.batch + 1
    BY <2>1 DEF IssueType
  <2> next = [issue EXCEPT !.at = "batch", !.batch = b]
    BY <2>2
  <2>3. next \in IssueType /\ next.ins = issue.ins /\ next.batch = issue.batch + 1
        /\ next.at = "batch"
    BY <2>1, <2>2 DEF IssueType
  <2>4. next # Idle
    BY <2>3, IdleNot DEF LineInv
  <2>5. InRange(next, program, next_ins)
    <3>1. issue.ins \in DOMAIN program /\ issue.ins < next_ins
          /\ issue.batch < Times(program, issue.ins) /\ ~ Last(program, issue)
      BY <1>1, <2>1 DEF LineInv, Ranges, InRange
    <3>2. Times(program, issue.ins) \in Nat
      BY <3>1, TimesPositive DEF LineInv, Types
    <3> QED
      BY <2>1, <2>3, <3>1, <3>2 DEF InRange, Last, IssueType
  <2>6. ASSUME NEW u, u.ins \in Nat, u.batch \in Nat, Leads(issue, u)
        PROVE  Leads(next, u)
    BY <1>1, <2>1, <2>3, <2>6 DEF Leads, Earlier, IssueType
  <2>7. NextBatch = next
    BY <1>1, <2>2 DEF NextBatch
  <2> QED
    BY <1>1, <2>1, <2>3, <2>4, <2>5, <2>6, <2>7
<1>2. CASE issue.at # "wait_next_batch"
  <2>1. NextBatch = issue
    BY <1>2 DEF NextBatch
  <2> QED
    BY <1>2, <2>1 DEF LineInv, Types, Left, Ranges
<1> QED
  BY <1>1, <1>2

\* What stands in the line has numbers.
LEMMA LineNumbers ==
  ASSUME Types
  PROVE  /\ issue.ins \in Nat /\ issue.batch \in Nat
         /\ read.ins \in Nat /\ read.batch \in Nat
         /\ write.ins \in Nat /\ write.batch \in Nat
         /\ \A f \in Functors : \A k \in 1 .. StageCnt[f] :
              stage[f][k].ins \in Nat /\ stage[f][k].batch \in Nat
<1>1. \A f \in Functors : \A k \in 1 .. StageCnt[f] :
        stage[f][k].ins \in Nat /\ stage[f][k].batch \in Nat
  BY IdleNot DEF StageType
<1>2. issue.ins \in Nat /\ issue.batch \in Nat
  BY IdleNot DEF IssueType
<1>3. read.ins \in Nat /\ read.batch \in Nat
  BY IdleNot DEF ReadType
<1>4. write.ins \in Nat /\ write.batch \in Nat
  BY IdleNot DEF WriteType
<1> QED
  BY <1>1, <1>2, <1>3, <1>4

\* A stage that is busy is of the functor that executes: there is one line.
LEMMA OneLine ==
  ASSUME LineInv
  PROVE  /\ read # Idle => /\ executing_functor_ \in Functors
                           /\ program[read.ins].functor = executing_functor_
         /\ \A f \in Functors : \A k \in 1 .. StageCnt[f] :
              stage[f][k] # Idle => f = executing_functor_
<1>1. \A i \in Live : program[i].functor = executing_functor_
                      /\ program[i].functor \in Functors
  BY ProgramsAssumption DEF LineInv, Types, OneFunctor, Live
<1> QED
  BY <1>1 DEF LineInv, Holds, OneFunctor

\* What the issue thread is told changes nothing but its place ahead of the line.
LEMMA IssueGoesOn ==
  ASSUME LineInv, issue' \in {issue, NextBatch}
  PROVE  /\ issue' \in {Idle} \cup IssueType
         /\ issue' = Idle <=> issue = Idle
         /\ issue'.ins = issue.ins
         /\ issue'.at = "access" => issue'.left > 0
         /\ InRange(issue', program, next_ins)
         /\ issue'.at = "wait_next_batch" => ~ Last(program, issue')
         /\ \A u : u.ins \in Nat /\ u.batch \in Nat /\ Leads(issue, u) => Leads(issue', u)
<1>1. CASE issue' = issue
  BY <1>1 DEF LineInv, Types, Left, Ranges
<1>2. CASE issue' = NextBatch
  BY <1>2, NextBatchFacts
<1> QED
  BY <1>1, <1>2

LEMMA StartFunctorLine ==
  ASSUME LineInv, StartFunctor, program' = program
  PROVE  LineInv'
<1>1. PICK F : F = executing_functor_
  OBVIOUS
<1>2. PICK new : new = Batch(read, "execute")
  OBVIOUS
<1>3. /\ read.at = "data" /\ stage[F][1] = Idle
      /\ stage' = [stage EXCEPT ![F][1] = new]
      /\ read' = Idle /\ issue' \in {issue, NextBatch}
      /\ next_ins' = next_ins /\ booked' = booked /\ release_list' = release_list
      /\ write' = write /\ executing_functor_' = executing_functor_
  BY <1>1, <1>2 DEF StartFunctor
<1>4. read # Idle /\ read \in ReadType
  BY <1>3, IdleNot DEF LineInv
<1>5. F \in Functors /\ program[read.ins].functor = F /\ StageCnt[F] \in Nat \ {0}
  BY <1>1, <1>4, OneLine, FunctorsAssumption
<1>6. new \in StageType /\ Alike(new, read)
  <2>1. new \in StageType /\ new.ins = read.ins /\ new.batch = read.batch
    BY <1>2, <1>4 DEF Batch, StageType, ReadType
  <2> QED
    BY <1>4, <2>1, IdleNot DEF LineInv, Alike, StageType
<1>7. /\ DOMAIN stage' = Functors
      /\ \A f \in Functors : stage'[f] \in [1 .. StageCnt[f] -> {Idle} \cup StageType]
  BY <1>3, <1>5, <1>6 DEF LineInv, Types
<1>8. \A f \in Functors : \A k \in 1 .. StageCnt[f] :
        stage'[f][k] = IF f = F /\ k = 1 THEN new ELSE stage[f][k]
  BY <1>3, <1>5 DEF LineInv, Types
<1>9. Types' /\ Left'
  BY <1>3, <1>7, IssueGoesOn, IdleNot DEF LineInv, Types, Left
<1>10. Ranges'
  <2>1. InRange(new, program, next_ins)
    BY <1>6, AlikeFacts DEF LineInv, Ranges
  <2> QED
    BY <1>3, <1>8, <2>1, IdleFacts, IssueGoesOn DEF LineInv, Ranges
<1>11. InOrder'
  <2>1. Ahead(new, write)
    BY <1>6, AlikeFacts DEF LineInv, InOrder
  <2>2. \A l \in 1 .. StageCnt[F] : Ahead(new, stage[F][l])
    BY <1>5, <1>6, AlikeFacts DEF LineInv, InOrder
  <2>3. ASSUME NEW f \in Functors, NEW k \in 1 .. StageCnt[f], NEW l \in 1 .. StageCnt[f], k < l
        PROVE  Ahead(stage'[f][k], stage'[f][l])
    <3>1. l # 1
      BY <2>3
    <3> QED
      BY <1>8, <2>2, <2>3, <3>1 DEF LineInv, InOrder
  <2>4. \A f \in Functors : \A k \in 1 .. StageCnt[f] : Ahead(stage'[f][k], write)
    BY <1>8, <2>1 DEF LineInv, InOrder
  <2> QED
    BY <1>3, <2>3, <2>4, IdleFacts DEF InOrder
<1>12. IssueFirst'
  <2>1. Leads(issue, new)
    BY <1>6, AlikeFacts DEF LineInv, IssueFirst
  <2>2. Leads(issue', new) /\ Leads(issue', write)
    BY <1>3, <1>6, <2>1, LineNumbers, IssueGoesOn DEF LineInv, IssueFirst, StageType
  <2>3. \A f \in Functors : \A k \in 1 .. StageCnt[f] : Leads(issue', stage[f][k])
    BY <1>3, LineNumbers, IssueGoesOn DEF LineInv, IssueFirst
  <2> QED
    BY <1>3, <1>8, <2>2, <2>3, IdleFacts DEF IssueFirst
<1>13. Holds'
  <2>1. Live' = Live
    BY <1>3 DEF Live
  <2> QED
    BY <1>3, <1>4, <1>6, <1>8, <2>1, IssueGoesOn DEF LineInv, Holds, Alike
<1>14. OneFunctor'
  BY <1>3, <1>5, <1>6, <1>8 DEF LineInv, OneFunctor, Alike
<1> QED
  BY <1>9, <1>10, <1>11, <1>12, <1>13, <1>14 DEF LineInv

LEMMA StartNextStageLine ==
  ASSUME LineInv, NEW F \in Functors, NEW n \in 1 .. StageCnt[F], StartNextStage(F, n),
         program' = program
  PROVE  LineInv'
<1>1. StageCnt[F] \in Nat \ {0} /\ n \in Nat /\ n + 1 \in 1 .. StageCnt[F]
  BY FunctorsAssumption DEF StartNextStage
<1>2. PICK new : new = stage[F][n]
  OBVIOUS
<1>3. /\ new # Idle /\ stage[F][n + 1] = Idle
      /\ stage' = [stage EXCEPT ![F][n + 1] = new, ![F][n] = Idle]
      /\ issue' = issue /\ read' = read /\ write' = write
      /\ next_ins' = next_ins /\ booked' = booked /\ release_list' = release_list
      /\ executing_functor_' = executing_functor_
  BY <1>2 DEF StartNextStage
<1>4. new \in StageType
  BY <1>2, <1>3, IdleNot DEF LineInv
<1>5. /\ DOMAIN stage' = Functors
      /\ \A f \in Functors : stage'[f] \in [1 .. StageCnt[f] -> {Idle} \cup StageType]
  <2>1. PICK first : first = [stage EXCEPT ![F][n + 1] = new]
    OBVIOUS
  <2>2. /\ DOMAIN first = Functors
        /\ \A f \in Functors : first[f] \in [1 .. StageCnt[f] -> {Idle} \cup StageType]
    BY <1>1, <1>4, <2>1 DEF LineInv, Types
  <2>3. stage' = [first EXCEPT ![F][n] = Idle]
    BY <1>3, <2>1
  <2> QED
    BY <2>2, <2>3
<1>6. \A f \in Functors : \A k \in 1 .. StageCnt[f] :
        stage'[f][k] = IF f = F /\ k = n THEN Idle
                       ELSE IF f = F /\ k = n + 1 THEN new ELSE stage[f][k]
  BY <1>1, <1>3 DEF LineInv, Types
<1>13. \A f \in Functors : \A k \in 1 .. StageCnt[f] :
         stage'[f][k] = Idle \/ \E l \in 1 .. StageCnt[f] : stage'[f][k] = stage[f][l]
  BY <1>1, <1>2, <1>6
<1>7. Types' /\ Left'
  BY <1>3, <1>5 DEF LineInv, Types, Left
<1>8. Ranges'
  <2>1. \A f \in Functors : \A k \in 1 .. StageCnt[f] : InRange(stage'[f][k], program, next_ins)
    BY <1>13, IdleFacts DEF LineInv, Ranges
  <2> QED
    BY <1>3, <2>1 DEF LineInv, Ranges
<1>9. InOrder'
  <2>1. \A f \in Functors : \A k \in 1 .. StageCnt[f] :
          Ahead(read, stage'[f][k]) /\ Ahead(stage'[f][k], write)
    BY <1>2, <1>6, IdleFacts DEF LineInv, InOrder
  <2>2. ASSUME NEW f \in Functors, NEW k \in 1 .. StageCnt[f], NEW l \in 1 .. StageCnt[f], k < l
        PROVE  Ahead(stage'[f][k], stage'[f][l])
    <3>1. CASE f = F /\ k = n + 1
      <4>1. n < l /\ stage'[f][k] = new /\ stage'[f][l] = stage[F][l]
        BY <1>1, <1>6, <2>2, <3>1
      <4> QED
        BY <1>2, <3>1, <4>1 DEF LineInv, InOrder
    <3>2. CASE f = F /\ l = n + 1
      <4>1. stage'[f][l] = new /\ (k = n => stage'[f][k] = Idle)
            /\ (k # n => k < n /\ stage'[f][k] = stage[F][k])
        BY <1>1, <1>6, <2>2, <3>2
      <4> QED
        BY <1>2, <3>2, <4>1, IdleFacts DEF LineInv, InOrder
    <3>3. CASE ~ (f = F /\ k = n + 1) /\ ~ (f = F /\ l = n + 1)
      <4>1. stage'[f][k] \in {Idle, stage[f][k]} /\ stage'[f][l] \in {Idle, stage[f][l]}
        BY <1>6, <3>3
      <4> QED
        BY <2>2, <4>1, IdleFacts DEF LineInv, InOrder
    <3> QED
      BY <3>1, <3>2, <3>3
  <2> QED
    BY <1>3, <2>1, <2>2 DEF LineInv, InOrder
<1>10. IssueFirst'
  <2>1. \A f \in Functors : \A k \in 1 .. StageCnt[f] : Leads(issue, stage'[f][k])
    BY <1>13, IdleFacts DEF LineInv, IssueFirst
  <2> QED
    BY <1>3, <2>1 DEF LineInv, IssueFirst
<1>11. Holds'
  <2>1. Live' = Live
    BY <1>3 DEF Live
  <2>2. \A f \in Functors : \A k \in 1 .. StageCnt[f] :
          stage'[f][k] # Idle => stage'[f][k].ins \in Live
    BY <1>13 DEF LineInv, Holds
  <2> QED
    BY <1>3, <2>1, <2>2 DEF LineInv, Holds
<1>12. OneFunctor'
  <2>1. \A f \in Functors : \A k \in 1 .. StageCnt[f] :
          stage'[f][k] # Idle => program[stage'[f][k].ins].functor = f
    BY <1>13 DEF LineInv, OneFunctor
  <2> QED
    BY <1>3, <2>1 DEF LineInv, OneFunctor
<1> QED
  BY <1>7, <1>8, <1>9, <1>10, <1>11, <1>12 DEF LineInv

\* The batch that enters the write stage is the first of the line: if it is the last of
\* its instruction, nobody else has one of it.
LEMMA LastIsAlone ==
  ASSUME LineInv, NEW F \in Functors, stage[F][StageCnt[F]] # Idle,
         Last(program, stage[F][StageCnt[F]])
  PROVE  LET i == stage[F][StageCnt[F]].ins
         IN  /\ issue.ins # i /\ read.ins # i
             /\ \A f \in Functors : \A k \in 1 .. StageCnt[f] :
                  stage[f][k].ins = i => f = F /\ k = StageCnt[F]
<1>1. PICK K, s : K = StageCnt[F] /\ s = stage[F][K]
  OBVIOUS
<1>2. K \in Nat \ {0} /\ K \in 1 .. StageCnt[F] /\ s # Idle /\ s \in StageType
  BY <1>1, FunctorsAssumption, IdleNot DEF LineInv
<1>3. /\ s.ins \in DOMAIN program /\ s.ins \in Nat \ {0} /\ s.batch \in Nat
      /\ Times(program, s.ins) \in Nat /\ s.batch = Times(program, s.ins) - 1
  BY <1>1, <1>2, TimesPositive DEF LineInv, Types, Ranges, InRange, StageType, Last
<1>4. ASSUME NEW t, t # Idle, t.ins \in Nat, t.batch \in Nat, t.ins = s.ins,
             InRange(t, program, next_ins), Earlier(s, t)
      PROVE  FALSE
  BY <1>3, <1>4 DEF InRange, Earlier
<1>5. issue.ins # s.ins
  <2> SUFFICES ASSUME issue.ins = s.ins PROVE FALSE
    OBVIOUS
  <2>1. issue # Idle /\ issue \in IssueType /\ InRange(issue, program, next_ins)
        /\ Leads(issue, s)
    BY <1>1, <1>2, <1>3, IdleNot DEF LineInv, Ranges, IssueFirst
  <2>2. CASE issue.at # "wait_next_batch"
    BY <1>2, <1>4, <2>1, <2>2 DEF Leads, IssueType
  <2>3. CASE issue.at = "wait_next_batch"
    <3>1. issue.batch # s.batch
      BY <1>3, <2>3 DEF LineInv, Ranges, Last
    <3> QED
      BY <1>2, <1>3, <1>4, <2>1, <3>1 DEF Leads, Earlier, IssueType
  <2> QED
    BY <2>2, <2>3
<1>6. read.ins # s.ins
  <2> SUFFICES ASSUME read.ins = s.ins PROVE FALSE
    OBVIOUS
  <2>1. read # Idle /\ read \in ReadType /\ InRange(read, program, next_ins)
        /\ Ahead(read, s)
    BY <1>1, <1>2, <1>3, IdleNot DEF LineInv, Ranges, InOrder
  <2> QED
    BY <1>2, <1>4, <2>1 DEF Ahead, ReadType
<1>7. ASSUME NEW f \in Functors, NEW k \in 1 .. StageCnt[f], stage[f][k].ins = s.ins
      PROVE  f = F /\ k = K
  <2>1. stage[f][k] # Idle /\ stage[f][k] \in StageType
    BY <1>3, <1>7, IdleNot DEF LineInv
  <2>2. f = F
    BY <1>1, <1>2, <1>7, <2>1 DEF LineInv, OneFunctor
  <2>3. ASSUME k # K PROVE FALSE
    <3>1. k < K
      BY <1>1, <1>2, <2>2, <2>3
    <3>2. Ahead(stage[f][k], s) /\ InRange(stage[f][k], program, next_ins)
      BY <1>1, <1>2, <2>2, <3>1 DEF LineInv, InOrder, Ranges
    <3> QED
      BY <1>2, <1>4, <1>7, <2>1, <3>2 DEF Ahead, StageType
  <2> QED
    BY <2>2, <2>3
<1> QED
  BY <1>1, <1>5, <1>6, <1>7

LEMMA StartWriteLine ==
  ASSUME LineInv, NEW F \in Functors, StartWrite(F), program' = program,
         write_cumulative_cnt \in Nat, output_cumulative_cnt \in Nat
  PROVE  LineInv'
<1>1. PICK K, s : K = StageCnt[F] /\ s = stage[F][K]
  OBVIOUS
<1>2. /\ s # Idle /\ write = Idle
      /\ stage' = [stage EXCEPT ![F][K] = Idle]
      /\ release_list' = IF Last(program, s) THEN release_list \cup {s.ins} ELSE release_list
      /\ next_ins' = next_ins /\ booked' = booked /\ issue' = issue /\ read' = read
      /\ executing_functor_' = executing_functor_
  BY <1>1, ProgramFacts DEF StartWrite, Releases
<1>3. K \in Nat \ {0} /\ K \in 1 .. StageCnt[F] /\ s \in StageType
  BY <1>1, <1>2, FunctorsAssumption, IdleNot DEF LineInv
<1>4. InRange(s, program, next_ins) /\ s.ins \in DOMAIN program /\ s.ins \in Live
  BY <1>1, <1>2, <1>3 DEF LineInv, Ranges, InRange, Holds
<1>5. write' \in WriteType /\ Alike(write', s)
  <2>1. PICK outputs \in Int : outputs = output_cumulative_cnt + 1
    OBVIOUS
  <2>2. write' \in {WriteAccess(s, outputs), Batch(s, "written")}
    BY <1>1, <2>1 DEF StartWrite
  <2>3. program[s.ins].write_batch_vector_len \in Nat
    BY <1>4, ProgramsAssumption DEF LineInv, Types
  <2>4. PICK width \in Nat : width = write_cumulative_cnt * program[s.ins].write_batch_vector_len
    BY <2>3
  <2>5. /\ WriteAccess(s, outputs) \in WriteType /\ WriteAccess(s, outputs).ins = s.ins
        /\ WriteAccess(s, outputs).batch = s.batch
    BY <1>3, <2>1, <2>4 DEF WriteAccess, WriteType, StageType
  <2>6. /\ Batch(s, "written") \in WriteType /\ Batch(s, "written").ins = s.ins
        /\ Batch(s, "written").batch = s.batch
    BY <1>3 DEF Batch, WriteType, StageType
  <2>7. write' \in WriteType /\ write'.ins = s.ins /\ write'.batch = s.batch
    BY <2>2, <2>5, <2>6
  <2> QED
    BY <1>2, <1>3, <2>7, IdleNot DEF LineInv, Alike, StageType
<1>6. /\ DOMAIN stage' = Functors
      /\ \A f \in Functors : stage'[f] \in [1 .. StageCnt[f] -> {Idle} \cup StageType]
  BY <1>2, <1>3 DEF LineInv, Types
<1>7. \A f \in Functors : \A k \in 1 .. StageCnt[f] :
        stage'[f][k] = IF f = F /\ k = K THEN Idle ELSE stage[f][k]
  BY <1>2, <1>3 DEF LineInv, Types
<1>8. Types' /\ Left'
  BY <1>2, <1>4, <1>5, <1>6 DEF LineInv, Types, Left, Live
<1>9. Ranges'
  BY <1>2, <1>4, <1>5, <1>7, IdleFacts, AlikeFacts DEF LineInv, Ranges
<1>10. InOrder'
  <2>1. Ahead(read, write')
    BY <1>1, <1>3, <1>5, AlikeFacts DEF LineInv, InOrder
  <2>2. ASSUME NEW f \in Functors, NEW k \in 1 .. StageCnt[f]
        PROVE  Ahead(stage'[f][k], write')
    <3>1. CASE f = F /\ k # K
      <4>1. Ahead(stage[F][k], s)
        BY <1>1, <1>3, <3>1 DEF LineInv, InOrder
      <4> QED
        BY <1>5, <1>7, <3>1, <4>1, AlikeFacts
    <3>2. CASE f # F
      <4>1. stage[f][k] = Idle
        BY <1>1, <1>2, <1>3, <3>2, OneLine
      <4> QED
        BY <1>7, <3>2, <4>1, IdleFacts
    <3> QED
      BY <1>7, <3>1, <3>2, IdleFacts
  <2>3. \A f \in Functors : \A k, l \in 1 .. StageCnt[f] :
          k < l => Ahead(stage'[f][k], stage'[f][l])
    BY <1>7, IdleFacts DEF LineInv, InOrder
  <2>4. \A f \in Functors : \A k \in 1 .. StageCnt[f] : Ahead(read, stage'[f][k])
    BY <1>7, IdleFacts DEF LineInv, InOrder
  <2> QED
    BY <1>2, <2>1, <2>2, <2>3, <2>4 DEF InOrder
<1>11. IssueFirst'
  <2>1. Leads(issue, write')
    BY <1>1, <1>3, <1>5, AlikeFacts DEF LineInv, IssueFirst
  <2> QED
    BY <1>2, <1>7, <2>1, IdleFacts DEF LineInv, IssueFirst
<1>12. Holds'
  <2>1. CASE Last(program, s)
    <3>1. Live' = Live \ {s.ins}
      BY <1>2, <2>1 DEF Live
    <3>2. /\ issue.ins # s.ins /\ read.ins # s.ins
          /\ \A f \in Functors : \A k \in 1 .. StageCnt[f] :
               stage[f][k].ins = s.ins => f = F /\ k = K
      BY <1>1, <1>2, <2>1, LastIsAlone
    <3>3. Last(program, write')
      BY <1>5, <2>1, AlikeFacts
    <3> QED
      BY <1>2, <1>7, <3>1, <3>2, <3>3 DEF LineInv, Holds
  <2>2. CASE ~ Last(program, s)
    <3>1. Live' = Live
      BY <1>2, <2>2 DEF Live
    <3> QED
      BY <1>2, <1>4, <1>5, <1>7, <3>1 DEF LineInv, Holds, Alike
  <2> QED
    BY <2>1, <2>2
<1>13. OneFunctor'
  BY <1>2, <1>7 DEF LineInv, OneFunctor
<1> QED
  BY <1>8, <1>9, <1>10, <1>11, <1>12, <1>13 DEF LineInv

LEMMA FinishWriteLine ==
  ASSUME LineInv, FinishWrite, program' = program
  PROVE  LineInv'
<1>1. /\ write.at = "access" /\ write' = [write EXCEPT !.at = "written"]
      /\ next_ins' = next_ins /\ booked' = booked /\ release_list' = release_list
      /\ issue' = issue /\ read' = read /\ stage' = stage
      /\ executing_functor_' = executing_functor_
  BY DEF FinishWrite
<1>2. write # Idle /\ write \in WriteType
  BY <1>1, IdleNot DEF LineInv
<1>3. write' \in WriteType /\ write'.ins = write.ins /\ write'.batch = write.batch
  BY <1>1, <1>2 DEF WriteType
<1>4. Alike(write', write)
  BY <1>2, <1>3, IdleNot DEF LineInv, Alike, WriteType
<1>5. Types' /\ Left'
  BY <1>1, <1>3 DEF LineInv, Types, Left
<1>6. Ranges' /\ InOrder' /\ IssueFirst'
  BY <1>1, <1>4, AlikeFacts DEF LineInv, Ranges, InOrder, IssueFirst
<1>7. Holds'
  <2>1. Live' = Live
    BY <1>1 DEF Live
  <2>2. write' # Idle /\ ~ Last(program, write') => write'.ins \in Live
    BY <1>2, <1>4, AlikeFacts DEF LineInv, Holds, Alike
  <2> QED
    BY <1>1, <2>1, <2>2 DEF LineInv, Holds
<1>8. OneFunctor'
  BY <1>1 DEF LineInv, OneFunctor
<1> QED
  BY <1>5, <1>6, <1>7, <1>8 DEF LineInv

LEMMA EndWriteLine ==
  ASSUME LineInv, EndWrite, program' = program
  PROVE  LineInv'
<1>1. /\ write' = Idle /\ issue' \in {issue, NextBatch}
      /\ next_ins' = next_ins /\ booked' = booked /\ release_list' = release_list
      /\ read' = read /\ stage' = stage /\ executing_functor_' = executing_functor_
  BY DEF EndWrite
<1>2. Types' /\ Left'
  BY <1>1, IssueGoesOn DEF LineInv, Types, Left
<1>3. Ranges'
  BY <1>1, IssueGoesOn, IdleFacts DEF LineInv, Ranges
<1>4. InOrder'
  BY <1>1, IdleFacts DEF LineInv, InOrder
<1>5. IssueFirst'
  BY <1>1, IssueGoesOn, IdleFacts, LineNumbers DEF LineInv, IssueFirst
<1>6. Holds'
  <2>1. Live' = Live
    BY <1>1 DEF Live
  <2> QED
    BY <1>1, <2>1, IssueGoesOn DEF LineInv, Holds
<1>7. OneFunctor'
  BY <1>1 DEF LineInv, OneFunctor
<1> QED
  BY <1>2, <1>3, <1>4, <1>5, <1>6, <1>7 DEF LineInv

\* The types of the counters do not depend on the line.
CountTypes == output_cumulative_cnt \in Nat /\ write_cumulative_cnt \in Nat

LEMMA NextCountTypes ==
  ASSUME CountTypes, Next
  PROVE  CountTypes'
<1>1. CASE Take \/ ProcessRelease \/ StartRead \/ StartFunctor
  BY <1>1 DEF CountTypes, Take, ProcessRelease, StartRead, StartFunctor, counters
<1>2. CASE FinishWrite \/ EndWrite
  BY <1>2 DEF CountTypes, FinishWrite, EndWrite, WriteCntAfter
<1>3. ASSUME NEW thread \in {"issue", "read"}, FinishAccess(thread) PROVE CountTypes'
  BY <1>3 DEF CountTypes, FinishAccess, counters
<1>4. ASSUME NEW f \in Functors, Functor(f) PROVE CountTypes'
  <2>1. CASE StartWrite(f)
    BY <2>1 DEF CountTypes, StartWrite
  <2>2. ASSUME NEW k \in 1 .. StageCnt[f], StartNextStage(f, k) PROVE CountTypes'
    BY <2>2 DEF CountTypes, StartNextStage, counters
  <2> QED
    BY <1>4, <2>1, <2>2 DEF Functor
<1> QED
  BY <1>1, <1>2, <1>3, <1>4 DEF Next

LEMMA NextLine ==
  ASSUME LineInv, CountTypes, Next
  PROVE  LineInv'
<1>1. program' = program
  BY DEF Next
<1>2. CASE Take
  BY <1>1, <1>2, TakeLine
<1>3. CASE ProcessRelease
  BY <1>1, <1>3, ProcessReleaseLine
<1>4. CASE StartRead
  BY <1>1, <1>4, StartReadLine
<1>5. CASE StartFunctor
  BY <1>1, <1>5, StartFunctorLine
<1>6. CASE FinishWrite
  BY <1>1, <1>6, FinishWriteLine
<1>7. CASE EndWrite
  BY <1>1, <1>7, EndWriteLine
<1>8. ASSUME NEW thread \in {"issue", "read"}, FinishAccess(thread) PROVE LineInv'
  BY <1>1, <1>8, FinishAccessLine
<1>9. ASSUME NEW f \in Functors, Functor(f) PROVE LineInv'
  <2>1. CASE StartWrite(f)
    BY <1>1, <2>1, StartWriteLine DEF CountTypes
  <2>2. ASSUME NEW k \in 1 .. StageCnt[f], StartNextStage(f, k) PROVE LineInv'
    BY <1>1, <2>2, StartNextStageLine
  <2> QED
    BY <1>9, <2>1, <2>2 DEF Functor
<1> QED
  BY <1>2, <1>3, <1>4, <1>5, <1>6, <1>7, <1>8, <1>9 DEF Next

LEMMA LineInvariant == Spec => [](LineInv /\ CountTypes)
<1>1. Init => LineInv /\ CountTypes
  BY InitLine DEF Init, CountTypes
<1>2. LineInv /\ CountTypes /\ [Next]_vars => (LineInv /\ CountTypes)'
  <2> SUFFICES ASSUME LineInv, CountTypes, [Next]_vars PROVE (LineInv /\ CountTypes)'
    OBVIOUS
  <2>1. CASE Next
    BY <2>1, NextLine, NextCountTypes
  <2>2. CASE UNCHANGED vars
    BY <2>2 DEF vars, unit_vars, threads, counters, LineInv, CountTypes, Types, Left, Ranges,
                InOrder, IssueFirst, Holds, Live, OneFunctor
  <2> QED
    BY <2>1, <2>2
<1> QED
  BY <1>1, <1>2, PTL DEF Spec

-----------------------------------------------------------------------------
\* Whatever the programs, an instruction whose resources are free has read all it reads,
\* and only its last batch is still in the write stage.
THEOREM FreedIsOverHolds == Spec => []FreedIsOver
<1>1. LineInv => FreedIsOver
  <2> SUFFICES ASSUME LineInv, NEW i \in Ids, i \notin Live
               PROVE  /\ issue.ins # i /\ read.ins # i
                      /\ \A f \in Functors : \A k \in 1 .. StageCnt[f] : stage[f][k].ins # i
                      /\ write.ins = i => LastBatch(write)
    BY DEF FreedIsOver, Live
  <2>1. i # Idle.ins
    BY ProgramsAssumption DEF LineInv, Types, Ids, Idle
  <2> QED
    BY <2>1, ProgramFacts DEF LineInv, Holds
<1> QED
  BY <1>1, LineInvariant, PTL

\* Whatever the programs, each batch runs on the functor of its instruction, although the
\* read stage asks only for the one that executes, and no two functors are busy together.
THEOREM FunctorOfInsHolds == Spec => []FunctorOfIns
<1>1. LineInv => FunctorOfIns
  <2> SUFFICES ASSUME LineInv PROVE FunctorOfIns
    OBVIOUS
  <2> QED
    BY OneLine DEF LineInv, OneFunctor, FunctorOfIns, Busy
<1> QED
  BY <1>1, LineInvariant, PTL

-----------------------------------------------------------------------------
(***************************************************************************)
(* The second part of the inductive invariant: the count.                  *)
(***************************************************************************)

\* How many batches of instruction i have been started, s being the issue thread.
Started(s, p, next, i) ==
  IF s.ins = i
    THEN IF s.at = "wait_next_batch" THEN s.batch + 1 ELSE s.batch
    ELSE IF i < next THEN Times(p, i) ELSE 0

\* In the line, but not in the write stage.
InLine(i, b) ==
  \/ read.ins = i /\ read.batch = b
  \/ \E f \in Functors : \E k \in 1 .. StageCnt[f] : stage[f][k].ins = i /\ stage[f][k].batch = b

\* Of each instruction out[i] batches have left the line, and none is missing in it.
NoneMissing(out) ==
  /\ \A i \in DOMAIN program :
       /\ out[i] <= Started(issue, program, next_ins, i)
       /\ \A b \in Nat :
            InLine(i, b) <=> out[i] <= b /\ b < Started(issue, program, next_ins, i)
  /\ write # Idle =>
       /\ out[write.ins] = write.batch + 1
       /\ \A i \in DOMAIN program : i > write.ins => out[i] = 0
  /\ \A i, j \in DOMAIN program : j < i /\ out[i] > 0 => out[j] = Times(program, j)

\* Without pipelining there is one batch of an instruction in the unit.
Follow(s, t, p) == s # Idle /\ t # Idle /\ s.ins = t.ins => Pipelined(p, s.ins)

Alone ==
  /\ Follow(read, write, program)
  /\ \A f \in Functors : \A k \in 1 .. StageCnt[f] :
       /\ Follow(read, stage[f][k], program)
       /\ Follow(stage[f][k], write, program)
       /\ \A l \in 1 .. StageCnt[f] : k < l => Follow(stage[f][k], stage[f][l], program)
  /\ issue # Idle /\ issue.at # "wait_next_batch" =>
       /\ read.ins # issue.ins
       /\ ~ Pipelined(program, issue.ins) =>
            /\ write.ins # issue.ins
            /\ \A f \in Functors : \A k \in 1 .. StageCnt[f] : stage[f][k].ins # issue.ins

\* What the write stage of the SIMD unit has done.
SimdCounts(out) ==
  /\ \A i \in DOMAIN program :
       out[i] = written[i] + IF write.at = "access" /\ write.ins = i THEN 1 ELSE 0
  /\ write.at = "access" => write.from = write.batch /\ write.count = 1

\* What that of the reduce unit has done: outputs that are left over belong to the
\* instruction it is in, whose writes it has counted.
Width(p, i) == p[i].write_batch_vector_len

ReduceCounts(out) ==
  /\ \A i \in DOMAIN program :
       /\ written[i] <= out[i]
       /\ written[i] < out[i] => out[i] = written[i] + output_cumulative_cnt
       /\ out[i] > 0 /\ written[i] < Times(program, i) =>
            written[i] = write_cumulative_cnt * Width(program, i)
       /\ out[i] = Times(program, i) /\ written[i] < out[i] =>
            write.at = "access" /\ write.ins = i
  /\ output_cumulative_cnt > 0 => \E i \in DOMAIN program : written[i] < out[i]
  /\ write_cumulative_cnt > 0 =>
       \/ \E i \in DOMAIN program : out[i] > 0 /\ written[i] < Times(program, i)
       \/ write.at = "written" /\ Last(program, write)
  /\ write.at = "access" =>
       /\ write.from = written[write.ins] /\ write.count = output_cumulative_cnt
       /\ written[write.ins] < out[write.ins]
       /\ Last(program, write) \/ write.count = Width(program, write.ins)

Counts(out) ==
  /\ written \in [DOMAIN program -> Nat]
  /\ IF program \in ReducePrograms THEN ReduceCounts(out) ELSE SimdCounts(out)
  /\ finished \subseteq DOMAIN program
  /\ \A i \in finished : written[i] = Times(program, i)

CountInv ==
  Alone /\ \E out \in [DOMAIN program -> Nat] : NoneMissing(out) /\ Counts(out)

-----------------------------------------------------------------------------
\* Of an instruction no more batches are started than it has.
LEMMA StartedTypes ==
  ASSUME LineInv, NEW i \in DOMAIN program
  PROVE  /\ i \in Nat \ {0} /\ Times(program, i) \in Nat /\ Times(program, i) >= 1
         /\ Started(issue, program, next_ins, i) \in Nat
         /\ Started(issue, program, next_ins, i) <= Times(program, i)
<1>1. /\ Times(program, i) \in Nat /\ Times(program, i) >= 1 /\ i \in Nat \ {0}
  BY TimesPositive, ProgramsAssumption DEF LineInv, Types
<1>2. CASE issue.ins = i
  <2>1. issue # Idle /\ issue \in IssueType
    BY <1>1, <1>2, IdleNot DEF LineInv
  <2> QED
    BY <1>1, <1>2, <2>1 DEF LineInv, Ranges, InRange, Last, Started, IssueType
<1>3. CASE issue.ins # i
  BY <1>1, <1>3 DEF Started
<1> QED
  BY <1>1, <1>2, <1>3

\* The batch that the read stage holds is the last one started of its instruction.
LEMMA BehindRead ==
  ASSUME LineInv, read # Idle, NEW c \in Nat, InLine(read.ins, c)
  PROVE  c <= read.batch
<1>1. read \in ReadType
  BY IdleNot DEF LineInv
<1>2. ASSUME NEW f \in Functors, NEW k \in 1 .. StageCnt[f],
             stage[f][k].ins = read.ins, stage[f][k].batch = c
      PROVE  c <= read.batch
  <2>1. stage[f][k] # Idle /\ stage[f][k] \in StageType
    BY <1>1, <1>2, IdleNot DEF LineInv, ReadType
  <2> QED
    BY <1>1, <1>2, <2>1 DEF LineInv, InOrder, Ahead, Earlier, ReadType
<1> QED
  BY <1>1, <1>2 DEF InLine, ReadType

\* The batch in the last stage is the first of the line.
LEMMA AheadOfLast ==
  ASSUME LineInv, NEW F \in Functors, NEW s, s = stage[F][StageCnt[F]], s # Idle,
         NEW i \in DOMAIN program, NEW c \in Nat
  PROVE  /\ InLine(i, c) => i > s.ins \/ (i = s.ins /\ c >= s.batch)
         /\ read.ins = i /\ read.batch = c => i # s.ins \/ c # s.batch
         /\ \A f \in Functors : \A k \in 1 .. StageCnt[f] :
              stage[f][k].ins = i /\ stage[f][k].batch = c /\ ~ (f = F /\ k = StageCnt[F])
                => i # s.ins \/ c # s.batch
<1>1. PICK K : K = StageCnt[F]
  OBVIOUS
<1>2. K \in Nat \ {0} /\ K \in 1 .. StageCnt[F] /\ s \in StageType /\ i \in Nat \ {0}
  BY <1>1, FunctorsAssumption, IdleNot, StartedTypes DEF LineInv
<1>3. ASSUME read.ins = i, read.batch = c
      PROVE  i > s.ins \/ (i = s.ins /\ c > s.batch)
  <2>1. read # Idle
    BY <1>2, <1>3, IdleNot DEF LineInv
  <2>2. Ahead(read, s)
    BY <1>1, <1>2 DEF LineInv, InOrder
  <2> QED
    BY <1>2, <1>3, <2>1, <2>2 DEF Ahead, Earlier, StageType
<1>4. ASSUME NEW f \in Functors, NEW k \in 1 .. StageCnt[f], stage[f][k].ins = i,
             stage[f][k].batch = c, ~ (f = F /\ k = K)
      PROVE  i > s.ins \/ (i = s.ins /\ c > s.batch)
  <2>1. stage[f][k] # Idle
    BY <1>2, <1>4, IdleNot DEF LineInv
  <2>2. f = F
    BY <1>1, <1>2, <2>1, OneLine
  <2>3. k < K
    BY <1>1, <1>2, <1>4, <2>2
  <2>4. Ahead(stage[f][k], s)
    BY <1>1, <1>2, <2>2, <2>3 DEF LineInv, InOrder
  <2> QED
    BY <1>2, <1>4, <2>1, <2>4 DEF Ahead, Earlier, StageType
<1>5. InLine(i, c) => i > s.ins \/ (i = s.ins /\ c >= s.batch)
  <2>1. CASE read.ins = i /\ read.batch = c
    BY <1>2, <1>3, <2>1 DEF StageType
  <2>2. ASSUME NEW f \in Functors, NEW k \in 1 .. StageCnt[f], stage[f][k].ins = i,
               stage[f][k].batch = c
        PROVE  i > s.ins \/ (i = s.ins /\ c >= s.batch)
    BY <1>1, <1>2, <1>4, <2>2 DEF StageType
  <2> QED
    BY <2>1, <2>2 DEF InLine
<1> QED
  BY <1>1, <1>2, <1>3, <1>4, <1>5 DEF StageType

\* A pipelined instruction whose batch has been read has started no later one: the issue
\* thread waits for this one.
LEMMA ReadAsksOwn ==
  ASSUME LineInv, NEW out \in [DOMAIN program -> Nat], NoneMissing(out),
         read # Idle, ~ Last(program, read)
  PROVE  issue.ins = read.ins
<1>1. PICK i, b : i = read.ins /\ b = read.batch
  OBVIOUS
<1>2. /\ i \in DOMAIN program /\ b \in Nat /\ i < next_ins
      /\ b < Times(program, i) /\ b # Times(program, i) - 1
  BY <1>1, IdleNot DEF LineInv, Ranges, InRange, Last, ReadType
<1>3. InLine(i, b)
  BY <1>1 DEF InLine
<1>4. out[i] <= b /\ out[i] \in Nat
  BY <1>2, <1>3 DEF NoneMissing
<1>5. ~ InLine(i, b + 1)
  BY <1>1, <1>2, BehindRead
<1>6. Started(issue, program, next_ins, i) <= b + 1
  BY <1>2, <1>4, <1>5, StartedTypes DEF NoneMissing
<1> QED
  BY <1>1, <1>2, <1>6, StartedTypes DEF Started

\* Without pipelining, a batch that has been written has been the last one started.
LEMMA WriteAsksOwn ==
  ASSUME LineInv, Alone, NEW out \in [DOMAIN program -> Nat], NoneMissing(out),
         write # Idle, ~ Last(program, write), ~ Pipelined(program, write.ins)
  PROVE  /\ issue.ins = write.ins /\ read.ins # write.ins
         /\ \A f \in Functors : \A k \in 1 .. StageCnt[f] : stage[f][k].ins # write.ins
<1>1. PICK i, b : i = write.ins /\ b = write.batch
  OBVIOUS
<1>2. /\ i \in DOMAIN program /\ b \in Nat /\ i < next_ins /\ i # 0
      /\ b < Times(program, i) /\ b # Times(program, i) - 1
  BY <1>1, IdleNot DEF LineInv, Ranges, InRange, Last, WriteType
<1>3. read.ins # i
  BY <1>1, <1>2, IdleNot DEF LineInv, Alone, Follow
<1>4. \A f \in Functors : \A k \in 1 .. StageCnt[f] : stage[f][k].ins # i
  BY <1>1, <1>2, IdleNot DEF LineInv, Alone, Follow
<1>5. ~ InLine(i, b + 1)
  BY <1>3, <1>4 DEF InLine
<1>6. out[i] = b + 1
  BY <1>1 DEF NoneMissing
<1>7. Started(issue, program, next_ins, i) = b + 1
  BY <1>2, <1>5, <1>6, StartedTypes DEF NoneMissing
<1>8. issue.ins = i
  BY <1>2, <1>7, StartedTypes DEF Started
<1> QED
  BY <1>1, <1>3, <1>4, <1>8

\* An action that starts no batch, and takes none out of the line.
LEMMA SameLine ==
  ASSUME NEW out \in [DOMAIN program -> Nat], NoneMissing(out), program' = program,
         write' # Idle => write # Idle /\ write'.ins = write.ins /\ write'.batch = write.batch,
         \A i \in DOMAIN program : Started(issue', program, next_ins', i)
                                     = Started(issue, program, next_ins, i),
         \A i \in DOMAIN program : \A b \in Nat : InLine(i, b)' <=> InLine(i, b)
  PROVE  NoneMissing(out)'
BY DEF NoneMissing

\* Nor does it say anything of what has been written.
LEMMA SameCounts ==
  ASSUME NEW out, Counts(out), program' = program,
         UNCHANGED <<write, written, output_cumulative_cnt, write_cumulative_cnt, finished>>
  PROVE  Counts(out)'
BY DEF Counts, SimdCounts, ReduceCounts

-----------------------------------------------------------------------------
LEMMA TakeCount ==
  ASSUME LineInv, Alone, NEW out \in [DOMAIN program -> Nat], NoneMissing(out),
         Take, program' = program
  PROVE  Alone' /\ NoneMissing(out)'
<1>1. PICK n : n = next_ins
  OBVIOUS
<1>2. /\ issue = Idle /\ n \in DOMAIN program /\ next_ins' = n + 1
      /\ read' = read /\ write' = write /\ stage' = stage
      /\ issue'.ins = n /\ issue'.batch = 0 /\ issue'.at # "wait_next_batch"
  BY <1>1 DEF Take, Ids, Reading
<1>3. n \in Nat \ {0} /\ \A i \in DOMAIN program : i \in Nat \ {0}
  BY <1>2, StartedTypes
<1>4. /\ read.ins # n /\ write.ins # n
      /\ \A f \in Functors : \A k \in 1 .. StageCnt[f] : stage[f][k].ins # n
  BY <1>1, <1>3, IdleNot DEF LineInv, Ranges, InRange
<1>5. Alone'
  BY <1>2, <1>4 DEF Alone
<1>6. ASSUME NEW i \in DOMAIN program
      PROVE  Started(issue', program, next_ins', i) = Started(issue, program, next_ins, i)
  BY <1>1, <1>2, <1>3, IdleNot DEF LineInv, Started
<1>7. \A i \in DOMAIN program : \A b \in Nat : InLine(i, b)' <=> InLine(i, b)
  BY <1>2 DEF InLine
<1> QED
  BY <1>2, <1>5, <1>6, <1>7, SameLine

LEMMA FinishAccessCount ==
  ASSUME LineInv, Alone, NEW out \in [DOMAIN program -> Nat], NoneMissing(out),
         NEW thread, FinishAccess(thread), program' = program
  PROVE  Alone' /\ NoneMissing(out)'
<1>1. /\ next_ins' = next_ins /\ write' = write /\ stage' = stage
      /\ issue' = Woken(issue, "batch") /\ read' = Woken(read, "data")
  BY DEF FinishAccess
<1>2. /\ Alike(issue', issue) /\ (issue'.at = "wait_next_batch" <=> issue.at = "wait_next_batch")
      /\ Alike(read', read)
  BY <1>1, WokenFacts DEF LineInv
<1>3. Alone'
  BY <1>1, <1>2 DEF Alone, Follow, Alike
<1>4. \A i : Started(issue', program, next_ins', i) = Started(issue, program, next_ins, i)
  BY <1>1, <1>2 DEF Started, Alike
<1>5. \A i \in DOMAIN program : \A b \in Nat : InLine(i, b)' <=> InLine(i, b)
  BY <1>1, <1>2 DEF InLine, Alike
<1> QED
  BY <1>1, <1>3, <1>4, <1>5, SameLine

LEMMA StartReadCount ==
  ASSUME LineInv, Alone, NEW out \in [DOMAIN program -> Nat], NoneMissing(out),
         StartRead, program' = program
  PROVE  Alone' /\ NoneMissing(out)'
<1>1. PICK n, b : n = issue.ins /\ b = issue.batch
  OBVIOUS
<1>2. /\ issue.at = "batch" /\ read = Idle /\ issue # Idle /\ issue \in IssueType
      /\ next_ins' = next_ins /\ write' = write /\ stage' = stage
      /\ read'.ins = n /\ read'.batch = b
  BY <1>1, IdleNot DEF LineInv, StartRead, Reading
<1>3. /\ n \in DOMAIN program /\ n \in Nat \ {0} /\ b \in Nat /\ n < next_ins
      /\ b < Times(program, n) /\ Times(program, n) \in Nat
  BY <1>1, <1>2, StartedTypes DEF LineInv, Ranges, InRange, IssueType
<1>4. \/ issue' = Idle /\ b = Times(program, n) - 1
      \/ issue'.ins = n /\ issue'.batch = b /\ issue'.at = "wait_next_batch"
  <2>1. issue' = IF Last(program, issue) THEN Idle ELSE [issue EXCEPT !.at = "wait_next_batch"]
    BY ProgramFacts DEF StartRead
  <2>2. CASE Last(program, issue)
    BY <1>1, <2>1, <2>2 DEF Last
  <2>3. CASE ~ Last(program, issue)
    BY <1>1, <1>2, <2>1, <2>3 DEF IssueType
  <2> QED
    BY <2>2, <2>3
<1>5. Alone'
  <2>1. ~ (issue' # Idle /\ issue'.at # "wait_next_batch")
    BY <1>4
  <2>2. ASSUME NEW t, t.ins = n => Pipelined(program, n)
        PROVE  Follow(read', t, program)
    BY <1>2, <2>2 DEF Follow
  <2>3. write.ins = n => Pipelined(program, n)
    BY <1>1, <1>2 DEF Alone
  <2>4. \A f \in Functors : \A k \in 1 .. StageCnt[f] :
          stage[f][k].ins = n => Pipelined(program, n)
    BY <1>1, <1>2 DEF Alone
  <2> QED
    BY <1>2, <2>1, <2>2, <2>3, <2>4 DEF Alone
<1>6. /\ Started(issue, program, next_ins, n) = b
      /\ Started(issue', program, next_ins', n) = b + 1
      /\ \A i \in DOMAIN program : i # n =>
           Started(issue', program, next_ins', i) = Started(issue, program, next_ins, i)
  BY <1>1, <1>2, <1>3, <1>4, IdleNot, StartedTypes DEF LineInv, Started
<1>7. \A i \in DOMAIN program : \A c \in Nat :
        InLine(i, c)' <=> InLine(i, c) \/ (i = n /\ c = b)
  BY <1>2, IdleNot, StartedTypes DEF LineInv, InLine
<1>8. ASSUME NEW i \in DOMAIN program
      PROVE  /\ out[i] <= Started(issue', program, next_ins', i)
             /\ \A c \in Nat :
                  InLine(i, c)' <=> out[i] <= c /\ c < Started(issue', program, next_ins', i)
  <2>1. out[i] \in Nat /\ out[i] <= Started(issue, program, next_ins, i)
    BY DEF NoneMissing
  <2>2. CASE i # n
    BY <1>6, <1>7, <2>1, <2>2 DEF NoneMissing
  <2>3. CASE i = n
    BY <1>3, <1>6, <1>7, <2>1, <2>3 DEF NoneMissing
  <2> QED
    BY <2>2, <2>3
<1> QED
  BY <1>2, <1>5, <1>8 DEF NoneMissing

\* Told that it may go on, the issue thread has started as many batches as before.
LEMMA NextBatchStarted ==
  ASSUME LineInv, issue' \in {issue, NextBatch}, next_ins' = next_ins
  PROVE  \A i \in DOMAIN program :
           Started(issue', program, next_ins', i) = Started(issue, program, next_ins, i)
<1>1. CASE issue' = issue
  BY <1>1
<1>2. CASE issue' = NextBatch
  BY <1>2, NextBatchFacts DEF Started
<1> QED
  BY <1>1, <1>2

LEMMA StartFunctorCount ==
  ASSUME LineInv, Alone, NEW out \in [DOMAIN program -> Nat], NoneMissing(out),
         StartFunctor, program' = program
  PROVE  Alone' /\ NoneMissing(out)'
<1>1. PICK F : F = executing_functor_
  OBVIOUS
<1>2. PICK new : new = Batch(read, "execute")
  OBVIOUS
<1>3. /\ read.at = "data" /\ stage[F][1] = Idle
      /\ stage' = [stage EXCEPT ![F][1] = new]
      /\ issue' = IF Pipelined(program, read.ins) /\ ~ Last(program, read)
                    THEN NextBatch ELSE issue
      /\ read' = Idle /\ next_ins' = next_ins /\ write' = write
  BY <1>1, <1>2, ProgramFacts DEF StartFunctor
<1>4. read # Idle /\ read \in ReadType
  BY <1>3, IdleNot DEF LineInv
<1>5. F \in Functors /\ StageCnt[F] \in Nat \ {0} /\ 1 \in 1 .. StageCnt[F]
  BY <1>1, <1>4, OneLine, FunctorsAssumption
<1>6. new.ins = read.ins /\ new.batch = read.batch /\ new # Idle
  <2>1. new.ins = read.ins /\ new.batch = read.batch
    BY <1>2 DEF Batch
  <2> QED
    BY <1>4, <2>1, IdleNot DEF LineInv, ReadType
<1>7. \A f \in Functors : \A k \in 1 .. StageCnt[f] :
        stage'[f][k] = IF f = F /\ k = 1 THEN new ELSE stage[f][k]
  BY <1>3, <1>5 DEF LineInv, Types
<1>8. Idle.ins = 0 /\ \A i \in DOMAIN program : i # 0
  BY IdleNot, StartedTypes DEF LineInv
<1>9. ASSUME NEW f \in Functors, NEW k \in 1 .. StageCnt[f]
      PROVE  /\ Follow(read', stage'[f][k], program) /\ Follow(stage'[f][k], write, program)
             /\ \A l \in 1 .. StageCnt[f] : k < l => Follow(stage'[f][k], stage'[f][l], program)
  <2>1. \A u : Follow(read, u, program) => Follow(new, u, program)
    BY <1>4, <1>6 DEF Follow
  <2>2. Follow(stage'[f][k], write, program)
    BY <1>7, <2>1 DEF Alone
  <2>3. ASSUME NEW l \in 1 .. StageCnt[f], k < l
        PROVE  Follow(stage'[f][k], stage'[f][l], program)
    <3>1. l # 1
      BY <2>3
    <3> QED
      BY <1>7, <2>1, <2>3, <3>1 DEF Alone
  <2> QED
    BY <1>3, <2>2, <2>3 DEF Follow
<1>10. ASSUME issue' # Idle, issue'.at # "wait_next_batch"
       PROVE  /\ read'.ins # issue'.ins
              /\ ~ Pipelined(program, issue'.ins) =>
                   /\ write'.ins # issue'.ins
                   /\ \A f \in Functors : \A k \in 1 .. StageCnt[f] :
                        stage'[f][k].ins # issue'.ins
  <2>1. issue # Idle /\ issue'.ins = issue.ins
    BY <1>3, <1>10, IssueGoesOn DEF LineInv
  <2>2. issue.ins # 0
    BY <2>1, IdleNot DEF LineInv, IssueType
  <2>3. CASE issue.at = "wait_next_batch"
    <3>1. Pipelined(program, read.ins) /\ ~ Last(program, read)
      BY <1>3, <1>10, <2>3
    <3>2. issue.ins = read.ins
      BY <1>4, <3>1, ReadAsksOwn
    <3> QED
      BY <1>3, <1>8, <2>1, <2>2, <3>1, <3>2
  <2>4. CASE issue.at # "wait_next_batch"
    BY <1>3, <1>6, <1>7, <1>8, <2>1, <2>2, <2>4 DEF Alone
  <2> QED
    BY <2>3, <2>4
<1>11. Alone'
  <2>1. Follow(read', write', program)
    BY <1>3 DEF Follow
  <2> QED
    BY <1>3, <1>9, <1>10, <2>1 DEF Alone
<1>12. ASSUME NEW i \in DOMAIN program, NEW b \in Nat
       PROVE  InLine(i, b)' <=> InLine(i, b)
  <2>1. stage[F][1].ins # i /\ read'.ins # i
    BY <1>3, <1>8
  <2>2. ASSUME InLine(i, b) PROVE InLine(i, b)'
    <3>1. CASE read.ins = i /\ read.batch = b
      BY <1>5, <1>6, <1>7, <3>1 DEF InLine
    <3>2. ASSUME NEW f \in Functors, NEW k \in 1 .. StageCnt[f], stage[f][k].ins = i,
                 stage[f][k].batch = b
          PROVE  InLine(i, b)'
      BY <1>7, <2>1, <3>2 DEF InLine
    <3> QED
      BY <2>2, <3>1, <3>2 DEF InLine
  <2>3. ASSUME InLine(i, b)' PROVE InLine(i, b)
    <3>4. PICK f \in Functors : \E k \in 1 .. StageCnt[f] :
            stage'[f][k].ins = i /\ stage'[f][k].batch = b
      BY <2>1, <2>3 DEF InLine
    <3>1. PICK k \in 1 .. StageCnt[f] : stage'[f][k].ins = i /\ stage'[f][k].batch = b
      BY <3>4
    <3>2. CASE f = F /\ k = 1
      BY <1>6, <1>7, <3>1, <3>2 DEF InLine
    <3>3. CASE ~ (f = F /\ k = 1)
      BY <1>7, <3>1, <3>3 DEF InLine
    <3> QED
      BY <3>2, <3>3
  <2> QED
    BY <2>2, <2>3
<1>13. \A i \in DOMAIN program :
         Started(issue', program, next_ins', i) = Started(issue, program, next_ins, i)
  BY <1>3, NextBatchStarted
<1> QED
  BY <1>3, <1>11, <1>12, <1>13, SameLine

LEMMA StartNextStageCount ==
  ASSUME LineInv, Alone, NEW out \in [DOMAIN program -> Nat], NoneMissing(out),
         NEW F \in Functors, NEW n \in 1 .. StageCnt[F], StartNextStage(F, n),
         program' = program
  PROVE  Alone' /\ NoneMissing(out)'
<1>1. StageCnt[F] \in Nat \ {0} /\ n \in Nat /\ n + 1 \in 1 .. StageCnt[F]
  BY FunctorsAssumption DEF StartNextStage
<1>2. PICK new : new = stage[F][n]
  OBVIOUS
<1>3. /\ new # Idle /\ stage[F][n + 1] = Idle
      /\ stage' = [stage EXCEPT ![F][n + 1] = new, ![F][n] = Idle]
      /\ issue' = issue /\ read' = read /\ write' = write /\ next_ins' = next_ins
  BY <1>2 DEF StartNextStage
<1>4. \A f \in Functors : \A k \in 1 .. StageCnt[f] :
        stage'[f][k] = IF f = F /\ k = n THEN Idle
                       ELSE IF f = F /\ k = n + 1 THEN new ELSE stage[f][k]
  BY <1>1, <1>3 DEF LineInv, Types
<1>5. Idle.ins = 0 /\ \A i \in DOMAIN program : i # 0
  BY IdleNot, StartedTypes DEF LineInv
<1>6. \A f \in Functors : \A k \in 1 .. StageCnt[f] :
        stage'[f][k] = Idle \/ \E l \in 1 .. StageCnt[f] : stage'[f][k] = stage[f][l]
  BY <1>1, <1>2, <1>4
<1>7. Alone'
  <2>1. \A u : Follow(u, Idle, program) /\ Follow(Idle, u, program)
    BY DEF Follow
  <2>2. \A f \in Functors : \A k \in 1 .. StageCnt[f] :
          Follow(read, stage'[f][k], program) /\ Follow(stage'[f][k], write, program)
    BY <1>6, <2>1 DEF Alone
  <2>3. ASSUME NEW f \in Functors, NEW k \in 1 .. StageCnt[f], NEW l \in 1 .. StageCnt[f], k < l
        PROVE  Follow(stage'[f][k], stage'[f][l], program)
    <3>1. CASE f = F /\ k = n + 1
      <4>1. n < l /\ stage'[f][k] = new /\ stage'[f][l] = stage[F][l]
        BY <1>1, <1>4, <2>3, <3>1
      <4> QED
        BY <1>2, <3>1, <4>1 DEF Alone
    <3>2. CASE f = F /\ l = n + 1
      <4>1. stage'[f][l] = new /\ (k = n => stage'[f][k] = Idle)
            /\ (k # n => k < n /\ stage'[f][k] = stage[F][k])
        BY <1>1, <1>4, <2>3, <3>2
      <4> QED
        BY <1>2, <2>1, <3>2, <4>1 DEF Alone
    <3>3. CASE ~ (f = F /\ k = n + 1) /\ ~ (f = F /\ l = n + 1)
      <4>1. stage'[f][k] \in {Idle, stage[f][k]} /\ stage'[f][l] \in {Idle, stage[f][l]}
        BY <1>4, <3>3
      <4> QED
        BY <2>1, <2>3, <4>1 DEF Alone
    <3> QED
      BY <3>1, <3>2, <3>3
  <2>4. ASSUME issue # Idle, issue.at # "wait_next_batch", ~ Pipelined(program, issue.ins),
               NEW f \in Functors, NEW k \in 1 .. StageCnt[f]
        PROVE  stage'[f][k].ins # issue.ins
    <3>1. issue.ins # 0
      BY <2>4, IdleNot DEF LineInv, IssueType
    <3> QED
      BY <1>5, <1>6, <2>4, <3>1 DEF Alone
  <2> QED
    BY <1>3, <2>2, <2>3, <2>4 DEF Alone
<1>8. ASSUME NEW i \in DOMAIN program, NEW b \in Nat
      PROVE  InLine(i, b)' <=> InLine(i, b)
  <2>1. ASSUME NEW f \in Functors, NEW k \in 1 .. StageCnt[f], stage[f][k].ins = i,
               stage[f][k].batch = b
        PROVE  InLine(i, b)'
    <3>1. CASE f = F /\ k = n
      <4>1. stage'[F][n + 1] = new
        BY <1>1, <1>4
      <4> QED
        BY <1>1, <1>2, <2>1, <3>1, <4>1 DEF InLine
    <3>2. CASE ~ (f = F /\ k = n)
      <4>1. ~ (f = F /\ k = n + 1)
        BY <1>3, <1>5, <2>1
      <4> QED
        BY <1>4, <2>1, <3>2, <4>1 DEF InLine
    <3> QED
      BY <3>1, <3>2
  <2>2. ASSUME NEW f \in Functors, NEW k \in 1 .. StageCnt[f], stage'[f][k].ins = i,
               stage'[f][k].batch = b
        PROVE  InLine(i, b)
    BY <1>5, <1>6, <2>2 DEF InLine
  <2> QED
    BY <1>3, <2>1, <2>2 DEF InLine
<1> QED
  BY <1>3, <1>7, <1>8, SameLine

\* The batch that enters the write stage is the next one: those before it have left the
\* line, and so have all of earlier instructions.
LEMMA EntersWrite ==
  ASSUME LineInv, NEW out \in [DOMAIN program -> Nat], NoneMissing(out),
         NEW F \in Functors, NEW s, s = stage[F][StageCnt[F]], s # Idle
  PROVE  /\ s.ins \in DOMAIN program /\ s.batch \in Nat /\ s.batch < Times(program, s.ins)
         /\ out[s.ins] = s.batch
         /\ \A j \in DOMAIN program : j < s.ins => out[j] = Times(program, j)
         /\ \A j \in DOMAIN program : j > s.ins => out[j] = 0
<1>1. PICK K : K = StageCnt[F]
  OBVIOUS
<1>2. K \in Nat \ {0} /\ K \in 1 .. StageCnt[F] /\ s \in StageType
  BY <1>1, FunctorsAssumption, IdleNot DEF LineInv
<1>3. /\ s.ins \in DOMAIN program /\ s.batch \in Nat /\ s.batch < Times(program, s.ins)
      /\ s.ins < next_ins
  BY <1>1, <1>2 DEF LineInv, Ranges, InRange, StageType
<1>4. InLine(s.ins, s.batch)
  BY <1>1, <1>2 DEF InLine
<1>5. out[s.ins] = s.batch
  <2>1. out[s.ins] \in Nat /\ out[s.ins] <= s.batch
        /\ s.batch < Started(issue, program, next_ins, s.ins)
    BY <1>3, <1>4 DEF NoneMissing
  <2>2. InLine(s.ins, out[s.ins])
    BY <1>3, <2>1, StartedTypes DEF NoneMissing
  <2>3. out[s.ins] >= s.batch
    BY <1>3, <2>1, <2>2, AheadOfLast, StartedTypes
  <2> QED
    BY <1>3, <2>1, <2>3
<1>6. ASSUME NEW j \in DOMAIN program, j < s.ins
      PROVE  out[j] = Times(program, j)
  <2>1. j \in Nat \ {0} /\ s.ins \in Nat /\ out[j] \in Nat
        /\ Started(issue, program, next_ins, j) \in Nat /\ Times(program, j) \in Nat
    BY <1>3, StartedTypes
  <2>2. ~ InLine(j, out[j])
    BY <1>6, <2>1, AheadOfLast
  <2>3. out[j] = Started(issue, program, next_ins, j)
    BY <2>1, <2>2 DEF NoneMissing
  <2>4. issue.ins # j
    <3>1. CASE issue = Idle
      BY <2>1, <3>1, IdleNot DEF LineInv
    <3>2. CASE issue # Idle
      <4>1. Leads(issue, s)
        BY <1>1, <1>2 DEF LineInv, IssueFirst
      <4> QED
        BY <1>6, <2>1, <3>2, <4>1 DEF Leads, Earlier
    <3> QED
      BY <3>1, <3>2
  <2>5. next_ins \in Nat
    BY ProgramsAssumption DEF LineInv, Types
  <2>6. j < next_ins
    BY <1>3, <1>6, <2>1, <2>5
  <2> QED
    BY <2>3, <2>4, <2>6 DEF Started
<1>7. ASSUME NEW j \in DOMAIN program, j > s.ins
      PROVE  out[j] = 0
  <2>1. j \in Nat /\ s.ins \in Nat /\ out[j] \in Nat
    BY <1>3, StartedTypes
  <2>2. out[j] > 0 => out[s.ins] = Times(program, s.ins)
    BY <1>3, <1>7, <2>1 DEF NoneMissing
  <2> QED
    BY <1>3, <1>5, <2>1, <2>2
<1> QED
  BY <1>3, <1>5, <1>6, <1>7

LEMMA StartWriteCount ==
  ASSUME LineInv, Alone, NEW out \in [DOMAIN program -> Nat], NoneMissing(out),
         NEW F \in Functors, StartWrite(F), program' = program,
         NEW s, s = stage[F][StageCnt[F]]
  PROVE  Alone' /\ NoneMissing([out EXCEPT ![s.ins] = s.batch + 1])'
<1>1. PICK K, i, b : K = StageCnt[F] /\ i = s.ins /\ b = s.batch
  OBVIOUS
<1>2. PICK later : later = [out EXCEPT ![i] = b + 1]
  OBVIOUS
<1>3. /\ s # Idle /\ write = Idle
      /\ stage' = [stage EXCEPT ![F][K] = Idle]
      /\ next_ins' = next_ins /\ issue' = issue /\ read' = read
      /\ write' \in {WriteAccess(s, output_cumulative_cnt + 1), Batch(s, "written")}
  BY <1>1 DEF StartWrite
<1>4. K \in Nat \ {0} /\ K \in 1 .. StageCnt[F] /\ s \in StageType
  BY <1>1, <1>3, FunctorsAssumption, IdleNot DEF LineInv
<1>5. write'.ins = i /\ write'.batch = b /\ write' # Idle
  <2>1. write'.ins = i /\ write'.batch = b
    BY <1>1, <1>3 DEF WriteAccess, Batch
  <2> QED
    BY <1>1, <1>4, <2>1, IdleNot DEF LineInv, StageType
<1>6. \A f \in Functors : \A k \in 1 .. StageCnt[f] :
        stage'[f][k] = IF f = F /\ k = K THEN Idle ELSE stage[f][k]
  BY <1>3, <1>4 DEF LineInv, Types
<1>7. /\ i \in DOMAIN program /\ b \in Nat /\ b < Times(program, i) /\ out[i] = b
      /\ \A j \in DOMAIN program : j < i => out[j] = Times(program, j)
      /\ \A j \in DOMAIN program : j > i => out[j] = 0
  BY <1>1, <1>3, EntersWrite
<1>8. Idle.ins = 0 /\ \A j \in DOMAIN program : j \in Nat \ {0} /\ Times(program, j) \in Nat
  BY IdleNot, StartedTypes DEF LineInv
<1>9. later \in [DOMAIN program -> Nat] /\ later[i] = b + 1
      /\ \A j \in DOMAIN program : j # i => later[j] = out[j]
  BY <1>2, <1>7
<1>10. Alone'
  <2>1. \A u : Follow(u, Idle, program) /\ Follow(Idle, u, program)
    BY DEF Follow
  <2>2. \A u : Follow(u, s, program) => Follow(u, write', program)
    BY <1>1, <1>3, <1>5 DEF Follow
  <2>3. Follow(read, write', program)
    BY <1>1, <1>4, <2>2 DEF Alone
  <2>4. ASSUME NEW f \in Functors, NEW k \in 1 .. StageCnt[f]
        PROVE  Follow(stage'[f][k], write', program)
    <3>1. CASE f = F /\ k # K
      BY <1>1, <1>4, <1>6, <2>2, <3>1 DEF Alone
    <3>2. CASE f # F
      <4>1. stage[f][k] = Idle
        BY <1>1, <1>3, <1>4, <3>2, OneLine
      <4> QED
        BY <1>6, <2>1, <3>2, <4>1
    <3> QED
      BY <1>6, <2>1, <3>1, <3>2
  <2>5. \A f \in Functors : \A k \in 1 .. StageCnt[f] :
          /\ Follow(read, stage'[f][k], program)
          /\ \A l \in 1 .. StageCnt[f] : k < l => Follow(stage'[f][k], stage'[f][l], program)
    BY <1>6, <2>1 DEF Alone
  <2>6. ASSUME issue # Idle, issue.at # "wait_next_batch", ~ Pipelined(program, issue.ins)
        PROVE  /\ write'.ins # issue.ins
               /\ \A f \in Functors : \A k \in 1 .. StageCnt[f] : stage'[f][k].ins # issue.ins
    <3>1. issue.ins # 0
      BY <2>6, IdleNot DEF LineInv, IssueType
    <3>2. \A f \in Functors : \A k \in 1 .. StageCnt[f] : stage[f][k].ins # issue.ins
      BY <2>6 DEF Alone
    <3> QED
      BY <1>1, <1>4, <1>5, <1>6, <1>8, <3>1, <3>2
  <2> QED
    BY <1>3, <2>3, <2>4, <2>5, <2>6 DEF Alone
<1>11. ASSUME NEW j \in DOMAIN program, NEW c \in Nat
       PROVE  InLine(j, c)' <=> InLine(j, c) /\ ~ (j = i /\ c = b)
  <2>1. ASSUME NEW f \in Functors, NEW k \in 1 .. StageCnt[f], stage[f][k].ins = j,
               stage[f][k].batch = c, ~ (j = i /\ c = b)
        PROVE  InLine(j, c)'
    <3>1. ~ (f = F /\ k = K)
      BY <1>1, <2>1
    <3> QED
      BY <1>6, <2>1, <3>1 DEF InLine
  <2>2. ASSUME NEW f \in Functors, NEW k \in 1 .. StageCnt[f], stage'[f][k].ins = j,
               stage'[f][k].batch = c
        PROVE  InLine(j, c) /\ ~ (j = i /\ c = b)
    <3>1. ~ (f = F /\ k = K) /\ stage[f][k].ins = j /\ stage[f][k].batch = c
      BY <1>6, <1>8, <2>2
    <3>2. InLine(j, c)
      BY <3>1 DEF InLine
    <3> QED
      BY <1>1, <1>3, <3>1, <3>2, AheadOfLast
  <2>3. ASSUME read.ins = j, read.batch = c PROVE ~ (j = i /\ c = b)
    BY <1>1, <1>3, <2>3, AheadOfLast
  <2>4. ASSUME InLine(j, c)' PROVE InLine(j, c) /\ ~ (j = i /\ c = b)
    <3>1. CASE read'.ins = j /\ read'.batch = c
      BY <1>3, <2>3, <3>1 DEF InLine
    <3> QED
      BY <2>2, <2>4, <3>1 DEF InLine
  <2>5. ASSUME InLine(j, c), ~ (j = i /\ c = b) PROVE InLine(j, c)'
    <3>1. CASE read.ins = j /\ read.batch = c
      BY <1>3, <3>1 DEF InLine
    <3> QED
      BY <2>1, <2>5, <3>1 DEF InLine
  <2> QED
    BY <2>4, <2>5
<1>12. InLine(i, b)
  BY <1>1, <1>4 DEF InLine
<1>13. ASSUME NEW j \in DOMAIN program
       PROVE  /\ later[j] <= Started(issue', program, next_ins', j)
              /\ \A c \in Nat :
                   InLine(j, c)' <=> later[j] <= c /\ c < Started(issue', program, next_ins', j)
  <2>1. Started(issue', program, next_ins', j) = Started(issue, program, next_ins, j)
        /\ Started(issue, program, next_ins, j) \in Nat
    BY <1>3, StartedTypes
  <2>2. CASE j # i
    BY <1>9, <1>11, <2>1, <2>2 DEF NoneMissing
  <2>3. CASE j = i
    <3>1. b < Started(issue, program, next_ins, i)
      BY <1>7, <1>12 DEF NoneMissing
    <3> QED
      BY <1>7, <1>9, <1>11, <2>1, <2>3, <3>1 DEF NoneMissing
  <2> QED
    BY <2>2, <2>3
<1>14. ASSUME NEW m \in DOMAIN program, NEW j \in DOMAIN program, j < m, later[m] > 0
       PROVE  later[j] = Times(program, j)
  BY <1>7, <1>8, <1>9, <1>14 DEF NoneMissing
<1>15. /\ later[write'.ins] = write'.batch + 1
       /\ \A j \in DOMAIN program : j > write'.ins => later[j] = 0
  BY <1>5, <1>7, <1>8, <1>9
<1>16. NoneMissing(later)'
  BY <1>13, <1>14, <1>15 DEF NoneMissing
<1> QED
  BY <1>1, <1>2, <1>10, <1>16

LEMMA FinishWriteCount ==
  ASSUME LineInv, Alone, NEW out \in [DOMAIN program -> Nat], NoneMissing(out),
         FinishWrite, program' = program
  PROVE  Alone' /\ NoneMissing(out)'
<1>1. /\ write.at = "access" /\ write' = [write EXCEPT !.at = "written"]
      /\ next_ins' = next_ins /\ issue' = issue /\ read' = read /\ stage' = stage
  BY DEF FinishWrite
<1>2. write # Idle /\ write \in WriteType
  BY <1>1, IdleNot DEF LineInv
<1>3. write'.ins = write.ins /\ write'.batch = write.batch
  BY <1>1, <1>2 DEF WriteType
<1>4. \A u : Follow(u, write, program) => Follow(u, write', program)
  BY <1>2, <1>3 DEF Follow
<1>5. Alone'
  BY <1>1, <1>3, <1>4 DEF Alone
<1>6. \A i \in DOMAIN program : \A b \in Nat : InLine(i, b)' <=> InLine(i, b)
  BY <1>1 DEF InLine
<1> QED
  BY <1>1, <1>2, <1>3, <1>5, <1>6, SameLine

LEMMA EndWriteCount ==
  ASSUME LineInv, Alone, NEW out \in [DOMAIN program -> Nat], NoneMissing(out),
         EndWrite, program' = program
  PROVE  Alone' /\ NoneMissing(out)'
<1>1. /\ write.at = "written" /\ write' = Idle
      /\ issue' = IF ~ Pipelined(program, write.ins) /\ ~ Last(program, write)
                    THEN NextBatch ELSE issue
      /\ next_ins' = next_ins /\ read' = read /\ stage' = stage
  BY ProgramFacts DEF EndWrite, EndsBatch
<1>2. write # Idle
  BY <1>1, IdleNot DEF LineInv
<1>3. Idle.ins = 0
  BY DEF Idle
<1>4. \A u : Follow(u, Idle, program)
  BY DEF Follow
<1>5. ASSUME issue' # Idle, issue'.at # "wait_next_batch"
      PROVE  /\ read'.ins # issue'.ins
             /\ ~ Pipelined(program, issue'.ins) =>
                  /\ write'.ins # issue'.ins
                  /\ \A f \in Functors : \A k \in 1 .. StageCnt[f] :
                       stage'[f][k].ins # issue'.ins
  <2>1. issue # Idle /\ issue'.ins = issue.ins
    BY <1>1, <1>5, IssueGoesOn DEF LineInv
  <2>2. issue.ins # 0
    BY <2>1, IdleNot DEF LineInv, IssueType
  <2>3. CASE issue.at = "wait_next_batch"
    <3>1. ~ Pipelined(program, write.ins) /\ ~ Last(program, write)
      BY <1>1, <1>5, <2>3
    <3>2. /\ issue.ins = write.ins /\ read.ins # write.ins
          /\ \A f \in Functors : \A k \in 1 .. StageCnt[f] : stage[f][k].ins # write.ins
      BY <1>2, <3>1, WriteAsksOwn
    <3> QED
      BY <1>1, <1>3, <2>1, <2>2, <3>2
  <2>4. CASE issue.at # "wait_next_batch"
    BY <1>1, <1>3, <2>1, <2>2, <2>4 DEF Alone
  <2> QED
    BY <2>3, <2>4
<1>6. Alone'
  BY <1>1, <1>4, <1>5 DEF Alone
<1>7. \A i \in DOMAIN program : \A b \in Nat : InLine(i, b)' <=> InLine(i, b)
  BY <1>1 DEF InLine
<1>8. \A i \in DOMAIN program :
        Started(issue', program, next_ins', i) = Started(issue, program, next_ins, i)
  BY <1>1, NextBatchStarted
<1> QED
  BY <1>1, <1>6, <1>7, <1>8, SameLine

-----------------------------------------------------------------------------
\* A batch that enters the write stage of the reduce unit finds the outputs of its own
\* instruction counted, and none else.
LEMMA ReduceEnters ==
  ASSUME LineInv, CountTypes, NEW out \in [DOMAIN program -> Nat], NoneMissing(out),
         Counts(out), program \in ReducePrograms,
         NEW F \in Functors, NEW s, s = stage[F][StageCnt[F]], s # Idle, write = Idle
  PROVE  /\ \A j \in DOMAIN program : j # s.ins => out[j] \in {0, Times(program, j)}
         /\ \A j \in DOMAIN program : j # s.ins => written[j] = out[j]
         /\ out[s.ins] = written[s.ins] + output_cumulative_cnt
         /\ written[s.ins] = write_cumulative_cnt * Width(program, s.ins)
<1>1. PICK i, b : i = s.ins /\ b = s.batch
  OBVIOUS
<1>2. /\ i \in DOMAIN program /\ b \in Nat /\ b < Times(program, i) /\ out[i] = b
      /\ \A j \in DOMAIN program : j < i => out[j] = Times(program, j)
      /\ \A j \in DOMAIN program : j > i => out[j] = 0
  BY <1>1, EntersWrite
<1>3. /\ \A j \in DOMAIN program :
           j \in Nat /\ Times(program, j) \in Nat /\ out[j] \in Nat /\ written[j] \in Nat
      /\ output_cumulative_cnt \in Nat /\ write_cumulative_cnt \in Nat
  BY StartedTypes DEF Counts, CountTypes
<1>4. ReduceCounts(out) /\ write.at = "idle"
  BY DEF Counts, Idle
<1>5. \A j \in DOMAIN program : j # i => out[j] = Times(program, j) \/ out[j] = 0
  BY <1>2, <1>3
<1>6. \A j \in DOMAIN program : j # i => written[j] = out[j]
  BY <1>3, <1>4, <1>5 DEF ReduceCounts
<1>7. out[i] = written[i] + output_cumulative_cnt
  <2>1. CASE output_cumulative_cnt = 0
    BY <1>2, <1>3, <1>4, <2>1 DEF ReduceCounts
  <2>2. CASE output_cumulative_cnt > 0
    <3>1. PICK j \in DOMAIN program : written[j] < out[j]
      BY <1>4, <2>2 DEF ReduceCounts
    <3>2. j = i
      BY <1>3, <1>6, <3>1
    <3> QED
      BY <1>2, <1>4, <3>1, <3>2 DEF ReduceCounts
  <2> QED
    BY <1>3, <2>1, <2>2
<1>8. written[i] = write_cumulative_cnt * Width(program, i)
  <2>1. CASE b > 0
    BY <1>2, <1>3, <1>4, <1>7, <2>1 DEF ReduceCounts
  <2>2. CASE b = 0
    <3>1. written[i] = 0
      <4>1. written[i] \in Nat /\ out[i] = 0
        BY <1>2, <1>3, <2>2
      <4> QED
        BY <1>3, <1>7, <4>1
    <3>2. \A j \in DOMAIN program : ~ (out[j] > 0 /\ written[j] < Times(program, j))
      BY <1>2, <1>3, <1>5, <1>6, <2>2
    <3>3. write_cumulative_cnt = 0
      BY <1>3, <1>4, <3>2 DEF ReduceCounts
    <3>4. Width(program, i) \in Nat
      BY <1>2, ProgramsAssumption DEF Width
    <3> QED
      BY <3>1, <3>3, <3>4
  <2> QED
    BY <1>2, <2>1, <2>2
<1> QED
  BY <1>1, <1>5, <1>6, <1>7, <1>8

LEMMA StartWriteReduce ==
  ASSUME LineInv, CountTypes, NEW out \in [DOMAIN program -> Nat], NoneMissing(out),
         Counts(out), program \in ReducePrograms,
         NEW F \in Functors, StartWrite(F), program' = program,
         NEW s, s = stage[F][StageCnt[F]]
  PROVE  Counts([out EXCEPT ![s.ins] = s.batch + 1])'
<1>1. PICK i, b, o, c, w :
        /\ i = s.ins /\ b = s.batch
        /\ o = output_cumulative_cnt /\ c = write_cumulative_cnt /\ w = Width(program, i)
  OBVIOUS
<1>2. PICK later : later = [out EXCEPT ![i] = b + 1]
  OBVIOUS
<1>3. /\ s # Idle /\ write = Idle
      /\ output_cumulative_cnt' = o + 1 /\ write_cumulative_cnt' = c
      /\ written' = written /\ finished' = finished
      /\ write' = IF o + 1 = w \/ Last(program, s)
                    THEN [ins |-> i, batch |-> b, at |-> "access", from |-> c * w,
                          count |-> o + 1]
                    ELSE [ins |-> i, batch |-> b, at |-> "written"]
  BY <1>1 DEF StartWrite, Unit, Writes, WriteAccess, Batch, Width, LastBatch, ProcessTimes,
              Last, Times
<1>4. /\ i \in DOMAIN program /\ b \in Nat /\ b < Times(program, i) /\ out[i] = b
      /\ Times(program, i) \in Nat
  BY <1>1, <1>3, EntersWrite, StartedTypes
<1>5. /\ \A j \in DOMAIN program : j # i => out[j] \in {0, Times(program, j)}
      /\ \A j \in DOMAIN program : j # i => written[j] = out[j]
      /\ b = written[i] + o /\ written[i] = c * w
  BY <1>1, <1>3, <1>4, ReduceEnters
<1>6. /\ written \in [DOMAIN program -> Nat] /\ o \in Nat /\ c \in Nat /\ w \in Nat
      /\ ReduceCounts(out)
      /\ finished \subseteq DOMAIN program /\ \A j \in finished : written[j] = Times(program, j)
  BY <1>1, <1>4, ProgramsAssumption DEF Counts, CountTypes, Width
<1>7. /\ later \in [DOMAIN program -> Nat] /\ later[i] = b + 1
      /\ \A j \in DOMAIN program : j # i => later[j] = out[j] /\ written[j] = later[j]
  BY <1>2, <1>4, <1>5
<1>8. written[i] \in Nat /\ written[i] < later[i] /\ later[i] = written[i] + (o + 1)
      /\ written[i] < Times(program, i)
  BY <1>4, <1>5, <1>6, <1>7
<1>9. \A j \in DOMAIN program : later[j] \in Nat /\ written[j] \in Nat
      /\ Times(program, j) \in Nat
  BY <1>6, <1>7, StartedTypes
<1>10. /\ write'.ins = i /\ write'.batch = b
       /\ write'.at = "access" => /\ write'.from = written[i] /\ write'.count = o + 1
                                  /\ Last(program, write') \/ write'.count = w
       /\ later[i] = Times(program, i) => write'.at = "access"
  <2>1. Last(program, s) <=> later[i] = Times(program, i)
    BY <1>1, <1>4, <1>7 DEF Last
  <2>2. write'.ins = i /\ write'.batch = b
    BY <1>3
  <2>3. Last(program, write') <=> Last(program, s)
    BY <1>1, <2>2 DEF Last
  <2> QED
    BY <1>3, <1>5, <2>1, <2>2, <2>3
<1>11. ASSUME NEW j \in DOMAIN program
       PROVE  /\ written[j] <= later[j]
              /\ written[j] < later[j] => later[j] = written[j] + (o + 1)
              /\ later[j] > 0 /\ written[j] < Times(program, j) =>
                   written[j] = c * Width(program, j)
              /\ later[j] = Times(program, j) /\ written[j] < later[j] =>
                   write'.at = "access" /\ write'.ins = j
  <2>1. CASE j = i
    BY <1>1, <1>5, <1>8, <1>9, <1>10, <2>1
  <2>2. CASE j # i
    BY <1>5, <1>7, <1>9, <2>2
  <2> QED
    BY <2>1, <2>2
<1>12. c > 0 => \E j \in DOMAIN program : later[j] > 0 /\ written[j] < Times(program, j)
  BY <1>4, <1>7, <1>8
<1>13. ReduceCounts(later)'
  BY <1>1, <1>3, <1>4, <1>8, <1>10, <1>11, <1>12 DEF ReduceCounts
<1> QED
  BY <1>1, <1>2, <1>3, <1>6, <1>13 DEF Counts

LEMMA StartWriteSimd ==
  ASSUME LineInv, NEW out \in [DOMAIN program -> Nat], NoneMissing(out),
         Counts(out), program \notin ReducePrograms,
         NEW F \in Functors, StartWrite(F), program' = program,
         NEW s, s = stage[F][StageCnt[F]]
  PROVE  Counts([out EXCEPT ![s.ins] = s.batch + 1])'
<1>1. PICK i, b : i = s.ins /\ b = s.batch
  OBVIOUS
<1>2. PICK later : later = [out EXCEPT ![i] = b + 1]
  OBVIOUS
<1>3. /\ s # Idle /\ write = Idle /\ written' = written /\ finished' = finished
      /\ write' = [ins |-> i, batch |-> b, at |-> "access", from |-> b, count |-> 1]
  BY <1>1 DEF StartWrite, Unit, Writes, WriteAccess
<1>4. i \in DOMAIN program /\ b \in Nat /\ out[i] = b
  BY <1>1, <1>3, EntersWrite
<1>5. write.at = "idle" /\ SimdCounts(out) /\ written \in [DOMAIN program -> Nat]
  BY <1>3 DEF Counts, Idle
<1>6. \A j \in DOMAIN program : written[j] = out[j]
  BY <1>5 DEF SimdCounts
<1>7. \A j \in DOMAIN program : later[j] = written[j] + IF i = j THEN 1 ELSE 0
  BY <1>2, <1>4, <1>6
<1>8. SimdCounts(later)'
  BY <1>3, <1>7 DEF SimdCounts
<1> QED
  BY <1>1, <1>2, <1>3, <1>8 DEF Counts

LEMMA FinishWriteSimd ==
  ASSUME LineInv, NEW out \in [DOMAIN program -> Nat], NoneMissing(out),
         Counts(out), program \notin ReducePrograms, FinishWrite, program' = program
  PROVE  Counts(out)'
<1>1. PICK i : i = write.ins
  OBVIOUS
<1>2. /\ write.at = "access" /\ SimdCounts(out) /\ written \in [DOMAIN program -> Nat]
      /\ \A j \in finished : written[j] = Times(program, j)
      /\ finished \subseteq DOMAIN program /\ finished' = finished
      /\ written' = [written EXCEPT ![i] = @ + write.count]
      /\ write' = [write EXCEPT !.at = "written"]
  BY <1>1 DEF Counts, FinishWrite
<1>3. write # Idle /\ write \in WriteType
  BY <1>2, IdleNot DEF LineInv
<1>4. write'.at = "written" /\ i \in DOMAIN program
  BY <1>1, <1>2, <1>3 DEF WriteType, LineInv, Ranges, InRange
<1>5. written' = [written EXCEPT ![i] = @ + 1]
  BY <1>2 DEF SimdCounts
<1>6. ASSUME NEW j \in DOMAIN program
      PROVE  written'[j] = out[j]
  BY <1>1, <1>2, <1>4, <1>5 DEF SimdCounts
<1>7. SimdCounts(out)'
  BY <1>4, <1>6 DEF SimdCounts
<1>8. i \notin finished
  <2>1. out[i] = written[i] + 1 /\ written[i] \in Nat
    BY <1>1, <1>2, <1>4 DEF SimdCounts
  <2>2. out[i] <= Times(program, i) /\ Times(program, i) \in Nat
    BY <1>4, StartedTypes DEF NoneMissing
  <2> QED
    BY <1>2, <2>1, <2>2
<1>9. written' \in [DOMAIN program -> Nat] /\ \A j \in finished' : written'[j] = Times(program, j)
  <2>1. written' \in [DOMAIN program -> Nat]
    <3>1. written[i] + 1 \in Nat
      BY <1>2, <1>4
    <3> QED
      BY <1>2, <1>5, <3>1
  <2>2. \A j \in finished' : written'[j] = written[j]
    BY <1>2, <1>5, <1>8
  <2> QED
    BY <1>2, <2>1, <2>2
<1> QED
  BY <1>2, <1>7, <1>9 DEF Counts

LEMMA FinishWriteReduce ==
  ASSUME LineInv, CountTypes, NEW out \in [DOMAIN program -> Nat], NoneMissing(out),
         Counts(out), program \in ReducePrograms, FinishWrite, program' = program
  PROVE  Counts(out)'
<1>1. PICK i, o, c, w : /\ i = write.ins /\ o = output_cumulative_cnt
                        /\ c = write_cumulative_cnt /\ w = Width(program, i)
  OBVIOUS
<1>2. /\ write.at = "access" /\ ReduceCounts(out) /\ written \in [DOMAIN program -> Nat]
      /\ \A j \in finished : written[j] = Times(program, j)
      /\ finished \subseteq DOMAIN program /\ finished' = finished
      /\ output_cumulative_cnt' = 0 /\ write_cumulative_cnt' = c + 1
      /\ written' = [written EXCEPT ![i] = @ + write.count]
      /\ write' = [write EXCEPT !.at = "written"]
  BY <1>1 DEF Counts, FinishWrite, Unit
<1>3. write # Idle /\ write \in WriteType
  BY <1>2, IdleNot DEF LineInv
<1>4. /\ write'.at = "written" /\ write'.ins = i /\ write'.batch = write.batch
      /\ i \in DOMAIN program /\ out[i] = write.batch + 1 /\ write.batch \in Nat
      /\ \A j \in DOMAIN program : j > i => out[j] = 0
  <2>1. write'.at = "written" /\ write'.ins = i /\ write'.batch = write.batch
        /\ write.batch \in Nat
    BY <1>1, <1>2, <1>3 DEF WriteType
  <2>2. i \in DOMAIN program
    BY <1>1, <1>3 DEF LineInv, Ranges, InRange
  <2> QED
    BY <1>1, <1>3, <2>1, <2>2 DEF NoneMissing
<1>5. /\ \A j \in DOMAIN program :
           j \in Nat /\ Times(program, j) \in Nat /\ out[j] \in Nat /\ written[j] \in Nat
      /\ o \in Nat /\ c \in Nat /\ w \in Nat
  BY <1>1, <1>2, <1>4, StartedTypes, ProgramsAssumption DEF CountTypes, Width, LineInv, Types
<1>6. /\ written[i] < out[i] /\ out[i] = written[i] + o /\ write.count = o
      /\ written[i] = c * w /\ out[i] <= Times(program, i)
      /\ Last(program, write) \/ o = w
  <2>1. /\ written[i] < out[i] /\ write.count = o /\ (Last(program, write) \/ o = w)
        /\ out[i] = written[i] + o
    BY <1>1, <1>2, <1>4 DEF ReduceCounts
  <2>2. out[i] <= Times(program, i)
    BY <1>4, <1>5, StartedTypes DEF NoneMissing
  <2> QED
    BY <1>1, <1>2, <1>4, <1>5, <2>1, <2>2 DEF ReduceCounts
<1>7. \A j \in DOMAIN program : j < i => out[j] = Times(program, j)
  BY <1>4, <1>5 DEF NoneMissing
<1>8. ASSUME NEW j \in DOMAIN program, j # i
      PROVE  written'[j] = out[j] /\ (out[j] = 0 \/ out[j] = Times(program, j))
  <2>1. out[j] = 0 \/ out[j] = Times(program, j)
    BY <1>4, <1>5, <1>7, <1>8
  <2> QED
    BY <1>1, <1>2, <1>4, <1>5, <1>8, <2>1 DEF ReduceCounts
<1>9. written'[i] = out[i]
  BY <1>2, <1>4, <1>6
<1>10. written'[i] < Times(program, i) => written'[i] = (c + 1) * w
  <2>1. Last(program, write) => out[i] = Times(program, i)
    BY <1>1, <1>4, <1>5 DEF Last
  <2>2. (c + 1) * w = c * w + w
    BY <1>5
  <2> QED
    BY <1>5, <1>6, <1>9, <2>1, <2>2
<1>11. written' \in [DOMAIN program -> Nat] /\ \A j \in finished' : written'[j] = Times(program, j)
  <2>1. i \notin finished
    BY <1>2, <1>4, <1>5, <1>6
  <2> QED
    BY <1>2, <1>4, <1>5, <1>6, <2>1
<1>12. ASSUME NEW j \in DOMAIN program
       PROVE  /\ written'[j] = out[j]
              /\ out[j] > 0 /\ written'[j] < Times(program, j) =>
                   written'[j] = (c + 1) * Width(program, j)
  BY <1>1, <1>5, <1>8, <1>9, <1>10
<1>13. \/ \E j \in DOMAIN program : out[j] > 0 /\ written'[j] < Times(program, j)
       \/ Last(program, write')
  <2>1. CASE out[i] = Times(program, i)
    BY <1>4, <1>5, <2>1 DEF Last
  <2>2. CASE out[i] # Times(program, i)
    BY <1>4, <1>5, <1>6, <1>9, <2>2
  <2> QED
    BY <2>1, <2>2
<1>14. ReduceCounts(out)'
  BY <1>2, <1>4, <1>5, <1>12, <1>13 DEF ReduceCounts
<1> QED
  BY <1>2, <1>11, <1>14 DEF Counts

LEMMA EndWriteSimd ==
  ASSUME LineInv, NEW out \in [DOMAIN program -> Nat], NoneMissing(out),
         Counts(out), program \notin ReducePrograms, EndWrite, program' = program
  PROVE  Counts(out)'
<1>1. /\ write.at = "written" /\ write' = Idle /\ written' = written
      /\ finished' = IF Last(program, write) THEN finished \cup {write.ins} ELSE finished
  BY ProgramFacts DEF EndWrite
<1>2. /\ SimdCounts(out) /\ written \in [DOMAIN program -> Nat]
      /\ \A j \in finished : written[j] = Times(program, j)
      /\ finished \subseteq DOMAIN program
  BY DEF Counts
<1>3. write # Idle /\ write \in WriteType /\ write'.at = "idle"
  BY <1>1, IdleNot DEF LineInv
<1>4. write.ins \in DOMAIN program /\ out[write.ins] = write.batch + 1
  BY <1>3 DEF LineInv, Ranges, InRange, NoneMissing
<1>5. \A j \in DOMAIN program : written[j] = out[j]
  BY <1>1, <1>2 DEF SimdCounts
<1>6. Last(program, write) => written[write.ins] = Times(program, write.ins)
  <2>1. write.batch \in Nat /\ Times(program, write.ins) \in Nat
    BY <1>3, <1>4, StartedTypes DEF WriteType
  <2> QED
    BY <1>4, <1>5, <2>1 DEF Last
<1>7. SimdCounts(out)'
  BY <1>1, <1>2, <1>3, <1>5 DEF SimdCounts
<1> QED
  BY <1>1, <1>2, <1>4, <1>6, <1>7 DEF Counts

LEMMA EndWriteReduce ==
  ASSUME LineInv, CountTypes, NEW out \in [DOMAIN program -> Nat], NoneMissing(out),
         Counts(out), program \in ReducePrograms, EndWrite, program' = program
  PROVE  Counts(out)'
<1>1. /\ write.at = "written" /\ write' = Idle /\ written' = written
      /\ finished' = IF Last(program, write) THEN finished \cup {write.ins} ELSE finished
      /\ output_cumulative_cnt' = output_cumulative_cnt
      /\ write_cumulative_cnt' = IF Last(program, write) THEN 0 ELSE write_cumulative_cnt
  BY ProgramFacts DEF EndWrite, WriteCntAfter
<1>2. /\ ReduceCounts(out) /\ written \in [DOMAIN program -> Nat]
      /\ \A j \in finished : written[j] = Times(program, j)
      /\ finished \subseteq DOMAIN program
  BY DEF Counts
<1>3. write # Idle /\ write \in WriteType /\ write'.at = "idle"
  BY <1>1, IdleNot DEF LineInv
<1>4. PICK i : i = write.ins
  OBVIOUS
<1>5. /\ i \in DOMAIN program /\ out[i] = write.batch + 1 /\ write.batch \in Nat
      /\ \A j \in DOMAIN program : j > i => out[j] = 0
  <2>1. i \in DOMAIN program
    BY <1>3, <1>4 DEF LineInv, Ranges, InRange
  <2> QED
    BY <1>3, <1>4, <2>1 DEF NoneMissing, WriteType
<1>6. /\ \A j \in DOMAIN program :
           j \in Nat /\ Times(program, j) \in Nat /\ out[j] \in Nat /\ written[j] \in Nat
      /\ write_cumulative_cnt \in Nat
  BY <1>2, StartedTypes DEF CountTypes
<1>7. \A j \in DOMAIN program : j < i => out[j] = Times(program, j)
  BY <1>5, <1>6 DEF NoneMissing
<1>8. \A j \in DOMAIN program : out[j] = Times(program, j) => written[j] = out[j]
  BY <1>1, <1>2, <1>6 DEF ReduceCounts
<1>9. Last(program, write) => written[i] = Times(program, i) /\ out[i] = Times(program, i)
  BY <1>4, <1>5, <1>6, <1>8 DEF Last
<1>10. Last(program, write) =>
         \A j \in DOMAIN program : out[j] > 0 => written[j] = Times(program, j)
  <2> SUFFICES ASSUME Last(program, write), NEW j \in DOMAIN program, out[j] > 0
               PROVE  written[j] = Times(program, j)
    OBVIOUS
  <2>1. j <= i
    BY <1>5, <1>6
  <2> QED
    BY <1>5, <1>6, <1>7, <1>8, <1>9, <2>1
<1>11. ASSUME NEW j \in DOMAIN program
       PROVE  /\ written[j] <= out[j]
              /\ written[j] < out[j] => out[j] = written[j] + output_cumulative_cnt
              /\ out[j] > 0 /\ written[j] < Times(program, j) =>
                   written[j] = write_cumulative_cnt' * Width(program, j)
              /\ ~ (out[j] = Times(program, j) /\ written[j] < out[j])
  <2>1. /\ written[j] <= out[j]
        /\ written[j] < out[j] => out[j] = written[j] + output_cumulative_cnt
    BY <1>2 DEF ReduceCounts
  <2>2. out[j] > 0 /\ written[j] < Times(program, j) =>
          written[j] = write_cumulative_cnt' * Width(program, j)
    BY <1>1, <1>2, <1>6, <1>10 DEF ReduceCounts
  <2> QED
    BY <1>6, <1>8, <2>1, <2>2
<1>12. output_cumulative_cnt' > 0 => \E j \in DOMAIN program : written[j] < out[j]
  BY <1>1, <1>2 DEF ReduceCounts
<1>13. write_cumulative_cnt' > 0 =>
         \E j \in DOMAIN program : out[j] > 0 /\ written[j] < Times(program, j)
  BY <1>1, <1>2, <1>6 DEF ReduceCounts
<1>14. ReduceCounts(out)'
  BY <1>1, <1>3, <1>11, <1>12, <1>13 DEF ReduceCounts
<1> QED
  BY <1>1, <1>2, <1>4, <1>5, <1>9, <1>14 DEF Counts

-----------------------------------------------------------------------------
LEMMA InitCount == Init => CountInv
<1> SUFFICES ASSUME Init PROVE CountInv
  OBVIOUS
<1>1. PICK out : out = [i \in DOMAIN program |-> 0]
  OBVIOUS
<1>2. LineInv
  BY InitLine
<1>3. /\ issue = Idle /\ read = Idle /\ write = Idle /\ next_ins = 1
      /\ \A f \in Functors : \A k \in 1 .. StageCnt[f] : stage[f][k] = Idle
  BY DEF Init
<1>4. Idle.ins = 0 /\ Idle.at = "idle" /\ \A i \in DOMAIN program : i \in Nat \ {0}
  BY <1>2, StartedTypes DEF Idle
<1>5. Alone
  BY <1>3 DEF Alone, Follow
<1>6. \A i \in DOMAIN program : Started(issue, program, next_ins, i) = 0
  BY <1>3, <1>4 DEF Started
<1>7. \A i \in DOMAIN program : \A b \in Nat : ~ InLine(i, b)
  BY <1>3, <1>4 DEF InLine
<1>8. NoneMissing(out)
  BY <1>1, <1>3, <1>6, <1>7 DEF NoneMissing
<1>9. /\ written = [i \in DOMAIN program |-> 0] /\ finished = {}
      /\ output_cumulative_cnt = 0 /\ write_cumulative_cnt = 0
  BY DEF Init, Ids
<1>10. SimdCounts(out)
  BY <1>1, <1>3, <1>4, <1>9 DEF SimdCounts
<1>11. ReduceCounts(out)
  BY <1>1, <1>3, <1>4, <1>9 DEF ReduceCounts
<1>12. Counts(out)
  BY <1>9, <1>10, <1>11 DEF Counts
<1> QED
  BY <1>1, <1>5, <1>8, <1>12 DEF CountInv

LEMMA NextCount ==
  ASSUME LineInv, CountTypes, CountInv, Next
  PROVE  CountInv'
<1>1. program' = program
  BY DEF Next
<1>2. PICK out \in [DOMAIN program -> Nat] : NoneMissing(out) /\ Counts(out)
  BY DEF CountInv
<1>3. Alone
  BY DEF CountInv
<1>4. ASSUME Alone' /\ NoneMissing(out)', Counts(out)' PROVE CountInv'
  BY <1>1, <1>4 DEF CountInv
<1>5. CASE Take
  <2>1. Counts(out)'
    BY <1>1, <1>2, <1>5, SameCounts DEF Take, counters
  <2> QED
    BY <1>1, <1>2, <1>3, <1>4, <1>5, <2>1, TakeCount
<1>6. CASE ProcessRelease
  <2>1. UNCHANGED <<next_ins, threads, counters, finished>>
    BY <1>6 DEF ProcessRelease
  <2>2. Counts(out)'
    BY <1>1, <1>2, <2>1, SameCounts DEF threads, counters
  <2>3. Alone'
    BY <1>1, <1>3, <2>1 DEF Alone, threads
  <2>4. NoneMissing(out)'
    BY <1>1, <1>2, <2>1 DEF NoneMissing, InLine, threads
  <2> QED
    BY <1>4, <2>2, <2>3, <2>4
<1>7. CASE StartRead
  <2>1. Counts(out)'
    BY <1>1, <1>2, <1>7, SameCounts DEF StartRead, counters
  <2> QED
    BY <1>1, <1>2, <1>3, <1>4, <1>7, <2>1, StartReadCount
<1>8. CASE StartFunctor
  <2>1. Counts(out)'
    BY <1>1, <1>2, <1>8, SameCounts DEF StartFunctor, counters
  <2> QED
    BY <1>1, <1>2, <1>3, <1>4, <1>8, <2>1, StartFunctorCount
<1>9. CASE FinishWrite
  <2>1. Counts(out)'
    BY <1>1, <1>2, <1>9, FinishWriteSimd, FinishWriteReduce
  <2> QED
    BY <1>1, <1>2, <1>3, <1>4, <1>9, <2>1, FinishWriteCount
<1>10. CASE EndWrite
  <2>1. Counts(out)'
    BY <1>1, <1>2, <1>10, EndWriteSimd, EndWriteReduce
  <2> QED
    BY <1>1, <1>2, <1>3, <1>4, <1>10, <2>1, EndWriteCount
<1>11. ASSUME NEW thread \in {"issue", "read"}, FinishAccess(thread) PROVE CountInv'
  <2>1. Counts(out)'
    BY <1>1, <1>2, <1>11, SameCounts DEF FinishAccess, counters
  <2> QED
    BY <1>1, <1>2, <1>3, <1>4, <1>11, <2>1, FinishAccessCount
<1>12. ASSUME NEW f \in Functors, Functor(f) PROVE CountInv'
  <2>1. CASE StartWrite(f)
    <3>1. PICK s : s = stage[f][StageCnt[f]]
      OBVIOUS
    <3>2. PICK later : later = [out EXCEPT ![s.ins] = s.batch + 1]
      OBVIOUS
    <3>3. s # Idle
      BY <2>1, <3>1 DEF StartWrite
    <3>4. later \in [DOMAIN program -> Nat]
      BY <1>2, <3>1, <3>2, <3>3, EntersWrite
    <3>5. Counts(later)'
      BY <1>1, <1>2, <2>1, <3>1, <3>2, StartWriteSimd, StartWriteReduce
    <3>6. Alone' /\ NoneMissing(later)'
      BY <1>1, <1>2, <1>3, <2>1, <3>1, <3>2, StartWriteCount
    <3> QED
      BY <1>1, <3>4, <3>5, <3>6 DEF CountInv
  <2>2. ASSUME NEW k \in 1 .. StageCnt[f], StartNextStage(f, k) PROVE CountInv'
    <3>1. Counts(out)'
      BY <1>1, <1>2, <2>2, SameCounts DEF StartNextStage, counters
    <3> QED
      BY <1>1, <1>2, <1>3, <1>4, <2>2, <3>1, StartNextStageCount
  <2> QED
    BY <1>12, <2>1, <2>2 DEF Functor
<1> QED
  BY <1>5, <1>6, <1>7, <1>8, <1>9, <1>10, <1>11, <1>12 DEF Next

LEMMA CountInvariant == Spec => [](LineInv /\ CountTypes /\ CountInv)
<1>1. LineInv /\ CountTypes /\ CountInv /\ [Next]_vars => CountInv'
  <2> SUFFICES ASSUME LineInv, CountTypes, CountInv, [Next]_vars PROVE CountInv'
    OBVIOUS
  <2>1. CASE UNCHANGED vars
    <3>1. program' = program /\ UNCHANGED <<next_ins, threads, counters, finished>>
      BY <2>1 DEF vars, unit_vars
    <3>2. PICK out \in [DOMAIN program -> Nat] : NoneMissing(out) /\ Counts(out)
      BY DEF CountInv
    <3>3. Counts(out)'
      BY <3>1, <3>2, SameCounts DEF threads, counters
    <3>4. Alone'
      BY <3>1 DEF CountInv, Alone, threads
    <3>5. NoneMissing(out)'
      BY <3>1, <3>2 DEF NoneMissing, InLine, threads
    <3> QED
      BY <3>1, <3>3, <3>4, <3>5 DEF CountInv
  <2> QED
    BY <2>1, NextCount
<1> QED
  BY <1>1, InitCount, LineInvariant, PTL DEF Spec

-----------------------------------------------------------------------------
(***************************************************************************)
(* The third part of the inductive invariant: who wakes whom.              *)
(***************************************************************************)

\* A thread that waits for a read has an access of its own under way.
Reads ==
  /\ DOMAIN reading = {"issue", "read"}
  /\ reading["issue"] \in Nat /\ reading["read"] \in Nat
  /\ issue.at = "access" => reading["issue"] > 0
  /\ read.at = "access" => reading["read"] > 0

\* The batch whose end the issue thread waits for has not come to that end: the read
\* stage or, without pipelining, the write stage.
Awaited(out) ==
  issue.at = "wait_next_batch" =>
    IF Pipelined(program, issue.ins)
      THEN read.ins = issue.ins /\ read.batch = issue.batch
      ELSE \/ out[issue.ins] <= issue.batch
           \/ write.ins = issue.ins /\ write.batch = issue.batch

\* An instruction all of whose batches have left the line has asked for its release, and
\* has finished or is in the write stage.
Leaves(out) ==
  \A i \in DOMAIN program : out[i] = Times(program, i) =>
    i \notin Live /\ (i \in finished \/ write.ins = i)

WakeInv ==
  \E out \in [DOMAIN program -> Nat] : NoneMissing(out) /\ Awaited(out) /\ Leaves(out)

LEMMA InitWake == Init => Reads /\ WakeInv
<1> SUFFICES ASSUME Init PROVE Reads /\ WakeInv
  OBVIOUS
<1>1. LineInv /\ Idle.at = "idle"
  BY InitLine DEF Idle
<1>2. PICK out \in [DOMAIN program -> Nat] : NoneMissing(out)
  BY InitCount DEF CountInv
<1>3. issue = Idle /\ read = Idle /\ next_ins = 1 /\ reading = [t \in {"issue", "read"} |-> 0]
  BY DEF Init
<1>4. Reads /\ Awaited(out)
  BY <1>1, <1>3 DEF Reads, Awaited
<1>5. ASSUME NEW i \in DOMAIN program PROVE out[i] # Times(program, i)
  <2>1. i \in Nat \ {0} /\ Times(program, i) \in Nat /\ Times(program, i) >= 1
    BY <1>1, StartedTypes
  <2>2. Started(issue, program, next_ins, i) = 0
    BY <1>3, <2>1 DEF Started, Idle
  <2>3. out[i] <= 0
    BY <1>2, <2>2 DEF NoneMissing
  <2> QED
    BY <2>1, <2>3
<1> QED
  BY <1>2, <1>4, <1>5 DEF Leaves, WakeInv

LEMMA NextReads ==
  ASSUME LineInv, Reads, Next
  PROVE  Reads'
<1>1. Idle.at = "idle"
  BY DEF Idle
<1>2. CASE Take
  <2>1. PICK scalars : scalars = Len(program[next_ins].scalars)
    OBVIOUS
  <2>2. /\ issue' = Reading(next_ins, 0, scalars, "batch") /\ read' = read
        /\ reading' = Asks("issue", scalars)
    BY <1>2, <2>1 DEF Take
  <2>3. issue'.at = IF scalars = 0 THEN "batch" ELSE "access"
    BY <2>2 DEF Reading
  <2> QED
    BY <2>2, <2>3 DEF Reads, Asks
<1>3. CASE StartRead
  <2>1. PICK inputs : inputs = Len(program[issue.ins].vectors)
    OBVIOUS
  <2>2. /\ read' = Reading(issue.ins, issue.batch, inputs, "data")
        /\ reading' = Asks("read", inputs)
        /\ issue' \in {Idle, [issue EXCEPT !.at = "wait_next_batch"]}
        /\ issue.at = "batch"
    BY <1>3, <2>1 DEF StartRead
  <2>3. issue \in IssueType
    BY <1>1, <2>2, IdleNot DEF LineInv
  <2>4. issue'.at # "access"
    BY <1>1, <2>2, <2>3 DEF IssueType
  <2>5. read'.at = IF inputs = 0 THEN "data" ELSE "access"
    BY <2>2 DEF Reading
  <2> QED
    BY <2>2, <2>4, <2>5 DEF Reads, Asks
<1>4. ASSUME NEW thread \in {"issue", "read"}, FinishAccess(thread) PROVE Reads'
  <2>1. /\ reading[thread] > 0
        /\ issue' = Woken(issue, "batch") /\ read' = Woken(read, "data")
        /\ reading' = [t \in DOMAIN reading |->
                         reading[t] - (IF t = thread THEN 1 ELSE 0)
                           + AsksAgain(IF t = "issue" THEN issue ELSE read)]
    BY <1>4 DEF FinishAccess
  <2>2. AsksAgain(issue) \in {0, 1} /\ AsksAgain(read) \in {0, 1}
    BY DEF AsksAgain
  <2>3. /\ DOMAIN reading' = {"issue", "read"}
        /\ reading'["issue"] = reading["issue"] - (IF "issue" = thread THEN 1 ELSE 0)
                                 + AsksAgain(issue)
        /\ reading'["read"] = reading["read"] - (IF "read" = thread THEN 1 ELSE 0)
                                + AsksAgain(read)
    BY <2>1 DEF Reads
  <2>4. ASSUME issue'.at = "access" PROVE AsksAgain(issue) = 1
    <3>1. issue.at = "access" /\ issue \in IssueType /\ issue.left > 0
      BY <2>1, <2>4, WokenFacts, IdleNot DEF LineInv, Left
    <3>2. issue'.at = IF issue.left - 1 = 0 THEN "batch" ELSE "access"
      BY <2>1, <3>1 DEF Woken, Reading
    <3> QED
      BY <2>4, <3>1, <3>2 DEF AsksAgain, IssueType
  <2>5. ASSUME read'.at = "access" PROVE AsksAgain(read) = 1
    <3>1. read.at = "access" /\ read \in ReadType /\ read.left > 0
      BY <2>1, <2>5, WokenFacts, IdleNot DEF LineInv, Left
    <3>2. read'.at = IF read.left - 1 = 0 THEN "data" ELSE "access"
      BY <2>1, <3>1 DEF Woken, Reading
    <3> QED
      BY <2>5, <3>1, <3>2 DEF AsksAgain, ReadType
  <2>6. reading'["issue"] \in Nat /\ reading'["read"] \in Nat
    BY <2>1, <2>2, <2>3 DEF Reads
  <2>7. /\ issue'.at = "access" => reading'["issue"] > 0
        /\ read'.at = "access" => reading'["read"] > 0
    BY <2>1, <2>3, <2>4, <2>5 DEF Reads
  <2> QED
    BY <2>3, <2>6, <2>7 DEF Reads
<1>5. CASE StartFunctor
  <2>1. read' = Idle /\ issue' \in {issue, NextBatch} /\ reading' = reading
    BY <1>5 DEF StartFunctor
  <2>2. issue'.at = "access" => issue.at = "access"
    BY <2>1, NextBatchFacts
  <2> QED
    BY <1>1, <2>1, <2>2 DEF Reads
<1>6. CASE EndWrite
  <2>1. read' = read /\ issue' \in {issue, NextBatch} /\ reading' = reading
    BY <1>6 DEF EndWrite
  <2>2. issue'.at = "access" => issue.at = "access"
    BY <2>1, NextBatchFacts
  <2> QED
    BY <2>1, <2>2 DEF Reads
<1>7. CASE ProcessRelease \/ FinishWrite
  BY <1>7 DEF Reads, ProcessRelease, FinishWrite, threads
<1>8. ASSUME NEW f \in Functors, Functor(f) PROVE Reads'
  <2>1. read' = read /\ issue' = issue /\ reading' = reading
    BY <1>8 DEF Functor, StartWrite, StartNextStage
  <2> QED
    BY <2>1 DEF Reads
<1> QED
  BY <1>2, <1>3, <1>4, <1>5, <1>6, <1>7, <1>8 DEF Next

\* An action that moves no batch out of the line, and ends and books nothing.
LEMMA SameLeaves ==
  ASSUME NEW out, Leaves(out), program' = program,
         \A i \in Live' : i \in Live, finished' = finished, write'.ins = write.ins
  PROVE  Leaves(out)'
BY DEF Leaves

LEMMA TakeWake ==
  ASSUME LineInv, NEW out \in [DOMAIN program -> Nat], NoneMissing(out), Leaves(out),
         Take, program' = program
  PROVE  Awaited(out)' /\ Leaves(out)'
<1>1. /\ issue = Idle /\ issue'.at # "wait_next_batch" /\ booked' = booked \cup {next_ins}
      /\ release_list' = release_list /\ finished' = finished /\ write' = write
  BY DEF Take, Reading
<1>2. ASSUME NEW i \in DOMAIN program, out[i] = Times(program, i)
      PROVE  i # next_ins
  <2>1. i \in Nat \ {0} /\ Times(program, i) \in Nat /\ Times(program, i) >= 1
    BY StartedTypes
  <2>2. out[i] <= Started(issue, program, next_ins, i)
    BY DEF NoneMissing
  <2>3. next_ins \in Nat
    BY ProgramsAssumption DEF LineInv, Types
  <2> QED
    BY <1>1, <1>2, <2>1, <2>2, <2>3 DEF Started, Idle
<1>3. Leaves(out)'
  BY <1>1, <1>2 DEF Leaves, Live
<1> QED
  BY <1>1, <1>3 DEF Awaited

LEMMA StartReadWake ==
  ASSUME LineInv, NEW out \in [DOMAIN program -> Nat], NoneMissing(out), Leaves(out),
         StartRead, program' = program
  PROVE  Awaited(out)' /\ Leaves(out)'
<1>1. /\ issue.at = "batch" /\ issue # Idle /\ issue \in IssueType
      /\ issue' \in {Idle, [issue EXCEPT !.at = "wait_next_batch"]}
      /\ read'.ins = issue.ins /\ read'.batch = issue.batch
      /\ booked' = booked /\ release_list' = release_list /\ finished' = finished
      /\ write' = write
  BY IdleNot DEF LineInv, StartRead, Reading
<1>2. issue.ins \in DOMAIN program
  BY <1>1 DEF LineInv, Ranges, InRange
<1>3. out[issue.ins] <= issue.batch
  BY <1>1, <1>2 DEF NoneMissing, Started
<1>4. Leaves(out)'
  BY <1>1, SameLeaves DEF Live
<1>5. issue'.at = "wait_next_batch" => issue'.ins = issue.ins /\ issue'.batch = issue.batch
  BY <1>1 DEF Idle, IssueType
<1> QED
  BY <1>1, <1>3, <1>4, <1>5 DEF Awaited

LEMMA FinishAccessWake ==
  ASSUME LineInv, NEW out, Awaited(out), Leaves(out),
         NEW thread, FinishAccess(thread), program' = program
  PROVE  Awaited(out)' /\ Leaves(out)'
<1>1. /\ write' = write /\ booked' = booked /\ release_list' = release_list
      /\ finished' = finished /\ issue' = Woken(issue, "batch") /\ read' = Woken(read, "data")
  BY DEF FinishAccess
<1>2. /\ Alike(issue', issue) /\ (issue'.at = "wait_next_batch" <=> issue.at = "wait_next_batch")
      /\ Alike(read', read)
  BY <1>1, WokenFacts DEF LineInv
<1>3. Leaves(out)'
  BY <1>1, SameLeaves DEF Live
<1> QED
  BY <1>1, <1>2, <1>3 DEF Awaited, Alike

\* The read stage tells a pipelined instruction that its batch has been read.
LEMMA StartFunctorWake ==
  ASSUME LineInv, NEW out, Awaited(out), Leaves(out), StartFunctor, program' = program
  PROVE  Awaited(out)' /\ Leaves(out)'
<1>1. /\ issue' = IF Pipelined(program, read.ins) /\ ~ Last(program, read)
                    THEN NextBatch ELSE issue
      /\ write' = write /\ booked' = booked /\ release_list' = release_list
      /\ finished' = finished
  BY ProgramFacts DEF StartFunctor
<1>2. Leaves(out)'
  BY <1>1, SameLeaves DEF Live
<1>3. ASSUME issue'.at = "wait_next_batch"
      PROVE  issue' = issue /\ ~ Pipelined(program, issue.ins)
  <2>1. issue' = issue /\ ~ (Pipelined(program, read.ins) /\ ~ Last(program, read))
    BY <1>1, <1>3, NextBatchFacts
  <2>2. ~ Last(program, issue)
    BY <1>3, <2>1 DEF LineInv, Ranges
  <2> QED
    BY <1>3, <2>1, <2>2 DEF Awaited, Last
<1> QED
  BY <1>1, <1>2, <1>3 DEF Awaited

LEMMA StartWriteWake ==
  ASSUME LineInv, NEW out \in [DOMAIN program -> Nat], NoneMissing(out), Awaited(out),
         Leaves(out), NEW F \in Functors, StartWrite(F), program' = program,
         NEW s, s = stage[F][StageCnt[F]]
  PROVE  Awaited([out EXCEPT ![s.ins] = s.batch + 1])'
         /\ Leaves([out EXCEPT ![s.ins] = s.batch + 1])'
<1>1. PICK i, b, later : i = s.ins /\ b = s.batch /\ later = [out EXCEPT ![i] = b + 1]
  OBVIOUS
<1>2. /\ s # Idle /\ write = Idle /\ write'.ins = i /\ write'.batch = b
      /\ release_list' = IF Last(program, s) THEN release_list \cup {i} ELSE release_list
      /\ booked' = booked /\ issue' = issue /\ read' = read /\ finished' = finished
  BY <1>1, ProgramFacts DEF StartWrite, Releases, WriteAccess, Batch
<1>3. /\ i \in DOMAIN program /\ b \in Nat /\ b < Times(program, i) /\ out[i] = b
      /\ Times(program, i) \in Nat
  BY <1>1, <1>2, EntersWrite, StartedTypes
<1>4. /\ later[i] = b + 1 /\ \A j \in DOMAIN program : j # i => later[j] = out[j]
      /\ \A j \in DOMAIN program : j # 0
  BY <1>1, <1>3, StartedTypes
<1>5. ASSUME issue.at = "wait_next_batch", ~ Pipelined(program, issue.ins)
      PROVE  \/ later[issue.ins] <= issue.batch
             \/ write'.ins = issue.ins /\ write'.batch = issue.batch
  <2>1. issue # Idle /\ issue \in IssueType /\ issue.ins \in DOMAIN program
    BY <1>5, IdleNot DEF LineInv, Ranges, InRange
  <2>2. out[issue.ins] <= issue.batch
    BY <1>2, <1>4, <1>5, <2>1, IdleNot DEF LineInv, Awaited
  <2> QED
    BY <1>2, <1>3, <1>4, <2>1, <2>2 DEF IssueType
<1>6. Awaited(later)'
  BY <1>2, <1>5 DEF Awaited
<1>7. ASSUME NEW j \in DOMAIN program, later[j] = Times(program, j)
      PROVE  j \notin Live' /\ (j \in finished' \/ write'.ins = j)
  <2>1. CASE j = i
    <3>1. Last(program, s)
      BY <1>1, <1>3, <1>4, <1>7, <2>1 DEF Last
    <3> QED
      BY <1>2, <2>1, <3>1 DEF Live
  <2>2. CASE j # i
    <3>1. j \notin Live /\ j \in finished
      BY <1>2, <1>4, <1>7, <2>2, IdleNot DEF LineInv, Leaves
    <3> QED
      BY <1>2, <3>1 DEF Live
  <2> QED
    BY <2>1, <2>2
<1> QED
  BY <1>1, <1>6, <1>7 DEF Leaves

\* The write stage tells an instruction that is not pipelined that its batch is over.
LEMMA EndWriteWake ==
  ASSUME LineInv, NEW out \in [DOMAIN program -> Nat], NoneMissing(out), Awaited(out),
         Leaves(out), EndWrite, program' = program
  PROVE  Awaited(out)' /\ Leaves(out)'
<1>1. /\ write.at = "written" /\ write' = Idle
      /\ issue' = IF ~ Pipelined(program, write.ins) /\ ~ Last(program, write)
                    THEN NextBatch ELSE issue
      /\ booked' = booked /\ release_list' = release_list /\ read' = read
      /\ finished' = IF Last(program, write) THEN finished \cup {write.ins} ELSE finished
  BY ProgramFacts DEF EndWrite, EndsBatch
<1>2. write # Idle /\ write \in WriteType /\ write.ins \in DOMAIN program
  BY <1>1, IdleNot DEF LineInv, Ranges, InRange
<1>3. ASSUME issue'.at = "wait_next_batch"
      PROVE  /\ issue' = issue
             /\ Pipelined(program, issue.ins) \/ out[issue.ins] <= issue.batch
  <2>1. issue' = issue /\ ~ (~ Pipelined(program, write.ins) /\ ~ Last(program, write))
    BY <1>1, <1>3, NextBatchFacts
  <2>2. ~ Last(program, issue)
    BY <1>3, <2>1 DEF LineInv, Ranges
  <2> QED
    BY <1>3, <2>1, <2>2 DEF Awaited, Last
<1>4. Awaited(out)'
  BY <1>1, <1>3 DEF Awaited
<1>5. ASSUME NEW i \in DOMAIN program, out[i] = Times(program, i)
      PROVE  i \notin Live' /\ i \in finished'
  <2>1. i \notin Live /\ (i \in finished \/ write.ins = i)
    BY <1>5 DEF Leaves
  <2>2. write.ins = i => Last(program, write)
    <3>1. out[write.ins] = write.batch + 1 /\ write.batch \in Nat
      BY <1>2 DEF NoneMissing, WriteType
    <3> QED
      BY <1>5, <3>1 DEF Last
  <2> QED
    BY <1>1, <2>1, <2>2 DEF Live
<1> QED
  BY <1>4, <1>5 DEF Leaves

LEMMA NextWake ==
  ASSUME LineInv, CountInv, WakeInv, Next
  PROVE  WakeInv'
<1>1. program' = program /\ Alone
  BY DEF Next, CountInv
<1>2. PICK out \in [DOMAIN program -> Nat] : NoneMissing(out) /\ Awaited(out) /\ Leaves(out)
  BY DEF WakeInv
<1>3. ASSUME NoneMissing(out)', Awaited(out)' /\ Leaves(out)' PROVE WakeInv'
  BY <1>1, <1>3 DEF WakeInv
<1>4. CASE Take
  BY <1>1, <1>2, <1>3, <1>4, TakeCount, TakeWake
<1>5. CASE ProcessRelease
  <2>1. UNCHANGED <<next_ins, threads, finished>> /\ Live' = Live
    BY <1>5 DEF ProcessRelease, Live
  <2>2. NoneMissing(out)'
    BY <1>1, <1>2, <2>1 DEF NoneMissing, InLine, threads
  <2>3. Awaited(out)' /\ Leaves(out)'
    BY <1>1, <1>2, <2>1 DEF Awaited, Leaves, threads
  <2> QED
    BY <1>3, <2>2, <2>3
<1>6. CASE StartRead
  BY <1>1, <1>2, <1>3, <1>6, StartReadCount, StartReadWake
<1>7. CASE StartFunctor
  BY <1>1, <1>2, <1>3, <1>7, StartFunctorCount, StartFunctorWake
<1>8. CASE FinishWrite
  <2>1. /\ write.at = "access" /\ write' = [write EXCEPT !.at = "written"]
        /\ UNCHANGED <<issue, read, booked, release_list, finished>>
    BY <1>8 DEF FinishWrite
  <2>2. write'.ins = write.ins /\ write'.batch = write.batch
    BY <2>1, IdleNot DEF LineInv, WriteType
  <2>3. Awaited(out)'
    BY <1>1, <1>2, <2>1, <2>2 DEF Awaited
  <2>4. Leaves(out)'
    BY <1>1, <1>2, <2>1, <2>2, SameLeaves DEF Live
  <2> QED
    BY <1>1, <1>2, <1>3, <1>8, <2>3, <2>4, FinishWriteCount
<1>9. CASE EndWrite
  BY <1>1, <1>2, <1>3, <1>9, EndWriteCount, EndWriteWake
<1>10. ASSUME NEW thread \in {"issue", "read"}, FinishAccess(thread) PROVE WakeInv'
  BY <1>1, <1>2, <1>3, <1>10, FinishAccessCount, FinishAccessWake
<1>11. ASSUME NEW f \in Functors, Functor(f) PROVE WakeInv'
  <2>1. CASE StartWrite(f)
    <3>1. PICK s, later :
            s = stage[f][StageCnt[f]] /\ later = [out EXCEPT ![s.ins] = s.batch + 1]
      OBVIOUS
    <3>2. s # Idle
      BY <2>1, <3>1 DEF StartWrite
    <3>3. later \in [DOMAIN program -> Nat]
      BY <1>2, <3>1, <3>2, EntersWrite
    <3>4. NoneMissing(later)'
      BY <1>1, <1>2, <2>1, <3>1, StartWriteCount
    <3>5. Awaited(later)' /\ Leaves(later)'
      BY <1>1, <1>2, <2>1, <3>1, StartWriteWake
    <3> QED
      BY <1>1, <3>3, <3>4, <3>5 DEF WakeInv
  <2>2. ASSUME NEW k \in 1 .. StageCnt[f], StartNextStage(f, k) PROVE WakeInv'
    <3>1. UNCHANGED <<issue, read, write, booked, release_list, finished>>
      BY <2>2 DEF StartNextStage
    <3>2. Awaited(out)' /\ Leaves(out)'
      BY <1>1, <1>2, <3>1 DEF Awaited, Leaves, Live
    <3> QED
      BY <1>1, <1>2, <1>3, <2>2, <3>2, StartNextStageCount
  <2> QED
    BY <1>11, <2>1, <2>2 DEF Functor
<1> QED
  BY <1>4, <1>5, <1>6, <1>7, <1>8, <1>9, <1>10, <1>11 DEF Next

LEMMA WakeInvariant == Spec => [](LineInv /\ CountInv /\ Reads /\ WakeInv)
<1>1. LineInv /\ CountInv /\ Reads /\ WakeInv /\ [Next]_vars => Reads' /\ WakeInv'
  <2> SUFFICES ASSUME LineInv, CountInv, Reads, WakeInv, [Next]_vars
               PROVE  Reads' /\ WakeInv'
    OBVIOUS
  <2>1. CASE UNCHANGED vars
    <3>1. UNCHANGED <<program, next_ins, booked, release_list, threads, reading, finished>>
      BY <2>1 DEF vars, unit_vars
    <3>2. Reads'
      BY <3>1 DEF Reads, threads
    <3>3. PICK out \in [DOMAIN program -> Nat] :
            NoneMissing(out) /\ Awaited(out) /\ Leaves(out)
      BY DEF WakeInv
    <3>4. NoneMissing(out)'
      BY <3>1, <3>3 DEF NoneMissing, InLine, threads
    <3>5. Awaited(out)' /\ Leaves(out)'
      BY <3>1, <3>3 DEF Awaited, Leaves, Live, threads
    <3> QED
      BY <3>1, <3>2, <3>4, <3>5 DEF WakeInv
  <2> QED
    BY <2>1, NextReads, NextWake
<1> QED
  BY <1>1, InitWake, CountInvariant, PTL DEF Spec

\* Of the stages that are busy one is the last.
LEMMA LastBusy ==
  ASSUME NEW n \in Nat, NEW S \in SUBSET (1 .. n), S # {}
  PROVE  \E k \in S : \A l \in S : l <= k
<1>1. PICK later : later = {p \in Nat \X Nat : p[1] < p[2]}
  OBVIOUS
<1>2. IsWellFoundedOn(later, Nat)
  BY <1>1, NatLessThanWellFounded DEF OpToRel
<1>3. PICK D : D = {d \in Nat : n - d \in S}
  OBVIOUS
<1>4. \A k \in S : k \in Nat /\ n - k \in D
  BY <1>3
<1>5. D \subseteq Nat /\ D # {}
  BY <1>3, <1>4
<1>6. PICK d \in D : \A e \in D : <<e, d>> \notin later
  BY <1>2, <1>5, WFMin
<1>7. ASSUME NEW e \in D PROVE d <= e
  <2>1. d \in Nat /\ e \in Nat /\ <<e, d>> \notin later
    BY <1>5, <1>6
  <2> QED
    BY <1>1, <2>1
<1>8. n - d \in S /\ d \in Nat
  BY <1>3
<1>9. \A l \in S : l <= n - d
  BY <1>4, <1>7, <1>8
<1> QED
  BY <1>8, <1>9

\* Where no thread can go on, none holds a batch.
LEMMA BlockedIsIdle ==
  ASSUME LineInv, Reads, WakeInv, Blocked
  PROVE  /\ issue = Idle /\ read = Idle /\ write = Idle
         /\ \A f \in Functors : \A k \in 1 .. StageCnt[f] : stage[f][k] = Idle
<1>1. write = Idle
  BY IdleNot DEF LineInv, Blocked, WriteType
<1>2. ASSUME NEW f \in Functors, NEW k \in 1 .. StageCnt[f], stage[f][k] # Idle
      PROVE  FALSE
  <2>1. PICK n \in Nat : n = StageCnt[f]
    BY FunctorsAssumption
  <2>2. PICK busy : busy = {l \in 1 .. n : stage[f][l] # Idle}
    OBVIOUS
  <2> busy \in SUBSET (1 .. n) /\ k \in busy
    BY <1>2, <2>1, <2>2
  <2>3. PICK l \in busy : \A m \in busy : m <= l
    <3>1. busy # {}
      OBVIOUS
    <3> QED
      BY <3>1, LastBusy
  <2>4. l \in 1 .. n /\ stage[f][l] # Idle /\ l # n
    BY <1>1, <2>1, <2>2 DEF Blocked
  <2>5. l \in 1 .. StageCnt[f] - 1
    BY <2>1, <2>4
  <2>6. stage[f][l + 1] # Idle
    BY <2>4, <2>5 DEF Blocked
  <2>7. l + 1 \in busy
    BY <2>2, <2>4, <2>6
  <2> QED
    BY <2>3, <2>4, <2>7
<1>3. reading["issue"] = 0 /\ reading["read"] = 0
  BY DEF Blocked, Reads
<1>4. read = Idle
  <2> SUFFICES ASSUME read # Idle PROVE FALSE
    OBVIOUS
  <2>1. read.at = "data"
    BY <1>3, IdleNot DEF LineInv, Reads, ReadType
  <2>2. executing_functor_ \in Functors /\ StageCnt[executing_functor_] \in Nat \ {0}
    BY OneLine, FunctorsAssumption
  <2>3. stage[executing_functor_][1] # Idle
    BY <2>1 DEF Blocked
  <2> QED
    BY <1>2, <2>2, <2>3
<1>5. issue = Idle
  <2> SUFFICES ASSUME issue # Idle PROVE FALSE
    OBVIOUS
  <2>1. PICK out \in [DOMAIN program -> Nat] :
          NoneMissing(out) /\ Awaited(out) /\ Leaves(out)
    BY DEF WakeInv
  <2>2. issue \in IssueType /\ issue.ins \in DOMAIN program /\ issue.ins # 0
    BY IdleNot DEF LineInv, Ranges, InRange, IssueType
  <2>3. issue.at = "wait_next_batch"
    BY <1>3, <1>4, <2>2 DEF Blocked, Reads, IssueType
  <2>4. out[issue.ins] <= issue.batch
    BY <1>1, <1>4, <2>1, <2>2, <2>3, IdleNot DEF LineInv, Awaited
  <2>5. Started(issue, program, next_ins, issue.ins) = issue.batch + 1
    BY <2>3 DEF Started
  <2>6. InLine(issue.ins, issue.batch)
    BY <2>1, <2>2, <2>4, <2>5 DEF NoneMissing, IssueType
  <2> QED
    BY <1>2, <1>4, <2>2, <2>6, IdleNot DEF LineInv, InLine
<1> QED
  BY <1>1, <1>2, <1>4, <1>5

\* Whatever the programs, scalar inputs and empty instructions included, and in whatever
\* order the memories answer and the stages end: while an instruction has not finished,
\* some thread of the unit can go on or will be woken.
THEOREM NeverStuckHolds == Spec => []NeverStuck
<1>1. LineInv /\ CountInv /\ Reads /\ WakeInv => NeverStuck
  <2> SUFFICES ASSUME LineInv, CountInv, Reads, WakeInv, Blocked
               PROVE  finished = Ids
    BY DEF NeverStuck
  <2>1. PICK out \in [DOMAIN program -> Nat] :
          NoneMissing(out) /\ Awaited(out) /\ Leaves(out)
    BY DEF WakeInv
  <2>2. /\ issue = Idle /\ read = Idle /\ write = Idle
        /\ \A f \in Functors : \A k \in 1 .. StageCnt[f] : stage[f][k] = Idle
    BY BlockedIsIdle
  <2>3. Idle.ins = 0 /\ Ids = DOMAIN program /\ \A i \in Ids : i \in Nat \ {0}
    BY StartedTypes DEF Idle, Ids
  <2>4. ASSUME NEW i \in Ids, i < next_ins
        PROVE  i \notin Live /\ i \in finished
    <3>1. ~ InLine(i, out[i])
      BY <2>2, <2>3 DEF InLine
    <3>2. out[i] = Times(program, i)
      <4>1. Started(issue, program, next_ins, i) = Times(program, i)
        BY <2>2, <2>3, <2>4 DEF Started
      <4>2. out[i] \in Nat /\ Times(program, i) \in Nat /\ out[i] <= Times(program, i)
        BY <2>1, <2>3, <4>1, StartedTypes DEF NoneMissing
      <4>3. ~ (out[i] < Times(program, i))
        BY <2>1, <2>3, <3>1, <4>1, <4>2 DEF NoneMissing
      <4> QED
        BY <4>2, <4>3
    <3> QED
      BY <2>1, <2>2, <2>3, <3>2 DEF Leaves
  <2>5. booked = {}
    BY <2>3, <2>4 DEF LineInv, Types, Live, Blocked
  <2>6. next_ins \notin Ids
    BY <2>2, <2>5 DEF Blocked, Stalled
  <2>7. \A i \in Ids : i < next_ins
    BY <2>3, <2>6, ProgramsAssumption DEF LineInv, Types
  <2>8. finished \subseteq Ids
    BY <2>3 DEF CountInv, Counts
  <2> QED
    BY <2>4, <2>7, <2>8
<1> QED
  BY <1>1, WakeInvariant, PTL

-----------------------------------------------------------------------------
\* Whatever the programs, each write begins where the last one of its instruction ended
\* and holds all there is, and an instruction ends complete.
THEOREM WritesInPlaceHolds == Spec => []WritesInPlace
<1>1. LineInv /\ CountInv => WritesInPlace
  <2> SUFFICES ASSUME LineInv, CountInv PROVE WritesInPlace
    OBVIOUS
  <2>1. PICK out \in [DOMAIN program -> Nat] : NoneMissing(out) /\ Counts(out)
    BY DEF CountInv
  <2>2. \A i \in finished : written[i] = ProcessTimes(i)
    BY <2>1, ProgramFacts DEF Counts
  <2>3. ASSUME write.at = "access"
        PROVE  /\ write.from = written[write.ins]
               /\ write.from + write.count = write.batch + 1
    <3>1. write # Idle /\ write \in WriteType
      BY <2>3, IdleNot DEF LineInv
    <3>2. write.ins \in DOMAIN program /\ write.batch \in Nat
          /\ out[write.ins] = write.batch + 1 /\ written[write.ins] \in Nat
      BY <2>1, <3>1 DEF LineInv, Ranges, InRange, NoneMissing, WriteType, Counts
    <3>3. CASE program \in ReducePrograms
      BY <2>1, <2>3, <3>2, <3>3 DEF Counts, ReduceCounts
    <3>4. CASE program \notin ReducePrograms
      <4>1. out[write.ins] = written[write.ins] + 1 /\ write.from = write.batch
            /\ write.count = 1
        BY <2>1, <2>3, <3>2, <3>4 DEF Counts, SimdCounts
      <4> QED
        BY <3>2, <4>1
    <3> QED
      BY <3>3, <3>4
  <2> QED
    BY <2>2, <2>3 DEF WritesInPlace
<1> QED
  BY <1>1, CountInvariant, PTL

\* Whatever the programs, every thread holds a batch of an instruction and waits where it
\* may, and no more is written of an instruction than it has batches.
THEOREM TypeOKHolds == Spec => []TypeOK
<1>1. LineInv /\ CountTypes /\ CountInv => TypeOK
  <2> SUFFICES ASSUME LineInv, CountTypes, CountInv PROVE TypeOK
    OBVIOUS
  <2>1. PICK out \in [DOMAIN program -> Nat] : NoneMissing(out) /\ Counts(out)
    BY DEF CountInv
  <2>2. ASSUME NEW i \in Ids PROVE written[i] \in 0 .. ProcessTimes(i)
    <3>1. /\ i \in DOMAIN program /\ written[i] \in Nat /\ out[i] \in Nat
          /\ out[i] <= Times(program, i) /\ Times(program, i) \in Nat
          /\ ProcessTimes(i) = Times(program, i)
      BY <2>1, StartedTypes, ProgramFacts DEF Ids, Counts, NoneMissing
    <3>2. CASE program \in ReducePrograms
      BY <2>1, <3>1, <3>2 DEF Counts, ReduceCounts
    <3>3. CASE program \notin ReducePrograms
      BY <2>1, <3>1, <3>3 DEF Counts, SimdCounts
    <3> QED
      BY <3>2, <3>3
  <2>3. ASSUME NEW s, s # Idle => s.ins \in Ids /\ s.batch \in Nat, NEW at,
               InRange(s, program, next_ins), s # Idle => s.at \in at
        PROVE  IsBatch(s, at)
    <3>1. CASE s = Idle
      BY <3>1 DEF IsBatch
    <3>2. CASE s # Idle
      <4>1. s.ins \in DOMAIN program /\ s.batch \in Nat /\ s.batch < Times(program, s.ins)
            /\ Times(program, s.ins) \in Nat /\ ProcessTimes(s.ins) = Times(program, s.ins)
        BY <2>3, <3>2, StartedTypes, ProgramFacts DEF InRange, Ids
      <4> QED
        BY <2>3, <4>1 DEF IsBatch
    <3> QED
      BY <3>1, <3>2
  <2>4. /\ InRange(issue, program, next_ins) /\ InRange(read, program, next_ins)
        /\ InRange(write, program, next_ins)
        /\ \A f \in Functors : \A k \in 1 .. StageCnt[f] :
             InRange(stage[f][k], program, next_ins)
    BY DEF LineInv, Ranges
  <2>5. IsBatch(issue, {"access", "batch", "wait_next_batch"})
    <3>1. issue # Idle => /\ issue.ins \in Ids /\ issue.batch \in Nat
                          /\ issue.at \in {"access", "batch", "wait_next_batch"}
      BY <2>4, IdleNot DEF LineInv, InRange, IssueType, Ids
    <3> QED
      BY <2>3, <2>4, <3>1
  <2>6. IsBatch(read, {"access", "data"})
    <3>1. read # Idle => /\ read.ins \in Ids /\ read.batch \in Nat
                         /\ read.at \in {"access", "data"}
      BY <2>4, IdleNot DEF LineInv, InRange, ReadType, Ids
    <3> QED
      BY <2>3, <2>4, <3>1
  <2>7. IsBatch(write, {"access", "written"})
    <3>1. write # Idle => /\ write.ins \in Ids /\ write.batch \in Nat
                          /\ write.at \in {"access", "written"}
      BY <2>4, IdleNot DEF LineInv, InRange, WriteType, Ids
    <3> QED
      BY <2>3, <2>4, <3>1
  <2>8. ASSUME NEW f \in Functors, NEW k \in 1 .. StageCnt[f]
        PROVE  IsBatch(stage[f][k], {"execute"})
    <3>1. stage[f][k] # Idle => /\ stage[f][k].ins \in Ids /\ stage[f][k].batch \in Nat
                                /\ stage[f][k].at \in {"execute"}
      BY <2>4, IdleNot DEF LineInv, InRange, StageType, Ids
    <3>2. InRange(stage[f][k], program, next_ins)
      BY <2>4
    <3> QED
      BY <2>3, <3>1, <3>2
  <2>9. /\ next_ins \in 1 .. Len(program) + 1
        /\ release_list \subseteq booked /\ booked \subseteq Ids
        /\ executing_functor_ \in Functors \cup {NoFunctor}
    BY DEF LineInv, Types, Ids
  <2>10. finished \subseteq Ids
    BY <2>1 DEF Counts, Ids
  <2> QED
    BY <2>2, <2>5, <2>6, <2>7, <2>8, <2>9, <2>10 DEF TypeOK, CountTypes
<1> QED
  BY <1>1, CountInvariant, PTL

=============================================================================
