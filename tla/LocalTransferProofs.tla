------------------------- MODULE LocalTransferProofs -------------------------
(***************************************************************************)
(* LocalTransfer is proved correct for any memories, data paths and        *)
(* transfers: however the transfers overlap, memory ends as if they had    *)
(* run one after the other.                                                *)
(*                                                                         *)
(* The argument.  A cell is right if the writes to it are served in the    *)
(* order of the program, and a read of it between those it stands between. *)
(* That is so because the queue of a memory is in the order of the         *)
(* program, though it is filled by all data paths: an access is asked for  *)
(* while its transfer holds resources (the last write as they are          *)
(* released), so whoever has asked before on another path is older; and on *)
(* its own path it comes behind what the stages hold, which are a chain of *)
(* batches without gaps.                                                   *)
(***************************************************************************)
EXTENDS LocalTransfer, WellFoundedInduction, TLAPS

-----------------------------------------------------------------------------
(***************************************************************************)
(* The first part of the inductive invariant: what the threads hold.       *)
(***************************************************************************)
Times(i) == Program[i].process_times

SrcMemory(i) == Program[i].src[1]
DstMemory(i) == Program[i].dst[1]

IssueType == [ins : Ids, batch : Nat, at : {"batch", "wait_next_batch"}]

ReadType ==
  [ins : Ids, batch : Nat, at : {"access"}]
    \cup [ins : Ids, batch : Nat, at : {"data"}, data : Cell]

WriteType == [ins : Ids, batch : Nat, at : {"access", "written"}, data : Cell]

Types ==
  /\ next_ins \in 1 .. Len(Program) + 1
  /\ unit \in Ids \cup {0} /\ (unit # 0 => unit + 1 = next_ins)
  /\ release_list \subseteq booked
  /\ \A i \in booked : i \in Ids /\ i < next_ins
  /\ issue \in [LocalPaths -> {Idle} \cup IssueType]
  /\ read \in [LocalPaths -> {Idle} \cup ReadType]
  /\ write \in [LocalPaths -> {Idle} \cup WriteType]

\* A batch of a transfer that was taken, and handed over to this path.
OnPath(stage, path, u, next) ==
  stage # Idle =>
    /\ stage.ins < next /\ stage.ins # u
    /\ stage.batch < Times(stage.ins)
    /\ DecodedPath(stage.ins) = path

\* The batch of s comes right after that of t.
Follows(s, t) ==
  IF s.ins = t.ins THEN s.batch = t.batch + 1
                   ELSE t.ins < s.ins /\ s.batch = 0 /\ LastBatch(t)

Alike(s, t) == s.ins = t.ins /\ s.batch = t.batch

\* The stages s, r and w of a path hold batches that follow one another; the issue stage
\* may wait with the youngest of them.  Without pipelining there is one of a transfer.
Chain(s, r, w) ==
  /\ r # Idle /\ w # Idle => Follows(r, w)
  /\ r # Idle /\ ~ UsePipeline(r.ins) => w.ins # r.ins
  /\ s.at = "batch" =>
       /\ r # Idle => Follows(s, r)
       /\ r = Idle /\ w # Idle => Follows(s, w)
       /\ ~ UsePipeline(s.ins) => r.ins # s.ins /\ w.ins # s.ins
  /\ s.at = "wait_next_batch" =>
       /\ ~ LastBatch(s)
       /\ r # Idle => Alike(s, r)
       /\ r = Idle => w # Idle /\ Alike(s, w) /\ ~ UsePipeline(s.ins)
  /\ s = Idle =>
       /\ r # Idle => LastBatch(r)
       /\ r = Idle /\ w # Idle => LastBatch(w)

\* What is younger than a stage of its path holds has not come further.
Younger(s, r, w, path, u, next) ==
  \A i \in Ids : i < next /\ DecodedPath(i) = path =>
    /\ s # Idle /\ i > s.ins => i = u
    /\ r # Idle /\ i > r.ins => i \in {u, s.ins}
    /\ w # Idle /\ i > w.ins => i \in {u, s.ins, r.ins}

Paths ==
  \A p \in LocalPaths :
    /\ OnPath(issue[p], p, unit, next_ins)
    /\ OnPath(read[p], p, unit, next_ins)
    /\ OnPath(write[p], p, unit, next_ins)
    /\ Chain(issue[p], read[p], write[p])
    /\ Younger(issue[p], read[p], write[p], p, unit, next_ins)

\* The transfers that hold resources and have not asked to release them.
Live == booked \ release_list

Holds ==
  /\ unit # 0 => unit \in Live
  /\ \A p \in LocalPaths :
       /\ issue[p] # Idle => issue[p].ins \in Live
       /\ read[p] # Idle => read[p].ins \in Live
       /\ write[p] # Idle /\ ~ LastBatch(write[p]) => write[p].ins \in Live

\* Nobody has been taken against one that still holds its resources.
NoConflict ==
  \A i \in Live : \A j \in Ids :
    i < j /\ j < next_ins => ~ ConflictWithIns(ConflictInfo(i), ConflictInfo(j))

FinishedOver ==
  \A i \in finished :
    /\ i \in Ids /\ i < next_ins /\ i # unit
    /\ \A p \in LocalPaths : issue[p].ins # i /\ read[p].ins # i /\ write[p].ins # i

LineInv == Types /\ Paths /\ Holds /\ NoConflict /\ FinishedOver

-----------------------------------------------------------------------------
(***************************************************************************)
(* The second part: the accesses of the stages to memory.                  *)
(***************************************************************************)
Request ==
  [type : {"read"}, path : LocalPaths, cell : Cell]
    \cup [type : {"write"}, path : LocalPaths, cell : Cell, data : Cell]

Service ==
  [type : {"read"}, path : LocalPaths, data : Cell] \cup [type : {"write"}, path : LocalPaths]

\* The stage that asked.
Holder(access) == IF access.type = "read" THEN read[access.path] ELSE write[access.path]

Requests ==
  \A m \in Memories :
    /\ access_queue[m] \in Seq(Request)
    /\ \A k \in 1 .. Len(access_queue[m]) :
         LET request == access_queue[m][k]
             stage == Holder(request)
         IN  /\ stage.at = "access"
             /\ request.cell = IF request.type = "read" THEN Src(stage.ins, stage.batch)
                                                        ELSE Dst(stage.ins, stage.batch)
             /\ request.cell[1] = m
             /\ request.type = "write" => request.data = stage.data

Services ==
  \A m \in Memories :
    /\ serving[m] \in {NoAccess} \cup Service
    /\ serving[m] # NoAccess =>
         LET stage == Holder(serving[m])
         IN  /\ stage.at = "access"
             /\ m = IF serving[m].type = "read" THEN SrcMemory(stage.ins)
                                                ELSE DstMemory(stage.ins)

Earlier(s, t) == s.ins < t.ins \/ (s.ins = t.ins /\ s.batch < t.batch)

\* A memory serves in the order of the program.
QueueInOrder ==
  \A m \in Memories : \A k \in 1 .. Len(access_queue[m]) :
    /\ serving[m] # NoAccess => Earlier(Holder(serving[m]), Holder(access_queue[m][k]))
    /\ \A l \in 1 .. Len(access_queue[m]) :
         k < l => Earlier(Holder(access_queue[m][k]), Holder(access_queue[m][l]))

MemoryInv ==
  /\ access_queue \in [Memories -> Seq(Request)]
  /\ serving \in [Memories -> {NoAccess} \cup Service]
  /\ Requests /\ Services /\ QueueInOrder

-----------------------------------------------------------------------------
(***************************************************************************)
(* The third part: the data.                                               *)
(***************************************************************************)
Waiting(queue, path) == \E k \in 1 .. Len(queue) : queue[k].type = "write" /\ queue[k].path = path

\* How many batches of transfer i have been written to memory, by what the stages of its
\* path hold.
Progress(i, u, next, s, r, w, waiting) ==
  IF i >= next \/ i = u THEN 0
  ELSE IF w.ins = i THEN w.batch + IF waiting THEN 0 ELSE 1
  ELSE IF r.ins = i THEN r.batch
  ELSE IF s.ins = i THEN s.batch
  ELSE Times(i)

Written(i) ==
  LET path == DecodedPath(i)
  IN  Progress(i, unit, next_ins, issue[path], read[path], write[path],
               Waiting(access_queue[DstMemory(i)], path))

\* While an access waits, no younger transfer has written to its memory.
NotOvertaken ==
  \A m \in Memories : \A k \in 1 .. Len(access_queue[m]) : \A j \in Ids :
    j > Holder(access_queue[m][k]).ins /\ DstMemory(j) = m => Written(j) = 0

Before(i, b) == Copied(InSequence[i - 1], i)[b]

\* Of the writes to cell c, done are those before batch b of transfer i.
UpTo(done, c, i, b) ==
  \A j \in Ids : \A d \in 0 .. Times(j) - 1 :
    Dst(j, d) = c => (d < done[j] <=> j < i \/ (j = i /\ d < b))

CellsRight(done, data) ==
  \A c \in Cell : \A i \in Ids : \A b \in 0 .. Times(i) :
    UpTo(done, c, i, b) => data[c] = Before(i, b)[c]

ValuesRight ==
  /\ \A p \in LocalPaths :
       /\ read[p].at = "data" => read[p].data = Expected(read[p].ins, read[p].batch)
       /\ write[p] # Idle => write[p].data = Expected(write[p].ins, write[p].batch)
  /\ \A m \in Memories :
       serving[m].type = "read" =>
         LET stage == read[serving[m].path]
         IN  serving[m].data = Expected(stage.ins, stage.batch)

DataInv ==
  /\ data_ \in [Cell -> Cell]
  /\ NotOvertaken
  /\ CellsRight([i \in Ids |-> Written(i)], data_)
  /\ Ids = {} => data_ = [c \in Cell |-> c]
  /\ ValuesRight

-----------------------------------------------------------------------------
(***************************************************************************)
(* The reference: what its recursive definitions compute.  The induction   *)
(* is that of sets of numbers: each that is not empty has a least element. *)
(***************************************************************************)
LEMMA LeastNatural ==
  ASSUME NEW S, S \subseteq Nat, S # {}
  PROVE  \E n \in S : \A k \in S : n <= k
<1>1. PICK less : less = {p \in Nat \X Nat : p[1] < p[2]}
  OBVIOUS
<1>2. IsWellFoundedOn(less, Nat)
  BY <1>1, NatLessThanWellFounded DEF OpToRel
<1>3. PICK n \in S : \A k \in S : <<k, n>> \notin less
  BY <1>2, WFMin
<1>4. ASSUME NEW k \in S PROVE ~ (k < n)
  <2>1. k \in Nat /\ n \in Nat /\ <<k, n>> \notin less
    BY <1>3
  <2> QED
    BY <1>1, <2>1
<1> QED
  BY <1>4

\* Of all cells.
Contents == [Cell -> Cell]

\* A function of the numbers up to n is defined by its first value and its steps.
LEMMA Recursion ==
  ASSUME NEW n \in Nat, NEW start \in Contents,
         NEW step \in [1 .. n -> [Contents -> Contents]]
  PROVE  \E f \in [0 .. n -> Contents] :
           f[0] = start /\ \A k \in 1 .. n : f[k] = step[k][f[k - 1]]
<1> DEFINE Upto(m, f) == /\ f \in [0 .. m -> Contents]
                         /\ f[0] = start /\ \A k \in 1 .. m : f[k] = step[k][f[k - 1]]
           Bad == {m \in 0 .. n : ~ \E f : Upto(m, f)}
<1>1. ASSUME Bad # {} PROVE FALSE
  <2>1. Bad \subseteq Nat
    OBVIOUS
  <2>2. PICK m \in Bad : \A k \in Bad : m <= k
    BY <1>1, <2>1, LeastNatural
  <2>3. m \in 0 .. n /\ ~ \E f : Upto(m, f)
    BY <2>2
  <2>4. m # 0
    <3>1. Upto(0, [k \in 0 .. 0 |-> start])
      OBVIOUS
    <3> QED
      BY <2>3, <3>1
  <2>5. m - 1 \in 0 .. n /\ m - 1 \notin Bad
    <3> HIDE DEF Bad
    <3>1. m \in Nat /\ m - 1 \in 0 .. n
      BY <2>3, <2>4
    <3>2. ~ (m <= m - 1)
      BY <3>1
    <3> QED
      BY <2>2, <3>1, <3>2
  <2>6. PICK f : Upto(m - 1, f)
    BY <2>5
  <2>7. PICK g : g = [k \in 0 .. m |-> IF k = m THEN step[m][f[m - 1]] ELSE f[k]]
    OBVIOUS
  <2>8. step[m] \in [Contents -> Contents] /\ f[m - 1] \in Contents
    BY <2>3, <2>4, <2>6
  <2>9. g \in [0 .. m -> Contents]
    BY <2>3, <2>4, <2>6, <2>7, <2>8
  <2>10. g[0] = start
    BY <2>3, <2>4, <2>6, <2>7
  <2>11. ASSUME NEW k \in 1 .. m PROVE g[k] = step[k][g[k - 1]]
    BY <2>3, <2>4, <2>6, <2>7
  <2>12. Upto(m, g)
    BY <2>9, <2>10, <2>11
  <2> QED
    BY <2>3, <2>12
<1>2. n \notin Bad
  BY <1>1
<1> QED
  BY <1>2

\* A cell of its memory.
LEMMA CellFacts ==
  ASSUME NEW i \in Ids
  PROVE  /\ i \in Nat \ {0} /\ Times(i) \in Nat \ {0}
         /\ SrcMemory(i) \in Memories /\ DstMemory(i) \in Memories
         /\ \A b \in 0 .. Times(i) - 1 :
              /\ Src(i, b) \in Cell /\ Src(i, b)[1] = SrcMemory(i)
              /\ Dst(i, b) \in Cell /\ Dst(i, b)[1] = DstMemory(i)
<1>1. /\ Program[i].process_times \in Nat \ {0}
      /\ Program[i].src[1] \in Memories /\ Program[i].dst[1] \in Memories
      /\ \A b \in 0 .. Program[i].process_times - 1 :
           Program[i].src[2] + b \in Cells /\ Program[i].dst[2] + b \in Cells
      /\ i \in Nat \ {0}
  BY ProgramAssumption DEF Ids
<1> QED
  BY <1>1 DEF Times, SrcMemory, DstMemory, Src, Dst, Cell

LEMMA CopiedFacts ==
  ASSUME NEW i \in Ids, NEW start \in Contents
  PROVE  /\ Copied(start, i) \in [0 .. Times(i) -> Contents]
         /\ Copied(start, i)[0] = start
         /\ \A n \in 1 .. Times(i) :
              Copied(start, i)[n] = [Copied(start, i)[n - 1] EXCEPT
                                       ![Dst(i, n - 1)] = Copied(start, i)[n - 1][Src(i, n - 1)]]
<1> DEFINE Step(n) == [data \in Contents |->
                         [data EXCEPT ![Dst(i, n - 1)] = data[Src(i, n - 1)]]]
           IsCopied(f) == f = [n \in 0 .. Times(i) |->
                                 IF n = 0 THEN start
                                 ELSE [f[n - 1] EXCEPT ![Dst(i, n - 1)] = f[n - 1][Src(i, n - 1)]]]
<1>1. Times(i) \in Nat
  BY CellFacts
<1>2. ASSUME NEW n \in 1 .. Times(i)
      PROVE  Step(n) \in [Contents -> Contents]
  <2>1. Src(i, n - 1) \in Cell
    BY <1>1, CellFacts
  <2> QED
    BY <2>1 DEF Contents
<1>3. PICK step \in [1 .. Times(i) -> [Contents -> Contents]] :
        \A n \in 1 .. Times(i) : step[n] = Step(n)
  <2> HIDE DEF Step
  <2>1. [n \in 1 .. Times(i) |-> Step(n)] \in [1 .. Times(i) -> [Contents -> Contents]]
    BY <1>2
  <2> QED
    BY <2>1
<1>4. PICK f \in [0 .. Times(i) -> Contents] :
        f[0] = start /\ \A n \in 1 .. Times(i) : f[n] = Step(n)[f[n - 1]]
  <2> HIDE DEF Step
  <2>1. \E f \in [0 .. Times(i) -> Contents] :
          f[0] = start /\ \A n \in 1 .. Times(i) : f[n] = step[n][f[n - 1]]
    BY <1>1, Recursion
  <2> QED
    BY <1>3, <2>1
<1>5. ASSUME NEW n \in 1 .. Times(i)
      PROVE  f[n] = [f[n - 1] EXCEPT ![Dst(i, n - 1)] = f[n - 1][Src(i, n - 1)]]
  <2>1. n - 1 \in 0 .. Times(i)
    BY <1>1
  <2>2. f[n - 1] \in Contents
    BY <1>4, <2>1
  <2> QED
    BY <1>4, <2>2
<1>6. IsCopied(f)
  <2>1. ASSUME NEW n \in 0 .. Times(i)
        PROVE  f[n] = IF n = 0 THEN start
                      ELSE [f[n - 1] EXCEPT ![Dst(i, n - 1)] = f[n - 1][Src(i, n - 1)]]
    <3>1. CASE n = 0
      BY <1>4, <3>1
    <3>2. CASE n # 0
      <4>1. n \in 1 .. Times(i)
        BY <1>1, <3>2
      <4> QED
        BY <1>5, <3>2, <4>1
    <3> QED
      BY <3>1, <3>2
  <2> QED
    BY <1>4, <2>1
<1>7. Copied(start, i) = CHOOSE g : IsCopied(g)
  BY DEF Copied, Times
<1>8. IsCopied(Copied(start, i))
  <2> HIDE DEF IsCopied
  <2> QED
    BY <1>6, <1>7
<1>9. PICK g : g = Copied(start, i)
  OBVIOUS
<1>10. /\ DOMAIN g = 0 .. Times(i) /\ g[0] = start
       /\ \A n \in 1 .. Times(i) :
            g[n] = [g[n - 1] EXCEPT ![Dst(i, n - 1)] = g[n - 1][Src(i, n - 1)]]
  <2>1. DOMAIN g = 0 .. Times(i)
    BY <1>8, <1>9
  <2>2. \A n \in 0 .. Times(i) :
          g[n] = IF n = 0 THEN start
                 ELSE [g[n - 1] EXCEPT ![Dst(i, n - 1)] = g[n - 1][Src(i, n - 1)]]
    BY <1>8, <1>9
  <2>3. 0 \in 0 .. Times(i) /\ \A n \in 1 .. Times(i) : n \in 0 .. Times(i) /\ n # 0
    BY <1>1
  <2> QED
    BY <2>1, <2>2, <2>3
<1>11. ASSUME NEW n \in 0 .. Times(i), g[n] \notin Contents PROVE FALSE
  <2>1. PICK bad : bad = {k \in 0 .. Times(i) : g[k] \notin Contents}
    OBVIOUS
  <2>2. bad \subseteq Nat /\ bad # {}
    BY <1>11, <2>1
  <2>3. PICK k \in bad : \A l \in bad : k <= l
    BY <2>2, LeastNatural
  <2>4. k \in 0 .. Times(i) /\ g[k] \notin Contents /\ k # 0
    BY <1>10, <2>1, <2>3
  <2>5. k - 1 \in 0 .. Times(i) /\ ~ (k <= k - 1) /\ k \in 1 .. Times(i)
    BY <1>1, <2>4
  <2>6. g[k - 1] \in Contents
    BY <2>1, <2>3, <2>5
  <2>7. Src(i, k - 1) \in Cell
    BY <1>1, <2>5, CellFacts
  <2>8. g[k] = [g[k - 1] EXCEPT ![Dst(i, k - 1)] = g[k - 1][Src(i, k - 1)]]
    BY <1>10, <2>5
  <2>9. g[k] \in Contents
    BY <2>6, <2>7, <2>8 DEF Contents
  <2> QED
    BY <2>4, <2>9
<1>12. g = [n \in 0 .. Times(i) |-> g[n]]
  BY <1>8, <1>9
<1>13. g \in [0 .. Times(i) -> Contents]
  BY <1>11, <1>12
<1> QED
  BY <1>9, <1>10, <1>13

LEMMA InSequenceFacts ==
  /\ Len(Program) \in Nat /\ Ids = 1 .. Len(Program)
  /\ InSequence \in [0 .. Len(Program) -> Contents]
  /\ InSequence[0] = [c \in Cell |-> c]
  /\ \A i \in Ids : InSequence[i] = Copied(InSequence[i - 1], i)[Times(i)]
<1> DEFINE N == Len(Program)
           Step(i) == [data \in Contents |-> Copied(data, i)[Times(i)]]
           IsSequence(f) == f = [i \in Ids \cup {0} |->
                                   IF i = 0 THEN [c \in Cell |-> c]
                                   ELSE Copied(f[i - 1], i)[Times(i)]]
<1>1. N \in Nat /\ Ids = 1 .. N /\ Ids \cup {0} = 0 .. N
  BY ProgramAssumption DEF Ids
<1> HIDE DEF N
<1>2. ASSUME NEW i \in Ids
      PROVE  Step(i) \in [Contents -> Contents]
  <2>1. Times(i) \in Nat
    BY CellFacts
  <2>2. ASSUME NEW data \in Contents PROVE Copied(data, i)[Times(i)] \in Contents
    <3>1. Copied(data, i) \in [0 .. Times(i) -> Contents]
      BY CopiedFacts
    <3> QED
      BY <2>1, <3>1
  <2> QED
    BY <2>2
<1>3. PICK step \in [1 .. N -> [Contents -> Contents]] : \A i \in 1 .. N : step[i] = Step(i)
  <2> HIDE DEF Step
  <2>1. [i \in 1 .. N |-> Step(i)] \in [1 .. N -> [Contents -> Contents]]
    BY <1>1, <1>2
  <2> QED
    BY <2>1
<1>4. [c \in Cell |-> c] \in Contents
  BY DEF Contents
<1>5. PICK f \in [0 .. N -> Contents] :
        f[0] = [c \in Cell |-> c] /\ \A i \in 1 .. N : f[i] = Step(i)[f[i - 1]]
  <2> HIDE DEF Step
  <2>1. PICK start \in Contents : start = [c \in Cell |-> c]
    BY <1>4
  <2>2. \E f \in [0 .. N -> Contents] :
          f[0] = start /\ \A i \in 1 .. N : f[i] = step[i][f[i - 1]]
    BY <1>1, Recursion
  <2> QED
    BY <1>3, <2>1, <2>2
<1>6. ASSUME NEW i \in 1 .. N
      PROVE  f[i] = Copied(f[i - 1], i)[Times(i)]
  <2>1. i - 1 \in 0 .. N
    BY <1>1
  <2>2. f[i - 1] \in Contents
    BY <1>5, <2>1
  <2> QED
    BY <1>5, <2>2
<1>7. IsSequence(f)
  <2>1. ASSUME NEW i \in 0 .. N
        PROVE  f[i] = IF i = 0 THEN [c \in Cell |-> c] ELSE Copied(f[i - 1], i)[Times(i)]
    <3>1. CASE i = 0
      BY <1>5, <3>1
    <3>2. CASE i # 0
      <4>1. i \in 1 .. N
        BY <1>1, <3>2
      <4> QED
        BY <1>6, <3>2, <4>1
    <3> QED
      BY <3>1, <3>2
  <2> QED
    BY <1>1, <1>5, <2>1
<1>8. InSequence = CHOOSE g : IsSequence(g)
  BY DEF InSequence, Times
<1>9. IsSequence(InSequence)
  <2> HIDE DEF IsSequence
  <2> QED
    BY <1>7, <1>8
<1>10. PICK g : g = InSequence
  OBVIOUS
<1>11. DOMAIN g = 0 .. N /\ g = [i \in 0 .. N |-> g[i]]
  BY <1>1, <1>9, <1>10
<1>12. /\ g[0] = [c \in Cell |-> c]
       /\ \A i \in 1 .. N : g[i] = Copied(g[i - 1], i)[Times(i)]
  <2>1. \A i \in 0 .. N :
          g[i] = IF i = 0 THEN [c \in Cell |-> c] ELSE Copied(g[i - 1], i)[Times(i)]
    BY <1>1, <1>9, <1>10
  <2>2. 0 \in 0 .. N /\ \A i \in 1 .. N : i \in 0 .. N /\ i # 0
    BY <1>1
  <2> QED
    BY <2>1, <2>2
<1>13. ASSUME NEW i \in 0 .. N, g[i] \notin Contents PROVE FALSE
  <2>1. PICK bad : bad = {k \in 0 .. N : g[k] \notin Contents}
    OBVIOUS
  <2>2. bad \subseteq Nat /\ bad # {}
    BY <1>13, <2>1
  <2>3. PICK k \in bad : \A l \in bad : k <= l
    BY <2>2, LeastNatural
  <2>4. k \in 0 .. N /\ g[k] \notin Contents /\ k # 0
    BY <1>4, <1>12, <2>1, <2>3
  <2>5. k - 1 \in 0 .. N /\ ~ (k <= k - 1) /\ k \in 1 .. N
    BY <1>1, <2>4
  <2>6. g[k - 1] \in Contents
    BY <2>1, <2>3, <2>5
  <2>7. Step(k) \in [Contents -> Contents]
    BY <1>1, <1>2, <2>5
  <2>8. g[k] = Step(k)[g[k - 1]]
    BY <1>12, <2>5, <2>6
  <2> QED
    BY <2>4, <2>6, <2>7, <2>8
<1>14. g \in [0 .. N -> Contents]
  BY <1>11, <1>13
<1> QED
  BY <1>1, <1>10, <1>12, <1>14 DEF N

\* Memory before each batch of the sequence.
LEMMA BeforeFacts ==
  ASSUME NEW i \in Ids
  PROVE  /\ \A b \in 0 .. Times(i) : Before(i, b) \in Contents
         /\ Before(i, 0) = InSequence[i - 1]
         /\ Before(i, Times(i)) = InSequence[i]
         /\ \A b \in 0 .. Times(i) - 1 :
              Before(i, b + 1) = [Before(i, b) EXCEPT ![Dst(i, b)] = Before(i, b)[Src(i, b)]]
<1>1. Times(i) \in Nat \ {0} /\ i - 1 \in 0 .. Len(Program)
  BY CellFacts, InSequenceFacts
<1>2. PICK start \in Contents : start = InSequence[i - 1]
  BY <1>1, InSequenceFacts
<1>3. PICK f \in [0 .. Times(i) -> Contents] :
        /\ f = Copied(start, i) /\ f[0] = start
        /\ \A n \in 1 .. Times(i) :
             f[n] = [f[n - 1] EXCEPT ![Dst(i, n - 1)] = f[n - 1][Src(i, n - 1)]]
  BY CopiedFacts
<1>4. \A b : Before(i, b) = f[b]
  BY <1>2, <1>3 DEF Before
<1>5. f[Times(i)] = InSequence[i]
  BY <1>2, <1>3, InSequenceFacts
<1>6. ASSUME NEW b \in 0 .. Times(i) - 1
      PROVE  f[b + 1] = [f[b] EXCEPT ![Dst(i, b)] = f[b][Src(i, b)]]
  <2>1. b + 1 \in 1 .. Times(i) /\ (b + 1) - 1 = b
    BY <1>1
  <2> QED
    BY <1>3, <2>1
<1>7. \A b \in 0 .. Times(i) : f[b] \in Contents
  OBVIOUS
<1>8. ASSUME NEW b \in 0 .. Times(i) - 1
      PROVE  Before(i, b + 1) = [Before(i, b) EXCEPT ![Dst(i, b)] = Before(i, b)[Src(i, b)]]
  BY <1>4, <1>6
<1> QED
  BY <1>2, <1>3, <1>4, <1>5, <1>7, <1>8

\* A cell to which a transfer does not write keeps its value.
LEMMA UnwrittenWithin ==
  ASSUME NEW i \in Ids, NEW b \in 0 .. Times(i), NEW d \in b .. Times(i), NEW c \in Cell,
         \A e \in b .. d - 1 : Dst(i, e) # c
  PROVE  Before(i, d)[c] = Before(i, b)[c]
<1>1. PICK bad : bad = {e \in b .. d : Before(i, e)[c] # Before(i, b)[c]}
  OBVIOUS
<1>2. Times(i) \in Nat /\ b \in Nat /\ d \in Nat
  BY CellFacts
<1>3. ASSUME bad # {} PROVE FALSE
  <2>1. bad \subseteq Nat
    BY <1>1, <1>2
  <2>2. PICK e \in bad : \A l \in bad : e <= l
    BY <1>3, <2>1, LeastNatural
  <2>3. e \in b .. d /\ Before(i, e)[c] # Before(i, b)[c] /\ e # b
    BY <1>1, <2>2
  <2>4. PICK a \in 0 .. Times(i) - 1 : a + 1 = e /\ a \in b .. d - 1 /\ a \in b .. d /\ ~ (e <= a)
    <3>1. e - 1 \in 0 .. Times(i) - 1 /\ (e - 1) + 1 = e /\ e - 1 \in b .. d - 1
          /\ e - 1 \in b .. d /\ ~ (e <= e - 1)
      BY <1>2, <2>3
    <3> QED
      BY <3>1
  <2>5. Before(i, a)[c] = Before(i, b)[c]
    BY <1>1, <2>2, <2>4
  <2>6. Before(i, e) = [Before(i, a) EXCEPT ![Dst(i, a)] = Before(i, a)[Src(i, a)]]
    BY <2>4, BeforeFacts
  <2>7. Before(i, a) \in Contents /\ Dst(i, a) # c
    BY <1>2, <2>4, BeforeFacts
  <2> QED
    BY <2>3, <2>5, <2>6, <2>7 DEF Contents
<1> QED
  BY <1>1, <1>2, <1>3

LEMMA UnwrittenAcross ==
  ASSUME NEW i \in 0 .. Len(Program), NEW j \in i .. Len(Program), NEW c \in Cell,
         \A k \in Ids : i < k /\ k <= j => \A e \in 0 .. Times(k) - 1 : Dst(k, e) # c
  PROVE  InSequence[j][c] = InSequence[i][c]
<1>1. PICK bad : bad = {k \in i .. j : InSequence[k][c] # InSequence[i][c]}
  OBVIOUS
<1>2. Len(Program) \in Nat /\ i \in Nat /\ j \in Nat
  BY InSequenceFacts
<1>3. ASSUME bad # {} PROVE FALSE
  <2>1. bad \subseteq Nat
    BY <1>1, <1>2
  <2>2. PICK k \in bad : \A l \in bad : k <= l
    BY <1>3, <2>1, LeastNatural
  <2>3. k \in i .. j /\ InSequence[k][c] # InSequence[i][c] /\ k # i
    BY <1>1, <2>2
  <2>4. k \in Ids /\ i < k /\ k <= j /\ k - 1 \in i .. j /\ ~ (k <= k - 1)
    BY <1>2, <2>3, InSequenceFacts
  <2>5. InSequence[k - 1][c] = InSequence[i][c]
    BY <1>1, <2>2, <2>4
  <2>6. Times(k) \in Nat
    BY <2>4, CellFacts
  <2>7. Before(k, Times(k))[c] = Before(k, 0)[c]
    <3>1. \A e \in 0 .. Times(k) - 1 : Dst(k, e) # c
      BY <2>4
    <3>2. 0 \in 0 .. Times(k) /\ Times(k) \in 0 .. Times(k)
      BY <2>6
    <3> QED
      BY <2>4, <3>1, <3>2, UnwrittenWithin
  <2> QED
    BY <2>3, <2>4, <2>5, <2>7, BeforeFacts
<1> QED
  BY <1>1, <1>2, <1>3

\* Between two batches of the sequence a cell keeps its value if none of those from the
\* first to before the second writes to it.
LEMMA Unwritten ==
  ASSUME NEW i \in Ids, NEW b \in 0 .. Times(i), NEW j \in Ids, NEW d \in 0 .. Times(j),
         NEW c \in Cell, i < j \/ (i = j /\ b <= d),
         \A k \in Ids : \A e \in 0 .. Times(k) - 1 :
           Dst(k, e) = c => \/ k < i \/ (k = i /\ e < b)
                            \/ k > j \/ (k = j /\ e >= d)
  PROVE  Before(j, d)[c] = Before(i, b)[c]
<1>1. /\ i \in Nat \ {0} /\ j \in Nat \ {0} /\ Times(i) \in Nat /\ Times(j) \in Nat
      /\ b \in Nat /\ d \in Nat /\ Len(Program) \in Nat /\ Ids = 1 .. Len(Program)
  BY CellFacts, InSequenceFacts
<1>2. CASE i = j
  <2>1. d \in b .. Times(i)
    BY <1>1, <1>2
  <2>2. \A e \in b .. d - 1 : Dst(i, e) # c
    BY <1>1, <1>2
  <2> QED
    BY <1>2, <2>1, <2>2, UnwrittenWithin
<1>3. CASE i # j
  <2>1. i < j
    BY <1>1, <1>3
  <2>2. Before(i, Times(i))[c] = Before(i, b)[c]
    <3>1. \A e \in b .. Times(i) - 1 : Dst(i, e) # c
      BY <1>1, <2>1
    <3>2. Times(i) \in b .. Times(i)
      BY <1>1
    <3> QED
      BY <3>1, <3>2, UnwrittenWithin
  <2>3. InSequence[j - 1][c] = InSequence[i][c]
    <3>1. \A k \in Ids : i < k /\ k <= j - 1 => \A e \in 0 .. Times(k) - 1 : Dst(k, e) # c
      BY <1>1, <2>1
    <3>2. i \in 0 .. Len(Program) /\ j - 1 \in i .. Len(Program)
      BY <1>1, <2>1
    <3> QED
      BY <3>1, <3>2, UnwrittenAcross
  <2>4. Before(j, d)[c] = Before(j, 0)[c]
    <3>1. \A e \in 0 .. d - 1 : Dst(j, e) # c
      BY <1>1, <2>1
    <3>2. 0 \in 0 .. Times(j) /\ d \in 0 .. Times(j)
      BY <1>1
    <3> QED
      BY <3>1, <3>2, UnwrittenWithin
  <2> QED
    BY <2>2, <2>3, <2>4, BeforeFacts
<1> QED
  BY <1>2, <1>3

-----------------------------------------------------------------------------
(***************************************************************************)
(* Facts of the instructions.                                              *)
(***************************************************************************)
LEMMA PathFacts ==
  ASSUME NEW i \in Ids
  PROVE  DecodedPath(i) \in LocalPaths
<1>1. PICK joining : joining = {id \in DedicatedIds :
                                  {Program[i].src[1], Program[i].dst[1]} \in DedicatedPairs[id]}
  OBVIOUS
<1>2. CASE joining = {}
  BY <1>1, <1>2 DEF DecodedPath, LocalPaths, DataPath
<1>3. CASE joining # {}
  <2>1. joining \subseteq Nat
    BY <1>1, DedicatedAssumption
  <2>2. \E id \in joining : \A other \in joining : id <= other
    BY <1>3, <2>1, LeastNatural
  <2>3. PICK id : id = CHOOSE k \in joining : \A other \in joining : k <= other
    OBVIOUS
  <2>4. id \in DedicatedIds
    BY <1>1, <2>2, <2>3
  <2>5. DecodedPath(i) = [type |-> "local_dedicated_data_path", id |-> id]
    BY <1>1, <1>3, <2>3 DEF DecodedPath
  <2> QED
    BY <2>4, <2>5 DEF LocalPaths, DataPath
<1> QED
  BY <1>2, <1>3

\* On one path, only a read of what the older one writes counts; otherwise every memory.
LEMMA ConflictFacts ==
  ASSUME NEW i \in Ids, NEW j \in Ids,
         ~ ConflictWithIns(ConflictInfo(i), ConflictInfo(j))
  PROVE  IF DecodedPath(i) = DecodedPath(j)
           THEN DstMemory(i) # SrcMemory(j)
           ELSE /\ SrcMemory(i) # SrcMemory(j) /\ SrcMemory(i) # DstMemory(j)
                /\ DstMemory(i) # SrcMemory(j) /\ DstMemory(i) # DstMemory(j)
<1>1. PathConflict(DecodedPath(j), DecodedPath(i)) <=> DecodedPath(i) = DecodedPath(j)
  BY PathFacts DEF PathConflict, LocalPaths, DataPath
<1>2. /\ ConflictInfo(i).unit = ConflictInfo(j).unit
      /\ ConflictInfo(i).path = DecodedPath(i) /\ ConflictInfo(j).path = DecodedPath(j)
      /\ ConflictInfo(i).read = {SrcMemory(i)} /\ ConflictInfo(i).write = {DstMemory(i)}
      /\ ConflictInfo(j).read = {SrcMemory(j)} /\ ConflictInfo(j).write = {DstMemory(j)}
  BY DEF ConflictInfo, SrcMemory, DstMemory
<1> QED
  BY <1>1, <1>2 DEF ConflictWithIns, Intersects, Used

LEMMA IdleFacts ==
  /\ Idle.ins = 0 /\ Idle.batch = 0 /\ Idle.at = "idle"
  /\ \A i \in Ids : i # 0 /\ i \in Nat
BY CellFacts DEF Idle

\* What the stages hold.
LEMMA StageFacts ==
  ASSUME Types, Paths, NEW p \in LocalPaths
  PROVE  /\ issue[p] # Idle => /\ issue[p] \in IssueType /\ issue[p].ins # 0
                               /\ issue[p].at \in {"batch", "wait_next_batch"}
         /\ read[p] # Idle => /\ read[p] \in ReadType /\ read[p].ins # 0
                              /\ read[p].ins \in Ids /\ read[p].batch \in Nat
                              /\ read[p].at \in {"access", "data"}
                              /\ read[p].at = "data" => read[p].data \in Cell
         /\ write[p] # Idle => write[p] \in WriteType /\ write[p].ins # 0
<1>1. issue[p] \in {Idle} \cup IssueType /\ read[p] \in {Idle} \cup ReadType
      /\ write[p] \in {Idle} \cup WriteType
  BY DEF Types
<1>2. read[p] # Idle => /\ read[p].ins \in Ids /\ read[p].batch \in Nat
                        /\ read[p].at \in {"access", "data"}
                        /\ read[p].at = "data" => read[p].data \in Cell
  BY <1>1 DEF ReadType
<1> QED
  BY <1>1, <1>2, IdleFacts DEF IssueType, WriteType

LEMMA InitLine == Init => LineInv
<1> SUFFICES ASSUME Init PROVE LineInv
  OBVIOUS
<1>1. \A p \in LocalPaths : issue[p] = Idle /\ read[p] = Idle /\ write[p] = Idle
  BY DEF Init
<1>2. Types
  BY InSequenceFacts DEF Init, Types
<1>3. Paths
  <2>1. \A p \in LocalPaths : Chain(issue[p], read[p], write[p])
    BY <1>1, IdleFacts DEF Chain
  <2> QED
    BY <1>1, <2>1 DEF Paths, OnPath, Younger
<1>4. Holds
  BY <1>1 DEF Init, Holds
<1> QED
  BY <1>2, <1>3, <1>4 DEF Init, LineInv, NoConflict, FinishedOver, Live

-----------------------------------------------------------------------------
(***************************************************************************)
(* The line, action by action.                                             *)
(***************************************************************************)
LEMMA TakeLine ==
  ASSUME LineInv, Take
  PROVE  LineInv'
<1>1. PICK i : i = next_ins
  OBVIOUS
<1>2. /\ unit = 0 /\ i \in Ids /\ ~ Stalled(i)
      /\ unit' = i /\ booked' = booked \cup {i} /\ next_ins' = i + 1
      /\ UNCHANGED <<release_list, issue, read, write, finished>>
  BY <1>1 DEF Take, stages, Ids
<1>3. i \in Nat /\ i # 0 /\ Ids = 1 .. Len(Program) /\ Len(Program) \in Nat
      /\ \A j \in Ids : j \in Nat
  BY <1>2, IdleFacts, InSequenceFacts
<1>4. \A j \in booked : j \in Ids /\ j < i
  BY <1>1 DEF LineInv, Types
<1>5. Types'
  BY <1>2, <1>3, <1>4 DEF LineInv, Types
<1>6. ASSUME NEW p \in LocalPaths
      PROVE  /\ OnPath(issue[p], p, i, i + 1) /\ OnPath(read[p], p, i, i + 1)
             /\ OnPath(write[p], p, i, i + 1)
             /\ Younger(issue[p], read[p], write[p], p, i, i + 1)
  <2>1. \A s : OnPath(s, p, unit, i) /\ (s # Idle => s.ins \in Nat) => OnPath(s, p, i, i + 1)
    BY <1>3 DEF OnPath
  <2>2. /\ issue[p] # Idle => issue[p].ins \in Nat
        /\ read[p] # Idle => read[p].ins \in Nat
        /\ write[p] # Idle => write[p].ins \in Nat
    BY <1>3, StageFacts DEF LineInv, IssueType, ReadType, WriteType
  <2>3. Younger(issue[p], read[p], write[p], p, i, i + 1)
    <3>1. Younger(issue[p], read[p], write[p], p, unit, i)
      BY <1>1 DEF LineInv, Paths
    <3>2. \A j \in Ids : j < i + 1 => j = i \/ j < i
      BY <1>3
    <3> QED
      BY <1>2, <1>3, <3>1, <3>2, IdleFacts DEF Younger
  <2> QED
    BY <1>1, <2>1, <2>2, <2>3 DEF LineInv, Paths
<1>7. Paths'
  BY <1>2, <1>6 DEF LineInv, Paths
<1>8. i \notin release_list /\ Live' = Live \cup {i}
  BY <1>2, <1>3, <1>4 DEF LineInv, Types, Live
<1>9. Holds'
  BY <1>2, <1>8 DEF LineInv, Holds
<1>10. NoConflict'
  <2> SUFFICES ASSUME NEW k \in Live', NEW j \in Ids, k < j, j < i + 1
               PROVE  ~ ConflictWithIns(ConflictInfo(k), ConflictInfo(j))
    BY <1>2 DEF NoConflict
  <2>1. k \in Live
    BY <1>2, <1>3, <1>8
  <2>2. CASE j = i
    BY <1>2, <2>1, <2>2 DEF Stalled, Live
  <2>3. CASE j # i
    <3>1. j < i
      BY <1>3, <2>3
    <3> QED
      BY <1>1, <2>1, <3>1 DEF LineInv, NoConflict
  <2> QED
    BY <2>2, <2>3
<1>11. FinishedOver'
  <2>1. \A k \in finished : k \in Ids /\ k < i /\ k # i /\ k < i + 1
    BY <1>1, <1>3 DEF LineInv, FinishedOver
  <2> QED
    BY <1>2, <2>1 DEF LineInv, FinishedOver
<1> QED
  BY <1>5, <1>7, <1>9, <1>10, <1>11 DEF LineInv

LEMMA ProcessReleaseLine ==
  ASSUME LineInv, ProcessRelease
  PROVE  LineInv'
<1>1. /\ booked' = booked \ release_list /\ release_list' = {}
      /\ UNCHANGED <<next_ins, unit, issue, read, write, finished>>
  BY DEF ProcessRelease, stages
<1>2. Live' = Live
  BY <1>1 DEF Live
<1> QED
  BY <1>1, <1>2 DEF LineInv, Types, Paths, Holds, NoConflict, FinishedOver

LEMMA HandOverLine ==
  ASSUME LineInv, HandOver
  PROVE  LineInv'
<1>1. PICK u, path : u = unit /\ path = DecodedPath(u)
  OBVIOUS
<1>2. PICK new : new = [ins |-> u, batch |-> 0, at |-> "batch"]
  OBVIOUS
<1>3. /\ u # 0 /\ issue[path] = Idle /\ issue' = [issue EXCEPT ![path] = new] /\ unit' = 0
      /\ UNCHANGED <<next_ins, booked, release_list, read, write, finished>>
  BY <1>1, <1>2 DEF HandOver
<1>4. u \in Ids /\ u \in Nat /\ u + 1 = next_ins /\ path \in LocalPaths
      /\ \A j \in Ids : j \in Nat
  BY <1>1, <1>3, PathFacts, IdleFacts DEF LineInv, Types
<1>5. new \in IssueType /\ new.ins = u /\ new.batch = 0 /\ new.at = "batch" /\ new # Idle
  BY <1>2, <1>4, IdleFacts DEF IssueType
<1>6. Types'
  BY <1>3, <1>4, <1>5 DEF LineInv, Types
<1>7. ASSUME NEW p \in LocalPaths
      PROVE  /\ OnPath(read[p], p, 0, next_ins) /\ OnPath(write[p], p, 0, next_ins)
             /\ OnPath(issue[p], p, 0, next_ins)
             /\ read[p].ins # u /\ write[p].ins # u /\ issue[p].ins # u
  BY <1>1, <1>3, StageFacts, IdleFacts DEF LineInv, Paths, OnPath
<1>8. OnPath(new, path, 0, next_ins)
  BY <1>1, <1>3, <1>4, <1>5, CellFacts DEF OnPath
<1>9. \* What is on the path is older, and complete.
      /\ read[path] # Idle => read[path].ins < u /\ LastBatch(read[path])
      /\ write[path] # Idle => write[path].ins < u
      /\ read[path] = Idle /\ write[path] # Idle => LastBatch(write[path])
  <2>1. /\ read[path] # Idle => read[path].ins \in Nat /\ read[path].ins < next_ins
        /\ write[path] # Idle => write[path].ins \in Nat /\ write[path].ins < next_ins
    BY <1>4, <1>7, StageFacts DEF LineInv, OnPath, WriteType
  <2>2. Chain(issue[path], read[path], write[path])
    BY <1>4 DEF LineInv, Paths
  <2>3. next_ins \in Nat
    BY <1>4
  <2> QED
    BY <1>3, <1>4, <1>7, <2>1, <2>2, <2>3 DEF Chain
<1>10. Chain(new, read[path], write[path])
  <2>1. Chain(issue[path], read[path], write[path])
    BY <1>4 DEF LineInv, Paths
  <2> QED
    BY <1>3, <1>4, <1>5, <1>7, <1>9, <2>1 DEF Chain, Follows
<1>11. Younger(new, read[path], write[path], path, 0, next_ins)
  <2>1. Younger(issue[path], read[path], write[path], path, u, next_ins)
    BY <1>1, <1>4 DEF LineInv, Paths
  <2>2. \A j \in Ids : j < next_ins => ~ (j > u)
    BY <1>4
  <2> QED
    BY <1>3, <1>5, <2>1, <2>2, IdleFacts DEF Younger
<1>12. ASSUME NEW p \in LocalPaths, p # path
       PROVE  Younger(issue[p], read[p], write[p], p, 0, next_ins)
  <2>1. Younger(issue[p], read[p], write[p], p, u, next_ins)
    BY <1>1 DEF LineInv, Paths
  <2> QED
    BY <1>1, <1>12, <2>1 DEF Younger
<1>13. \A p \in LocalPaths : issue'[p] = IF p = path THEN new ELSE issue[p]
  BY <1>3 DEF LineInv, Types
<1>14. Paths'
  BY <1>3, <1>7, <1>8, <1>10, <1>11, <1>12, <1>13 DEF LineInv, Paths
<1>15. Live' = Live
  BY <1>3 DEF Live
<1>16. Holds'
  BY <1>1, <1>3, <1>5, <1>13, <1>15 DEF LineInv, Holds
<1>17. NoConflict'
  BY <1>3, <1>15 DEF LineInv, NoConflict
<1>18. FinishedOver'
  <2>1. u \notin finished /\ \A i \in finished : i # 0
    BY <1>1, IdleFacts DEF LineInv, FinishedOver
  <2> QED
    BY <1>3, <1>5, <1>13, <2>1 DEF LineInv, FinishedOver
<1> QED
  BY <1>6, <1>14, <1>16, <1>17, <1>18 DEF LineInv

\* The issue stage that waits goes on to its next batch.
LEMMA NextBatchFacts ==
  ASSUME Types, Paths, NEW path \in LocalPaths
  PROVE  /\ NextBatch(path) \in [LocalPaths -> {Idle} \cup IssueType]
         /\ \A p \in LocalPaths : p # path => NextBatch(path)[p] = issue[p]
         /\ NextBatch(path)[path].ins = issue[path].ins
         /\ issue[path].at = "wait_next_batch" =>
              /\ NextBatch(path)[path].at = "batch"
              /\ NextBatch(path)[path].batch = issue[path].batch + 1
              /\ NextBatch(path)[path] # Idle
         /\ issue[path].at # "wait_next_batch" => NextBatch(path) = issue
<1>1. CASE issue[path].at # "wait_next_batch"
  BY <1>1 DEF NextBatch, Types
<1>2. CASE issue[path].at = "wait_next_batch"
  <2>1. issue[path] # Idle /\ issue[path] \in IssueType
    BY <1>2, StageFacts, IdleFacts
  <2>2. PICK b \in Nat : b = issue[path].batch + 1
    BY <2>1 DEF IssueType
  <2>3. PICK new : new = [issue[path] EXCEPT !.at = "batch", !.batch = b]
    OBVIOUS
  <2>4. /\ new \in IssueType /\ new.ins = issue[path].ins /\ new.at = "batch"
        /\ new.batch = issue[path].batch + 1 /\ new # Idle
    <3>1. /\ new \in IssueType /\ new.ins = issue[path].ins /\ new.at = "batch"
          /\ new.batch = issue[path].batch + 1
      BY <2>1, <2>2, <2>3 DEF IssueType
    <3> QED
      BY <3>1, IdleFacts
  <2>5. NextBatch(path) = [issue EXCEPT ![path] = new]
    BY <1>2, <2>2, <2>3 DEF NextBatch, Types
  <2> QED
    BY <1>2, <2>2, <2>4, <2>5 DEF Types
<1> QED
  BY <1>1, <1>2

\* Two paths hold no batch of one transfer.
LEMMA OnePath ==
  ASSUME Paths, NEW i, i # 0, NEW p \in LocalPaths, NEW q \in LocalPaths,
         issue[p].ins = i \/ read[p].ins = i \/ write[p].ins = i,
         issue[q].ins = i \/ read[q].ins = i \/ write[q].ins = i
  PROVE  p = q /\ DecodedPath(i) = p /\ i # unit /\ i < next_ins
<1>1. \A path \in LocalPaths :
        issue[path].ins = i \/ read[path].ins = i \/ write[path].ins = i
          => DecodedPath(i) = path /\ i # unit /\ i < next_ins
  BY IdleFacts DEF Paths, OnPath
<1> QED
  BY <1>1

LEMMA StartReadLine ==
  ASSUME LineInv, NEW path \in LocalPaths, StartRead(path)
  PROVE  LineInv'
<1>1. PICK s, i, b : s = issue[path] /\ i = s.ins /\ b = s.batch
  OBVIOUS
<1>2. PICK new, left :
        /\ new = [ins |-> i, batch |-> b, at |-> "access"]
        /\ left = IF LastBatch(s) THEN Idle ELSE [s EXCEPT !.at = "wait_next_batch"]
  OBVIOUS
<1>3. /\ s.at = "batch" /\ read[path] = Idle
      /\ read' = [read EXCEPT ![path] = new] /\ issue' = [issue EXCEPT ![path] = left]
      /\ UNCHANGED <<next_ins, booked, release_list, unit, write, finished>>
  BY <1>1, <1>2 DEF StartRead
<1>4. s # Idle /\ s \in IssueType /\ i \in Ids /\ b \in Nat /\ i # 0
  BY <1>1, <1>3, StageFacts, IdleFacts DEF LineInv, IssueType
<1>5. new \in ReadType /\ new # Idle /\ new.ins = i /\ new.batch = b /\ new.at = "access"
  BY <1>2, <1>4, IdleFacts DEF ReadType
<1>6. \/ left = Idle /\ LastBatch(s)
      \/ /\ left \in IssueType /\ left.ins = i /\ left.batch = b /\ left.at = "wait_next_batch"
         /\ left # Idle /\ ~ LastBatch(s)
  BY <1>1, <1>2, <1>4, IdleFacts DEF IssueType
<1>7. Types'
  BY <1>3, <1>5, <1>6 DEF LineInv, Types
<1>8. /\ \A p \in LocalPaths : issue'[p] = IF p = path THEN left ELSE issue[p]
      /\ \A p \in LocalPaths : read'[p] = IF p = path THEN new ELSE read[p]
  BY <1>3 DEF LineInv, Types
<1>9. /\ OnPath(s, path, unit, next_ins) /\ Chain(s, Idle, write[path])
      /\ Younger(s, Idle, write[path], path, unit, next_ins)
  BY <1>1, <1>3 DEF LineInv, Paths
<1>10. OnPath(new, path, unit, next_ins) /\ OnPath(left, path, unit, next_ins)
  BY <1>1, <1>4, <1>5, <1>6, <1>9 DEF OnPath
<1>11. Chain(left, new, write[path])
  BY <1>1, <1>3, <1>4, <1>5, <1>6, <1>9, IdleFacts DEF Chain, Follows, Alike, LastBatch
<1>12. Younger(left, new, write[path], path, unit, next_ins)
  BY <1>1, <1>4, <1>5, <1>6, <1>9, IdleFacts DEF Younger
<1>13. Paths'
  BY <1>3, <1>8, <1>10, <1>11, <1>12 DEF LineInv, Paths
<1>14. Live' = Live
  BY <1>3 DEF Live
<1>15. Holds'
  <2>1. i \in Live
    BY <1>1, <1>4 DEF LineInv, Holds
  <2> QED
    BY <1>3, <1>5, <1>6, <1>8, <1>14, <2>1 DEF LineInv, Holds
<1>16. NoConflict'
  BY <1>3, <1>14 DEF LineInv, NoConflict
<1>17. FinishedOver'
  <2>1. i \notin finished /\ \A j \in finished : j # 0
    BY <1>1, IdleFacts DEF LineInv, FinishedOver
  <2> QED
    BY <1>3, <1>5, <1>6, <1>8, <2>1, IdleFacts DEF LineInv, FinishedOver
<1> QED
  BY <1>7, <1>13, <1>15, <1>16, <1>17 DEF LineInv

LEMMA StartWriteLine ==
  ASSUME LineInv, NEW path \in LocalPaths, StartWrite(path)
  PROVE  LineInv'
<1>1. PICK s, r, i, b : s = issue[path] /\ r = read[path] /\ i = r.ins /\ b = r.batch
  OBVIOUS
<1>2. PICK new, left :
        /\ new = [r EXCEPT !.at = "access"]
        /\ left = issue'[path]
  OBVIOUS
<1>3. /\ r.at = "data" /\ write[path] = Idle
      /\ write' = [write EXCEPT ![path] = new] /\ read' = [read EXCEPT ![path] = Idle]
      /\ issue' = IF UsePipeline(i) /\ ~ LastBatch(r) THEN NextBatch(path) ELSE issue
      /\ release_list' = IF LastBatch(r) THEN release_list \cup {i} ELSE release_list
      /\ UNCHANGED <<next_ins, booked, unit, finished>>
  BY <1>1, <1>2 DEF StartWrite, Releases
<1>4. r # Idle /\ r \in ReadType /\ i \in Ids /\ b \in Nat /\ i # 0 /\ i \in Nat
  BY <1>1, <1>3, StageFacts, IdleFacts DEF LineInv
<1>5. new \in WriteType /\ new # Idle /\ new.ins = i /\ new.batch = b /\ new.at = "access"
  <2>1. new \in WriteType /\ new.ins = i /\ new.batch = b /\ new.at = "access"
    BY <1>1, <1>2, <1>3, <1>4 DEF ReadType, WriteType
  <2> QED
    BY <1>4, <2>1, IdleFacts
<1>6. /\ OnPath(s, path, unit, next_ins) /\ OnPath(r, path, unit, next_ins)
      /\ Chain(s, r, Idle) /\ Younger(s, r, Idle, path, unit, next_ins)
  BY <1>1, <1>3 DEF LineInv, Paths
<1>7. /\ s # Idle => s \in IssueType /\ s.ins # 0 /\ s.at \in {"batch", "wait_next_batch"}
      /\ s = Idle => s.at = "idle"
      /\ Times(i) \in Nat
  BY <1>1, <1>4, StageFacts, IdleFacts, CellFacts DEF LineInv
<1>8. \/ left = s /\ s.at # "wait_next_batch"
      \/ left = s /\ s.at = "wait_next_batch" /\ ~ UsePipeline(i)
      \/ /\ left.ins = s.ins /\ left.batch = s.batch + 1 /\ left.at = "batch" /\ left # Idle
         /\ s.at = "wait_next_batch" /\ UsePipeline(i) /\ s # Idle
  <2>1. s.at = "wait_next_batch" => ~ LastBatch(r) /\ s # Idle
    BY <1>4, <1>6, IdleFacts DEF Chain, Alike, LastBatch
  <2> QED
    BY <1>1, <1>2, <1>3, <2>1, NextBatchFacts DEF LineInv
<1>9. left.ins = s.ins /\ (left = Idle <=> s = Idle)
  BY <1>8, <1>7
<1>10. issue' \in [LocalPaths -> {Idle} \cup IssueType]
       /\ \A p \in LocalPaths : p # path => issue'[p] = issue[p]
  BY <1>3, NextBatchFacts DEF LineInv, Types
<1>11. i \in Live
  BY <1>1, <1>4 DEF LineInv, Holds
<1>12. Types'
  BY <1>3, <1>5, <1>10, <1>11 DEF LineInv, Types, Live
<1>13. /\ \A p \in LocalPaths : read'[p] = IF p = path THEN Idle ELSE read[p]
       /\ \A p \in LocalPaths : write'[p] = IF p = path THEN new ELSE write[p]
  BY <1>3 DEF LineInv, Types
<1>14. OnPath(new, path, unit, next_ins) /\ OnPath(left, path, unit, next_ins)
  <2>1. s.at = "wait_next_batch" => s.batch + 1 < Times(s.ins)
    <3> SUFFICES ASSUME s.at = "wait_next_batch" PROVE s.batch + 1 < Times(s.ins)
      OBVIOUS
    <3>1. s # Idle /\ s.batch < Times(s.ins) /\ s.batch # Times(s.ins) - 1
      BY <1>6, IdleFacts DEF Chain, OnPath, LastBatch, Times
    <3>2. s.ins \in Ids /\ s.batch \in Nat
      BY <1>7, <3>1 DEF IssueType
    <3>3. Times(s.ins) \in Nat
      BY <3>2, CellFacts
    <3> QED
      BY <3>1, <3>2, <3>3
  <2> QED
    BY <1>1, <1>4, <1>5, <1>6, <1>8, <1>9, <2>1 DEF OnPath
<1>15. Chain(left, Idle, new)
  <2>1. LastBatch(new) <=> LastBatch(r)
    BY <1>1, <1>5 DEF LastBatch
  <2>2. CASE left = s /\ s.at # "wait_next_batch"
    BY <1>1, <1>4, <1>5, <1>6, <1>7, <2>1, <2>2, IdleFacts DEF Chain, Follows
  <2>3. CASE left = s /\ s.at = "wait_next_batch" /\ ~ UsePipeline(i)
    BY <1>1, <1>4, <1>5, <1>6, <1>7, <2>3, IdleFacts DEF Chain, Alike
  <2>4. CASE /\ left.ins = s.ins /\ left.batch = s.batch + 1 /\ left.at = "batch" /\ left # Idle
             /\ s.at = "wait_next_batch" /\ UsePipeline(i) /\ s # Idle
    BY <1>1, <1>4, <1>5, <1>6, <1>7, <2>4, IdleFacts DEF Chain, Follows, Alike
  <2> QED
    BY <1>8, <2>2, <2>3, <2>4
<1>16. Younger(left, Idle, new, path, unit, next_ins)
  BY <1>1, <1>4, <1>5, <1>6, <1>9, IdleFacts DEF Younger
<1>17. Paths'
  BY <1>2, <1>3, <1>10, <1>13, <1>14, <1>15, <1>16, IdleFacts DEF LineInv, Paths, OnPath
<1>18. Live' = IF LastBatch(r) THEN Live \ {i} ELSE Live
  BY <1>3 DEF Live
<1>19. LastBatch(r) => s.ins # i
  BY <1>1, <1>4, <1>6, <1>7, IdleFacts
     DEF Chain, Follows, Alike, LastBatch, OnPath, Times, IssueType
<1>20. Holds'
  <2>1. unit # i
    BY <1>1, <1>4, <1>6 DEF OnPath
  <2>2. LastBatch(new) <=> LastBatch(r)
    BY <1>1, <1>5 DEF LastBatch
  <2>3. \A p \in LocalPaths : p # path =>
          issue[p].ins # i /\ read[p].ins # i /\ write[p].ins # i
    BY <1>1, <1>4, OnePath DEF LineInv
  <2>4. unit' # 0 => unit' \in Live'
    BY <1>3, <1>18, <2>1 DEF LineInv, Holds
  <2>5. ASSUME NEW p \in LocalPaths, p # path
        PROVE  /\ issue'[p] # Idle => issue'[p].ins \in Live'
               /\ read'[p] # Idle => read'[p].ins \in Live'
               /\ write'[p] # Idle /\ ~ LastBatch(write'[p]) => write'[p].ins \in Live'
    BY <1>10, <1>13, <1>18, <2>3, <2>5 DEF LineInv, Holds
  <2>6. issue'[path] # Idle => issue'[path].ins \in Live'
    BY <1>1, <1>2, <1>9, <1>18, <1>19 DEF LineInv, Holds
  <2>7. /\ read'[path] = Idle
        /\ write'[path] # Idle /\ ~ LastBatch(write'[path]) => write'[path].ins \in Live'
    BY <1>5, <1>11, <1>13, <1>18, <2>2
  <2> QED
    BY <2>4, <2>5, <2>6, <2>7 DEF Holds
<1>21. NoConflict'
  BY <1>3, <1>18 DEF LineInv, NoConflict
<1>22. FinishedOver'
  <2>1. i \notin finished /\ \A j \in finished : j # 0
    BY <1>1, IdleFacts DEF LineInv, FinishedOver
  <2>2. \A p \in LocalPaths : issue'[p].ins = issue[p].ins
    BY <1>1, <1>2, <1>9, <1>10
  <2> QED
    BY <1>3, <1>5, <1>13, <2>1, <2>2, IdleFacts DEF LineInv, FinishedOver
<1> QED
  BY <1>12, <1>17, <1>20, <1>21, <1>22 DEF LineInv

LEMMA EndWriteLine ==
  ASSUME LineInv, NEW path \in LocalPaths, EndWrite(path)
  PROVE  LineInv'
<1>1. PICK s, r, w, i : s = issue[path] /\ r = read[path] /\ w = write[path] /\ i = w.ins
  OBVIOUS
<1>2. PICK left : left = issue'[path]
  OBVIOUS
<1>3. /\ w.at = "written"
      /\ write' = [write EXCEPT ![path] = Idle]
      /\ issue' = IF EndsBatch(w) THEN NextBatch(path) ELSE issue
      /\ finished' = IF LastBatch(w) THEN finished \cup {i} ELSE finished
      /\ UNCHANGED <<next_ins, booked, release_list, unit, read>>
  BY <1>1 DEF EndWrite
<1>4. w # Idle /\ w \in WriteType /\ i \in Ids /\ w.batch \in Nat /\ i # 0 /\ i \in Nat
      /\ Times(i) \in Nat
  BY <1>1, <1>3, StageFacts, IdleFacts, CellFacts DEF LineInv, WriteType
<1>5. /\ OnPath(s, path, unit, next_ins) /\ OnPath(r, path, unit, next_ins)
      /\ OnPath(w, path, unit, next_ins)
      /\ Chain(s, r, w) /\ Younger(s, r, w, path, unit, next_ins)
  BY <1>1 DEF LineInv, Paths
<1>6. /\ s # Idle => /\ s \in IssueType /\ s.ins # 0 /\ s.at \in {"batch", "wait_next_batch"}
                     /\ s.ins \in Ids /\ s.ins \in Nat /\ s.batch \in Nat
      /\ s = Idle => s.at = "idle"
      /\ r # Idle => r.ins \in Nat /\ r.batch \in Nat /\ r.ins # 0
  BY <1>1, StageFacts, IdleFacts DEF LineInv, IssueType
<1>7. \* The issue stage waits for the write stage if no read stage stands between.
      \/ left = s /\ s.at # "wait_next_batch"
      \/ left = s /\ s.at = "wait_next_batch" /\ r # Idle
      \/ /\ left.ins = s.ins /\ left.batch = s.batch + 1 /\ left.at = "batch" /\ left # Idle
         /\ s.at = "wait_next_batch" /\ r = Idle /\ s # Idle
  <2>1. CASE s.at # "wait_next_batch"
    BY <1>1, <1>2, <1>3, <2>1, NextBatchFacts DEF LineInv
  <2>2. CASE s.at = "wait_next_batch" /\ r = Idle
    <3>1. EndsBatch(w) /\ s # Idle
      BY <1>5, <2>2, IdleFacts DEF Chain, Alike, LastBatch, EndsBatch
    <3> QED
      BY <1>1, <1>2, <1>3, <2>2, <3>1, NextBatchFacts DEF LineInv
  <2>3. CASE s.at = "wait_next_batch" /\ r # Idle
    <3>1. ~ EndsBatch(w)
      <4>1. Follows(r, w) /\ (~ UsePipeline(r.ins) => w.ins # r.ins)
        BY <1>4, <1>5, <2>3 DEF Chain
      <4> QED
        BY <4>1 DEF Follows, EndsBatch
    <3> QED
      BY <1>1, <1>2, <1>3, <2>3, <3>1
  <2> QED
    BY <2>1, <2>2, <2>3
<1>8. left.ins = s.ins /\ (left = Idle <=> s = Idle)
  BY <1>7
<1>9. issue' \in [LocalPaths -> {Idle} \cup IssueType]
      /\ \A p \in LocalPaths : p # path => issue'[p] = issue[p]
  BY <1>3, NextBatchFacts DEF LineInv, Types
<1>10. Types'
  BY <1>3, <1>9 DEF LineInv, Types
<1>11. \A p \in LocalPaths : write'[p] = IF p = path THEN Idle ELSE write[p]
  BY <1>3 DEF LineInv, Types
<1>12. OnPath(left, path, unit, next_ins)
  <2>1. s.at = "wait_next_batch" => s.batch + 1 < Times(s.ins)
    <3> SUFFICES ASSUME s.at = "wait_next_batch" PROVE s.batch + 1 < Times(s.ins)
      OBVIOUS
    <3>1. s # Idle /\ s.batch < Times(s.ins) /\ s.batch # Times(s.ins) - 1
      BY <1>5, IdleFacts DEF Chain, OnPath, LastBatch, Times
    <3>2. s.ins \in Ids /\ s.batch \in Nat
      BY <1>6, <3>1
    <3>3. Times(s.ins) \in Nat
      BY <3>2, CellFacts
    <3> QED
      BY <3>1, <3>2, <3>3
  <2> QED
    BY <1>5, <1>7, <1>8, <2>1 DEF OnPath
<1>13. Chain(left, r, Idle)
  <2>1. CASE left = s /\ s.at # "wait_next_batch"
    BY <1>5, <1>6, <2>1, IdleFacts DEF Chain, Follows
  <2>2. CASE left = s /\ s.at = "wait_next_batch" /\ r # Idle
    BY <1>5, <1>6, <2>2, IdleFacts DEF Chain, Alike
  <2>3. CASE /\ left.ins = s.ins /\ left.batch = s.batch + 1 /\ left.at = "batch" /\ left # Idle
             /\ s.at = "wait_next_batch" /\ r = Idle /\ s # Idle
    BY <1>5, <1>6, <2>3, IdleFacts DEF Chain
  <2> QED
    BY <1>7, <2>1, <2>2, <2>3
<1>14. Younger(left, r, Idle, path, unit, next_ins)
  BY <1>5, <1>8 DEF Younger
<1>15. Paths'
  BY <1>1, <1>2, <1>3, <1>9, <1>11, <1>12, <1>13, <1>14 DEF LineInv, Paths, OnPath
<1>16. Live' = Live
  BY <1>3 DEF Live
<1>17. Holds'
  <2>1. unit' # 0 => unit' \in Live'
    BY <1>3, <1>16 DEF LineInv, Holds
  <2>2. ASSUME NEW p \in LocalPaths
        PROVE  /\ issue'[p] # Idle => issue'[p].ins \in Live'
               /\ read'[p] # Idle => read'[p].ins \in Live'
               /\ write'[p] # Idle /\ ~ LastBatch(write'[p]) => write'[p].ins \in Live'
    BY <1>1, <1>2, <1>3, <1>8, <1>9, <1>11, <1>16 DEF LineInv, Holds
  <2> QED
    BY <2>1, <2>2 DEF Holds
<1>18. NoConflict'
  BY <1>3, <1>16 DEF LineInv, NoConflict
<1>19. LastBatch(w) => r.ins # i /\ s.ins # i
  <2> SUFFICES ASSUME w.batch = Times(i) - 1 PROVE r.ins # i /\ s.ins # i
    BY <1>1 DEF LastBatch, Times
  <2>1. r.ins # i
    <3> SUFFICES ASSUME r.ins = i PROVE FALSE
      OBVIOUS
    <3>1. r # Idle /\ r.batch < Times(i)
      BY <1>4, <1>5, IdleFacts DEF OnPath
    <3>2. r.batch = w.batch + 1
      BY <1>1, <1>4, <1>5, <3>1 DEF Chain, Follows
    <3> QED
      BY <1>4, <1>6, <3>1, <3>2
  <2>2. s.ins # i
    <3> SUFFICES ASSUME s.ins = i PROVE FALSE
      OBVIOUS
    <3>1. s # Idle /\ s.batch < Times(i)
      BY <1>4, <1>5, IdleFacts DEF OnPath
    <3>2. CASE s.at = "batch" /\ r # Idle
      <4>1. r.ins < i
        BY <1>5, <2>1, <3>2 DEF Chain, Follows
      <4>2. i < r.ins
        BY <1>1, <1>4, <1>5, <2>1, <3>2 DEF Chain, Follows
      <4> QED
        BY <1>4, <1>6, <3>2, <4>1, <4>2
    <3>3. CASE s.at = "batch" /\ r = Idle
      <4>1. s.batch = w.batch + 1
        BY <1>1, <1>4, <1>5, <3>3 DEF Chain, Follows
      <4> QED
        BY <1>4, <1>6, <3>1, <4>1
    <3>4. CASE s.at = "wait_next_batch"
      BY <1>1, <1>4, <1>5, <2>1, <3>4 DEF Chain, Alike, LastBatch, Times
    <3> QED
      BY <1>6, <3>1, <3>2, <3>3, <3>4
  <2> QED
    BY <2>1, <2>2
<1>20. FinishedOver'
  <2>1. \A p \in LocalPaths : issue'[p].ins = issue[p].ins
    BY <1>1, <1>2, <1>8, <1>9
  <2>2. \A j \in finished : j # 0
    BY IdleFacts DEF LineInv, FinishedOver
  <2>3. i < next_ins /\ i # unit
    BY <1>1, <1>4, <1>5 DEF OnPath
  <2>4. \A p \in LocalPaths : p # path =>
          issue[p].ins # i /\ read[p].ins # i /\ write[p].ins # i
    BY <1>1, <1>4, OnePath DEF LineInv
  <2>5. ASSUME NEW j \in finished'
        PROVE  j \in Ids /\ j < next_ins /\ j # unit /\ j # 0
               /\ \A p \in LocalPaths :
                    /\ issue[p].ins # j /\ read[p].ins # j
                    /\ p # path => write[p].ins # j
    <3>1. CASE j \in finished
      BY <2>2, <3>1 DEF LineInv, FinishedOver
    <3>2. CASE j = i /\ LastBatch(w)
      BY <1>1, <1>4, <1>19, <2>3, <2>4, <3>2
    <3> QED
      BY <1>3, <3>1, <3>2
  <2> QED
    BY <1>3, <1>11, <2>1, <2>5, IdleFacts DEF FinishedOver
<1> QED
  BY <1>10, <1>15, <1>17, <1>18, <1>20 DEF LineInv

LEMMA ServeLine ==
  ASSUME LineInv, NEW m \in Memories, Serve(m)
  PROVE  LineInv'
<1>1. UNCHANGED <<next_ins, booked, release_list, unit, issue, read, write, finished>>
  BY DEF Serve, stages
<1>2. Live' = Live
  BY <1>1 DEF Live
<1> QED
  BY <1>1, <1>2 DEF LineInv, Types, Paths, Holds, NoConflict, FinishedOver

\* What ends an access to memory does to the stage that asked.
LEMMA FinishAccessFacts ==
  ASSUME LineInv, MemoryInv, NEW m \in Memories, FinishAccess(m),
         NEW q, q = serving[m].path
  PROVE  /\ q \in LocalPaths /\ serving[m] \in Service
         /\ serving' = [serving EXCEPT ![m] = NoAccess]
         /\ UNCHANGED <<next_ins, booked, release_list, unit, issue, access_queue, data_,
                        finished>>
         /\ \/ /\ serving[m].type = "read" /\ read[q].at = "access" /\ write' = write
               /\ read[q] # Idle /\ serving[m].data \in Cell
               /\ \E new \in ReadType :
                    /\ new.ins = read[q].ins /\ new.batch = read[q].batch /\ new.at = "data"
                    /\ new.data = serving[m].data /\ new # Idle
                    /\ read' = [read EXCEPT ![q] = new]
                    /\ \A p \in LocalPaths : read'[p] = IF p = q THEN new ELSE read[p]
            \/ /\ serving[m].type = "write" /\ write[q].at = "access" /\ read' = read
               /\ write[q] # Idle
               /\ \E new \in WriteType :
                    /\ new.ins = write[q].ins /\ new.batch = write[q].batch
                    /\ new.at = "written" /\ new.data = write[q].data /\ new # Idle
                    /\ write' = [write EXCEPT ![q] = new]
                    /\ \A p \in LocalPaths : write'[p] = IF p = q THEN new ELSE write[p]
<1>1. /\ serving[m] # NoAccess /\ serving' = [serving EXCEPT ![m] = NoAccess]
      /\ UNCHANGED <<next_ins, booked, release_list, unit, issue, access_queue, data_, finished>>
  BY DEF FinishAccess
<1>2. serving[m] \in Service
  BY <1>1 DEF MemoryInv, Services
<1>3. q \in LocalPaths /\ serving[m].type \in {"read", "write"}
      /\ (serving[m].type = "read" => serving[m].data \in Cell)
  BY <1>2 DEF Service
<1>4. Holder(serving[m]).at = "access"
  BY <1>1 DEF MemoryInv, Services
<1>5. CASE serving[m].type = "read"
  <2>1. PICK new : new = [ins |-> read[q].ins, batch |-> read[q].batch, at |-> "data",
                          data |-> serving[m].data]
    OBVIOUS
  <2>2. read[q].at = "access"
    BY <1>4, <1>5 DEF Holder
  <2>3. read[q] # Idle /\ read[q].ins \in Ids /\ read[q].batch \in Nat /\ read[q].ins # 0
    BY <1>3, <2>2, StageFacts, IdleFacts DEF LineInv
  <2>4. new \in ReadType /\ new.ins = read[q].ins /\ new.batch = read[q].batch
        /\ new.at = "data" /\ new.data = serving[m].data
    BY <1>3, <1>5, <2>1, <2>3 DEF ReadType
  <2>5. read' = [read EXCEPT ![q] = new] /\ write' = write
    BY <1>5, <2>1 DEF FinishAccess, LineInv, Types
  <2>6. \A p \in LocalPaths : read'[p] = IF p = q THEN new ELSE read[p]
    BY <2>5 DEF LineInv, Types
  <2>7. new # Idle
    BY <2>3, <2>4, IdleFacts
  <2> QED
    BY <1>1, <1>2, <1>3, <1>5, <2>2, <2>3, <2>4, <2>5, <2>6, <2>7
<1>6. CASE serving[m].type = "write"
  <2>1. PICK new : new = [write[q] EXCEPT !.at = "written"]
    OBVIOUS
  <2>2. write[q].at = "access"
    BY <1>4, <1>6 DEF Holder
  <2>3. write[q] # Idle /\ write[q] \in WriteType /\ write[q].ins # 0
    BY <1>3, <2>2, StageFacts, IdleFacts DEF LineInv
  <2>4. new \in WriteType /\ new.ins = write[q].ins /\ new.batch = write[q].batch
        /\ new.at = "written" /\ new.data = write[q].data
    BY <2>1, <2>3 DEF WriteType
  <2>5. write' = [write EXCEPT ![q] = new] /\ read' = read
    BY <1>6, <2>1 DEF FinishAccess, LineInv, Types
  <2>6. \A p \in LocalPaths : write'[p] = IF p = q THEN new ELSE write[p]
    BY <2>5 DEF LineInv, Types
  <2>7. new # Idle
    BY <2>3, <2>4, IdleFacts
  <2> QED
    BY <1>1, <1>2, <1>3, <1>6, <2>2, <2>3, <2>4, <2>5, <2>6, <2>7
<1> QED
  BY <1>3, <1>5, <1>6

LEMMA FinishAccessLine ==
  ASSUME LineInv, MemoryInv, NEW m \in Memories, FinishAccess(m)
  PROVE  LineInv'
<1>1. PICK q : q = serving[m].path
  OBVIOUS
<1>2. UNCHANGED <<next_ins, booked, release_list, unit, issue, finished>> /\ q \in LocalPaths
  BY <1>1, FinishAccessFacts
<1>3. Live' = Live
  BY <1>2 DEF Live
<1>4. CASE write' = write /\ \E new \in ReadType :
             /\ new.ins = read[q].ins /\ new.batch = read[q].batch
             /\ new # Idle /\ read[q] # Idle
             /\ read' = [read EXCEPT ![q] = new]
             /\ \A p \in LocalPaths : read'[p] = IF p = q THEN new ELSE read[p]
  <2>1. PICK new \in ReadType :
             /\ new.ins = read[q].ins /\ new.batch = read[q].batch
             /\ new # Idle /\ read[q] # Idle
             /\ read' = [read EXCEPT ![q] = new]
             /\ \A p \in LocalPaths : read'[p] = IF p = q THEN new ELSE read[p]
    BY <1>4
  <2>2. Types'
    BY <1>2, <1>4, <2>1 DEF LineInv, Types
  <2>3. LastBatch(new) <=> LastBatch(read[q])
    BY <2>1 DEF LastBatch
  <2>4. /\ OnPath(new, q, unit, next_ins)
        /\ Chain(issue[q], new, write[q])
        /\ Younger(issue[q], new, write[q], q, unit, next_ins)
    BY <1>2, <2>1, <2>3 DEF LineInv, Paths, OnPath, Chain, Follows, Alike, Younger
  <2>5. Paths'
    BY <1>2, <1>4, <2>1, <2>4 DEF LineInv, Paths
  <2>6. Holds'
    BY <1>2, <1>3, <1>4, <2>1 DEF LineInv, Holds
  <2>7. FinishedOver'
    BY <1>2, <1>4, <2>1 DEF LineInv, FinishedOver
  <2> QED
    BY <1>2, <1>3, <2>2, <2>5, <2>6, <2>7 DEF LineInv, NoConflict
<1>5. CASE read' = read /\ \E new \in WriteType :
             /\ new.ins = write[q].ins /\ new.batch = write[q].batch
             /\ new # Idle /\ write[q] # Idle
             /\ write' = [write EXCEPT ![q] = new]
             /\ \A p \in LocalPaths : write'[p] = IF p = q THEN new ELSE write[p]
  <2>1. PICK new \in WriteType :
             /\ new.ins = write[q].ins /\ new.batch = write[q].batch
             /\ new # Idle /\ write[q] # Idle
             /\ write' = [write EXCEPT ![q] = new]
             /\ \A p \in LocalPaths : write'[p] = IF p = q THEN new ELSE write[p]
    BY <1>5
  <2>2. Types'
    BY <1>2, <1>5, <2>1 DEF LineInv, Types
  <2>3. LastBatch(new) <=> LastBatch(write[q])
    BY <2>1 DEF LastBatch
  <2>4. /\ OnPath(new, q, unit, next_ins)
        /\ Chain(issue[q], read[q], new)
        /\ Younger(issue[q], read[q], new, q, unit, next_ins)
    BY <1>2, <2>1, <2>3 DEF LineInv, Paths, OnPath, Chain, Follows, Alike, Younger
  <2>5. Paths'
    BY <1>2, <1>5, <2>1, <2>4 DEF LineInv, Paths
  <2>6. Holds'
    BY <1>2, <1>3, <1>5, <2>1, <2>3 DEF LineInv, Holds
  <2>7. FinishedOver'
    BY <1>2, <1>5, <2>1 DEF LineInv, FinishedOver
  <2> QED
    BY <1>2, <1>3, <2>2, <2>5, <2>6, <2>7 DEF LineInv, NoConflict
<1> QED
  BY <1>1, <1>4, <1>5, FinishAccessFacts

LEMMA NextLine ==
  ASSUME LineInv, MemoryInv, [Next]_vars
  PROVE  LineInv'
<1>1. CASE UNCHANGED vars
  BY <1>1 DEF vars, stages, LineInv, Types, Paths, Live, Holds, NoConflict, FinishedOver
<1>2. CASE Next
  BY <1>2, TakeLine, HandOverLine, ProcessReleaseLine, StartReadLine, StartWriteLine,
     EndWriteLine, ServeLine, FinishAccessLine DEF Next, Path, MemoryProcess
<1> QED
  BY <1>1, <1>2

-----------------------------------------------------------------------------
(***************************************************************************)
(* The memories, action by action.                                         *)
(***************************************************************************)
LEMMA HolderFacts ==
  ASSUME LineInv, NEW a \in Request \cup Service, Holder(a).at = "access"
  PROVE  /\ a.path \in LocalPaths /\ a.type \in {"read", "write"}
         /\ Holder(a) # Idle /\ Holder(a).ins \in Ids /\ Holder(a).ins \in Nat
         /\ Holder(a).ins # 0 /\ Holder(a).ins < next_ins
         /\ DecodedPath(Holder(a).ins) = a.path
         /\ Holder(a).batch \in Nat /\ Holder(a).batch \in 0 .. Times(Holder(a).ins) - 1
<1>1. PICK q, stage : q = a.path /\ stage = Holder(a)
  OBVIOUS
<1>2. q \in LocalPaths /\ a.type \in {"read", "write"}
  BY <1>1 DEF Request, Service
<1>3. stage = read[q] \/ stage = write[q]
  BY <1>1 DEF Holder
<1>4. stage # Idle
  BY <1>1, IdleFacts
<1>5. OnPath(stage, q, unit, next_ins)
  BY <1>2, <1>3 DEF LineInv, Paths
<1>6. stage.ins \in Ids /\ stage.batch \in Nat /\ stage.ins # 0 /\ stage.ins \in Nat
  BY <1>2, <1>3, <1>4, StageFacts, IdleFacts DEF LineInv, WriteType
<1>7. stage.batch \in 0 .. Times(stage.ins) - 1
  BY <1>4, <1>5, <1>6, CellFacts DEF OnPath
<1> QED
  BY <1>1, <1>2, <1>4, <1>5, <1>6, <1>7 DEF OnPath

LEMMA RequestFacts ==
  ASSUME LineInv, MemoryInv, NEW m \in Memories, NEW k \in 1 .. Len(access_queue[m]),
         NEW a, a = access_queue[m][k]
  PROVE  /\ a \in Request /\ Holder(a).at = "access" /\ a.cell \in Cell /\ a.cell[1] = m
         /\ a.type = "read" => /\ m = SrcMemory(Holder(a).ins)
                               /\ a.cell = Src(Holder(a).ins, Holder(a).batch)
         /\ a.type = "write" => /\ m = DstMemory(Holder(a).ins)
                                /\ a.cell = Dst(Holder(a).ins, Holder(a).batch)
                                /\ a.data = Holder(a).data
<1>1. access_queue[m] \in Seq(Request)
  BY DEF MemoryInv, Requests
<1>2. a \in Request
  BY <1>1
<1>3. /\ Holder(a).at = "access"
      /\ a.cell = IF a.type = "read" THEN Src(Holder(a).ins, Holder(a).batch)
                                     ELSE Dst(Holder(a).ins, Holder(a).batch)
      /\ a.cell[1] = m /\ (a.type = "write" => a.data = Holder(a).data)
  BY DEF MemoryInv, Requests
<1>4. /\ SrcMemory(Holder(a).ins) = Src(Holder(a).ins, Holder(a).batch)[1]
      /\ DstMemory(Holder(a).ins) = Dst(Holder(a).ins, Holder(a).batch)[1]
  BY DEF Src, Dst, SrcMemory, DstMemory
<1>5. a.cell \in Cell
  BY <1>2 DEF Request
<1> QED
  BY <1>2, <1>3, <1>4, <1>5

LEMMA ServiceFacts ==
  ASSUME MemoryInv, NEW m \in Memories, serving[m] # NoAccess
  PROVE  /\ serving[m] \in Service /\ Holder(serving[m]).at = "access"
         /\ serving[m].type = "read" => m = SrcMemory(Holder(serving[m]).ins)
         /\ serving[m].type = "write" => m = DstMemory(Holder(serving[m]).ins)
BY DEF MemoryInv, Services

LEMMA InitMemory == Init => MemoryInv
<1> SUFFICES ASSUME Init PROVE MemoryInv
  OBVIOUS
<1>1. /\ access_queue = [m \in Memories |-> <<>>]
      /\ serving = [m \in Memories |-> NoAccess]
  BY DEF Init
<1>2. access_queue \in [Memories -> Seq(Request)] /\ \A m \in Memories : Len(access_queue[m]) = 0
  BY <1>1
<1>3. ASSUME NEW m \in Memories, NEW k \in 1 .. Len(access_queue[m])
      PROVE  FALSE
  <2>1. Len(access_queue[m]) = 0
    BY <1>2
  <2> QED
    BY <2>1
<1> QED
  BY <1>1, <1>2, <1>3 DEF MemoryInv, Requests, Services, QueueInOrder

\* Nothing happens to the accesses and to the stages that asked for them.
LEMMA MemoryUnchanged ==
  ASSUME MemoryInv, access_queue' = access_queue, serving' = serving,
         \A a \in Request \cup Service : Holder(a).at = "access" => Holder(a)' = Holder(a)
  PROVE  MemoryInv'
<1>1. ASSUME NEW m \in Memories, NEW k \in 1 .. Len(access_queue[m])
      PROVE  /\ Holder(access_queue[m][k])' = Holder(access_queue[m][k])
             /\ access_queue[m][k] \in Request
  <2>1. PICK a : a = access_queue[m][k]
    OBVIOUS
  <2>2. a \in Request /\ Holder(a).at = "access"
    BY <2>1 DEF MemoryInv, Requests
  <2>3. Holder(access_queue[m][k])' = Holder(a)'
    BY <2>1 DEF Holder
  <2> QED
    BY <2>1, <2>2, <2>3
<1>2. ASSUME NEW m \in Memories, serving[m] # NoAccess
      PROVE  Holder(serving[m])' = Holder(serving[m])
  <2>1. PICK a : a = serving[m]
    OBVIOUS
  <2>2. a \in Service /\ Holder(a).at = "access"
    BY <1>2, <2>1 DEF MemoryInv, Services
  <2>3. Holder(serving[m])' = Holder(a)'
    BY <2>1 DEF Holder
  <2> QED
    BY <2>1, <2>2, <2>3
<1>3. Requests'
  BY <1>1 DEF MemoryInv, Requests
<1>4. Services'
  BY <1>2 DEF MemoryInv, Services
<1>5. QueueInOrder'
  BY <1>1, <1>2 DEF MemoryInv, QueueInOrder
<1> QED
  BY <1>3, <1>4, <1>5 DEF MemoryInv

\* A transfer that holds resources meets only older ones of other paths in its memories.
LEMMA EarlierOnOtherPath ==
  ASSUME LineInv, NEW i \in Ids, i \in Live, i < next_ins, NEW a \in Request \cup Service,
         Holder(a).at = "access", a.path # DecodedPath(i),
         NEW m \in {SrcMemory(i), DstMemory(i)},
         m \in {SrcMemory(Holder(a).ins), DstMemory(Holder(a).ins)}
  PROVE  Holder(a).ins < i
<1>1. PICK j : j = Holder(a).ins
  OBVIOUS
<1>2. j \in Ids /\ j \in Nat /\ j < next_ins /\ DecodedPath(j) = a.path
  BY <1>1, HolderFacts
<1>3. i \in Nat /\ j # i
  BY <1>2, CellFacts
<1>4. ~ (i < j)
  <2> SUFFICES ASSUME i < j PROVE FALSE
    OBVIOUS
  <2>1. ~ ConflictWithIns(ConflictInfo(i), ConflictInfo(j))
    BY <1>2 DEF LineInv, NoConflict
  <2> QED
    BY <1>1, <1>2, <2>1, ConflictFacts
<1> QED
  BY <1>1, <1>2, <1>3, <1>4

\* An access that is younger than those before it comes last.
LEMMA AccessMemory ==
  ASSUME MemoryInv, NEW m \in Memories, NEW request \in Request,
         access_queue' = [access_queue EXCEPT ![m] = Append(@, request)],
         serving' = serving,
         \A a \in Request \cup Service : Holder(a).at = "access" => Holder(a)' = Holder(a),
         NEW stage, Holder(request)' = stage, stage.at = "access",
         request.cell = IF request.type = "read" THEN Src(stage.ins, stage.batch)
                                                 ELSE Dst(stage.ins, stage.batch),
         request.cell[1] = m, request.type = "write" => request.data = stage.data,
         serving[m] # NoAccess => Earlier(Holder(serving[m]), stage),
         \A k \in 1 .. Len(access_queue[m]) : Earlier(Holder(access_queue[m][k]), stage)
  PROVE  MemoryInv'
<1>1. PICK old, new : old = access_queue[m] /\ new = Append(old, request)
  OBVIOUS
<1>2. old \in Seq(Request) /\ Len(old) \in Nat
  BY <1>1 DEF MemoryInv, Requests
<1>3. /\ new \in Seq(Request) /\ Len(new) = Len(old) + 1
      /\ new[Len(old) + 1] = request
      /\ \A k \in 1 .. Len(old) : new[k] = old[k] /\ k \in 1 .. Len(new)
      /\ \A k \in 1 .. Len(new) : k \in 1 .. Len(old) \/ k = Len(old) + 1
  BY <1>1, <1>2
<1>4. access_queue' = [access_queue EXCEPT ![m] = new]
  BY <1>1
<1>5. \A n \in Memories : access_queue'[n] = IF n = m THEN new ELSE access_queue[n]
  BY <1>4 DEF MemoryInv
<1>6. access_queue' \in [Memories -> Seq(Request)]
  BY <1>3, <1>4 DEF MemoryInv
<1>7. ASSUME NEW n \in Memories, NEW k \in 1 .. Len(access_queue[n])
      PROVE  /\ access_queue'[n][k] = access_queue[n][k] /\ k \in 1 .. Len(access_queue'[n])
             /\ Holder(access_queue[n][k])' = Holder(access_queue[n][k])
  <2>1. access_queue'[n][k] = access_queue[n][k] /\ k \in 1 .. Len(access_queue'[n])
    BY <1>1, <1>3, <1>5
  <2>2. PICK a : a = access_queue[n][k]
    OBVIOUS
  <2>3. a \in Request /\ Holder(a).at = "access"
    BY <2>2 DEF MemoryInv, Requests
  <2>4. Holder(access_queue[n][k])' = Holder(a)'
    BY <2>1, <2>2 DEF Holder
  <2> QED
    BY <2>1, <2>2, <2>3, <2>4
<1>8. PICK last : last = Len(old) + 1
  OBVIOUS
<1>9. /\ access_queue'[m][last] = request /\ last \in 1 .. Len(access_queue'[m])
      /\ Holder(access_queue[m][last])' = stage
  <2>1. access_queue'[m][last] = request /\ last \in 1 .. Len(access_queue'[m])
    <3>1. access_queue'[m] = new
      BY <1>5
    <3>2. new[last] = request
      BY <1>3, <1>8
    <3>3. last \in 1 .. Len(new)
      BY <1>2, <1>3, <1>8
    <3> QED
      BY <3>1, <3>2, <3>3
  <2>2. Holder(access_queue[m][last])' = Holder(request)'
    BY <2>1 DEF Holder
  <2> QED
    BY <2>1, <2>2
<1>10. \A n \in Memories : \A k \in 1 .. Len(access_queue'[n]) :
         \/ k \in 1 .. Len(access_queue[n])
         \/ n = m /\ k = last
  BY <1>1, <1>3, <1>5, <1>8
<1>11. ASSUME NEW n \in Memories, serving[n] # NoAccess
       PROVE  Holder(serving[n])' = Holder(serving[n])
  <2>1. PICK a : a = serving[n]
    OBVIOUS
  <2>2. a \in Service /\ Holder(a).at = "access"
    BY <1>11, <2>1 DEF MemoryInv, Services
  <2>3. Holder(serving[n])' = Holder(a)'
    BY <2>1 DEF Holder
  <2> QED
    BY <2>1, <2>2, <2>3
<1>12. Requests'
  <2> SUFFICES ASSUME NEW n \in Memories, NEW k \in 1 .. Len(access_queue'[n])
               PROVE  /\ Holder(access_queue[n][k])'.at = "access"
                      /\ access_queue'[n][k].cell =
                           IF access_queue'[n][k].type = "read"
                             THEN Src(Holder(access_queue[n][k])'.ins,
                                      Holder(access_queue[n][k])'.batch)
                             ELSE Dst(Holder(access_queue[n][k])'.ins,
                                      Holder(access_queue[n][k])'.batch)
                      /\ access_queue'[n][k].cell[1] = n
                      /\ access_queue'[n][k].type = "write" =>
                           access_queue'[n][k].data = Holder(access_queue[n][k])'.data
    BY <1>6 DEF Requests
  <2>1. CASE k \in 1 .. Len(access_queue[n])
    BY <1>7, <2>1 DEF MemoryInv, Requests
  <2>2. CASE n = m /\ k = last
    BY <1>9, <2>2
  <2> QED
    BY <1>10, <2>1, <2>2
<1>13. Services'
  BY <1>11 DEF MemoryInv, Services
<1>14. QueueInOrder'
  <2>1. ASSUME NEW n \in Memories, NEW k \in 1 .. Len(access_queue'[n]), serving[n] # NoAccess
        PROVE  Earlier(Holder(serving[n])', Holder(access_queue[n][k])')
    <3>1. CASE k \in 1 .. Len(access_queue[n])
      BY <1>7, <1>11, <2>1, <3>1 DEF MemoryInv, QueueInOrder
    <3>2. CASE n = m /\ k = last
      BY <1>9, <1>11, <2>1, <3>2
    <3> QED
      BY <1>10, <3>1, <3>2
  <2>2. ASSUME NEW n \in Memories, NEW k \in 1 .. Len(access_queue'[n]),
               NEW l \in 1 .. Len(access_queue'[n]), k < l
        PROVE  Earlier(Holder(access_queue[n][k])', Holder(access_queue[n][l])')
    <3>1. CASE l \in 1 .. Len(access_queue[n])
      <4>1. k \in 1 .. Len(access_queue[n])
        <5>1. access_queue[n] \in Seq(Request)
          BY DEF MemoryInv, Requests
        <5>2. k \in Nat /\ k >= 1 /\ k < Len(access_queue[n])
          BY <1>6, <2>2, <3>1, <5>1
        <5> QED
          BY <5>1, <5>2
      <4> QED
        BY <1>7, <2>2, <3>1, <4>1 DEF MemoryInv, QueueInOrder
    <3>2. CASE n = m /\ l = last
      <4>1. k # last
        BY <1>2, <1>8, <2>2, <3>2
      <4>2. k \in 1 .. Len(access_queue[n])
        BY <1>10, <4>1
      <4> QED
        BY <1>7, <1>9, <3>2, <4>2
    <3> QED
      BY <1>10, <3>1, <3>2
  <2> QED
    BY <2>1, <2>2 DEF QueueInOrder
<1>15. access_queue' \in [Memories -> Seq(Request)] /\ serving' \in [Memories -> {NoAccess} \cup Service]
  BY <1>6 DEF MemoryInv
<1> QED
  BY <1>12, <1>13, <1>14, <1>15 DEF MemoryInv

\* Stages that are not at their access may change.
LEMMA HolderUnchanged ==
  ASSUME \A p \in LocalPaths : read[p].at = "access" => read'[p] = read[p],
         \A p \in LocalPaths : write[p].at = "access" => write'[p] = write[p],
         NEW a \in Request \cup Service, Holder(a).at = "access"
  PROVE  Holder(a)' = Holder(a)
<1>1. a.path \in LocalPaths
  BY DEF Request, Service
<1>2. CASE a.type = "read"
  BY <1>1, <1>2 DEF Holder
<1>3. CASE a.type # "read"
  BY <1>1, <1>3 DEF Holder
<1> QED
  BY <1>2, <1>3

LEMMA StartReadMemory ==
  ASSUME LineInv, MemoryInv, NEW path \in LocalPaths, StartRead(path)
  PROVE  MemoryInv'
<1>1. PICK s, i, b, m : s = issue[path] /\ i = s.ins /\ b = s.batch /\ m = SrcMemory(i)
  OBVIOUS
<1>2. PICK new : new = [ins |-> i, batch |-> b, at |-> "access"]
  OBVIOUS
<1>3. PICK request : request = [type |-> "read", path |-> path, cell |-> Src(i, b)]
  OBVIOUS
<1>4. /\ s.at = "batch" /\ read[path] = Idle
      /\ read' = [read EXCEPT ![path] = new] /\ write' = write
      /\ access_queue' = [access_queue EXCEPT ![m] = Append(@, request)] /\ serving' = serving
  <2>1. Src(i, b)[1] = m
    BY <1>1 DEF Src, SrcMemory
  <2> QED
    BY <1>1, <1>2, <1>3, <2>1 DEF StartRead, Access
<1>5. s # Idle /\ i \in Ids /\ b \in Nat /\ OnPath(s, path, unit, next_ins) /\ i \in Live
      /\ Chain(s, Idle, write[path])
  BY <1>1, <1>4, StageFacts, IdleFacts DEF LineInv, IssueType, Paths, Holds
<1>6. i < next_ins /\ DecodedPath(i) = path /\ b \in 0 .. Times(i) - 1
  BY <1>1, <1>5, CellFacts DEF OnPath
<1>7. m \in Memories /\ Src(i, b) \in Cell /\ Src(i, b)[1] = m
  BY <1>1, <1>5, <1>6, CellFacts
<1>8. request \in Request
  BY <1>3, <1>7 DEF Request
<1>9. /\ new.at = "access" /\ new.ins = i /\ new.batch = b /\ read'[path] = new
      /\ \A p \in LocalPaths : read[p].at = "access" => read'[p] = read[p]
  BY <1>2, <1>4, IdleFacts DEF LineInv, Types
<1>10. Holder(request)' = new
  BY <1>3, <1>9 DEF Holder
<1>11. ASSUME NEW a \in Request \cup Service, Holder(a).at = "access",
              m \in {SrcMemory(Holder(a).ins), DstMemory(Holder(a).ins)}
       PROVE  Earlier(Holder(a), new)
  <2>1. CASE a.path # path
    BY <1>1, <1>5, <1>6, <1>9, <1>11, <2>1, EarlierOnOtherPath DEF Earlier
  <2>2. CASE a.path = path
    <3>1. Holder(a) = write[path] /\ write[path] # Idle
      BY <1>4, <1>11, <2>2, IdleFacts DEF Holder
    <3>2. Follows(s, write[path])
      BY <1>4, <1>5, <3>1 DEF Chain
    <3>3. write[path].batch \in Nat
      BY <1>11, <3>1, HolderFacts
    <3> QED
      BY <1>1, <1>9, <3>1, <3>2, <3>3 DEF Follows, Earlier
  <2> QED
    BY <2>1, <2>2
<1>12. serving[m] # NoAccess => Earlier(Holder(serving[m]), new)
  BY <1>7, <1>11, ServiceFacts, HolderFacts
<1>13. ASSUME NEW k \in 1 .. Len(access_queue[m])
       PROVE  Earlier(Holder(access_queue[m][k]), new)
  <2>1. PICK a : a = access_queue[m][k]
    OBVIOUS
  <2>2. a \in Request /\ Holder(a).at = "access" /\ a.type \in {"read", "write"}
        /\ m \in {SrcMemory(Holder(a).ins), DstMemory(Holder(a).ins)}
    BY <1>7, <2>1, RequestFacts, HolderFacts
  <2> QED
    BY <1>11, <2>1, <2>2
<1>14. \A a \in Request \cup Service : Holder(a).at = "access" => Holder(a)' = Holder(a)
  BY <1>4, <1>9, HolderUnchanged
<1>15. /\ request.cell = IF request.type = "read" THEN Src(new.ins, new.batch)
                                                   ELSE Dst(new.ins, new.batch)
       /\ request.cell[1] = m /\ (request.type = "write" => request.data = new.data)
  BY <1>3, <1>7, <1>9
<1>16. /\ access_queue' = [access_queue EXCEPT ![m] = Append(@, request)] /\ serving' = serving
       /\ new.at = "access" /\ m \in Memories
  BY <1>4, <1>7, <1>9
<1> QED
  BY <1>8, <1>10, <1>12, <1>13, <1>14, <1>15, <1>16, AccessMemory

LEMMA StartWriteMemory ==
  ASSUME LineInv, MemoryInv, NEW path \in LocalPaths, StartWrite(path)
  PROVE  MemoryInv'
<1>1. PICK r, i, b, m : r = read[path] /\ i = r.ins /\ b = r.batch /\ m = DstMemory(i)
  OBVIOUS
<1>2. PICK new : new = [r EXCEPT !.at = "access"]
  OBVIOUS
<1>3. PICK request : request = [type |-> "write", path |-> path, cell |-> Dst(i, b),
                                data |-> r.data]
  OBVIOUS
<1>4. /\ r.at = "data" /\ write[path] = Idle
      /\ write' = [write EXCEPT ![path] = new] /\ read' = [read EXCEPT ![path] = Idle]
      /\ access_queue' = [access_queue EXCEPT ![m] = Append(@, request)] /\ serving' = serving
  <2>1. Dst(i, b)[1] = m
    BY <1>1 DEF Dst, DstMemory
  <2> QED
    BY <1>1, <1>2, <1>3, <2>1 DEF StartWrite, Access
<1>5. /\ r # Idle /\ r \in ReadType /\ i \in Ids /\ b \in Nat /\ r.data \in Cell
      /\ OnPath(r, path, unit, next_ins) /\ i \in Live
  BY <1>1, <1>4, StageFacts, IdleFacts DEF LineInv, Paths, Holds
<1>6. i < next_ins /\ DecodedPath(i) = path /\ b \in 0 .. Times(i) - 1
  BY <1>1, <1>5, CellFacts DEF OnPath
<1>7. m \in Memories /\ Dst(i, b) \in Cell /\ Dst(i, b)[1] = m
  BY <1>1, <1>5, <1>6, CellFacts
<1>8. request \in Request
  BY <1>3, <1>5, <1>7 DEF Request
<1>9. /\ new.at = "access" /\ new.ins = i /\ new.batch = b /\ new.data = r.data
      /\ write'[path] = new
      /\ \A p \in LocalPaths : read[p].at = "access" => read'[p] = read[p]
      /\ \A p \in LocalPaths : write[p].at = "access" => write'[p] = write[p]
  <2>1. new.at = "access" /\ new.ins = i /\ new.batch = b /\ new.data = r.data
    BY <1>1, <1>2, <1>4, <1>5 DEF ReadType
  <2> QED
    BY <1>1, <1>4, <2>1, IdleFacts DEF LineInv, Types
<1>10. Holder(request)' = new
  BY <1>3, <1>9 DEF Holder
<1>11. ASSUME NEW a \in Request \cup Service, Holder(a).at = "access",
              m \in {SrcMemory(Holder(a).ins), DstMemory(Holder(a).ins)}
       PROVE  Earlier(Holder(a), new)
  <2>1. a.path # path
    BY <1>1, <1>4, <1>11, IdleFacts DEF Holder
  <2> QED
    BY <1>1, <1>5, <1>6, <1>9, <1>11, <2>1, EarlierOnOtherPath DEF Earlier
<1>12. serving[m] # NoAccess => Earlier(Holder(serving[m]), new)
  BY <1>7, <1>11, ServiceFacts, HolderFacts
<1>13. ASSUME NEW k \in 1 .. Len(access_queue[m])
       PROVE  Earlier(Holder(access_queue[m][k]), new)
  <2>1. PICK a : a = access_queue[m][k]
    OBVIOUS
  <2>2. a \in Request /\ Holder(a).at = "access" /\ a.type \in {"read", "write"}
        /\ m \in {SrcMemory(Holder(a).ins), DstMemory(Holder(a).ins)}
    BY <1>7, <2>1, RequestFacts, HolderFacts
  <2> QED
    BY <1>11, <2>1, <2>2
<1>14. \A a \in Request \cup Service : Holder(a).at = "access" => Holder(a)' = Holder(a)
  BY <1>9, HolderUnchanged
<1>15. /\ request.cell = IF request.type = "read" THEN Src(new.ins, new.batch)
                                                   ELSE Dst(new.ins, new.batch)
       /\ request.cell[1] = m /\ (request.type = "write" => request.data = new.data)
  BY <1>3, <1>7, <1>9
<1>16. /\ access_queue' = [access_queue EXCEPT ![m] = Append(@, request)] /\ serving' = serving
       /\ new.at = "access" /\ m \in Memories
  BY <1>4, <1>7, <1>9
<1> QED
  BY <1>8, <1>10, <1>12, <1>13, <1>14, <1>15, <1>16, AccessMemory

\* The oldest access leaves the queue and is served.
LEMMA ServeFacts ==
  ASSUME MemoryInv, data_ \in Contents, NEW m \in Memories, Serve(m)
  PROVE  \E head \in Request, new \in Service :
           /\ 1 \in 1 .. Len(access_queue[m]) /\ head = access_queue[m][1]
           /\ serving[m] = NoAccess
           /\ new.type = head.type /\ new.path = head.path
           /\ head.type = "read" => new.data = data_[head.cell] /\ data_' = data_
           /\ head.type = "write" => data_' = [data_ EXCEPT ![head.cell] = head.data]
           /\ serving' = [serving EXCEPT ![m] = new]
           /\ \A n \in Memories : serving'[n] = IF n = m THEN new ELSE serving[n]
           /\ access_queue' \in [Memories -> Seq(Request)]
           /\ \A n \in Memories : n # m => access_queue'[n] = access_queue[n]
           /\ Len(access_queue[m]) \in Nat
           /\ Len(access_queue'[m]) = Len(access_queue[m]) - 1
           /\ \A k \in 1 .. Len(access_queue'[m]) :
                /\ access_queue'[m][k] = access_queue[m][k + 1]
                /\ k + 1 \in 1 .. Len(access_queue[m])
           /\ UNCHANGED <<next_ins, unit, issue, read, write>>
<1>1. PICK old, rest, head :
        old = access_queue[m] /\ rest = Tail(old) /\ head = Head(old)
  OBVIOUS
<1>2. old \in Seq(Request) /\ old # <<>>
  BY <1>1 DEF Serve, MemoryInv, Requests
<1>3. /\ Len(old) \in Nat /\ 1 \in 1 .. Len(old) /\ head = old[1] /\ head \in Request
      /\ rest \in Seq(Request) /\ Len(rest) = Len(old) - 1
  BY <1>1, <1>2
<1>4. \A k \in 1 .. Len(rest) : rest[k] = old[k + 1] /\ k + 1 \in 1 .. Len(old)
  BY <1>1, <1>2, <1>3
<1>5. /\ serving[m] = NoAccess /\ access_queue' = [access_queue EXCEPT ![m] = rest]
      /\ UNCHANGED <<next_ins, unit, issue, read, write>>
  BY <1>1 DEF Serve, stages
<1>6. /\ access_queue' \in [Memories -> Seq(Request)] /\ access_queue'[m] = rest
      /\ \A n \in Memories : n # m => access_queue'[n] = access_queue[n]
  BY <1>3, <1>5 DEF MemoryInv
<1>7. head.type \in {"read", "write"} /\ head.path \in LocalPaths /\ head.cell \in Cell
  BY <1>3 DEF Request
<1>8. /\ 1 \in 1 .. Len(access_queue[m]) /\ head = access_queue[m][1]
      /\ Len(access_queue[m]) \in Nat
      /\ Len(access_queue'[m]) = Len(access_queue[m]) - 1
      /\ \A k \in 1 .. Len(access_queue'[m]) :
           /\ access_queue'[m][k] = access_queue[m][k + 1]
           /\ k + 1 \in 1 .. Len(access_queue[m])
  BY <1>1, <1>3, <1>4, <1>6
<1>9. CASE head.type = "write"
  <2>1. PICK new : new = [type |-> "write", path |-> head.path]
    OBVIOUS
  <2>2. /\ data_' = [data_ EXCEPT ![head.cell] = head.data]
        /\ serving' = [serving EXCEPT ![m] = new]
    BY <1>1, <1>9, <2>1 DEF Serve, Served
  <2>3. new \in Service /\ new.type = head.type /\ new.path = head.path
    BY <1>7, <1>9, <2>1 DEF Service
  <2>4. \A n \in Memories : serving'[n] = IF n = m THEN new ELSE serving[n]
    BY <2>2 DEF MemoryInv
  <2> QED
    BY <1>3, <1>5, <1>6, <1>8, <1>9, <2>2, <2>3, <2>4
<1>10. CASE head.type = "read"
  <2>1. PICK new : new = [type |-> "read", path |-> head.path, data |-> data_[head.cell]]
    OBVIOUS
  <2>2. data_' = data_ /\ serving' = [serving EXCEPT ![m] = new]
    BY <1>1, <1>10, <2>1 DEF Serve, Served
  <2>3. new \in Service /\ new.type = head.type /\ new.path = head.path
        /\ new.data = data_[head.cell]
    <3>1. data_[head.cell] \in Cell
      BY <1>7 DEF Contents
    <3> QED
      BY <1>7, <1>10, <2>1, <3>1 DEF Service
  <2>4. \A n \in Memories : serving'[n] = IF n = m THEN new ELSE serving[n]
    BY <2>2 DEF MemoryInv
  <2> QED
    BY <1>3, <1>5, <1>6, <1>8, <1>10, <2>2, <2>3, <2>4
<1> QED
  BY <1>7, <1>9, <1>10

LEMMA ServeMemory ==
  ASSUME LineInv, MemoryInv, data_ \in Contents, NEW m \in Memories, Serve(m)
  PROVE  MemoryInv'
<1>1. PICK head \in Request, new \in Service :
        /\ 1 \in 1 .. Len(access_queue[m]) /\ head = access_queue[m][1]
        /\ new.type = head.type /\ new.path = head.path
        /\ serving' = [serving EXCEPT ![m] = new]
        /\ \A n \in Memories : serving'[n] = IF n = m THEN new ELSE serving[n]
        /\ access_queue' \in [Memories -> Seq(Request)]
        /\ \A n \in Memories : n # m => access_queue'[n] = access_queue[n]
        /\ Len(access_queue[m]) \in Nat
        /\ Len(access_queue'[m]) = Len(access_queue[m]) - 1
        /\ \A k \in 1 .. Len(access_queue'[m]) :
             /\ access_queue'[m][k] = access_queue[m][k + 1]
             /\ k + 1 \in 1 .. Len(access_queue[m])
        /\ UNCHANGED <<next_ins, unit, issue, read, write>>
  BY ServeFacts
<1>2. \A a : Holder(a)' = Holder(a)
  BY <1>1 DEF Holder
<1>3. ASSUME NEW n \in Memories, NEW k \in 1 .. Len(access_queue'[n])
      PROVE  /\ Holder(access_queue[n][k])' = Holder(access_queue'[n][k])
             /\ \E old \in 1 .. Len(access_queue[n]) :
                  /\ access_queue'[n][k] = access_queue[n][old]
                  /\ old = IF n = m THEN k + 1 ELSE k
  BY <1>1 DEF Holder
<1>4. Requests'
  <2>1. ASSUME NEW n \in Memories, NEW k \in 1 .. Len(access_queue'[n])
        PROVE  /\ Holder(access_queue[n][k])'.at = "access"
               /\ access_queue'[n][k].cell =
                    IF access_queue'[n][k].type = "read"
                      THEN Src(Holder(access_queue[n][k])'.ins, Holder(access_queue[n][k])'.batch)
                      ELSE Dst(Holder(access_queue[n][k])'.ins, Holder(access_queue[n][k])'.batch)
               /\ access_queue'[n][k].cell[1] = n
               /\ access_queue'[n][k].type = "write" =>
                    access_queue'[n][k].data = Holder(access_queue[n][k])'.data
    BY <1>3 DEF MemoryInv, Requests
  <2> QED
    BY <1>1, <2>1 DEF Requests
<1>5. Holder(new) = Holder(head) /\ new # NoAccess /\ Holder(serving[m])' = Holder(new)
  BY <1>1 DEF Holder, NoAccess, Service
<1>6. ASSUME NEW n \in Memories, n # m
      PROVE  serving'[n] = serving[n] /\ Holder(serving[n])' = Holder(serving[n])
  BY <1>1, <1>6 DEF Holder
<1>7. Services'
  <2>1. /\ Holder(head).at = "access"
        /\ m = IF head.type = "read" THEN SrcMemory(Holder(head).ins)
                                     ELSE DstMemory(Holder(head).ins)
    BY <1>1, RequestFacts, HolderFacts
  <2>2. ASSUME NEW n \in Memories
        PROVE  /\ serving'[n] \in {NoAccess} \cup Service
               /\ serving'[n] # NoAccess =>
                    /\ Holder(serving[n])'.at = "access"
                    /\ n = IF serving'[n].type = "read"
                             THEN SrcMemory(Holder(serving[n])'.ins)
                             ELSE DstMemory(Holder(serving[n])'.ins)
    <3>1. CASE n = m
      BY <1>1, <1>5, <2>1, <3>1
    <3>2. CASE n # m
      BY <1>6, <3>2 DEF MemoryInv, Services
    <3> QED
      BY <3>1, <3>2
  <2> QED
    BY <2>2 DEF Services
<1>8. QueueInOrder'
  <2>1. ASSUME NEW n \in Memories, NEW k \in 1 .. Len(access_queue'[n]), serving'[n] # NoAccess
        PROVE  Earlier(Holder(serving[n])', Holder(access_queue[n][k])')
    <3>1. PICK old \in 1 .. Len(access_queue[n]) :
            /\ access_queue'[n][k] = access_queue[n][old]
            /\ old = IF n = m THEN k + 1 ELSE k
      BY <1>3
    <3>2. CASE n = m
      <4>1. 1 < old
        BY <3>1, <3>2
      <4>2. Earlier(Holder(head), Holder(access_queue[m][old]))
        BY <1>1, <3>1, <3>2, <4>1 DEF MemoryInv, QueueInOrder
      <4> QED
        BY <1>3, <1>5, <3>1, <3>2, <4>2
    <3>3. CASE n # m
      BY <1>3, <1>6, <2>1, <3>1, <3>3 DEF MemoryInv, QueueInOrder
    <3> QED
      BY <3>2, <3>3
  <2>2. ASSUME NEW n \in Memories, NEW k \in 1 .. Len(access_queue'[n]),
               NEW l \in 1 .. Len(access_queue'[n]), k < l
        PROVE  Earlier(Holder(access_queue[n][k])', Holder(access_queue[n][l])')
    <3>1. PICK old \in 1 .. Len(access_queue[n]) :
            /\ access_queue'[n][k] = access_queue[n][old]
            /\ old = IF n = m THEN k + 1 ELSE k
      BY <1>3
    <3>2. PICK later \in 1 .. Len(access_queue[n]) :
            /\ access_queue'[n][l] = access_queue[n][later]
            /\ later = IF n = m THEN l + 1 ELSE l
      BY <1>3
    <3>3. old < later
      BY <2>2, <3>1, <3>2
    <3>4. Earlier(Holder(access_queue[n][old]), Holder(access_queue[n][later]))
      BY <3>3 DEF MemoryInv, QueueInOrder
    <3> QED
      BY <1>3, <3>1, <3>2, <3>4
  <2> QED
    BY <2>1, <2>2 DEF QueueInOrder
<1>9. serving' \in [Memories -> {NoAccess} \cup Service]
  BY <1>1 DEF MemoryInv
<1> QED
  BY <1>1, <1>4, <1>7, <1>8, <1>9 DEF MemoryInv

LEMMA FinishAccessMemory ==
  ASSUME LineInv, MemoryInv, NEW m \in Memories, FinishAccess(m)
  PROVE  MemoryInv'
<1>1. PICK service, q : service = serving[m] /\ q = service.path
  OBVIOUS
<1>2. /\ service # NoAccess /\ serving' = [serving EXCEPT ![m] = NoAccess]
      /\ access_queue' = access_queue
  BY <1>1 DEF FinishAccess
<1>3. /\ service \in Service /\ Holder(service).at = "access"
      /\ m = IF service.type = "read" THEN SrcMemory(Holder(service).ins)
                                      ELSE DstMemory(Holder(service).ins)
  BY <1>1, <1>2 DEF MemoryInv, Services
<1>4. \* The access of a stage is in one memory.
      ASSUME NEW a \in Request \cup Service, Holder(a).at = "access",
             a.type # service.type \/ a.path # q
      PROVE  Holder(a)' = Holder(a)
  <2>1. /\ a.path \in LocalPaths /\ a.type \in {"read", "write"}
        /\ service.type \in {"read", "write"}
    BY <1>3, <1>4, HolderFacts
  <2>2. \/ /\ service.type = "read" /\ write' = write
           /\ \A p \in LocalPaths : p # q => read'[p] = read[p]
        \/ /\ service.type = "write" /\ read' = read
           /\ \A p \in LocalPaths : p # q => write'[p] = write[p]
    BY <1>1, FinishAccessFacts
  <2> QED
    BY <1>4, <2>1, <2>2 DEF Holder
<1>5. \A a : a.type = service.type /\ a.path = q => Holder(a) = Holder(service)
  BY <1>1 DEF Holder
<1>6. ASSUME NEW n \in Memories, NEW k \in 1 .. Len(access_queue[n])
      PROVE  /\ Holder(access_queue[n][k])' = Holder(access_queue[n][k])
             /\ access_queue[n][k] \in Request
  <2>1. PICK a : a = access_queue[n][k]
    OBVIOUS
  <2>2. a \in Request /\ Holder(a).at = "access" /\ a.type \in {"read", "write"}
        /\ n = IF a.type = "read" THEN SrcMemory(Holder(a).ins) ELSE DstMemory(Holder(a).ins)
    BY <2>1, RequestFacts, HolderFacts
  <2>3. a.type # service.type \/ a.path # q
    <3> SUFFICES ASSUME a.type = service.type, a.path = q PROVE FALSE
      OBVIOUS
    <3>1. Holder(a) = Holder(service)
      BY <1>5
    <3>2. n = m
      BY <1>3, <2>2, <3>1
    <3>3. Earlier(Holder(service), Holder(a))
      BY <1>1, <1>2, <2>1, <3>2 DEF MemoryInv, QueueInOrder
    <3>4. Holder(a).ins \in Nat /\ Holder(a).batch \in Nat
      BY <2>2, HolderFacts
    <3> QED
      BY <3>1, <3>3, <3>4 DEF Earlier
  <2>4. Holder(access_queue[n][k])' = Holder(a)'
    BY <1>2, <2>1 DEF Holder
  <2> QED
    BY <1>4, <2>1, <2>2, <2>3, <2>4
<1>7. ASSUME NEW n \in Memories, serving'[n] # NoAccess
      PROVE  serving'[n] = serving[n] /\ Holder(serving[n])' = Holder(serving[n])
  <2>1. n # m /\ serving'[n] = serving[n]
    BY <1>2, <1>7 DEF MemoryInv
  <2>2. PICK a : a = serving[n]
    OBVIOUS
  <2>3. a \in Service /\ Holder(a).at = "access" /\ a.type \in {"read", "write"}
        /\ n = IF a.type = "read" THEN SrcMemory(Holder(a).ins) ELSE DstMemory(Holder(a).ins)
    BY <1>7, <2>1, <2>2, ServiceFacts, HolderFacts
  <2>4. a.type # service.type \/ a.path # q
    BY <1>3, <1>5, <2>1, <2>3
  <2>5. Holder(serving[n])' = Holder(a)'
    BY <2>1, <2>2 DEF Holder
  <2> QED
    BY <1>4, <2>1, <2>2, <2>3, <2>4, <2>5
<1>8. Requests'
  BY <1>2, <1>6 DEF MemoryInv, Requests
<1>9. Services'
  <2>1. ASSUME NEW n \in Memories
        PROVE  /\ serving'[n] \in {NoAccess} \cup Service
               /\ serving'[n] # NoAccess =>
                    /\ Holder(serving[n])'.at = "access"
                    /\ n = IF serving'[n].type = "read"
                             THEN SrcMemory(Holder(serving[n])'.ins)
                             ELSE DstMemory(Holder(serving[n])'.ins)
    BY <1>7 DEF MemoryInv, Services
  <2> QED
    BY <2>1 DEF Services
<1>10. QueueInOrder'
  <2>1. ASSUME NEW n \in Memories, NEW k \in 1 .. Len(access_queue[n])
        PROVE  /\ serving'[n] # NoAccess =>
                    Earlier(Holder(serving[n])', Holder(access_queue[n][k])')
               /\ \A l \in 1 .. Len(access_queue[n]) :
                    k < l => Earlier(Holder(access_queue[n][k])', Holder(access_queue[n][l])')
    BY <1>6, <1>7 DEF MemoryInv, QueueInOrder
  <2> QED
    BY <1>2, <2>1 DEF QueueInOrder
<1>11. access_queue' \in [Memories -> Seq(Request)]
       /\ serving' \in [Memories -> {NoAccess} \cup Service]
  BY <1>2 DEF MemoryInv
<1> QED
  BY <1>8, <1>9, <1>10, <1>11 DEF MemoryInv

LEMMA NextMemory ==
  ASSUME LineInv, MemoryInv, data_ \in Contents, [Next]_vars
  PROVE  MemoryInv'
<1>1. CASE \/ Take \/ HandOver \/ ProcessRelease \/ UNCHANGED vars
           \/ \E p \in LocalPaths : EndWrite(p)
  <2>1. access_queue' = access_queue /\ serving' = serving /\ read' = read
    BY <1>1 DEF Take, HandOver, ProcessRelease, EndWrite, vars, stages, memory
  <2>2. \A p \in LocalPaths : write[p].at = "access" => write'[p] = write[p]
    <3>1. CASE write' = write
      BY <3>1
    <3>2. CASE \E p \in LocalPaths : EndWrite(p)
      BY <3>2 DEF EndWrite, LineInv, Types
    <3> QED
      BY <1>1, <3>1, <3>2 DEF Take, HandOver, ProcessRelease, vars, stages
  <2>3. \A a \in Request \cup Service : Holder(a).at = "access" => Holder(a)' = Holder(a)
    BY <2>1, <2>2, HolderUnchanged
  <2> QED
    BY <2>1, <2>3, MemoryUnchanged
<1>2. CASE \E p \in LocalPaths : StartRead(p) \/ StartWrite(p)
  BY <1>2, StartReadMemory, StartWriteMemory
<1>3. CASE \E m \in Memories : Serve(m) \/ FinishAccess(m)
  BY <1>3, ServeMemory, FinishAccessMemory
<1> QED
  BY <1>1, <1>2, <1>3 DEF Next, Path, MemoryProcess

-----------------------------------------------------------------------------
(***************************************************************************)
(* What is written, action by action: only a write that is served counts.  *)
(***************************************************************************)

\* A write that waits is that of the write stage.
LEMMA WaitingFacts ==
  ASSUME LineInv, MemoryInv, NEW m \in Memories, NEW q \in LocalPaths,
         NEW k \in 1 .. Len(access_queue[m]),
         access_queue[m][k].type = "write", access_queue[m][k].path = q
  PROVE  /\ Holder(access_queue[m][k]) = write[q]
         /\ write[q].at = "access" /\ m = DstMemory(write[q].ins)
<1>1. PICK a : a = access_queue[m][k]
  OBVIOUS
<1>2. Holder(a) = write[q]
  BY <1>1 DEF Holder
<1>3. Holder(a).at = "access" /\ m = DstMemory(Holder(a).ins)
  BY <1>1, RequestFacts
<1> QED
  BY <1>1, <1>2, <1>3

LEMMA WaitingAppended ==
  ASSUME NEW old \in Seq(Request), NEW request, NEW p
  PROVE  Waiting(Append(old, request), p) <=>
           Waiting(old, p) \/ (request.type = "write" /\ request.path = p)
<1>1. PICK new, last : new = Append(old, request) /\ last = Len(old) + 1
  OBVIOUS
<1>2. /\ Len(old) \in Nat /\ new[last] = request /\ last \in 1 .. Len(new)
      /\ \A k \in 1 .. Len(old) : new[k] = old[k] /\ k \in 1 .. Len(new)
      /\ \A k \in 1 .. Len(new) : k \in 1 .. Len(old) \/ k = last
  <2>1. Len(old) \in Nat /\ Len(new) = Len(old) + 1 /\ new[Len(old) + 1] = request
        /\ \A k \in 1 .. Len(old) : new[k] = old[k]
    BY <1>1
  <2> QED
    BY <1>1, <2>1
<1> QED
  BY <1>1, <1>2 DEF Waiting

LEMMA TakeWritten ==
  ASSUME LineInv, Take
  PROVE  \A i \in Ids : Written(i)' = Written(i)
<1>1. /\ unit = 0 /\ unit' = next_ins /\ next_ins' = next_ins + 1
      /\ UNCHANGED <<issue, read, write, access_queue>>
  BY DEF Take, stages, memory
<1>2. next_ins \in Nat /\ \A i \in Ids : i \in Nat /\ i # 0
  BY InSequenceFacts, IdleFacts DEF LineInv, Types
<1> QED
  BY <1>1, <1>2 DEF Written, Progress

LEMMA HandOverWritten ==
  ASSUME LineInv, HandOver
  PROVE  \A i \in Ids : Written(i)' = Written(i)
<1>1. PICK u, path : u = unit /\ path = DecodedPath(u)
  OBVIOUS
<1>2. PICK new : new = [ins |-> u, batch |-> 0, at |-> "batch"]
  OBVIOUS
<1>3. /\ u # 0 /\ issue[path] = Idle /\ issue' = [issue EXCEPT ![path] = new] /\ unit' = 0
      /\ UNCHANGED <<next_ins, read, write, access_queue>>
  BY <1>1, <1>2 DEF HandOver, memory
<1>4. u \in Ids /\ path \in LocalPaths /\ u < next_ins /\ u \in Nat
  BY <1>1, <1>3, PathFacts, IdleFacts DEF LineInv, Types
<1>5. read[path].ins # u /\ write[path].ins # u
  BY <1>1, <1>3, <1>4, IdleFacts DEF LineInv, Paths, OnPath
<1>6. new.ins = u /\ new.batch = 0
      /\ \A p \in LocalPaths : issue'[p] = IF p = path THEN new ELSE issue[p]
  BY <1>2, <1>3 DEF LineInv, Types
<1> SUFFICES ASSUME NEW i \in Ids PROVE Written(i)' = Written(i)
  OBVIOUS
<1>7. DecodedPath(i) \in LocalPaths /\ i # 0
  BY PathFacts, IdleFacts
<1>8. CASE i = u
  BY <1>1, <1>3, <1>4, <1>5, <1>6, <1>8 DEF Written, Progress
<1>9. CASE i # u
  BY <1>1, <1>3, <1>6, <1>7, <1>9, IdleFacts DEF Written, Progress
<1> QED
  BY <1>8, <1>9

LEMMA StartReadWritten ==
  ASSUME LineInv, MemoryInv, NEW path \in LocalPaths, StartRead(path)
  PROVE  \A i \in Ids : Written(i)' = Written(i)
<1>1. PICK s, i, b : s = issue[path] /\ i = s.ins /\ b = s.batch
  OBVIOUS
<1>2. PICK new, left :
        /\ new = [ins |-> i, batch |-> b, at |-> "access"]
        /\ left = IF LastBatch(s) THEN Idle ELSE [s EXCEPT !.at = "wait_next_batch"]
  OBVIOUS
<1>3. PICK request, m : /\ request = [type |-> "read", path |-> path, cell |-> Src(i, b)]
                        /\ m = Src(i, b)[1]
  OBVIOUS
<1>4. /\ s.at = "batch" /\ read[path] = Idle
      /\ read' = [read EXCEPT ![path] = new] /\ issue' = [issue EXCEPT ![path] = left]
      /\ access_queue' = [access_queue EXCEPT ![m] = Append(@, request)]
      /\ UNCHANGED <<next_ins, unit, write>>
  BY <1>1, <1>2, <1>3 DEF StartRead, Access
<1>5. s # Idle /\ s \in IssueType /\ i \in Ids /\ i # 0
  BY <1>1, <1>4, StageFacts, IdleFacts DEF LineInv, IssueType
<1>6. new.ins = i /\ new.batch = b /\ left.ins \in {i, 0}
  BY <1>1, <1>2, <1>5, IdleFacts DEF IssueType
<1>7. \A p \in LocalPaths : /\ issue'[p] = IF p = path THEN left ELSE issue[p]
                            /\ read'[p] = IF p = path THEN new ELSE read[p]
  BY <1>4 DEF LineInv, Types
<1>8. ASSUME NEW n \in Memories, NEW p
      PROVE  Waiting(access_queue'[n], p) <=> Waiting(access_queue[n], p)
  <2>1. CASE n = m
    <3>1. access_queue'[m] = Append(access_queue[m], request) /\ access_queue[m] \in Seq(Request)
      BY <1>4, <2>1 DEF MemoryInv
    <3> QED
      BY <1>3, <2>1, <3>1, WaitingAppended
  <2>2. CASE n # m
    BY <1>4, <2>2 DEF MemoryInv
  <2> QED
    BY <2>1, <2>2
<1> SUFFICES ASSUME NEW j \in Ids PROVE Written(j)' = Written(j)
  OBVIOUS
<1>9. DecodedPath(j) \in LocalPaths /\ j # 0 /\ DstMemory(j) \in Memories
  BY PathFacts, IdleFacts, CellFacts
<1>10. Waiting(access_queue'[DstMemory(j)], DecodedPath(j))
         <=> Waiting(access_queue[DstMemory(j)], DecodedPath(j))
  BY <1>8, <1>9
<1>11. CASE DecodedPath(j) # path
  BY <1>4, <1>7, <1>9, <1>10, <1>11 DEF Written, Progress
<1>12. CASE DecodedPath(j) = path
  BY <1>1, <1>4, <1>6, <1>7, <1>9, <1>10, <1>12, IdleFacts DEF Written, Progress
<1> QED
  BY <1>11, <1>12

LEMMA StartWriteWritten ==
  ASSUME LineInv, MemoryInv, NEW path \in LocalPaths, StartWrite(path)
  PROVE  \A i \in Ids : Written(i)' = Written(i)
<1>1. PICK s, r, i, b, left :
        s = issue[path] /\ r = read[path] /\ i = r.ins /\ b = r.batch /\ left = issue'[path]
  OBVIOUS
<1>2. PICK new : new = [r EXCEPT !.at = "access"]
  OBVIOUS
<1>3. PICK request, m : /\ request = [type |-> "write", path |-> path, cell |-> Dst(i, b),
                                      data |-> r.data]
                        /\ m = Dst(i, b)[1]
  OBVIOUS
<1>4. /\ r.at = "data" /\ write[path] = Idle
      /\ write' = [write EXCEPT ![path] = new] /\ read' = [read EXCEPT ![path] = Idle]
      /\ access_queue' = [access_queue EXCEPT ![m] = Append(@, request)]
      /\ issue' = IF UsePipeline(i) /\ ~ LastBatch(r) THEN NextBatch(path) ELSE issue
      /\ UNCHANGED <<next_ins, unit>>
  BY <1>1, <1>2, <1>3 DEF StartWrite, Access
<1>5. r # Idle /\ r \in ReadType /\ i \in Ids /\ i # 0 /\ b \in Nat
      /\ OnPath(r, path, unit, next_ins) /\ Chain(s, r, Idle)
  BY <1>1, <1>4, StageFacts, IdleFacts DEF LineInv, Paths
<1>6. new.ins = i /\ new.batch = b
  BY <1>1, <1>2, <1>4, <1>5 DEF ReadType
<1>7. /\ \A p \in LocalPaths : read'[p] = IF p = path THEN Idle ELSE read[p]
      /\ \A p \in LocalPaths : write'[p] = IF p = path THEN new ELSE write[p]
      /\ \A p \in LocalPaths : p # path => issue'[p] = issue[p]
  BY <1>4, NextBatchFacts DEF LineInv, Types
<1>8. left.ins = s.ins /\ (s.ins # i => left.batch = s.batch)
  <2>1. CASE s.at = "wait_next_batch"
    <3>1. s.ins = i
      BY <1>1, <1>5, <2>1 DEF Chain, Alike
    <3> QED
      BY <1>1, <1>4, <2>1, <3>1, NextBatchFacts DEF LineInv
  <2>2. CASE s.at # "wait_next_batch"
    BY <1>1, <1>4, <2>2, NextBatchFacts DEF LineInv
  <2> QED
    BY <2>1, <2>2
<1>9. m = DstMemory(i) /\ m \in Memories /\ DecodedPath(i) = path /\ i < next_ins /\ i # unit
  BY <1>1, <1>3, <1>5, CellFacts DEF OnPath, Dst, DstMemory
<1>10. ASSUME NEW n \in Memories, NEW p
       PROVE  Waiting(access_queue'[n], p)
                <=> Waiting(access_queue[n], p) \/ (n = m /\ p = path)
  <2>1. CASE n = m
    <3>1. access_queue'[m] = Append(access_queue[m], request) /\ access_queue[m] \in Seq(Request)
      BY <1>4, <2>1 DEF MemoryInv
    <3> QED
      BY <1>3, <2>1, <3>1, WaitingAppended
  <2>2. CASE n # m
    BY <1>4, <2>2 DEF MemoryInv
  <2> QED
    BY <2>1, <2>2
<1> SUFFICES ASSUME NEW j \in Ids PROVE Written(j)' = Written(j)
  OBVIOUS
<1>11. DecodedPath(j) \in LocalPaths /\ j # 0 /\ DstMemory(j) \in Memories /\ j \in Nat
  BY PathFacts, IdleFacts, CellFacts
<1>12. Waiting(access_queue'[DstMemory(j)], DecodedPath(j))
         <=> \/ Waiting(access_queue[DstMemory(j)], DecodedPath(j))
             \/ DstMemory(j) = m /\ DecodedPath(j) = path
  BY <1>10, <1>11
<1>13. CASE DecodedPath(j) # path
  BY <1>4, <1>7, <1>11, <1>12, <1>13 DEF Written, Progress
<1>14. CASE j = i
  BY <1>1, <1>4, <1>5, <1>6, <1>7, <1>9, <1>11, <1>12, <1>14, IdleFacts DEF Written, Progress
<1>15. CASE DecodedPath(j) = path /\ j # i
  BY <1>1, <1>4, <1>6, <1>7, <1>8, <1>11, <1>12, <1>15, IdleFacts DEF Written, Progress
<1> QED
  BY <1>13, <1>14, <1>15

LEMMA EndWriteWritten ==
  ASSUME LineInv, MemoryInv, NEW path \in LocalPaths, EndWrite(path)
  PROVE  \A i \in Ids : Written(i)' = Written(i)
<1>1. PICK s, r, w, i, left :
        /\ s = issue[path] /\ r = read[path] /\ w = write[path] /\ i = w.ins
        /\ left = issue'[path]
  OBVIOUS
<1>2. /\ w.at = "written"
      /\ write' = [write EXCEPT ![path] = Idle]
      /\ issue' = IF EndsBatch(w) THEN NextBatch(path) ELSE issue
      /\ UNCHANGED <<next_ins, unit, read, access_queue>>
  BY <1>1 DEF EndWrite, memory
<1>3. w # Idle /\ i \in Ids /\ w.batch \in Nat /\ i # 0 /\ i \in Nat /\ Times(i) \in Nat
  BY <1>1, <1>2, StageFacts, IdleFacts, CellFacts DEF LineInv, WriteType
<1>4. /\ OnPath(w, path, unit, next_ins) /\ Chain(s, r, w)
      /\ s # Idle => s.at \in {"batch", "wait_next_batch"} /\ s.ins \in Nat
      /\ r # Idle => r.ins \in Nat
  BY <1>1, StageFacts, IdleFacts DEF LineInv, Paths, IssueType
<1>5. /\ \A p \in LocalPaths : write'[p] = IF p = path THEN Idle ELSE write[p]
      /\ \A p \in LocalPaths : p # path => issue'[p] = issue[p]
  BY <1>2, NextBatchFacts DEF LineInv, Types
<1>6. /\ left.ins = s.ins
      /\ left.batch = IF s.at = "wait_next_batch" /\ EndsBatch(w) THEN s.batch + 1 ELSE s.batch
  BY <1>1, <1>2, NextBatchFacts DEF LineInv
<1>7. \* What comes next on the path continues the transfer, or it is complete.
      IF r.ins = i THEN r.batch = w.batch + 1
      ELSE IF s.ins = i THEN left.batch = w.batch + 1
      ELSE w.batch + 1 = Times(i)
  <2>1. CASE r.ins = i
    <3>1. r # Idle
      BY <1>3, <2>1, IdleFacts
    <3> QED
      BY <1>1, <1>3, <1>4, <2>1, <3>1 DEF Chain, Follows
  <2>2. CASE r.ins # i /\ r # Idle
    <3>1. i < r.ins /\ w.batch + 1 = Times(i)
      BY <1>1, <1>3, <1>4, <2>2 DEF Chain, Follows, LastBatch, Times
    <3>2. s.ins # i
      <4>1. CASE s = Idle
        BY <1>3, <4>1, IdleFacts
      <4>2. CASE s.at = "batch"
        BY <1>3, <1>4, <2>2, <3>1, <4>2 DEF Chain, Follows
      <4>3. CASE s.at = "wait_next_batch"
        BY <1>4, <2>2, <4>3 DEF Chain, Alike
      <4> QED
        BY <1>4, <4>1, <4>2, <4>3
    <3> QED
      BY <2>2, <3>1, <3>2
  <2>3. CASE r.ins # i /\ r = Idle
    <3>1. CASE s = Idle
      BY <1>1, <1>3, <1>4, <2>3, <3>1, IdleFacts DEF Chain, LastBatch, Times
    <3>2. CASE s.at = "batch"
      BY <1>1, <1>3, <1>4, <1>6, <2>3, <3>2 DEF Chain, Follows, LastBatch, Times
    <3>3. CASE s.at = "wait_next_batch"
      <4>1. Alike(s, w) /\ ~ UsePipeline(s.ins) /\ ~ LastBatch(s)
        BY <1>4, <2>3, <3>3 DEF Chain
      <4>2. EndsBatch(w)
        BY <4>1 DEF Alike, EndsBatch, LastBatch
      <4> QED
        BY <1>1, <1>6, <2>3, <3>3, <4>1, <4>2 DEF Alike
    <3> QED
      BY <1>4, <3>1, <3>2, <3>3
  <2> QED
    BY <2>1, <2>2, <2>3
<1>8. s.ins # i => left.batch = s.batch
  <2> SUFFICES ASSUME s.ins # i, s.at = "wait_next_batch", EndsBatch(w) PROVE FALSE
    BY <1>6
  <2>1. r # Idle /\ Alike(s, r)
    BY <1>1, <1>4 DEF Chain, Alike
  <2>2. ~ LastBatch(w) /\ r.ins # i
    BY <2>1 DEF EndsBatch, Alike
  <2> QED
    BY <1>1, <1>3, <1>4, <2>1, <2>2 DEF Chain, Follows
<1>9. ~ Waiting(access_queue[DstMemory(i)], path)
  BY <1>1, <1>2, <1>3, CellFacts, WaitingFacts DEF Waiting
<1>10. DecodedPath(i) = path /\ i < next_ins /\ i # unit /\ next_ins \in Nat
  BY <1>1, <1>3, <1>4, InSequenceFacts DEF OnPath, LineInv, Types
<1> SUFFICES ASSUME NEW j \in Ids PROVE Written(j)' = Written(j)
  OBVIOUS
<1>11. DecodedPath(j) \in LocalPaths /\ j # 0
  BY PathFacts, IdleFacts
<1>12. CASE DecodedPath(j) # path
  BY <1>2, <1>5, <1>11, <1>12 DEF Written, Progress
<1>13. CASE j = i
  <2>1. Written(j) = w.batch + 1
    BY <1>1, <1>3, <1>9, <1>10, <1>13 DEF Written, Progress
  <2>2. Written(j)' = IF r.ins = i THEN r.batch ELSE IF s.ins = i THEN left.batch ELSE Times(i)
    BY <1>1, <1>2, <1>3, <1>5, <1>6, <1>10, <1>13, IdleFacts DEF Written, Progress
  <2> QED
    BY <1>7, <2>1, <2>2
<1>14. CASE DecodedPath(j) = path /\ j # i
  BY <1>1, <1>2, <1>5, <1>6, <1>8, <1>11, <1>14, IdleFacts DEF Written, Progress
<1> QED
  BY <1>12, <1>13, <1>14

LEMMA ProcessReleaseWritten ==
  ASSUME ProcessRelease
  PROVE  \A i \in Ids : Written(i)' = Written(i)
BY DEF ProcessRelease, stages, memory, Written, Progress

LEMMA FinishAccessWritten ==
  ASSUME LineInv, MemoryInv, NEW m \in Memories, FinishAccess(m)
  PROVE  \A i \in Ids : Written(i)' = Written(i)
<1>1. UNCHANGED <<next_ins, unit, issue, access_queue>>
  BY DEF FinishAccess
<1>2. \A p \in LocalPaths : /\ read'[p].ins = read[p].ins /\ read'[p].batch = read[p].batch
                            /\ write'[p].ins = write[p].ins /\ write'[p].batch = write[p].batch
  BY FinishAccessFacts
<1> SUFFICES ASSUME NEW j \in Ids PROVE Written(j)' = Written(j)
  OBVIOUS
<1>3. DecodedPath(j) \in LocalPaths
  BY PathFacts
<1> QED
  BY <1>1, <1>2, <1>3 DEF Written, Progress

\* A write that is served is the next batch of its transfer.
LEMMA ServeWritten ==
  ASSUME LineInv, MemoryInv, data_ \in Contents, NEW m \in Memories, Serve(m),
         NEW head, head = access_queue[m][1], NEW stage, stage = Holder(head)
  PROVE  /\ \A i \in Ids : Written(i)' = IF head.type = "write" /\ i = stage.ins
                                           THEN stage.batch + 1 ELSE Written(i)
         /\ head.type = "write" => Written(stage.ins) = stage.batch
<1>1. /\ 1 \in 1 .. Len(access_queue[m])
      /\ access_queue' \in [Memories -> Seq(Request)]
      /\ \A n \in Memories : n # m => access_queue'[n] = access_queue[n]
      /\ Len(access_queue[m]) \in Nat
      /\ Len(access_queue'[m]) = Len(access_queue[m]) - 1
      /\ \A k \in 1 .. Len(access_queue'[m]) :
           /\ access_queue'[m][k] = access_queue[m][k + 1]
           /\ k + 1 \in 1 .. Len(access_queue[m])
      /\ UNCHANGED <<next_ins, unit, issue, read, write>>
  BY ServeFacts
<1>2. PICK q, i : q = head.path /\ i = stage.ins
  OBVIOUS
<1>3. /\ head \in Request /\ stage.at = "access" /\ q \in LocalPaths
      /\ head.type \in {"read", "write"}
      /\ stage # Idle /\ i \in Ids /\ i # 0 /\ i < next_ins /\ DecodedPath(i) = q
      /\ stage.batch \in Nat /\ i \in Nat /\ next_ins \in Nat
      /\ head.type = "write" => m = DstMemory(i)
  BY <1>1, <1>2, RequestFacts, HolderFacts, InSequenceFacts DEF LineInv, Types
<1>4. \A k \in 1 .. Len(access_queue[m]) :
        k = 1 \/ \E l \in 1 .. Len(access_queue'[m]) : k = l + 1
  <2>1. \A k \in 1 .. Len(access_queue[m]) :
          k = 1 \/ (k - 1 \in 1 .. Len(access_queue'[m]) /\ k = (k - 1) + 1)
    BY <1>1
  <2> QED
    BY <2>1
<1>5. ASSUME NEW p, ~ (head.type = "write" /\ p = q)
      PROVE  Waiting(access_queue'[m], p) <=> Waiting(access_queue[m], p)
  <2>1. ASSUME NEW k \in 1 .. Len(access_queue'[m]),
               access_queue'[m][k].type = "write", access_queue'[m][k].path = p
        PROVE  Waiting(access_queue[m], p)
    BY <1>1, <2>1 DEF Waiting
  <2>2. ASSUME NEW k \in 1 .. Len(access_queue[m]),
               access_queue[m][k].type = "write", access_queue[m][k].path = p
        PROVE  Waiting(access_queue'[m], p)
    <3>1. k # 1
      BY <1>2, <1>5, <2>2
    <3>2. PICK l \in 1 .. Len(access_queue'[m]) : k = l + 1
      BY <1>4, <3>1
    <3> QED
      BY <1>1, <2>2, <3>2 DEF Waiting
  <2> QED
    BY <2>1, <2>2 DEF Waiting
<1>6. head.type = "write" => Waiting(access_queue[m], q) /\ stage = write[q]
  BY <1>1, <1>2 DEF Waiting, Holder
<1>7. head.type = "write" => ~ Waiting(access_queue'[m], q)
  <2> SUFFICES ASSUME head.type = "write", NEW k \in 1 .. Len(access_queue'[m]),
                      access_queue'[m][k].type = "write", access_queue'[m][k].path = q
               PROVE  FALSE
    BY DEF Waiting
  <2>1. PICK l \in 1 .. Len(access_queue[m]) : l = k + 1
    BY <1>1
  <2>2. access_queue[m][l].type = "write" /\ access_queue[m][l].path = q
    BY <1>1, <2>1
  <2>3. Earlier(stage, Holder(access_queue[m][l]))
    <3>1. 1 < l
      BY <2>1
    <3> QED
      BY <1>1, <3>1 DEF MemoryInv, QueueInOrder
  <2>4. Holder(access_queue[m][l]) = stage
    BY <1>6, <2>2 DEF Holder
  <2> QED
    BY <1>2, <1>3, <2>3, <2>4 DEF Earlier
<1>8. ASSUME NEW j \in Ids
      PROVE  Written(j)' = IF head.type = "write" /\ j = i THEN stage.batch + 1 ELSE Written(j)
  <2>1. DecodedPath(j) \in LocalPaths /\ j # 0 /\ DstMemory(j) \in Memories
    BY PathFacts, IdleFacts, CellFacts
  <2>2. CASE head.type = "write" /\ j = i
    <3>1. OnPath(stage, q, unit, next_ins)
      BY <1>3, <1>6, <2>2 DEF LineInv, Paths
    <3> QED
      BY <1>1, <1>2, <1>3, <1>6, <1>7, <2>2, <3>1 DEF Written, Progress, OnPath
  <2>3. CASE head.type = "write" /\ j # i /\ DecodedPath(j) = q
    BY <1>1, <1>2, <1>3, <1>6, <2>3 DEF Written, Progress
  <2>4. CASE (head.type = "write" /\ DecodedPath(j) # q) \/ head.type = "read"
    <3>1. Waiting(access_queue'[DstMemory(j)], DecodedPath(j))
            <=> Waiting(access_queue[DstMemory(j)], DecodedPath(j))
      BY <1>1, <1>5, <2>1, <2>4
    <3> QED
      BY <1>1, <1>2, <1>3, <2>4, <3>1 DEF Written, Progress
  <2> QED
    BY <1>3, <2>2, <2>3, <2>4
<1>9. ASSUME head.type = "write" PROVE Written(i) = stage.batch
  <2>1. OnPath(stage, q, unit, next_ins)
    BY <1>3, <1>6, <1>9 DEF LineInv, Paths
  <2> QED
    BY <1>2, <1>3, <1>6, <1>9, <2>1 DEF Written, Progress, OnPath
<1> QED
  BY <1>2, <1>8, <1>9

-----------------------------------------------------------------------------
(***************************************************************************)
(* The data: an access that is served meets its cell as the sequence has   *)
(* left it.                                                                *)
(***************************************************************************)

\* An older transfer that writes to the memory has been written to its end, when an access
\* gets to the head of the queue.
LEMMA OlderIsWritten ==
  ASSUME LineInv, MemoryInv, NEW m \in Memories, 1 \in 1 .. Len(access_queue[m]),
         NEW stage, stage = Holder(access_queue[m][1]),
         NEW j \in Ids, j < stage.ins, DstMemory(j) = m
  PROVE  Written(j) = Times(j)
<1>1. PICK head, q, i, p :
        head = access_queue[m][1] /\ q = head.path /\ i = stage.ins /\ p = DecodedPath(j)
  OBVIOUS
<1>2. /\ head \in Request /\ stage.at = "access" /\ q \in LocalPaths /\ stage # Idle
      /\ i \in Ids /\ i \in Nat /\ i # 0 /\ i < next_ins /\ DecodedPath(i) = q
      /\ head.type \in {"read", "write"}
      /\ head.type = "read" => m = SrcMemory(i) /\ stage = read[q]
      /\ head.type = "write" => m = DstMemory(i) /\ stage = write[q]
  BY <1>1, RequestFacts, HolderFacts DEF Holder
<1>3. j \in Nat /\ j # 0 /\ next_ins \in Nat /\ p \in LocalPaths /\ Times(j) \in Nat \ {0}
      /\ j < i /\ j < next_ins
  BY <1>1, <1>2, IdleFacts, InSequenceFacts, PathFacts, CellFacts DEF LineInv, Types
<1>4. j # unit
  BY <1>2, <1>3 DEF LineInv, Types
<1>5. read[p].ins # j /\ issue[p].ins # j /\ (write[p].ins = j => LastBatch(write[p]))
  <2>1. CASE p # q
    <3>1. j \notin Live
      <4> SUFFICES ASSUME j \in Live PROVE FALSE
        OBVIOUS
      <4>1. ~ ConflictWithIns(ConflictInfo(j), ConflictInfo(i))
        BY <1>2, <1>3 DEF LineInv, NoConflict
      <4> QED
        BY <1>1, <1>2, <2>1, <4>1, ConflictFacts
    <3> QED
      BY <1>3, <3>1, IdleFacts DEF LineInv, Holds
  <2>2. CASE p = q
    <3>1. PICK s, r, w : s = issue[q] /\ r = read[q] /\ w = write[q]
      OBVIOUS
    <3>2. Chain(s, r, w)
      BY <1>2, <3>1 DEF LineInv, Paths
    <3>3. /\ s # Idle => s.at \in {"batch", "wait_next_batch"} /\ s.ins \in Nat
          /\ r # Idle => r.ins \in Nat
      BY <1>2, <3>1, StageFacts, IdleFacts DEF LineInv, IssueType
    <3>4. CASE head.type = "read"
      <4>1. r = stage
        BY <1>2, <3>1, <3>4
      <4>2. s.ins # j
        BY <1>1, <1>2, <1>3, <3>2, <3>3, <4>1, IdleFacts DEF Chain, Follows, Alike
      <4>3. w.ins = j => LastBatch(w)
        BY <1>1, <1>2, <1>3, <3>2, <4>1, IdleFacts DEF Chain, Follows
      <4> QED
        BY <1>1, <1>3, <2>2, <3>1, <4>1, <4>2, <4>3
    <3>5. CASE head.type = "write"
      <4>1. w = stage
        BY <1>2, <3>1, <3>5
      <4>2. r # Idle => i <= r.ins
        BY <1>1, <1>2, <3>2, <3>3, <4>1 DEF Chain, Follows
      <4>3. r.ins # j
        BY <1>2, <1>3, <3>3, <4>2, IdleFacts
      <4>4. s # Idle => i <= s.ins
        <5>1. CASE r = Idle
          BY <1>1, <1>2, <3>2, <3>3, <4>1, <5>1 DEF Chain, Follows, Alike
        <5>2. CASE r # Idle
          BY <1>2, <3>2, <3>3, <4>2, <5>2 DEF Chain, Follows, Alike
        <5> QED
          BY <5>1, <5>2
      <4>5. s.ins # j
        BY <1>2, <1>3, <3>3, <4>4, IdleFacts
      <4> QED
        BY <1>1, <1>3, <2>2, <3>1, <4>1, <4>3, <4>5
    <3> QED
      BY <1>2, <3>4, <3>5
  <2> QED
    BY <2>1, <2>2
<1>6. ASSUME write[p].ins = j PROVE ~ Waiting(access_queue[m], p)
  <2> SUFFICES ASSUME NEW k \in 1 .. Len(access_queue[m]),
                      access_queue[m][k].type = "write", access_queue[m][k].path = p
               PROVE  FALSE
    BY DEF Waiting
  <2>1. Holder(access_queue[m][k]) = write[p]
    BY <1>3, WaitingFacts
  <2>2. k # 1
    BY <1>1, <1>3, <1>6, <2>1
  <2>3. 1 < k
    <3>1. k \in Nat /\ k >= 1
      BY DEF MemoryInv
    <3> QED
      BY <2>2, <3>1
  <2>4. Earlier(stage, write[p])
    BY <2>1, <2>3 DEF MemoryInv, QueueInOrder
  <2> QED
    BY <1>1, <1>2, <1>3, <1>6, <2>4 DEF Earlier
<1>7. CASE write[p].ins = j
  <2>1. write[p].batch = Times(j) - 1
    BY <1>5, <1>7 DEF LastBatch, Times
  <2>2. Written(j) = write[p].batch + 1
    BY <1>1, <1>3, <1>4, <1>6, <1>7 DEF Written, Progress
  <2> QED
    BY <1>3, <2>1, <2>2
<1>8. CASE write[p].ins # j
  BY <1>1, <1>3, <1>4, <1>5, <1>8 DEF Written, Progress
<1> QED
  BY <1>7, <1>8

\* The writes to its cell are those before it, no more and no less.
LEMMA ServedInSequence ==
  ASSUME LineInv, MemoryInv, NotOvertaken, NEW m \in Memories, 1 \in 1 .. Len(access_queue[m]),
         NEW head, head = access_queue[m][1], NEW stage, stage = Holder(head)
  PROVE  UpTo([k \in Ids |-> Written(k)], head.cell, stage.ins, stage.batch)
<1>1. PICK i, b, q : i = stage.ins /\ b = stage.batch /\ q = head.path
  OBVIOUS
<1>2. /\ head \in Request /\ stage.at = "access" /\ q \in LocalPaths /\ stage # Idle
      /\ i \in Ids /\ i \in Nat /\ i # 0 /\ i < next_ins /\ DecodedPath(i) = q /\ b \in Nat
      /\ head.type \in {"read", "write"} /\ head.cell[1] = m
      /\ head.type = "read" => m = SrcMemory(i) /\ stage = read[q]
      /\ head.type = "write" => m = DstMemory(i) /\ stage = write[q]
  BY <1>1, RequestFacts, HolderFacts DEF Holder
<1>3. DstMemory(i) = m => Written(i) = b
  <2>1. OnPath(stage, q, unit, next_ins) /\ Chain(issue[q], read[q], write[q])
        /\ next_ins \in Nat
    BY <1>2, InSequenceFacts DEF LineInv, Paths, Types
  <2>2. CASE head.type = "write"
    <3>1. Waiting(access_queue[m], q)
      BY <1>1, <2>2 DEF Waiting
    <3> QED
      BY <1>1, <1>2, <2>1, <2>2, <3>1 DEF Written, Progress, OnPath
  <2>3. CASE head.type = "read" /\ DstMemory(i) = m
    <3>1. ~ UsePipeline(i)
      BY <1>2, <2>3 DEF UsePipeline, SrcMemory, DstMemory
    <3>2. write[q].ins # i
      BY <1>1, <1>2, <2>1, <2>3, <3>1 DEF Chain
    <3> QED
      BY <1>1, <1>2, <2>1, <2>3, <3>2 DEF Written, Progress, OnPath
  <2> QED
    BY <1>2, <2>2, <2>3
<1>4. ASSUME NEW j \in Ids, NEW d \in 0 .. Times(j) - 1, Dst(j, d) = head.cell
      PROVE  d < Written(j) <=> j < i \/ (j = i /\ d < b)
  <2>1. DstMemory(j) = m /\ j \in Nat /\ Times(j) \in Nat /\ d \in Nat
    BY <1>2, <1>4, CellFacts
  <2>2. CASE j < i
    <3>1. Written(j) = Times(j)
      BY <1>1, <2>1, <2>2, OlderIsWritten
    <3> QED
      BY <2>1, <2>2, <3>1
  <2>3. CASE j = i
    BY <1>2, <1>3, <2>1, <2>3
  <2>4. CASE j > i
    <3>1. Written(j) = 0
      BY <1>1, <2>1, <2>4 DEF NotOvertaken
    <3> QED
      BY <1>2, <2>1, <2>4, <3>1
  <2> QED
    BY <1>2, <2>1, <2>2, <2>3, <2>4
<1> QED
  BY <1>1, <1>4 DEF UpTo

\* Where the same writes to a cell come before, the sequence holds the same value in it.
LEMMA UpToUnique ==
  ASSUME NEW done, NEW c \in Cell, NEW i \in Ids, NEW b \in 0 .. Times(i),
         NEW j \in Ids, NEW d \in 0 .. Times(j), UpTo(done, c, i, b), UpTo(done, c, j, d)
  PROVE  Before(i, b)[c] = Before(j, d)[c]
<1>1. /\ i \in Nat /\ j \in Nat /\ Times(i) \in Nat /\ Times(j) \in Nat
      /\ b \in Nat /\ d \in Nat
  BY CellFacts
<1>2. ASSUME NEW k \in Ids, NEW e \in 0 .. Times(k) - 1, Dst(k, e) = c
      PROVE  /\ k \in Nat /\ e \in Nat
             /\ (k < i \/ (k = i /\ e < b)) <=> (k < j \/ (k = j /\ e < d))
  <2>1. k \in Nat /\ Times(k) \in Nat
    BY CellFacts
  <2> QED
    BY <1>2, <2>1 DEF UpTo
<1>3. CASE i < j \/ (i = j /\ b <= d)
  <2>1. \A k \in Ids : \A e \in 0 .. Times(k) - 1 :
          Dst(k, e) = c => \/ k < i \/ (k = i /\ e < b)
                           \/ k > j \/ (k = j /\ e >= d)
    BY <1>1, <1>2
  <2> QED
    BY <1>3, <2>1, Unwritten
<1>4. CASE j < i \/ (j = i /\ d <= b)
  <2>1. \A k \in Ids : \A e \in 0 .. Times(k) - 1 :
          Dst(k, e) = c => \/ k < j \/ (k = j /\ e < d)
                           \/ k > i \/ (k = i /\ e >= b)
    BY <1>1, <1>2
  <2> QED
    BY <1>4, <2>1, Unwritten
<1> QED
  BY <1>1, <1>3, <1>4

\* A write that comes when it should leaves the cells right.
LEMMA WriteRight ==
  ASSUME NEW done \in [Ids -> Nat], NEW data \in Contents, CellsRight(done, data),
         NEW i \in Ids, NEW b \in 0 .. Times(i) - 1, done[i] = b,
         UpTo(done, Dst(i, b), i, b)
  PROVE  CellsRight([done EXCEPT ![i] = b + 1],
                    [data EXCEPT ![Dst(i, b)] = Before(i, b)[Src(i, b)]])
<1>1. PICK cell, done2, data2 :
        /\ cell = Dst(i, b) /\ done2 = [done EXCEPT ![i] = b + 1]
        /\ data2 = [data EXCEPT ![cell] = Before(i, b)[Src(i, b)]]
  OBVIOUS
<1>2. /\ i \in Nat /\ Times(i) \in Nat /\ b \in Nat /\ cell \in Cell
      /\ b \in 0 .. Times(i) /\ b + 1 \in 0 .. Times(i)
  BY <1>1, CellFacts
<1>3. /\ \A j \in Ids : done2[j] = IF j = i THEN b + 1 ELSE done[j]
      /\ \A c \in Cell : data2[c] = IF c = cell THEN Before(i, b)[Src(i, b)] ELSE data[c]
  BY <1>1 DEF Contents
<1>4. data2[cell] = Before(i, b + 1)[cell]
  <2>1. Before(i, b) \in Contents
    BY <1>2, BeforeFacts
  <2>2. Before(i, b + 1) = [Before(i, b) EXCEPT ![cell] = Before(i, b)[Src(i, b)]]
    BY <1>1, BeforeFacts
  <2> QED
    BY <1>2, <1>3, <2>1, <2>2 DEF Contents
<1>5. UpTo(done2, cell, i, b + 1)
  <2>1. ASSUME NEW j \in Ids, NEW d \in 0 .. Times(j) - 1, Dst(j, d) = cell
        PROVE  d < done2[j] <=> j < i \/ (j = i /\ d < b + 1)
    <3>1. d < done[j] <=> j < i \/ (j = i /\ d < b)
      BY <1>1, <2>1 DEF UpTo
    <3>2. j \in Nat /\ Times(j) \in Nat /\ d \in Nat
      BY CellFacts
    <3>3. CASE j = i
      BY <1>2, <1>3, <3>2, <3>3
    <3>4. CASE j # i
      BY <1>2, <1>3, <3>1, <3>2, <3>4
    <3> QED
      BY <3>3, <3>4
  <2> QED
    BY <2>1 DEF UpTo
<1>6. ASSUME NEW c \in Cell, NEW j \in Ids, NEW d \in 0 .. Times(j), UpTo(done2, c, j, d)
      PROVE  data2[c] = Before(j, d)[c]
  <2>1. CASE c = cell
    BY <1>2, <1>4, <1>5, <1>6, <2>1, UpToUnique
  <2>2. CASE c # cell
    <3>1. ASSUME NEW k \in Ids, NEW e \in 0 .. Times(k) - 1, Dst(k, e) = c
          PROVE  e < done[k] <=> k < j \/ (k = j /\ e < d)
      <4>1. e < done2[k] <=> k < j \/ (k = j /\ e < d)
        BY <1>6, <3>1 DEF UpTo
      <4>2. Times(k) \in Nat /\ e \in Nat
        BY CellFacts
      <4>3. CASE k = i
        <5>1. e # b
          BY <1>1, <2>2, <3>1, <4>3
        <5> QED
          BY <1>2, <1>3, <4>1, <4>2, <4>3, <5>1
      <4>4. CASE k # i
        BY <1>3, <4>1, <4>4
      <4> QED
        BY <4>3, <4>4
    <3>2. UpTo(done, c, j, d)
      BY <3>1 DEF UpTo
    <3> QED
      BY <1>3, <2>2, <3>2 DEF CellsRight
  <2> QED
    BY <2>1, <2>2
<1>7. CellsRight(done2, data2)
  BY <1>6 DEF CellsRight
<1> QED
  BY <1>1, <1>7

\* At the start no batch has been written.
LEMMA InitWritten == Init => \A i \in Ids : Written(i) = 0
<1> SUFFICES ASSUME Init, NEW i \in Ids PROVE Written(i) = 0
  OBVIOUS
<1>1. next_ins = 1 /\ i \in Nat /\ i >= 1
  BY CellFacts DEF Init
<1> QED
  BY <1>1 DEF Written, Progress

LEMMA InitData == Init => DataInv
<1> SUFFICES ASSUME Init PROVE DataInv
  OBVIOUS
<1>1. /\ data_ = [c \in Cell |-> c]
      /\ \A p \in LocalPaths : read[p] = Idle /\ write[p] = Idle
      /\ \A m \in Memories : access_queue[m] = <<>> /\ serving[m] = NoAccess
  BY DEF Init
<1>2. data_ \in [Cell -> Cell]
  BY <1>1
<1>3. NotOvertaken
  BY InitWritten DEF NotOvertaken
<1>4. CellsRight([i \in Ids |-> Written(i)], data_)
  <2> SUFFICES ASSUME NEW c \in Cell, NEW i \in Ids, NEW b \in 0 .. Times(i),
                      UpTo([j \in Ids |-> Written(j)], c, i, b)
               PROVE  data_[c] = Before(i, b)[c]
    BY DEF CellsRight
  <2>1. \A j \in Ids : j \in Nat \ {0} /\ Times(j) \in Nat
    BY CellFacts
  <2>2. \A j \in Ids : \A d \in 0 .. Times(j) - 1 :
          Dst(j, d) = c => ~ (j < i \/ (j = i /\ d < b))
    <3> SUFFICES ASSUME NEW j \in Ids, NEW d \in 0 .. Times(j) - 1, Dst(j, d) = c
                 PROVE  ~ (j < i \/ (j = i /\ d < b))
      OBVIOUS
    <3>1. Written(j) = 0 /\ ~ (d < 0)
      BY <2>1, InitWritten
    <3> QED
      BY <3>1 DEF UpTo
  <2>3. 1 \in Ids /\ InSequence[0] = [x \in Cell |-> x]
    BY <2>1, InSequenceFacts
  <2>4. Before(i, b)[c] = Before(1, 0)[c]
    <3>1. 0 \in 0 .. Times(1) /\ (1 < i \/ (1 = i /\ 0 <= b))
      BY <2>1, <2>3
    <3>2. \A k \in Ids : \A e \in 0 .. Times(k) - 1 :
            Dst(k, e) = c => \/ k < 1 \/ (k = 1 /\ e < 0)
                             \/ k > i \/ (k = i /\ e >= b)
      BY <2>1, <2>2
    <3> QED
      BY <2>3, <3>1, <3>2, Unwritten
  <2>5. Before(1, 0) = InSequence[0]
    BY <2>3, BeforeFacts
  <2> QED
    BY <1>1, <2>3, <2>4, <2>5
<1>5. ValuesRight
  BY <1>1, IdleFacts DEF ValuesRight, NoAccess
<1> QED
  BY <1>1, <1>2, <1>3, <1>4, <1>5 DEF DataInv

-----------------------------------------------------------------------------
(***************************************************************************)
(* The data, action by action.                                             *)
(***************************************************************************)
LEMMA CellsUnchanged ==
  ASSUME DataInv, data_' = data_, \A i \in Ids : Written(i)' = Written(i)
  PROVE  /\ data_' \in [Cell -> Cell]
         /\ CellsRight([i \in Ids |-> Written(i)], data_)'
         /\ Ids = {} => data_' = [c \in Cell |-> c]
<1>1. [i \in Ids |-> Written(i)]' = [i \in Ids |-> Written(i)]
  OBVIOUS
<1>2. CellsRight([i \in Ids |-> Written(i)]', data_')
  BY <1>1 DEF DataInv
<1>3. CellsRight([i \in Ids |-> Written(i)], data_)'
        = CellsRight([i \in Ids |-> Written(i)]', data_')
  BY DEF CellsRight, UpTo
<1> QED
  BY <1>2, <1>3 DEF DataInv

LEMMA NotOvertakenUnchanged ==
  ASSUME MemoryInv, NotOvertaken, access_queue' = access_queue,
         \A i \in Ids : Written(i)' = Written(i),
         \A a \in Request : Holder(a).at = "access" => Holder(a)'.ins = Holder(a).ins
  PROVE  NotOvertaken'
<1>1. ASSUME NEW m \in Memories, NEW k \in 1 .. Len(access_queue[m])
      PROVE  Holder(access_queue[m][k])'.ins = Holder(access_queue[m][k]).ins
  <2>1. PICK a : a = access_queue[m][k]
    OBVIOUS
  <2>2. a \in Request /\ Holder(a).at = "access"
    BY <2>1 DEF MemoryInv, Requests
  <2>3. Holder(access_queue[m][k])' = Holder(a)'
    BY <2>1 DEF Holder
  <2> QED
    BY <2>1, <2>2, <2>3
<1>2. ASSUME NEW m \in Memories, NEW k \in 1 .. Len(access_queue[m]), NEW j \in Ids,
             j > Holder(access_queue[m][k])'.ins, DstMemory(j) = m
      PROVE  Written(j)' = 0
  <2>1. j > Holder(access_queue[m][k]).ins
    BY <1>1, <1>2
  <2>2. Written(j) = 0
    BY <1>2, <2>1 DEF NotOvertaken
  <2> QED
    BY <2>2
<1>3. access_queue' = access_queue
  OBVIOUS
<1> QED
  BY <1>2, <1>3 DEF NotOvertaken

LEMMA AccessNotOvertaken ==
  ASSUME MemoryInv, NotOvertaken, NEW m \in Memories, NEW request \in Request,
         access_queue' = [access_queue EXCEPT ![m] = Append(@, request)],
         \A i \in Ids : Written(i)' = Written(i),
         \A a \in Request \cup Service : Holder(a).at = "access" => Holder(a)' = Holder(a),
         NEW i, Holder(request)'.ins = i,
         \A j \in Ids : j > i /\ DstMemory(j) = m => Written(j) = 0
  PROVE  NotOvertaken'
<1>1. PICK old, new, last :
        old = access_queue[m] /\ new = Append(old, request) /\ last = Len(old) + 1
  OBVIOUS
<1>2. /\ Len(old) \in Nat /\ new[last] = request
      /\ \A k \in 1 .. Len(old) : new[k] = old[k]
      /\ \A k \in 1 .. Len(new) : k \in 1 .. Len(old) \/ k = last
  <2>1. old \in Seq(Request)
    BY <1>1 DEF MemoryInv, Requests
  <2>2. Len(old) \in Nat /\ Len(new) = Len(old) + 1 /\ new[Len(old) + 1] = request
        /\ \A k \in 1 .. Len(old) : new[k] = old[k]
    BY <1>1, <2>1
  <2> QED
    BY <1>1, <2>2
<1>3. \A n \in Memories : access_queue'[n] = IF n = m THEN new ELSE access_queue[n]
  BY <1>1 DEF MemoryInv
<1>4. ASSUME NEW n \in Memories, NEW k \in 1 .. Len(access_queue'[n]), NEW j \in Ids,
             j > Holder(access_queue[n][k])'.ins, DstMemory(j) = n
      PROVE  Written(j)' = 0
  <2>1. CASE k \in 1 .. Len(access_queue[n])
    <3>1. PICK a : a = access_queue[n][k]
      OBVIOUS
    <3>2. access_queue'[n][k] = a
      BY <1>1, <1>2, <1>3, <2>1, <3>1
    <3>3. Holder(access_queue[n][k])' = Holder(a)'
      BY <3>2 DEF Holder
    <3>4. a \in Request /\ Holder(a).at = "access"
      <4>1. access_queue[n] \in Seq(Request)
        BY DEF MemoryInv, Requests
      <4>2. Holder(a).at = "access"
        BY <2>1, <3>1 DEF MemoryInv, Requests
      <4> QED
        BY <2>1, <3>1, <4>1, <4>2
    <3>5. j > Holder(access_queue[n][k]).ins
      BY <1>4, <3>1, <3>3, <3>4
    <3>6. Written(j) = 0
      BY <1>4, <2>1, <3>5 DEF NotOvertaken
    <3> QED
      BY <3>6
  <2>2. CASE n = m /\ k = last
    <3>1. access_queue'[n][k] = request
      BY <1>2, <1>3, <2>2
    <3>2. Holder(access_queue[n][k])' = Holder(request)'
      BY <3>1 DEF Holder
    <3>3. Written(j) = 0
      BY <1>4, <2>2, <3>2
    <3> QED
      BY <3>3
  <2> QED
    BY <1>1, <1>2, <1>3, <2>1, <2>2
<1> QED
  BY <1>4 DEF NotOvertaken

LEMMA StartReadData ==
  ASSUME LineInv, MemoryInv, DataInv, NEW path \in LocalPaths, StartRead(path)
  PROVE  DataInv'
<1>1. PICK s, i, b, m : s = issue[path] /\ i = s.ins /\ b = s.batch /\ m = SrcMemory(i)
  OBVIOUS
<1>2. PICK new : new = [ins |-> i, batch |-> b, at |-> "access"]
  OBVIOUS
<1>3. PICK request : request = [type |-> "read", path |-> path, cell |-> Src(i, b)]
  OBVIOUS
<1>4. /\ s.at = "batch" /\ read[path] = Idle
      /\ read' = [read EXCEPT ![path] = new] /\ write' = write
      /\ access_queue' = [access_queue EXCEPT ![m] = Append(@, request)] /\ serving' = serving
      /\ data_' = data_
  <2>1. Src(i, b)[1] = m
    BY <1>1 DEF Src, SrcMemory
  <2> QED
    BY <1>1, <1>2, <1>3, <2>1 DEF StartRead, Access
<1>5. /\ s # Idle /\ i \in Ids /\ b \in Nat /\ OnPath(s, path, unit, next_ins) /\ i \in Live
      /\ Younger(s, Idle, write[path], path, unit, next_ins) /\ next_ins \in Nat
  BY <1>1, <1>4, StageFacts, IdleFacts, InSequenceFacts
     DEF LineInv, IssueType, Paths, Holds, Types
<1>6. i < next_ins /\ DecodedPath(i) = path /\ b \in 0 .. Times(i) - 1
  BY <1>1, <1>5, CellFacts DEF OnPath
<1>7. m \in Memories /\ Src(i, b) \in Cell /\ request \in Request
  BY <1>1, <1>3, <1>5, <1>6, CellFacts DEF Request
<1>8. /\ new.at = "access" /\ new.ins = i
      /\ \A p \in LocalPaths : read'[p] = IF p = path THEN new ELSE read[p]
      /\ \A p \in LocalPaths : read[p].at = "access" => read'[p] = read[p]
  BY <1>2, <1>4, IdleFacts DEF LineInv, Types
<1>9. \A a \in Request \cup Service : Holder(a).at = "access" => Holder(a)' = Holder(a)
  BY <1>4, <1>8, HolderUnchanged
<1>10. \A j \in Ids : Written(j)' = Written(j)
  BY StartReadWritten
<1>11. ASSUME NEW j \in Ids, j > i, DstMemory(j) = m
       PROVE  Written(j) = 0
  <2>1. CASE j >= next_ins \/ j = unit
    BY <2>1 DEF Written, Progress
  <2>2. CASE j < next_ins /\ j # unit
    <3>1. DecodedPath(j) # path
      BY <1>1, <1>5, <1>11, <2>2 DEF Younger
    <3>2. ~ ConflictWithIns(ConflictInfo(i), ConflictInfo(j))
      <4>1. i < j
        BY <1>5, <1>11, CellFacts
      <4> QED
        BY <1>5, <2>2, <4>1 DEF LineInv, NoConflict
    <3> QED
      BY <1>1, <1>5, <1>6, <1>11, <3>1, <3>2, ConflictFacts
  <2>3. j \in Nat
    BY CellFacts
  <2> QED
    BY <1>5, <2>1, <2>2, <2>3
<1>12. NotOvertaken'
  <2>1. Holder(request)'.ins = i
    BY <1>3, <1>8 DEF Holder
  <2> QED
    BY <1>4, <1>7, <1>9, <1>10, <1>11, <2>1, AccessNotOvertaken DEF DataInv
<1>13. ValuesRight'
  <2>1. ASSUME NEW n \in Memories, serving[n].type = "read"
        PROVE  read'[serving[n].path] = read[serving[n].path]
    <3>1. serving[n] # NoAccess
      BY <2>1 DEF NoAccess
    <3>2. Holder(serving[n]).at = "access" /\ serving[n].path \in LocalPaths
      BY <3>1, ServiceFacts DEF Service
    <3> QED
      BY <1>8, <2>1, <3>2 DEF Holder
  <2> QED
    BY <1>4, <1>8, <2>1 DEF DataInv, ValuesRight
<1> QED
  BY <1>4, <1>10, <1>12, <1>13, CellsUnchanged DEF DataInv

LEMMA StartWriteData ==
  ASSUME LineInv, MemoryInv, DataInv, NEW path \in LocalPaths, StartWrite(path)
  PROVE  DataInv'
<1>1. PICK s, r, i, b, m :
        s = issue[path] /\ r = read[path] /\ i = r.ins /\ b = r.batch /\ m = DstMemory(i)
  OBVIOUS
<1>2. PICK new : new = [r EXCEPT !.at = "access"]
  OBVIOUS
<1>3. PICK request : request = [type |-> "write", path |-> path, cell |-> Dst(i, b),
                                data |-> r.data]
  OBVIOUS
<1>4. /\ r.at = "data" /\ write[path] = Idle
      /\ write' = [write EXCEPT ![path] = new] /\ read' = [read EXCEPT ![path] = Idle]
      /\ access_queue' = [access_queue EXCEPT ![m] = Append(@, request)] /\ serving' = serving
      /\ data_' = data_
  <2>1. Dst(i, b)[1] = m
    BY <1>1 DEF Dst, DstMemory
  <2> QED
    BY <1>1, <1>2, <1>3, <2>1 DEF StartWrite, Access
<1>5. /\ r # Idle /\ r \in ReadType /\ i \in Ids /\ b \in Nat /\ r.data \in Cell /\ i # 0
      /\ OnPath(r, path, unit, next_ins) /\ i \in Live
      /\ Chain(s, r, Idle) /\ Younger(s, r, Idle, path, unit, next_ins) /\ next_ins \in Nat
      /\ s # Idle => s.at \in {"batch", "wait_next_batch"}
  BY <1>1, <1>4, StageFacts, IdleFacts, InSequenceFacts DEF LineInv, Paths, Holds, Types
<1>6. i < next_ins /\ DecodedPath(i) = path /\ b \in 0 .. Times(i) - 1
  BY <1>1, <1>5, CellFacts DEF OnPath
<1>7. m \in Memories /\ Dst(i, b) \in Cell /\ request \in Request
  BY <1>1, <1>3, <1>5, <1>6, CellFacts DEF Request
<1>8. /\ new.at = "access" /\ new.ins = i /\ new.batch = b /\ new.data = r.data
      /\ \A p \in LocalPaths : read'[p] = IF p = path THEN Idle ELSE read[p]
      /\ \A p \in LocalPaths : write'[p] = IF p = path THEN new ELSE write[p]
      /\ \A p \in LocalPaths : read[p].at = "access" => read'[p] = read[p]
      /\ \A p \in LocalPaths : write[p].at = "access" => write'[p] = write[p]
  <2>1. new.at = "access" /\ new.ins = i /\ new.batch = b /\ new.data = r.data
    BY <1>1, <1>2, <1>4, <1>5 DEF ReadType
  <2> QED
    BY <1>1, <1>4, <2>1, IdleFacts DEF LineInv, Types
<1>9. \A a \in Request \cup Service : Holder(a).at = "access" => Holder(a)' = Holder(a)
  BY <1>8, HolderUnchanged
<1>10. \A j \in Ids : Written(j)' = Written(j)
  BY StartWriteWritten
<1>11. ASSUME NEW j \in Ids, j > i, DstMemory(j) = m
       PROVE  Written(j) = 0
  <2>1. CASE j >= next_ins \/ j = unit
    BY <2>1 DEF Written, Progress
  <2>2. CASE j < next_ins /\ j # unit /\ DecodedPath(j) # path
    <3>1. i < j
      BY <1>5, <1>11, CellFacts
    <3>2. ~ ConflictWithIns(ConflictInfo(i), ConflictInfo(j))
      BY <1>5, <2>2, <3>1 DEF LineInv, NoConflict
    <3> QED
      BY <1>1, <1>5, <1>6, <1>11, <2>2, <3>2, ConflictFacts
  <2>3. CASE j < next_ins /\ j # unit /\ DecodedPath(j) = path
    <3>1. j = s.ins
      BY <1>1, <1>5, <1>11, <2>3 DEF Younger
    <3>2. j # i /\ j # 0
      BY <1>5, <1>11, CellFacts
    <3>3. s.batch = 0
      BY <1>1, <1>5, <3>1, <3>2, IdleFacts DEF Chain, Follows, Alike
    <3> QED
      BY <1>1, <1>4, <2>3, <3>1, <3>2, <3>3, IdleFacts DEF Written, Progress
  <2>4. j \in Nat
    BY CellFacts
  <2> QED
    BY <1>5, <2>1, <2>2, <2>3, <2>4
<1>12. NotOvertaken'
  <2>1. Holder(request)'.ins = i
    BY <1>3, <1>8 DEF Holder
  <2> QED
    BY <1>4, <1>7, <1>9, <1>10, <1>11, <2>1, AccessNotOvertaken DEF DataInv
<1>13. ValuesRight'
  <2>1. ASSUME NEW n \in Memories, serving[n].type = "read"
        PROVE  read'[serving[n].path] = read[serving[n].path]
    <3>1. serving[n] # NoAccess
      BY <2>1 DEF NoAccess
    <3>2. Holder(serving[n]).at = "access" /\ serving[n].path \in LocalPaths
      BY <3>1, ServiceFacts DEF Service
    <3> QED
      BY <1>8, <2>1, <3>2 DEF Holder
  <2>2. r.data = Expected(i, b)
    BY <1>1, <1>4 DEF DataInv, ValuesRight
  <2>3. ASSUME NEW p \in LocalPaths
        PROVE  /\ read'[p].at = "data" => read'[p].data = Expected(read'[p].ins, read'[p].batch)
               /\ write'[p] # Idle => write'[p].data = Expected(write'[p].ins, write'[p].batch)
    BY <1>8, <2>2, IdleFacts DEF DataInv, ValuesRight
  <2>4. ASSUME NEW n \in Memories, serving'[n].type = "read"
        PROVE  serving'[n].data = Expected(read'[serving'[n].path].ins,
                                           read'[serving'[n].path].batch)
    BY <1>4, <2>1, <2>4 DEF DataInv, ValuesRight
  <2> QED
    BY <2>3, <2>4 DEF ValuesRight
<1> QED
  BY <1>4, <1>10, <1>12, <1>13, CellsUnchanged DEF DataInv

LEMMA EndWriteData ==
  ASSUME LineInv, MemoryInv, DataInv, NEW path \in LocalPaths, EndWrite(path)
  PROVE  DataInv'
<1>1. /\ write[path].at = "written" /\ write' = [write EXCEPT ![path] = Idle]
      /\ UNCHANGED <<read, access_queue, serving, data_>>
  BY DEF EndWrite, memory
<1>2. \A p \in LocalPaths : write'[p] = IF p = path THEN Idle ELSE write[p]
  BY <1>1 DEF LineInv, Types
<1>3. \A a \in Request \cup Service : Holder(a).at = "access" => Holder(a)' = Holder(a)
  BY <1>1, <1>2, HolderUnchanged
<1>4. \A i \in Ids : Written(i)' = Written(i)
  BY EndWriteWritten
<1>5. NotOvertaken'
  BY <1>1, <1>3, <1>4, NotOvertakenUnchanged DEF DataInv
<1>6. ValuesRight'
  BY <1>1, <1>2 DEF DataInv, ValuesRight
<1> QED
  BY <1>1, <1>4, <1>5, <1>6, CellsUnchanged DEF DataInv

LEMMA FinishAccessData ==
  ASSUME LineInv, MemoryInv, DataInv, NEW m \in Memories, FinishAccess(m)
  PROVE  DataInv'
<1>1. PICK service, q : service = serving[m] /\ q = service.path
  OBVIOUS
<1>2. /\ service # NoAccess /\ serving' = [serving EXCEPT ![m] = NoAccess]
      /\ UNCHANGED <<access_queue, data_>> /\ q \in LocalPaths
      /\ \A n \in Memories : serving'[n] = IF n = m THEN NoAccess ELSE serving[n]
  BY <1>1, FinishAccessFacts DEF FinishAccess, MemoryInv
<1>3. \/ /\ service.type = "read" /\ write' = write
         /\ \E new \in ReadType :
              /\ new.ins = read[q].ins /\ new.batch = read[q].batch /\ new.data = service.data
              /\ \A p \in LocalPaths : read'[p] = IF p = q THEN new ELSE read[p]
      \/ /\ service.type = "write" /\ read' = read /\ write[q] # Idle
         /\ \E new \in WriteType :
              /\ new.ins = write[q].ins /\ new.batch = write[q].batch
              /\ new.data = write[q].data
              /\ \A p \in LocalPaths : write'[p] = IF p = q THEN new ELSE write[p]
  BY <1>1, FinishAccessFacts
<1>4. \A p \in LocalPaths : /\ read'[p].ins = read[p].ins /\ read'[p].batch = read[p].batch
                            /\ write'[p].ins = write[p].ins /\ write'[p].batch = write[p].batch
  BY <1>3
<1>5. \A i \in Ids : Written(i)' = Written(i)
  BY FinishAccessWritten
<1>6. ASSUME NEW a \in Request
      PROVE  Holder(a)'.ins = Holder(a).ins
  <2>1. a.path \in LocalPaths
    BY DEF Request
  <2> QED
    BY <1>4, <2>1 DEF Holder
<1>7. NotOvertaken'
  BY <1>2, <1>5, <1>6, NotOvertakenUnchanged DEF DataInv
<1>8. ASSUME NEW n \in Memories, serving'[n].type = "read"
      PROVE  serving'[n].data = Expected(read'[serving'[n].path].ins,
                                         read'[serving'[n].path].batch)
  <2>1. n # m /\ serving'[n] = serving[n]
    BY <1>2, <1>8 DEF NoAccess
  <2>2. serving[n].path \in LocalPaths
    <3>1. serving[n] # NoAccess
      BY <1>8, <2>1 DEF NoAccess
    <3> QED
      BY <3>1, ServiceFacts DEF Service
  <2> QED
    BY <1>4, <1>8, <2>1, <2>2 DEF DataInv, ValuesRight
<1>9. ASSUME NEW p \in LocalPaths
      PROVE  /\ read'[p].at = "data" => read'[p].data = Expected(read'[p].ins, read'[p].batch)
             /\ write'[p] # Idle => write'[p].data = Expected(write'[p].ins, write'[p].batch)
  <2>1. CASE service.type = "read"
    <3>1. service.data = Expected(read[q].ins, read[q].batch)
      BY <1>1, <2>1 DEF DataInv, ValuesRight
    <3> QED
      BY <1>3, <2>1, <3>1 DEF DataInv, ValuesRight
  <2>2. CASE service.type = "write"
    BY <1>3, <2>2 DEF DataInv, ValuesRight
  <2> QED
    BY <1>3, <2>1, <2>2
<1>10. ValuesRight'
  BY <1>8, <1>9 DEF ValuesRight
<1> QED
  BY <1>2, <1>5, <1>7, <1>10, CellsUnchanged DEF DataInv

LEMMA ServeNotOvertaken ==
  ASSUME LineInv, MemoryInv, DataInv, NEW m \in Memories, Serve(m)
  PROVE  NotOvertaken'
<1>1. PICK head, stage : head = access_queue[m][1] /\ stage = Holder(head)
  OBVIOUS
<1>2. /\ 1 \in 1 .. Len(access_queue[m])
      /\ \A n \in Memories : n # m => access_queue'[n] = access_queue[n]
      /\ \A k \in 1 .. Len(access_queue'[m]) :
           /\ access_queue'[m][k] = access_queue[m][k + 1]
           /\ k + 1 \in 1 .. Len(access_queue[m])
      /\ UNCHANGED <<read, write>>
  BY ServeFacts DEF DataInv, Contents
<1>3. /\ head \in Request /\ stage.ins \in Ids /\ stage.ins \in Nat
      /\ head.type = "write" => m = DstMemory(stage.ins)
  BY <1>1, <1>2, RequestFacts, HolderFacts
<1>4. \A j \in Ids : Written(j)' = IF head.type = "write" /\ j = stage.ins
                                     THEN stage.batch + 1 ELSE Written(j)
  BY <1>1, ServeWritten DEF DataInv, Contents
<1>5. ASSUME NEW n \in Memories, NEW k \in 1 .. Len(access_queue'[n]), NEW j \in Ids,
             j > Holder(access_queue[n][k])'.ins, DstMemory(j) = n
      PROVE  Written(j)' = 0
  <2>1. PICK l \in 1 .. Len(access_queue[n]) :
          access_queue'[n][k] = access_queue[n][l] /\ (n = m => l = k + 1)
    BY <1>2
  <2>2. PICK a : a = access_queue[n][l]
    OBVIOUS
  <2>3. a \in Request /\ Holder(a).at = "access" /\ Holder(a).ins \in Nat
    BY <2>2, RequestFacts, HolderFacts
  <2>4. Holder(access_queue[n][k])' = Holder(a)
    BY <1>2, <2>1, <2>2 DEF Holder
  <2>5. j > Holder(a).ins /\ Written(j) = 0
    BY <1>5, <2>2, <2>4 DEF DataInv, NotOvertaken
  <2>6. ~ (head.type = "write" /\ j = stage.ins)
    <3> SUFFICES ASSUME head.type = "write", j = stage.ins PROVE FALSE
      OBVIOUS
    <3>1. n = m
      BY <1>3, <1>5
    <3>2. 1 < l
      BY <2>1, <3>1
    <3>3. Earlier(stage, Holder(a))
      BY <1>1, <1>2, <2>2, <3>1, <3>2 DEF MemoryInv, QueueInOrder
    <3> QED
      BY <1>3, <2>3, <2>5, <3>3 DEF Earlier
  <2> QED
    BY <1>4, <2>5, <2>6
<1> QED
  BY <1>5 DEF NotOvertaken

LEMMA ServeData ==
  ASSUME LineInv, MemoryInv, DataInv, NEW m \in Memories, Serve(m)
  PROVE  DataInv'
<1>1. data_ \in Contents
  BY DEF DataInv, Contents
<1>2. PICK head \in Request, new \in Service :
        /\ 1 \in 1 .. Len(access_queue[m]) /\ head = access_queue[m][1]
        /\ new.type = head.type /\ new.path = head.path
        /\ head.type = "read" => new.data = data_[head.cell] /\ data_' = data_
        /\ head.type = "write" => data_' = [data_ EXCEPT ![head.cell] = head.data]
        /\ \A n \in Memories : serving'[n] = IF n = m THEN new ELSE serving[n]
        /\ UNCHANGED <<read, write>>
  BY <1>1, ServeFacts
<1>3. PICK stage, i, b : stage = Holder(head) /\ i = stage.ins /\ b = stage.batch
  OBVIOUS
<1>4. PICK done : done = [k \in Ids |-> Written(k)]
  OBVIOUS
<1>5. /\ head.type \in {"read", "write"} /\ head.path \in LocalPaths /\ head.cell \in Cell
      /\ stage # Idle /\ i \in Ids /\ b \in 0 .. Times(i) - 1
      /\ head.type = "read" => head.cell = Src(i, b) /\ stage = read[head.path]
      /\ head.type = "write" => /\ head.cell = Dst(i, b) /\ stage = write[head.path]
                                /\ head.data = stage.data /\ head.data \in Cell
  <2>1. head.type \in {"read", "write"} /\ head.path \in LocalPaths /\ head.cell \in Cell
        /\ (head.type = "write" => head.data \in Cell)
    BY DEF Request
  <2>2. /\ stage.at = "access"
        /\ head.type = "read" => head.cell = Src(i, b)
        /\ head.type = "write" => head.cell = Dst(i, b) /\ head.data = stage.data
    BY <1>2, <1>3, RequestFacts
  <2>3. stage # Idle /\ i \in Ids /\ b \in 0 .. Times(i) - 1
    BY <1>3, <2>2, HolderFacts
  <2>4. /\ head.type = "read" => stage = read[head.path]
        /\ head.type = "write" => stage = write[head.path]
    BY <1>3 DEF Holder
  <2> QED
    BY <2>1, <2>2, <2>3, <2>4
<1>6. UpTo(done, head.cell, i, b) /\ CellsRight(done, data_)
  BY <1>2, <1>3, <1>4, ServedInSequence DEF DataInv
<1>7. \A j \in Ids : Written(j)' = IF head.type = "write" /\ j = i THEN b + 1 ELSE Written(j)
  BY <1>1, <1>2, <1>3, ServeWritten
<1>8. Before(i, b)[Src(i, b)] = Expected(i, b)
  BY DEF Before, Expected
<1>9. data_' \in [Cell -> Cell] /\ (Ids = {} => data_' = [c \in Cell |-> c])
  BY <1>1, <1>2, <1>5 DEF Contents
<1>10. CellsRight([j \in Ids |-> Written(j)], data_)'
  <2>1. PICK done2 : done2 = [j \in Ids |-> Written(j)']
    OBVIOUS
  <2>2. CellsRight(done2, data_')
    <3>1. CASE head.type = "read"
      <4>1. done2 = done
        BY <1>4, <1>7, <2>1, <3>1
      <4> QED
        BY <1>2, <1>6, <3>1, <4>1
    <3>2. CASE head.type = "write"
      <4>1. done \in [Ids -> Nat] /\ done[i] = b
        <5>1. \A j \in Ids : Written(j) \in Nat
          <6> SUFFICES ASSUME NEW j \in Ids PROVE Written(j) \in Nat
            OBVIOUS
          <6>1. DecodedPath(j) \in LocalPaths /\ Times(j) \in Nat /\ j # 0
            BY PathFacts, CellFacts
          <6>2. PICK p : p = DecodedPath(j)
            OBVIOUS
          <6>3. /\ write[p].ins = j => write[p].batch \in Nat
                /\ read[p].ins = j => read[p].batch \in Nat
                /\ issue[p].ins = j => issue[p].batch \in Nat
            BY <6>1, <6>2, StageFacts, IdleFacts DEF LineInv, IssueType, WriteType
          <6> QED
            BY <6>1, <6>2, <6>3 DEF Written, Progress
        <5>2. Written(i) = b
          BY <1>1, <1>2, <1>3, <3>2, ServeWritten
        <5> QED
          BY <1>4, <1>5, <5>1, <5>2
      <4>2. done2 = [done EXCEPT ![i] = b + 1]
        BY <1>4, <1>7, <2>1, <3>2
      <4>3. data_' = [data_ EXCEPT ![Dst(i, b)] = Before(i, b)[Src(i, b)]]
        <5>1. head.data = Expected(i, b)
          BY <1>3, <1>5, <3>2 DEF DataInv, ValuesRight
        <5> QED
          BY <1>2, <1>5, <1>8, <3>2, <5>1
      <4> QED
        BY <1>1, <1>5, <1>6, <3>2, <4>1, <4>2, <4>3, WriteRight
    <3> QED
      BY <1>5, <3>1, <3>2
  <2>3. CellsRight([j \in Ids |-> Written(j)], data_)' = CellsRight(done2, data_')
    BY <2>1 DEF CellsRight, UpTo
  <2> QED
    BY <2>2, <2>3
<1>11. ValuesRight'
  <2>1. head.type = "read" => new.data = Expected(i, b)
    <3> SUFFICES ASSUME head.type = "read" PROVE data_[head.cell] = Expected(i, b)
      BY <1>2
    <3>1. Times(i) \in Nat
      BY <1>5, CellFacts
    <3>2. data_[head.cell] = Before(i, b)[head.cell]
      BY <1>5, <1>6, <3>1 DEF CellsRight
    <3> QED
      BY <1>5, <1>8, <3>2
  <2>2. ASSUME NEW n \in Memories, serving'[n].type = "read"
        PROVE  serving'[n].data = Expected(read'[serving'[n].path].ins,
                                           read'[serving'[n].path].batch)
    <3>1. CASE n = m
      BY <1>2, <1>3, <1>5, <2>1, <2>2, <3>1
    <3>2. CASE n # m
      BY <1>2, <2>2, <3>2 DEF DataInv, ValuesRight
    <3> QED
      BY <3>1, <3>2
  <2> QED
    BY <1>2, <2>2 DEF DataInv, ValuesRight
<1>12. NotOvertaken'
  BY ServeNotOvertaken
<1> QED
  BY <1>9, <1>10, <1>11, <1>12 DEF DataInv

LEMMA NextData ==
  ASSUME LineInv, MemoryInv, DataInv, [Next]_vars
  PROVE  DataInv'
<1>1. CASE Take \/ HandOver \/ ProcessRelease \/ UNCHANGED vars
  <2>1. UNCHANGED <<read, write, access_queue, serving, data_>>
    BY <1>1 DEF Take, HandOver, ProcessRelease, vars, stages, memory
  <2>2. \A i \in Ids : Written(i)' = Written(i)
    <3>1. CASE UNCHANGED vars
      BY <3>1 DEF vars, stages, memory, Written, Progress
    <3> QED
      BY <1>1, <3>1, TakeWritten, HandOverWritten, ProcessReleaseWritten
  <2>3. \A a : Holder(a)' = Holder(a)
    BY <2>1 DEF Holder
  <2>4. NotOvertaken'
    BY <2>1, <2>2, <2>3, NotOvertakenUnchanged DEF DataInv
  <2>5. ValuesRight'
    BY <2>1 DEF DataInv, ValuesRight
  <2> QED
    BY <2>1, <2>2, <2>4, <2>5, CellsUnchanged DEF DataInv
<1>2. CASE \E p \in LocalPaths : StartRead(p) \/ StartWrite(p) \/ EndWrite(p)
  BY <1>2, StartReadData, StartWriteData, EndWriteData
<1>3. CASE \E m \in Memories : Serve(m) \/ FinishAccess(m)
  BY <1>3, ServeData, FinishAccessData
<1> QED
  BY <1>1, <1>2, <1>3 DEF Next, Path, MemoryProcess

-----------------------------------------------------------------------------
(***************************************************************************)
(* The theorems.                                                           *)
(***************************************************************************)
LEMMA Invariant == Spec => [](LineInv /\ MemoryInv /\ DataInv)
<1>1. Init => LineInv /\ MemoryInv /\ DataInv
  BY InitLine, InitMemory, InitData
<1>2. LineInv /\ MemoryInv /\ DataInv /\ [Next]_vars => (LineInv /\ MemoryInv /\ DataInv)'
  <2> SUFFICES ASSUME LineInv, MemoryInv, DataInv, [Next]_vars
               PROVE  LineInv' /\ MemoryInv' /\ DataInv'
    OBVIOUS
  <2>1. data_ \in Contents
    BY DEF DataInv, Contents
  <2> QED
    BY <2>1, NextLine, NextMemory, NextData
<1> QED
  BY <1>1, <1>2, PTL DEF Spec

\* An instruction whose resources are free has read all it reads, and of what it writes only
\* the last batch is under way (transfer_unit.cpp:77-79).
THEOREM FreedIsOverHolds == Spec => []FreedIsOver
<1>1. LineInv => FreedIsOver
  <2> SUFFICES ASSUME LineInv, NEW i \in Ids, i \notin booked \ release_list
               PROVE  /\ unit # i
                      /\ \A p \in LocalPaths :
                           /\ issue[p].ins # i /\ read[p].ins # i
                           /\ write[p].ins = i => LastBatch(write[p])
    BY DEF FreedIsOver
  <2>1. i \notin Live /\ i # 0
    BY IdleFacts DEF Live
  <2> QED
    BY <2>1, IdleFacts DEF LineInv, Holds
<1> QED
  BY <1>1, Invariant, PTL

\* However the transfers overlap, each batch carries what it would carry if they ran one
\* after the other, and memory ends as it would then: releasing at the start of the last
\* write lets nobody read too early.
THEOREM DataInSequenceHolds == Spec => []DataInSequence
<1>1. LineInv /\ DataInv => DataInSequence
  <2> SUFFICES ASSUME LineInv, DataInv, Done PROVE data_ = InSequence[Len(Program)]
    BY DEF DataInSequence, DataInv, ValuesRight
  <2>1. PICK n : n = Len(Program)
    OBVIOUS
  <2>2. n \in Nat /\ Ids = 1 .. n
    BY <2>1, InSequenceFacts
  <2>3. CASE n = 0
    BY <2>1, <2>2, <2>3, InSequenceFacts DEF DataInv
  <2>4. CASE n # 0
    <3>1. n \in Ids /\ Times(n) \in Nat
      BY <2>2, <2>4, CellFacts
    <3>2. ASSUME NEW i \in Ids
          PROVE  Written(i) = Times(i)
      <4>1. i < next_ins /\ i # unit /\ DecodedPath(i) \in LocalPaths
            /\ \A p \in LocalPaths : issue[p].ins # i /\ read[p].ins # i /\ write[p].ins # i
        BY PathFacts DEF LineInv, FinishedOver, Done
      <4>2. i \in Nat /\ next_ins \in Nat
        BY CellFacts, InSequenceFacts DEF LineInv, Types
      <4> QED
        BY <4>1, <4>2 DEF Written, Progress
    <3>3. ASSUME NEW c \in Cell
          PROVE  data_[c] = Before(n, Times(n))[c]
      <4>1. UpTo([i \in Ids |-> Written(i)], c, n, Times(n))
        <5>1. ASSUME NEW j \in Ids, NEW d \in 0 .. Times(j) - 1
              PROVE  d < Written(j) /\ (j < n \/ (j = n /\ d < Times(n)))
          <6>1. Written(j) = Times(j) /\ j \in Nat /\ Times(j) \in Nat /\ j <= n
            BY <2>2, <3>2, CellFacts
          <6> QED
            BY <2>2, <6>1
        <5> QED
          BY <5>1 DEF UpTo
      <4>2. Times(n) \in 0 .. Times(n)
        BY <3>1
      <4> QED
        BY <3>1, <4>1, <4>2 DEF DataInv, CellsRight
    <3>4. InSequence[n] = Before(n, Times(n)) /\ InSequence[n] \in [Cell -> Cell]
      <4>1. Times(n) \in 0 .. Times(n)
        BY <3>1
      <4> QED
        BY <3>1, <4>1, BeforeFacts DEF Contents
    <3> QED
      BY <2>1, <3>3, <3>4 DEF DataInv
  <2> QED
    BY <2>3, <2>4
<1> QED
  BY <1>1, Invariant, PTL

\* Every stage holds a batch of a transfer, every access a cell of its memory.
THEOREM TypeOKHolds == Spec => []TypeOK
<1>1. ASSUME LineInv, MemoryInv, DataInv PROVE TypeOK
  <2>1. ASSUME NEW i \in Ids, NEW b \in Nat, b < Times(i)
        PROVE  \E x \in Batches : x[1] = i /\ x[2] = b
    <3>1. b \in 0 .. Program[i].process_times - 1
      BY <2>1, CellFacts DEF Times
    <3>2. <<i, b>> \in {i} \X (0 .. Program[i].process_times - 1)
      BY <3>1
    <3>3. <<i, b>> \in Batches
      BY <3>2 DEF Batches
    <3> QED
      BY <3>3
  <2>2. ASSUME NEW p \in LocalPaths
        PROVE  /\ issue[p] \in {Idle} \cup Stage("batch") \cup Stage("wait_next_batch")
               /\ read[p] \in {Idle} \cup Stage("access") \cup DataStage({"data"})
               /\ write[p] \in {Idle} \cup DataStage({"access", "written"})
    <3>1. PICK s, r, w : s = issue[p] /\ r = read[p] /\ w = write[p]
      OBVIOUS
    <3>2. /\ s \in {Idle} \cup IssueType /\ r \in {Idle} \cup ReadType
          /\ w \in {Idle} \cup WriteType
          /\ s # Idle => s.batch < Times(s.ins)
          /\ r # Idle => r.batch < Times(r.ins)
          /\ w # Idle => w.batch < Times(w.ins)
      BY <1>1, <3>1 DEF LineInv, Types, Paths, OnPath
    <3>3. ASSUME s # Idle
          PROVE  s \in Stage("batch") \cup Stage("wait_next_batch")
      <4>1. s \in IssueType
        BY <3>2, <3>3
      <4>2. s = [ins |-> s.ins, batch |-> s.batch, at |-> s.at] /\ s.ins \in Ids
            /\ s.batch \in Nat /\ s.at \in {"batch", "wait_next_batch"}
        BY <4>1 DEF IssueType
      <4>3. PICK x \in Batches : x[1] = s.ins /\ x[2] = s.batch
        BY <2>1, <3>2, <3>3, <4>2
      <4>4. s = [ins |-> x[1], batch |-> x[2], at |-> s.at]
        BY <4>2, <4>3
      <4>5. s \in Stage(s.at)
        BY <4>4 DEF Stage
      <4> QED
        BY <4>2, <4>5
    <3>4. ASSUME r # Idle
          PROVE  r \in Stage("access") \cup DataStage({"data"})
      <4>1. r \in ReadType
        BY <3>2, <3>4
      <4>2. r.ins \in Ids /\ r.batch \in Nat
            /\ \/ r = [ins |-> r.ins, batch |-> r.batch, at |-> "access"]
               \/ /\ r = [ins |-> r.ins, batch |-> r.batch, at |-> "data", data |-> r.data]
                  /\ r.data \in Cell
        BY <4>1 DEF ReadType
      <4>3. PICK x \in Batches : x[1] = r.ins /\ x[2] = r.batch
        BY <2>1, <3>2, <3>4, <4>2
      <4>4. CASE r = [ins |-> x[1], batch |-> x[2], at |-> "access"]
        BY <4>4 DEF Stage
      <4>5. CASE /\ r = [ins |-> x[1], batch |-> x[2], at |-> "data", data |-> r.data]
                 /\ r.data \in Cell
        BY <4>5 DEF DataStage
      <4> QED
        BY <4>2, <4>3, <4>4, <4>5
    <3>5. ASSUME w # Idle
          PROVE  w \in DataStage({"access", "written"})
      <4>1. w \in WriteType
        BY <3>2, <3>5
      <4>2. w = [ins |-> w.ins, batch |-> w.batch, at |-> w.at, data |-> w.data]
            /\ w.ins \in Ids /\ w.batch \in Nat /\ w.at \in {"access", "written"}
            /\ w.data \in Cell
        BY <4>1 DEF WriteType
      <4>3. PICK x \in Batches : x[1] = w.ins /\ x[2] = w.batch
        BY <2>1, <3>2, <3>5, <4>2
      <4>4. w = [ins |-> x[1], batch |-> x[2], at |-> w.at, data |-> w.data]
        BY <4>2, <4>3
      <4> QED
        BY <4>2, <4>4 DEF DataStage
    <3> QED
      BY <3>1, <3>3, <3>4, <3>5
  <2>3. ASSUME NEW m \in Memories, NEW k \in DOMAIN access_queue[m]
        PROVE  access_queue[m][k].cell \in {m} \X Cells
    <3>1. access_queue[m] \in Seq(Request)
      BY <1>1 DEF MemoryInv, Requests
    <3>2. k \in 1 .. Len(access_queue[m])
      BY <3>1
    <3>3. PICK a : a = access_queue[m][k]
      OBVIOUS
    <3>4. a.cell \in Cell /\ a.cell[1] = m
      BY <1>1, <3>2, <3>3, RequestFacts
    <3> QED
      BY <3>3, <3>4 DEF Cell
  <2>4. /\ next_ins \in 1 .. Len(Program) + 1 /\ unit \in Ids \cup {0}
        /\ booked \subseteq Ids /\ release_list \subseteq booked /\ finished \subseteq Ids
    BY <1>1 DEF LineInv, Types, FinishedOver
  <2> QED
    BY <1>1, <2>2, <2>3, <2>4 DEF TypeOK, DataInv
<1> QED
  BY <1>1, Invariant, PTL

=============================================================================
