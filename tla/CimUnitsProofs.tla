---------------------------- MODULE CimUnitsProofs ----------------------------
(***************************************************************************)
(* CimUnits is proved correct for any number of macro groups and macros,   *)
(* any memories and any programs: types, the reads that an instruction     *)
(* waits for, the activation that it finds in its last group, whatever the *)
(* latencies; then, for pipelines no stage of which is slower than the IPU *)
(* (StagesInTime), what depends on how long something takes.               *)
(*                                                                         *)
(* The activation.  An instruction of the one unit is not taken while one  *)
(* of the other holds resources, since all of them use the CIM unit        *)
(* (Apart).  A compute instruction holds them until its last batch is in   *)
(* the last stage of its last group (InLine), so while it looks for active *)
(* macros there no set_activation after it has begun, and every one before *)
(* it is over (ActiveOK).                                                  *)
(*                                                                         *)
(* The times.  In such a pipeline batches keep the distance at which they  *)
(* were issued, and a macro issues its own while its group does, so when   *)
(* time goes on nothing waits (Pipelined), and a group has looked at all   *)
(* of its macros in the cycle in which it was given its part               *)
(* (MacrosFirst).  All groups and macros together need no longer for an    *)
(* instruction than the last batch of its last group (LastIsOver): what    *)
(* that one reports is true.  A result adder of a cycle at most is left in *)
(* the cycle after the release, the first in which a control instruction   *)
(* can have left decode (LeavesInTime).                                    *)
(***************************************************************************)
EXTENDS CimUnits, FiniteSetTheorems, SequenceTheorems, WellFoundedInduction, TLAPS

-----------------------------------------------------------------------------
(***************************************************************************)
(* The inductive invariant: types.                                         *)
(***************************************************************************)
Id == Nat \ {0}

Threads == {"sub", "mask", "meta", "control"}

AccessType == [who : Threads, left : Nat]

SubType ==
  {Idle} \cup [ins : Id, at : {"reading"}]
         \cup [ins : Id, at : {"access", "run", "network"}, group : Nat, left : Nat]

ControlType ==
  {Idle} \cup [ins : Id, at : {"read", "have_read", "sum", "write", "written"}, left : Nat]

IpuType ==
  {Idle} \cup [ins : Id, at : {"macros"}, macro : Macros]
         \cup [ins : Id, at : {"ipu"}, batch : Nat, count : Nat, left : Nat]

StageType == {Idle} \cup [ins : Id, at : {"execute"}, last : BOOLEAN, left : Nat]

\* The instructions of a unit that have left decode.
TakenBy(u) == {i \in 1 .. next_ins - 1 : program[i].unit = u}

FrontTypes ==
  /\ program \in Programs
  /\ next_ins \in 1 .. Len(program) + 1
  /\ starting # 0 => starting = next_ins /\ starting \in Ids
  /\ issue \in [Units -> Nat]
  /\ \A u \in Units : issue[u] # 0 => issue[u] \in TakenBy(u)
  /\ booked \subseteq 1 .. next_ins - 1 /\ finished \subseteq 1 .. next_ins - 1

SubTypes ==
  /\ sub \in SubType
  /\ sub # Idle => sub.ins \in TakenBy("cim_compute")
  /\ sub # Idle /\ sub.at # "reading" => sub.group < GroupCnt(sub.ins)
  /\ sub.at = "access" => sub.left # 0

ControlTypes ==
  /\ control \in ControlType
  /\ control # Idle => control.ins \in TakenBy("cim_control")
  /\ control.at = "sum" => program[control.ins].op # "set_activation"

Queues == [Memories -> Seq(AccessType)]

\* No access takes longer than its memory does.
InTime(q) == \A m \in Memories : \A a \in 1 .. Len(q[m]) : q[m][a].left <= AccessTime[m]

QueueTypes == queue \in Queues /\ InTime(queue)

GroupTypes ==
  /\ ipu \in [Groups -> [Pipelines -> IpuType]]
  /\ stage \in [Groups -> [Pipelines -> [Stages -> StageType]]]
  /\ \A g \in Groups : \A n \in Pipelines :
       /\ ipu[g][n] # Idle => ipu[g][n].ins \in TakenBy("cim_compute")
       /\ \A k \in Stages :
            stage[g][n][k] # Idle => stage[g][n][k].ins \in TakenBy("cim_compute")
  /\ active \in [Groups -> SUBSET Macros]

-----------------------------------------------------------------------------
(***************************************************************************)
(* What holds resources, and what does not any more.                       *)
(***************************************************************************)
\* Of what the threads W ask for, one access is under way at most; and whether one of who is.
Sole(q, W) ==
  \A m, o \in Memories : \A a \in 1 .. Len(q[m]), b \in 1 .. Len(q[o]) :
    q[m][a].who \in W /\ q[o][b].who \in W => o = m /\ b = a

Asks(q, who) == \E m \in Memories : \E a \in 1 .. Len(q[m]) : q[m][a].who = who

\* The control unit waits for its one access.
ControlAccess ==
  /\ Sole(queue, {"control"})
  /\ Asks(queue, "control") => control.at \in {"read", "write"}

\* What is released: an output that writes, a computation in the last stage.
Released ==
  /\ finished \cap booked = {}
  /\ control.at \in {"write", "written"} => control.ins \notin booked
  /\ \A g \in Groups : \A k \in Stages :
       stage[g][0][k] # Idle =>
         /\ k > ShiftAdder => stage[g][0][k].last
         /\ k = Len(StageLatency) /\ LastGroup(g, stage[g][0][k].ins) =>
              stage[g][0][k].ins \notin booked

\* Nobody is taken while an instruction of the other unit holds the CIM unit.
Apart ==
  /\ \A i \in booked : \A j \in 1 .. next_ins - 1 : i < j => program[j].unit = program[i].unit
  /\ starting # 0 => /\ issue[program[starting].unit] = 0
                     /\ \A i \in booked : program[i].unit = program[starting].unit

\* The control unit runs one instruction after the other, and each holds resources until
\* it writes or sets.
ControlInOrder ==
  /\ issue["cim_control"] # 0 =>
       /\ issue["cim_control"] \in booked
       /\ \A i \in TakenBy("cim_control") : i <= issue["cim_control"]
  /\ control # Idle =>
       /\ control.ins # issue["cim_control"]
       /\ \A i \in TakenBy("cim_control") : i <= control.ins \/ i = issue["cim_control"]
  /\ control.at \in {"read", "have_read", "sum"} => control.ins \in booked
  /\ \A i \in TakenBy("cim_control") : i \in booked => i \in {issue["cim_control"], control.ins}

\* The group has been given its part of the instruction of processSubIns.
Given(g) ==
  /\ sub.at \in {"access", "run", "network"}
  /\ sub.group > g \/ (sub.group = g /\ sub.at = "network")

\* A compute instruction holds resources until its last batch is in the last stage of its
\* last group, and comes to each group once.
InLine ==
  /\ issue["cim_compute"] # 0 => issue["cim_compute"] \in booked
  /\ sub # Idle => sub.ins # issue["cim_compute"]
  /\ sub # Idle /\ (sub.at = "network" => ~ LastGroup(sub.group, sub.ins)) => sub.ins \in booked
  /\ \A g \in Groups :
       /\ ipu[g][0] # Idle =>
            /\ ipu[g][0].ins # issue["cim_compute"]
            /\ ipu[g][0].ins = sub.ins => Given(g)
            /\ LastGroup(g, ipu[g][0].ins) => ipu[g][0].ins \in booked
       /\ \A k \in Stages :
            stage[g][0][k] # Idle =>
              /\ stage[g][0][k].ins # issue["cim_compute"]
              /\ stage[g][0][k].ins = sub.ins => Given(g)
              /\ stage[g][0][k].last => ipu[g][0].ins # stage[g][0][k].ins

\* The instructions that have set the activation of group g.
Sets(g) ==
  {j \in TakenBy("cim_control") : /\ program[j].op = "set_activation" /\ g \in program[j].groups
                                  /\ j \notin booked}

ActiveOK ==
  \A g \in Groups :
    active[g] = IF Sets(g) = {} THEN Macros ELSE program[Max(Sets(g))].columns

\* The inductive invariant.
IInv ==
  /\ FrontTypes /\ SubTypes /\ ControlTypes /\ QueueTypes /\ GroupTypes
  /\ ControlAccess /\ Released /\ Apart /\ ControlInOrder /\ InLine /\ ActiveOK

-----------------------------------------------------------------------------
(***************************************************************************)
(* The constants, and the operators of the model.                          *)
(***************************************************************************)
\* Groups are numbered from 0.
LEMMA GroupFacts ==
  /\ Cardinality(Groups) \in Nat \ {0}
  /\ Groups = 0 .. Cardinality(Groups) - 1
<1>1. CASE MacroSimulation
  <2>1. Groups = 0 .. 0
    BY <1>1 DEF Groups
  <2>2. Cardinality(0 .. 0) = IF 0 > 0 THEN 0 ELSE 0 - 0 + 1
    <3> HIDE DEF Groups
    <3>1. 0 \in Int
      OBVIOUS
    <3>2. QED
      BY <3>1, FS_Interval
  <2>3. QED
    BY <2>1, <2>2
<1>2. CASE ~ MacroSimulation
  <2>1. ConfigGroupCnt \in Nat \ {0} /\ Groups = 0 .. ConfigGroupCnt - 1
    BY <1>2, SizeAssumption DEF Groups
  <2>2. Cardinality(0 .. ConfigGroupCnt - 1) = ConfigGroupCnt
    BY <2>1, FS_Interval
  <2>3. QED
    BY <2>1, <2>2
<1>3. QED
  BY <1>1, <1>2

LEMMA StageFacts ==
  /\ Len(StageLatency) \in Nat /\ ShiftAdder \in Nat
  /\ Stages = 1 .. Len(StageLatency)
  /\ ShiftAdder >= 1 /\ ShiftAdder < Len(StageLatency)
  /\ \A k \in Stages : k \in Nat /\ StageLatency[k] \in Nat
BY LatencyAssumption DEF Stages

LEMMA PipelineFacts ==
  0 \in Pipelines /\ Macros \subseteq Pipelines /\ 1 \in Macros /\ Macros \subseteq Nat
<1>1. PICK n : n = Cardinality(Macros)
  OBVIOUS
<1>2. 1 \in Macros /\ Macros = 1 .. n
  BY <1>1, SizeAssumption
<1>3. Macros \subseteq Nat
  BY <1>2
<1>4. QED
  BY <1>2, <1>3 DEF Pipelines

LEMMA MinFacts ==
  ASSUME NEW a \in Nat, NEW b \in Nat
  PROVE  Min({a, b}) \in Nat /\ Min({a, b}) <= b /\ (a > 0 /\ b > 0 => Min({a, b}) > 0)
<1>1. \E x \in {a, b} : \A y \in {a, b} : x <= y
  <2>1. CASE a <= b
    BY <2>1
  <2>2. CASE b <= a
    BY <2>2
  <2>3. QED
    BY <2>1, <2>2
<1>2. Min({a, b}) \in {a, b} /\ \A y \in {a, b} : Min({a, b}) <= y
  BY <1>1 DEF Min
<1>3. QED
  BY <1>2

\* The largest of a set of numbers, if it is known.
LEMMA MaxIs ==
  ASSUME NEW S \in SUBSET Nat, NEW n \in S, \A k \in S : k <= n
  PROVE  Max(S) = n
<1>1. \E x \in S : \A y \in S : x >= y
  OBVIOUS
<1>2. Max(S) \in S /\ \A y \in S : Max(S) >= y
  BY <1>1 DEF Max
<1>3. Max(S) \in Nat /\ n \in Nat /\ Max(S) <= n /\ Max(S) >= n
  BY <1>2
<1>4. QED
  BY <1>3

\* What the program says of an instruction.
LEMMA ProgramFacts ==
  ASSUME FrontTypes, NEW i \in Ids
  PROVE  /\ Ids = 1 .. Len(program) /\ Len(program) \in Nat /\ i \in Nat \ {0}
         /\ program[i].unit \in Units
         /\ program[i].unit = "cim_compute" =>
              /\ program[i].input \in Memories
              /\ program[i].mask \in Memories /\ program[i].meta \in Memories
              /\ program[i].activation_group_num \in Nat \ {0}
              /\ program[i].input_bit_width \in Nat \ {0}
         /\ program[i].unit = "cim_control" =>
              /\ program[i].op \in Operators
              /\ program[i].mask \in Memories /\ program[i].output \in Memories
              /\ program[i].columns \subseteq Macros
<1>1. program \in Programs
  BY DEF FrontTypes
<1>2. Ids = 1 .. Len(program) /\ Len(program) \in Nat
  BY <1>1, ProgramsAssumption DEF Ids
<1>3. \/ /\ program[i].unit = "cim_compute"
         /\ {program[i].input, program[i].mask, program[i].meta} \subseteq Memories
         /\ {program[i].activation_group_num, program[i].input_bit_width} \subseteq Nat \ {0}
      \/ /\ program[i].unit = "cim_control" /\ program[i].op \in Operators
         /\ {program[i].mask, program[i].output} \subseteq Memories
         /\ program[i].columns \subseteq Macros
  BY <1>1, ProgramsAssumption DEF Ids
<1>4. QED
  BY <1>2, <1>3 DEF Units

LEMMA TakenFacts ==
  ASSUME FrontTypes
  PROVE  /\ next_ins \in Nat \ {0} /\ 1 .. next_ins - 1 \subseteq Ids /\ Ids \subseteq Id
         /\ \A u : \A i \in TakenBy(u) : i \in Ids /\ i < next_ins /\ program[i].unit = u
<1>1. Ids = 1 .. Len(program) /\ Len(program) \in Nat
  BY ProgramsAssumption DEF FrontTypes, Ids
<1>2. next_ins \in 1 .. Len(program) + 1
  BY DEF FrontTypes
<1>3. QED
  BY <1>1, <1>2 DEF TakenBy, Id

LEMMA GroupCntFacts ==
  ASSUME FrontTypes, NEW i \in Ids, program[i].unit = "cim_compute"
  PROVE  GroupCnt(i) \in Nat \ {0} /\ GroupCnt(i) <= Cardinality(Groups) /\ InputReads(i) \in Nat
<1>1. program[i].activation_group_num \in Nat \ {0} /\ ConfigGroupCnt \in Nat \ {0}
  BY ProgramFacts, SizeAssumption
<1>2. InputReads(i) \in Nat
  BY <1>1, MinFacts DEF InputReads
<1>3. Cardinality(Groups) \in Nat \ {0}
  BY GroupFacts
<1>4. QED
  BY <1>1, <1>2, <1>3, MinFacts DEF GroupCnt

\* Instructions of the two units always conflict: all of them use the CIM unit.
LEMMA UnitsConflict ==
  ASSUME NEW i, NEW j, program[i].unit # program[j].unit
  PROVE  ConflictWithIns(ConflictInfo(j), ConflictInfo(i))
<1>1. Cim \in Used(ConflictInfo(i)) /\ Cim \in Used(ConflictInfo(j))
  BY DEF Used, ConflictInfo, ReadOf
<1>2. ConflictInfo(i).unit = program[i].unit /\ ConflictInfo(j).unit = program[j].unit
  BY DEF ConflictInfo
<1>3. QED
  BY <1>1, <1>2 DEF ConflictWithIns, Intersects

\* A thread that has something to do has an instruction.
LEMMA KindFacts ==
  /\ Idle.ins = 0 /\ Idle.at = "idle"
  /\ \A s \in SubType : s # Idle => s.ins # 0 /\ s.at \in {"reading", "access", "run", "network"}
  /\ \A s \in SubType : s.at \in {"access", "run", "network"} => s.group \in Nat /\ s.left \in Nat
  /\ \A s \in ControlType :
       s # Idle => s.ins # 0 /\ s.at \in {"read", "have_read", "sum", "write", "written"} /\ s.left \in Nat
  /\ \A s \in IpuType : s # Idle => s.ins # 0 /\ s.at \in {"macros", "ipu"}
  /\ \A s \in StageType : s # Idle => s.ins # 0 /\ s.last \in BOOLEAN /\ s.left \in Nat
BY DEF Idle, SubType, ControlType, IpuType, StageType, Id

-----------------------------------------------------------------------------
(***************************************************************************)
(* The queues of the memories.                                             *)
(***************************************************************************)
\* An access is added.
LEMMA AskingEntries ==
  ASSUME NEW q \in Queues, NEW m \in Memories, NEW who \in Threads
  PROVE  /\ Asking(q, who, m) \in Queues
         /\ \A o \in Memories : \A a \in 1 .. Len(Asking(q, who, m)[o]) :
              \/ a \in 1 .. Len(q[o]) /\ Asking(q, who, m)[o][a] = q[o][a]
              \/ o = m /\ a = Len(q[m]) + 1 /\ Asking(q, who, m)[o][a] = Access(who, m)
<1>1. Access(who, m) \in AccessType
  BY LatencyAssumption DEF Access, AccessType
<1>2. PICK e : e = Access(who, m)
  OBVIOUS
<1>3. Asking(q, who, m) = [q EXCEPT ![m] = Append(q[m], e)]
  BY <1>2 DEF Asking
<1>4. e \in AccessType /\ q[m] \in Seq(AccessType)
  BY <1>1, <1>2 DEF Queues
<1>5. /\ Append(q[m], e) \in Seq(AccessType) /\ Len(Append(q[m], e)) = Len(q[m]) + 1
      /\ \A a \in 1 .. Len(q[m]) : Append(q[m], e)[a] = q[m][a]
      /\ Append(q[m], e)[Len(q[m]) + 1] = e /\ Len(q[m]) \in Nat
  BY <1>4
<1>6. Asking(q, who, m) \in Queues
  BY <1>3, <1>5 DEF Queues
<1>7. ASSUME NEW o \in Memories, NEW a \in 1 .. Len(Asking(q, who, m)[o])
      PROVE  \/ a \in 1 .. Len(q[o]) /\ Asking(q, who, m)[o][a] = q[o][a]
             \/ o = m /\ a = Len(q[m]) + 1 /\ Asking(q, who, m)[o][a] = e
  <2>1. CASE o = m
    <3>1. Asking(q, who, m)[o] = Append(q[m], e)
      BY <1>3, <2>1 DEF Queues
    <3>2. a \in 1 .. Len(q[m]) \/ a = Len(q[m]) + 1
      BY <1>5, <3>1
    <3>3. QED
      BY <1>5, <2>1, <3>1, <3>2
  <2>2. CASE o # m
    BY <1>3, <2>2 DEF Queues
  <2>3. QED
    BY <2>1, <2>2
<1>8. QED
  BY <1>2, <1>6, <1>7

LEMMA AskingFacts ==
  ASSUME NEW q \in Queues, InTime(q), NEW m \in Memories, NEW who \in Threads
  PROVE  /\ Asking(q, who, m) \in Queues /\ InTime(Asking(q, who, m))
         /\ \A w : Asks(Asking(q, who, m), w) => Asks(q, w) \/ w = who
         /\ \A W : Sole(q, W) /\ (who \in W => \A w \in W : ~ Asks(q, w)) =>
              Sole(Asking(q, who, m), W)
<1>1. PICK r : r = Asking(q, who, m)
  OBVIOUS
<1>2. r \in Queues
  BY <1>1, AskingEntries
<1>3. \A o \in Memories : \A a \in 1 .. Len(r[o]) :
        \/ a \in 1 .. Len(q[o]) /\ r[o][a] = q[o][a]
        \/ o = m /\ a = Len(q[m]) + 1 /\ r[o][a] = Access(who, m)
  BY <1>1, AskingEntries
<1>4. Access(who, m).who = who /\ Access(who, m).left = AccessTime[m] /\ AccessTime[m] \in Nat
  BY LatencyAssumption DEF Access
<1>5. InTime(r)
  BY <1>3, <1>4 DEF InTime
<1>6. ASSUME NEW w, Asks(r, w)
      PROVE  Asks(q, w) \/ w = who
  BY <1>3, <1>4, <1>6 DEF Asks
<1>7. ASSUME NEW W, Sole(q, W), who \in W => \A w \in W : ~ Asks(q, w),
             NEW n \in Memories, NEW o \in Memories,
             NEW a \in 1 .. Len(r[n]), NEW b \in 1 .. Len(r[o]),
             r[n][a].who \in W, r[o][b].who \in W
      PROVE  o = n /\ b = a
  <2>1. CASE who \in W
    <3>1. \A p \in Memories : \A c \in 1 .. Len(q[p]) : q[p][c].who \notin W
      BY <1>7, <2>1 DEF Asks
    <3>2. n = m /\ a = Len(q[m]) + 1 /\ o = m /\ b = Len(q[m]) + 1
      BY <1>3, <1>7, <3>1
    <3>3. QED
      BY <3>2
  <2>2. CASE who \notin W
    <3>1. a \in 1 .. Len(q[n]) /\ r[n][a] = q[n][a]
      BY <1>3, <1>4, <1>7, <2>2
    <3>2. b \in 1 .. Len(q[o]) /\ r[o][b] = q[o][b]
      BY <1>3, <1>4, <1>7, <2>2
    <3>3. QED
      BY <1>7, <3>1, <3>2 DEF Sole
  <2>3. QED
    BY <2>1, <2>2
<1>8. QED
  BY <1>1, <1>2, <1>5, <1>6, <1>7 DEF Sole

\* The input of a group is asked for if there is one more.
LEMMA AskInputFacts ==
  ASSUME NEW q \in Queues, InTime(q), NEW i, program[i].input \in Memories, NEW left
  PROVE  /\ AskInput(q, i, left) \in Queues /\ InTime(AskInput(q, i, left))
         /\ \A w : Asks(AskInput(q, i, left), w) => Asks(q, w) \/ (w = "sub" /\ left # 0)
         /\ \A W : Sole(q, W) /\ ("sub" \in W => \A w \in W : ~ Asks(q, w)) =>
              Sole(AskInput(q, i, left), W)
<1>1. CASE left = 0
  BY <1>1 DEF AskInput
<1>2. CASE left # 0
  <2>1. AskInput(q, i, left) = Asking(q, "sub", program[i].input)
    BY <1>2 DEF AskInput
  <2>2. "sub" \in Threads
    BY DEF Threads
  <2>3. QED
    BY <1>2, <2>1, <2>2, AskingFacts
<1>3. QED
  BY <1>1, <1>2

\* An access has ended.
Rest(q, m) == [q EXCEPT ![m] = Tail(@)]

LEMMA RestFacts ==
  ASSUME NEW q \in Queues, InTime(q), NEW m \in Memories, q[m] # <<>>
  PROVE  /\ Rest(q, m) \in Queues /\ InTime(Rest(q, m))
         /\ \A w : Asks(Rest(q, m), w) => Asks(q, w)
         /\ \A W : Sole(q, W) => Sole(Rest(q, m), W)
         /\ \A W : Sole(q, W) /\ Head(q[m]).who \in W => \A w \in W : ~ Asks(Rest(q, m), w)
         /\ Asks(q, Head(q[m]).who) /\ Head(q[m]).who \in Threads
<1> DEFINE r == Rest(q, m)
<1>0. r = [q EXCEPT ![m] = Tail(q[m])]
  BY DEF Rest
<1> HIDE DEF r
<1>1. /\ q[m] \in Seq(AccessType) /\ Tail(q[m]) \in Seq(AccessType)
      /\ Len(q[m]) \in Nat \ {0} /\ Len(Tail(q[m])) = Len(q[m]) - 1
      /\ \A a \in 1 .. Len(q[m]) - 1 : Tail(q[m])[a] = q[m][a + 1]
      /\ Head(q[m]) = q[m][1] /\ Head(q[m]) \in AccessType
  BY DEF Queues
<1>2. r \in Queues
  BY <1>0, <1>1 DEF Queues
<1>3. \A o \in Memories : \A a \in 1 .. Len(r[o]) :
        IF o = m THEN a + 1 \in 2 .. Len(q[o]) /\ r[o][a] = q[o][a + 1]
                 ELSE a \in 1 .. Len(q[o]) /\ r[o][a] = q[o][a]
  <2> SUFFICES ASSUME NEW o \in Memories, NEW a \in 1 .. Len(r[o])
               PROVE  IF o = m THEN a + 1 \in 2 .. Len(q[o]) /\ r[o][a] = q[o][a + 1]
                               ELSE a \in 1 .. Len(q[o]) /\ r[o][a] = q[o][a]
    OBVIOUS
  <2>1. CASE o = m
    <3>1. r[o] = Tail(q[m])
      BY <1>0, <2>1 DEF Queues
    <3>2. a \in 1 .. Len(q[m]) - 1
      BY <1>1, <3>1
    <3>3. r[o][a] = q[m][a + 1]
      BY <1>1, <3>1, <3>2
    <3>4. a + 1 \in 2 .. Len(q[m])
      BY <1>1, <3>2
    <3>5. QED
      BY <2>1, <3>3, <3>4
  <2>2. CASE o # m
    BY <1>0, <2>2 DEF Queues
  <2>3. QED
    BY <2>1, <2>2
<1>4. \A o \in Memories : Len(q[o]) \in Nat /\ Len(r[o]) \in Nat
  BY <1>2 DEF Queues
<1>5. InTime(r)
  <2> SUFFICES ASSUME NEW o \in Memories, NEW a \in 1 .. Len(r[o])
               PROVE  r[o][a].left <= AccessTime[o]
    BY DEF InTime
  <2>1. \E b \in 1 .. Len(q[o]) : r[o][a] = q[o][b]
    <3>1. a + 1 \in 2 .. Len(q[o]) => a + 1 \in 1 .. Len(q[o])
      BY <1>4
    <3>2. QED
      BY <1>3, <3>1
  <2>2. QED
    BY <2>1 DEF InTime
<1>6. ASSUME NEW w, Asks(r, w)
      PROVE  Asks(q, w)
  <2>1. PICK o \in Memories : \E a \in 1 .. Len(r[o]) : r[o][a].who = w
    BY <1>6 DEF Asks
  <2>2. PICK a \in 1 .. Len(r[o]) : r[o][a].who = w
    BY <2>1
  <2>3. \E b \in 1 .. Len(q[o]) : r[o][a] = q[o][b]
    <3>1. a + 1 \in 2 .. Len(q[o]) => a + 1 \in 1 .. Len(q[o])
      BY <1>4
    <3>2. QED
      BY <1>3, <3>1
  <2>4. QED
    BY <2>2, <2>3 DEF Asks
<1>7. ASSUME NEW W, Sole(q, W),
             NEW n \in Memories, NEW o \in Memories,
             NEW a \in 1 .. Len(r[n]), NEW b \in 1 .. Len(r[o]),
             r[n][a].who \in W, r[o][b].who \in W
      PROVE  o = n /\ b = a
  <2>1. PICK c \in 1 .. Len(q[n]) : r[n][a] = q[n][c] /\ c = IF n = m THEN a + 1 ELSE a
    <3>1. a + 1 \in 2 .. Len(q[n]) => a + 1 \in 1 .. Len(q[n])
      BY <1>4
    <3>2. QED
      BY <1>3, <3>1
  <2>2. PICK d \in 1 .. Len(q[o]) : r[o][b] = q[o][d] /\ d = IF o = m THEN b + 1 ELSE b
    <3>1. b + 1 \in 2 .. Len(q[o]) => b + 1 \in 1 .. Len(q[o])
      BY <1>4
    <3>2. QED
      BY <1>3, <3>1
  <2>3. o = n /\ d = c
    BY <1>7, <2>1, <2>2 DEF Sole
  <2>4. QED
    BY <1>4, <2>1, <2>2, <2>3
<1>8. ASSUME NEW W, Sole(q, W), Head(q[m]).who \in W, NEW w \in W, Asks(r, w)
      PROVE  FALSE
  <2>1. PICK o \in Memories : \E a \in 1 .. Len(r[o]) : r[o][a].who = w
    BY <1>8 DEF Asks
  <2>2. PICK a \in 1 .. Len(r[o]) : r[o][a].who = w
    BY <2>1
  <2>3. PICK d \in 1 .. Len(q[o]) : r[o][a] = q[o][d] /\ d = IF o = m THEN a + 1 ELSE a
    <3>1. a + 1 \in 2 .. Len(q[o]) => a + 1 \in 1 .. Len(q[o])
      BY <1>4
    <3>2. QED
      BY <1>3, <3>1
  <2>4. 1 \in 1 .. Len(q[m]) /\ q[m][1].who \in W
    BY <1>1, <1>8
  <2>5. o = m /\ d = 1
    BY <1>8, <2>2, <2>3, <2>4 DEF Sole
  <2>6. QED
    BY <1>4, <2>3, <2>5
<1>9. Asks(q, Head(q[m]).who) /\ Head(q[m]).who \in Threads
  <2>1. 1 \in 1 .. Len(q[m]) /\ q[m][1].who = Head(q[m]).who
    BY <1>1
  <2>2. Head(q[m]).who \in Threads
    BY <1>1 DEF AccessType
  <2>3. QED
    BY <2>1, <2>2 DEF Asks
<1>10. \A W : Sole(q, W) => Sole(r, W)
  BY <1>7 DEF Sole
<1>11. \A W : Sole(q, W) /\ Head(q[m]).who \in W => \A w \in W : ~ Asks(r, w)
  BY <1>8
<1>12. QED
  BY <1>2, <1>5, <1>6, <1>9, <1>10, <1>11 DEF r

\* A cycle passes.
LEMMA LaterFacts ==
  ASSUME NEW q \in Queues, InTime(q), NEW r,
         r = [m \in Memories |->
                IF q[m] = <<>> THEN <<>> ELSE [q[m] EXCEPT ![1].left = Later(@)]]
  PROVE  /\ r \in Queues /\ InTime(r)
         /\ \A w : Asks(r, w) => Asks(q, w)
         /\ \A W : Sole(q, W) => Sole(r, W)
<1>1. ASSUME NEW m \in Memories
      PROVE  /\ r[m] \in Seq(AccessType) /\ Len(r[m]) = Len(q[m])
             /\ \A a \in 1 .. Len(q[m]) : r[m][a].who = q[m][a].who /\ r[m][a].left <= q[m][a].left
  <2>1. q[m] \in Seq(AccessType) /\ Len(q[m]) \in Nat /\ DOMAIN q[m] = 1 .. Len(q[m])
    BY DEF Queues
  <2>2. \A a \in 1 .. Len(q[m]) : q[m][a] \in AccessType
    BY <2>1
  <2>3. CASE q[m] = <<>>
    BY <2>1, <2>3
  <2>4. CASE q[m] # <<>>
    <3>1. PICK e : e = [q[m][1] EXCEPT !.left = Later(@)]
      OBVIOUS
    <3>2. 1 \in 1 .. Len(q[m])
      BY <2>1, <2>4
    <3>3. e \in AccessType /\ e.who = q[m][1].who /\ e.left <= q[m][1].left
      BY <2>2, <3>1, <3>2 DEF AccessType, Later
    <3>4. r[m] = [q[m] EXCEPT ![1] = e]
      BY <2>1, <2>4, <3>1, <3>2
    <3>5. \A a \in 1 .. Len(q[m]) : r[m][a] = IF a = 1 THEN e ELSE q[m][a]
      BY <2>1, <3>4
    <3>6. r[m] \in Seq(AccessType) /\ Len(r[m]) = Len(q[m])
      <4>1. e \in AccessType /\ 1 \in 1 .. Len(q[m]) /\ q[m] \in Seq(AccessType)
        BY <2>1, <3>2, <3>3
      <4>2. /\ [q[m] EXCEPT ![1] = e] \in Seq(AccessType)
            /\ Len([q[m] EXCEPT ![1] = e]) = Len(q[m])
        BY <4>1, ExceptSeq
      <4>3. QED
        BY <4>2, <3>4
    <3>7. \A a \in 1 .. Len(q[m]) : r[m][a].who = q[m][a].who /\ r[m][a].left <= q[m][a].left
      <4>1. \A a \in 1 .. Len(q[m]) : q[m][a].left <= q[m][a].left
        BY <2>2 DEF AccessType
      <4>2. QED
        BY <3>3, <3>5, <4>1
    <3>8. QED
      BY <3>6, <3>7
  <2>5. QED
    BY <2>3, <2>4
<1>2. r \in Queues
  BY <1>1 DEF Queues
<1>3. InTime(r)
  <2> SUFFICES ASSUME NEW m \in Memories, NEW a \in 1 .. Len(q[m])
               PROVE  r[m][a].left <= AccessTime[m]
    BY <1>1 DEF InTime
  <2>1. q[m][a].left <= AccessTime[m] /\ r[m][a].left <= q[m][a].left /\ AccessTime[m] \in Nat
    BY <1>1, LatencyAssumption DEF InTime
  <2>2. q[m][a] \in AccessType
    BY DEF Queues
  <2>3. r[m][a] \in AccessType
    BY <1>1
  <2>4. QED
    BY <2>1, <2>2, <2>3 DEF AccessType
<1>4. \A w : Asks(r, w) => Asks(q, w)
  BY <1>1 DEF Asks
<1>5. ASSUME NEW W, Sole(q, W)
      PROVE  Sole(r, W)
  BY <1>1, <1>5 DEF Sole
<1>6. QED
  BY <1>2, <1>3, <1>4, <1>5

-----------------------------------------------------------------------------
(***************************************************************************)
(* What an action leaves alone.                                            *)
(***************************************************************************)
LEMMA SameTypes ==
  ASSUME IInv, UNCHANGED <<program, next_ins>>
  PROVE  /\ UNCHANGED <<starting, issue, booked, finished>> => FrontTypes'
         /\ UNCHANGED sub => SubTypes'
         /\ UNCHANGED control => ControlTypes'
         /\ UNCHANGED queue => QueueTypes'
         /\ UNCHANGED <<ipu, stage, active>> => GroupTypes'
         /\ \A u : TakenBy(u)' = TakenBy(u)
         /\ \A i : GroupCnt(i)' = GroupCnt(i)
         /\ \A g, i : LastGroup(g, i)' <=> LastGroup(g, i)
<1>1. \A u : TakenBy(u)' = TakenBy(u)
  BY DEF TakenBy
<1>2. \A i : GroupCnt(i)' = GroupCnt(i)
  BY DEF GroupCnt
<1>3. \A g, i : LastGroup(g, i)' <=> LastGroup(g, i)
  BY <1>2 DEF LastGroup
<1>4. UNCHANGED <<starting, issue, booked, finished>> => FrontTypes'
  BY <1>1 DEF IInv, FrontTypes, Ids
<1>5. UNCHANGED sub => SubTypes'
  BY <1>1, <1>2 DEF IInv, SubTypes
<1>6. UNCHANGED control => ControlTypes'
  BY <1>1 DEF IInv, ControlTypes
<1>7. UNCHANGED queue => QueueTypes'
  BY DEF IInv, QueueTypes, InTime
<1>8. UNCHANGED <<ipu, stage, active>> => GroupTypes'
  BY <1>1 DEF IInv, GroupTypes
<1>9. QED
  BY <1>1, <1>2, <1>3, <1>4, <1>5, <1>6, <1>7, <1>8

LEMMA SameOrder ==
  ASSUME IInv, UNCHANGED <<program, next_ins>>
  PROVE  /\ UNCHANGED <<queue, control>> => ControlAccess'
         /\ UNCHANGED <<booked, finished, control, stage>> => Released'
         /\ UNCHANGED <<booked, starting, issue>> => Apart'
         /\ issue'["cim_control"] = issue["cim_control"] /\ UNCHANGED <<booked, control>> =>
              ControlInOrder'
         /\ issue'["cim_compute"] = issue["cim_compute"] /\ UNCHANGED <<booked, sub, ipu, stage>> =>
              InLine'
         /\ UNCHANGED <<booked, active>> => ActiveOK'
<1>1. /\ \A u : TakenBy(u)' = TakenBy(u)
      /\ \A g, i : LastGroup(g, i)' <=> LastGroup(g, i)
  BY SameTypes
<1>2. UNCHANGED <<queue, control>> => ControlAccess'
  BY DEF IInv, ControlAccess, Sole, Asks
<1>3. UNCHANGED <<booked, finished, control, stage>> => Released'
  BY <1>1 DEF IInv, Released
<1>4. UNCHANGED <<booked, starting, issue>> => Apart'
  BY DEF IInv, Apart
<1>5. issue'["cim_control"] = issue["cim_control"] /\ UNCHANGED <<booked, control>> => ControlInOrder'
  BY <1>1 DEF IInv, ControlInOrder
<1>6. issue'["cim_compute"] = issue["cim_compute"] /\ UNCHANGED <<booked, sub, ipu, stage>> => InLine'
  BY <1>1 DEF IInv, InLine, Given
<1>7. UNCHANGED <<booked, active>> => ActiveOK'
  <2>1. ASSUME UNCHANGED booked
        PROVE  \A g : Sets(g)' = Sets(g)
    BY <1>1, <2>1 DEF Sets
  <2>2. QED
    BY <2>1 DEF IInv, ActiveOK
<1>8. QED
  BY <1>2, <1>3, <1>4, <1>5, <1>6, <1>7

\* Resources are released.
LEMMA FreeOK ==
  ASSUME IInv, UNCHANGED <<program, next_ins, starting>>, NEW i, booked' = booked \ {i}
  PROVE  /\ UNCHANGED <<issue, finished>> => FrontTypes'
         /\ UNCHANGED issue => Apart'
         /\ UNCHANGED <<finished, control, stage>> => Released'
         /\ /\ i \notin TakenBy("cim_control") /\ issue'["cim_control"] = issue["cim_control"]
            /\ UNCHANGED control
            => ControlInOrder'
         /\ /\ i \notin TakenBy("cim_compute") /\ issue'["cim_compute"] = issue["cim_compute"]
            /\ UNCHANGED <<sub, ipu, stage>>
            => InLine'
         /\ /\ i \notin TakenBy("cim_control") \/ program[i].op # "set_activation"
            /\ UNCHANGED active
            => ActiveOK'
<1>1. /\ \A u : TakenBy(u)' = TakenBy(u)
      /\ \A g, j : LastGroup(g, j)' <=> LastGroup(g, j)
  BY SameTypes
<1>2. UNCHANGED <<issue, finished>> => FrontTypes'
  BY <1>1 DEF IInv, FrontTypes, Ids
<1>3. UNCHANGED issue => Apart'
  BY DEF IInv, Apart
<1>4. UNCHANGED <<finished, control, stage>> => Released'
  BY <1>1 DEF IInv, Released
<1>5. ASSUME i \notin TakenBy("cim_control"), issue'["cim_control"] = issue["cim_control"],
             UNCHANGED control
      PROVE  ControlInOrder'
  <2>1. issue["cim_control"] # 0 => issue["cim_control"] \in TakenBy("cim_control")
    BY DEF IInv, FrontTypes, Units
  <2>2. control.at \in {"read", "have_read", "sum"} => control.ins \in TakenBy("cim_control")
    BY KindFacts DEF IInv, ControlTypes
  <2>3. QED
    BY <1>1, <1>5, <2>1, <2>2 DEF IInv, ControlInOrder
<1>6. ASSUME i \notin TakenBy("cim_compute"), issue'["cim_compute"] = issue["cim_compute"],
             UNCHANGED <<sub, ipu, stage>>
      PROVE  InLine'
  <2>1. issue["cim_compute"] # 0 => issue["cim_compute"] \in TakenBy("cim_compute")
    BY DEF IInv, FrontTypes, Units
  <2>2. sub # Idle => sub.ins \in TakenBy("cim_compute")
    BY DEF IInv, SubTypes
  <2>3. \A g \in Groups : ipu[g][0] # Idle => ipu[g][0].ins \in TakenBy("cim_compute")
    BY PipelineFacts DEF IInv, GroupTypes
  <2>4. QED
    BY <1>1, <1>6, <2>1, <2>2, <2>3 DEF IInv, InLine, Given
<1>7. ASSUME i \notin TakenBy("cim_control") \/ program[i].op # "set_activation", UNCHANGED active
      PROVE  ActiveOK'
  <2>1. \A g : Sets(g)' = Sets(g)
    BY <1>1, <1>7 DEF Sets
  <2>2. QED
    BY <1>7, <2>1 DEF IInv, ActiveOK
<1>8. QED
  BY <1>2, <1>3, <1>4, <1>5, <1>6, <1>7

\* In the beginning nothing has been taken.
LEMMA InitOK == Init => IInv
<1> SUFFICES ASSUME Init PROVE IInv
  OBVIOUS
<1>1. \A u : TakenBy(u) = {}
  BY DEF Init, TakenBy
<1>2. FrontTypes
  <2>1. Len(program) \in Nat
    BY ProgramsAssumption DEF Init
  <2>2. QED
    BY <2>1 DEF Init, FrontTypes, Units
<1>3. SubTypes /\ ControlTypes
  BY KindFacts DEF Init, SubTypes, ControlTypes, SubType, ControlType
<1>4. QueueTypes /\ ControlAccess
  <2>1. \A m \in Memories : queue[m] = <<>> /\ Len(queue[m]) = 0
    BY DEF Init
  <2>2. queue \in Queues
    BY DEF Init, Queues
  <2>3. QED
    BY <2>1, <2>2 DEF QueueTypes, InTime, ControlAccess, Sole, Asks
<1>5. GroupTypes
  BY DEF Init, GroupTypes, IpuType, StageType
<1>6. Released /\ Apart /\ ControlInOrder
  BY <1>1, KindFacts, PipelineFacts DEF Init, Released, Apart, ControlInOrder, Units
<1>7. InLine
  BY PipelineFacts DEF Init, InLine, Units
<1>8. ActiveOK
  BY <1>1 DEF Init, ActiveOK, Sets
<1>9. QED
  BY <1>2, <1>3, <1>4, <1>5, <1>6, <1>7, <1>8 DEF IInv

-----------------------------------------------------------------------------
(***************************************************************************)
(* The compute unit.                                                       *)
(***************************************************************************)
LEMMA ReadInputsFacts ==
  ASSUME NEW i \in Id, NEW g \in Nat, NEW left \in Nat
  PROVE  LET s == ReadInputs(i, g, left)
         IN  /\ s \in SubType /\ s # Idle /\ s.ins = i /\ s.group = g
             /\ s.at \in {"access", "run"} /\ (left # 0 <=> s.at = "access") /\ s.left = left
BY DEF ReadInputs, SubType, Idle

\* processSubIns goes on from a group.
LEMMA NextGroupFacts ==
  ASSUME IInv, sub.at \in {"run", "network"}, NextGroup
  PROVE  /\ \/ sub' = Idle
            \/ /\ sub' \in SubType /\ sub' # Idle /\ sub'.at \in {"access", "run"}
               /\ sub'.ins = sub.ins /\ sub'.group = sub.group + 1
               /\ sub.group + 1 < GroupCnt(sub.ins) /\ (sub'.at = "access" => sub'.left # 0)
         /\ ~ LastGroup(sub.group, sub.ins) => sub' # Idle
         /\ queue' \in Queues /\ InTime(queue')
         /\ \A w : Asks(queue', w) => Asks(queue, w) \/ (w = "sub" /\ sub'.at = "access")
         /\ \A W : Sole(queue, W) /\ ("sub" \in W => \A w \in W : ~ Asks(queue, w)) =>
              Sole(queue', W)
<1>1. /\ FrontTypes /\ sub \in SubType /\ sub # Idle /\ sub.ins \in TakenBy("cim_compute")
      /\ sub.group \in Nat /\ sub.group < GroupCnt(sub.ins) /\ sub.at # "reading"
      /\ queue \in Queues /\ InTime(queue)
  BY KindFacts DEF IInv, SubTypes, QueueTypes
<1>2. /\ sub.ins \in Ids /\ sub.ins \in Id /\ program[sub.ins].unit = "cim_compute"
      /\ program[sub.ins].input \in Memories
  BY <1>1, TakenFacts, ProgramFacts
<1>3. InputReads(sub.ins) \in Nat /\ GroupCnt(sub.ins) \in Nat
  BY <1>1, <1>2, GroupCntFacts
<1>4. CASE sub.group = GroupCnt(sub.ins) - 1
  BY <1>1, <1>4 DEF NextGroup, LastGroup
<1>5. CASE sub.group # GroupCnt(sub.ins) - 1
  <2>1. /\ sub' = ReadInputs(sub.ins, sub.group + 1, InputReads(sub.ins))
        /\ queue' = AskInput(queue, sub.ins, InputReads(sub.ins))
    BY <1>5 DEF NextGroup
  <2>2. sub.group + 1 < GroupCnt(sub.ins) /\ sub.group + 1 \in Nat
    BY <1>1, <1>3, <1>5
  <2>3. /\ sub' \in SubType /\ sub' # Idle /\ sub'.at \in {"access", "run"}
        /\ sub'.ins = sub.ins /\ sub'.group = sub.group + 1
        /\ (InputReads(sub.ins) # 0 <=> sub'.at = "access") /\ sub'.left = InputReads(sub.ins)
    BY <1>2, <1>3, <2>1, <2>2, ReadInputsFacts
  <2>4. /\ queue' \in Queues /\ InTime(queue')
        /\ \A w : Asks(queue', w) => Asks(queue, w) \/ (w = "sub" /\ InputReads(sub.ins) # 0)
        /\ \A W : Sole(queue, W) /\ ("sub" \in W => \A w \in W : ~ Asks(queue, w)) =>
             Sole(queue', W)
    BY <1>1, <1>2, <2>1, AskInputFacts
  <2>5. QED
    BY <2>2, <2>3, <2>4
<1>6. QED
  BY <1>4, <1>5

\* What the line of compute instructions asks of processSubIns.
LEMMA SubLine ==
  ASSUME IInv, UNCHANGED <<program, next_ins, booked, issue, ipu, stage>>,
         \/ sub' = Idle
         \/ /\ sub # Idle /\ sub' # Idle /\ sub'.ins = sub.ins
            /\ \A g \in Groups : Given(g) => Given(g)'
            /\ sub'.at = "network" => sub.at = "network" /\ sub'.group = sub.group
            /\ sub.at = "network" => ~ LastGroup(sub.group, sub.ins) \/ sub'.at = "network"
  PROVE  InLine'
<1>1. \A g, i : LastGroup(g, i)' <=> LastGroup(g, i)
  BY SameTypes
<1>2. ASSUME NEW g \in Groups
      PROVE  /\ ipu[g][0] # Idle => ipu[g][0].ins # 0
             /\ \A k \in Stages : stage[g][0][k] # Idle => stage[g][0][k].ins # 0
  BY KindFacts, PipelineFacts DEF IInv, GroupTypes
<1>3. CASE sub' = Idle
  BY <1>1, <1>2, <1>3, KindFacts DEF IInv, InLine
<1>4. CASE /\ sub # Idle /\ sub' # Idle /\ sub'.ins = sub.ins
           /\ \A g \in Groups : Given(g) => Given(g)'
           /\ sub'.at = "network" => sub.at = "network" /\ sub'.group = sub.group
           /\ sub.at = "network" => ~ LastGroup(sub.group, sub.ins) \/ sub'.at = "network"
  <2>1. sub.at = "network" => ~ LastGroup(sub.group, sub.ins) \/ sub'.at = "network"
    BY <1>4
  <2>2. /\ issue["cim_compute"] # 0 => issue["cim_compute"] \in booked
        /\ (sub.at = "network" => ~ LastGroup(sub.group, sub.ins)) => sub.ins \in booked
    BY <1>4 DEF IInv, InLine
  <2>3. (sub.at = "network" => ~ LastGroup(sub.group, sub.ins))' => sub'.ins \in booked'
    BY <1>1, <1>4, <2>1, <2>2
  <2>4. ASSUME NEW g \in Groups
        PROVE  (/\ ipu[g][0] # Idle =>
                    /\ ipu[g][0].ins # issue["cim_compute"]
                    /\ ipu[g][0].ins = sub.ins => Given(g)
                    /\ LastGroup(g, ipu[g][0].ins) => ipu[g][0].ins \in booked
                /\ \A k \in Stages :
                    stage[g][0][k] # Idle =>
                      /\ stage[g][0][k].ins # issue["cim_compute"]
                      /\ stage[g][0][k].ins = sub.ins => Given(g)
                      /\ stage[g][0][k].last => ipu[g][0].ins # stage[g][0][k].ins)'
    BY <1>1, <1>4 DEF IInv, InLine
  <2>5. sub'.ins # issue'["cim_compute"]
    BY <1>4 DEF IInv, InLine
  <2>6. QED
    BY <2>2, <2>3, <2>4, <2>5 DEF InLine
<1>5. QED
  BY <1>3, <1>4

LEMMA FinishReadDataOK ==
  ASSUME IInv, FinishReadData, UNCHANGED program
  PROVE  IInv'
<1>1. /\ sub.at = "reading"
      /\ sub' = ReadInputs(sub.ins, 0, InputReads(sub.ins))
      /\ queue' = AskInput(queue, sub.ins, InputReads(sub.ins))
      /\ UNCHANGED <<next_ins, starting, issue, booked, finished, control, ipu, stage, active>>
  BY DEF FinishReadData, front, board, macro_groups
<1>2. /\ FrontTypes /\ sub # Idle /\ sub.ins \in TakenBy("cim_compute")
      /\ queue \in Queues /\ InTime(queue)
  BY <1>1, KindFacts DEF IInv, SubTypes, QueueTypes
<1>3. /\ sub.ins \in Ids /\ sub.ins \in Id /\ program[sub.ins].unit = "cim_compute"
      /\ program[sub.ins].input \in Memories
  BY <1>2, TakenFacts, ProgramFacts
<1>4. InputReads(sub.ins) \in Nat /\ GroupCnt(sub.ins) \in Nat \ {0}
  BY <1>2, <1>3, GroupCntFacts
<1>5. /\ sub' \in SubType /\ sub' # Idle /\ sub'.ins = sub.ins /\ sub'.group = 0
      /\ sub'.at \in {"access", "run"}
  BY <1>1, <1>3, <1>4, ReadInputsFacts
<1>6. /\ queue' \in Queues /\ InTime(queue')
      /\ \A w : Asks(queue', w) => Asks(queue, w) \/ w = "sub"
      /\ Sole(queue, {"control"}) => Sole(queue', {"control"})
  BY <1>1, <1>2, <1>3, AskInputFacts
<1>7. SubTypes'
  <2>1. sub'.ins \in TakenBy("cim_compute")'
    BY <1>1, <1>2, <1>5, SameTypes
  <2>2. (sub.group < GroupCnt(sub.ins))'
    <3>1. GroupCnt(sub.ins)' = GroupCnt(sub.ins)
      BY <1>1, <1>5 DEF GroupCnt
    <3>2. QED
      BY <1>4, <1>5, <3>1
  <2>3. sub'.at = "access" => sub'.left # 0
    BY <1>1, <1>3, <1>4, ReadInputsFacts
  <2>4. QED
    BY <1>5, <2>1, <2>2, <2>3 DEF SubTypes
<1>8. QueueTypes' /\ ControlAccess'
  BY <1>1, <1>6 DEF IInv, QueueTypes, InTime, ControlAccess
<1>9. InLine'
  <2>1. \A g : ~ Given(g)
    BY <1>1 DEF Given
  <2>2. sub.at # "network" /\ sub'.at # "network"
    BY <1>1, <1>5
  <2>3. QED
    BY <1>1, <1>2, <1>5, <2>1, <2>2, SubLine
<1>10. QED
  BY <1>1, <1>7, <1>8, <1>9, SameTypes, SameOrder DEF IInv

LEMMA LeaveNetworkOK ==
  ASSUME IInv, LeaveNetwork, UNCHANGED program
  PROVE  IInv'
<1>1. /\ sub.at = "network" /\ NextGroup
      /\ UNCHANGED <<next_ins, starting, issue, booked, finished, control, ipu, stage, active>>
  BY DEF LeaveNetwork, front, board, macro_groups
<1>2. /\ sub \in SubType /\ sub # Idle /\ sub.group \in Nat /\ sub.ins \in TakenBy("cim_compute")
  BY <1>1, KindFacts DEF IInv, SubTypes
<1>3. PICK next : next = NextGroup
  OBVIOUS
<1>4. /\ \/ sub' = Idle
         \/ /\ sub' \in SubType /\ sub' # Idle /\ sub'.at \in {"access", "run"}
            /\ sub'.ins = sub.ins /\ sub'.group = sub.group + 1
            /\ sub.group + 1 < GroupCnt(sub.ins) /\ (sub'.at = "access" => sub'.left # 0)
      /\ ~ LastGroup(sub.group, sub.ins) => sub' # Idle
      /\ queue' \in Queues /\ InTime(queue')
      /\ \A w : Asks(queue', w) => Asks(queue, w) \/ w = "sub"
      /\ Sole(queue, {"control"}) => Sole(queue', {"control"})
  BY <1>1, NextGroupFacts
<1>5. SubTypes'
  <2>1. CASE sub' = Idle
    BY <2>1, KindFacts DEF SubTypes, SubType
  <2>2. CASE sub' # Idle
    <3>1. sub'.ins \in TakenBy("cim_compute")'
      BY <1>1, <1>2, <1>4, <2>2, SameTypes
    <3>2. (sub.group < GroupCnt(sub.ins))'
      <4>1. GroupCnt(sub.ins)' = GroupCnt(sub.ins)
        BY <1>1, <1>4, <2>2 DEF GroupCnt
      <4>2. QED
        BY <1>4, <2>2, <4>1
    <3>3. QED
      BY <1>4, <2>2, <3>1, <3>2 DEF SubTypes
  <2>3. QED
    BY <2>1, <2>2
<1>6. QueueTypes' /\ ControlAccess'
  BY <1>1, <1>4 DEF IInv, QueueTypes, InTime, ControlAccess
<1>7. InLine'
  <2>1. CASE sub' = Idle
    BY <1>1, <2>1, SubLine
  <2>2. CASE sub' # Idle
    <3>1. sub'.at \in {"access", "run"} /\ sub'.ins = sub.ins /\ sub'.group = sub.group + 1
      BY <1>4, <2>2
    <3>2. \A g \in Groups : Given(g) => Given(g)'
      <4>1. \A g \in Groups : g \in Nat
        BY GroupFacts
      <4>2. QED
        BY <1>1, <1>2, <3>1, <4>1 DEF Given
    <3>3. ~ LastGroup(sub.group, sub.ins)
      <4>1. GroupCnt(sub.ins) \in Nat
        BY <1>2, GroupCntFacts, TakenFacts DEF IInv
      <4>2. QED
        BY <1>2, <1>4, <2>2, <4>1 DEF LastGroup
    <3>4. sub'.at # "network"
      BY <3>1
    <3>5. QED
      BY <1>1, <1>2, <2>2, <3>1, <3>2, <3>3, <3>4, SubLine
  <2>3. QED
    BY <2>1, <2>2
<1>8. QED
  BY <1>1, <1>5, <1>6, <1>7, SameTypes, SameOrder DEF IInv

\* Mask, meta data, input or the access of the control unit has come.
LEMMA FinishAccessOK ==
  ASSUME IInv, NEW m \in Memories, FinishAccess(m), UNCHANGED program
  PROVE  IInv'
<1>1. PICK rest : rest = Rest(queue, m)
  OBVIOUS
<1>2. /\ queue[m] # <<>>
      /\ IF Head(queue[m]).who \in ComputeThreads THEN WakeReaders(rest) ELSE WakeControl(rest)
      /\ UNCHANGED <<next_ins, starting, issue, booked, finished, ipu, stage, active>>
  BY <1>1 DEF FinishAccess, Rest, front, board, macro_groups
<1>3. /\ FrontTypes /\ sub \in SubType /\ control \in ControlType
      /\ queue \in Queues /\ InTime(queue) /\ Sole(queue, {"control"})
  BY DEF IInv, SubTypes, ControlTypes, QueueTypes, ControlAccess
<1>4. /\ rest \in Queues /\ InTime(rest) /\ Sole(rest, {"control"})
      /\ \A w : Asks(rest, w) => Asks(queue, w)
      /\ Head(queue[m]).who = "control" => ~ Asks(rest, "control")
      /\ Asks(queue, Head(queue[m]).who) /\ Head(queue[m]).who \in Threads
  <2>1. /\ rest \in Queues /\ InTime(rest)
        /\ \A w : Asks(rest, w) => Asks(queue, w)
        /\ \A W : Sole(queue, W) => Sole(rest, W)
        /\ \A W : Sole(queue, W) /\ Head(queue[m]).who \in W => \A w \in W : ~ Asks(rest, w)
        /\ Asks(queue, Head(queue[m]).who) /\ Head(queue[m]).who \in Threads
    BY <1>1, <1>2, <1>3, RestFacts
  <2>2. Sole(rest, {"control"})
    BY <1>3, <2>1
  <2>3. Head(queue[m]).who \in {"control"} => \A w \in {"control"} : ~ Asks(rest, w)
    BY <1>3, <2>1
  <2>4. QED
    BY <2>1, <2>2, <2>3
<1>5. CASE Head(queue[m]).who \in ComputeThreads /\ sub.at = "access"
  <2>1. /\ sub' = ReadInputs(sub.ins, sub.group, sub.left - 1)
        /\ queue' = AskInput(rest, sub.ins, sub.left - 1) /\ UNCHANGED control
    BY <1>2, <1>5 DEF WakeReaders
  <2>2. /\ sub # Idle /\ sub.ins \in TakenBy("cim_compute") /\ sub.group \in Nat
        /\ sub.group < GroupCnt(sub.ins) /\ sub.left \in Nat /\ sub.left # 0
    BY <1>3, <1>5, KindFacts DEF IInv, SubTypes
  <2>3. /\ sub.ins \in Ids /\ sub.ins \in Id /\ program[sub.ins].unit = "cim_compute"
        /\ program[sub.ins].input \in Memories
    BY <1>3, <2>2, TakenFacts, ProgramFacts
  <2>4. PICK left \in Nat : left = sub.left - 1
    BY <2>2
  <2>5. /\ queue' \in Queues /\ InTime(queue') /\ Sole(queue', {"control"})
        /\ \A w : Asks(queue', w) => Asks(rest, w) \/ w = "sub"
    <3>1. PICK ask : ask = AskInput(rest, sub.ins, sub.left - 1)
      OBVIOUS
    <3>2. /\ ask \in Queues /\ InTime(ask)
          /\ \A w : Asks(ask, w) => Asks(rest, w) \/ w = "sub"
          /\ \A W : Sole(rest, W) /\ ("sub" \in W => \A w \in W : ~ Asks(rest, w)) =>
               Sole(ask, W)
      BY <1>4, <2>3, <3>1, AskInputFacts
    <3>3. Sole(ask, {"control"})
      BY <1>4, <3>2
    <3>4. QED
      BY <2>1, <3>1, <3>2, <3>3
  <2>6. /\ sub' \in SubType /\ sub' # Idle /\ sub'.ins = sub.ins /\ sub'.group = sub.group
        /\ sub'.at \in {"access", "run"} /\ (sub'.at = "access" => sub'.left # 0)
    BY <2>1, <2>2, <2>3, <2>4, ReadInputsFacts
  <2>7. SubTypes'
    BY <1>2, <2>2, <2>6, SameTypes DEF SubTypes
  <2>8. QueueTypes' /\ ControlAccess'
    BY <1>4, <2>1, <2>5 DEF IInv, QueueTypes, InTime, ControlAccess
  <2>9. InLine'
    <3>1. \A g : Given(g) => Given(g)'
      BY <1>5, <2>6 DEF Given
    <3>2. sub.at # "network" /\ sub'.at # "network"
      BY <1>5, <2>6
    <3>3. QED
      BY <1>2, <2>2, <2>6, <3>1, <3>2, SubLine
  <2>10. QED
    BY <1>2, <2>1, <2>7, <2>8, <2>9, SameTypes, SameOrder DEF IInv
<1>6. CASE Head(queue[m]).who \in ComputeThreads /\ sub.at # "access"
  <2>1. sub' = sub /\ queue' = rest /\ UNCHANGED control
    BY <1>2, <1>6 DEF WakeReaders
  <2>2. QueueTypes' /\ ControlAccess'
    BY <1>4, <2>1 DEF IInv, QueueTypes, InTime, ControlAccess
  <2>3. QED
    BY <1>2, <2>1, <2>2, SameTypes, SameOrder DEF IInv
<1>7. CASE Head(queue[m]).who \notin ComputeThreads
  <2>1. Head(queue[m]).who = "control"
    BY <1>4, <1>7 DEF Threads, ComputeThreads
  <2>2. control.at \in {"read", "write"}
    BY <1>4, <2>1 DEF IInv, ControlAccess
  <2>3. /\ control' = [control EXCEPT !.at = IF @ = "read" THEN "have_read" ELSE "written"]
        /\ queue' = rest /\ UNCHANGED sub
    BY <1>2, <1>7 DEF WakeControl, readers
  <2>4. /\ control # Idle /\ control' # Idle
        /\ control' \in ControlType /\ control'.ins = control.ins
        /\ control'.at = IF control.at = "read" THEN "have_read" ELSE "written"
    BY <1>3, <2>2, <2>3 DEF ControlType, Idle
  <2>5. ControlTypes'
    BY <1>2, <2>2, <2>4, SameTypes DEF IInv, ControlTypes
  <2>6. QueueTypes' /\ ControlAccess'
    BY <1>4, <2>1, <2>3 DEF IInv, QueueTypes, InTime, ControlAccess
  <2>7. Released'
    BY <1>2, <2>2, <2>4, SameTypes DEF IInv, Released
  <2>8. ControlInOrder'
    BY <1>2, <2>2, <2>4, SameTypes DEF IInv, ControlInOrder
  <2>9. QED
    BY <1>2, <2>3, <2>5, <2>6, <2>7, <2>8, SameTypes, SameOrder DEF IInv
<1>8. QED
  BY <1>5, <1>6, <1>7


\* The group begins with the instruction of processSubIns, which goes through the network
\* or on to the next group.
LEMMA RunMacroGroupOK ==
  ASSUME IInv, RunMacroGroup, UNCHANGED program
  PROVE  IInv'
<1>1. /\ sub.at = "run" /\ ipu[sub.group][0] = Idle
      /\ ipu' = [ipu EXCEPT ![sub.group][0] = [ins |-> sub.ins, at |-> "macros", macro |-> 1]]
      /\ \/ sub' = [sub EXCEPT !.at = "network", !.left = NetworkLatency] /\ queue' = queue
         \/ NextGroup
      /\ UNCHANGED <<next_ins, starting, issue, booked, finished, control, stage, active>>
  BY DEF RunMacroGroup, front, board
<1>2. /\ sub \in SubType /\ sub # Idle /\ sub.group \in Nat /\ sub.ins \in TakenBy("cim_compute")
      /\ sub.group < GroupCnt(sub.ins)
  BY <1>1, KindFacts DEF IInv, SubTypes
<1>3. /\ GroupCnt(sub.ins) \in Nat /\ sub.group \in Groups /\ sub.ins \in Id
  <2>1. FrontTypes
    BY DEF IInv
  <2>2. sub.ins \in Ids /\ sub.ins \in Id /\ program[sub.ins].unit = "cim_compute"
    BY <1>2, <2>1, TakenFacts
  <2>3. GroupCnt(sub.ins) \in Nat \ {0} /\ GroupCnt(sub.ins) <= Cardinality(Groups)
    BY <2>1, <2>2, GroupCntFacts
  <2>4. QED
    BY <1>2, <2>2, <2>3, GroupFacts
<1>4. /\ \/ sub' = Idle
         \/ /\ sub' \in SubType /\ sub' # Idle /\ sub'.ins = sub.ins
            /\ \/ sub'.at = "network" /\ sub'.group = sub.group
               \/ sub'.at \in {"access", "run"} /\ sub'.group = sub.group + 1
            /\ sub'.group < GroupCnt(sub.ins) /\ (sub'.at = "access" => sub'.left # 0)
      /\ queue' \in Queues /\ InTime(queue')
      /\ \A w : Asks(queue', w) => Asks(queue, w) \/ w = "sub"
      /\ Sole(queue, {"control"}) => Sole(queue', {"control"})
  <2>1. CASE sub' = [sub EXCEPT !.at = "network", !.left = NetworkLatency] /\ queue' = queue
    <3>1. /\ sub' \in SubType /\ sub' # Idle /\ sub'.ins = sub.ins
          /\ sub'.at = "network" /\ sub'.group = sub.group
      BY <1>1, <1>2, <2>1, LatencyAssumption DEF SubType, Idle
    <3>2. queue \in Queues /\ InTime(queue)
      BY DEF IInv, QueueTypes
    <3>3. QED
      BY <1>2, <2>1, <3>1, <3>2
  <2>2. CASE NextGroup
    BY <1>1, <2>2, NextGroupFacts
  <2>3. QED
    BY <1>1, <2>1, <2>2
<1>5. SubTypes'
  <2>1. CASE sub' = Idle
    BY <2>1, KindFacts DEF SubTypes, SubType
  <2>2. CASE sub' # Idle
    <3>1. sub'.ins \in TakenBy("cim_compute")'
      BY <1>1, <1>2, <1>4, <2>2, SameTypes
    <3>2. (sub.group < GroupCnt(sub.ins))'
      <4>1. GroupCnt(sub.ins)' = GroupCnt(sub.ins)
        BY <1>1, <1>4, <2>2 DEF GroupCnt
      <4>2. QED
        BY <1>4, <2>2, <4>1
    <3>3. QED
      BY <1>4, <2>2, <3>1, <3>2 DEF SubTypes
  <2>3. QED
    BY <2>1, <2>2
<1>6. QueueTypes' /\ ControlAccess'
  BY <1>1, <1>4 DEF IInv, QueueTypes, InTime, ControlAccess
<1>7. PICK begun \in IpuType : begun = [ins |-> sub.ins, at |-> "macros", macro |-> 1]
  BY <1>3, PipelineFacts DEF IpuType
<1>8. /\ \A g \in Groups : ipu'[g][0] = IF g = sub.group THEN begun ELSE ipu[g][0]
      /\ \A g \in Groups : \A n \in Pipelines : ipu'[g][n] = ipu[g][n] \/ ipu'[g][n] = begun
      /\ ipu' \in [Groups -> [Pipelines -> IpuType]]
      /\ begun.ins = sub.ins
  <2>1. ipu \in [Groups -> [Pipelines -> IpuType]] /\ 0 \in Pipelines
    BY PipelineFacts DEF IInv, GroupTypes
  <2>2. ipu' = [ipu EXCEPT ![sub.group][0] = begun]
    BY <1>1, <1>7
  <2>3. QED
    BY <1>3, <1>7, <2>1, <2>2
<1>9. GroupTypes'
  <2>1. \A g \in Groups : \A n \in Pipelines :
          ipu'[g][n] # Idle => ipu'[g][n].ins \in TakenBy("cim_compute")'
    BY <1>1, <1>2, <1>8, SameTypes DEF IInv, GroupTypes
  <2>2. \A g \in Groups : \A n \in Pipelines : \A k \in Stages :
          stage'[g][n][k] # Idle => stage'[g][n][k].ins \in TakenBy("cim_compute")'
    BY <1>1, SameTypes DEF IInv, GroupTypes
  <2>3. (stage \in [Groups -> [Pipelines -> [Stages -> StageType]]])' /\ (active \in [Groups -> SUBSET Macros])'
    BY <1>1 DEF IInv, GroupTypes
  <2>4. QED
    BY <1>8, <2>1, <2>2, <2>3 DEF GroupTypes
<1>10. InLine'
  <2>1. \A g, i : LastGroup(g, i)' <=> LastGroup(g, i)
    BY <1>1, SameTypes
  <2>2. /\ issue["cim_compute"] # 0 => issue["cim_compute"] \in booked
        /\ sub.ins \in booked /\ sub.ins # issue["cim_compute"]
    BY <1>1, <1>2 DEF IInv, InLine
  <2>3. ASSUME NEW g \in Groups, sub' # Idle, Given(g) \/ g = sub.group
        PROVE  Given(g)'
    <3>1. g \in Nat
      BY GroupFacts
    <3>2. QED
      BY <1>1, <1>2, <1>4, <2>3, <3>1 DEF Given
  <2>4. sub' = Idle => sub'.ins = 0
    BY KindFacts
  <2>5. ASSUME NEW g \in Groups
        PROVE  (ipu[g][0] # Idle =>
                  /\ ipu[g][0].ins # issue["cim_compute"]
                  /\ ipu[g][0].ins = sub.ins => Given(g)
                  /\ LastGroup(g, ipu[g][0].ins) => ipu[g][0].ins \in booked)'
    <3>1. ipu[g][0] # Idle => ipu[g][0].ins # 0
      BY KindFacts, PipelineFacts DEF IInv, GroupTypes
    <3>2. CASE g = sub.group
      BY <1>1, <1>4, <1>8, <2>2, <2>3, <3>2, <2>4, <1>3 DEF Id
    <3>3. CASE g # sub.group
      <4>1. ipu'[g][0] = ipu[g][0]
        BY <1>8, <3>3
      <4>2. ipu[g][0] # Idle =>
              /\ ipu[g][0].ins # issue["cim_compute"]
              /\ ipu[g][0].ins = sub.ins => Given(g)
              /\ LastGroup(g, ipu[g][0].ins) => ipu[g][0].ins \in booked
        BY DEF IInv, InLine
      <4>3. QED
        BY <1>1, <1>4, <2>1, <2>3, <2>4, <3>1, <4>1, <4>2
    <3>4. QED
      BY <3>2, <3>3
  <2>6. ASSUME NEW g \in Groups, NEW k \in Stages
        PROVE  (stage[g][0][k] # Idle =>
                  /\ stage[g][0][k].ins # issue["cim_compute"]
                  /\ stage[g][0][k].ins = sub.ins => Given(g)
                  /\ stage[g][0][k].last => ipu[g][0].ins # stage[g][0][k].ins)'
    <3>1. stage[g][0][k] # Idle => stage[g][0][k].ins # 0
      BY KindFacts, PipelineFacts DEF IInv, GroupTypes
    <3>2. stage[g][0][k] # Idle =>
            /\ stage[g][0][k].ins # issue["cim_compute"]
            /\ stage[g][0][k].ins = sub.ins => Given(g)
            /\ stage[g][0][k].last => ipu[g][0].ins # stage[g][0][k].ins
      BY DEF IInv, InLine
    <3>3. g = sub.group => ~ Given(g)
      BY <1>1, <1>2 DEF Given
    <3>4. QED
      BY <1>1, <1>4, <1>8, <2>3, <2>4, <3>1, <3>2, <3>3
  <2>7. (sub # Idle => sub.ins # issue["cim_compute"] /\ sub.ins \in booked)'
    BY <1>1, <1>4, <2>2
  <2>8. QED
    BY <1>1, <2>2, <2>5, <2>6, <2>7 DEF InLine
<1>11. QED
  BY <1>1, <1>5, <1>6, <1>9, <1>10, SameTypes, SameOrder DEF IInv

\* The issue thread hands over to processSubIns, and mask and meta data are asked for.
LEMMA StartSubOK ==
  ASSUME IInv, StartSub, UNCHANGED program
  PROVE  IInv'
<1> DEFINE i == issue["cim_compute"]
           asked == IF UsesMask(i) THEN Asking(queue, "mask", program[i].mask) ELSE queue
<1>1. /\ i # 0 /\ sub = Idle /\ sub' = [ins |-> i, at |-> "reading"]
      /\ issue' = [issue EXCEPT !["cim_compute"] = 0]
      /\ queue' = IF UsesMeta(i) THEN Asking(asked, "meta", program[i].meta) ELSE asked
      /\ UNCHANGED <<next_ins, starting, booked, finished, control, ipu, stage, active>>
  BY DEF StartSub, board, macro_groups
<1>2. /\ i \in TakenBy("cim_compute") /\ issue \in [Units -> Nat] /\ FrontTypes
      /\ queue \in Queues /\ InTime(queue)
  BY <1>1 DEF IInv, FrontTypes, QueueTypes, Units
<1>3. /\ i \in Id /\ program[i].mask \in Memories /\ program[i].meta \in Memories
  BY <1>2, TakenFacts, ProgramFacts
<1> HIDE DEF i, asked
<1>4. /\ asked \in Queues /\ InTime(asked)
      /\ Asks(asked, "control") => Asks(queue, "control")
      /\ Sole(queue, {"control"}) => Sole(asked, {"control"})
  <2>1. CASE UsesMask(i)
    <3>1. asked = Asking(queue, "mask", program[i].mask) /\ "mask" \in Threads
      BY <2>1 DEF asked, Threads
    <3>2. /\ asked \in Queues /\ InTime(asked)
          /\ \A w : Asks(asked, w) => Asks(queue, w) \/ w = "mask"
          /\ \A W : Sole(queue, W) /\ ("mask" \in W => \A w \in W : ~ Asks(queue, w)) =>
               Sole(asked, W)
      BY <1>2, <1>3, <3>1, AskingFacts
    <3>3. QED
      BY <3>2
  <2>2. CASE ~ UsesMask(i)
    BY <1>2, <2>2 DEF asked
  <2>3. QED
    BY <2>1, <2>2
<1>5. /\ queue' \in Queues /\ InTime(queue')
      /\ Asks(queue', "control") => Asks(queue, "control")
      /\ Sole(queue, {"control"}) => Sole(queue', {"control"})
  <2>1. CASE UsesMeta(i)
    <3>1. PICK r : r = Asking(asked, "meta", program[i].meta)
      OBVIOUS
    <3>2. queue' = r /\ "meta" \in Threads
      BY <1>1, <2>1, <3>1 DEF Threads
    <3>3. /\ r \in Queues /\ InTime(r)
          /\ \A w : Asks(r, w) => Asks(asked, w) \/ w = "meta"
          /\ \A W : Sole(asked, W) /\ ("meta" \in W => \A w \in W : ~ Asks(asked, w)) =>
               Sole(r, W)
      BY <1>3, <1>4, <3>1, <3>2, AskingFacts
    <3>4. QED
      BY <1>4, <3>2, <3>3
  <2>2. CASE ~ UsesMeta(i)
    BY <1>1, <1>4, <2>2
  <2>3. QED
    BY <2>1, <2>2
<1>6. QueueTypes' /\ ControlAccess'
  BY <1>1, <1>5 DEF IInv, QueueTypes, InTime, ControlAccess
<1>7. /\ issue' \in [Units -> Nat] /\ issue'["cim_compute"] = 0
      /\ issue'["cim_control"] = issue["cim_control"]
  BY <1>1, <1>2 DEF Units
<1>8. FrontTypes'
  <2>1. \A u \in Units : issue'[u] # 0 => issue'[u] \in TakenBy(u)'
    BY <1>1, <1>7, SameTypes DEF IInv, FrontTypes, Units
  <2>2. QED
    BY <1>1, <1>2, <1>7, <2>1 DEF FrontTypes, Ids
<1>9. SubTypes'
  <2>1. sub'.ins \in TakenBy("cim_compute")'
    BY <1>1, <1>2, SameTypes
  <2>2. sub' \in SubType /\ sub'.at = "reading"
    BY <1>1, <1>3 DEF SubType
  <2>3. QED
    BY <2>1, <2>2 DEF SubTypes
<1>10. Apart'
  BY <1>1, <1>2, <1>7 DEF IInv, Apart, Units
<1>11. InLine'
  <2>1. i \in booked /\ sub'.ins = i /\ i # 0 /\ sub'.at = "reading"
    BY <1>1 DEF IInv, InLine, i
  <2>2. \A g, j : LastGroup(g, j)' <=> LastGroup(g, j)
    BY <1>1, SameTypes
  <2>3. ASSUME NEW g \in Groups
        PROVE  (ipu[g][0] # Idle =>
                  /\ ipu[g][0].ins # issue["cim_compute"]
                  /\ ipu[g][0].ins = sub.ins => Given(g)
                  /\ LastGroup(g, ipu[g][0].ins) => ipu[g][0].ins \in booked)'
    <3>1. ipu[g][0] # Idle => ipu[g][0].ins # 0
      BY KindFacts, PipelineFacts DEF IInv, GroupTypes
    <3>2. ipu[g][0] # Idle =>
            /\ ipu[g][0].ins # i
            /\ LastGroup(g, ipu[g][0].ins) => ipu[g][0].ins \in booked
      BY DEF IInv, InLine, i
    <3>3. QED
      BY <1>1, <1>7, <2>1, <2>2, <3>1, <3>2
  <2>4. ASSUME NEW g \in Groups, NEW k \in Stages
        PROVE  (stage[g][0][k] # Idle =>
                  /\ stage[g][0][k].ins # issue["cim_compute"]
                  /\ stage[g][0][k].ins = sub.ins => Given(g)
                  /\ stage[g][0][k].last => ipu[g][0].ins # stage[g][0][k].ins)'
    <3>1. stage[g][0][k] # Idle => stage[g][0][k].ins # 0
      BY KindFacts, PipelineFacts DEF IInv, GroupTypes
    <3>2. stage[g][0][k] # Idle =>
            /\ stage[g][0][k].ins # i
            /\ stage[g][0][k].last => ipu[g][0].ins # stage[g][0][k].ins
      BY DEF IInv, InLine, i
    <3>3. QED
      BY <1>1, <1>7, <2>1, <3>1, <3>2
  <2>5. QED
    BY <1>1, <1>7, <2>1, <2>3, <2>4 DEF InLine
<1>12. QED
  BY <1>1, <1>6, <1>7, <1>8, <1>9, <1>10, <1>11, SameTypes, SameOrder DEF IInv

-----------------------------------------------------------------------------
(***************************************************************************)
(* The front end.                                                          *)
(***************************************************************************)
\* Types are kept when an instruction is taken.
LEMMA MoreTaken ==
  ASSUME IInv, Take, UNCHANGED program
  PROVE  /\ starting = next_ins /\ starting \in Ids /\ next_ins' = next_ins + 1
         /\ next_ins \in Nat \ {0}
         /\ \A u : \A j : j \in TakenBy(u)' <=> j \in TakenBy(u) \/ (j = starting /\ program[j].unit = u)
         /\ \A u : \A j \in TakenBy(u) : j # starting /\ j < starting
<1>1. /\ FrontTypes /\ starting = next_ins /\ starting \in Ids /\ next_ins' = starting + 1
  BY DEF IInv, FrontTypes, Take
<1>2. next_ins \in Nat \ {0}
  BY <1>1, TakenFacts
<1>3. QED
  BY <1>1, <1>2 DEF TakenBy, Take

LEMMA TakeOK ==
  ASSUME IInv, Take, UNCHANGED program
  PROVE  IInv'
<1> DEFINE i == starting
<1>1. /\ i # 0 /\ starting' = 0 /\ booked' = booked \cup {i}
      /\ issue' = [issue EXCEPT ![program[i].unit] = i]
      /\ UNCHANGED <<finished, sub, control, queue, ipu, stage, active>>
  BY DEF Take, readers, macro_groups
<1>2. /\ i = next_ins /\ i \in Ids /\ i \in Nat \ {0} /\ next_ins' = i + 1
      /\ \A u : \A j : j \in TakenBy(u)' <=> j \in TakenBy(u) \/ (j = i /\ program[j].unit = u)
      /\ \A u : \A j \in TakenBy(u) : j # i /\ j < i
  BY MoreTaken
<1>3. FrontTypes /\ program[i].unit \in Units /\ issue \in [Units -> Nat]
  BY <1>2, ProgramFacts DEF IInv, FrontTypes
<1>4. \A g, j : LastGroup(g, j)' <=> LastGroup(g, j)
  BY DEF LastGroup, GroupCnt
<1> HIDE DEF i
<1>5. /\ issue' \in [Units -> Nat] /\ issue'[program[i].unit] = i
      /\ \A u \in Units : u # program[i].unit => issue'[u] = issue[u]
      /\ issue[program[i].unit] = 0
  BY <1>1, <1>2, <1>3 DEF IInv, Apart, i
<1>6. FrontTypes'
  <2>1. next_ins' \in 1 .. Len(program) + 1
    BY <1>2, <1>3, ProgramFacts
  <2>2. \A u \in Units : issue'[u] # 0 => issue'[u] \in TakenBy(u)'
    BY <1>2, <1>3, <1>5 DEF FrontTypes
  <2>3. booked' \subseteq 1 .. next_ins' - 1 /\ finished' \subseteq 1 .. next_ins' - 1
    BY <1>1, <1>2, <1>3 DEF FrontTypes
  <2>4. QED
    BY <1>1, <1>3, <1>5, <2>1, <2>2, <2>3 DEF FrontTypes
<1>7. SubTypes' /\ ControlTypes'
  <2>1. (sub # Idle => sub.ins \in TakenBy("cim_compute"))'
    BY <1>1, <1>2 DEF IInv, SubTypes
  <2>2. (control # Idle => control.ins \in TakenBy("cim_control"))'
    BY <1>1, <1>2 DEF IInv, ControlTypes
  <2>3. QED
    BY <1>1, <2>1, <2>2 DEF IInv, SubTypes, ControlTypes, GroupCnt
<1>8. QueueTypes' /\ ControlAccess'
  BY <1>1 DEF IInv, QueueTypes, InTime, ControlAccess, Sole, Asks
<1>9. GroupTypes'
  BY <1>1, <1>2 DEF IInv, GroupTypes
<1>10. Released'
  <2>1. finished' \cap booked' = {}
    BY <1>1, <1>2 DEF IInv, FrontTypes, Released
  <2>2. (control.at \in {"write", "written"} => control.ins \notin booked)'
    <3>1. control # Idle => control.ins # i
      BY <1>2 DEF IInv, ControlTypes
    <3>2. control.at \in {"write", "written"} => control # Idle
      BY KindFacts
    <3>3. QED
      BY <1>1, <3>1, <3>2 DEF IInv, Released
  <2>3. \A g \in Groups : \A k \in Stages : stage[g][0][k] # Idle => stage[g][0][k].ins # i
    BY <1>2, PipelineFacts DEF IInv, GroupTypes
  <2>4. QED
    BY <1>1, <1>4, <2>1, <2>2, <2>3 DEF IInv, Released
<1>11. Apart'
  <2>1. \A a \in booked : program[a].unit = program[i].unit /\ a \in 1 .. i - 1
    BY <1>1, <1>2, <1>3 DEF IInv, Apart, FrontTypes, i
  <2>2. \A a \in booked' : \A j \in 1 .. next_ins' - 1 : a < j => program'[j].unit = program'[a].unit
    BY <1>1, <1>2, <2>1 DEF IInv, Apart
  <2>3. QED
    BY <1>1, <2>2 DEF Apart
<1>12. ControlInOrder'
  <2>1. control # Idle => control.ins \in TakenBy("cim_control")
    BY DEF IInv, ControlTypes
  <2>2. control.at \in {"read", "have_read", "sum"} => control # Idle
    BY KindFacts
  <2>3. \A j \in TakenBy("cim_control") : j \in Nat \ {0}
    BY <1>2 DEF TakenBy
  <2>4. CASE program[i].unit = "cim_control"
    <3>1. issue'["cim_control"] = i /\ issue["cim_control"] = 0
      BY <1>5, <2>4
    <3>2. \A j : j \in TakenBy("cim_control")' <=> j \in TakenBy("cim_control") \/ j = i
      BY <1>2, <2>4
    <3>3. QED
      BY <1>1, <1>2, <2>1, <2>2, <2>3, <3>1, <3>2 DEF IInv, ControlInOrder
  <2>5. CASE program[i].unit # "cim_control"
    <3>1. issue'["cim_control"] = issue["cim_control"]
      BY <1>5, <2>5 DEF Units
    <3>2. \A j : j \in TakenBy("cim_control")' <=> j \in TakenBy("cim_control")
      BY <1>2, <2>5
    <3>3. QED
      BY <1>1, <1>2, <2>1, <2>2, <2>3, <3>1, <3>2 DEF IInv, ControlInOrder
  <2>6. QED
    BY <2>4, <2>5
<1>13. InLine'
  <2>1. sub # Idle => sub.ins # i
    BY <1>2 DEF IInv, SubTypes
  <2>2. /\ issue'["cim_compute"] \in {i, issue["cim_compute"]}
        /\ issue'["cim_compute"] # 0 => issue'["cim_compute"] \in booked'
    BY <1>1, <1>5 DEF IInv, InLine, Units
  <2>3. (sub # Idle => sub.ins # issue["cim_compute"])'
    BY <1>1, <2>1, <2>2 DEF IInv, InLine
  <2>4. (sub # Idle /\ (sub.at = "network" => ~ LastGroup(sub.group, sub.ins)) => sub.ins \in booked)'
    BY <1>1, <1>4 DEF IInv, InLine
  <2>5. ASSUME NEW g \in Groups
        PROVE  (ipu[g][0] # Idle =>
                  /\ ipu[g][0].ins # issue["cim_compute"]
                  /\ ipu[g][0].ins = sub.ins => Given(g)
                  /\ LastGroup(g, ipu[g][0].ins) => ipu[g][0].ins \in booked)'
    <3>1. ipu[g][0] # Idle => ipu[g][0].ins # i
      BY <1>2, PipelineFacts DEF IInv, GroupTypes
    <3>2. QED
      BY <1>1, <1>4, <2>2, <3>1 DEF IInv, InLine, Given
  <2>6. ASSUME NEW g \in Groups, NEW k \in Stages
        PROVE  (stage[g][0][k] # Idle =>
                  /\ stage[g][0][k].ins # issue["cim_compute"]
                  /\ stage[g][0][k].ins = sub.ins => Given(g)
                  /\ stage[g][0][k].last => ipu[g][0].ins # stage[g][0][k].ins)'
    <3>1. stage[g][0][k] # Idle => stage[g][0][k].ins # i
      BY <1>2, PipelineFacts DEF IInv, GroupTypes
    <3>2. QED
      BY <1>1, <2>2, <3>1 DEF IInv, InLine, Given
  <2>7. QED
    BY <2>2, <2>3, <2>4, <2>5, <2>6 DEF InLine
<1>14. ActiveOK'
  <2>1. \A g : Sets(g)' = Sets(g)
    BY <1>1, <1>2 DEF Sets
  <2>2. QED
    BY <1>1, <2>1 DEF IInv, ActiveOK
<1>15. QED
  BY <1>6, <1>7, <1>8, <1>9, <1>10, <1>11, <1>12, <1>13, <1>14 DEF IInv

-----------------------------------------------------------------------------
(***************************************************************************)
(* The macro groups.                                                       *)
(***************************************************************************)
\* The groups' own threads keep their instructions until they are done with them.
OwnKept ==
  \A g \in Groups : ipu'[g][0] # Idle => ipu[g][0] # Idle /\ ipu'[g][0].ins = ipu[g][0].ins

\* What the line of compute instructions and the release ask of a group, if it goes on
\* with instructions it had.
LEMMA GroupLine ==
  ASSUME IInv, UNCHANGED <<program, next_ins, booked, issue, sub>>,
         OwnKept,
         \A g \in Groups : \A k \in Stages :
           stage'[g][0][k] # Idle /\ stage'[g][0][k] # stage[g][0][k] =>
             \/ \E o \in Stages : /\ stage[g][0][o] # Idle
                                  /\ stage'[g][0][k].ins = stage[g][0][o].ins
                                  /\ stage'[g][0][k].last = stage[g][0][o].last
             \/ /\ ipu[g][0] # Idle /\ stage'[g][0][k].ins = ipu[g][0].ins
                /\ stage'[g][0][k].last => ipu'[g][0] = Idle
  PROVE  InLine'
<1>1. \A g, j : LastGroup(g, j)' <=> LastGroup(g, j)
  BY SameTypes
<1>2. \A g \in Groups : Given(g)' = Given(g)
  BY DEF Given
<1>3. ASSUME NEW g \in Groups
      PROVE  (ipu[g][0] # Idle =>
                /\ ipu[g][0].ins # issue["cim_compute"]
                /\ ipu[g][0].ins = sub.ins => Given(g)
                /\ LastGroup(g, ipu[g][0].ins) => ipu[g][0].ins \in booked)'
  BY <1>1, <1>2 DEF IInv, InLine, OwnKept
<1>4. ASSUME NEW g \in Groups, NEW k \in Stages, stage'[g][0][k] # Idle
      PROVE  (/\ stage[g][0][k].ins # issue["cim_compute"]
              /\ stage[g][0][k].ins = sub.ins => Given(g)
              /\ stage[g][0][k].last => ipu[g][0].ins # stage[g][0][k].ins)'
  <2>1. \A o \in Stages : stage[g][0][o] # Idle =>
          /\ stage[g][0][o].ins # issue["cim_compute"] /\ stage[g][0][o].ins # 0
          /\ stage[g][0][o].ins = sub.ins => Given(g)
          /\ stage[g][0][o].last => ipu[g][0].ins # stage[g][0][o].ins
    BY KindFacts, PipelineFacts DEF IInv, GroupTypes, InLine
  <2>2. ipu[g][0] # Idle =>
          /\ ipu[g][0].ins # issue["cim_compute"] /\ ipu[g][0].ins # 0
          /\ ipu[g][0].ins = sub.ins => Given(g)
    BY KindFacts, PipelineFacts DEF IInv, GroupTypes, InLine
  <2>3. ipu'[g][0] = Idle \/ ipu'[g][0].ins = ipu[g][0].ins
    BY DEF OwnKept
  <2>4. Idle.ins = 0
    BY KindFacts
  <2>5. CASE \E o \in Stages : /\ stage[g][0][o] # Idle
                               /\ stage'[g][0][k].ins = stage[g][0][o].ins
                               /\ stage'[g][0][k].last = stage[g][0][o].last
    BY <1>2, <2>1, <2>3, <2>4, <2>5
  <2>6. CASE /\ ipu[g][0] # Idle /\ stage'[g][0][k].ins = ipu[g][0].ins
             /\ stage'[g][0][k].last => ipu'[g][0] = Idle
    BY <1>2, <2>2, <2>4, <2>6
  <2>7. QED
    BY <1>4, <2>5, <2>6
<1>5. QED
  BY <1>1, <1>3, <1>4 DEF IInv, InLine

\* The next macro is looked at.
LEMMA StartMacroOK ==
  ASSUME IInv, NEW g \in Groups, StartMacro(g), UNCHANGED program
  PROVE  IInv' /\ OwnKept
<1> DEFINE own == ipu[g][0]
           n == own.macro
           width == program[own.ins].input_bit_width
           then == IF n + 1 \in Macros THEN [own EXCEPT !.macro = n + 1]
                                       ELSE Batches(own.ins, width)
<1>1. PICK count \in IF n \in active[g] THEN 0 .. width ELSE {0} :
        ipu' = [ipu EXCEPT ![g][0] = then,
                           ![g][n] = IF count = 0 THEN Idle ELSE Batches(own.ins, count)]
  BY DEF StartMacro
<1>2. /\ own.at = "macros"
      /\ UNCHANGED <<next_ins, starting, issue, booked, finished, sub, control, queue, stage, active>>
  BY DEF StartMacro, front, board, readers
<1> DEFINE begun == IF count = 0 THEN Idle ELSE Batches(own.ins, count)
<1>3. /\ FrontTypes /\ own \in IpuType /\ own # Idle /\ own.ins \in TakenBy("cim_compute")
      /\ ipu \in [Groups -> [Pipelines -> IpuType]]
  BY <1>2, KindFacts, PipelineFacts DEF IInv, GroupTypes
<1>4. own \in [ins : Id, at : {"macros"}, macro : Macros]
  BY <1>2, <1>3 DEF IpuType, Idle
<1>5. n \in Macros /\ n \in Pipelines /\ n # 0 /\ own.ins \in Id
  <2>1. n \in Macros /\ own.ins \in Id
    BY <1>4
  <2>2. PICK c : c = Cardinality(Macros)
    OBVIOUS
  <2>3. n \in 1 .. c
    BY <2>1, <2>2, SizeAssumption
  <2>4. QED
    BY <2>1, <2>3, PipelineFacts
<1>6. width \in Nat
  BY <1>3, TakenFacts, ProgramFacts
<1>7. count \in Nat
  BY <1>6
<1>8. then \in IpuType /\ then # Idle /\ then.ins = own.ins
  <2>1. CASE n + 1 \in Macros
    BY <1>4, <2>1 DEF IpuType, Idle
  <2>2. CASE n + 1 \notin Macros
    BY <1>5, <1>6, <2>2, LatencyAssumption DEF Batches, IpuType, Idle
  <2>3. QED
    BY <2>1, <2>2
<1>9. begun \in IpuType /\ (begun # Idle => begun.ins = own.ins)
  BY <1>5, <1>7, LatencyAssumption DEF Batches, IpuType, Idle
<1> HIDE DEF begun, then, n, own, width
<1>10. /\ ipu' \in [Groups -> [Pipelines -> IpuType]]
       /\ ipu'[g][0] = then /\ ipu'[g][n] = begun
       /\ \A h \in Groups : \A o \in Pipelines :
            (h = g /\ o = 0) \/ (h = g /\ o = n) \/ ipu'[h][o] = ipu[h][o]
  <2>1. ipu' = [ipu EXCEPT ![g][0] = then, ![g][n] = begun]
    BY <1>1 DEF begun, then, n, own, width
  <2>2. 0 \in Pipelines
    BY PipelineFacts
  <2>3. QED
    BY <1>3, <1>5, <1>8, <1>9, <2>1, <2>2
<1>11. GroupTypes'
  <2>1. \A h \in Groups : \A o \in Pipelines :
          ipu'[h][o] # Idle => ipu'[h][o].ins \in TakenBy("cim_compute")'
    <3>1. /\ TakenBy("cim_compute")' = TakenBy("cim_compute")
          /\ \A h \in Groups : \A o \in Pipelines :
               ipu[h][o] # Idle => ipu[h][o].ins \in TakenBy("cim_compute")
      BY <1>2, SameTypes DEF IInv, GroupTypes
    <3>2. QED
      BY <1>2, <1>3, <1>8, <1>9, <1>10, <3>1
  <2>2. \A h \in Groups : \A o \in Pipelines : \A k \in Stages :
          stage'[h][o][k] # Idle => stage'[h][o][k].ins \in TakenBy("cim_compute")'
    BY <1>2, SameTypes DEF IInv, GroupTypes
  <2>3. (stage \in [Groups -> [Pipelines -> [Stages -> StageType]]])' /\ (active \in [Groups -> SUBSET Macros])'
    BY <1>2 DEF IInv, GroupTypes
  <2>4. QED
    BY <1>10, <2>1, <2>2, <2>3 DEF GroupTypes
<1>12. OwnKept
  BY <1>3, <1>5, <1>8, <1>10, PipelineFacts DEF own, OwnKept
<1>13. InLine'
  BY <1>2, <1>12, GroupLine
<1>14. QED
  BY <1>2, <1>11, <1>12, <1>13, SameTypes, SameOrder DEF IInv

LEMMA InStageFacts ==
  ASSUME NEW s, s.ins \in Id, s.last \in BOOLEAN, NEW k \in Stages
  PROVE  /\ InStage(s, k) \in StageType /\ InStage(s, k) # Idle
         /\ InStage(s, k).ins = s.ins /\ InStage(s, k).last = s.last
BY LatencyAssumption DEF InStage, StageType, Idle

\* A batch goes to the first stage.
LEMMA IssueBatchOK ==
  ASSUME IInv, NEW g \in Groups, NEW n \in Pipelines, IssueBatch(g, n), UNCHANGED program
  PROVE  IInv' /\ OwnKept
<1> DEFINE s == ipu[g][n]
           last == s.batch = s.count - 1
           batch == InStage([ins |-> s.ins, last |-> last], 1)
           then == IF last THEN Idle ELSE [s EXCEPT !.batch = @ + 1, !.left = IpuLatency]
<1>1. /\ s.at = "ipu"
      /\ stage' = [stage EXCEPT ![g][n][1] = batch] /\ ipu' = [ipu EXCEPT ![g][n] = then]
      /\ UNCHANGED <<next_ins, starting, issue, booked, finished, sub, control, queue, active>>
  BY DEF IssueBatch, front, board, readers
<1>2. /\ s \in IpuType /\ s # Idle /\ s.ins \in TakenBy("cim_compute")
      /\ ipu \in [Groups -> [Pipelines -> IpuType]]
      /\ stage \in [Groups -> [Pipelines -> [Stages -> StageType]]]
  BY <1>1, KindFacts DEF IInv, GroupTypes
<1>3. s \in [ins : Id, at : {"ipu"}, batch : Nat, count : Nat, left : Nat]
  BY <1>1, <1>2 DEF IpuType, Idle
<1>4. then \in IpuType /\ (then # Idle => then.ins = s.ins /\ ~ last)
  <2>1. CASE last
    BY <2>1 DEF IpuType
  <2>2. CASE ~ last
    <3>1. then = [s EXCEPT !.batch = s.batch + 1, !.left = IpuLatency]
      BY <2>2
    <3>2. s.batch + 1 \in Nat /\ IpuLatency \in Nat
      BY <1>3, LatencyAssumption
    <3>3. then \in [ins : Id, at : {"ipu"}, batch : Nat, count : Nat, left : Nat] /\ then.ins = s.ins
      BY <1>3, <3>1, <3>2
    <3>4. QED
      BY <2>2, <3>3 DEF IpuType
  <2>3. QED
    BY <2>1, <2>2
<1>5. 1 \in Stages /\ 1 < Len(StageLatency) /\ 1 <= ShiftAdder
  BY StageFacts
<1>6. batch \in StageType /\ batch # Idle /\ batch.ins = s.ins /\ batch.last = last
  <2>1. PICK b : b = [ins |-> s.ins, last |-> last]
    OBVIOUS
  <2>2. last \in BOOLEAN
    OBVIOUS
  <2> HIDE DEF last
  <2>3. b.ins \in Id /\ b.last \in BOOLEAN /\ b.ins = s.ins /\ b.last = last
    BY <1>3, <2>1, <2>2
  <2>4. batch = InStage(b, 1)
    BY <2>1
  <2>5. QED
    BY <1>5, <2>3, <2>4, InStageFacts
<1> HIDE DEF batch, then, last, s
<1>7. /\ ipu' \in [Groups -> [Pipelines -> IpuType]]
      /\ ipu'[g][n] = then
      /\ \A h \in Groups : \A o \in Pipelines : (h = g /\ o = n) \/ ipu'[h][o] = ipu[h][o]
  BY <1>1, <1>2, <1>4
<1>8. /\ stage' \in [Groups -> [Pipelines -> [Stages -> StageType]]]
      /\ stage'[g][n][1] = batch
      /\ \A h \in Groups : \A o \in Pipelines : \A k \in Stages :
           (h = g /\ o = n /\ k = 1) \/ stage'[h][o][k] = stage[h][o][k]
  BY <1>1, <1>2, <1>5, <1>6
<1>9. GroupTypes'
  <2>1. \A h \in Groups : \A o \in Pipelines :
          ipu'[h][o] # Idle => ipu'[h][o].ins \in TakenBy("cim_compute")'
    BY <1>1, <1>2, <1>4, <1>7, SameTypes DEF IInv, GroupTypes
  <2>2. \A h \in Groups : \A o \in Pipelines : \A k \in Stages :
          stage'[h][o][k] # Idle => stage'[h][o][k].ins \in TakenBy("cim_compute")'
    BY <1>1, <1>2, <1>6, <1>8, SameTypes DEF IInv, GroupTypes
  <2>3. (active \in [Groups -> SUBSET Macros])'
    BY <1>1 DEF IInv, GroupTypes
  <2>4. QED
    BY <1>7, <1>8, <2>1, <2>2, <2>3 DEF GroupTypes
<1>10. Released'
  <2>1. \A h, j : LastGroup(h, j)' <=> LastGroup(h, j)
    BY <1>1, SameTypes
  <2>2. ASSUME NEW h \in Groups, NEW k \in Stages
        PROVE  (stage[h][0][k] # Idle =>
                  /\ k > ShiftAdder => stage[h][0][k].last
                  /\ k = Len(StageLatency) /\ LastGroup(h, stage[h][0][k].ins) =>
                       stage[h][0][k].ins \notin booked)'
    <3>1. CASE k = 1
      BY <1>5, <3>1, StageFacts
    <3>2. CASE k # 1
      BY <1>1, <1>8, <2>1, <3>2, PipelineFacts DEF IInv, Released
    <3>3. QED
      BY <3>1, <3>2
  <2>3. (/\ finished \cap booked = {}
         /\ control.at \in {"write", "written"} => control.ins \notin booked)'
    BY <1>1 DEF IInv, Released
  <2>4. QED
    BY <2>2, <2>3 DEF Released
<1>11. OwnKept
  BY <1>2, <1>4, <1>7, PipelineFacts DEF s, OwnKept
<1>12. InLine'
  <2>1. ASSUME NEW h \in Groups, NEW k \in Stages, stage'[h][0][k] # stage[h][0][k]
        PROVE  /\ ipu[h][0] # Idle /\ stage'[h][0][k].ins = ipu[h][0].ins
               /\ stage'[h][0][k].last => ipu'[h][0] = Idle
    <3>1. h = g /\ n = 0 /\ k = 1
      BY <1>8, <2>1, PipelineFacts
    <3>2. QED
      BY <1>2, <1>4, <1>6, <1>7, <1>8, <3>1 DEF s
  <2>2. QED
    BY <1>1, <1>11, <2>1, GroupLine
<1>13. QED
  BY <1>1, <1>9, <1>10, <1>11, <1>12, SameTypes, SameOrder DEF IInv

\* A batch goes on to the next stage; the last one of the last group releases resources.
LEMMA NextStageOK ==
  ASSUME IInv, NEW g \in Groups, NEW n \in Pipelines, NEW k \in Stages, NextStage(g, n, k),
         UNCHANGED program
  PROVE  IInv'
<1> DEFINE s == stage[g][n][k]
           goes_on == k = ShiftAdder => s.last
           releases == n = 0 /\ goes_on /\ k + 1 = Len(StageLatency) /\ LastGroup(g, s.ins)
<1>1. /\ k < Len(StageLatency) /\ s # Idle
      /\ stage' = [stage EXCEPT ![g][n][k] = Idle,
                                ![g][n][k + 1] = IF goes_on THEN InStage(s, k + 1) ELSE @]
      /\ booked' = IF releases THEN booked \ {s.ins} ELSE booked
      /\ UNCHANGED <<next_ins, starting, issue, finished, sub, control, queue, ipu, active>>
  BY DEF NextStage, Release, front, readers
<1>2. /\ s \in StageType /\ s.ins \in TakenBy("cim_compute") /\ s.ins \in Id /\ s.last \in BOOLEAN
      /\ stage \in [Groups -> [Pipelines -> [Stages -> StageType]]]
  BY <1>1 DEF IInv, GroupTypes, StageType, Idle
<1>3. k \in Nat /\ k + 1 \in Stages /\ ShiftAdder \in Nat /\ Len(StageLatency) \in Nat
      /\ ShiftAdder < Len(StageLatency)
  BY <1>1, StageFacts
<1> DEFINE batch == InStage(s, k + 1)
<1>4. batch \in StageType /\ batch # Idle /\ batch.ins = s.ins /\ batch.last = s.last
  BY <1>2, <1>3, InStageFacts
<1> HIDE DEF batch
<1>5. /\ stage' \in [Groups -> [Pipelines -> [Stages -> StageType]]]
      /\ stage'[g][n][k] = Idle
      /\ goes_on => stage'[g][n][k + 1] = batch
      /\ ~ goes_on => stage'[g][n][k + 1] = stage[g][n][k + 1]
      /\ \A h \in Groups : \A o \in Pipelines : \A j \in Stages :
           (h = g /\ o = n /\ j \in {k, k + 1}) \/ stage'[h][o][j] = stage[h][o][j]
  <2>1. CASE goes_on
    <3>1. stage' = [stage EXCEPT ![g][n][k] = Idle, ![g][n][k + 1] = batch]
      BY <1>1, <2>1 DEF batch
    <3>2. Idle \in StageType
      BY DEF StageType
    <3> HIDE DEF s, goes_on
    <3>3. QED
      BY <1>2, <1>3, <1>4, <2>1, <3>1, <3>2
  <2>2. CASE ~ goes_on
    <3>1. stage' = [stage EXCEPT ![g][n][k] = Idle, ![g][n][k + 1] = @]
      BY <1>1, <2>2
    <3>2. Idle \in StageType
      BY DEF StageType
    <3> HIDE DEF s, goes_on
    <3>3. k # k + 1
      BY <1>3
    <3>4. stage' \in [Groups -> [Pipelines -> [Stages -> StageType]]]
      <4>1. PICK e \in StageType : e = stage[g][n][k + 1]
        BY <1>2, <1>3
      <4>2. stage' = [stage EXCEPT ![g][n][k] = Idle, ![g][n][k + 1] = e]
        BY <1>2, <1>3, <3>1, <3>3, <4>1
      <4>3. QED
        BY <1>2, <1>3, <3>2, <4>1, <4>2
    <3>5. stage'[g][n][k] = Idle /\ stage'[g][n][k + 1] = stage[g][n][k + 1]
      BY <1>2, <1>3, <3>1, <3>3
    <3>6. \A h \in Groups : \A o \in Pipelines : \A j \in Stages :
           (h = g /\ o = n /\ j \in {k, k + 1}) \/ stage'[h][o][j] = stage[h][o][j]
      BY <1>2, <1>3, <3>1, <3>3
    <3>7. QED
      BY <2>2, <3>4, <3>5, <3>6
  <2>3. QED
    BY <2>1, <2>2
<1>6. \A h, j : LastGroup(h, j)' <=> LastGroup(h, j)
  BY <1>1, SameTypes
<1>7. GroupTypes'
  <2>1. \A h \in Groups : \A o \in Pipelines : \A j \in Stages :
          stage'[h][o][j] # Idle => stage'[h][o][j].ins \in TakenBy("cim_compute")'
    <3>1. TakenBy("cim_compute")' = TakenBy("cim_compute")
      BY <1>1, SameTypes
    <3>2. s.ins \in TakenBy("cim_compute") /\ Idle.ins = 0
      BY <1>2, KindFacts
    <3> HIDE DEF s, goes_on, releases
    <3> SUFFICES ASSUME NEW h \in Groups, NEW o \in Pipelines, NEW j \in Stages,
                        stage'[h][o][j] # Idle
                 PROVE  stage'[h][o][j].ins \in TakenBy("cim_compute")
      BY <3>1
    <3>3. stage'[h][o][j] = stage[h][o][j] \/ stage'[h][o][j] = batch
      BY <1>5
    <3>4. stage[h][o][j] # Idle => stage[h][o][j].ins \in TakenBy("cim_compute")
      BY DEF IInv, GroupTypes
    <3>5. QED
      BY <1>4, <3>2, <3>3, <3>4
  <2>2. \A h \in Groups : \A o \in Pipelines :
          ipu'[h][o] # Idle => ipu'[h][o].ins \in TakenBy("cim_compute")'
    BY <1>1, SameTypes DEF IInv, GroupTypes
  <2>3. (ipu \in [Groups -> [Pipelines -> IpuType]])' /\ (active \in [Groups -> SUBSET Macros])'
    BY <1>1 DEF IInv, GroupTypes
  <2>4. QED
    BY <1>5, <2>1, <2>2, <2>3 DEF GroupTypes
<1>8. s.ins \notin TakenBy("cim_control")
  BY <1>2 DEF TakenBy
<1>9. booked' \subseteq booked /\ (releases => s.ins \notin booked')
  BY <1>1
<1>10. FrontTypes' /\ Apart' /\ ControlInOrder' /\ ActiveOK'
  <2>1. CASE releases
    BY <1>1, <1>8, <2>1, FreeOK
  <2>2. CASE ~ releases
    BY <1>1, <2>2, SameTypes, SameOrder DEF IInv
  <2>3. QED
    BY <2>1, <2>2
<1>11. Released'
  <2>1. (/\ finished \cap booked = {}
         /\ control.at \in {"write", "written"} => control.ins \notin booked)'
    BY <1>1, <1>9 DEF IInv, Released
  <2>2. ASSUME NEW h \in Groups, NEW j \in Stages, stage'[h][0][j] # Idle
        PROVE  (/\ j > ShiftAdder => stage[h][0][j].last
                /\ j = Len(StageLatency) /\ LastGroup(h, stage[h][0][j].ins) =>
                     stage[h][0][j].ins \notin booked)'
    <3>1. CASE stage'[h][0][j] = stage[h][0][j]
      BY <1>6, <1>9, <2>2, <3>1 DEF IInv, Released
    <3>2. CASE stage'[h][0][j] # stage[h][0][j]
      <4>1. h = g /\ n = 0 /\ j = k + 1 /\ goes_on /\ stage'[h][0][j] = batch
        BY <1>5, <2>2, <3>2, PipelineFacts
      <4>2. k > ShiftAdder => s.last
        BY <1>1, <4>1 DEF IInv, Released
      <4>3. j > ShiftAdder => s.last
        BY <1>3, <4>1, <4>2
      <4>4. j = Len(StageLatency) /\ LastGroup(h, s.ins) => s.ins \notin booked'
        BY <1>9, <4>1
      <4>5. QED
        BY <1>4, <1>6, <4>1, <4>3, <4>4
    <3>3. QED
      BY <3>1, <3>2
  <2>3. QED
    BY <2>1, <2>2 DEF Released
<1>12. InLine'
  <2>1. CASE ~ releases
    <3>1. ASSUME NEW h \in Groups, NEW j \in Stages,
                 stage'[h][0][j] # Idle, stage'[h][0][j] # stage[h][0][j]
          PROVE  \E o \in Stages : /\ stage[h][0][o] # Idle
                                   /\ stage'[h][0][j].ins = stage[h][0][o].ins
                                   /\ stage'[h][0][j].last = stage[h][0][o].last
      <4>1. h = g /\ n = 0 /\ stage'[h][0][j] = batch
        BY <1>5, <3>1, PipelineFacts
      <4>2. QED
        BY <1>1, <1>4, <4>1
    <3>2. QED
      BY <1>1, <2>1, <3>1, GroupLine DEF OwnKept
  <2>2. CASE releases
    <3>1. /\ n = 0 /\ k + 1 = Len(StageLatency) /\ LastGroup(g, s.ins) /\ s.last
          /\ booked' = booked \ {s.ins}
      BY <1>1, <1>3, <2>2 DEF IInv, Released
    <3>2. /\ s.ins # issue["cim_compute"] /\ ipu[g][0].ins # s.ins /\ s.ins # 0
          /\ s.ins = sub.ins => Given(g)
      BY <1>1, <1>2, <3>1 DEF IInv, InLine, Id
    <3>3. \A h \in Groups : LastGroup(h, s.ins) => h = g
      BY <3>1 DEF LastGroup
    <3>4. (issue["cim_compute"] # 0 => issue["cim_compute"] \in booked)'
      BY <1>1, <3>1, <3>2 DEF IInv, InLine
    <3>5. (sub # Idle /\ (sub.at = "network" => ~ LastGroup(sub.group, sub.ins)) => sub.ins \in booked)'
      <4>1. CASE sub # Idle /\ s.ins = sub.ins
        <5>1. Given(g) /\ sub.group < GroupCnt(sub.ins) /\ g = GroupCnt(sub.ins) - 1
          BY <3>1, <3>2, <4>1 DEF LastGroup, Given, IInv, SubTypes
        <5>2. GroupCnt(sub.ins) \in Nat /\ sub.group \in Nat
          <6>1. FrontTypes /\ sub \in SubType
            BY DEF IInv, SubTypes
          <6>2. sub.ins \in Ids /\ program[sub.ins].unit = "cim_compute"
            BY <1>2, <4>1, <6>1, TakenFacts
          <6>3. GroupCnt(sub.ins) \in Nat
            BY <6>1, <6>2, GroupCntFacts
          <6>4. QED
            BY <5>1, <6>1, <6>3, KindFacts DEF Given
        <5>3. sub.group = g /\ sub.at = "network"
          BY <5>1, <5>2 DEF Given
        <5>4. QED
          BY <1>1, <1>6, <3>1, <4>1, <5>3
      <4>2. CASE ~ (sub # Idle /\ s.ins = sub.ins)
        BY <1>1, <1>6, <3>1, <4>2 DEF IInv, InLine
      <4>3. QED
        BY <4>1, <4>2
    <3>6. ASSUME NEW h \in Groups
          PROVE  (ipu[h][0] # Idle =>
                    /\ ipu[h][0].ins # issue["cim_compute"]
                    /\ ipu[h][0].ins = sub.ins => Given(h)
                    /\ LastGroup(h, ipu[h][0].ins) => ipu[h][0].ins \in booked)'
      <4>1. LastGroup(h, ipu[h][0].ins) => ipu[h][0].ins # s.ins
        BY <3>2, <3>3
      <4>2. QED
        BY <1>1, <1>6, <3>1, <4>1 DEF IInv, InLine, Given
    <3>7. ASSUME NEW h \in Groups, NEW j \in Stages, stage'[h][0][j] # Idle
          PROVE  (/\ stage[h][0][j].ins # issue["cim_compute"]
                  /\ stage[h][0][j].ins = sub.ins => Given(h)
                  /\ stage[h][0][j].last => ipu[h][0].ins # stage[h][0][j].ins)'
      <4>1. CASE stage'[h][0][j] = stage[h][0][j]
        <5>1. /\ stage[h][0][j].ins # issue["cim_compute"]
              /\ stage[h][0][j].ins = sub.ins => Given(h)
              /\ stage[h][0][j].last => ipu[h][0].ins # stage[h][0][j].ins
          BY <3>7, <4>1 DEF IInv, InLine
        <5>2. Given(h)' = Given(h)
          BY <1>1 DEF Given
        <5>3. QED
          BY <1>1, <4>1, <5>1, <5>2
      <4>2. CASE stage'[h][0][j] # stage[h][0][j]
        <5>1. h = g /\ stage'[h][0][j] = batch
          BY <1>5, <3>7, <4>2, PipelineFacts
        <5>2. QED
          BY <1>1, <1>4, <3>2, <5>1 DEF Given
      <4>3. QED
        BY <4>1, <4>2
    <3>8. (sub # Idle => sub.ins # issue["cim_compute"])'
      BY <1>1 DEF IInv, InLine
    <3>9. QED
      BY <3>4, <3>5, <3>6, <3>7, <3>8 DEF InLine
  <2>3. QED
    BY <2>1, <2>2
<1>13. QED
  BY <1>1, <1>7, <1>10, <1>11, <1>12, SameTypes, SameOrder DEF IInv

\* A batch leaves the last stage, and the one of the last group ends its instruction.
LEMMA EndStageOK ==
  ASSUME IInv, NEW g \in Groups, NEW n \in Pipelines, EndStage(g, n), UNCHANGED program
  PROVE  IInv'
<1> DEFINE k == Len(StageLatency)
           s == stage[g][n][k]
<1>1. /\ s # Idle
      /\ stage' = [stage EXCEPT ![g][n][k] = Idle]
      /\ finished' = IF n = 0 /\ LastGroup(g, s.ins) THEN finished \cup {s.ins} ELSE finished
      /\ UNCHANGED <<next_ins, starting, issue, booked, sub, control, queue, ipu, active>>
  BY DEF EndStage, front, readers
<1>2. k \in Stages
  BY StageFacts
<1>3. /\ s.ins \in TakenBy("cim_compute")
      /\ stage \in [Groups -> [Pipelines -> [Stages -> StageType]]]
  BY <1>1, <1>2 DEF IInv, GroupTypes
<1>4. /\ stage' \in [Groups -> [Pipelines -> [Stages -> StageType]]]
      /\ \A h \in Groups : \A o \in Pipelines : \A j \in Stages :
           stage'[h][o][j] = Idle \/ stage'[h][o][j] = stage[h][o][j]
  <2>1. Idle \in StageType
    BY DEF StageType
  <2> HIDE DEF k, s
  <2>2. QED
    BY <1>1, <1>2, <1>3, <2>1
<1>5. \A h, j : LastGroup(h, j)' <=> LastGroup(h, j)
  BY <1>1, SameTypes
<1>6. finished' \subseteq 1 .. next_ins - 1 /\ finished' \cap booked = {}
  <2>1. n = 0 /\ LastGroup(g, s.ins) => s.ins \notin booked
    BY <1>1, <1>2 DEF IInv, Released
  <2>2. s.ins \in 1 .. next_ins - 1
    BY <1>3 DEF TakenBy
  <2>3. QED
    BY <1>1, <2>1, <2>2 DEF IInv, FrontTypes, Released
<1>7. FrontTypes'
  BY <1>1, <1>6, SameTypes DEF IInv, FrontTypes, Ids
<1>8. GroupTypes'
  <2>1. \A h \in Groups : \A o \in Pipelines : \A j \in Stages :
          stage'[h][o][j] # Idle => stage'[h][o][j].ins \in TakenBy("cim_compute")'
    BY <1>1, <1>4, SameTypes DEF IInv, GroupTypes
  <2>2. \A h \in Groups : \A o \in Pipelines :
          ipu'[h][o] # Idle => ipu'[h][o].ins \in TakenBy("cim_compute")'
    BY <1>1, SameTypes DEF IInv, GroupTypes
  <2>3. (ipu \in [Groups -> [Pipelines -> IpuType]])' /\ (active \in [Groups -> SUBSET Macros])'
    BY <1>1 DEF IInv, GroupTypes
  <2>4. QED
    BY <1>4, <2>1, <2>2, <2>3 DEF GroupTypes
<1>9. Released'
  <2>1. ASSUME NEW h \in Groups, NEW j \in Stages, stage'[h][0][j] # Idle
        PROVE  (/\ j > ShiftAdder => stage[h][0][j].last
                /\ j = Len(StageLatency) /\ LastGroup(h, stage[h][0][j].ins) =>
                     stage[h][0][j].ins \notin booked)'
    <3>1. stage'[h][0][j] = stage[h][0][j]
      BY <1>4, <2>1, PipelineFacts
    <3>2. QED
      BY <1>1, <1>5, <2>1, <3>1 DEF IInv, Released
  <2>2. (control.at \in {"write", "written"} => control.ins \notin booked)'
    BY <1>1 DEF IInv, Released
  <2>3. QED
    BY <1>1, <1>6, <2>1, <2>2 DEF Released
<1>10. InLine'
  <2>1. \A h \in Groups : \A j \in Stages :
          stage'[h][0][j] # Idle => stage'[h][0][j] = stage[h][0][j]
    BY <1>4, PipelineFacts
  <2>2. QED
    BY <1>1, <2>1, GroupLine DEF OwnKept
<1>11. QED
  BY <1>1, <1>7, <1>8, <1>9, <1>10, SameTypes, SameOrder DEF IInv

-----------------------------------------------------------------------------
(***************************************************************************)
(* The control unit.                                                       *)
(***************************************************************************)
\* What processExecute knows of the instruction that it executes.
LEMMA ExecutedFacts ==
  ASSUME IInv, control # Idle
  PROVE  /\ control \in ControlType /\ control.ins \in TakenBy("cim_control")
         /\ control.ins \in 1 .. next_ins - 1 /\ control.ins \in Id
         /\ control.ins \notin TakenBy("cim_compute")
         /\ program[control.ins].op \in Operators /\ program[control.ins].mask \in Memories
         /\ program[control.ins].output \in Memories /\ program[control.ins].columns \subseteq Macros
<1>1. FrontTypes /\ control \in ControlType /\ control.ins \in TakenBy("cim_control")
  BY DEF IInv, ControlTypes
<1>2. control.ins \in Ids /\ control.ins \in Id /\ program[control.ins].unit = "cim_control"
  BY <1>1, TakenFacts
<1>3. control.ins \in 1 .. next_ins - 1 /\ control.ins \notin TakenBy("cim_compute")
  BY <1>1, <1>2 DEF TakenBy
<1>4. QED
  BY <1>1, <1>2, <1>3, ProgramFacts

\* The one access of the control unit is asked for.
LEMMA AskControl ==
  ASSUME IInv, control.at \notin {"read", "write"}, NEW m \in Memories,
         queue' = Asking(queue, "control", m), control'.at \in {"read", "write"}
  PROVE  QueueTypes' /\ ControlAccess'
<1>1. queue \in Queues /\ InTime(queue) /\ Sole(queue, {"control"}) /\ ~ Asks(queue, "control")
  BY DEF IInv, QueueTypes, ControlAccess
<1>2. PICK r : r = Asking(queue, "control", m)
  OBVIOUS
<1>3. "control" \in Threads
  BY DEF Threads
<1>4. /\ r \in Queues /\ InTime(r)
      /\ \A W : Sole(queue, W) /\ ("control" \in W => \A w \in W : ~ Asks(queue, w)) => Sole(r, W)
  BY <1>1, <1>2, <1>3, AskingFacts
<1>5. Sole(r, {"control"})
  BY <1>1, <1>4
<1>6. queue' = r
  BY <1>2
<1>7. QED
  BY <1>4, <1>5, <1>6 DEF QueueTypes, InTime, ControlAccess, Sole

LEMMA OperatorFacts ==
  ASSUME NEW op \in Operators
  PROVE  /\ FirstStep(op) \in {"read", "sum", "write"}
         /\ FirstStep(op) \in {"sum", "write"} => op # "set_activation"
<1>1. op \in {"set_activation", "only_output", "output_sum", "output_sum_move"}
  BY DEF Operators
<1>2. CASE op \in {"set_activation", "output_sum"}
  <2>1. FirstStep(op) = "read"
    BY <1>2 DEF FirstStep
  <2>2. QED
    BY <2>1
<1>3. CASE op = "only_output"
  <2>1. FirstStep(op) = "write"
    BY <1>3 DEF FirstStep
  <2>2. QED
    BY <1>3, <2>1
<1>4. CASE op = "output_sum_move"
  <2>1. FirstStep(op) = "sum"
    BY <1>4 DEF FirstStep
  <2>2. QED
    BY <1>4, <2>1
<1>5. QED
  BY <1>1, <1>2, <1>3, <1>4

\* The first step of an operation.
LEMMA StartControlOK ==
  ASSUME IInv, StartControl, UNCHANGED program
  PROVE  IInv'
<1> DEFINE i == issue["cim_control"]
           op == program[i].op
           at == FirstStep(op)
           left == IF at = "sum" THEN ResultAdderLatency - 1 ELSE 0
<1>1. /\ i # 0 /\ control = Idle
      /\ issue' = [issue EXCEPT !["cim_control"] = 0]
      /\ control' = [ins |-> i, at |-> at, left |-> left]
      /\ queue' = CASE at = "read" -> Asking(queue, "control", program[i].mask)
                    [] at = "write" -> Asking(queue, "control", program[i].output)
                    [] OTHER -> queue
      /\ booked' = IF at = "write" THEN booked \ {i} ELSE booked
      /\ UNCHANGED <<next_ins, starting, finished, sub, ipu, stage, active>>
  BY DEF StartControl, Executing, Release, readers, macro_groups
<1>2. FrontTypes /\ i \in TakenBy("cim_control") /\ issue \in [Units -> Nat] /\ i \in booked
  BY <1>1 DEF IInv, FrontTypes, ControlInOrder, Units
<1>3. /\ i \in Ids /\ i \in Id /\ op \in Operators
      /\ program[i].mask \in Memories /\ program[i].output \in Memories
  BY <1>2, TakenFacts, ProgramFacts
<1>4. i \notin TakenBy("cim_compute")
  BY <1>2 DEF TakenBy
<1>5. at \in {"read", "sum", "write"} /\ (at \in {"sum", "write"} => op # "set_activation")
  BY <1>3, OperatorFacts
<1>6. /\ issue' \in [Units -> Nat] /\ issue'["cim_control"] = 0
      /\ issue'["cim_compute"] = issue["cim_compute"]
  BY <1>1, <1>2 DEF Units
<1>7. left \in Nat
  BY LatencyAssumption
<1> HIDE DEF at, left
<1>8. /\ control' \in ControlType /\ control' # Idle /\ control'.ins = i /\ control'.at = at
  BY <1>1, <1>3, <1>5, <1>7 DEF ControlType, Idle
<1> HIDE DEF i, op
<1>9. ControlTypes'
  <2>1. control'.ins \in TakenBy("cim_control")'
    BY <1>1, <1>2, <1>8, SameTypes
  <2>2. (control.at = "sum" => program[control.ins].op # "set_activation")'
    BY <1>5, <1>8 DEF op
  <2>3. QED
    BY <1>8, <2>1, <2>2 DEF ControlTypes
<1>10. QueueTypes' /\ ControlAccess'
  <2>1. control.at \notin {"read", "write"}
    BY <1>1, KindFacts
  <2>2. CASE at = "read"
    <3>1. queue' = Asking(queue, "control", program[i].mask)
      BY <1>1, <2>2
    <3>2. QED
      BY <1>3, <1>8, <2>1, <2>2, <3>1, AskControl
  <2>3. CASE at = "write"
    <3>1. queue' = Asking(queue, "control", program[i].output)
      BY <1>1, <2>3
    <3>2. QED
      BY <1>3, <1>8, <2>1, <2>3, <3>1, AskControl
  <2>4. CASE at = "sum"
    <3>1. queue' = queue
      BY <1>1, <2>4
    <3>2. ~ Asks(queue, "control")
      BY <2>1 DEF IInv, ControlAccess
    <3>3. QED
      BY <1>1, <3>1, <3>2 DEF IInv, QueueTypes, InTime, ControlAccess, Sole, Asks
  <2>5. QED
    BY <1>5, <2>2, <2>3, <2>4
<1>11. FrontTypes'
  <2>1. \A u \in Units : issue'[u] # 0 => issue'[u] \in TakenBy(u)'
    BY <1>1, <1>6, SameTypes DEF IInv, FrontTypes, Units
  <2>2. booked' \subseteq 1 .. next_ins' - 1
    BY <1>1, <1>2 DEF FrontTypes
  <2>3. QED
    BY <1>1, <1>2, <1>6, <2>1, <2>2 DEF FrontTypes, Ids
<1>12. Released'
  <2>1. (finished \cap booked = {})' /\ (control.at \in {"write", "written"} => control.ins \notin booked)'
    BY <1>1, <1>5, <1>8 DEF IInv, Released
  <2>2. \A g, j : LastGroup(g, j)' <=> LastGroup(g, j)
    BY <1>1, SameTypes
  <2>3. booked' \subseteq booked
    BY <1>1
  <2>4. QED
    BY <1>1, <2>1, <2>2, <2>3 DEF IInv, Released
<1>13. Apart'
  <2>1. \A u \in Units : issue'[u] = issue[u] \/ issue'[u] = 0
    BY <1>6 DEF Units
  <2>2. starting # 0 => program[starting].unit \in Units
    BY <1>2, ProgramFacts DEF FrontTypes
  <2>3. booked' \subseteq booked
    BY <1>1
  <2>4. QED
    BY <1>1, <2>1, <2>2, <2>3 DEF IInv, Apart
<1>14. ControlInOrder'
  <2>1. \A j \in TakenBy("cim_control") : j <= i
    BY <1>1 DEF IInv, ControlInOrder, i
  <2>2. \A j \in TakenBy("cim_control") : j \in booked => j = i
    <3>1. \A j \in TakenBy("cim_control") : j # 0
      BY <1>2, TakenFacts DEF Id
    <3>2. control.ins = 0
      BY <1>1, KindFacts
    <3>3. QED
      BY <3>1, <3>2 DEF IInv, ControlInOrder, i
  <2>3. i # 0 /\ (at # "write" => i \in booked')
    BY <1>1, <1>2
  <2>4. TakenBy("cim_control")' = TakenBy("cim_control") /\ booked' \subseteq booked
    BY <1>1, SameTypes
  <2>5. control'.at \in {"read", "have_read", "sum"} => control'.ins \in booked'
    BY <1>8, <2>3
  <2>6. QED
    BY <1>6, <1>8, <2>1, <2>2, <2>3, <2>4, <2>5 DEF ControlInOrder
<1>15. InLine' /\ ActiveOK'
  <2>1. CASE at = "write"
    <3>1. booked' = booked \ {i}
      BY <1>1, <2>1
    <3>2. program[i].op # "set_activation"
      BY <1>5, <2>1 DEF op
    <3>3. QED
      BY <1>1, <1>4, <1>6, <3>1, <3>2, FreeOK
  <2>2. CASE at # "write"
    BY <1>1, <1>6, <2>2, SameOrder
  <2>3. QED
    BY <2>1, <2>2
<1>16. QED
  BY <1>1, <1>9, <1>10, <1>11, <1>12, <1>13, <1>14, <1>15, SameTypes DEF IInv

\* The columns are activated.
LEMMA SetActivationOK ==
  ASSUME IInv, SetActivation, UNCHANGED program
  PROVE  IInv'
<1> DEFINE i == control.ins
           chosen == program[i].columns
<1>1. /\ control.at = "have_read" /\ program[i].op = "set_activation"
      /\ booked' = booked \ {i} /\ finished' = finished \cup {i} /\ control' = Idle
      /\ active' = [g \in Groups |-> IF g \in program[i].groups THEN chosen ELSE active[g]]
      /\ UNCHANGED <<next_ins, starting, issue, sub, queue, ipu, stage>>
  BY DEF SetActivation, Release, front, readers
<1>2. control # Idle
  BY <1>1, KindFacts
<1>3. /\ i \in TakenBy("cim_control") /\ i \in 1 .. next_ins - 1
      /\ i \notin TakenBy("cim_compute") /\ chosen \subseteq Macros
  BY <1>2, ExecutedFacts
<1>4. i \in booked /\ FrontTypes
  BY <1>1 DEF IInv, ControlInOrder
<1>5. Idle.ins = 0 /\ Idle.at = "idle"
  BY KindFacts
<1> HIDE DEF i, chosen
<1>6. FrontTypes'
  BY <1>1, <1>3, SameTypes DEF IInv, FrontTypes, Ids
<1>7. ControlTypes' /\ ControlAccess'
  <2>1. ~ Asks(queue, "control")
    BY <1>1 DEF IInv, ControlAccess
  <2>2. QED
    BY <1>1, <1>5, <2>1 DEF IInv, ControlTypes, ControlType, ControlAccess, Sole, Asks
<1>8. GroupTypes'
  <2>1. active' \in [Groups -> SUBSET Macros]
    BY <1>1, <1>3 DEF IInv, GroupTypes
  <2>2. TakenBy("cim_compute")' = TakenBy("cim_compute")
    BY <1>1, SameTypes
  <2>3. QED
    BY <1>1, <2>1, <2>2 DEF IInv, GroupTypes
<1>9. Released'
  <2>1. (finished \cap booked = {})' /\ (control.at \in {"write", "written"} => control.ins \notin booked)'
    BY <1>1, <1>5 DEF IInv, Released
  <2>2. \A g, j : LastGroup(g, j)' <=> LastGroup(g, j)
    BY <1>1, SameTypes
  <2>3. QED
    BY <1>1, <2>1, <2>2 DEF IInv, Released
<1>10. Apart' /\ InLine'
  BY <1>1, <1>3, FreeOK
<1>11. ControlInOrder'
  <2>1. TakenBy("cim_control")' = TakenBy("cim_control")
    BY <1>1, SameTypes
  <2>2. i # issue["cim_control"]
    BY <1>2 DEF IInv, ControlInOrder, i
  <2>3. \A j \in TakenBy("cim_control") : j \in booked' => j = issue["cim_control"]
    BY <1>1 DEF IInv, ControlInOrder, i
  <2>4. QED
    BY <1>1, <1>5, <2>1, <2>2, <2>3 DEF IInv, ControlInOrder
<1>12. ActiveOK'
  <2>1. TakenBy("cim_control")' = TakenBy("cim_control")
    BY <1>1, SameTypes
  <2>2. ASSUME NEW g
        PROVE  Sets(g)' = IF g \in program[i].groups THEN Sets(g) \cup {i} ELSE Sets(g)
    BY <1>1, <1>3, <2>1 DEF Sets
  <2>3. \A g : \A j \in Sets(g) : j <= i
    <3>1. \A j \in TakenBy("cim_control") : j <= i \/ j = issue["cim_control"]
      BY <1>2 DEF IInv, ControlInOrder, i
    <3>2. \A j \in TakenBy("cim_control") : j = issue["cim_control"] => j \in booked
      BY TakenFacts DEF IInv, ControlInOrder, Id
    <3>3. QED
      BY <3>1, <3>2 DEF Sets
  <2>4. \A g : Sets(g) \subseteq Nat
    BY DEF Sets, TakenBy
  <2>5. ASSUME NEW g \in Groups
        PROVE  active'[g] = IF Sets(g)' = {} THEN Macros ELSE program'[Max(Sets(g)')].columns
    <3>1. CASE g \in program[i].groups
      <4>1. PICK S : S = Sets(g) \cup {i}
        OBVIOUS
      <4>2. S \in SUBSET Nat /\ i \in S /\ \A j \in S : j <= i
        BY <1>3, <2>3, <2>4, <4>1
      <4>3. Max(S) = i
        BY <4>2, MaxIs
      <4>4. Sets(g)' = S
        BY <2>2, <3>1, <4>1
      <4>5. QED
        BY <1>1, <3>1, <4>2, <4>3, <4>4 DEF chosen
    <3>2. CASE g \notin program[i].groups
      BY <1>1, <2>2, <3>2 DEF IInv, ActiveOK
    <3>3. QED
      BY <3>1, <3>2
  <2>6. QED
    BY <2>5 DEF ActiveOK
<1>13. QED
  BY <1>1, <1>6, <1>7, <1>8, <1>9, <1>10, <1>11, <1>12, SameTypes DEF IInv

\* The mask has been read, and the results are added.
LEMMA OutputSumOK ==
  ASSUME IInv, OutputSum, UNCHANGED program
  PROVE  IInv'
<1>1. /\ control.at = "have_read" /\ program[control.ins].op = "output_sum"
      /\ control' = [ins |-> control.ins, at |-> "sum", left |-> ResultAdderLatency - 1]
      /\ UNCHANGED <<next_ins, starting, issue, booked, finished, sub, queue, ipu, stage, active>>
  BY DEF OutputSum, Executing, front, board, readers, macro_groups
<1>2. control # Idle
  BY <1>1, KindFacts
<1>3. control.ins \in TakenBy("cim_control") /\ control.ins \in Id
  BY <1>2, ExecutedFacts
<1>4. control' \in ControlType /\ control' # Idle /\ control'.ins = control.ins /\ control'.at = "sum"
  BY <1>1, <1>3, LatencyAssumption DEF ControlType, Idle
<1>5. ControlTypes'
  BY <1>1, <1>3, <1>4, SameTypes DEF IInv, ControlTypes
<1>6. ControlAccess'
  BY <1>1, <1>4 DEF IInv, ControlAccess, Sole, Asks
<1>7. Released' /\ ControlInOrder'
  BY <1>1, <1>2, <1>4, SameTypes DEF IInv, Released, ControlInOrder
<1>8. QED
  BY <1>1, <1>5, <1>6, <1>7, SameTypes, SameOrder DEF IInv

\* The sum is written.
LEMMA WriteSumOK ==
  ASSUME IInv, WriteSum, UNCHANGED program
  PROVE  IInv'
<1>1. /\ control.at = "sum" /\ booked' = booked \ {control.ins}
      /\ control' = [ins |-> control.ins, at |-> "write", left |-> 0]
      /\ queue' = Asking(queue, "control", program[control.ins].output)
      /\ UNCHANGED <<next_ins, starting, issue, finished, sub, ipu, stage, active>>
  BY DEF WriteSum, Executing, Release, front, readers, macro_groups
<1>2. control # Idle
  BY <1>1, KindFacts
<1>3. /\ control.ins \in TakenBy("cim_control") /\ control.ins \in Id
      /\ control.ins \notin TakenBy("cim_compute") /\ program[control.ins].output \in Memories
  BY <1>2, ExecutedFacts
<1>4. control' \in ControlType /\ control' # Idle /\ control'.ins = control.ins /\ control'.at = "write"
  BY <1>1, <1>3 DEF ControlType, Idle
<1>5. program[control.ins].op # "set_activation"
  BY <1>1 DEF IInv, ControlTypes
<1>6. ControlTypes'
  BY <1>1, <1>3, <1>4, SameTypes DEF IInv, ControlTypes
<1>7. QueueTypes' /\ ControlAccess'
  BY <1>1, <1>3, <1>4, AskControl
<1>8. FrontTypes' /\ Apart' /\ InLine' /\ ActiveOK'
  BY <1>1, <1>3, <1>5, FreeOK
<1>9. Released'
  <2>1. (finished \cap booked = {})' /\ (control.at \in {"write", "written"} => control.ins \notin booked)'
    BY <1>1, <1>4 DEF IInv, Released
  <2>2. \A g, j : LastGroup(g, j)' <=> LastGroup(g, j)
    BY <1>1, SameTypes
  <2>3. QED
    BY <1>1, <2>1, <2>2 DEF IInv, Released
<1>10. ControlInOrder'
  <2>1. TakenBy("cim_control")' = TakenBy("cim_control")
    BY <1>1, SameTypes
  <2>2. QED
    BY <1>1, <1>2, <1>4, <2>1 DEF IInv, ControlInOrder
<1>11. QED
  BY <1>1, <1>6, <1>7, <1>8, <1>9, <1>10, SameTypes DEF IInv

\* The output has been written.
LEMMA EndOutputOK ==
  ASSUME IInv, EndOutput, UNCHANGED program
  PROVE  IInv'
<1>1. /\ control.at = "written" /\ finished' = finished \cup {control.ins} /\ control' = Idle
      /\ UNCHANGED <<next_ins, starting, issue, booked, sub, queue, ipu, stage, active>>
  BY DEF EndOutput, front, readers, macro_groups
<1>2. control # Idle
  BY <1>1, KindFacts
<1>3. control.ins \in 1 .. next_ins - 1 /\ control.ins \notin booked
  BY <1>1, <1>2, ExecutedFacts DEF IInv, Released
<1>4. Idle.ins = 0 /\ Idle.at = "idle"
  BY KindFacts
<1>5. FrontTypes'
  BY <1>1, <1>3, SameTypes DEF IInv, FrontTypes, Ids
<1>6. ControlTypes' /\ ControlAccess'
  <2>1. ~ Asks(queue, "control")
    BY <1>1 DEF IInv, ControlAccess
  <2>2. QED
    BY <1>1, <1>4, <2>1 DEF IInv, ControlTypes, ControlType, ControlAccess, Sole, Asks
<1>7. Released'
  <2>1. (finished \cap booked = {})' /\ (control.at \in {"write", "written"} => control.ins \notin booked)'
    BY <1>1, <1>3, <1>4 DEF IInv, Released
  <2>2. \A g, j : LastGroup(g, j)' <=> LastGroup(g, j)
    BY <1>1, SameTypes
  <2>3. QED
    BY <1>1, <2>1, <2>2 DEF IInv, Released
<1>8. ControlInOrder'
  <2>1. TakenBy("cim_control")' = TakenBy("cim_control")
    BY <1>1, SameTypes
  <2>2. QED
    BY <1>1, <1>3, <1>4, <2>1 DEF IInv, ControlInOrder
<1>9. QED
  BY <1>1, <1>5, <1>6, <1>7, <1>8, SameTypes, SameOrder DEF IInv

-----------------------------------------------------------------------------
(***************************************************************************)
(* A cycle passes.                                                         *)
(***************************************************************************)
LEMMA LaterNat ==
  ASSUME NEW left \in Nat
  PROVE  Later(left) \in Nat
BY DEF Later

\* A thread has waited one cycle more: nothing else of it changes.
LEMMA AgedSub ==
  ASSUME NEW s \in SubType
  PROVE  /\ Aged(s) \in SubType /\ (Aged(s) = Idle <=> s = Idle)
         /\ Aged(s).ins = s.ins /\ Aged(s).at = s.at
         /\ s.at \in {"access", "run", "network"} => Aged(s).group = s.group
         /\ s.at = "access" => Aged(s) = s
<1>1. CASE Aged(s) = s
  BY <1>1
<1>2. CASE Aged(s) # s
  <2>1. "left" \in DOMAIN s /\ Aged(s) = [s EXCEPT !.left = Later(s.left)] /\ s.at # "access"
    BY <1>2 DEF Aged
  <2>2. s # Idle /\ s \notin [ins : Id, at : {"reading"}]
    BY <2>1 DEF Idle
  <2>3. s \in [ins : Id, at : {"access", "run", "network"}, group : Nat, left : Nat]
    BY <2>2 DEF SubType
  <2>4. Later(s.left) \in Nat
    BY <2>3, LaterNat
  <2>5. QED
    BY <2>1, <2>3, <2>4 DEF SubType, Idle
<1>3. QED
  BY <1>1, <1>2

LEMMA AgedControl ==
  ASSUME NEW s \in ControlType
  PROVE  /\ Aged(s) \in ControlType /\ (Aged(s) = Idle <=> s = Idle)
         /\ Aged(s).ins = s.ins /\ Aged(s).at = s.at
<1>1. CASE Aged(s) = s
  BY <1>1
<1>2. CASE Aged(s) # s
  <2>1. "left" \in DOMAIN s /\ Aged(s) = [s EXCEPT !.left = Later(s.left)]
    BY <1>2 DEF Aged
  <2>2. s # Idle
    BY <2>1 DEF Idle
  <2>3. s \in [ins : Id, at : {"read", "have_read", "sum", "write", "written"}, left : Nat]
    BY <2>2 DEF ControlType
  <2>4. Later(s.left) \in Nat
    BY <2>3, LaterNat
  <2>5. QED
    BY <2>1, <2>3, <2>4 DEF ControlType, Idle
<1>3. QED
  BY <1>1, <1>2

LEMMA AgedIpu ==
  ASSUME NEW s \in IpuType
  PROVE  /\ Aged(s) \in IpuType /\ (Aged(s) = Idle <=> s = Idle)
         /\ Aged(s).ins = s.ins /\ Aged(s).at = s.at
<1>1. CASE Aged(s) = s
  BY <1>1
<1>2. CASE Aged(s) # s
  <2>1. "left" \in DOMAIN s /\ Aged(s) = [s EXCEPT !.left = Later(s.left)]
    BY <1>2 DEF Aged
  <2>2. s # Idle /\ s \notin [ins : Id, at : {"macros"}, macro : Macros]
    BY <2>1 DEF Idle
  <2>3. s \in [ins : Id, at : {"ipu"}, batch : Nat, count : Nat, left : Nat]
    BY <2>2 DEF IpuType
  <2>4. Later(s.left) \in Nat
    BY <2>3, LaterNat
  <2>5. QED
    BY <2>1, <2>3, <2>4 DEF IpuType, Idle
<1>3. QED
  BY <1>1, <1>2

LEMMA AgedStage ==
  ASSUME NEW s \in StageType
  PROVE  /\ Aged(s) \in StageType /\ (Aged(s) = Idle <=> s = Idle)
         /\ Aged(s).ins = s.ins /\ Aged(s).at = s.at
         /\ s # Idle => Aged(s).last = s.last
<1>1. CASE Aged(s) = s
  BY <1>1
<1>2. CASE Aged(s) # s
  <2>1. "left" \in DOMAIN s /\ Aged(s) = [s EXCEPT !.left = Later(s.left)]
    BY <1>2 DEF Aged
  <2>2. s # Idle
    BY <2>1 DEF Idle
  <2>3. s \in [ins : Id, at : {"execute"}, last : BOOLEAN, left : Nat]
    BY <2>2 DEF StageType
  <2>4. Later(s.left) \in Nat
    BY <2>3, LaterNat
  <2>5. QED
    BY <2>1, <2>3, <2>4 DEF StageType, Idle
<1>3. QED
  BY <1>1, <1>2

\* What Tick does to the state.
LEMMA TickFacts ==
  ASSUME IInv, Tick, UNCHANGED program
  PROVE  /\ UNCHANGED <<next_ins, issue, booked, finished, active>>
         /\ sub' \in SubType /\ (sub' = Idle <=> sub = Idle)
         /\ sub'.ins = sub.ins /\ sub'.at = sub.at
         /\ sub.at \in {"access", "run", "network"} => sub'.group = sub.group
         /\ sub.at = "access" => sub' = sub
         /\ control' \in ControlType /\ (control' = Idle <=> control = Idle)
         /\ control'.ins = control.ins /\ control'.at = control.at
         /\ ipu' \in [Groups -> [Pipelines -> IpuType]]
         /\ stage' \in [Groups -> [Pipelines -> [Stages -> StageType]]]
         /\ \A g \in Groups : \A n \in Pipelines :
              /\ ipu'[g][n] = Idle <=> ipu[g][n] = Idle
              /\ ipu'[g][n].ins = ipu[g][n].ins
              /\ \A k \in Stages :
                   /\ stage'[g][n][k] = Idle <=> stage[g][n][k] = Idle
                   /\ stage'[g][n][k].ins = stage[g][n][k].ins
                   /\ stage[g][n][k] # Idle => stage'[g][n][k].last = stage[g][n][k].last
         /\ starting' = IF Leaves(next_ins) THEN next_ins ELSE 0
<1>1. /\ UNCHANGED <<next_ins, issue, booked, finished, active>>
      /\ sub' = Aged(sub) /\ control' = Aged(control)
      /\ ipu' = [g \in Groups |-> [n \in Pipelines |-> Aged(ipu[g][n])]]
      /\ stage' = [g \in Groups |-> [n \in Pipelines |-> [k \in Stages |-> Aged(stage[g][n][k])]]]
      /\ starting' = IF Leaves(next_ins) THEN next_ins ELSE 0
  BY DEF Tick, board
<1>2. /\ sub \in SubType /\ control \in ControlType
      /\ \A g \in Groups : \A n \in Pipelines :
           ipu[g][n] \in IpuType /\ \A k \in Stages : stage[g][n][k] \in StageType
  BY DEF IInv, SubTypes, ControlTypes, GroupTypes
<1>3. /\ sub' \in SubType /\ (sub' = Idle <=> sub = Idle)
      /\ sub'.ins = sub.ins /\ sub'.at = sub.at
      /\ sub.at \in {"access", "run", "network"} => sub'.group = sub.group
      /\ sub.at = "access" => sub' = sub
  BY <1>1, <1>2, AgedSub
<1>4. /\ control' \in ControlType /\ (control' = Idle <=> control = Idle)
      /\ control'.ins = control.ins /\ control'.at = control.at
  BY <1>1, <1>2, AgedControl
<1>5. \A g \in Groups : \A n \in Pipelines :
        ipu'[g][n] = Aged(ipu[g][n]) /\ \A k \in Stages : stage'[g][n][k] = Aged(stage[g][n][k])
  BY <1>1
<1>6. ipu' \in [Groups -> [Pipelines -> IpuType]]
  BY <1>1, <1>2, AgedIpu
<1>7. stage' \in [Groups -> [Pipelines -> [Stages -> StageType]]]
  BY <1>1, <1>2, AgedStage
<1>8. ASSUME NEW g \in Groups, NEW n \in Pipelines
      PROVE  /\ ipu'[g][n] = Idle <=> ipu[g][n] = Idle
             /\ ipu'[g][n].ins = ipu[g][n].ins
  BY <1>2, <1>5, AgedIpu
<1>9. ASSUME NEW g \in Groups, NEW n \in Pipelines, NEW k \in Stages
      PROVE  /\ stage'[g][n][k] = Idle <=> stage[g][n][k] = Idle
             /\ stage'[g][n][k].ins = stage[g][n][k].ins
             /\ stage[g][n][k] # Idle => stage'[g][n][k].last = stage[g][n][k].last
  BY <1>2, <1>5, AgedStage
<1>10. QED
  BY <1>1, <1>3, <1>4, <1>6, <1>7, <1>8, <1>9

\* The queues, which are those of the control unit too.
LEMMA TickQueues ==
  ASSUME IInv, Tick, UNCHANGED program
  PROVE  /\ queue' \in Queues /\ InTime(queue')
         /\ \A w : Asks(queue', w) => Asks(queue, w)
         /\ \A W : Sole(queue, W) => Sole(queue', W)
<1>1. queue \in Queues /\ InTime(queue)
  BY DEF IInv, QueueTypes
<1>2. PICK r : r = [m \in Memories |->
                      IF queue[m] = <<>> THEN <<>> ELSE [queue[m] EXCEPT ![1].left = Later(@)]]
  OBVIOUS
<1>3. /\ r \in Queues /\ InTime(r)
      /\ \A w : Asks(r, w) => Asks(queue, w)
      /\ \A W : Sole(queue, W) => Sole(r, W)
  BY <1>1, <1>2, LaterFacts
<1>4. queue' = r
  BY <1>2 DEF Tick
<1>5. QED
  BY <1>3, <1>4

LEMMA TickOK ==
  ASSUME IInv, Tick, UNCHANGED program
  PROVE  IInv'
<1>1. /\ UNCHANGED <<next_ins, issue, booked, finished, active>>
      /\ sub' \in SubType /\ (sub' = Idle <=> sub = Idle)
      /\ sub'.ins = sub.ins /\ sub'.at = sub.at
      /\ sub.at \in {"access", "run", "network"} => sub'.group = sub.group
      /\ sub.at = "access" => sub' = sub
      /\ control' \in ControlType /\ (control' = Idle <=> control = Idle)
      /\ control'.ins = control.ins /\ control'.at = control.at
      /\ starting' = IF Leaves(next_ins) THEN next_ins ELSE 0
  BY TickFacts
<1>2. /\ ipu' \in [Groups -> [Pipelines -> IpuType]]
      /\ stage' \in [Groups -> [Pipelines -> [Stages -> StageType]]]
  BY TickFacts
<1>3. \A g \in Groups : \A n \in Pipelines :
        /\ ipu'[g][n] = Idle <=> ipu[g][n] = Idle
        /\ ipu'[g][n].ins = ipu[g][n].ins
        /\ \A k \in Stages :
             /\ stage'[g][n][k] = Idle <=> stage[g][n][k] = Idle
             /\ stage'[g][n][k].ins = stage[g][n][k].ins
             /\ stage[g][n][k] # Idle => stage'[g][n][k].last = stage[g][n][k].last
  BY TickFacts
<1>4. /\ \A u : TakenBy(u)' = TakenBy(u)
      /\ \A g, i : LastGroup(g, i)' <=> LastGroup(g, i)
  BY <1>1, SameTypes
<1>5. FrontTypes'
  <2>1. starting' # 0 => starting' = next_ins /\ starting' \in Ids
    BY <1>1 DEF Leaves
  <2>2. QED
    BY <1>1, <1>4, <2>1 DEF IInv, FrontTypes, Ids
<1>6. SubTypes'
  <2>1. (sub # Idle => sub.ins \in TakenBy("cim_compute"))'
    BY <1>1, <1>4 DEF IInv, SubTypes
  <2>2. (sub # Idle /\ sub.at # "reading" => sub.group < GroupCnt(sub.ins))'
    <3>1. ASSUME sub # Idle, sub.at # "reading"
          PROVE  sub'.group = sub.group /\ sub.group < GroupCnt(sub.ins)
      BY <1>1, <3>1, KindFacts DEF IInv, SubTypes
    <3>2. GroupCnt(sub.ins)' = GroupCnt(sub.ins)
      BY <1>1 DEF GroupCnt
    <3>3. QED
      BY <1>1, <3>1, <3>2
  <2>3. (sub.at = "access" => sub.left # 0)'
    BY <1>1 DEF IInv, SubTypes
  <2>4. QED
    BY <1>1, <2>1, <2>2, <2>3 DEF SubTypes
<1>7. ControlTypes'
  BY <1>1, <1>4 DEF IInv, ControlTypes
<1>8. QueueTypes'
  BY TickQueues, <1>1 DEF QueueTypes, InTime
<1>9. GroupTypes'
  <2>1. \A g \in Groups : \A n \in Pipelines :
          ipu'[g][n] # Idle => ipu'[g][n].ins \in TakenBy("cim_compute")'
    BY <1>3, <1>4 DEF IInv, GroupTypes
  <2>2. \A g \in Groups : \A n \in Pipelines : \A k \in Stages :
          stage'[g][n][k] # Idle => stage'[g][n][k].ins \in TakenBy("cim_compute")'
    <3> SUFFICES ASSUME NEW g \in Groups, NEW n \in Pipelines, NEW k \in Stages,
                        stage'[g][n][k] # Idle
                 PROVE  stage'[g][n][k].ins \in TakenBy("cim_compute")'
      OBVIOUS
    <3>1. stage[g][n][k] # Idle /\ stage'[g][n][k].ins = stage[g][n][k].ins
      BY <1>3
    <3>2. stage[g][n][k].ins \in TakenBy("cim_compute")
      BY <3>1 DEF IInv, GroupTypes
    <3>3. QED
      BY <1>4, <3>1, <3>2
  <2>3. active' \in [Groups -> SUBSET Macros]
    BY <1>1 DEF IInv, GroupTypes
  <2>4. QED
    BY <1>2, <2>1, <2>2, <2>3 DEF GroupTypes
<1>10. ControlAccess'
  <2>1. Sole(queue, {"control"}) => Sole(queue', {"control"})
    BY TickQueues
  <2>2. Asks(queue', "control") => Asks(queue, "control")
    BY TickQueues
  <2>3. QED
    BY <1>1, <2>1, <2>2 DEF IInv, ControlAccess
<1>11. Released'
  <2>1. ASSUME NEW g \in Groups, NEW k \in Stages, stage'[g][0][k] # Idle
        PROVE  (/\ k > ShiftAdder => stage[g][0][k].last
                /\ k = Len(StageLatency) /\ LastGroup(g, stage[g][0][k].ins) =>
                     stage[g][0][k].ins \notin booked)'
    BY <1>1, <1>3, <1>4, <2>1, PipelineFacts DEF IInv, Released
  <2>2. (/\ finished \cap booked = {}
         /\ control.at \in {"write", "written"} => control.ins \notin booked)'
    BY <1>1 DEF IInv, Released
  <2>3. QED
    BY <2>1, <2>2 DEF Released
<1>12. Apart'
  <2>1. ASSUME Leaves(next_ins)
        PROVE  /\ issue[program[next_ins].unit] = 0
               /\ \A i \in booked : program[i].unit = program[next_ins].unit
    BY <2>1, UnitsConflict DEF Leaves, Stalled
  <2>2. QED
    BY <1>1, <2>1 DEF IInv, Apart
<1>13. ControlInOrder'
  BY <1>1, <1>4 DEF IInv, ControlInOrder
<1>14. InLine'
  <2>1. \A g \in Groups : Given(g)' <=> Given(g)
    BY <1>1 DEF Given
  <2>2. (issue["cim_compute"] # 0 => issue["cim_compute"] \in booked)'
    BY <1>1 DEF IInv, InLine
  <2>3. (sub # Idle => sub.ins # issue["cim_compute"])'
    BY <1>1 DEF IInv, InLine
  <2>4. (sub # Idle /\ (sub.at = "network" => ~ LastGroup(sub.group, sub.ins)) => sub.ins \in booked)'
    <3>1. sub.at = "network" => sub'.group = sub.group
      BY <1>1
    <3>2. QED
      BY <1>1, <1>4, <3>1 DEF IInv, InLine
  <2>5. ASSUME NEW g \in Groups
        PROVE  (ipu[g][0] # Idle =>
                  /\ ipu[g][0].ins # issue["cim_compute"]
                  /\ ipu[g][0].ins = sub.ins => Given(g)
                  /\ LastGroup(g, ipu[g][0].ins) => ipu[g][0].ins \in booked)'
    BY <1>1, <1>3, <1>4, <2>1, PipelineFacts DEF IInv, InLine
  <2>6. ASSUME NEW g \in Groups, NEW k \in Stages
        PROVE  (stage[g][0][k] # Idle =>
                  /\ stage[g][0][k].ins # issue["cim_compute"]
                  /\ stage[g][0][k].ins = sub.ins => Given(g)
                  /\ stage[g][0][k].last => ipu[g][0].ins # stage[g][0][k].ins)'
    BY <1>1, <1>3, <2>1, PipelineFacts DEF IInv, InLine
  <2>7. QED
    BY <2>2, <2>3, <2>4, <2>5, <2>6 DEF InLine
<1>15. ActiveOK'
  BY <1>1, SameOrder
<1>16. QED
  BY <1>5, <1>6, <1>7, <1>8, <1>9, <1>10, <1>11, <1>12, <1>13, <1>14, <1>15 DEF IInv

-----------------------------------------------------------------------------
(***************************************************************************)
(* The theorems.                                                           *)
(***************************************************************************)
LEMMA NextOK ==
  ASSUME IInv, [Next]_vars
  PROVE  IInv'
<1>1. CASE UNCHANGED vars
  BY <1>1, SameTypes, SameOrder
     DEF IInv, vars, cim_vars, front, board, readers, macro_groups
<1>2. CASE Next
  <2>1. UNCHANGED program
    BY <1>2 DEF Next
  <2>2. CASE Tick
    BY <2>1, <2>2, TickOK
  <2>3. CASE Take
    BY <2>1, <2>3, TakeOK
  <2>4. CASE \E m \in Memories : FinishAccess(m)
    BY <2>1, <2>4, FinishAccessOK
  <2>5. CASE StartSub
    BY <2>1, <2>5, StartSubOK
  <2>6. CASE FinishReadData
    BY <2>1, <2>6, FinishReadDataOK
  <2>7. CASE RunMacroGroup
    BY <2>1, <2>7, RunMacroGroupOK
  <2>8. CASE LeaveNetwork
    BY <2>1, <2>8, LeaveNetworkOK
  <2>9. CASE \E g \in Groups : StartMacro(g)
    BY <2>1, <2>9, StartMacroOK
  <2>10. CASE \E g \in Groups : \E n \in Pipelines : IssueBatch(g, n)
    BY <2>1, <2>10, IssueBatchOK
  <2>11. CASE \E g \in Groups : \E n \in Pipelines : EndStage(g, n)
    BY <2>1, <2>11, EndStageOK
  <2>12. CASE \E g \in Groups : \E n \in Pipelines : \E k \in Stages : NextStage(g, n, k)
    BY <2>1, <2>12, NextStageOK
  <2>13. CASE StartControl
    BY <2>1, <2>13, StartControlOK
  <2>14. CASE SetActivation
    BY <2>1, <2>14, SetActivationOK
  <2>15. CASE OutputSum
    BY <2>1, <2>15, OutputSumOK
  <2>16. CASE WriteSum
    BY <2>1, <2>16, WriteSumOK
  <2>17. CASE EndOutput
    BY <2>1, <2>17, EndOutputOK
  <2>18. QED
    BY <1>2, <2>2, <2>3, <2>4, <2>5, <2>6, <2>7, <2>8, <2>9, <2>10, <2>11, <2>12, <2>13, <2>14,
       <2>15, <2>16, <2>17 DEF Next, Instant, MacroGroup
<1>3. QED
  BY <1>1, <1>2

\* The inductive invariant: what the threads and the pipelines of the CIM unit hold, who
\* holds resources, and what has been activated.
THEOREM Invariance == Spec => []IInv
<1>1. Init => IInv
  BY InitOK
<1>2. IInv /\ [Next]_vars => IInv'
  BY NextOK
<1>3. QED
  BY <1>1, <1>2, PTL DEF Spec

\* Threads hold instructions that have left decode, processSubIns is in a group of its
\* instruction, and no access takes longer than its memory does.
THEOREM TypeOKHolds == Spec => []TypeOK
<1>1. IInv => TypeOK
  <2> SUFFICES ASSUME IInv PROVE TypeOK
    OBVIOUS
  <2>1. /\ next_ins \in 1 .. Len(program) + 1 /\ starting \in {0, next_ins}
        /\ booked \subseteq 1 .. next_ins - 1 /\ finished \subseteq 1 .. next_ins - 1
        /\ finished \cap booked = {}
    BY DEF IInv, FrontTypes, Released
  <2>2. sub # Idle => program[sub.ins].unit = "cim_compute"
    BY DEF IInv, SubTypes, TakenBy
  <2>3. ASSUME sub.at \in {"access", "run", "network"}
        PROVE  sub.group \in 0 .. GroupCnt(sub.ins) - 1
    <3>1. /\ FrontTypes /\ sub \in SubType /\ sub # Idle /\ sub.at # "reading"
          /\ sub.ins \in TakenBy("cim_compute") /\ sub.group < GroupCnt(sub.ins)
      BY <2>3, KindFacts DEF IInv, SubTypes
    <3>2. sub.group \in Nat
      BY <2>3, <3>1, KindFacts
    <3>3. GroupCnt(sub.ins) \in Nat
      BY <3>1, TakenFacts, GroupCntFacts
    <3>4. QED
      BY <3>1, <3>2, <3>3
  <2>4. ASSUME NEW m \in Memories, NEW a \in DOMAIN queue[m]
        PROVE  queue[m][a].left \in 0 .. AccessTime[m]
    <3>1. queue[m] \in Seq(AccessType) /\ InTime(queue)
      BY DEF IInv, QueueTypes, Queues
    <3>2. a \in 1 .. Len(queue[m]) /\ queue[m][a] \in AccessType
      BY <3>1
    <3>3. queue[m][a].left \in Nat /\ queue[m][a].left <= AccessTime[m] /\ AccessTime[m] \in Nat
      BY <3>1, <3>2, LatencyAssumption DEF AccessType, InTime
    <3>4. QED
      BY <3>3
  <2>5. \A g \in Groups : active[g] \subseteq Macros
    BY DEF IInv, GroupTypes
  <2>6. QED
    BY <2>1, <2>2, <2>3, <2>4, <2>5 DEF TypeOK
<1>2. QED
  BY <1>1, Invariance, PTL

-----------------------------------------------------------------------------
(***************************************************************************)
(* The reads of the compute unit, of programs in which no instruction has  *)
(* both mask and meta data: the end of one read is taken for the end of    *)
(* all, so that of two the first would be enough.                          *)
(***************************************************************************)
OneKindOfSparsity ==
  \A p \in Programs : \A i \in DOMAIN p :
    p[i].unit = "cim_compute" =>
      ~ (ValueSparse /\ p[i].value_sparse /\ BitSparse /\ p[i].bit_sparse)

\* There is one access of the compute unit at most, and a thread waits for it.
OneRead ==
  /\ Sole(queue, ComputeThreads)
  /\ Asks(queue, "mask") => mask # 0
  /\ Asks(queue, "meta") => meta # 0
  /\ mask # 0 \/ meta # 0 => sub.at = "reading"
  /\ Asks(queue, "sub") => sub.at = "access"

LEMMA OneReadInit == Init => OneRead
<1> SUFFICES ASSUME Init PROVE OneRead
  OBVIOUS
<1>1. \A m \in Memories : Len(queue[m]) = 0
  BY DEF Init
<1>2. QED
  BY <1>1 DEF Init, OneRead, Sole, Asks

\* An access more of the control unit, one that is over or one that has waited longer.
LEMMA SameRead ==
  ASSUME OneRead, UNCHANGED <<mask, meta>>, sub'.at = sub.at,
         Sole(queue', ComputeThreads),
         \A w \in ComputeThreads : Asks(queue', w) => Asks(queue, w)
  PROVE  OneRead'
<1>1. {"sub", "mask", "meta"} = ComputeThreads
  BY DEF ComputeThreads
<1>2. Sole(queue, ComputeThreads)' = Sole(queue', ComputeThreads)
  BY DEF Sole, ComputeThreads
<1>3. \A w : Asks(queue, w)' = Asks(queue', w)
  BY DEF Asks
<1>4. QED
  BY <1>1, <1>2, <1>3 DEF OneRead

\* The input of a group is asked for when no read is under way.
LEMMA InputRead ==
  ASSUME OneRead, mask' = 0, meta' = 0, Sole(queue', ComputeThreads),
         \A w \in ComputeThreads : Asks(queue', w) => w = "sub" /\ sub'.at = "access"
  PROVE  OneRead'
<1>1. {"sub", "mask", "meta"} = ComputeThreads
  BY DEF ComputeThreads
<1>2. Sole(queue, ComputeThreads)' = Sole(queue', ComputeThreads)
  BY DEF Sole, ComputeThreads
<1>3. \A w : Asks(queue, w)' = Asks(queue', w)
  BY DEF Asks
<1>4. QED
  BY <1>1, <1>2, <1>3 DEF OneRead

LEMMA OneReadStep ==
  ASSUME OneKindOfSparsity, IInv, OneRead, [Next]_vars
  PROVE  OneRead'
<1>1. /\ FrontTypes /\ sub \in SubType /\ queue \in Queues /\ InTime(queue)
      /\ Sole(queue, ComputeThreads)
  BY DEF IInv, SubTypes, QueueTypes, OneRead
<1>2. "sub" \in ComputeThreads /\ "mask" \in ComputeThreads /\ "meta" \in ComputeThreads
      /\ "control" \notin ComputeThreads
      /\ {"sub", "mask", "meta", "control"} \subseteq Threads
  BY DEF ComputeThreads, Threads
<1>3. CASE UNCHANGED <<queue, mask, meta, sub>>
  BY <1>1, <1>3, SameRead
<1>4. ASSUME NEW m \in Memories, queue' = Asking(queue, "control", m), UNCHANGED <<mask, meta, sub>>
      PROVE  OneRead'
  <2>1. PICK r : r = Asking(queue, "control", m)
    OBVIOUS
  <2>2. /\ \A w : Asks(r, w) => Asks(queue, w) \/ w = "control"
        /\ \A W : Sole(queue, W) /\ ("control" \in W => \A w \in W : ~ Asks(queue, w)) => Sole(r, W)
    BY <1>1, <1>2, <2>1, AskingFacts
  <2>3. Sole(r, ComputeThreads)
    BY <1>1, <1>2, <2>2
  <2>4. queue' = r
    BY <1>4, <2>1
  <2>5. QED
    BY <1>2, <1>4, <2>2, <2>3, <2>4, SameRead
<1>5. ASSUME UNCHANGED program, Next
      PROVE  OneRead'
  <2>1. CASE Tick
    <3>1. \A W : Sole(queue, W) => Sole(queue', W)
      BY <1>5, <2>1, TickQueues
    <3>2. \A w : Asks(queue', w) => Asks(queue, w)
      BY <1>5, <2>1, TickQueues
    <3>3. sub'.at = sub.at
      BY <1>5, <2>1, TickFacts
    <3>4. UNCHANGED <<mask, meta>>
      BY <2>1 DEF Tick
    <3>5. Sole(queue', ComputeThreads)
      BY <1>1, <3>1
    <3>6. QED
      BY <3>2, <3>3, <3>4, <3>5, SameRead
  <2>2. ASSUME NEW m \in Memories, FinishAccess(m)
        PROVE  OneRead'
    <3>1. PICK rest : rest = Rest(queue, m)
      OBVIOUS
    <3>2. /\ queue[m] # <<>>
          /\ IF Head(queue[m]).who \in ComputeThreads THEN WakeReaders(rest) ELSE WakeControl(rest)
      BY <2>2, <3>1 DEF FinishAccess, Rest
    <3>3. /\ rest \in Queues /\ InTime(rest)
          /\ \A w : Asks(rest, w) => Asks(queue, w)
          /\ \A W : Sole(queue, W) => Sole(rest, W)
          /\ \A W : Sole(queue, W) /\ Head(queue[m]).who \in W => \A w \in W : ~ Asks(rest, w)
      BY <1>1, <3>1, <3>2, RestFacts
    <3>4. Sole(rest, ComputeThreads)
      BY <1>1, <3>3
    <3>5. CASE Head(queue[m]).who \notin ComputeThreads
      <4>1. queue' = rest /\ UNCHANGED <<sub, mask, meta>>
        BY <3>2, <3>5 DEF WakeControl, readers
      <4>2. QED
        BY <3>3, <3>4, <4>1, SameRead
    <3>6. CASE Head(queue[m]).who \in ComputeThreads
      <4>1. \A w \in ComputeThreads : ~ Asks(rest, w)
        BY <1>1, <3>3, <3>6
      <4>2. /\ mask' = 0 /\ meta' = 0
            /\ \/ /\ sub.at = "access" /\ sub' = ReadInputs(sub.ins, sub.group, sub.left - 1)
                  /\ queue' = AskInput(rest, sub.ins, sub.left - 1)
               \/ queue' = rest
        BY <3>2, <3>6 DEF WakeReaders
      <4>3. CASE queue' = rest
        BY <3>4, <4>1, <4>2, <4>3, InputRead
      <4>4. CASE /\ sub.at = "access" /\ sub' = ReadInputs(sub.ins, sub.group, sub.left - 1)
                 /\ queue' = AskInput(rest, sub.ins, sub.left - 1)
        <5>1. /\ sub # Idle /\ sub.ins \in TakenBy("cim_compute") /\ sub.group \in Nat
              /\ sub.left \in Nat /\ sub.left # 0
          BY <1>1, <4>4, KindFacts DEF IInv, SubTypes
        <5>2. sub.ins \in Id /\ program[sub.ins].input \in Memories
          BY <1>1, <5>1, TakenFacts, ProgramFacts
        <5>3. PICK left \in Nat : left = sub.left - 1
          BY <5>1
        <5>4. left # 0 => sub'.at = "access"
          BY <4>4, <5>1, <5>2, <5>3, ReadInputsFacts
        <5>5. PICK r : r = AskInput(rest, sub.ins, left)
          OBVIOUS
        <5>6. /\ \A w : Asks(r, w) => Asks(rest, w) \/ (w = "sub" /\ left # 0)
              /\ \A W : Sole(rest, W) /\ ("sub" \in W => \A w \in W : ~ Asks(rest, w)) => Sole(r, W)
          BY <3>3, <5>2, <5>5, AskInputFacts
        <5>7. Sole(r, ComputeThreads)
          BY <3>4, <4>1, <5>6
        <5>8. queue' = r
          BY <4>4, <5>3, <5>5
        <5>9. QED
          BY <4>1, <4>2, <5>4, <5>6, <5>7, <5>8, InputRead
      <4>5. QED
        BY <4>2, <4>3, <4>4
    <3>7. QED
      BY <3>5, <3>6
  <2>3. CASE StartSub
    <3> DEFINE i == issue["cim_compute"]
               asked == IF UsesMask(i) THEN Asking(queue, "mask", program[i].mask) ELSE queue
    <3>1. /\ i # 0 /\ sub = Idle /\ sub' = [ins |-> i, at |-> "reading"]
          /\ mask' = (IF UsesMask(i) THEN i ELSE mask) /\ meta' = (IF UsesMeta(i) THEN i ELSE meta)
          /\ queue' = IF UsesMeta(i) THEN Asking(asked, "meta", program[i].meta) ELSE asked
      BY <2>3 DEF StartSub
    <3>2. \A w \in ComputeThreads : ~ Asks(queue, w)
      BY <3>1, KindFacts DEF OneRead, ComputeThreads
    <3>3. i \in TakenBy("cim_compute")
      BY <1>1, <3>1 DEF FrontTypes, Units
    <3>4. /\ i \in Ids /\ program[i].unit = "cim_compute"
          /\ program[i].mask \in Memories /\ program[i].meta \in Memories
      BY <1>1, <3>3, TakenFacts, ProgramFacts
    <3>5. ~ (UsesMask(i) /\ UsesMeta(i))
      BY <1>1, <3>4 DEF OneKindOfSparsity, FrontTypes, Ids, UsesMask, UsesMeta
    <3>6. /\ \A w : Asks(queue, w)' = Asks(queue', w)
          /\ Sole(queue, ComputeThreads)' = Sole(queue', ComputeThreads)
      BY DEF Asks, Sole, ComputeThreads
    <3> HIDE DEF i
    <3>7. CASE UsesMask(i)
      <4>1. PICK r : r = Asking(queue, "mask", program[i].mask)
        OBVIOUS
      <4>2. /\ \A w : Asks(r, w) => Asks(queue, w) \/ w = "mask"
            /\ \A W : Sole(queue, W) /\ ("mask" \in W => \A w \in W : ~ Asks(queue, w)) => Sole(r, W)
        BY <1>1, <1>2, <3>4, <4>1, AskingFacts
      <4>3. Sole(r, ComputeThreads)
        BY <1>1, <3>2, <4>2
      <4>4. queue' = r /\ mask' = i
        BY <3>1, <3>5, <3>7, <4>1
      <4>5. sub'.at = "reading" /\ i # 0
        BY <3>1
      <4>6. \A w \in ComputeThreads : Asks(queue', w) => w = "mask"
        BY <3>2, <4>2, <4>4
      <4>7. QED
        BY <1>2, <3>6, <4>3, <4>4, <4>5, <4>6 DEF OneRead
    <3>8. CASE ~ UsesMask(i) /\ UsesMeta(i)
      <4>1. PICK r : r = Asking(queue, "meta", program[i].meta)
        OBVIOUS
      <4>2. /\ \A w : Asks(r, w) => Asks(queue, w) \/ w = "meta"
            /\ \A W : Sole(queue, W) /\ ("meta" \in W => \A w \in W : ~ Asks(queue, w)) => Sole(r, W)
        BY <1>1, <1>2, <3>4, <4>1, AskingFacts
      <4>3. Sole(r, ComputeThreads)
        BY <1>1, <3>2, <4>2
      <4>4. queue' = r /\ meta' = i
        BY <3>1, <3>8, <4>1
      <4>5. sub'.at = "reading" /\ i # 0
        BY <3>1
      <4>6. \A w \in ComputeThreads : Asks(queue', w) => w = "meta"
        BY <3>2, <4>2, <4>4
      <4>7. QED
        BY <1>2, <3>6, <4>3, <4>4, <4>5, <4>6 DEF OneRead
    <3>9. CASE ~ UsesMask(i) /\ ~ UsesMeta(i)
      <4>1. queue' = queue /\ sub'.at = "reading"
        BY <3>1, <3>9
      <4>2. QED
        BY <1>1, <1>2, <3>2, <3>6, <4>1 DEF OneRead
    <3>10. QED
      BY <3>7, <3>8, <3>9
  <2>4. CASE FinishReadData
    <3>1. /\ sub.at = "reading" /\ mask = 0 /\ meta = 0 /\ UNCHANGED <<mask, meta>>
          /\ sub' = ReadInputs(sub.ins, 0, InputReads(sub.ins))
          /\ queue' = AskInput(queue, sub.ins, InputReads(sub.ins))
      BY <2>4 DEF FinishReadData, DataRead
    <3>2. sub # Idle /\ sub.ins \in TakenBy("cim_compute")
      BY <1>1, <3>1, KindFacts DEF IInv, SubTypes
    <3>3. /\ sub.ins \in Ids /\ sub.ins \in Id /\ program[sub.ins].unit = "cim_compute"
          /\ program[sub.ins].input \in Memories
      BY <1>1, <3>2, TakenFacts, ProgramFacts
    <3>4. PICK left \in Nat : left = InputReads(sub.ins)
      BY <1>1, <3>3, GroupCntFacts
    <3>5. left # 0 => sub'.at = "access"
      BY <3>1, <3>3, <3>4, ReadInputsFacts
    <3>6. \A w \in ComputeThreads : ~ Asks(queue, w)
      BY <3>1 DEF OneRead, ComputeThreads
    <3>7. PICK r : r = AskInput(queue, sub.ins, left)
      OBVIOUS
    <3>8. /\ \A w : Asks(r, w) => Asks(queue, w) \/ (w = "sub" /\ left # 0)
          /\ \A W : Sole(queue, W) /\ ("sub" \in W => \A w \in W : ~ Asks(queue, w)) => Sole(r, W)
      BY <1>1, <3>3, <3>7, AskInputFacts
    <3>9. Sole(r, ComputeThreads)
      BY <1>1, <3>6, <3>8
    <3>10. queue' = r
      BY <3>1, <3>4, <3>7
    <3>11. QED
      BY <3>1, <3>5, <3>6, <3>8, <3>9, <3>10, InputRead
  <2>5. ASSUME sub.at \in {"run", "network"}, NextGroup, UNCHANGED <<mask, meta>>
        PROVE  OneRead'
    <3>1. \A w \in ComputeThreads : ~ Asks(queue, w)
      BY <2>5 DEF OneRead, ComputeThreads
    <3>2. mask' = 0 /\ meta' = 0
      BY <2>5 DEF OneRead
    <3>3. \A w : Asks(queue', w) => Asks(queue, w) \/ (w = "sub" /\ sub'.at = "access")
      BY <2>5, NextGroupFacts
    <3>4. \A W : Sole(queue, W) /\ ("sub" \in W => \A w \in W : ~ Asks(queue, w)) => Sole(queue', W)
      BY <2>5, NextGroupFacts
    <3>5. Sole(queue', ComputeThreads)
      BY <1>1, <3>1, <3>4
    <3>6. QED
      BY <3>1, <3>2, <3>3, <3>5, InputRead
  <2>6. CASE RunMacroGroup
    <3>1. /\ sub.at = "run" /\ UNCHANGED <<mask, meta>>
          /\ \/ sub' = [sub EXCEPT !.at = "network", !.left = NetworkLatency] /\ queue' = queue
             \/ NextGroup
      BY <2>6 DEF RunMacroGroup
    <3>2. CASE queue' = queue
      <4>1. \A w \in ComputeThreads : ~ Asks(queue', w)
        BY <3>1, <3>2 DEF OneRead, ComputeThreads
      <4>2. mask' = 0 /\ meta' = 0
        BY <3>1 DEF OneRead
      <4>3. QED
        BY <1>1, <3>2, <4>1, <4>2, InputRead
    <3>3. CASE NextGroup
      BY <2>5, <3>1, <3>3
    <3>4. QED
      BY <3>1, <3>2, <3>3
  <2>7. CASE LeaveNetwork
    BY <2>5, <2>7 DEF LeaveNetwork
  <2>8. CASE StartControl
    <3> DEFINE i == issue["cim_control"]
               at == FirstStep(program[i].op)
    <3>1. /\ i # 0 /\ UNCHANGED <<mask, meta, sub>>
          /\ queue' = CASE at = "read" -> Asking(queue, "control", program[i].mask)
                        [] at = "write" -> Asking(queue, "control", program[i].output)
                        [] OTHER -> queue
      BY <2>8 DEF StartControl, readers
    <3>2. i \in TakenBy("cim_control")
      BY <1>1, <3>1 DEF FrontTypes, Units
    <3>3. /\ program[i].op \in Operators
          /\ program[i].mask \in Memories /\ program[i].output \in Memories
      BY <1>1, <3>2, TakenFacts, ProgramFacts
    <3>4. at \in {"read", "sum", "write"}
      BY <3>3, OperatorFacts
    <3> HIDE DEF at, i
    <3>5. CASE at = "read"
      <4>1. queue' = Asking(queue, "control", program[i].mask)
        BY <3>1, <3>5
      <4>2. QED
        BY <1>4, <3>1, <3>3, <4>1
    <3>6. CASE at = "write"
      <4>1. queue' = Asking(queue, "control", program[i].output)
        BY <3>1, <3>6
      <4>2. QED
        BY <1>4, <3>1, <3>3, <4>1
    <3>7. CASE at = "sum"
      <4>1. queue' = queue
        BY <3>1, <3>7
      <4>2. QED
        BY <1>3, <3>1, <4>1
    <3>8. QED
      BY <3>4, <3>5, <3>6, <3>7
  <2>9. CASE WriteSum
    <3>1. /\ control.at = "sum" /\ UNCHANGED <<mask, meta, sub>>
          /\ queue' = Asking(queue, "control", program[control.ins].output)
      BY <2>9 DEF WriteSum, readers
    <3>2. program[control.ins].output \in Memories
      BY <3>1, KindFacts, ExecutedFacts
    <3>3. QED
      BY <1>4, <3>1, <3>2
  <2>10. CASE Take \/ SetActivation \/ OutputSum \/ EndOutput
    BY <1>3, <2>10 DEF Take, SetActivation, OutputSum, EndOutput, readers
  <2>11. CASE \E g \in Groups : MacroGroup(g)
    <3>1. ASSUME NEW g \in Groups, MacroGroup(g)
          PROVE  UNCHANGED <<queue, mask, meta, sub>>
      <4>1. CASE StartMacro(g)
        BY <4>1 DEF StartMacro, readers
      <4>2. CASE \E n \in Pipelines : IssueBatch(g, n) \/ EndStage(g, n)
        BY <4>2 DEF IssueBatch, EndStage, readers
      <4>3. CASE \E n \in Pipelines : \E k \in Stages : NextStage(g, n, k)
        BY <4>3 DEF NextStage, readers
      <4>4. QED
        BY <3>1, <4>1, <4>2, <4>3 DEF MacroGroup
    <3>2. QED
      BY <1>3, <2>11, <3>1
  <2>12. QED
    BY <1>5, <2>1, <2>2, <2>3, <2>4, <2>6, <2>7, <2>8, <2>9, <2>10, <2>11 DEF Next, Instant
<1>6. QED
  BY <1>3, <1>5 DEF Next, vars, cim_vars, readers

\* No group is given work before mask, meta data and its inputs have been read, if no
\* instruction has both mask and meta data (CimUnitsBothSparse has a counterexample
\* for one that does).
THEOREM ReadDataFinishedHolds ==
  ASSUME OneKindOfSparsity
  PROVE  Spec => []ReadDataFinished
<1>1. Init => IInv /\ OneRead
  BY InitOK, OneReadInit
<1>2. (IInv /\ OneRead) /\ [Next]_vars => (IInv /\ OneRead)'
  BY NextOK, OneReadStep
<1>3. IInv /\ OneRead => ReadDataFinished
  <2> SUFFICES ASSUME IInv, OneRead PROVE ReadDataFinished
    OBVIOUS
  <2>1. \A m \in Memories : DOMAIN queue[m] = 1 .. Len(queue[m])
    BY DEF IInv, QueueTypes, Queues
  <2>2. \A who : UnderWay(who) = {} <=> ~ Asks(queue, who)
    BY <2>1 DEF UnderWay, Asks
  <2>3. QED
    BY <2>2 DEF OneRead, ReadDataFinished
<1>4. QED
  BY <1>1, <1>2, <1>3, PTL DEF Spec

-----------------------------------------------------------------------------
(***************************************************************************)
(* The activation that an instruction finds.                               *)
(***************************************************************************)
\* What ActiveInOrder says of a group.
InOrderIn(g) ==
  ipu[g][0].at = "macros" =>
    LET sets == SetBefore(ipu[g][0].ins, g)
    IN  active[g] = IF sets = {} THEN Macros ELSE program[Max(sets)].columns

\* An instruction looks for active macros in its last group with its resources held: the
\* instructions that have set the activation are those before it.
LEMMA HeldInOrder ==
  ASSUME IInv, NEW g \in Groups, ipu[g][0] # Idle, LastGroup(g, ipu[g][0].ins)
  PROVE  Sets(g) = SetBefore(ipu[g][0].ins, g)
<1> DEFINE i == ipu[g][0].ins
<1>1. /\ i \in TakenBy("cim_compute") /\ i \in booked /\ FrontTypes
  BY PipelineFacts DEF IInv, GroupTypes, InLine
<1>2. i \in 1 .. next_ins - 1 /\ program[i].unit = "cim_compute" /\ next_ins \in Nat
  BY <1>1, TakenFacts DEF TakenBy
<1> HIDE DEF i
<1>3. ASSUME NEW j \in Sets(g)
      PROVE  j \in SetBefore(i, g)
  <2>1. /\ j \in 1 .. next_ins - 1 /\ program[j].unit = "cim_control"
        /\ program[j].op = "set_activation" /\ g \in program[j].groups
    BY DEF Sets, TakenBy
  <2>2. ~ (i < j)
    BY <1>1, <1>2, <2>1 DEF IInv, Apart
  <2>3. j # i
    BY <1>2, <2>1
  <2>4. j \in 1 .. i - 1
    BY <1>2, <2>1, <2>2, <2>3
  <2>5. QED
    BY <2>1, <2>4 DEF SetBefore
<1>4. ASSUME NEW j \in SetBefore(i, g)
      PROVE  j \in Sets(g)
  <2>1. /\ j \in 1 .. i - 1 /\ program[j].unit = "cim_control"
        /\ program[j].op = "set_activation" /\ g \in program[j].groups
    BY DEF SetBefore
  <2>2. j \in 1 .. next_ins - 1 /\ j < i
    BY <1>2, <2>1
  <2>3. j \notin booked
    BY <1>2, <2>1, <2>2 DEF IInv, Apart
  <2>4. QED
    BY <2>1, <2>2, <2>3 DEF Sets, TakenBy
<1>5. QED
  BY <1>3, <1>4 DEF i

LEMMA LastInOrder ==
  ASSUME IInv, NEW g \in Groups, LastGroup(g, ipu[g][0].ins)
  PROVE  InOrderIn(g)
<1>1. CASE ipu[g][0].at = "macros"
  <2>1. ipu[g][0] # Idle
    BY <1>1, KindFacts
  <2>2. Sets(g) = SetBefore(ipu[g][0].ins, g)
    BY <2>1, HeldInOrder
  <2>3. QED
    BY <2>2 DEF InOrderIn, IInv, ActiveOK
<1>2. CASE ipu[g][0].at # "macros"
  BY <1>2 DEF InOrderIn
<1>3. QED
  BY <1>1, <1>2

\* In its last group, which releases it, an instruction finds active what the last
\* set_activation before it in the program has activated, however long the groups,
\* the memories and the network take.
THEOREM LastGroupInOrder ==
  Spec => [](\A g \in Groups : LastGroup(g, ipu[g][0].ins) => InOrderIn(g))
<1>1. IInv => \A g \in Groups : LastGroup(g, ipu[g][0].ins) => InOrderIn(g)
  BY LastInOrder
<1>2. QED
  BY <1>1, Invariance, PTL

\* An instruction is in no group that is none of its own.
InOwnGroups == \A g \in Groups : ipu[g][0] # Idle => g < GroupCnt(ipu[g][0].ins)

LEMMA InOwnGroupsStep ==
  ASSUME IInv, InOwnGroups, [Next]_vars
  PROVE  InOwnGroups'
<1>1. \A i : GroupCnt(i)' = GroupCnt(i)
  BY DEF GroupCnt, Next, vars
<1>2. ASSUME OwnKept
      PROVE  InOwnGroups'
  BY <1>1, <1>2 DEF InOwnGroups, OwnKept
<1>3. CASE UNCHANGED ipu
  BY <1>2, <1>3 DEF OwnKept
<1>4. ASSUME UNCHANGED program, Next
      PROVE  InOwnGroups'
  <2>1. CASE Tick
    BY <1>2, <1>4, <2>1, TickFacts, PipelineFacts DEF OwnKept
  <2>2. CASE RunMacroGroup
    <3>1. /\ sub.at = "run"
          /\ ipu' = [ipu EXCEPT ![sub.group][0] = [ins |-> sub.ins, at |-> "macros", macro |-> 1]]
      BY <2>2 DEF RunMacroGroup
    <3>2. sub # Idle /\ sub.group < GroupCnt(sub.ins) /\ ipu \in [Groups -> [Pipelines -> IpuType]]
      BY <3>1, KindFacts DEF IInv, SubTypes, GroupTypes
    <3>3. ASSUME NEW g \in Groups
          PROVE  \/ ipu'[g][0] = ipu[g][0]
                 \/ g = sub.group /\ ipu'[g][0].ins = sub.ins
      BY <3>1, <3>2, PipelineFacts
    <3>4. QED
      BY <1>1, <3>2, <3>3 DEF InOwnGroups
  <2>3. CASE \E g \in Groups : StartMacro(g) \/ \E n \in Pipelines : IssueBatch(g, n)
    BY <1>2, <1>4, <2>3, StartMacroOK, IssueBatchOK
  <2>4. CASE Take \/ StartSub \/ FinishReadData \/ LeaveNetwork \/ (\E m \in Memories : FinishAccess(m))
    BY <1>3, <2>4 DEF Take, StartSub, FinishReadData, LeaveNetwork, FinishAccess, macro_groups
  <2>5. CASE StartControl \/ SetActivation \/ OutputSum \/ WriteSum \/ EndOutput
    BY <1>3, <2>5 DEF StartControl, SetActivation, OutputSum, WriteSum, EndOutput, macro_groups
  <2>6. CASE \E g \in Groups : \E n \in Pipelines : EndStage(g, n) \/ \E k \in Stages : NextStage(g, n, k)
    <3>1. CASE \E g \in Groups : \E n \in Pipelines : EndStage(g, n)
      BY <1>3, <3>1 DEF EndStage
    <3>2. CASE \E g \in Groups : \E n \in Pipelines : \E k \in Stages : NextStage(g, n, k)
      BY <1>3, <3>2 DEF NextStage
    <3>3. QED
      BY <2>6, <3>1, <3>2
  <2>7. QED
    BY <1>4, <2>1, <2>2, <2>3, <2>4, <2>5, <2>6 DEF Next, Instant, MacroGroup
<1>5. QED
  BY <1>3, <1>4 DEF Next, vars, cim_vars, macro_groups

\* Every compute instruction uses one group: in a macro simulation, or with one group
\* configured, all of them do.
OneGroupEach ==
  \A p \in Programs : \A i \in DOMAIN p :
    p[i].unit = "cim_compute" => Min({p[i].activation_group_num, Cardinality(Groups)}) = 1

LEMMA OneGroupInOrder ==
  ASSUME OneGroupEach
  PROVE  Spec => []ActiveInOrder
<1>1. Init => IInv /\ InOwnGroups
  <2>1. Init => InOwnGroups
    BY PipelineFacts DEF Init, InOwnGroups
  <2>2. QED
    BY <2>1, InitOK
<1>2. (IInv /\ InOwnGroups) /\ [Next]_vars => (IInv /\ InOwnGroups)'
  BY NextOK, InOwnGroupsStep
<1>3. IInv /\ InOwnGroups => ActiveInOrder
  <2> SUFFICES ASSUME IInv, InOwnGroups, NEW g \in Groups, ipu[g][0].at = "macros"
               PROVE  InOrderIn(g)
    BY DEF ActiveInOrder, InOrderIn
  <2>1. ipu[g][0] # Idle
    BY KindFacts
  <2>2. ipu[g][0].ins \in TakenBy("cim_compute") /\ FrontTypes
    BY <2>1, PipelineFacts DEF IInv, GroupTypes
  <2>3. GroupCnt(ipu[g][0].ins) = 1
    BY <2>2, TakenFacts DEF OneGroupEach, GroupCnt, FrontTypes, Ids
  <2>4. g < GroupCnt(ipu[g][0].ins) /\ g \in Nat
    BY <2>1, GroupFacts DEF InOwnGroups
  <2>5. LastGroup(g, ipu[g][0].ins)
    BY <2>3, <2>4 DEF LastGroup
  <2>6. QED
    BY <2>5, LastInOrder
<1>4. QED
  BY <1>1, <1>2, <1>3, PTL DEF Spec

-----------------------------------------------------------------------------
(***************************************************************************)
(* How long things take, if no stage is slower than the IPU: then a batch  *)
(* that is over in one stage never waits for the next one.                 *)
(***************************************************************************)
StagesInTime == \A k \in Stages : StageLatency[k] <= IpuLatency

LastStage == Len(StageLatency)

\* The cycles from when a batch is issued until it leaves stage k, and those it has been on its way.
Upto[k \in 0 .. LastStage] == IF k = 0 THEN 0 ELSE Upto[k - 1] + StageLatency[k]

Since(k, batch) == Upto[k] - batch.left

\* A pipeline: the issue thread s and the stages.  Batches keep the distance they are issued with.
PipelineOK(s, line) ==
  /\ s.at = "ipu" => s.batch < s.count /\ s.left <= IpuLatency
  /\ \A k \in Stages :
       line[k] # Idle =>
         /\ line[k].left <= StageLatency[k]
         /\ s.at = "ipu" => Since(k, line[k]) + s.left >= IpuLatency
         /\ \A j \in Stages :
              j < k /\ line[j] # Idle => Since(k, line[k]) >= Since(j, line[j]) + IpuLatency

\* The cycles until the last batch is issued, and of those the instruction needs for all.
IssueLeft(s) == s.left + (s.count - 1 - s.batch) * IpuLatency
WholeIssue(i) == program[i].input_bit_width * IpuLatency

\* A macro has issued all of its batches when its group has, so the group never waits for it.
MacrosAlong ==
  \A g \in Groups : \A n \in Macros :
    /\ ipu[g][n].at # "macros"
    /\ ipu[g][n].at = "ipu" =>
         \/ IssueLeft(ipu[g][n]) = 0
         \/ ipu[g][0].at = "ipu" /\ IssueLeft(ipu[g][n]) <= IssueLeft(ipu[g][0])
         \/ /\ ipu[g][0].at = "macros" /\ n < ipu[g][0].macro
            /\ IssueLeft(ipu[g][n]) <= WholeIssue(ipu[g][0].ins)

Pipelined ==
  /\ \A g \in Groups : \A n \in Pipelines : PipelineOK(ipu[g][n], stage[g][n])
  /\ MacrosAlong

\* The control instructions that have left decode, or are about to be taken.
ControlLeft == TakenBy("cim_control") \cup {j \in {starting} \cap Ids : program[j].unit = "cim_control"}

\* While a group looks for active macros, no control instruction after the computation has begun.
MacrosFirst ==
  \A g \in Groups : ipu[g][0].at = "macros" => \A j \in ControlLeft : j < ipu[g][0].ins

\* All that the groups hold of instruction i is over in t cycles.
OverIn(i, t) ==
  \A g \in Groups : \A n \in Pipelines :
    /\ ipu[g][n].ins = i =>
         /\ ipu[g][n].at = "macros" => Upto[LastStage] + WholeIssue(i) <= t
         /\ ipu[g][n].at = "ipu" => Upto[LastStage] + IssueLeft(ipu[g][n]) <= t
    /\ \A k \in Stages : stage[g][n][k].ins = i => Upto[LastStage] - Since(k, stage[g][n][k]) <= t

\* The last batch of the last group is the last of all, of instruction i.
IsOverInLast(i) ==
  /\ OverIn(i, Upto[LastStage] + WholeIssue(i))
  /\ i \in finished => OverIn(i, 0)
  /\ \A g \in Groups :
       LastGroup(g, i) =>
         /\ ipu[g][0].ins = i /\ ipu[g][0].at = "ipu" =>
              OverIn(i, Upto[LastStage] + IssueLeft(ipu[g][0]))
         /\ \A k \in Stages :
              stage[g][0][k].ins = i /\ stage[g][0][k].last =>
                OverIn(i, Upto[LastStage] - Since(k, stage[g][0][k]))

LastIsOver == \A i \in TakenBy("cim_compute") : IsOverInLast(i)

\* Who has not reached the last stage of the last group holds resources; and its last batch is
\* the last to come there.
AtLast(g, k) ==
  stage[g][0][k] # Idle =>
    /\ LastGroup(g, stage[g][0][k].ins) /\ k < LastStage => stage[g][0][k].ins \in booked
    /\ stage[g][0][k].last => \A j \in Stages : j < k => stage[g][0][j].ins # stage[g][0][k].ins

\* What has been released is there, or finished.
ReleasedAt(i) ==
  i \in booked \/ i \in finished \/ \E g \in Groups : LastGroup(g, i) /\ stage[g][0][LastStage].ins = i

ReleasedAtLast ==
  /\ \A g \in Groups : \A k \in Stages : AtLast(g, k)
  /\ \A i \in TakenBy("cim_compute") : ReleasedAt(i)

\* A computation in the last stage of its last group is about to leave it when a control instruction
\* after it has left decode.
LeavesInTime ==
  \A g \in Groups :
    LET s == stage[g][0][LastStage]
    IN  s # Idle /\ LastGroup(g, s.ins) => s.left = 0 \/ \A j \in ControlLeft : j < s.ins

ShortResultAdder == StageLatency[LastStage] <= 1

-----------------------------------------------------------------------------
LEMMA LeastNumber ==
  ASSUME NEW S, S \subseteq Nat, S # {}
  PROVE  \E n \in S : \A k \in S : n <= k
<1>1. PICK less : less = {p \in Nat \X Nat : p[1] < p[2]}
  OBVIOUS
<1>2. IsWellFoundedOn(less, Nat)
  BY <1>1, NatLessThanWellFounded DEF OpToRel
<1>3. PICK n \in S : \A k \in S : <<k, n>> \notin less
  BY <1>2, WFMin
<1>4. ASSUME NEW k \in S
      PROVE  n <= k
  <2>1. k \in Nat /\ n \in Nat /\ <<k, n>> \notin less
    BY <1>3
  <2>2. QED
    BY <1>1, <2>1
<1>5. QED
  BY <1>4

\* A set of stages has a last one.
LEMMA LastOfStages ==
  ASSUME NEW S \in SUBSET Stages, S # {}
  PROVE  \E k \in S : \A j \in S : j <= k
<1>1. PICK l \in Nat : l = Len(StageLatency) /\ Stages = 1 .. l
  BY StageFacts
<1>2. PICK D : D = {d \in Nat : l - d \in S}
  OBVIOUS
<1>3. D \subseteq Nat /\ D # {}
  <2>1. PICK k \in S : TRUE
    OBVIOUS
  <2>2. k \in 1 .. l
    BY <1>1
  <2>3. l - k \in Nat /\ l - (l - k) = k
    BY <2>2
  <2>4. QED
    BY <1>2, <2>3
<1>4. PICK d \in D : \A e \in D : d <= e
  BY <1>3, LeastNumber
<1>5. ASSUME NEW j \in S
      PROVE  j <= l - d
  <2>1. j \in 1 .. l
    BY <1>1
  <2>2. l - j \in Nat /\ l - (l - j) = j
    BY <2>1
  <2>3. d <= l - j
    BY <1>2, <1>4, <2>2
  <2>4. QED
    BY <1>2, <1>4, <2>1, <2>3
<1>6. QED
  BY <1>2, <1>4, <1>5

\* The cycles of the stages up to one: each adds its own.
LEMMA UptoFacts ==
  /\ \A k \in 0 .. LastStage : Upto[k] \in Nat
  /\ Upto[0] = 0
  /\ \A k \in Stages : k - 1 \in 0 .. LastStage /\ Upto[k] = Upto[k - 1] + StageLatency[k]
<1>1. PICK l \in Nat : l = LastStage /\ Stages = 1 .. l
  BY StageFacts DEF LastStage
<1>2. \A k \in 1 .. l : StageLatency[k] \in Nat
  BY <1>1, StageFacts
<1> DEFINE Sums(m, f) == /\ f \in [0 .. m -> Nat]
                         /\ f[0] = 0 /\ \A k \in 1 .. m : f[k] = f[k - 1] + StageLatency[k]
           Bad == {m \in 0 .. l : ~ \E f : Sums(m, f)}
<1>3. ASSUME Bad # {}
      PROVE  FALSE
  <2>1. Bad \subseteq Nat
    OBVIOUS
  <2>2. PICK m \in Bad : \A k \in Bad : m <= k
    BY <1>3, <2>1, LeastNumber
  <2>3. m \in 0 .. l /\ ~ \E f : Sums(m, f)
    BY <2>2
  <2>4. m # 0
    <3>1. Sums(0, [k \in 0 .. 0 |-> 0])
      OBVIOUS
    <3>2. QED
      BY <2>3, <3>1
  <2>5. m - 1 \in 0 .. l /\ m - 1 \notin Bad
    <3> HIDE DEF Bad
    <3>1. m \in Nat /\ m - 1 \in 0 .. l /\ ~ (m <= m - 1)
      BY <2>3, <2>4
    <3>2. QED
      BY <2>2, <3>1
  <2>6. PICK f : Sums(m - 1, f)
    BY <2>5
  <2>7. PICK last : last = f[m - 1] + StageLatency[m]
    OBVIOUS
  <2>8. last \in Nat
    BY <1>2, <2>3, <2>4, <2>6, <2>7
  <2>9. PICK e : e = [k \in 0 .. m |-> IF k = m THEN last ELSE f[k]]
    OBVIOUS
  <2>10. e \in [0 .. m -> Nat]
    BY <2>3, <2>4, <2>6, <2>8, <2>9
  <2>11. e[0] = 0
    BY <2>3, <2>4, <2>6, <2>9
  <2>12. \A k \in 1 .. m : e[k] = e[k - 1] + StageLatency[k]
    BY <2>3, <2>4, <2>6, <2>7, <2>9
  <2>13. Sums(m, e)
    BY <2>10, <2>11, <2>12
  <2>14. QED
    BY <2>3, <2>13
<1>4. PICK f : Sums(l, f)
  <2>1. l \in 0 .. l
    OBVIOUS
  <2>2. l \notin Bad
    BY <1>3
  <2>3. \E f : Sums(l, f)
    <3> HIDE DEF Sums
    <3>1. QED
      BY <2>1, <2>2
  <2>4. QED
    BY <2>3
<1> DEFINE IsUpto(u) == u = [k \in 0 .. LastStage |-> IF k = 0 THEN 0 ELSE u[k - 1] + StageLatency[k]]
<1>5. IsUpto(f)
  <2>1. \A k \in 0 .. l : f[k] = IF k = 0 THEN 0 ELSE f[k - 1] + StageLatency[k]
    BY <1>4
  <2>2. f = [k \in 0 .. l |-> f[k]]
    BY <1>4
  <2>3. QED
    BY <1>1, <2>1, <2>2
<1>6. Upto = CHOOSE u : IsUpto(u)
  BY DEF Upto
<1>7. IsUpto(Upto)
  <2> HIDE DEF IsUpto
  <2>1. QED
    BY <1>5, <1>6
<1>8. PICK u : u = Upto
  OBVIOUS
<1>9. /\ u[0] = 0
      /\ \A k \in 1 .. l : u[k] = u[k - 1] + StageLatency[k]
  <2>1. \A k \in 0 .. l : u[k] = IF k = 0 THEN 0 ELSE u[k - 1] + StageLatency[k]
    BY <1>1, <1>7, <1>8
  <2>2. 0 \in 0 .. l /\ \A k \in 1 .. l : k \in 0 .. l /\ k # 0
    OBVIOUS
  <2>3. QED
    BY <2>1, <2>2
<1>10. ASSUME NEW k \in 0 .. l, u[k] \notin Nat
       PROVE  FALSE
  <2>1. PICK bad : bad = {j \in 0 .. l : u[j] \notin Nat}
    OBVIOUS
  <2>2. bad \subseteq Nat /\ bad # {}
    BY <1>10, <2>1
  <2>3. PICK j \in bad : \A m \in bad : j <= m
    BY <2>2, LeastNumber
  <2>4. j \in 1 .. l /\ u[j] \notin Nat
    BY <1>9, <2>1, <2>3
  <2>5. j - 1 \in 0 .. l /\ ~ (j <= j - 1)
    BY <2>4
  <2>6. u[j - 1] \in Nat
    BY <2>1, <2>3, <2>5
  <2>7. QED
    BY <1>2, <1>9, <2>4, <2>6
<1>11. \A k \in 1 .. l : k - 1 \in 0 .. l
  OBVIOUS
<1>12. QED
  BY <1>1, <1>8, <1>9, <1>10, <1>11

\* No stage ends later than the last one.
LEMMA UptoLast ==
  ASSUME NEW k \in 0 .. LastStage
  PROVE  Upto[k] <= Upto[LastStage]
<1>1. PICK l \in Nat : l = LastStage /\ Stages = 1 .. l
  BY StageFacts DEF LastStage
<1>2. PICK u : u = Upto
  OBVIOUS
<1>3. /\ \A j \in 0 .. l : u[j] \in Nat
      /\ \A j \in 1 .. l : u[j] = u[j - 1] + StageLatency[j] /\ StageLatency[j] \in Nat
  BY <1>1, <1>2, UptoFacts, StageFacts
<1>4. PICK D : D = {d \in Nat : l - d \in 0 .. l /\ ~ (u[l - d] <= u[l])}
  OBVIOUS
<1>5. ASSUME D # {}
      PROVE  FALSE
  <2>1. PICK d \in D : \A e \in D : d <= e
    BY <1>4, <1>5, LeastNumber
  <2>2. d \in Nat /\ l - d \in 0 .. l /\ ~ (u[l - d] <= u[l])
    BY <1>4, <2>1
  <2>3. d # 0
    BY <1>3, <2>2
  <2>4. /\ d - 1 \in Nat /\ l - (d - 1) \in 1 .. l /\ l - (d - 1) \in 0 .. l
        /\ l - (d - 1) - 1 = l - d /\ ~ (d <= d - 1)
    BY <2>2, <2>3
  <2>5. u[l - (d - 1)] <= u[l]
    BY <1>4, <2>1, <2>4
  <2>6. u[l - (d - 1)] = u[l - d] + StageLatency[l - (d - 1)] /\ StageLatency[l - (d - 1)] \in Nat
    BY <1>3, <2>4
  <2>7. l \in 0 .. l
    OBVIOUS
  <2>8. u[l - d] \in Nat /\ u[l - (d - 1)] \in Nat /\ u[l] \in Nat
    BY <1>3, <2>2, <2>4, <2>7
  <2>9. QED
    BY <2>2, <2>5, <2>6, <2>8
<1>6. l - k \in Nat /\ l - (l - k) = k /\ k \in 0 .. l
  BY <1>1
<1>7. QED
  BY <1>1, <1>2, <1>4, <1>5, <1>6

-----------------------------------------------------------------------------
(***************************************************************************)
(* A batch and the issue thread, over time.                                *)
(***************************************************************************)
LEMMA TimesFacts ==
  ASSUME NEW n \in Nat, NEW c \in Nat
  PROVE  /\ n * c \in Nat /\ (n + 1) * c = n * c + c /\ 0 * c = 0
         /\ \A m \in Nat : m <= n => m * c <= n * c
<1>1. n * c \in Nat /\ (n + 1) * c = n * c + c /\ 0 * c = 0
  OBVIOUS
<1>2. ASSUME NEW m \in Nat, m <= n
      PROVE  m * c <= n * c
  <2>1. PICK d \in Nat : n = m + d
    <3>1. n - m \in Nat /\ n = m + (n - m)
      BY <1>2
    <3>2. QED
      BY <3>1
  <2>2. n * c = m * c + d * c
    BY <2>1
  <2>3. m * c \in Nat /\ d * c \in Nat
    BY <2>1
  <2>4. QED
    BY <1>1, <2>2, <2>3
<1>3. QED
  BY <1>1, <1>2

\* What a pipeline still issues: its batch, and those after it.
LEMMA IssuingFacts ==
  ASSUME NEW s \in IpuType, s.at = "ipu", s.batch < s.count
  PROVE  /\ s \in [ins : Id, at : {"ipu"}, batch : Nat, count : Nat, left : Nat]
         /\ IssueLeft(s) \in Nat /\ s.left <= IssueLeft(s)
         /\ s.left = 0 /\ s.batch = s.count - 1 => IssueLeft(s) = 0
         /\ s.left = 0 /\ s.batch # s.count - 1 =>
              IssueLeft([s EXCEPT !.batch = @ + 1, !.left = IpuLatency]) = IssueLeft(s)
         /\ s.left # 0 => IssueLeft([s EXCEPT !.left = s.left - 1]) = IssueLeft(s) - 1
<1>1. s \in [ins : Id, at : {"ipu"}, batch : Nat, count : Nat, left : Nat]
  BY DEF IpuType, Idle
<1>2. IpuLatency \in Nat /\ s.batch \in Nat /\ s.count \in Nat /\ s.left \in Nat
  BY <1>1, LatencyAssumption
<1>3. PICK n \in Nat : n = s.count - 1 - s.batch
  BY <1>2
<1>4. n * IpuLatency \in Nat /\ 0 * IpuLatency = 0
  BY <1>2, TimesFacts
<1>5. IssueLeft(s) = s.left + n * IpuLatency
  BY <1>3 DEF IssueLeft
<1>6. s.left # 0 => IssueLeft([s EXCEPT !.left = s.left - 1]) = IssueLeft(s) - 1
  <2>1. PICK e : e = [s EXCEPT !.left = s.left - 1]
    OBVIOUS
  <2>2. e.left = s.left - 1 /\ e.count = s.count /\ e.batch = s.batch
    BY <1>1, <2>1
  <2>3. IssueLeft(e) = s.left - 1 + n * IpuLatency
    BY <1>3, <2>2 DEF IssueLeft
  <2>4. QED
    BY <1>2, <1>4, <1>5, <2>1, <2>3
<1>7. ASSUME s.left = 0, s.batch # s.count - 1
      PROVE  IssueLeft([s EXCEPT !.batch = @ + 1, !.left = IpuLatency]) = IssueLeft(s)
  <2>1. PICK m \in Nat : n = m + 1
    <3>1. n - 1 \in Nat /\ n = (n - 1) + 1
      BY <1>2, <1>3, <1>7
    <3>2. QED
      BY <3>1
  <2>2. m = s.count - 1 - (s.batch + 1)
    <3>1. PICK c \in Nat, b \in Nat : c = s.count /\ b = s.batch
      BY <1>2
    <3>2. m + 1 = c - 1 - b
      BY <1>3, <2>1, <3>1
    <3>3. m = c - 1 - (b + 1)
      BY <3>2
    <3>4. QED
      BY <3>1, <3>3
  <2>3. PICK e : e = [s EXCEPT !.batch = @ + 1, !.left = IpuLatency]
    OBVIOUS
  <2>4. e.batch = s.batch + 1 /\ e.left = IpuLatency /\ e.count = s.count
    BY <1>1, <2>3
  <2>5. IssueLeft(e) = IpuLatency + m * IpuLatency
    BY <2>2, <2>4 DEF IssueLeft
  <2>6. n * IpuLatency = m * IpuLatency + IpuLatency /\ m * IpuLatency \in Nat
    BY <1>2, <2>1, TimesFacts
  <2>7. QED
    BY <1>2, <1>5, <1>7, <2>3, <2>5, <2>6
<1>8. s.left = 0 /\ s.batch = s.count - 1 => IssueLeft(s) = 0
  <2>1. s.batch = s.count - 1 => n = 0
    BY <1>2, <1>3
  <2>2. QED
    BY <1>4, <1>5, <2>1
<1>9. IssueLeft(s) \in Nat /\ s.left <= IssueLeft(s)
  BY <1>2, <1>4, <1>5
<1>10. QED
  BY <1>1, <1>6, <1>7, <1>8, <1>9

\* All the batches of an instruction, or of the part of them that a macro has.
LEMMA BatchesFacts ==
  ASSUME NEW i \in Id, NEW width \in Nat, NEW count \in 1 .. width
  PROVE  /\ Batches(i, count) = [ins |-> i, at |-> "ipu", batch |-> 0, count |-> count,
                                 left |-> IpuLatency]
         /\ IssueLeft(Batches(i, count)) = count * IpuLatency
         /\ count * IpuLatency \in Nat /\ width * IpuLatency \in Nat
         /\ count * IpuLatency <= width * IpuLatency
<1>1. IpuLatency \in Nat
  BY LatencyAssumption
<1>2. PICK m \in Nat : count = m + 1
  <2>1. count - 1 \in Nat /\ count = (count - 1) + 1
    OBVIOUS
  <2>2. QED
    BY <2>1
<1>3. IssueLeft(Batches(i, count)) = IpuLatency + m * IpuLatency
  <2>1. count - 1 - 0 = m
    BY <1>2
  <2>2. QED
    BY <2>1 DEF Batches, IssueLeft
<1>4. count * IpuLatency = m * IpuLatency + IpuLatency /\ m * IpuLatency \in Nat
  BY <1>1, <1>2, TimesFacts
<1>5. /\ count * IpuLatency \in Nat /\ width * IpuLatency \in Nat
      /\ count * IpuLatency <= width * IpuLatency
  BY <1>1, TimesFacts
<1>6. QED
  BY <1>1, <1>3, <1>4, <1>5 DEF Batches

\* Where a batch is on its way: at the beginning of the first stage at once, at that of the
\* next when it is over in one.
LEMMA SinceFacts ==
  ASSUME NEW k \in Stages, NEW b \in StageType, b # Idle
  PROVE  /\ Since(k, b) \in Int /\ Upto[k] \in Nat
         /\ b.left <= StageLatency[k] => Since(k, b) >= 0
         /\ k = 1 /\ b.left = StageLatency[1] => Since(k, b) = 0
         /\ b.left = 0 => \A c \in StageType :
              /\ k + 1 \in Stages /\ c # Idle /\ c.left = StageLatency[k + 1] =>
                   Since(k + 1, c) = Since(k, b)
         /\ b.left # 0 => \A c \in StageType : 
              c # Idle /\ c.left = b.left - 1 => Since(k, c) = Since(k, b) + 1
<1>1. b.left \in Nat /\ k \in Nat
  BY KindFacts, StageFacts
<1>2. /\ Upto[k] \in Nat /\ Upto[k - 1] \in Nat /\ Upto[k] = Upto[k - 1] + StageLatency[k]
      /\ StageLatency[k] \in Nat
  <2>1. k \in 0 .. LastStage
    BY StageFacts DEF LastStage
  <2>2. QED
    BY <2>1, UptoFacts, StageFacts
<1>3. k = 1 => Upto[k] = StageLatency[1]
  BY <1>2, UptoFacts
<1>4. k + 1 \in Stages => Upto[k + 1] = Upto[k] + StageLatency[k + 1] /\ StageLatency[k + 1] \in Nat
  BY <1>1, UptoFacts, StageFacts
<1>5. Since(k, b) = Upto[k] - b.left
  BY DEF Since
<1>6. \A c : Since(k, c) = Upto[k] - c.left
  BY DEF Since
<1>7. \A c : Since(k + 1, c) = Upto[k + 1] - c.left
  BY DEF Since
<1>8. ASSUME b.left = 0, NEW c \in StageType, k + 1 \in Stages, c # Idle, c.left = StageLatency[k + 1]
      PROVE  Since(k + 1, c) = Since(k, b)
  BY <1>2, <1>4, <1>5, <1>7, <1>8
<1>9. ASSUME b.left # 0, NEW c \in StageType, c # Idle, c.left = b.left - 1
      PROVE  Since(k, c) = Since(k, b) + 1
  BY <1>1, <1>2, <1>5, <1>6, <1>9
<1>10. QED
  BY <1>1, <1>2, <1>3, <1>5, <1>8, <1>9

-----------------------------------------------------------------------------
(***************************************************************************)
(* One pipeline, step by step.                                             *)
(***************************************************************************)
Lines == [Stages -> StageType]

\* Batches that leave do not disturb the others.
LEMMA PipelineDrop ==
  ASSUME NEW s \in IpuType, NEW line \in Lines, NEW next \in Lines, PipelineOK(s, line),
         \A k \in Stages : next[k] = line[k] \/ next[k] = Idle
  PROVE  PipelineOK(s, next) /\ PipelineOK(Idle, next)
<1>1. ASSUME NEW k \in Stages, next[k] # Idle
      PROVE  /\ next[k].left <= StageLatency[k]
             /\ s.at = "ipu" => Since(k, next[k]) + s.left >= IpuLatency
             /\ \A j \in Stages :
                  j < k /\ next[j] # Idle => Since(k, next[k]) >= Since(j, next[j]) + IpuLatency
  BY <1>1 DEF PipelineOK
<1>2. s.at = "ipu" => s.batch < s.count /\ s.left <= IpuLatency
  BY DEF PipelineOK
<1>3. Idle.at # "ipu"
  BY KindFacts
<1>4. QED
  BY <1>1, <1>2, <1>3 DEF PipelineOK

\* The issue thread begins.
LEMMA PipelineStart ==
  ASSUME NEW s, NEW line \in Lines, PipelineOK(s, line),
         NEW i \in Id, NEW count \in Nat \ {0}
  PROVE  PipelineOK(Batches(i, count), line)
<1>1. /\ Batches(i, count).batch = 0 /\ Batches(i, count).count = count
      /\ Batches(i, count).left = IpuLatency /\ IpuLatency \in Nat
  BY LatencyAssumption DEF Batches
<1>2. ASSUME NEW k \in Stages, line[k] # Idle
      PROVE  /\ line[k].left <= StageLatency[k]
             /\ Since(k, line[k]) + IpuLatency >= IpuLatency
             /\ \A j \in Stages :
                  j < k /\ line[j] # Idle => Since(k, line[k]) >= Since(j, line[j]) + IpuLatency
  <2>1. /\ line[k].left <= StageLatency[k]
        /\ \A j \in Stages :
             j < k /\ line[j] # Idle => Since(k, line[k]) >= Since(j, line[j]) + IpuLatency
    BY <1>2 DEF PipelineOK
  <2>2. Since(k, line[k]) \in Int /\ Since(k, line[k]) >= 0
    BY <1>2, <2>1, SinceFacts DEF Lines
  <2>3. QED
    BY <1>1, <2>1, <2>2
<1> HIDE DEF Batches
<1>3. QED
  BY <1>1, <1>2 DEF PipelineOK

\* A batch is issued: those before it have been on their way for as long as the IPU takes.
LEMMA PipelineIssue ==
  ASSUME NEW s \in IpuType, NEW line \in Lines, PipelineOK(s, line),
         s.at = "ipu", s.left = 0, line[1] = Idle,
         NEW then, \/ then.at # "ipu"
                   \/ /\ s.batch # s.count - 1
                      /\ then = [s EXCEPT !.batch = @ + 1, !.left = IpuLatency],
         NEW next \in Lines, next[1] # Idle, next[1].left = StageLatency[1],
         \A k \in Stages : k # 1 => next[k] = line[k]
  PROVE  PipelineOK(then, next)
<1>1. IpuLatency \in Nat /\ 1 \in Stages /\ StageLatency[1] \in Nat /\ Stages \subseteq Nat
  BY StageFacts, LatencyAssumption
<1>2. s \in [ins : Id, at : {"ipu"}, batch : Nat, count : Nat, left : Nat]
  BY DEF IpuType, Idle
<1>3. Since(1, next[1]) = 0
  BY <1>1, SinceFacts DEF Lines
<1>4. ASSUME NEW k \in Stages, k # 1, line[k] # Idle
      PROVE  /\ line[k].left <= StageLatency[k]
             /\ Since(k, line[k]) \in Int /\ Since(k, line[k]) >= IpuLatency
             /\ \A j \in Stages :
                  j < k /\ line[j] # Idle => Since(k, line[k]) >= Since(j, line[j]) + IpuLatency
  <2>1. /\ line[k].left <= StageLatency[k]
        /\ Since(k, line[k]) + s.left >= IpuLatency
        /\ \A j \in Stages :
             j < k /\ line[j] # Idle => Since(k, line[k]) >= Since(j, line[j]) + IpuLatency
    BY <1>4 DEF PipelineOK
  <2>2. Since(k, line[k]) \in Int
    BY <1>4, SinceFacts DEF Lines
  <2>3. QED
    BY <1>1, <2>1, <2>2
<1>5. ASSUME then.at = "ipu"
      PROVE  then.batch < then.count /\ then.left = IpuLatency
  <2>1. s.batch < s.count
    BY DEF PipelineOK
  <2>2. s.batch # s.count - 1 /\ then = [s EXCEPT !.batch = s.batch + 1, !.left = IpuLatency]
    BY <1>5
  <2>3. then.batch = s.batch + 1 /\ then.count = s.count /\ then.left = IpuLatency
    BY <1>2, <2>2
  <2>4. QED
    BY <1>2, <2>1, <2>2, <2>3
<1>6. ASSUME NEW k \in Stages, next[k] # Idle
      PROVE  /\ next[k].left <= StageLatency[k]
             /\ then.at = "ipu" => Since(k, next[k]) + then.left >= IpuLatency
             /\ \A j \in Stages :
                  j < k /\ next[j] # Idle => Since(k, next[k]) >= Since(j, next[j]) + IpuLatency
  <2>1. CASE k = 1
    <3>1. ~ \E j \in Stages : j < 1
      BY StageFacts
    <3>2. QED
      BY <1>1, <1>3, <1>5, <2>1, <3>1
  <2>2. CASE k # 1
    <3>1. next[k] = line[k]
      BY <2>2
    <3>2. then.at = "ipu" => Since(k, next[k]) + then.left >= IpuLatency
      BY <1>1, <1>4, <1>5, <1>6, <2>2, <3>1
    <3>3. ASSUME NEW j \in Stages, j < k, next[j] # Idle
          PROVE  Since(k, next[k]) >= Since(j, next[j]) + IpuLatency
      <4>1. CASE j = 1
        BY <1>1, <1>3, <1>4, <1>6, <2>2, <3>1, <4>1
      <4>2. CASE j # 1
        BY <1>4, <1>6, <2>2, <3>1, <3>3, <4>2
      <4>3. QED
        BY <4>1, <4>2
    <3>4. QED
      BY <1>4, <1>6, <2>2, <3>1, <3>2, <3>3
  <2>3. QED
    BY <2>1, <2>2
<1>7. then.at = "ipu" => then.batch < then.count /\ then.left <= IpuLatency
  BY <1>1, <1>5
<1>8. QED
  BY <1>6, <1>7 DEF PipelineOK

\* A batch goes on to the next stage: it has been on its way for as long as before.
LEMMA PipelineMove ==
  ASSUME NEW s \in IpuType, NEW line \in Lines, PipelineOK(s, line),
         NEW k \in Stages, k + 1 \in Stages, line[k] # Idle, line[k].left = 0,
         line[k + 1] = Idle,
         NEW next \in Lines, next[k] = Idle,
         next[k + 1] # Idle, next[k + 1].left = StageLatency[k + 1],
         \A j \in Stages : j \notin {k, k + 1} => next[j] = line[j]
  PROVE  PipelineOK(s, next)
<1>1. IpuLatency \in Nat /\ StageLatency[k + 1] \in Nat /\ Stages \subseteq Nat
  BY StageFacts, LatencyAssumption
<1>2. PICK l \in Stages : l = k + 1
  OBVIOUS
<1>3. Since(l, next[l]) = Since(k, line[k])
  <2>1. line[k] \in StageType /\ next[l] \in StageType
    BY <1>2 DEF Lines
  <2>2. QED
    BY <1>2, <2>1, SinceFacts
<1>4. \A j \in Stages : j # l => next[j] = line[j] \/ next[j] = Idle
  BY <1>2
<1>5. ASSUME NEW j \in Stages, next[j] # Idle
      PROVE  /\ next[j].left <= StageLatency[j]
             /\ s.at = "ipu" => Since(j, next[j]) + s.left >= IpuLatency
             /\ \A m \in Stages :
                  m < j /\ next[m] # Idle => Since(j, next[j]) >= Since(m, next[m]) + IpuLatency
  <2>1. CASE j = l
    <3>1. next[j].left <= StageLatency[j]
      BY <1>1, <1>2, <2>1
    <3>2. s.at = "ipu" => Since(j, next[j]) + s.left >= IpuLatency
      BY <1>3, <2>1 DEF PipelineOK
    <3>3. ASSUME NEW m \in Stages, m < j, next[m] # Idle
          PROVE  Since(j, next[j]) >= Since(m, next[m]) + IpuLatency
      <4>1. m < k /\ next[m] = line[m]
        BY <1>1, <1>2, <2>1, <3>3
      <4>2. Since(k, line[k]) >= Since(m, line[m]) + IpuLatency
        BY <3>3, <4>1 DEF PipelineOK
      <4>3. QED
        BY <1>3, <2>1, <4>1, <4>2
    <3>4. QED
      BY <3>1, <3>2, <3>3
  <2>2. CASE j # l
    <3>1. next[j] = line[j] /\ j # k
      BY <1>2, <1>5, <2>2
    <3>2. /\ line[j].left <= StageLatency[j]
          /\ s.at = "ipu" => Since(j, line[j]) + s.left >= IpuLatency
      BY <1>5, <3>1 DEF PipelineOK
    <3>3. ASSUME NEW m \in Stages, m < j, next[m] # Idle
          PROVE  Since(j, next[j]) >= Since(m, next[m]) + IpuLatency
      <4>1. CASE m = l
        <5>1. k < j
          BY <1>1, <1>2, <3>3, <4>1
        <5>2. Since(j, line[j]) >= Since(k, line[k]) + IpuLatency
          BY <1>5, <3>1, <5>1 DEF PipelineOK
        <5>3. QED
          BY <1>3, <3>1, <4>1, <5>2
      <4>2. CASE m # l
        BY <1>4, <1>5, <3>1, <3>3, <4>2 DEF PipelineOK
      <4>3. QED
        BY <4>1, <4>2
    <3>4. QED
      BY <3>1, <3>2, <3>3
  <2>3. QED
    BY <2>1, <2>2
<1>6. s.at = "ipu" => s.batch < s.count /\ s.left <= IpuLatency
  BY DEF PipelineOK
<1>7. QED
  BY <1>5, <1>6 DEF PipelineOK

\* A cycle passes, and everything in the pipeline goes on.
LEMMA PipelineAge ==
  ASSUME NEW s \in IpuType, NEW line \in Lines, PipelineOK(s, line),
         s.at = "ipu" => s.left # 0, \A k \in Stages : line[k] # Idle => line[k].left # 0,
         NEW then \in IpuType, then.at = s.at,
         s.at = "ipu" => then = [s EXCEPT !.left = s.left - 1],
         NEW next \in Lines,
         \A k \in Stages : /\ next[k] = Idle <=> line[k] = Idle
                           /\ line[k] # Idle => next[k].left = line[k].left - 1
  PROVE  PipelineOK(then, next)
<1>1. IpuLatency \in Nat /\ \A k \in Stages : StageLatency[k] \in Nat
  BY StageFacts, LatencyAssumption
<1>2. ASSUME s.at = "ipu"
      PROVE  /\ s.left \in Nat /\ then.left = s.left - 1
             /\ then.batch = s.batch /\ then.count = s.count
  <2>1. s \in [ins : Id, at : {"ipu"}, batch : Nat, count : Nat, left : Nat]
    BY <1>2 DEF IpuType, Idle
  <2>2. QED
    BY <1>2, <2>1
<1>3. ASSUME NEW k \in Stages, line[k] # Idle
      PROVE  /\ Since(k, line[k]) \in Int /\ Since(k, next[k]) = Since(k, line[k]) + 1
             /\ line[k].left \in Nat /\ next[k].left = line[k].left - 1
  <2>1. /\ line[k] \in StageType /\ next[k] \in StageType /\ next[k] # Idle /\ line[k].left # 0
        /\ next[k].left = line[k].left - 1
    BY <1>3 DEF Lines
  <2>2. QED
    BY <1>3, <2>1, SinceFacts, KindFacts
<1>4. ASSUME NEW k \in Stages, next[k] # Idle
      PROVE  /\ next[k].left <= StageLatency[k]
             /\ then.at = "ipu" => Since(k, next[k]) + then.left >= IpuLatency
             /\ \A j \in Stages :
                  j < k /\ next[j] # Idle => Since(k, next[k]) >= Since(j, next[j]) + IpuLatency
  <2>1. line[k] # Idle
    BY <1>4
  <2>2. next[k].left <= StageLatency[k]
    <3>1. line[k].left <= StageLatency[k]
      BY <2>1 DEF PipelineOK
    <3>2. QED
      BY <1>1, <1>3, <2>1, <3>1
  <2>3. ASSUME then.at = "ipu"
        PROVE  Since(k, next[k]) + then.left >= IpuLatency
    <3>1. Since(k, line[k]) + s.left >= IpuLatency
      BY <2>1, <2>3 DEF PipelineOK
    <3>2. QED
      BY <1>1, <1>2, <1>3, <2>1, <2>3, <3>1
  <2>4. ASSUME NEW j \in Stages, j < k, next[j] # Idle
        PROVE  Since(k, next[k]) >= Since(j, next[j]) + IpuLatency
    <3>1. line[j] # Idle
      BY <2>4
    <3>2. Since(k, line[k]) >= Since(j, line[j]) + IpuLatency
      BY <2>1, <2>4, <3>1 DEF PipelineOK
    <3>3. QED
      BY <1>1, <1>3, <2>1, <3>1, <3>2
  <2>5. QED
    BY <2>2, <2>3, <2>4
<1>5. then.at = "ipu" => then.batch < then.count /\ then.left <= IpuLatency
  <2>1. s.at = "ipu" => s.batch < s.count /\ s.left <= IpuLatency
    BY DEF PipelineOK
  <2>2. QED
    BY <1>1, <1>2, <2>1
<1>6. QED
  BY <1>4, <1>5 DEF PipelineOK

-----------------------------------------------------------------------------
(***************************************************************************)
(* No stage and no IPU waits when time goes on.                            *)
(***************************************************************************)
LEMMA StagesGoOn ==
  ASSUME IInv, Pipelined, Quiet, StagesInTime, NEW g \in Groups, NEW n \in Pipelines
  PROVE  /\ \A k \in Stages : stage[g][n][k] # Idle => stage[g][n][k].left # 0
         /\ ipu[g][n].at = "ipu" => ipu[g][n].left # 0
<1>1. PICK line \in Lines : line = stage[g][n]
  BY DEF IInv, GroupTypes, Lines
<1>2. PICK s \in IpuType : s = ipu[g][n]
  BY DEF IInv, GroupTypes
<1>3. PipelineOK(s, line)
  BY <1>1, <1>2 DEF Pipelined
<1>4. /\ IpuLatency \in Nat /\ Len(StageLatency) \in Nat /\ 1 \in Stages /\ Stages = 1 .. Len(StageLatency)
      /\ \A k \in Stages : StageLatency[k] \in Nat /\ StageLatency[k] <= IpuLatency
  BY StageFacts, LatencyAssumption DEF StagesInTime
<1>5. /\ s.at = "ipu" /\ s.left = 0 => line[1] # Idle
      /\ \A k \in Stages :
           line[k] # Idle /\ line[k].left = 0 => k < Len(StageLatency) /\ line[k + 1] # Idle
  BY <1>1, <1>2 DEF Quiet
<1>6. ASSUME NEW k \in Stages, line[k] # Idle, line[k].left = 0
      PROVE  FALSE
  <2>1. PICK over : over = {j \in Stages : line[j] # Idle /\ line[j].left = 0}
    OBVIOUS
  <2>2. PICK j \in over : \A m \in over : m <= j
    BY <1>6, <2>1, LastOfStages
  <2>3. j \in Stages /\ line[j] # Idle /\ line[j].left = 0
    BY <2>1, <2>2
  <2>4. PICK m \in Stages : m = j + 1 /\ line[m] # Idle
    BY <1>4, <1>5, <2>3
  <2>5. Since(m, line[m]) >= Since(j, line[j]) + IpuLatency
    BY <1>3, <1>4, <2>3, <2>4 DEF PipelineOK
  <2>6. Upto[m] = Upto[j] + StageLatency[m] /\ Upto[j] \in Nat
    <3>1. j \in 0 .. LastStage /\ m - 1 = j
      BY <1>4, <2>3, <2>4 DEF LastStage
    <3>2. QED
      BY <2>4, <3>1, UptoFacts
  <2>7. line[m].left \in Nat
    BY <2>4, KindFacts DEF Lines
  <2>8. line[m].left = 0
    <3>1. Since(m, line[m]) = Upto[m] - line[m].left /\ Since(j, line[j]) = Upto[j] - line[j].left
      BY DEF Since
    <3>2. StageLatency[m] \in Nat /\ StageLatency[m] <= IpuLatency
      BY <1>4
    <3>3. PICK u \in Nat, c \in Nat, d \in Nat, left \in Nat :
            u = Upto[j] /\ c = IpuLatency /\ d = StageLatency[m] /\ left = line[m].left
      BY <1>4, <2>6, <2>7, <3>2
    <3>4. (u + d) - left >= (u - 0) + c /\ d <= c
      BY <2>3, <2>5, <2>6, <3>1, <3>2, <3>3
    <3>5. left = 0
      BY <3>4
    <3>6. QED
      BY <3>3, <3>5
  <2>9. m \in over /\ ~ (m <= j)
    BY <1>4, <2>1, <2>3, <2>4, <2>8
  <2>10. QED
    BY <2>2, <2>9
<1>7. ASSUME s.at = "ipu", s.left = 0
      PROVE  FALSE
  <2>1. line[1] # Idle /\ line[1].left \in Nat
    BY <1>4, <1>5, <1>7, KindFacts DEF Lines
  <2>2. Since(1, line[1]) >= IpuLatency
    <3>1. Since(1, line[1]) + 0 >= IpuLatency
      BY <1>3, <1>4, <1>7, <2>1 DEF PipelineOK
    <3>2. Since(1, line[1]) \in Int
      BY <1>4, <2>1, SinceFacts DEF Lines
    <3>3. QED
      BY <3>1, <3>2
  <2>3. Upto[1] = StageLatency[1]
    BY <1>4, UptoFacts
  <2>4. line[1].left = 0
    BY <1>4, <2>1, <2>2, <2>3 DEF Since
  <2>5. QED
    BY <1>4, <1>6, <2>1, <2>4
<1>8. QED
  BY <1>1, <1>2, <1>6, <1>7

\* And no group waits for a macro.
LEMMA NoGroupWaits ==
  ASSUME IInv, Pipelined, Quiet, StagesInTime, NEW g \in Groups, NEW n \in Pipelines
  PROVE  ipu[g][n].at # "macros"
<1>1. CASE n \in Macros
  BY <1>1 DEF Pipelined, MacrosAlong
<1>2. CASE n = 0
  <2>1. SUFFICES ASSUME ipu[g][0].at = "macros" PROVE FALSE
    BY <1>2
  <2>2. PICK own \in IpuType : own = ipu[g][0]
    BY PipelineFacts DEF IInv, GroupTypes
  <2>3. own \in [ins : Id, at : {"macros"}, macro : Macros]
    BY <2>1, <2>2 DEF IpuType, Idle
  <2>4. PICK m \in Macros : m = own.macro
    BY <2>3
  <2>5. PICK s \in IpuType : s = ipu[g][m]
    BY PipelineFacts DEF IInv, GroupTypes
  <2>6. s # Idle
    BY <2>1, <2>2, <2>4, <2>5 DEF Quiet
  <2>7. s.at = "ipu" /\ s.left # 0
    <3>1. s.at = "ipu"
      BY <2>5, <2>6, KindFacts DEF Pipelined, MacrosAlong
    <3>2. QED
      BY <2>5, <3>1, StagesGoOn, PipelineFacts
  <2>8. IssueLeft(s) = 0
    <3>1. m \in Nat /\ ~ (m < m)
      BY PipelineFacts
    <3>2. QED
      BY <2>1, <2>2, <2>4, <2>5, <2>7, <3>1 DEF Pipelined, MacrosAlong
  <2>9. s \in [ins : Id, at : {"ipu"}, batch : Nat, count : Nat, left : Nat]
    BY <2>7 DEF IpuType, Idle
  <2>10. s.batch < s.count
    BY <2>5, <2>7, PipelineFacts DEF Pipelined, PipelineOK
  <2>11. s.left <= IssueLeft(s)
    BY <2>7, <2>10, IssuingFacts
  <2>12. QED
    BY <2>7, <2>8, <2>9, <2>11
<1>3. QED
  BY <1>1, <1>2 DEF Pipelines

\* A cycle is one less for whatever the groups hold.
LEMMA AgedLeft ==
  ASSUME NEW s, s \in StageType \/ s \in IpuType, s # Idle, s.at # "macros", s.left # 0
  PROVE  /\ Aged(s) = [s EXCEPT !.left = s.left - 1] /\ Aged(s).left = s.left - 1
         /\ Aged(s).at = s.at /\ s.left \in Nat
<1>1. \/ s \in [ins : Id, at : {"execute"}, last : BOOLEAN, left : Nat]
      \/ s \in [ins : Id, at : {"ipu"}, batch : Nat, count : Nat, left : Nat]
  BY DEF StageType, IpuType
<1>2. "left" \in DOMAIN s /\ s.at # "access"
  BY <1>1
<1>3. Later(s.left) = s.left - 1
  BY DEF Later
<1>4. Aged(s) = [s EXCEPT !.left = s.left - 1]
  BY <1>2, <1>3 DEF Aged
<1>5. QED
  BY <1>1, <1>4

LEMMA TickAges ==
  ASSUME IInv, Pipelined, Tick, StagesInTime, UNCHANGED program
  PROVE  \A g \in Groups : \A n \in Pipelines :
           /\ ipu[g][n].at # "macros" /\ ipu'[g][n].at = ipu[g][n].at
           /\ ipu[g][n].at = "ipu" =>
                ipu[g][n].left # 0 /\ ipu'[g][n] = [ipu[g][n] EXCEPT !.left = ipu[g][n].left - 1]
           /\ \A k \in Stages :
                stage[g][n][k] # Idle =>
                  stage[g][n][k].left # 0 /\ stage'[g][n][k].left = stage[g][n][k].left - 1
<1> SUFFICES ASSUME NEW g \in Groups, NEW n \in Pipelines
             PROVE  /\ ipu[g][n].at # "macros" /\ ipu'[g][n].at = ipu[g][n].at
                    /\ ipu[g][n].at = "ipu" =>
                         /\ ipu[g][n].left # 0
                         /\ ipu'[g][n] = [ipu[g][n] EXCEPT !.left = ipu[g][n].left - 1]
                    /\ \A k \in Stages :
                         stage[g][n][k] # Idle =>
                           /\ stage[g][n][k].left # 0
                           /\ stage'[g][n][k].left = stage[g][n][k].left - 1
  OBVIOUS
<1>1. Quiet
  BY DEF Tick
<1>2. /\ ipu[g][n] \in IpuType /\ \A k \in Stages : stage[g][n][k] \in StageType
      /\ ipu'[g][n] = Aged(ipu[g][n]) /\ \A k \in Stages : stage'[g][n][k] = Aged(stage[g][n][k])
  BY DEF Tick, IInv, GroupTypes
<1>3. /\ ipu[g][n].at # "macros"
      /\ ipu[g][n].at = "ipu" => ipu[g][n].left # 0
      /\ \A k \in Stages : stage[g][n][k] # Idle => stage[g][n][k].left # 0
  BY <1>1, StagesGoOn, NoGroupWaits
<1>4. ipu'[g][n].at = ipu[g][n].at
  BY <1>2, AgedIpu
<1>5. ASSUME ipu[g][n].at = "ipu"
      PROVE  ipu'[g][n] = [ipu[g][n] EXCEPT !.left = ipu[g][n].left - 1]
  <2>1. ipu[g][n] # Idle
    BY <1>5, KindFacts
  <2>2. QED
    BY <1>2, <1>3, <1>5, <2>1, AgedLeft
<1>6. ASSUME NEW k \in Stages, stage[g][n][k] # Idle
      PROVE  stage'[g][n][k].left = stage[g][n][k].left - 1
  <2>1. stage[g][n][k].at # "macros"
    BY <1>2, <1>6 DEF StageType
  <2>2. QED
    BY <1>2, <1>3, <1>6, <2>1, AgedLeft
<1>7. QED
  BY <1>3, <1>4, <1>5, <1>6

-----------------------------------------------------------------------------
(***************************************************************************)
(* What the steps do to the groups.                                        *)
(***************************************************************************)
\* A step that is none of the groups', nor of the front or the clock.
Besides ==
  /\ UNCHANGED <<program, next_ins, starting, ipu, stage>>
  /\ \A i \in TakenBy("cim_compute") :
       (i \in booked' <=> i \in booked) /\ (i \in finished' <=> i \in finished)

LEMMA Steps ==
  ASSUME IInv, [Next]_vars
  PROVE  /\ UNCHANGED program
         /\ \/ Take \/ Tick \/ RunMacroGroup \/ \E g \in Groups : StartMacro(g)
            \/ \E g \in Groups : \E n \in Pipelines : IssueBatch(g, n)
            \/ \E g \in Groups : \E n \in Pipelines : \E k \in Stages : NextStage(g, n, k)
            \/ \E g \in Groups : \E n \in Pipelines : EndStage(g, n)
            \/ Besides
<1>1. UNCHANGED program
  BY DEF Next, vars
<1>2. CASE UNCHANGED vars
  BY <1>2 DEF vars, cim_vars, front, board, macro_groups, Besides
<1>3. CASE StartSub \/ FinishReadData \/ LeaveNetwork \/ \E m \in Memories : FinishAccess(m)
  BY <1>1, <1>3 DEF StartSub, FinishReadData, LeaveNetwork, FinishAccess, front, board, macro_groups, Besides
<1>4. \A i \in TakenBy("cim_compute") : i # control.ins /\ i # issue["cim_control"]
  <2>1. control = Idle \/ control.ins \in TakenBy("cim_control")
    BY DEF IInv, ControlTypes
  <2>2. issue["cim_control"] = 0 \/ issue["cim_control"] \in TakenBy("cim_control")
    BY DEF IInv, FrontTypes, Units
  <2>3. \A i \in TakenBy("cim_compute") : i # 0 /\ i \notin TakenBy("cim_control")
    <3>1. FrontTypes
      BY DEF IInv
    <3>2. QED
      BY <3>1, TakenFacts DEF TakenBy
  <2>4. QED
    BY <2>1, <2>2, <2>3, KindFacts
<1>5. CASE StartControl
  <2>1. /\ UNCHANGED <<next_ins, starting, finished, ipu, stage>>
        /\ booked' \in {booked, booked \ {issue["cim_control"]}}
    BY <1>5 DEF StartControl, Release, macro_groups
  <2>2. QED
    BY <1>1, <1>4, <2>1 DEF Besides
<1>6. CASE SetActivation
  BY <1>1, <1>4, <1>6 DEF SetActivation, Release, front, Besides
<1>7. CASE OutputSum
  BY <1>1, <1>7 DEF OutputSum, front, board, macro_groups, Besides
<1>8. CASE WriteSum
  BY <1>1, <1>4, <1>8 DEF WriteSum, Release, front, macro_groups, Besides
<1>9. CASE EndOutput
  BY <1>1, <1>4, <1>9 DEF EndOutput, front, macro_groups, Besides
<1>10. QED
  BY <1>1, <1>2, <1>3, <1>5, <1>6, <1>7, <1>8, <1>9 DEF Next, Instant, MacroGroup

\* processSubIns gives a group work, and holds resources while it does.
LEMMA RunFacts ==
  ASSUME IInv, RunMacroGroup, UNCHANGED program
  PROVE  /\ UNCHANGED <<next_ins, starting, booked, finished, stage>>
         /\ sub.ins \in TakenBy("cim_compute") /\ sub.ins \in booked /\ sub.group \in Groups
         /\ ipu[sub.group][0] = Idle /\ ipu'[sub.group][0].ins = sub.ins
         /\ ipu'[sub.group][0].at = "macros"
         /\ \A g \in Groups : \A n \in Pipelines :
              (g = sub.group /\ n = 0) \/ ipu'[g][n] = ipu[g][n]
<1>1. /\ sub.at = "run" /\ ipu[sub.group][0] = Idle
      /\ ipu' = [ipu EXCEPT ![sub.group][0] = [ins |-> sub.ins, at |-> "macros", macro |-> 1]]
      /\ UNCHANGED <<next_ins, starting, booked, finished, stage>>
  BY DEF RunMacroGroup, front, board
<1>2. /\ sub # Idle /\ sub.group \in Nat /\ sub.ins \in TakenBy("cim_compute")
      /\ sub.group < GroupCnt(sub.ins) /\ FrontTypes
  BY <1>1, KindFacts DEF IInv, SubTypes
<1>3. sub.group \in Groups
  <2>1. sub.ins \in Ids /\ program[sub.ins].unit = "cim_compute"
    BY <1>2, TakenFacts
  <2>2. GroupCnt(sub.ins) \in Nat \ {0} /\ GroupCnt(sub.ins) <= Cardinality(Groups)
    BY <1>2, <2>1, GroupCntFacts
  <2>3. QED
    BY <1>2, <2>2, GroupFacts
<1>4. sub.ins \in booked
  BY <1>1, <1>2 DEF IInv, InLine
<1>5. PICK begun : begun = [ins |-> sub.ins, at |-> "macros", macro |-> 1]
  OBVIOUS
<1>6. ipu \in [Groups -> [Pipelines -> IpuType]] /\ 0 \in Pipelines
  BY PipelineFacts DEF IInv, GroupTypes
<1>7. /\ ipu'[sub.group][0] = begun
      /\ \A g \in Groups : \A n \in Pipelines : (g = sub.group /\ n = 0) \/ ipu'[g][n] = ipu[g][n]
  BY <1>1, <1>3, <1>5, <1>6
<1>8. begun.ins = sub.ins /\ begun.at = "macros"
  BY <1>5
<1>9. QED
  BY <1>1, <1>2, <1>3, <1>4, <1>7, <1>8

\* A group looks at a macro.
LEMMA StartMacroFacts ==
  ASSUME IInv, NEW g \in Groups, StartMacro(g), UNCHANGED program
  PROVE  \E m \in Macros : \E i \in TakenBy("cim_compute") : \E width \in Nat \ {0} :
           /\ UNCHANGED <<next_ins, starting, booked, finished, stage>>
           /\ i \in Id /\ width = program[i].input_bit_width
           /\ ipu[g][0].at = "macros" /\ ipu[g][0].macro = m /\ ipu[g][0].ins = i
           /\ ipu[g][m] = Idle /\ m # 0
           /\ \/ ipu'[g][0].at = "macros" /\ ipu'[g][0].macro = m + 1 /\ ipu'[g][0].ins = i
              \/ ipu'[g][0] = Batches(i, width)
           /\ ipu'[g][m] = Idle \/ \E count \in 1 .. width : ipu'[g][m] = Batches(i, count)
           /\ \A h \in Groups : \A o \in Pipelines :
                (h = g /\ o \in {0, m}) \/ ipu'[h][o] = ipu[h][o]
<1>1. PICK own \in IpuType : own = ipu[g][0]
  BY PipelineFacts DEF IInv, GroupTypes
<1>2. /\ own.at = "macros" /\ ipu[g][own.macro] = Idle
      /\ UNCHANGED <<next_ins, starting, booked, finished, stage>>
  BY <1>1 DEF StartMacro, front, board
<1>3. own \in [ins : Id, at : {"macros"}, macro : Macros]
  BY <1>2 DEF IpuType, Idle
<1>4. PICK m \in Macros : m = own.macro
  BY <1>3
<1>5. PICK i \in TakenBy("cim_compute") : i = own.ins /\ i \in Id
  <2>1. own # Idle
    BY <1>3 DEF Idle
  <2>2. QED
    BY <1>1, <1>3, <2>1, PipelineFacts DEF IInv, GroupTypes
<1>6. PICK width \in Nat \ {0} : width = program[i].input_bit_width
  <2>1. FrontTypes
    BY DEF IInv
  <2>2. QED
    BY <1>5, <2>1, TakenFacts, ProgramFacts
<1>7. m # 0 /\ m \in Pipelines /\ 0 \in Pipelines
  <2>1. PICK c : c = Cardinality(Macros)
    OBVIOUS
  <2>2. m \in 1 .. c
    BY <2>1, SizeAssumption
  <2>3. QED
    BY <2>2, PipelineFacts
<1>8. PICK then : then = IF m + 1 \in Macros THEN [own EXCEPT !.macro = m + 1] ELSE Batches(i, width)
  OBVIOUS
<1>9. PICK count \in IF m \in active[g] THEN 0 .. width ELSE {0} :
        ipu' = [ipu EXCEPT ![g][0] = then,
                           ![g][m] = IF count = 0 THEN Idle ELSE Batches(i, count)]
  BY <1>1, <1>4, <1>5, <1>6, <1>8 DEF StartMacro
<1>10. PICK begun : begun = IF count = 0 THEN Idle ELSE Batches(i, count)
  OBVIOUS
<1>11. begun = Idle \/ \E c \in 1 .. width : begun = Batches(i, c)
  BY <1>9, <1>10
<1>12. \/ then.at = "macros" /\ then.macro = m + 1 /\ then.ins = i
       \/ then = Batches(i, width)
  BY <1>3, <1>5, <1>8
<1>13. /\ ipu'[g][0] = then /\ ipu'[g][m] = begun
       /\ \A h \in Groups : \A o \in Pipelines : (h = g /\ o \in {0, m}) \/ ipu'[h][o] = ipu[h][o]
  <2>1. ipu \in [Groups -> [Pipelines -> IpuType]]
    BY DEF IInv, GroupTypes
  <2>2. ipu' = [ipu EXCEPT ![g][0] = then, ![g][m] = begun]
    BY <1>9, <1>10
  <2>3. QED
    BY <1>7, <2>1, <2>2
<1>14. ipu[g][m] = Idle /\ ipu[g][0].at = "macros" /\ ipu[g][0].macro = m /\ ipu[g][0].ins = i
  BY <1>1, <1>2, <1>4, <1>5
<1>15. QED
  BY <1>2, <1>5, <1>6, <1>7, <1>11, <1>12, <1>13, <1>14

\* A batch is issued.
LEMMA IssueFacts ==
  ASSUME IInv, NEW g \in Groups, NEW n \in Pipelines, IssueBatch(g, n), UNCHANGED program
  PROVE  /\ UNCHANGED <<next_ins, starting, booked, finished>>
         /\ ipu[g][n].at = "ipu" /\ ipu[g][n].left = 0 /\ stage[g][n][1] = Idle
         /\ stage'[g][n][1] # Idle /\ stage'[g][n][1].ins = ipu[g][n].ins
         /\ stage'[g][n][1].last = (ipu[g][n].batch = ipu[g][n].count - 1)
         /\ stage'[g][n][1].left = StageLatency[1]
         /\ ipu'[g][n] = IF ipu[g][n].batch = ipu[g][n].count - 1 THEN Idle
                         ELSE [ipu[g][n] EXCEPT !.batch = @ + 1, !.left = IpuLatency]
         /\ \A h \in Groups : \A o \in Pipelines : (h = g /\ o = n) \/ ipu'[h][o] = ipu[h][o]
         /\ \A h \in Groups : \A o \in Pipelines : \A k \in Stages :
              (h = g /\ o = n /\ k = 1) \/ stage'[h][o][k] = stage[h][o][k]
<1>1. PICK s \in IpuType : s = ipu[g][n]
  BY DEF IInv, GroupTypes
<1>2. PICK batch : batch = InStage([ins |-> s.ins, last |-> s.batch = s.count - 1], 1)
  OBVIOUS
<1>3. PICK then : then = IF s.batch = s.count - 1 THEN Idle
                         ELSE [s EXCEPT !.batch = @ + 1, !.left = IpuLatency]
  OBVIOUS
<1>4. /\ s.at = "ipu" /\ s.left = 0 /\ stage[g][n][1] = Idle
      /\ stage' = [stage EXCEPT ![g][n][1] = batch] /\ ipu' = [ipu EXCEPT ![g][n] = then]
      /\ UNCHANGED <<next_ins, starting, booked, finished>>
  BY <1>1, <1>2, <1>3 DEF IssueBatch, front, board
<1>5. /\ batch # Idle /\ batch.ins = s.ins /\ batch.left = StageLatency[1]
      /\ batch.last = (s.batch = s.count - 1)
  BY <1>2 DEF InStage, Idle
<1>6. /\ ipu \in [Groups -> [Pipelines -> IpuType]] /\ 1 \in Stages
      /\ stage \in [Groups -> [Pipelines -> [Stages -> StageType]]]
  BY StageFacts DEF IInv, GroupTypes
<1>7. /\ ipu'[g][n] = then
      /\ \A h \in Groups : \A o \in Pipelines : (h = g /\ o = n) \/ ipu'[h][o] = ipu[h][o]
  BY <1>4, <1>6
<1>8. /\ stage'[g][n][1] = batch
      /\ \A h \in Groups : \A o \in Pipelines : \A k \in Stages :
           (h = g /\ o = n /\ k = 1) \/ stage'[h][o][k] = stage[h][o][k]
  BY <1>4, <1>6
<1>9. QED
  BY <1>1, <1>3, <1>4, <1>5, <1>7, <1>8

\* A batch goes on.
LEMMA NextFacts ==
  ASSUME IInv, NEW g \in Groups, NEW n \in Pipelines, NEW k \in Stages, NextStage(g, n, k),
         UNCHANGED program
  PROVE  /\ UNCHANGED <<next_ins, starting, finished, ipu>>
         /\ k < LastStage /\ k + 1 \in Stages
         /\ stage[g][n][k] # Idle /\ stage[g][n][k].left = 0 /\ stage'[g][n][k] = Idle
         /\ \A h \in Groups : \A o \in Pipelines : \A j \in Stages :
              (h = g /\ o = n /\ j \in {k, k + 1}) \/ stage'[h][o][j] = stage[h][o][j]
         /\ \/ /\ stage[g][n][k + 1] = Idle
               /\ stage'[g][n][k + 1] # Idle
               /\ stage'[g][n][k + 1].ins = stage[g][n][k].ins
               /\ stage'[g][n][k + 1].last = stage[g][n][k].last
               /\ stage'[g][n][k + 1].left = StageLatency[k + 1]
               /\ booked' = IF n = 0 /\ k + 1 = LastStage /\ LastGroup(g, stage[g][n][k].ins)
                              THEN booked \ {stage[g][n][k].ins} ELSE booked
            \/ stage'[g][n][k + 1] = stage[g][n][k + 1] /\ booked' = booked
<1>1. PICK s \in StageType : s = stage[g][n][k]
  BY DEF IInv, GroupTypes
<1>2. PICK goes_on \in BOOLEAN : goes_on <=> (k = ShiftAdder => s.last)
  OBVIOUS
<1>3. PICK batch : batch = InStage(s, k + 1)
  OBVIOUS
<1>4. /\ k < LastStage /\ s # Idle /\ s.left = 0
      /\ goes_on => stage[g][n][k + 1] = Idle
      /\ stage' = [stage EXCEPT ![g][n][k] = Idle,
                                ![g][n][k + 1] = IF goes_on THEN batch ELSE @]
      /\ booked' = IF n = 0 /\ goes_on /\ k + 1 = LastStage /\ LastGroup(g, s.ins)
                     THEN booked \ {s.ins} ELSE booked
      /\ UNCHANGED <<next_ins, starting, finished, ipu>>
  BY <1>1, <1>2, <1>3 DEF NextStage, Release, front, LastStage
<1>5. k \in Nat /\ k + 1 \in Stages /\ k # k + 1
  BY <1>4, StageFacts DEF LastStage
<1>6. /\ batch # Idle /\ batch.ins = s.ins /\ batch.last = s.last
      /\ batch.left = StageLatency[k + 1]
  BY <1>3 DEF InStage, Idle
<1>7. stage \in [Groups -> [Pipelines -> [Stages -> StageType]]]
  BY DEF IInv, GroupTypes
<1>8. PICK e : e = IF goes_on THEN batch ELSE stage[g][n][k + 1]
  OBVIOUS
<1>9. stage' = [stage EXCEPT ![g][n][k] = Idle, ![g][n][k + 1] = e]
  <2>1. CASE goes_on
    BY <1>4, <1>8, <2>1
  <2>2. CASE ~ goes_on
    <3>1. stage' = [stage EXCEPT ![g][n][k] = Idle, ![g][n][k + 1] = @]
      BY <1>4, <2>2
    <3>2. QED
      BY <1>5, <1>7, <1>8, <2>2, <3>1
  <2>3. QED
    BY <2>1, <2>2
<1>10. /\ stage'[g][n][k] = Idle /\ stage'[g][n][k + 1] = e
       /\ \A h \in Groups : \A o \in Pipelines : \A j \in Stages :
            (h = g /\ o = n /\ j \in {k, k + 1}) \/ stage'[h][o][j] = stage[h][o][j]
  BY <1>5, <1>7, <1>9
<1>11. CASE goes_on
  BY <1>1, <1>4, <1>5, <1>6, <1>8, <1>10, <1>11
<1>12. CASE ~ goes_on
  BY <1>1, <1>4, <1>5, <1>8, <1>10, <1>12
<1>13. QED
  BY <1>11, <1>12

\* A batch leaves, and ends its instruction if it is that of the last group.
LEMMA EndFacts ==
  ASSUME IInv, NEW g \in Groups, NEW n \in Pipelines, EndStage(g, n), UNCHANGED program
  PROVE  /\ UNCHANGED <<next_ins, starting, booked, ipu>> /\ LastStage \in Stages
         /\ stage[g][n][LastStage] # Idle /\ stage[g][n][LastStage].left = 0
         /\ stage'[g][n][LastStage] = Idle
         /\ finished' = IF n = 0 /\ LastGroup(g, stage[g][n][LastStage].ins)
                          THEN finished \cup {stage[g][n][LastStage].ins} ELSE finished
         /\ \A h \in Groups : \A o \in Pipelines : \A j \in Stages :
              (h = g /\ o = n /\ j = LastStage) \/ stage'[h][o][j] = stage[h][o][j]
<1>1. PICK l \in Stages : l = LastStage
  BY StageFacts DEF LastStage
<1>2. PICK s \in StageType : s = stage[g][n][l]
  BY DEF IInv, GroupTypes
<1>3. /\ s # Idle /\ s.left = 0
      /\ stage' = [stage EXCEPT ![g][n][l] = Idle]
      /\ finished' = IF n = 0 /\ LastGroup(g, s.ins) THEN finished \cup {s.ins} ELSE finished
      /\ UNCHANGED <<next_ins, starting, booked, ipu>>
  BY <1>1, <1>2 DEF EndStage, front, LastStage
<1>4. stage \in [Groups -> [Pipelines -> [Stages -> StageType]]]
  BY DEF IInv, GroupTypes
<1>5. /\ stage'[g][n][l] = Idle
      /\ \A h \in Groups : \A o \in Pipelines : \A j \in Stages :
           (h = g /\ o = n /\ j = l) \/ stage'[h][o][j] = stage[h][o][j]
  BY <1>3, <1>4
<1>6. QED
  BY <1>1, <1>2, <1>3, <1>5

-----------------------------------------------------------------------------
(***************************************************************************)
(* Batches keep their distance, and macros come along with their group.    *)
(***************************************************************************)
LEMMA LinesStep ==
  ASSUME IInv, Pipelined, StagesInTime, [Next]_vars
  PROVE  \A h \in Groups : \A o \in Pipelines : PipelineOK(ipu'[h][o], stage'[h][o])
<1>1. IInv'
  BY NextOK
<1> SUFFICES ASSUME NEW h \in Groups, NEW o \in Pipelines
             PROVE  PipelineOK(ipu'[h][o], stage'[h][o])
  OBVIOUS
<1>2. PICK s \in IpuType, line \in Lines : s = ipu[h][o] /\ line = stage[h][o]
  BY DEF IInv, GroupTypes, Lines
<1>3. PICK then \in IpuType, next \in Lines : then = ipu'[h][o] /\ next = stage'[h][o]
  BY <1>1 DEF IInv, GroupTypes, Lines
<1>4. PipelineOK(s, line)
  BY <1>2 DEF Pipelined
<1>5. SUFFICES PipelineOK(then, next)
  BY <1>3
<1>6. ASSUME then = s, \A k \in Stages : next[k] = line[k]
      PROVE  PipelineOK(then, next)
  BY <1>4, <1>6, PipelineDrop
<1>7. UNCHANGED program
  BY Steps
<1>8. CASE Take \/ Besides
  BY <1>2, <1>3, <1>6, <1>8 DEF Take, Besides, macro_groups
<1>9. CASE Tick
  <2>1. /\ s.at # "macros" /\ then.at = s.at
        /\ s.at = "ipu" => s.left # 0 /\ then = [s EXCEPT !.left = s.left - 1]
        /\ \A k \in Stages : line[k] # Idle => line[k].left # 0 /\ next[k].left = line[k].left - 1
    BY <1>2, <1>3, <1>7, <1>9, TickAges
  <2>2. \A k \in Stages : next[k] = Idle <=> line[k] = Idle
    BY <1>2, <1>3, <1>7, <1>9, TickFacts
  <2>3. QED
    BY <1>4, <2>1, <2>2, PipelineAge
<1>10. CASE RunMacroGroup
  <2>1. /\ UNCHANGED stage
        /\ then = s \/ then.at = "macros"
    BY <1>2, <1>3, <1>7, <1>10, RunFacts
  <2>2. next = line
    BY <1>2, <1>3, <2>1
  <2>3. QED
    BY <1>4, <2>1, <2>2 DEF PipelineOK
<1>11. CASE \E g \in Groups : StartMacro(g)
  <2>1. PICK g \in Groups : StartMacro(g)
    BY <1>11
  <2>2. PICK m \in Macros, i \in TakenBy("cim_compute"), width \in Nat \ {0} :
          /\ UNCHANGED stage /\ i \in Id
          /\ \/ ipu'[g][0].at = "macros" /\ ipu'[g][0].macro = m + 1 /\ ipu'[g][0].ins = i
             \/ ipu'[g][0] = Batches(i, width)
          /\ ipu'[g][m] = Idle \/ \E count \in 1 .. width : ipu'[g][m] = Batches(i, count)
          /\ (h = g /\ o \in {0, m}) \/ ipu'[h][o] = ipu[h][o]
    BY <1>7, <2>1, StartMacroFacts
  <2>3. next = line
    BY <1>2, <1>3, <2>2
  <2>4. \/ then = s \/ then.at # "ipu" \/ \E count \in Nat \ {0} : then = Batches(i, count)
    BY <1>2, <1>3, <2>2, KindFacts
  <2>5. CASE then = s
    BY <1>4, <2>3, <2>5
  <2>6. CASE then.at # "ipu"
    BY <1>4, <2>3, <2>6 DEF PipelineOK
  <2>7. CASE \E count \in Nat \ {0} : then = Batches(i, count)
    BY <1>4, <2>2, <2>3, <2>7, PipelineStart
  <2>8. QED
    BY <2>4, <2>5, <2>6, <2>7
<1>12. CASE \E g \in Groups : \E n \in Pipelines : IssueBatch(g, n)
  <2>1. PICK g \in Groups, n \in Pipelines : IssueBatch(g, n)
    BY <1>12
  <2>2. /\ ipu[g][n].at = "ipu" /\ ipu[g][n].left = 0 /\ stage[g][n][1] = Idle
        /\ stage'[g][n][1] # Idle /\ stage'[g][n][1].left = StageLatency[1]
        /\ ipu'[g][n] = IF ipu[g][n].batch = ipu[g][n].count - 1 THEN Idle
                        ELSE [ipu[g][n] EXCEPT !.batch = @ + 1, !.left = IpuLatency]
    BY <1>7, <2>1, IssueFacts
  <2>3. /\ (h = g /\ o = n) \/ ipu'[h][o] = ipu[h][o]
        /\ \A k \in Stages : (h = g /\ o = n /\ k = 1) \/ stage'[h][o][k] = stage[h][o][k]
    <3>1. /\ \A a \in Groups : \A b \in Pipelines : (a = g /\ b = n) \/ ipu'[a][b] = ipu[a][b]
          /\ \A a \in Groups : \A b \in Pipelines : \A k \in Stages :
               (a = g /\ b = n /\ k = 1) \/ stage'[a][b][k] = stage[a][b][k]
      BY <1>7, <2>1, IssueFacts
    <3>2. QED
      BY <3>1
  <2>4. CASE h = g /\ o = n
    <3>1. /\ s.at = "ipu" /\ s.left = 0 /\ line[1] = Idle
          /\ next[1] # Idle /\ next[1].left = StageLatency[1]
          /\ then = IF s.batch = s.count - 1 THEN Idle
                    ELSE [s EXCEPT !.batch = @ + 1, !.left = IpuLatency]
          /\ \A k \in Stages : k # 1 => next[k] = line[k]
      BY <1>2, <1>3, <2>2, <2>3, <2>4
    <3>2. \/ then.at # "ipu"
          \/ s.batch # s.count - 1 /\ then = [s EXCEPT !.batch = @ + 1, !.left = IpuLatency]
      BY <3>1, KindFacts
    <3>3. QED
      BY <1>4, <3>1, <3>2, PipelineIssue
  <2>5. CASE ~ (h = g /\ o = n)
    BY <1>2, <1>3, <1>6, <2>3, <2>5
  <2>6. QED
    BY <2>4, <2>5
<1>13. CASE \E g \in Groups : \E n \in Pipelines : \E k \in Stages : NextStage(g, n, k)
  <2>1. PICK g \in Groups, n \in Pipelines, k \in Stages : NextStage(g, n, k)
    BY <1>13
  <2>2. CASE h = g /\ o = n
    <3>1. /\ then = s /\ k + 1 \in Stages
          /\ line[k] # Idle /\ line[k].left = 0 /\ next[k] = Idle
          /\ \A j \in Stages : j \notin {k, k + 1} => next[j] = line[j]
          /\ \/ /\ line[k + 1] = Idle /\ next[k + 1] # Idle
                /\ next[k + 1].left = StageLatency[k + 1]
             \/ next[k + 1] = line[k + 1]
      BY <1>2, <1>3, <1>7, <2>1, <2>2, NextFacts
    <3>2. CASE next[k + 1] = line[k + 1]
      <4>1. \A j \in Stages : next[j] = line[j] \/ next[j] = Idle
        BY <3>1, <3>2
      <4>2. QED
        BY <1>4, <3>1, <4>1, PipelineDrop
    <3>3. CASE next[k + 1] # line[k + 1]
      BY <1>4, <3>1, <3>3, PipelineMove
    <3>4. QED
      BY <3>2, <3>3
  <2>3. CASE ~ (h = g /\ o = n)
    BY <1>2, <1>3, <1>6, <1>7, <2>1, <2>3, NextFacts
  <2>4. QED
    BY <2>2, <2>3
<1>14. CASE \E g \in Groups : \E n \in Pipelines : EndStage(g, n)
  <2>1. PICK g \in Groups, n \in Pipelines : EndStage(g, n)
    BY <1>14
  <2>2. then = s /\ \A k \in Stages : next[k] = line[k] \/ next[k] = Idle
    BY <1>2, <1>3, <1>7, <2>1, EndFacts
  <2>3. QED
    BY <1>4, <2>2, PipelineDrop
<1>15. QED
  BY <1>8, <1>9, <1>10, <1>11, <1>12, <1>13, <1>14, Steps

LEMMA MacrosAlongStep ==
  ASSUME IInv, Pipelined, StagesInTime, [Next]_vars
  PROVE  MacrosAlong'
<1>1. IInv' /\ UNCHANGED program
  BY NextOK, Steps
<1>2. \A i : WholeIssue(i)' = WholeIssue(i)
  BY <1>1 DEF WholeIssue
<1> SUFFICES ASSUME NEW h \in Groups, NEW o \in Macros
             PROVE  /\ ipu'[h][o].at # "macros"
                    /\ ipu'[h][o].at = "ipu" =>
                         \/ IssueLeft(ipu'[h][o]) = 0
                         \/ ipu'[h][0].at = "ipu" /\ IssueLeft(ipu'[h][o]) <= IssueLeft(ipu'[h][0])
                         \/ /\ ipu'[h][0].at = "macros" /\ o < ipu'[h][0].macro
                            /\ IssueLeft(ipu'[h][o]) <= WholeIssue(ipu'[h][0].ins)
  BY <1>2 DEF MacrosAlong, IssueLeft
<1>3. PICK own \in IpuType, s \in IpuType : own = ipu[h][0] /\ s = ipu[h][o]
  BY PipelineFacts DEF IInv, GroupTypes
<1>4. PICK own1 \in IpuType, s1 \in IpuType : own1 = ipu'[h][0] /\ s1 = ipu'[h][o]
  BY <1>1, PipelineFacts DEF IInv, GroupTypes
<1>5. o \in Nat \ {0} /\ o \in Pipelines /\ 0 \in Pipelines
  <2>1. PICK c : c = Cardinality(Macros)
    OBVIOUS
  <2>2. o \in 1 .. c
    BY <2>1, SizeAssumption
  <2>3. QED
    BY <2>2, PipelineFacts
<1>6. /\ s.at # "macros"
      /\ s.at = "ipu" =>
           \/ IssueLeft(s) = 0
           \/ own.at = "ipu" /\ IssueLeft(s) <= IssueLeft(own)
           \/ own.at = "macros" /\ o < own.macro /\ IssueLeft(s) <= WholeIssue(own.ins)
  BY <1>3 DEF Pipelined, MacrosAlong
<1>7. /\ s.at = "ipu" => s.batch < s.count
      /\ own.at = "ipu" => own.batch < own.count
  BY <1>3, <1>5 DEF Pipelined, PipelineOK
<1>8. /\ s.at = "ipu" => IssueLeft(s) \in Nat /\ s.left <= IssueLeft(s) /\ s.left \in Nat
      /\ own.at = "ipu" => IssueLeft(own) \in Nat /\ own.left <= IssueLeft(own) /\ own.left \in Nat
  BY <1>7, IssuingFacts
<1>9. SUFFICES /\ s1.at # "macros"
               /\ s1.at = "ipu" =>
                    \/ IssueLeft(s1) = 0
                    \/ own1.at = "ipu" /\ IssueLeft(s1) <= IssueLeft(own1)
                    \/ own1.at = "macros" /\ o < own1.macro /\ IssueLeft(s1) <= WholeIssue(own1.ins)
  BY <1>4
<1>10. ASSUME own1 = own, s1 = s
       PROVE  /\ s1.at # "macros"
              /\ s1.at = "ipu" =>
                   \/ IssueLeft(s1) = 0
                   \/ own1.at = "ipu" /\ IssueLeft(s1) <= IssueLeft(own1)
                   \/ own1.at = "macros" /\ o < own1.macro /\ IssueLeft(s1) <= WholeIssue(own1.ins)
  BY <1>6, <1>10
<1>11. CASE Take \/ Besides
  BY <1>3, <1>4, <1>10, <1>11 DEF Take, Besides, macro_groups
<1>12. CASE Tick
  <2>1. /\ s1.at = s.at /\ own1.at = own.at /\ own.at # "macros"
        /\ s.at = "ipu" => s.left # 0 /\ s1 = [s EXCEPT !.left = s.left - 1]
        /\ own.at = "ipu" => own.left # 0 /\ own1 = [own EXCEPT !.left = own.left - 1]
    BY <1>1, <1>3, <1>4, <1>5, <1>12, TickAges
  <2>2. s.at = "ipu" => IssueLeft(s1) = IssueLeft(s) - 1
    BY <1>7, <2>1, IssuingFacts
  <2>3. own.at = "ipu" => IssueLeft(own1) = IssueLeft(own) - 1
    BY <1>7, <2>1, IssuingFacts
  <2>4. QED
    BY <1>6, <1>8, <2>1, <2>2, <2>3
<1>13. CASE RunMacroGroup
  <2>1. s1 = s /\ (own1 = own \/ own = Idle)
    BY <1>1, <1>3, <1>4, <1>5, <1>13, RunFacts
  <2>2. CASE own1 = own
    BY <1>10, <2>1, <2>2
  <2>3. CASE own = Idle
    BY <1>6, <2>1, <2>3, KindFacts
  <2>4. QED
    BY <2>1, <2>2, <2>3
<1>14. CASE \E g \in Groups : StartMacro(g)
  <2>1. PICK g \in Groups : StartMacro(g)
    BY <1>14
  <2>2. PICK m \in Macros, i \in TakenBy("cim_compute"), width \in Nat \ {0} :
          /\ i \in Id /\ width = program[i].input_bit_width
          /\ ipu[g][0].at = "macros" /\ ipu[g][0].macro = m /\ ipu[g][0].ins = i
          /\ \/ ipu'[g][0].at = "macros" /\ ipu'[g][0].macro = m + 1 /\ ipu'[g][0].ins = i
             \/ ipu'[g][0] = Batches(i, width)
          /\ ipu'[g][m] = Idle \/ \E count \in 1 .. width : ipu'[g][m] = Batches(i, count)
          /\ \A a \in Groups : \A b \in Pipelines :
               (a = g /\ b \in {0, m}) \/ ipu'[a][b] = ipu[a][b]
    BY <1>1, <2>1, StartMacroFacts
  <2>3. CASE g # h
    <3>1. own1 = own /\ s1 = s
      BY <1>3, <1>4, <1>5, <2>2, <2>3
    <3>2. QED
      BY <1>10, <3>1
  <2>4. CASE g = h
    <3>1. /\ own.at = "macros" /\ own.macro = m /\ own.ins = i
          /\ \/ own1.at = "macros" /\ own1.macro = m + 1 /\ own1.ins = i
             \/ own1 = Batches(i, width)
          /\ o = m => s1 = Idle \/ \E count \in 1 .. width : s1 = Batches(i, count)
          /\ o # m => s1 = s
      BY <1>3, <1>4, <1>5, <2>2, <2>4
    <3>2. m \in Nat
      BY PipelineFacts
    <3>3. /\ own1 = Batches(i, width) => own1.at = "ipu" /\ IssueLeft(own1) = WholeIssue(i)
          /\ \A count \in 1 .. width :
               s1 = Batches(i, count) => s1.at = "ipu" /\ IssueLeft(s1) <= WholeIssue(i)
      <4>1. \A count \in 1 .. width :
              /\ IssueLeft(Batches(i, count)) = count * IpuLatency
              /\ count * IpuLatency <= width * IpuLatency
              /\ Batches(i, count).at = "ipu"
        <5>1. SUFFICES ASSUME NEW count \in 1 .. width
                       PROVE  /\ IssueLeft(Batches(i, count)) = count * IpuLatency
                              /\ count * IpuLatency <= width * IpuLatency
                              /\ Batches(i, count).at = "ipu"
          OBVIOUS
        <5>2. IssueLeft(Batches(i, count)) = count * IpuLatency /\ count * IpuLatency <= width * IpuLatency
          BY <2>2, BatchesFacts
        <5>3. Batches(i, count).at = "ipu"
          BY DEF Batches
        <5>4. QED
          BY <5>2, <5>3
      <4>2. WholeIssue(i) = width * IpuLatency
        BY <2>2 DEF WholeIssue
      <4>3. width \in 1 .. width
        OBVIOUS
      <4>4. QED
        BY <4>1, <4>2, <4>3
    <3>4. CASE o = m
      BY <1>5, <3>1, <3>2, <3>3, <3>4, KindFacts
    <3>5. CASE o # m
      BY <1>5, <1>6, <3>1, <3>2, <3>3, <3>5, KindFacts
    <3>6. QED
      BY <3>4, <3>5
  <2>5. QED
    BY <2>3, <2>4
<1>15. CASE \E g \in Groups : \E n \in Pipelines : IssueBatch(g, n)
  <2>1. PICK g \in Groups, n \in Pipelines : IssueBatch(g, n)
    BY <1>15
  <2>2. /\ ipu[g][n].at = "ipu" /\ ipu[g][n].left = 0
        /\ ipu'[g][n] = IF ipu[g][n].batch = ipu[g][n].count - 1 THEN Idle
                        ELSE [ipu[g][n] EXCEPT !.batch = @ + 1, !.left = IpuLatency]
    BY <1>1, <2>1, IssueFacts
  <2>3. \A a \in Groups : \A b \in Pipelines : (a = g /\ b = n) \/ ipu'[a][b] = ipu[a][b]
    BY <1>1, <2>1, IssueFacts
  <2>4. ASSUME NEW e \in IpuType, NEW e1 \in IpuType, e.at = "ipu", e.left = 0, e.batch < e.count,
               e1 = IF e.batch = e.count - 1 THEN Idle
                    ELSE [e EXCEPT !.batch = @ + 1, !.left = IpuLatency]
        PROVE  IF e1.at = "ipu" THEN IssueLeft(e1) = IssueLeft(e) ELSE e1 = Idle /\ IssueLeft(e) = 0
    <3>1. CASE e.batch = e.count - 1
      BY <2>4, <3>1, IssuingFacts, KindFacts
    <3>2. CASE e.batch # e.count - 1
      <4>1. e1 = [e EXCEPT !.batch = @ + 1, !.left = IpuLatency]
        BY <2>4, <3>2
      <4>2. IssueLeft(e1) = IssueLeft(e) /\ e \in [ins : Id, at : {"ipu"}, batch : Nat, count : Nat, left : Nat]
        BY <2>4, <3>2, <4>1, IssuingFacts
      <4>3. e1.at = "ipu"
        BY <4>1, <4>2
      <4>4. QED
        BY <4>2, <4>3
    <3>3. QED
      BY <3>1, <3>2
  <2>5. CASE h = g /\ n = o
    <3>1. own1 = own
      BY <1>3, <1>4, <1>5, <2>3, <2>5
    <3>2. /\ s.at = "ipu" /\ s.left = 0
          /\ s1 = IF s.batch = s.count - 1 THEN Idle
                  ELSE [s EXCEPT !.batch = @ + 1, !.left = IpuLatency]
      BY <1>3, <1>4, <2>2, <2>5
    <3>3. IF s1.at = "ipu" THEN IssueLeft(s1) = IssueLeft(s) ELSE s1 = Idle
      BY <1>7, <2>4, <3>2
    <3>4. QED
      BY <1>6, <3>1, <3>2, <3>3, KindFacts
  <2>6. CASE h = g /\ n = 0
    <3>1. s1 = s
      BY <1>3, <1>4, <1>5, <2>3, <2>6
    <3>2. /\ own.at = "ipu" /\ own.left = 0
          /\ own1 = IF own.batch = own.count - 1 THEN Idle
                    ELSE [own EXCEPT !.batch = @ + 1, !.left = IpuLatency]
      BY <1>3, <1>4, <2>2, <2>6
    <3>3. IF own1.at = "ipu" THEN IssueLeft(own1) = IssueLeft(own)
                             ELSE own1 = Idle /\ IssueLeft(own) = 0
      BY <1>7, <2>4, <3>2
    <3>4. QED
      BY <1>6, <1>8, <3>1, <3>2, <3>3
  <2>7. CASE ~ (h = g /\ n \in {0, o})
    <3>1. own1 = own /\ s1 = s
      BY <1>3, <1>4, <1>5, <2>3, <2>7
    <3>2. QED
      BY <1>10, <3>1
  <2>8. QED
    BY <2>5, <2>6, <2>7
<1>16. CASE \E g \in Groups : \E n \in Pipelines : \E k \in Stages : NextStage(g, n, k)
  BY <1>3, <1>4, <1>10, <1>16 DEF NextStage
<1>17. CASE \E g \in Groups : \E n \in Pipelines : EndStage(g, n)
  BY <1>3, <1>4, <1>10, <1>17 DEF EndStage
<1>18. QED
  BY <1>11, <1>12, <1>13, <1>14, <1>15, <1>16, <1>17, Steps

LEMMA PipelinedStep ==
  ASSUME IInv, Pipelined, StagesInTime, [Next]_vars
  PROVE  Pipelined'
<1>1. \A h \in Groups : \A o \in Pipelines : PipelineOK(ipu'[h][o], stage'[h][o])
  BY LinesStep
<1>2. MacrosAlong'
  BY MacrosAlongStep
<1>3. QED
  BY <1>1, <1>2 DEF Pipelined, PipelineOK, Since

LEMMA PipelinedInit == Init => Pipelined
<1> SUFFICES ASSUME Init PROVE Pipelined
  OBVIOUS
<1>1. \A g \in Groups : \A n \in Pipelines :
        ipu[g][n] = Idle /\ \A k \in Stages : stage[g][n][k] = Idle
  BY DEF Init
<1>2. QED
  BY <1>1, KindFacts, PipelineFacts DEF Pipelined, PipelineOK, MacrosAlong

-----------------------------------------------------------------------------
(***************************************************************************)
(* The activation, for any number of groups.                               *)
(***************************************************************************)
\* No control instruction leaves decode after a computation that holds resources.
LEMMA ControlBefore ==
  ASSUME IInv, NEW i \in TakenBy("cim_compute"), i \in booked
  PROVE  \A j \in ControlLeft : j < i
<1>1. FrontTypes /\ i \in 1 .. next_ins - 1 /\ program[i].unit = "cim_compute" /\ next_ins \in Nat
  BY TakenFacts DEF IInv, TakenBy
<1>2. ASSUME NEW j \in TakenBy("cim_control")
      PROVE  j < i
  <2>1. j \in 1 .. next_ins - 1 /\ program[j].unit = "cim_control"
    BY DEF TakenBy
  <2>2. ~ (i < j)
    BY <1>1, <2>1 DEF IInv, Apart
  <2>3. QED
    BY <1>1, <2>1, <2>2
<1>3. ASSUME starting \in Ids, program[starting].unit = "cim_control"
      PROVE  FALSE
  <2>1. starting # 0
    BY <1>1, <1>3, TakenFacts DEF Id
  <2>2. QED
    BY <1>1, <1>3, <2>1 DEF IInv, Apart
<1>4. QED
  BY <1>2, <1>3 DEF ControlLeft

\* It is the clock that decides who leaves decode.
LEMMA ControlLeftSame ==
  ASSUME IInv, UNCHANGED program, Take \/ UNCHANGED <<next_ins, starting>>
  PROVE  \A j : j \in ControlLeft' => j \in ControlLeft
<1>1. CASE UNCHANGED <<next_ins, starting>>
  BY <1>1, SameTypes DEF ControlLeft, Ids
<1>2. CASE Take
  <2>1. /\ \A j : j \in TakenBy("cim_control")' <=>
               j \in TakenBy("cim_control") \/ (j = starting /\ program[j].unit = "cim_control")
        /\ starting \in Ids /\ Ids' = Ids
    BY <1>2, MoreTaken DEF Ids
  <2>2. starting' = 0 /\ 0 \notin Ids
    <3>1. FrontTypes
      BY DEF IInv
    <3>2. QED
      BY <1>2, <3>1, TakenFacts DEF Take, Id
  <2>3. QED
    BY <2>1, <2>2 DEF ControlLeft
<1>3. QED
  BY <1>1, <1>2

LEMMA MacrosFirstStep ==
  ASSUME IInv, Pipelined, MacrosFirst, StagesInTime, [Next]_vars
  PROVE  MacrosFirst'
<1>1. UNCHANGED program
  BY Steps
<1>2. ASSUME Take \/ UNCHANGED <<next_ins, starting>>,
             \A g \in Groups :
               ipu'[g][0].at = "macros" =>
                 ipu[g][0].at = "macros" /\ ipu'[g][0].ins = ipu[g][0].ins
      PROVE  MacrosFirst'
  <2>1. \A j : j \in ControlLeft' => j \in ControlLeft
    BY <1>1, <1>2, ControlLeftSame
  <2>2. QED
    BY <1>2, <2>1 DEF MacrosFirst
<1>3. CASE Take \/ Besides
  BY <1>2, <1>3 DEF Take, Besides, macro_groups
<1>4. CASE Tick
  <2>1. ASSUME NEW g \in Groups
        PROVE  ipu'[g][0].at # "macros"
    <3>1. \A n \in Pipelines : ipu[g][n].at # "macros" /\ ipu'[g][n].at = ipu[g][n].at
      BY <1>1, <1>4, TickAges
    <3>2. QED
      BY <3>1, PipelineFacts
  <2>2. QED
    BY <2>1 DEF MacrosFirst
<1>5. CASE RunMacroGroup
  <2>1. /\ UNCHANGED <<next_ins, starting>>
        /\ sub.ins \in TakenBy("cim_compute") /\ sub.ins \in booked
        /\ ipu'[sub.group][0].ins = sub.ins
        /\ \A g \in Groups : \A n \in Pipelines :
             (g = sub.group /\ n = 0) \/ ipu'[g][n] = ipu[g][n]
    BY <1>1, <1>5, RunFacts
  <2>2. \A j : j \in ControlLeft' => j \in ControlLeft
    BY <1>1, <2>1, ControlLeftSame
  <2>3. \A j \in ControlLeft : j < sub.ins
    BY <2>1, ControlBefore
  <2>4. \A g \in Groups : g = sub.group \/ ipu'[g][0] = ipu[g][0]
    BY <2>1, PipelineFacts
  <2>5. QED
    BY <2>1, <2>2, <2>3, <2>4 DEF MacrosFirst
<1>6. CASE \E g \in Groups : StartMacro(g)
  <2>1. PICK g \in Groups : StartMacro(g)
    BY <1>6
  <2>2. PICK m \in Macros, i \in TakenBy("cim_compute"), width \in Nat \ {0} :
          /\ UNCHANGED <<next_ins, starting>> /\ m # 0
          /\ ipu[g][0].at = "macros" /\ ipu[g][0].ins = i
          /\ \/ ipu'[g][0].at = "macros" /\ ipu'[g][0].macro = m + 1 /\ ipu'[g][0].ins = i
             \/ ipu'[g][0] = Batches(i, width)
          /\ \A a \in Groups : \A b \in Pipelines :
               (a = g /\ b \in {0, m}) \/ ipu'[a][b] = ipu[a][b]
    BY <1>1, <2>1, StartMacroFacts
  <2>3. \A h \in Groups : h = g \/ ipu'[h][0] = ipu[h][0]
    BY <2>2, PipelineFacts
  <2>4. Batches(i, width).at # "macros"
    BY DEF Batches
  <2>5. QED
    BY <1>2, <2>2, <2>3, <2>4
<1>7. CASE \E g \in Groups : \E n \in Pipelines : IssueBatch(g, n)
  <2>1. PICK g \in Groups, n \in Pipelines : IssueBatch(g, n)
    BY <1>7
  <2>2. /\ UNCHANGED <<next_ins, starting>> /\ ipu[g][n].at = "ipu"
        /\ ipu'[g][n] = IF ipu[g][n].batch = ipu[g][n].count - 1 THEN Idle
                        ELSE [ipu[g][n] EXCEPT !.batch = @ + 1, !.left = IpuLatency]
    BY <1>1, <2>1, IssueFacts
  <2>3. \A a \in Groups : \A b \in Pipelines : (a = g /\ b = n) \/ ipu'[a][b] = ipu[a][b]
    BY <1>1, <2>1, IssueFacts
  <2>4. ipu'[g][n].at # "macros"
    <3>1. PICK s \in IpuType : s = ipu[g][n]
      BY DEF IInv, GroupTypes
    <3>2. s \in [ins : Id, at : {"ipu"}, batch : Nat, count : Nat, left : Nat]
      BY <2>2, <3>1 DEF IpuType, Idle
    <3>3. [s EXCEPT !.batch = @ + 1, !.left = IpuLatency].at = "ipu"
      BY <3>2
    <3>4. QED
      BY <2>2, <3>1, <3>3, KindFacts
  <2>5. \A h \in Groups : ipu'[h][0] = ipu[h][0] \/ ipu'[h][0].at # "macros"
    BY <2>3, <2>4, PipelineFacts
  <2>6. QED
    BY <1>2, <2>2, <2>5
<1>8. CASE \E g \in Groups : \E n \in Pipelines : \E k \in Stages : NextStage(g, n, k)
  BY <1>2, <1>8 DEF NextStage, front
<1>9. CASE \E g \in Groups : \E n \in Pipelines : EndStage(g, n)
  BY <1>2, <1>9 DEF EndStage, front
<1>10. QED
  BY <1>3, <1>4, <1>5, <1>6, <1>7, <1>8, <1>9, Steps

\* While a group looks for active macros, those before its computation have set them, and
\* no other.
LEMMA FirstInOrder ==
  ASSUME IInv, MacrosFirst, NEW g \in Groups, ipu[g][0].at = "macros"
  PROVE  Sets(g) = SetBefore(ipu[g][0].ins, g)
<1>1. PICK i : i = ipu[g][0].ins
  OBVIOUS
<1>2. i \in TakenBy("cim_compute") /\ FrontTypes
  BY <1>1, PipelineFacts, KindFacts DEF IInv, GroupTypes
<1>3. i \in 1 .. next_ins - 1 /\ program[i].unit = "cim_compute" /\ next_ins \in Nat
  BY <1>2, TakenFacts DEF TakenBy
<1>4. ASSUME NEW j \in Sets(g)
      PROVE  j \in SetBefore(i, g)
  <2>1. /\ j \in TakenBy("cim_control") /\ j \in 1 .. next_ins - 1 /\ program[j].unit = "cim_control"
        /\ program[j].op = "set_activation" /\ g \in program[j].groups
    BY DEF Sets, TakenBy
  <2>2. j < i
    BY <1>1, <2>1 DEF MacrosFirst, ControlLeft
  <2>3. QED
    BY <1>3, <2>1, <2>2 DEF SetBefore
<1>5. ASSUME NEW j \in SetBefore(i, g)
      PROVE  j \in Sets(g)
  <2>1. /\ j \in 1 .. i - 1 /\ program[j].unit = "cim_control"
        /\ program[j].op = "set_activation" /\ g \in program[j].groups
    BY DEF SetBefore
  <2>2. j \in 1 .. next_ins - 1 /\ j < i
    BY <1>3, <2>1
  <2>3. j \notin booked
    BY <1>3, <2>1, <2>2 DEF IInv, Apart
  <2>4. QED
    BY <2>1, <2>2, <2>3 DEF Sets, TakenBy
<1>6. QED
  BY <1>1, <1>4, <1>5

-----------------------------------------------------------------------------
(***************************************************************************)
(* What is over when.                                                      *)
(***************************************************************************)
\* The times are numbers.
LEMMA OverNumbers ==
  ASSUME IInv, Pipelined, NEW g \in Groups, NEW n \in Pipelines
  PROVE  /\ Upto[LastStage] \in Nat
         /\ \A i \in TakenBy("cim_compute") : WholeIssue(i) \in Nat /\ i # 0
         /\ ipu[g][n].at = "ipu" => IssueLeft(ipu[g][n]) \in Nat
         /\ \A k \in Stages : stage[g][n][k] # Idle => Since(k, stage[g][n][k]) \in Int
         /\ ipu[g][n] = Idle => ipu[g][n].ins = 0
         /\ \A k \in Stages : stage[g][n][k] = Idle => stage[g][n][k].ins = 0
<1>1. Upto[LastStage] \in Nat
  <2>1. LastStage \in 0 .. LastStage
    BY StageFacts DEF LastStage
  <2>2. QED
    BY <2>1, UptoFacts
<1>2. ASSUME NEW i \in TakenBy("cim_compute")
      PROVE  WholeIssue(i) \in Nat /\ i # 0
  <2>1. FrontTypes
    BY DEF IInv
  <2>2. i \in Ids /\ i \in Id /\ program[i].unit = "cim_compute"
    BY <2>1, TakenFacts
  <2>3. program[i].input_bit_width \in Nat
    BY <2>1, <2>2, ProgramFacts
  <2>4. WholeIssue(i) \in Nat
    BY <2>3, LatencyAssumption, TimesFacts DEF WholeIssue
  <2>5. QED
    BY <2>2, <2>4 DEF Id
<1>3. ipu[g][n].at = "ipu" => IssueLeft(ipu[g][n]) \in Nat
  <2>1. PICK s \in IpuType : s = ipu[g][n]
    BY DEF IInv, GroupTypes
  <2>2. s.at = "ipu" => s.batch < s.count
    BY <2>1 DEF Pipelined, PipelineOK
  <2>3. QED
    BY <2>1, <2>2, IssuingFacts
<1>4. ASSUME NEW k \in Stages, stage[g][n][k] # Idle
      PROVE  Since(k, stage[g][n][k]) \in Int
  <2>1. stage[g][n][k] \in StageType
    BY DEF IInv, GroupTypes
  <2>2. QED
    BY <1>4, <2>1, SinceFacts
<1>5. QED
  BY <1>1, <1>2, <1>3, <1>4, KindFacts

\* What is left of an instruction is never more than it was.
LEMMA OverMacro ==
  ASSUME IInv, Pipelined, UNCHANGED program, NEW g \in Groups, StartMacro(g),
         NEW i \in TakenBy("cim_compute"), NEW t \in Int, OverIn(i, t)
  PROVE  OverIn(i, t)'
<1>1. PICK m \in Macros, j \in TakenBy("cim_compute"), width \in Nat \ {0} :
        /\ UNCHANGED stage
        /\ j \in Id /\ width = program[j].input_bit_width
        /\ ipu[g][0].at = "macros" /\ ipu[g][0].ins = j /\ m # 0
        /\ \/ ipu'[g][0].at = "macros" /\ ipu'[g][0].macro = m + 1 /\ ipu'[g][0].ins = j
           \/ ipu'[g][0] = Batches(j, width)
        /\ ipu'[g][m] = Idle \/ \E count \in 1 .. width : ipu'[g][m] = Batches(j, count)
        /\ \A a \in Groups : \A b \in Pipelines : (a = g /\ b \in {0, m}) \/ ipu'[a][b] = ipu[a][b]
  BY StartMacroFacts
<1>2. WholeIssue(i)' = WholeIssue(i) /\ WholeIssue(i) \in Nat /\ Upto[LastStage] \in Nat /\ i # 0
  BY OverNumbers, PipelineFacts DEF WholeIssue
<1>3. i = j => Upto[LastStage] + WholeIssue(i) <= t
  BY <1>1, PipelineFacts DEF OverIn
<1>4. \A count \in 1 .. width :
        LET b == Batches(j, count)
        IN  /\ b.ins = j /\ b.at = "ipu" /\ IssueLeft(b) \in Nat
            /\ i = j => IssueLeft(b) <= WholeIssue(i)
  <2>1. SUFFICES ASSUME NEW count \in 1 .. width
                 PROVE  LET b == Batches(j, count)
                        IN  /\ b.ins = j /\ b.at = "ipu" /\ IssueLeft(b) \in Nat
                            /\ i = j => IssueLeft(b) <= WholeIssue(i)
    OBVIOUS
  <2>2. /\ IssueLeft(Batches(j, count)) = count * IpuLatency /\ count * IpuLatency \in Nat
        /\ count * IpuLatency <= width * IpuLatency
    BY <1>1, BatchesFacts
  <2>3. i = j => WholeIssue(i) = width * IpuLatency
    BY <1>1 DEF WholeIssue
  <2>4. Batches(j, count).ins = j /\ Batches(j, count).at = "ipu"
    BY DEF Batches
  <2>5. QED
    BY <2>2, <2>3, <2>4
<1>5. ASSUME NEW h \in Groups, NEW o \in Pipelines, ipu'[h][o].ins = i
      PROVE  /\ ipu'[h][o].at = "macros" => Upto[LastStage] + WholeIssue(i) <= t
             /\ ipu'[h][o].at = "ipu" => Upto[LastStage] + IssueLeft(ipu'[h][o]) <= t
  <2>1. CASE ipu'[h][o] = ipu[h][o]
    BY <1>5, <2>1 DEF OverIn
  <2>2. CASE h = g /\ o = 0
    <3>1. CASE ipu'[g][0] = Batches(j, width)
      <4>1. width \in 1 .. width
        OBVIOUS
      <4>2. ipu'[h][o].at = "ipu" /\ i = j /\ IssueLeft(ipu'[h][o]) <= WholeIssue(i)
            /\ IssueLeft(ipu'[h][o]) \in Nat
        BY <1>4, <1>5, <2>2, <3>1, <4>1
      <4>3. QED
        BY <1>2, <1>3, <4>2
    <3>2. CASE ipu'[g][0].at = "macros" /\ ipu'[g][0].ins = j
      BY <1>3, <1>5, <2>2, <3>2
    <3>3. QED
      BY <1>1, <3>1, <3>2
  <2>3. CASE h = g /\ o = m
    <3>1. ipu'[h][o] # Idle
      BY <1>2, <1>5, KindFacts
    <3>2. PICK count \in 1 .. width : ipu'[h][o] = Batches(j, count)
      BY <1>1, <2>3, <3>1
    <3>3. /\ ipu'[h][o].at = "ipu" /\ i = j /\ IssueLeft(ipu'[h][o]) <= WholeIssue(i)
          /\ IssueLeft(ipu'[h][o]) \in Nat
      BY <1>4, <1>5, <3>2
    <3>4. QED
      BY <1>2, <1>3, <3>3
  <2>4. QED
    BY <1>1, <2>1, <2>2, <2>3
<1>6. \A h \in Groups : \A o \in Pipelines : \A k \in Stages :
        stage'[h][o][k].ins = i => Upto[LastStage] - Since(k, stage'[h][o][k]) <= t
  BY <1>1 DEF OverIn
<1>7. QED
  BY <1>2, <1>5, <1>6 DEF OverIn, IssueLeft, Since

LEMMA OverIssue ==
  ASSUME IInv, Pipelined, UNCHANGED program, NEW g \in Groups, NEW n \in Pipelines, IssueBatch(g, n),
         NEW i \in TakenBy("cim_compute"), NEW t \in Int, OverIn(i, t)
  PROVE  OverIn(i, t)'
<1>1. PICK s \in IpuType : s = ipu[g][n]
  BY DEF IInv, GroupTypes
<1>2. /\ s.at = "ipu" /\ s.left = 0
      /\ stage'[g][n][1] # Idle /\ stage'[g][n][1].ins = s.ins /\ stage'[g][n][1].left = StageLatency[1]
      /\ ipu'[g][n] = IF s.batch = s.count - 1 THEN Idle
                      ELSE [s EXCEPT !.batch = @ + 1, !.left = IpuLatency]
  BY <1>1, IssueFacts
<1>3. /\ \A h \in Groups : \A o \in Pipelines : (h = g /\ o = n) \/ ipu'[h][o] = ipu[h][o]
      /\ \A h \in Groups : \A o \in Pipelines : \A k \in Stages :
           (h = g /\ o = n /\ k = 1) \/ stage'[h][o][k] = stage[h][o][k]
  BY IssueFacts
<1>4. /\ WholeIssue(i)' = WholeIssue(i) /\ WholeIssue(i) \in Nat /\ Upto[LastStage] \in Nat /\ i # 0
      /\ IssueLeft(s) \in Nat
  BY <1>1, <1>2, OverNumbers DEF WholeIssue
<1>5. s.ins = i => Upto[LastStage] + IssueLeft(s) <= t
  BY <1>1, <1>2 DEF OverIn
<1>6. s.batch < s.count
  BY <1>1, <1>2 DEF Pipelined, PipelineOK
<1>7. ASSUME NEW h \in Groups, NEW o \in Pipelines, ipu'[h][o].ins = i
      PROVE  /\ ipu'[h][o].at = "macros" => Upto[LastStage] + WholeIssue(i) <= t
             /\ ipu'[h][o].at = "ipu" => Upto[LastStage] + IssueLeft(ipu'[h][o]) <= t
  <2>1. CASE ipu'[h][o] = ipu[h][o]
    BY <1>7, <2>1 DEF OverIn
  <2>2. CASE h = g /\ o = n
    <3>1. s.batch # s.count - 1
      BY <1>2, <1>4, <1>7, <2>2, KindFacts
    <3>2. PICK then : then = [s EXCEPT !.batch = @ + 1, !.left = IpuLatency]
      OBVIOUS
    <3>3. IssueLeft(then) = IssueLeft(s)
      BY <1>2, <1>6, <3>1, <3>2, IssuingFacts
    <3>4. then.at = "ipu" /\ then.ins = s.ins
      <4>1. s \in [ins : Id, at : {"ipu"}, batch : Nat, count : Nat, left : Nat]
        BY <1>2, <1>6, IssuingFacts
      <4>2. QED
        BY <3>2, <4>1
    <3>5. ipu'[h][o] = then
      BY <1>2, <2>2, <3>1, <3>2
    <3>6. QED
      BY <1>5, <1>7, <3>3, <3>4, <3>5
  <2>3. QED
    BY <1>3, <2>1, <2>2
<1>8. ASSUME NEW h \in Groups, NEW o \in Pipelines, NEW k \in Stages, stage'[h][o][k].ins = i
      PROVE  Upto[LastStage] - Since(k, stage'[h][o][k]) <= t
  <2>1. CASE stage'[h][o][k] = stage[h][o][k]
    BY <1>8, <2>1 DEF OverIn
  <2>2. CASE h = g /\ o = n /\ k = 1
    <3>1. stage'[g][n][1] \in StageType
      <4>1. IInv'
        BY IssueBatchOK
      <4>2. QED
        BY <2>2, <4>1 DEF IInv, GroupTypes
    <3>2. Since(1, stage'[g][n][1]) = 0
      BY <1>2, <2>2, <3>1, SinceFacts
    <3>3. QED
      BY <1>2, <1>4, <1>5, <1>8, <2>2, <3>2
  <2>3. QED
    BY <1>3, <2>1, <2>2
<1>9. QED
  BY <1>4, <1>7, <1>8 DEF OverIn, IssueLeft, Since

LEMMA OverNext ==
  ASSUME IInv, Pipelined, UNCHANGED program, NEW g \in Groups, NEW n \in Pipelines,
         NEW k \in Stages, NextStage(g, n, k),
         NEW i \in TakenBy("cim_compute"), NEW t \in Int, OverIn(i, t)
  PROVE  OverIn(i, t)'
<1>1. /\ UNCHANGED ipu /\ k + 1 \in Stages
      /\ stage[g][n][k] # Idle /\ stage[g][n][k].left = 0 /\ stage'[g][n][k] = Idle
  BY NextFacts
<1>2. \A h \in Groups : \A o \in Pipelines : \A j \in Stages :
        (h = g /\ o = n /\ j \in {k, k + 1}) \/ stage'[h][o][j] = stage[h][o][j]
  BY NextFacts
<1>3. \/ /\ stage'[g][n][k + 1] # Idle /\ stage'[g][n][k + 1].ins = stage[g][n][k].ins
         /\ stage'[g][n][k + 1].left = StageLatency[k + 1]
      \/ stage'[g][n][k + 1] = stage[g][n][k + 1]
  BY NextFacts
<1>4. WholeIssue(i)' = WholeIssue(i) /\ i # 0
  BY OverNumbers DEF WholeIssue
<1>5. ASSUME NEW h \in Groups, NEW o \in Pipelines, NEW j \in Stages, stage'[h][o][j].ins = i
      PROVE  Upto[LastStage] - Since(j, stage'[h][o][j]) <= t
  <2>1. CASE stage'[h][o][j] = stage[h][o][j]
    BY <1>5, <2>1 DEF OverIn
  <2>2. CASE stage'[h][o][j] # stage[h][o][j]
    <3>1. j = k + 1 /\ h = g /\ o = n
      BY <1>1, <1>2, <1>4, <1>5, <2>2, KindFacts
    <3>2. PICK b \in StageType, c \in StageType : b = stage[g][n][k] /\ c = stage'[h][o][j]
      <4>1. IInv'
        BY NextStageOK
      <4>2. QED
        BY <4>1 DEF IInv, GroupTypes
    <3>3. c # Idle /\ c.ins = b.ins /\ c.left = StageLatency[k + 1] /\ b # Idle /\ b.left = 0
      BY <1>1, <1>3, <2>2, <3>1, <3>2
    <3>4. Since(k + 1, c) = Since(k, b)
      BY <1>1, <3>3, SinceFacts
    <3>5. Upto[LastStage] - Since(k, b) <= t
      BY <1>5, <3>2, <3>3 DEF OverIn
    <3>6. QED
      BY <3>1, <3>2, <3>4, <3>5
  <2>3. QED
    BY <2>1, <2>2
<1>6. \A h \in Groups : \A o \in Pipelines : ipu'[h][o].ins = i =>
        /\ ipu'[h][o].at = "macros" => Upto[LastStage] + WholeIssue(i) <= t
        /\ ipu'[h][o].at = "ipu" => Upto[LastStage] + IssueLeft(ipu'[h][o]) <= t
  BY <1>1 DEF OverIn
<1>7. QED
  BY <1>4, <1>5, <1>6 DEF OverIn, IssueLeft, Since

LEMMA OverEnd ==
  ASSUME IInv, Pipelined, UNCHANGED program, NEW g \in Groups, NEW n \in Pipelines, EndStage(g, n),
         NEW i \in TakenBy("cim_compute"), NEW t \in Int, OverIn(i, t)
  PROVE  OverIn(i, t)'
<1>1. /\ UNCHANGED ipu
      /\ \A h \in Groups : \A o \in Pipelines : \A j \in Stages :
           stage'[h][o][j] = Idle \/ stage'[h][o][j] = stage[h][o][j]
  BY EndFacts
<1>2. WholeIssue(i)' = WholeIssue(i) /\ i # 0
  BY OverNumbers, PipelineFacts DEF WholeIssue
<1>3. \A h \in Groups : \A o \in Pipelines : \A j \in Stages :
        stage'[h][o][j].ins = i => stage'[h][o][j] = stage[h][o][j]
  BY <1>1, <1>2, KindFacts
<1>4. \A h \in Groups : \A o \in Pipelines : \A j \in Stages :
        stage'[h][o][j].ins = i => Upto[LastStage] - Since(j, stage'[h][o][j]) <= t
  BY <1>3 DEF OverIn
<1>5. \A h \in Groups : \A o \in Pipelines : ipu'[h][o].ins = i =>
        /\ ipu'[h][o].at = "macros" => Upto[LastStage] + WholeIssue(i) <= t
        /\ ipu'[h][o].at = "ipu" => Upto[LastStage] + IssueLeft(ipu'[h][o]) <= t
  BY <1>1 DEF OverIn
<1>6. QED
  BY <1>2, <1>4, <1>5 DEF OverIn, IssueLeft, Since

\* A cycle is one off what is left of an instruction.
LEMMA OverTick ==
  ASSUME IInv, Pipelined, StagesInTime, Tick, UNCHANGED program,
         NEW i \in TakenBy("cim_compute"), NEW t \in Int, OverIn(i, t), NEW u \in Int, t - 1 <= u
  PROVE  OverIn(i, u)'
<1>1. WholeIssue(i)' = WholeIssue(i) /\ Upto[LastStage] \in Nat
  <2>1. 0 \in Groups /\ 0 \in Pipelines
    BY GroupFacts, PipelineFacts
  <2>2. QED
    BY <2>1, OverNumbers DEF WholeIssue
<1>2. ASSUME NEW g \in Groups, NEW n \in Pipelines, ipu'[g][n].ins = i
      PROVE  /\ ipu'[g][n].at # "macros"
             /\ ipu'[g][n].at = "ipu" => Upto[LastStage] + IssueLeft(ipu'[g][n]) <= u
  <2>1. /\ ipu[g][n].at # "macros" /\ ipu'[g][n].at = ipu[g][n].at
        /\ ipu[g][n].at = "ipu" =>
             ipu[g][n].left # 0 /\ ipu'[g][n] = [ipu[g][n] EXCEPT !.left = ipu[g][n].left - 1]
    BY TickAges
  <2>2. ipu[g][n].ins = i
    BY <1>2, TickFacts
  <2>3. ASSUME ipu[g][n].at = "ipu"
        PROVE  Upto[LastStage] + IssueLeft(ipu'[g][n]) <= u
    <3>1. PICK s \in IpuType : s = ipu[g][n]
      BY DEF IInv, GroupTypes
    <3>2. s.batch < s.count
      BY <2>3, <3>1 DEF Pipelined, PipelineOK
    <3>3. IssueLeft(ipu'[g][n]) = IssueLeft(s) - 1 /\ IssueLeft(s) \in Nat
      BY <2>1, <2>3, <3>1, <3>2, IssuingFacts
    <3>4. Upto[LastStage] + IssueLeft(s) <= t
      BY <2>2, <2>3, <3>1 DEF OverIn
    <3>5. QED
      BY <1>1, <3>3, <3>4
  <2>4. QED
    BY <2>1, <2>3
<1>3. ASSUME NEW g \in Groups, NEW n \in Pipelines, NEW k \in Stages, stage'[g][n][k].ins = i
      PROVE  Upto[LastStage] - Since(k, stage'[g][n][k]) <= u
  <2>1. PICK b \in StageType, c \in StageType : b = stage[g][n][k] /\ c = stage'[g][n][k]
    <3>1. IInv'
      BY TickOK
    <3>2. QED
      BY <3>1 DEF IInv, GroupTypes
  <2>2. (c = Idle <=> b = Idle) /\ c.ins = b.ins
    BY <2>1, TickFacts
  <2>3. b # Idle
    <3>1. i # 0
      BY OverNumbers
    <3>2. QED
      BY <1>3, <2>1, <2>2, <3>1, KindFacts
  <2>4. b.left # 0 /\ c.left = b.left - 1
    BY <2>1, <2>3, TickAges
  <2>5. Since(k, c) = Since(k, b) + 1 /\ Since(k, b) \in Int
    BY <2>2, <2>3, <2>4, SinceFacts
  <2>6. Upto[LastStage] - Since(k, b) <= t
    BY <1>3, <2>1, <2>2 DEF OverIn
  <2>7. QED
    BY <1>1, <2>1, <2>5, <2>6
<1>4. QED
  BY <1>1, <1>2, <1>3 DEF OverIn, IssueLeft, Since

\* A group is given its part of an instruction that is not finished.
LEMMA OverRun ==
  ASSUME IInv, Pipelined, RunMacroGroup, UNCHANGED program,
         NEW i \in TakenBy("cim_compute"), NEW t \in Int, OverIn(i, t),
         i = sub.ins => Upto[LastStage] + WholeIssue(i) <= t
  PROVE  OverIn(i, t)'
<1>1. /\ UNCHANGED stage /\ ipu'[sub.group][0].ins = sub.ins /\ ipu'[sub.group][0].at = "macros"
      /\ \A g \in Groups : \A n \in Pipelines :
           (g = sub.group /\ n = 0) \/ ipu'[g][n] = ipu[g][n]
  BY RunFacts
<1>2. WholeIssue(i)' = WholeIssue(i)
  BY DEF WholeIssue
<1>3. ASSUME NEW g \in Groups, NEW n \in Pipelines, ipu'[g][n].ins = i
      PROVE  /\ ipu'[g][n].at = "macros" => Upto[LastStage] + WholeIssue(i) <= t
             /\ ipu'[g][n].at = "ipu" => Upto[LastStage] + IssueLeft(ipu'[g][n]) <= t
  <2>1. CASE ipu'[g][n] = ipu[g][n]
    BY <1>3, <2>1 DEF OverIn
  <2>2. CASE g = sub.group /\ n = 0
    BY <1>1, <1>3, <2>2
  <2>3. QED
    BY <1>1, <2>1, <2>2
<1>4. \A g \in Groups : \A n \in Pipelines : \A k \in Stages :
        stage'[g][n][k].ins = i => Upto[LastStage] - Since(k, stage'[g][n][k]) <= t
  BY <1>1 DEF OverIn
<1>5. QED
  BY <1>2, <1>3, <1>4 DEF OverIn, IssueLeft, Since

\* The times after a step.
LEMMA NextNumbers ==
  ASSUME IInv, Pipelined, StagesInTime, [Next]_vars, NEW g \in Groups, NEW n \in Pipelines
  PROVE  /\ Upto[LastStage] \in Nat
         /\ ipu'[g][n].at = "ipu" => IssueLeft(ipu'[g][n]) \in Nat
         /\ \A k \in Stages : stage'[g][n][k] # Idle => Since(k, stage'[g][n][k]) \in Int
<1>1. IInv' /\ PipelineOK(ipu'[g][n], stage'[g][n])
  BY NextOK, LinesStep
<1>2. PICK s \in IpuType : s = ipu'[g][n]
  BY <1>1 DEF IInv, GroupTypes
<1>3. s.at = "ipu" => s.batch < s.count
  BY <1>1, <1>2 DEF PipelineOK
<1>4. ipu'[g][n].at = "ipu" => IssueLeft(ipu'[g][n]) \in Nat
  BY <1>2, <1>3, IssuingFacts
<1>5. ASSUME NEW k \in Stages, stage'[g][n][k] # Idle
      PROVE  Since(k, stage'[g][n][k]) \in Int
  <2>1. stage'[g][n][k] \in StageType
    BY <1>1 DEF IInv, GroupTypes
  <2>2. QED
    BY <1>5, <2>1, SinceFacts
<1>6. QED
  BY <1>4, <1>5, OverNumbers

\* It goes on to hold of an instruction of which nothing takes longer than it did.
LEMMA IsOverKept ==
  ASSUME IInv, Pipelined, StagesInTime, [Next]_vars,
         NEW i \in TakenBy("cim_compute"), IsOverInLast(i),
         \A t \in Int : OverIn(i, t) => OverIn(i, t)',
         i \in finished' => i \in finished \/ OverIn(i, 0),
         \A g \in Groups :
           LastGroup(g, i) =>
             /\ ipu'[g][0].ins = i /\ ipu'[g][0].at = "ipu" =>
                  OverIn(i, Upto[LastStage] + IssueLeft(ipu'[g][0]))
             /\ \A k \in Stages :
                  stage'[g][0][k].ins = i /\ stage'[g][0][k].last =>
                    OverIn(i, Upto[LastStage] - Since(k, stage'[g][0][k]))
  PROVE  IsOverInLast(i)'
<1>1. WholeIssue(i)' = WholeIssue(i) /\ \A g : LastGroup(g, i)' <=> LastGroup(g, i)
  BY Steps DEF WholeIssue, LastGroup, GroupCnt
<1>2. WholeIssue(i) \in Nat /\ Upto[LastStage] \in Nat /\ i # 0
  <2>1. 0 \in Groups /\ 0 \in Pipelines
    BY GroupFacts, PipelineFacts
  <2>2. QED
    BY <2>1, OverNumbers
<1>3. OverIn(i, Upto[LastStage] + WholeIssue(i))'
  <2>1. PICK t \in Int : t = Upto[LastStage] + WholeIssue(i)
    BY <1>2
  <2>2. OverIn(i, t)
    BY <2>1 DEF IsOverInLast
  <2>3. t = Upto[LastStage] + WholeIssue(i)' /\ OverIn(i, t)'
    BY <1>1, <2>1, <2>2
  <2>4. QED
    BY <2>3
<1>4. i \in finished' => OverIn(i, 0)'
  <2>1. 0 \in Int /\ (i \in finished => OverIn(i, 0))
    BY DEF IsOverInLast
  <2>2. QED
    BY <2>1
<1>5. ASSUME NEW g \in Groups, LastGroup(g, i), ipu'[g][0].ins = i, ipu'[g][0].at = "ipu"
      PROVE  OverIn(i, Upto[LastStage] + IssueLeft(ipu[g][0]))'
  <2>1. PICK t \in Int : t = Upto[LastStage] + IssueLeft(ipu'[g][0])
    BY <1>2, <1>5, NextNumbers, PipelineFacts
  <2>2. OverIn(i, t)
    BY <1>5, <2>1
  <2>3. OverIn(i, t)'
    BY <2>2
  <2>4. QED
    BY <2>1, <2>3
<1>6. ASSUME NEW g \in Groups, LastGroup(g, i), NEW k \in Stages,
             stage'[g][0][k].ins = i, stage'[g][0][k].last
      PROVE  OverIn(i, Upto[LastStage] - Since(k, stage[g][0][k]))'
  <2>1. PICK t \in Int : t = Upto[LastStage] - Since(k, stage'[g][0][k])
    <3>1. stage'[g][0][k] # Idle
      BY <1>2, <1>6, KindFacts
    <3>2. QED
      BY <1>2, <3>1, NextNumbers, PipelineFacts
  <2>2. OverIn(i, t)
    BY <1>6, <2>1
  <2>3. OverIn(i, t)'
    BY <2>2
  <2>4. t = Upto[LastStage] - Since(k, stage[g][0][k])'
    BY <2>1 DEF Since
  <2>5. QED
    BY <2>3, <2>4
<1>7. QED
  BY <1>1, <1>3, <1>4, <1>5, <1>6 DEF IsOverInLast

-----------------------------------------------------------------------------
(***************************************************************************)
(* The last batch of the last group goes on being the last of all.         *)
(***************************************************************************)
LEMMA LastOverMacro ==
  ASSUME IInv, Pipelined, StagesInTime, LastIsOver, UNCHANGED program, NEW g \in Groups, StartMacro(g)
  PROVE  LastIsOver'
<1>1. [Next]_vars
  BY DEF Next, Instant, MacroGroup
<1>2. PICK m \in Macros, j \in TakenBy("cim_compute"), width \in Nat \ {0} :
        /\ UNCHANGED <<next_ins, finished, stage>>
        /\ j \in Id /\ width = program[j].input_bit_width
        /\ ipu[g][0].at = "macros" /\ m # 0
        /\ \/ ipu'[g][0].at = "macros" /\ ipu'[g][0].macro = m + 1 /\ ipu'[g][0].ins = j
           \/ ipu'[g][0] = Batches(j, width)
        /\ \A a \in Groups : \A b \in Pipelines : (a = g /\ b \in {0, m}) \/ ipu'[a][b] = ipu[a][b]
  BY StartMacroFacts
<1>3. \A h \in Groups : h = g \/ ipu'[h][0] = ipu[h][0]
  BY <1>2, PipelineFacts
<1>4. Batches(j, width).ins = j /\ IssueLeft(Batches(j, width)) = WholeIssue(j)
  <2>1. width \in 1 .. width
    OBVIOUS
  <2>2. QED
    BY <1>2, <2>1, BatchesFacts DEF Batches, WholeIssue
<1>5. TakenBy("cim_compute")' = TakenBy("cim_compute")
  BY <1>2, SameTypes
<1>6. ASSUME NEW i \in TakenBy("cim_compute")
      PROVE  IsOverInLast(i)'
  <2>1. IsOverInLast(i)
    BY DEF LastIsOver
  <2>2. \A t \in Int : OverIn(i, t) => OverIn(i, t)'
    BY OverMacro
  <2>3. ASSUME NEW h \in Groups, LastGroup(h, i), ipu'[h][0].ins = i, ipu'[h][0].at = "ipu"
        PROVE  OverIn(i, Upto[LastStage] + IssueLeft(ipu'[h][0]))
    <3>1. CASE ipu'[h][0] = ipu[h][0]
      BY <2>1, <2>3, <3>1 DEF IsOverInLast
    <3>2. CASE h = g
      <4>1. ipu'[h][0] = Batches(j, width) /\ i = j
        BY <1>2, <1>4, <2>3, <3>2
      <4>2. IssueLeft(ipu'[h][0]) = WholeIssue(i)
        BY <1>4, <4>1
      <4>3. QED
        BY <2>1, <4>2 DEF IsOverInLast
    <3>3. QED
      BY <1>3, <3>1, <3>2
  <2>4. \A h \in Groups : LastGroup(h, i) => \A k \in Stages :
          stage'[h][0][k].ins = i /\ stage'[h][0][k].last =>
            OverIn(i, Upto[LastStage] - Since(k, stage'[h][0][k]))
    BY <1>2, <2>1 DEF IsOverInLast
  <2>5. i \in finished' => i \in finished
    BY <1>2
  <2>6. QED
    BY <1>1, <2>1, <2>2, <2>3, <2>4, <2>5, IsOverKept
<1>7. QED
  BY <1>5, <1>6 DEF LastIsOver

LEMMA LastOverIssue ==
  ASSUME IInv, Pipelined, StagesInTime, LastIsOver, UNCHANGED program,
         NEW g \in Groups, NEW n \in Pipelines, IssueBatch(g, n)
  PROVE  LastIsOver'
<1>1. [Next]_vars
  BY DEF Next, Instant, MacroGroup
<1>2. PICK s \in IpuType : s = ipu[g][n]
  BY DEF IInv, GroupTypes
<1>3. /\ UNCHANGED <<next_ins, finished>> /\ s.at = "ipu" /\ s.left = 0
      /\ stage'[g][n][1] # Idle /\ stage'[g][n][1].ins = s.ins /\ stage'[g][n][1].left = StageLatency[1]
      /\ stage'[g][n][1].last = (s.batch = s.count - 1)
      /\ ipu'[g][n] = IF s.batch = s.count - 1 THEN Idle
                      ELSE [s EXCEPT !.batch = @ + 1, !.left = IpuLatency]
  BY <1>2, IssueFacts
<1>4. /\ \A h \in Groups : \A o \in Pipelines : (h = g /\ o = n) \/ ipu'[h][o] = ipu[h][o]
      /\ \A h \in Groups : \A o \in Pipelines : \A k \in Stages :
           (h = g /\ o = n /\ k = 1) \/ stage'[h][o][k] = stage[h][o][k]
  BY IssueFacts
<1>5. s.batch < s.count
  BY <1>2, <1>3 DEF Pipelined, PipelineOK
<1>6. TakenBy("cim_compute")' = TakenBy("cim_compute")
  BY <1>3, SameTypes
<1>7. ASSUME NEW i \in TakenBy("cim_compute")
      PROVE  IsOverInLast(i)'
  <2>1. IsOverInLast(i) /\ i # 0 /\ Upto[LastStage] \in Nat
    BY OverNumbers DEF LastIsOver
  <2>2. \A t \in Int : OverIn(i, t) => OverIn(i, t)'
    BY OverIssue
  <2>3. ASSUME NEW h \in Groups, LastGroup(h, i), ipu'[h][0].ins = i, ipu'[h][0].at = "ipu"
        PROVE  OverIn(i, Upto[LastStage] + IssueLeft(ipu'[h][0]))
    <3>1. CASE ipu'[h][0] = ipu[h][0]
      BY <2>1, <2>3, <3>1 DEF IsOverInLast
    <3>2. CASE h = g /\ n = 0
      <4>1. s.batch # s.count - 1
        BY <1>3, <2>1, <2>3, <3>2, KindFacts
      <4>2. PICK then : then = [s EXCEPT !.batch = @ + 1, !.left = IpuLatency]
        OBVIOUS
      <4>3. IssueLeft(then) = IssueLeft(s)
        BY <1>3, <1>5, <4>1, <4>2, IssuingFacts
      <4>4. then.ins = s.ins
        <5>1. s \in [ins : Id, at : {"ipu"}, batch : Nat, count : Nat, left : Nat]
          BY <1>3, <1>5, IssuingFacts
        <5>2. QED
          BY <4>2, <5>1
      <4>5. ipu'[h][0] = then
        BY <1>3, <3>2, <4>1, <4>2
      <4>6. s.ins = i /\ s = ipu[h][0]
        BY <1>2, <2>3, <3>2, <4>4, <4>5
      <4>7. OverIn(i, Upto[LastStage] + IssueLeft(s))
        BY <1>3, <2>1, <2>3, <4>6 DEF IsOverInLast
      <4>8. QED
        BY <4>3, <4>5, <4>7
    <3>3. QED
      BY <1>4, <3>1, <3>2, PipelineFacts
  <2>4. ASSUME NEW h \in Groups, LastGroup(h, i), NEW k \in Stages,
               stage'[h][0][k].ins = i, stage'[h][0][k].last
        PROVE  OverIn(i, Upto[LastStage] - Since(k, stage'[h][0][k]))
    <3>1. CASE stage'[h][0][k] = stage[h][0][k]
      BY <2>1, <2>4, <3>1 DEF IsOverInLast
    <3>2. CASE h = g /\ n = 0 /\ k = 1
      <4>1. s.ins = i /\ s = ipu[h][0] /\ s.batch = s.count - 1
        BY <1>2, <1>3, <2>4, <3>2
      <4>2. OverIn(i, Upto[LastStage] + IssueLeft(s))
        BY <1>3, <2>1, <2>4, <4>1 DEF IsOverInLast
      <4>3. IssueLeft(s) = 0
        BY <1>3, <1>5, <4>1, IssuingFacts
      <4>4. stage'[h][0][k] \in StageType
        <5>1. IInv'
          BY IssueBatchOK
        <5>2. QED
          BY <3>2, <5>1 DEF IInv, GroupTypes
      <4>5. Since(k, stage'[h][0][k]) = 0
        BY <1>3, <3>2, <4>4, SinceFacts
      <4>6. Upto[LastStage] - Since(k, stage'[h][0][k]) = Upto[LastStage] + IssueLeft(s)
        BY <2>1, <4>3, <4>5
      <4>7. QED
        BY <4>2, <4>6
    <3>3. QED
      BY <1>4, <3>1, <3>2, PipelineFacts
  <2>5. i \in finished' => i \in finished
    BY <1>3
  <2>6. QED
    BY <1>1, <2>1, <2>2, <2>3, <2>4, <2>5, IsOverKept
<1>8. QED
  BY <1>6, <1>7 DEF LastIsOver

LEMMA LastOverNext ==
  ASSUME IInv, Pipelined, StagesInTime, LastIsOver, UNCHANGED program,
         NEW g \in Groups, NEW n \in Pipelines, NEW k \in Stages, NextStage(g, n, k)
  PROVE  LastIsOver'
<1>1. [Next]_vars
  BY DEF Next, Instant, MacroGroup
<1>2. /\ UNCHANGED <<next_ins, finished, ipu>> /\ k + 1 \in Stages
      /\ stage[g][n][k] # Idle /\ stage[g][n][k].left = 0 /\ stage'[g][n][k] = Idle
  BY NextFacts
<1>3. \A h \in Groups : \A o \in Pipelines : \A j \in Stages :
        (h = g /\ o = n /\ j \in {k, k + 1}) \/ stage'[h][o][j] = stage[h][o][j]
  BY NextFacts
<1>4. \/ /\ stage'[g][n][k + 1] # Idle /\ stage'[g][n][k + 1].ins = stage[g][n][k].ins
         /\ stage'[g][n][k + 1].last = stage[g][n][k].last
         /\ stage'[g][n][k + 1].left = StageLatency[k + 1]
      \/ stage'[g][n][k + 1] = stage[g][n][k + 1]
  BY NextFacts
<1>5. TakenBy("cim_compute")' = TakenBy("cim_compute")
  BY <1>2, SameTypes
<1>6. ASSUME NEW i \in TakenBy("cim_compute")
      PROVE  IsOverInLast(i)'
  <2>1. IsOverInLast(i) /\ i # 0
    BY OverNumbers DEF LastIsOver
  <2>2. \A t \in Int : OverIn(i, t) => OverIn(i, t)'
    BY OverNext
  <2>3. \A h \in Groups : LastGroup(h, i) =>
          (ipu'[h][0].ins = i /\ ipu'[h][0].at = "ipu" =>
             OverIn(i, Upto[LastStage] + IssueLeft(ipu'[h][0])))
    BY <1>2, <2>1 DEF IsOverInLast
  <2>4. ASSUME NEW h \in Groups, LastGroup(h, i), NEW j \in Stages,
               stage'[h][0][j].ins = i, stage'[h][0][j].last
        PROVE  OverIn(i, Upto[LastStage] - Since(j, stage'[h][0][j]))
    <3>1. CASE stage'[h][0][j] = stage[h][0][j]
      BY <2>1, <2>4, <3>1 DEF IsOverInLast
    <3>2. CASE stage'[h][0][j] # stage[h][0][j]
      <4>1. j = k + 1 /\ h = g /\ n = 0
        BY <1>2, <1>3, <2>1, <2>4, <3>2, KindFacts, PipelineFacts
      <4>2. PICK b \in StageType, c \in StageType : b = stage[g][n][k] /\ c = stage'[h][0][j]
        <5>1. IInv'
          BY NextStageOK
        <5>2. QED
          BY <4>1, <5>1 DEF IInv, GroupTypes
      <4>3. /\ c # Idle /\ c.ins = b.ins /\ c.last = b.last /\ c.left = StageLatency[k + 1]
            /\ b # Idle /\ b.left = 0
        BY <1>2, <1>4, <3>2, <4>1, <4>2
      <4>4. Since(k + 1, c) = Since(k, b)
        BY <1>2, <4>3, SinceFacts
      <4>5. b.ins = i /\ b.last /\ b = stage[h][0][k]
        BY <2>4, <4>1, <4>2, <4>3
      <4>6. OverIn(i, Upto[LastStage] - Since(k, b))
        BY <2>1, <2>4, <4>5 DEF IsOverInLast
      <4>7. QED
        BY <4>1, <4>2, <4>4, <4>6
    <3>3. QED
      BY <3>1, <3>2
  <2>5. i \in finished' => i \in finished
    BY <1>2
  <2>6. QED
    BY <1>1, <2>1, <2>2, <2>3, <2>4, <2>5, IsOverKept
<1>7. QED
  BY <1>5, <1>6 DEF LastIsOver

LEMMA LastOverEnd ==
  ASSUME IInv, Pipelined, StagesInTime, LastIsOver, UNCHANGED program,
         NEW g \in Groups, NEW n \in Pipelines, EndStage(g, n)
  PROVE  LastIsOver'
<1>1. [Next]_vars
  BY DEF Next, Instant, MacroGroup
<1>2. PICK s \in StageType : s = stage[g][n][LastStage]
  <2>1. LastStage \in Stages
    BY EndFacts
  <2>2. QED
    BY <2>1 DEF IInv, GroupTypes
<1>3. /\ UNCHANGED <<next_ins, ipu>> /\ LastStage \in Stages
      /\ s # Idle /\ s.left = 0
      /\ finished' = IF n = 0 /\ LastGroup(g, s.ins) THEN finished \cup {s.ins} ELSE finished
  BY <1>2, EndFacts
<1>4. \A h \in Groups : \A o \in Pipelines : \A j \in Stages :
        stage'[h][o][j] = Idle \/ stage'[h][o][j] = stage[h][o][j]
  BY EndFacts
<1>5. TakenBy("cim_compute")' = TakenBy("cim_compute")
  BY <1>3, SameTypes
<1>6. ASSUME NEW i \in TakenBy("cim_compute")
      PROVE  IsOverInLast(i)'
  <2>1. IsOverInLast(i) /\ i # 0 /\ Upto[LastStage] \in Nat
    BY OverNumbers DEF LastIsOver
  <2>2. \A t \in Int : OverIn(i, t) => OverIn(i, t)'
    BY OverEnd
  <2>3. \A h \in Groups : LastGroup(h, i) =>
          (ipu'[h][0].ins = i /\ ipu'[h][0].at = "ipu" =>
             OverIn(i, Upto[LastStage] + IssueLeft(ipu'[h][0])))
    BY <1>3, <2>1 DEF IsOverInLast
  <2>4. ASSUME NEW h \in Groups, LastGroup(h, i), NEW j \in Stages,
               stage'[h][0][j].ins = i, stage'[h][0][j].last
        PROVE  OverIn(i, Upto[LastStage] - Since(j, stage'[h][0][j]))
    <3>1. stage'[h][0][j] = stage[h][0][j]
      BY <1>4, <2>1, <2>4, KindFacts, PipelineFacts
    <3>2. QED
      BY <2>1, <2>4, <3>1 DEF IsOverInLast
  <2>5. ASSUME i \in finished', i \notin finished
        PROVE  OverIn(i, 0)
    <3>1. n = 0 /\ LastGroup(g, i) /\ s.ins = i
      BY <1>3, <2>5
    <3>2. s.last
      <4>1. LastStage > ShiftAdder
        BY StageFacts DEF LastStage
      <4>2. QED
        BY <1>2, <1>3, <3>1, <4>1 DEF IInv, Released
    <3>3. OverIn(i, Upto[LastStage] - Since(LastStage, s))
      BY <1>2, <1>3, <2>1, <3>1, <3>2 DEF IsOverInLast
    <3>4. Upto[LastStage] - Since(LastStage, s) = 0
      BY <1>3, <2>1 DEF Since
    <3>5. QED
      BY <3>3, <3>4
  <2>6. QED
    BY <1>1, <2>1, <2>2, <2>3, <2>4, <2>5, IsOverKept
<1>7. QED
  BY <1>5, <1>6 DEF LastIsOver

LEMMA LastOverRun ==
  ASSUME IInv, Pipelined, StagesInTime, LastIsOver, UNCHANGED program, RunMacroGroup
  PROVE  LastIsOver'
<1>1. [Next]_vars
  BY DEF Next, Instant
<1>2. /\ UNCHANGED <<next_ins, finished, stage>> /\ sub.ins \in booked
      /\ sub.ins \in TakenBy("cim_compute")
      /\ ipu'[sub.group][0].ins = sub.ins /\ ipu'[sub.group][0].at = "macros"
      /\ \A g \in Groups : \A n \in Pipelines : (g = sub.group /\ n = 0) \/ ipu'[g][n] = ipu[g][n]
  BY RunFacts
<1>3. \A g \in Groups : ipu'[g][0].at = "ipu" => ipu'[g][0] = ipu[g][0]
  BY <1>2, PipelineFacts
<1>4. TakenBy("cim_compute")' = TakenBy("cim_compute")
  BY <1>2, SameTypes
<1>5. \A g \in Groups : LastGroup(g, sub.ins) => ~ Given(g)
  <2>1. /\ sub.at = "run" /\ sub # Idle /\ sub.group \in Nat /\ sub.group < GroupCnt(sub.ins)
        /\ FrontTypes
    <3>1. sub.at = "run"
      BY DEF RunMacroGroup
    <3>2. QED
      BY <3>1, KindFacts DEF IInv, SubTypes
  <2>2. GroupCnt(sub.ins) \in Nat
    BY <1>2, <2>1, TakenFacts, GroupCntFacts
  <2>3. QED
    BY <2>1, <2>2 DEF Given, LastGroup
<1>6. ASSUME NEW i \in TakenBy("cim_compute")
      PROVE  IsOverInLast(i)'
  <2>1. IsOverInLast(i) /\ i # 0
    <3>1. 0 \in Groups /\ 0 \in Pipelines
      BY GroupFacts, PipelineFacts
    <3>2. QED
      BY <3>1, OverNumbers DEF LastIsOver
  <2>2. CASE i = sub.ins
    <3>1. ASSUME NEW g \in Groups, LastGroup(g, i)
          PROVE  /\ ~ (ipu'[g][0].ins = i /\ ipu'[g][0].at = "ipu")
                 /\ \A k \in Stages : stage'[g][0][k].ins # i
      <4>1. ~ Given(g)
        BY <1>5, <2>2, <3>1
      <4>2. \A s \in IpuType : s.ins = i => s # Idle
        BY <2>1, KindFacts
      <4>3. ipu[g][0].ins # i
        BY <2>1, <2>2, <4>1, KindFacts DEF IInv, InLine
      <4>4. \A k \in Stages : stage[g][0][k].ins # i
        BY <2>1, <2>2, <4>1, KindFacts DEF IInv, InLine
      <4>5. QED
        BY <1>2, <1>3, <4>3, <4>4
    <3>2. i \notin finished' /\ i \notin finished
      BY <1>2, <2>2 DEF IInv, Released
    <3>3. OverIn(i, Upto[LastStage] + WholeIssue(i))'
      <4>1. Upto[LastStage] \in Nat /\ WholeIssue(i) \in Nat
        <5>1. 0 \in Groups /\ 0 \in Pipelines
          BY GroupFacts, PipelineFacts
        <5>2. QED
          BY <5>1, OverNumbers
      <4>2. PICK t \in Int : t = Upto[LastStage] + WholeIssue(i)
        BY <4>1
      <4>3. OverIn(i, t) /\ Upto[LastStage] + WholeIssue(i) <= t
        BY <2>1, <4>1, <4>2 DEF IsOverInLast
      <4>4. OverIn(i, t)'
        BY <4>3, OverRun
      <4>5. t = Upto[LastStage] + WholeIssue(i)'
        BY <4>2 DEF WholeIssue
      <4>6. QED
        BY <4>4, <4>5
    <3>4. \A g : LastGroup(g, i)' <=> LastGroup(g, i)
      BY <1>2, SameTypes
    <3>5. QED
      BY <3>1, <3>2, <3>3, <3>4 DEF IsOverInLast
  <2>3. CASE i # sub.ins
    <3>1. \A t \in Int : OverIn(i, t) => OverIn(i, t)'
      BY <2>3, OverRun
    <3>2. \A g \in Groups :
            LastGroup(g, i) =>
              /\ ipu'[g][0].ins = i /\ ipu'[g][0].at = "ipu" =>
                   OverIn(i, Upto[LastStage] + IssueLeft(ipu'[g][0]))
              /\ \A k \in Stages :
                   stage'[g][0][k].ins = i /\ stage'[g][0][k].last =>
                     OverIn(i, Upto[LastStage] - Since(k, stage'[g][0][k]))
      BY <1>2, <1>3, <2>1 DEF IsOverInLast
    <3>3. i \in finished' => i \in finished
      BY <1>2
    <3>4. QED
      BY <1>1, <2>1, <3>1, <3>2, <3>3, IsOverKept
  <2>4. QED
    BY <2>2, <2>3
<1>7. QED
  BY <1>4, <1>6 DEF LastIsOver

\* It holds of what the groups do not touch.
LEMMA IsOverSame ==
  ASSUME UNCHANGED <<program, ipu, stage>>, NEW i, i \in finished' => i \in finished, IsOverInLast(i)
  PROVE  IsOverInLast(i)'
<1>1. WholeIssue(i)' = WholeIssue(i) /\ \A g : LastGroup(g, i)' <=> LastGroup(g, i)
  BY DEF WholeIssue, LastGroup, GroupCnt
<1>2. ASSUME NEW t, OverIn(i, t)
      PROVE  OverIn(i, t)'
  BY <1>1, <1>2 DEF OverIn, IssueLeft, Since
<1>3. OverIn(i, Upto[LastStage] + WholeIssue(i))'
  <2>1. PICK t : t = Upto[LastStage] + WholeIssue(i)
    OBVIOUS
  <2>2. OverIn(i, t)' /\ t = Upto[LastStage] + WholeIssue(i)'
    BY <1>1, <1>2, <2>1 DEF IsOverInLast
  <2>3. QED
    BY <2>2
<1>4. i \in finished' => OverIn(i, 0)'
  BY <1>2 DEF IsOverInLast
<1>5. ASSUME NEW g \in Groups, LastGroup(g, i), ipu[g][0].ins = i, ipu[g][0].at = "ipu"
      PROVE  OverIn(i, Upto[LastStage] + IssueLeft(ipu[g][0]))'
  <2>1. PICK t : t = Upto[LastStage] + IssueLeft(ipu[g][0])
    OBVIOUS
  <2>2. OverIn(i, t)' /\ t = Upto[LastStage] + IssueLeft(ipu[g][0])'
    BY <1>2, <1>5, <2>1 DEF IsOverInLast, IssueLeft
  <2>3. QED
    BY <2>2
<1>6. ASSUME NEW g \in Groups, LastGroup(g, i), NEW k \in Stages,
             stage[g][0][k].ins = i, stage[g][0][k].last
      PROVE  OverIn(i, Upto[LastStage] - Since(k, stage[g][0][k]))'
  <2>1. PICK t : t = Upto[LastStage] - Since(k, stage[g][0][k])
    OBVIOUS
  <2>2. OverIn(i, t)' /\ t = Upto[LastStage] - Since(k, stage[g][0][k])'
    BY <1>2, <1>6, <2>1 DEF IsOverInLast, Since
  <2>3. QED
    BY <2>2
<1>7. QED
  BY <1>1, <1>3, <1>4, <1>5, <1>6 DEF IsOverInLast

\* What is taken is in no group.
LEMMA LastOverTake ==
  ASSUME IInv, LastIsOver, UNCHANGED program, Take
  PROVE  LastIsOver'
<1>1. UNCHANGED <<finished, ipu, stage>>
  BY DEF Take, macro_groups
<1>2. /\ \A j : j \in TakenBy("cim_compute")' =>
            j \in TakenBy("cim_compute") \/ j = starting
      /\ \A j \in TakenBy("cim_compute") : j # starting
      /\ starting = next_ins /\ next_ins \in Nat \ {0}
  BY MoreTaken
<1>4. ASSUME NEW i \in TakenBy("cim_compute")
      PROVE  IsOverInLast(i)'
  <2>1. IsOverInLast(i)
    BY DEF LastIsOver
  <2>2. QED
    BY <1>1, <2>1, IsOverSame
<1>5. /\ starting \notin finished'
      /\ \A g \in Groups : \A n \in Pipelines :
           ipu'[g][n].ins # starting /\ \A k \in Stages : stage'[g][n][k].ins # starting
  <2>1. starting \notin finished
    BY <1>2 DEF IInv, FrontTypes
  <2>2. starting # 0 /\ FrontTypes
    BY DEF Take, IInv
  <2>3. ASSUME NEW g \in Groups, NEW n \in Pipelines
        PROVE  ipu[g][n].ins # starting /\ \A k \in Stages : stage[g][n][k].ins # starting
    <3>1. ipu[g][n].ins = 0 \/ ipu[g][n].ins \in TakenBy("cim_compute")
      BY KindFacts DEF IInv, GroupTypes
    <3>2. \A k \in Stages : stage[g][n][k].ins = 0 \/ stage[g][n][k].ins \in TakenBy("cim_compute")
      BY KindFacts DEF IInv, GroupTypes
    <3>3. QED
      BY <1>2, <2>2, <3>1, <3>2
  <2>4. QED
    BY <1>1, <2>1, <2>3
<1>6. ASSUME NEW i, i = starting
      PROVE  IsOverInLast(i)'
  <2>1. /\ i \notin finished'
        /\ \A g \in Groups : \A n \in Pipelines :
             ipu'[g][n].ins # i /\ \A k \in Stages : stage'[g][n][k].ins # i
    BY <1>5, <1>6
  <2>3. OverIn(i, Upto[LastStage] + WholeIssue(i))'
    BY <2>1 DEF OverIn
  <2>4. \A g \in Groups :
          ipu'[g][0].ins # i /\ \A k \in Stages : stage'[g][0][k].ins # i
    BY <2>1, PipelineFacts
  <2>5. QED
    BY <2>1, <2>3, <2>4 DEF IsOverInLast
<1>7. QED
  BY <1>2, <1>4, <1>6 DEF LastIsOver

LEMMA LastOverTick ==
  ASSUME IInv, Pipelined, StagesInTime, LastIsOver, UNCHANGED program, Tick
  PROVE  LastIsOver'
<1>1. UNCHANGED <<next_ins, finished>> /\ IInv'
  BY TickFacts, TickOK
<1>2. /\ TakenBy("cim_compute")' = TakenBy("cim_compute")
      /\ \A g, i : LastGroup(g, i)' <=> LastGroup(g, i)
  BY <1>1, SameTypes
<1>3. 0 \in Groups /\ 0 \in Pipelines
  BY GroupFacts, PipelineFacts
<1>4. ASSUME NEW i \in TakenBy("cim_compute")
      PROVE  IsOverInLast(i)'
  <2>1. IsOverInLast(i) /\ i # 0 /\ Upto[LastStage] \in Nat /\ WholeIssue(i) \in Nat
    BY <1>3, OverNumbers DEF LastIsOver
  <2>2. \A t \in Int : OverIn(i, t) => OverIn(i, t)' /\ OverIn(i, t - 1)'
    <3>1. \A t \in Int : t - 1 \in Int /\ t - 1 <= t /\ t - 1 <= t - 1
      OBVIOUS
    <3>2. ASSUME NEW t \in Int, OverIn(i, t)
          PROVE  OverIn(i, t)'
      BY <3>1, <3>2, OverTick
    <3>3. ASSUME NEW t \in Int, OverIn(i, t), NEW u \in Int, u = t - 1
          PROVE  OverIn(i, u)'
      BY <3>1, <3>3, OverTick
    <3>4. QED
      BY <3>1, <3>2, <3>3
  <2>3. OverIn(i, Upto[LastStage] + WholeIssue(i))'
    <3>1. PICK t \in Int : t = Upto[LastStage] + WholeIssue(i)
      BY <2>1
    <3>2. OverIn(i, t)'
      BY <2>1, <2>2, <3>1 DEF IsOverInLast
    <3>3. t = Upto[LastStage] + WholeIssue(i)'
      BY <3>1 DEF WholeIssue
    <3>4. QED
      BY <3>2, <3>3
  <2>4. i \in finished' => OverIn(i, 0)'
    <3>1. 0 \in Int
      OBVIOUS
    <3>2. QED
      BY <1>1, <2>1, <2>2, <3>1 DEF IsOverInLast
  <2>5. ASSUME NEW g \in Groups, LastGroup(g, i), ipu'[g][0].ins = i, ipu'[g][0].at = "ipu"
        PROVE  OverIn(i, Upto[LastStage] + IssueLeft(ipu[g][0]))'
    <3>1. PICK s \in IpuType : s = ipu[g][0]
      BY <1>3 DEF IInv, GroupTypes
    <3>2. s.at = "ipu" /\ s.ins = i
      <4>1. ipu'[g][0].at = ipu[g][0].at
        BY <1>3, TickAges
      <4>2. ipu'[g][0].ins = ipu[g][0].ins
        BY <1>3, TickFacts
      <4>3. QED
        BY <2>5, <3>1, <4>1, <4>2
    <3>3. s.left # 0 /\ ipu'[g][0] = [s EXCEPT !.left = s.left - 1]
      BY <1>3, <3>1, <3>2, TickAges
    <3>4. s.batch < s.count
      BY <1>3, <3>1, <3>2 DEF Pipelined, PipelineOK
    <3>5. IssueLeft(ipu'[g][0]) = IssueLeft(s) - 1 /\ IssueLeft(s) \in Nat
      BY <3>2, <3>3, <3>4, IssuingFacts
    <3>6. PICK t \in Int : t = Upto[LastStage] + IssueLeft(s)
      BY <2>1, <3>5
    <3>7. OverIn(i, t)
      BY <2>1, <2>5, <3>1, <3>2, <3>6 DEF IsOverInLast
    <3>8. PICK u \in Int : u = t - 1
      BY <3>6
    <3>9. OverIn(i, u)'
      BY <2>2, <3>7, <3>8
    <3>10. u = Upto[LastStage] + IssueLeft(ipu'[g][0])
      BY <2>1, <3>5, <3>6, <3>8
    <3>11. u = Upto[LastStage] + IssueLeft(ipu[g][0])'
      BY <3>10 DEF IssueLeft
    <3>12. QED
      BY <3>9, <3>11
  <2>6. ASSUME NEW g \in Groups, LastGroup(g, i), NEW k \in Stages,
               stage'[g][0][k].ins = i, stage'[g][0][k].last
        PROVE  OverIn(i, Upto[LastStage] - Since(k, stage[g][0][k]))'
    <3>1. PICK b \in StageType, c \in StageType : b = stage[g][0][k] /\ c = stage'[g][0][k]
      BY <1>1, <1>3 DEF IInv, GroupTypes
    <3>2. (c = Idle <=> b = Idle) /\ c.ins = b.ins
      BY <1>3, <3>1, TickFacts
    <3>3. b # Idle /\ c # Idle /\ b.ins = i
      BY <2>1, <2>6, <3>1, <3>2, KindFacts
    <3>4. c.last = b.last
      BY <1>3, <3>1, <3>3, TickFacts
    <3>5. b.left # 0 /\ c.left = b.left - 1
      BY <1>3, <3>1, <3>3, TickAges
    <3>6. Since(k, c) = Since(k, b) + 1 /\ Since(k, b) \in Int
      BY <3>3, <3>5, SinceFacts
    <3>7. PICK t \in Int : t = Upto[LastStage] - Since(k, b)
      BY <2>1, <3>6
    <3>8. OverIn(i, t)
      BY <2>1, <2>6, <3>1, <3>3, <3>4, <3>7 DEF IsOverInLast
    <3>9. PICK u \in Int : u = t - 1
      BY <3>7
    <3>10. OverIn(i, u)'
      BY <2>2, <3>8, <3>9
    <3>11. u = Upto[LastStage] - Since(k, stage'[g][0][k])
      BY <2>1, <3>1, <3>6, <3>7, <3>9
    <3>12. u = Upto[LastStage] - Since(k, stage[g][0][k])'
      BY <3>11 DEF Since
    <3>13. QED
      BY <3>10, <3>12
  <2>7. QED
    BY <1>2, <2>3, <2>4, <2>5, <2>6 DEF IsOverInLast
<1>5. QED
  BY <1>2, <1>4 DEF LastIsOver

LEMMA LastIsOverStep ==
  ASSUME IInv, Pipelined, StagesInTime, LastIsOver, [Next]_vars
  PROVE  LastIsOver'
<1>1. UNCHANGED program
  BY Steps
<1>2. CASE Besides
  <2>1. /\ UNCHANGED <<ipu, stage>> /\ TakenBy("cim_compute")' = TakenBy("cim_compute")
        /\ \A i \in TakenBy("cim_compute") : i \in finished' <=> i \in finished
    BY <1>1, <1>2, SameTypes DEF Besides
  <2>2. ASSUME NEW i \in TakenBy("cim_compute")
        PROVE  IsOverInLast(i)'
    <3>1. IsOverInLast(i)
      BY DEF LastIsOver
    <3>2. QED
      BY <1>1, <2>1, <3>1, IsOverSame
  <2>3. QED
    BY <2>1, <2>2 DEF LastIsOver
<1>3. CASE Take
  BY <1>1, <1>3, LastOverTake
<1>4. CASE Tick
  BY <1>1, <1>4, LastOverTick
<1>5. CASE RunMacroGroup
  BY <1>1, <1>5, LastOverRun
<1>6. CASE \E g \in Groups : StartMacro(g)
  BY <1>1, <1>6, LastOverMacro
<1>7. CASE \E g \in Groups : \E n \in Pipelines : IssueBatch(g, n)
  BY <1>1, <1>7, LastOverIssue
<1>8. CASE \E g \in Groups : \E n \in Pipelines : \E k \in Stages : NextStage(g, n, k)
  BY <1>1, <1>8, LastOverNext
<1>9. CASE \E g \in Groups : \E n \in Pipelines : EndStage(g, n)
  BY <1>1, <1>9, LastOverEnd
<1>10. QED
  BY <1>2, <1>3, <1>4, <1>5, <1>6, <1>7, <1>8, <1>9, Steps

\* The invariant if no stage is slower than the IPU.
InTimeInv == IInv /\ Pipelined /\ MacrosFirst /\ LastIsOver

LEMMA InTimeInvariance ==
  ASSUME StagesInTime
  PROVE  Spec => []InTimeInv
<1>1. Init => InTimeInv
  <2>1. Init => MacrosFirst
    BY PipelineFacts, KindFacts DEF Init, MacrosFirst
  <2>2. Init => LastIsOver
    BY DEF Init, LastIsOver, TakenBy
  <2>3. QED
    BY <2>1, <2>2, InitOK, PipelinedInit DEF InTimeInv
<1>2. InTimeInv /\ [Next]_vars => InTimeInv'
  BY NextOK, PipelinedStep, MacrosFirstStep, LastIsOverStep DEF InTimeInv
<1>3. QED
  BY <1>1, <1>2, PTL DEF Spec

\* When time goes on, the groups hold nothing of what is over.
LEMMA OverIsOut ==
  ASSUME IInv, Pipelined, Quiet, StagesInTime, NEW i \in TakenBy("cim_compute"), OverIn(i, 0)
  PROVE  ~ InMacroGroups(i)
<1> SUFFICES ASSUME NEW g \in Groups, NEW n \in Pipelines
             PROVE  ipu[g][n].ins # i /\ \A k \in Stages : stage[g][n][k].ins # i
  BY DEF InMacroGroups
<1>1. i # 0 /\ Upto[LastStage] \in Nat
  BY OverNumbers
<1>2. ASSUME ipu[g][n].ins = i
      PROVE  FALSE
  <2>1. PICK s \in IpuType : s = ipu[g][n]
    BY DEF IInv, GroupTypes
  <2>2. s.at = "ipu"
    <3>1. s # Idle
      BY <1>1, <1>2, <2>1, KindFacts
    <3>2. QED
      BY <2>1, <3>1, KindFacts, NoGroupWaits
  <2>3. s.left # 0
    BY <2>1, <2>2, StagesGoOn
  <2>4. s.batch < s.count
    BY <2>1, <2>2 DEF Pipelined, PipelineOK
  <2>5. IssueLeft(s) \in Nat /\ s.left <= IssueLeft(s) /\ s.left \in Nat
    BY <2>2, <2>4, IssuingFacts
  <2>6. Upto[LastStage] + IssueLeft(s) <= 0
    BY <1>2, <2>1, <2>2 DEF OverIn
  <2>7. QED
    BY <1>1, <2>3, <2>5, <2>6
<1>3. ASSUME NEW k \in Stages, stage[g][n][k].ins = i
      PROVE  FALSE
  <2>1. PICK s \in StageType : s = stage[g][n][k]
    BY DEF IInv, GroupTypes
  <2>2. s # Idle
    BY <1>1, <1>3, <2>1, KindFacts
  <2>3. s.left # 0 /\ s.left \in Nat
    BY <2>1, <2>2, StagesGoOn, KindFacts
  <2>4. Since(k, s) = Upto[k] - s.left /\ Upto[k] \in Nat
    BY <2>2, SinceFacts DEF Since
  <2>5. Upto[k] <= Upto[LastStage]
    <3>1. k \in 0 .. LastStage
      BY StageFacts DEF LastStage
    <3>2. QED
      BY <3>1, UptoLast
  <2>6. Upto[LastStage] - Since(k, s) <= 0
    BY <1>3, <2>1 DEF OverIn
  <2>7. QED
    BY <1>1, <2>3, <2>4, <2>5, <2>6
<1>4. QED
  BY <1>2, <1>3

\* The groups compute, and nothing else.
LEMMA ControlOutside ==
  ASSUME IInv, NEW i \in TakenBy("cim_control")
  PROVE  ~ InMacroGroups(i)
<1>1. FrontTypes
  BY DEF IInv
<1>2. i # 0 /\ i \notin TakenBy("cim_compute")
  BY <1>1, TakenFacts DEF Id
<1>3. ASSUME NEW g \in Groups, NEW n \in Pipelines
      PROVE  ipu[g][n].ins # i /\ \A k \in Stages : stage[g][n][k].ins # i
  BY <1>2, KindFacts DEF IInv, GroupTypes
<1>4. QED
  BY <1>3 DEF InMacroGroups

LEMMA FinishedIsOut ==
  ASSUME InTimeInv, StagesInTime
  PROVE  FinishIsOver
<1> SUFFICES ASSUME Quiet, NEW i \in finished
             PROVE  ~ InMacroGroups(i)
  BY DEF FinishIsOver
<1>1. IInv /\ Pipelined /\ LastIsOver
  BY DEF InTimeInv
<1>2. FrontTypes /\ i \in 1 .. next_ins - 1
  BY <1>1 DEF IInv, FrontTypes
<1>3. i \in Ids /\ program[i].unit \in Units
  BY <1>2, TakenFacts, ProgramFacts
<1>4. CASE program[i].unit = "cim_compute"
  <2>1. i \in TakenBy("cim_compute")
    BY <1>2, <1>4 DEF TakenBy
  <2>2. OverIn(i, 0)
    BY <1>1, <2>1 DEF LastIsOver, IsOverInLast
  <2>3. QED
    BY <1>1, <2>1, <2>2, OverIsOut
<1>5. CASE program[i].unit = "cim_control"
  <2>1. i \in TakenBy("cim_control")
    BY <1>2, <1>5 DEF TakenBy
  <2>2. QED
    BY <1>1, <2>1, ControlOutside
<1>6. QED
  BY <1>3, <1>4, <1>5 DEF Units

\* The last stage of the last group alone reports the end of an instruction, and when it has
\* and time goes on, no group and no macro works on the instruction any more, if no stage is
\* slower than the IPU: for any latencies within that, groups, macros and inputs.
THEOREM FinishIsOverHolds ==
  ASSUME StagesInTime
  PROVE  Spec => []FinishIsOver
<1>1. InTimeInv => FinishIsOver
  BY FinishedIsOut
<1>2. QED
  BY <1>1, InTimeInvariance, PTL

\* With MacrosFirst an instruction finds its activation in each of its groups.
LEMMA InTimeInOrder ==
  ASSUME InTimeInv
  PROVE  ActiveInOrder
<1>1. ASSUME NEW g \in Groups, ipu[g][0].at = "macros"
      PROVE  InOrderIn(g)
  <2>1. IInv /\ MacrosFirst
    BY DEF InTimeInv
  <2>2. Sets(g) = SetBefore(ipu[g][0].ins, g)
    BY <1>1, <2>1, FirstInOrder
  <2>3. QED
    BY <2>1, <2>2 DEF InOrderIn, IInv, ActiveOK
<1>2. QED
  BY <1>1 DEF InOrderIn, ActiveInOrder

\* The macros that an instruction finds active are those that the last set_activation
\* before it in the program activated, if every instruction uses one group or no stage is
\* slower than the IPU.
THEOREM ActiveInOrderHolds ==
  ASSUME OneGroupEach \/ StagesInTime
  PROVE  Spec => []ActiveInOrder
<1>1. CASE OneGroupEach
  BY <1>1, OneGroupInOrder
<1>2. CASE StagesInTime
  <2>1. InTimeInv => ActiveInOrder
    BY InTimeInOrder
  <2>2. Spec => []InTimeInv
    BY <1>2, InTimeInvariance
  <2>3. QED
    BY <2>1, <2>2, PTL
<1>3. QED
  BY <1>1, <1>2

-----------------------------------------------------------------------------
(***************************************************************************)
(* Where an instruction is that has been released.                         *)
(***************************************************************************)
\* A step that leaves the stages alone.
LEMMA ReleasedAside ==
  ASSUME IInv, ReleasedAtLast, UNCHANGED <<program, stage>>, Take \/ UNCHANGED next_ins,
         \A i \in TakenBy("cim_compute") :
           (i \in booked => i \in booked') /\ (i \in finished => i \in finished'),
         \A i \in TakenBy("cim_compute")' : i \in TakenBy("cim_compute") \/ i \in booked'
  PROVE  ReleasedAtLast'
<1>1. \A g, i : LastGroup(g, i)' <=> LastGroup(g, i)
  BY DEF LastGroup, GroupCnt
<1>2. ASSUME NEW g \in Groups, NEW k \in Stages
      PROVE  AtLast(g, k)'
  <2>1. stage[g][0][k] # Idle => stage[g][0][k].ins \in TakenBy("cim_compute")
    BY PipelineFacts DEF IInv, GroupTypes
  <2>2. AtLast(g, k)
    BY DEF ReleasedAtLast
  <2>3. QED
    BY <1>1, <2>1, <2>2 DEF AtLast
<1>3. ASSUME NEW i \in TakenBy("cim_compute")'
      PROVE  ReleasedAt(i)'
  <2>1. CASE i \in TakenBy("cim_compute")
    <3>1. ReleasedAt(i)
      BY <2>1 DEF ReleasedAtLast
    <3>2. QED
      BY <1>1, <2>1, <3>1 DEF ReleasedAt
  <2>2. CASE i \in booked'
    BY <2>2 DEF ReleasedAt
  <2>3. QED
    BY <1>3, <2>1, <2>2
<1>4. QED
  BY <1>2, <1>3 DEF ReleasedAtLast

LEMMA ReleasedIssue ==
  ASSUME IInv, ReleasedAtLast, UNCHANGED program,
         NEW g \in Groups, NEW n \in Pipelines, IssueBatch(g, n)
  PROVE  ReleasedAtLast'
<1>1. PICK s : s = ipu[g][n]
  OBVIOUS
<1>2. /\ UNCHANGED <<next_ins, booked, finished>> /\ s.at = "ipu"
      /\ stage'[g][n][1] # Idle /\ stage'[g][n][1].ins = s.ins
      /\ \A h \in Groups : \A o \in Pipelines : \A k \in Stages :
           (h = g /\ o = n /\ k = 1) \/ stage'[h][o][k] = stage[h][o][k]
  BY <1>1, IssueFacts
<1>3. stage[g][n][1] = Idle
  BY IssueFacts
<1>4. s # Idle /\ s.ins # 0
  BY <1>1, <1>2, KindFacts DEF IInv, GroupTypes
<1>5. 1 \in Stages /\ LastStage \in Stages /\ LastStage # 1 /\ \A k \in Stages : ~ (k < 1)
  BY StageFacts DEF LastStage
<1>6. TakenBy("cim_compute")' = TakenBy("cim_compute")
  BY <1>2, SameTypes
<1>7. \A h, i : LastGroup(h, i)' <=> LastGroup(h, i)
  BY <1>2, SameTypes
<1>8. \A h \in Groups : \A k \in Stages :
        (h = g /\ n = 0 /\ k = 1) \/ stage'[h][0][k] = stage[h][0][k]
  BY <1>2, PipelineFacts
<1>9. ASSUME NEW h \in Groups, NEW k \in Stages
      PROVE  AtLast(h, k)'
  <2>1. AtLast(h, k)
    BY DEF ReleasedAtLast
  <2>2. CASE ~ (h = g /\ n = 0)
    <3>1. \A j \in Stages : stage'[h][0][j] = stage[h][0][j]
      BY <1>8, <2>2
    <3>2. QED
      BY <1>2, <1>7, <2>1, <3>1 DEF AtLast
  <2>3. CASE h = g /\ n = 0 /\ k = 1
    <3>1. LastGroup(g, s.ins) => s.ins \in booked
      BY <1>1, <1>4, <2>3 DEF IInv, InLine
    <3>2. QED
      BY <1>2, <1>5, <1>7, <2>3, <3>1 DEF AtLast
  <2>4. CASE h = g /\ n = 0 /\ k # 1
    <3>1. stage'[h][0][k] = stage[h][0][k]
      BY <1>8, <2>4
    <3>2. stage[h][0][k] # Idle /\ stage[h][0][k].last => s.ins # stage[h][0][k].ins
      BY <1>1, <2>4 DEF IInv, InLine
    <3>3. stage[h][0][k] # Idle /\ stage[h][0][k].last =>
            \A j \in Stages : j < k => stage'[h][0][j].ins # stage[h][0][k].ins
      BY <1>2, <1>8, <2>1, <2>4, <3>2 DEF AtLast
    <3>4. QED
      BY <1>2, <1>7, <2>1, <3>1, <3>3 DEF AtLast
  <2>5. QED
    BY <2>2, <2>3, <2>4
<1>10. ASSUME NEW i \in TakenBy("cim_compute")
       PROVE  ReleasedAt(i)'
  <2>1. ReleasedAt(i)
    BY DEF ReleasedAtLast
  <2>2. \A h \in Groups : stage'[h][0][LastStage] = stage[h][0][LastStage]
    BY <1>5, <1>8
  <2>3. QED
    BY <1>2, <1>7, <2>1, <2>2 DEF ReleasedAt
<1>11. QED
  BY <1>6, <1>9, <1>10 DEF ReleasedAtLast

LEMMA ReleasedNext ==
  ASSUME IInv, ReleasedAtLast, UNCHANGED program,
         NEW g \in Groups, NEW n \in Pipelines, NEW k \in Stages, NextStage(g, n, k)
  PROVE  ReleasedAtLast'
<1>1. PICK s \in StageType : s = stage[g][n][k]
  BY DEF IInv, GroupTypes
<1>2. PICK line \in [Stages -> StageType], after \in [Stages -> StageType] :
        line = stage[g][n] /\ after = stage'[g][n]
  <2>1. IInv'
    BY NextStageOK
  <2>2. QED
    BY <2>1 DEF IInv, GroupTypes
<1>3. /\ UNCHANGED <<next_ins, finished>> /\ k < LastStage /\ k + 1 \in Stages
      /\ s # Idle /\ after[k] = Idle
      /\ \A j \in Stages : j \in {k, k + 1} \/ after[j] = line[j]
      /\ \/ /\ line[k + 1] = Idle
            /\ after[k + 1] # Idle /\ after[k + 1].ins = s.ins /\ after[k + 1].last = s.last
            /\ booked' = IF n = 0 /\ k + 1 = LastStage /\ LastGroup(g, s.ins)
                           THEN booked \ {s.ins} ELSE booked
         \/ after[k + 1] = line[k + 1] /\ booked' = booked
  BY <1>1, <1>2, NextFacts
<1>4. \A h \in Groups : \A o \in Pipelines : \A j \in Stages :
        (h = g /\ o = n) \/ stage'[h][o][j] = stage[h][o][j]
  BY NextFacts
<1>5. TakenBy("cim_compute")' = TakenBy("cim_compute")
  BY <1>3, SameTypes
<1>6. \A h, i : LastGroup(h, i)' <=> LastGroup(h, i)
  BY <1>3, SameTypes
<1>7. LastStage \in Nat /\ LastStage \in Stages /\ k \in Nat /\ \A j \in Stages : j \in Nat /\ j <= LastStage
  BY StageFacts DEF LastStage
<1>8. s.ins # 0 /\ Idle.ins = 0
  BY <1>3, KindFacts
\* Who is released has no batch before the last stage.
<1>9. ASSUME booked' # booked
      PROVE  /\ n = 0 /\ k + 1 = LastStage /\ LastGroup(g, s.ins) /\ booked' = booked \ {s.ins}
             /\ after[k + 1].ins = s.ins
             /\ \A j \in Stages : j < LastStage => after[j].ins # s.ins
  <2>1. /\ n = 0 /\ k + 1 = LastStage /\ LastGroup(g, s.ins) /\ booked' = booked \ {s.ins}
        /\ after[k + 1].ins = s.ins /\ after[k + 1].last = s.last
    BY <1>3, <1>9
  <2>2. s.last
    <3>1. IInv'
      BY NextStageOK
    <3>2. k + 1 > ShiftAdder
      BY <2>1, StageFacts DEF LastStage
    <3>3. after[k + 1] # Idle
      BY <1>8, <2>1
    <3>4. after[k + 1].last
      BY <1>2, <1>3, <2>1, <3>1, <3>2, <3>3 DEF IInv, Released
    <3>5. QED
      BY <2>1, <3>4
  <2>3. \A j \in Stages : j < k => line[j].ins # s.ins
    <3>1. AtLast(g, k)
      BY DEF ReleasedAtLast
    <3>2. QED
      BY <1>1, <1>2, <1>3, <2>1, <2>2, <3>1 DEF AtLast
  <2>4. ASSUME NEW j \in Stages, j < LastStage
        PROVE  after[j].ins # s.ins
    <3>1. j = k \/ j < k
      BY <1>7, <2>1, <2>4
    <3>2. j < k => after[j] = line[j]
      BY <1>3, <1>7
    <3>3. QED
      BY <1>3, <1>8, <2>3, <3>1, <3>2
  <2>5. QED
    BY <2>1, <2>4
\* Another group has nothing of it if that one is its last.
<1>10. ASSUME NEW h \in Groups, NEW j \in Stages
       PROVE  AtLast(h, j)'
  <2>1. CASE ~ (h = g /\ n = 0)
    <3>1. \A i \in Stages : stage'[h][0][i] = stage[h][0][i]
      BY <1>4, <2>1, PipelineFacts
    <3>2. AtLast(h, j)
      BY DEF ReleasedAtLast
    <3>3. LastGroup(h, stage[h][0][j].ins) /\ stage[h][0][j].ins \in booked => stage[h][0][j].ins \in booked'
      <4>1. CASE booked' = booked
        BY <4>1
      <4>2. CASE booked' # booked
        <5>1. n = 0 /\ LastGroup(g, s.ins) /\ booked' = booked \ {s.ins}
          BY <1>9, <4>2
        <5>2. h # g
          BY <2>1, <5>1
        <5>3. LastGroup(h, stage[h][0][j].ins) => stage[h][0][j].ins # s.ins
          BY <5>1, <5>2 DEF LastGroup
        <5>4. QED
          BY <5>1, <5>3
      <4>3. QED
        BY <4>1, <4>2
    <3>4. QED
      BY <1>6, <3>1, <3>2, <3>3 DEF AtLast
  <2>2. CASE h = g /\ n = 0
    <3>1. line = stage[h][0] /\ after = stage'[h][0]
      BY <1>2, <2>2
    <3>2. \A i \in Stages :
            line[i] # Idle =>
              /\ LastGroup(g, line[i].ins) /\ i < LastStage => line[i].ins \in booked
              /\ line[i].last => \A l \in Stages : l < i => line[l].ins # line[i].ins
      BY <2>2, <3>1 DEF ReleasedAtLast, AtLast
    <3>3. ASSUME after[j] # Idle, LastGroup(g, after[j].ins), j < LastStage
          PROVE  after[j].ins \in booked'
      <4>1. after[j].ins \in booked
        <5>1. CASE after[j] = line[j]
          BY <3>2, <3>3, <5>1
        <5>2. CASE after[j] # line[j]
          <6>1. j = k + 1 /\ after[j].ins = s.ins /\ s = line[k]
            BY <1>1, <1>2, <1>3, <3>3, <5>2
          <6>2. QED
            BY <1>3, <3>2, <3>3, <6>1
        <5>3. QED
          BY <5>1, <5>2
      <4>2. booked' # booked => after[j].ins # s.ins
        BY <1>9, <3>3
      <4>3. booked' = booked \/ booked' = booked \ {s.ins}
        BY <1>3
      <4>4. QED
        BY <4>1, <4>2, <4>3
    <3>4. ASSUME after[j] # Idle, after[j].last, NEW l \in Stages, l < j
          PROVE  after[l].ins # after[j].ins
      <4>1. after[j].ins # 0
        BY <3>4, KindFacts
      <4>2. CASE after[j] = line[j]
        <5>1. \A i \in Stages : i < j => line[i].ins # line[j].ins
          BY <3>2, <3>4, <4>2
        <5>2. CASE after[l] = line[l]
          BY <3>4, <4>2, <5>1, <5>2
        <5>3. CASE l = k
          BY <1>3, <1>8, <4>1, <5>3
        <5>4. CASE l = k + 1 /\ after[l].ins = s.ins
          <6>1. k < j /\ s = line[k]
            BY <1>1, <1>2, <1>7, <3>4, <5>4
          <6>2. QED
            BY <4>2, <5>1, <5>4, <6>1
        <5>5. QED
          BY <1>3, <5>2, <5>3, <5>4
      <4>3. CASE after[j] # line[j]
        <5>1. j = k + 1 /\ after[j].ins = s.ins /\ after[j].last = s.last /\ s = line[k]
          BY <1>1, <1>2, <1>3, <3>4, <4>3
        <5>2. \A i \in Stages : i < k => line[i].ins # s.ins
          BY <1>3, <3>2, <3>4, <5>1
        <5>3. l = k \/ l < k
          BY <1>7, <3>4, <5>1
        <5>4. l < k => after[l] = line[l]
          BY <1>3, <1>7
        <5>5. QED
          BY <1>3, <1>8, <5>1, <5>2, <5>3, <5>4
      <4>4. QED
        BY <4>2, <4>3
    <3>5. QED
      BY <1>6, <2>2, <3>1, <3>3, <3>4 DEF AtLast
  <2>3. QED
    BY <2>1, <2>2
<1>11. ASSUME NEW i \in TakenBy("cim_compute")
       PROVE  ReleasedAt(i)'
  <2>1. ReleasedAt(i)
    BY DEF ReleasedAtLast
  <2>2. ASSUME NEW h \in Groups, stage[h][0][LastStage].ins = i
        PROVE  stage'[h][0][LastStage].ins = i
    <3>1. i # 0
      <4>1. FrontTypes
        BY DEF IInv
      <4>2. QED
        BY <4>1, TakenFacts DEF Id
    <3>2. CASE h = g /\ n = 0
      <4>1. line[LastStage].ins = i /\ line[LastStage] # Idle
        BY <1>2, <1>8, <2>2, <3>1, <3>2
      <4>2. after[LastStage] = line[LastStage]
        BY <1>3, <1>7, <4>1
      <4>3. QED
        BY <1>2, <3>2, <4>1, <4>2
    <3>3. CASE ~ (h = g /\ n = 0)
      BY <1>4, <1>7, <2>2, <3>3, PipelineFacts
    <3>4. QED
      BY <3>2, <3>3
  <2>3. CASE i \in booked /\ i \notin booked'
    <3>1. n = 0 /\ k + 1 = LastStage /\ LastGroup(g, s.ins) /\ s.ins = i /\ after[k + 1].ins = s.ins
      BY <1>9, <2>3
    <3>2. stage'[g][0][LastStage].ins = i
      BY <1>2, <3>1
    <3>3. QED
      BY <1>6, <3>1, <3>2 DEF ReleasedAt
  <2>4. QED
    BY <1>3, <1>6, <2>1, <2>2, <2>3 DEF ReleasedAt
<1>12. QED
  BY <1>5, <1>10, <1>11 DEF ReleasedAtLast

LEMMA ReleasedEnd ==
  ASSUME IInv, ReleasedAtLast, UNCHANGED program,
         NEW g \in Groups, NEW n \in Pipelines, EndStage(g, n)
  PROVE  ReleasedAtLast'
<1>1. PICK s : s = stage[g][n][LastStage]
  OBVIOUS
<1>2. /\ UNCHANGED <<next_ins, booked>> /\ LastStage \in Stages
      /\ finished' = IF n = 0 /\ LastGroup(g, s.ins) THEN finished \cup {s.ins} ELSE finished
  BY <1>1, EndFacts
<1>3. stage'[g][n][LastStage] = Idle
  BY EndFacts
<1>4. \A h \in Groups : \A o \in Pipelines : \A j \in Stages :
        (h = g /\ o = n /\ j = LastStage) \/ stage'[h][o][j] = stage[h][o][j]
  BY EndFacts
<1>5. TakenBy("cim_compute")' = TakenBy("cim_compute")
  BY <1>2, SameTypes
<1>6. \A h, i : LastGroup(h, i)' <=> LastGroup(h, i)
  BY <1>2, SameTypes
<1>7. \A j \in Stages : ~ (LastStage < j)
  BY StageFacts DEF LastStage
<1>8. ASSUME NEW h \in Groups, NEW j \in Stages
      PROVE  AtLast(h, j)'
  <2>1. AtLast(h, j)
    BY DEF ReleasedAtLast
  <2>2. \A i \in Stages : stage'[h][0][i] = stage[h][0][i] \/ (stage'[h][0][i] = Idle /\ i = LastStage)
    BY <1>3, <1>4, PipelineFacts
  <2>3. \A i \in Stages : i < j => stage'[h][0][i] = stage[h][0][i]
    BY <1>7, <2>2
  <2>4. QED
    BY <1>2, <1>6, <2>1, <2>2, <2>3 DEF AtLast
<1>9. ASSUME NEW i \in TakenBy("cim_compute")
      PROVE  ReleasedAt(i)'
  <2>1. ReleasedAt(i)
    BY DEF ReleasedAtLast
  <2>2. ASSUME NEW h \in Groups, LastGroup(h, i), stage[h][0][LastStage].ins = i
        PROVE  i \in finished' \/ stage'[h][0][LastStage].ins = i
    <3>1. CASE h = g /\ n = 0
      BY <1>1, <1>2, <2>2, <3>1
    <3>2. CASE ~ (h = g /\ n = 0)
      BY <1>2, <1>4, <2>2, <3>2, PipelineFacts
    <3>3. QED
      BY <3>1, <3>2
  <2>3. QED
    BY <1>2, <1>6, <2>1, <2>2 DEF ReleasedAt
<1>10. QED
  BY <1>5, <1>8, <1>9 DEF ReleasedAtLast

LEMMA ReleasedStep ==
  ASSUME IInv, ReleasedAtLast, [Next]_vars
  PROVE  ReleasedAtLast'
<1>1. UNCHANGED program
  BY Steps
<1>2. CASE Take
  <2>1. UNCHANGED <<finished, stage>> /\ booked' = booked \cup {starting}
    BY <1>2 DEF Take, macro_groups
  <2>2. \A i : i \in TakenBy("cim_compute")' => i \in TakenBy("cim_compute") \/ i = starting
    BY <1>1, <1>2, MoreTaken
  <2>3. QED
    BY <1>1, <1>2, <2>1, <2>2, ReleasedAside
<1>3. CASE Tick \/ RunMacroGroup \/ \E g \in Groups : StartMacro(g)
  <2>1. ASSUME UNCHANGED <<next_ins, booked, finished, stage>>
        PROVE  ReleasedAtLast'
    <3>1. TakenBy("cim_compute")' = TakenBy("cim_compute")
      BY <1>1, <2>1, SameTypes
    <3>2. QED
      BY <1>1, <2>1, <3>1, ReleasedAside
  <2>2. CASE RunMacroGroup \/ \E g \in Groups : StartMacro(g)
    BY <2>1, <2>2 DEF RunMacroGroup, StartMacro, front, board
  <2>3. CASE Tick
    <3>1. /\ UNCHANGED <<next_ins, booked, finished>>
          /\ stage' \in [Groups -> [Pipelines -> [Stages -> StageType]]]
      BY <1>1, <2>3, TickFacts
    <3>2. TakenBy("cim_compute")' = TakenBy("cim_compute") /\ \A g, i : LastGroup(g, i)' <=> LastGroup(g, i)
      BY <1>1, <3>1, SameTypes
    <3>3. \A g \in Groups : \A k \in Stages :
            /\ stage'[g][0][k] = Idle <=> stage[g][0][k] = Idle
            /\ stage'[g][0][k].ins = stage[g][0][k].ins
            /\ stage[g][0][k] # Idle => stage'[g][0][k].last = stage[g][0][k].last
      BY <1>1, <2>3, TickFacts, PipelineFacts
    <3>4. ASSUME NEW g \in Groups, NEW k \in Stages
          PROVE  AtLast(g, k)'
      <4>1. AtLast(g, k)
        BY DEF ReleasedAtLast
      <4>2. QED
        BY <3>1, <3>2, <3>3, <4>1 DEF AtLast
    <3>5. ASSUME NEW i \in TakenBy("cim_compute")
          PROVE  ReleasedAt(i)'
      <4>1. ReleasedAt(i)
        BY DEF ReleasedAtLast
      <4>2. LastStage \in Stages
        BY StageFacts DEF LastStage
      <4>3. QED
        BY <3>1, <3>2, <3>3, <4>1, <4>2 DEF ReleasedAt
    <3>6. QED
      BY <3>2, <3>4, <3>5 DEF ReleasedAtLast
  <2>4. QED
    BY <1>3, <2>2, <2>3
<1>4. CASE \E g \in Groups : \E n \in Pipelines : IssueBatch(g, n)
  BY <1>1, <1>4, ReleasedIssue
<1>5. CASE \E g \in Groups : \E n \in Pipelines : \E k \in Stages : NextStage(g, n, k)
  BY <1>1, <1>5, ReleasedNext
<1>6. CASE \E g \in Groups : \E n \in Pipelines : EndStage(g, n)
  BY <1>1, <1>6, ReleasedEnd
<1>7. CASE Besides
  <2>1. /\ UNCHANGED <<next_ins, stage>> /\ TakenBy("cim_compute")' = TakenBy("cim_compute")
        /\ \A i \in TakenBy("cim_compute") :
             (i \in booked' <=> i \in booked) /\ (i \in finished' <=> i \in finished)
    BY <1>1, <1>7, SameTypes DEF Besides
  <2>2. QED
    BY <1>1, <2>1, ReleasedAside
<1>8. QED
  BY <1>2, <1>3, <1>4, <1>5, <1>6, <1>7, Steps

LEMMA LeavesStep ==
  ASSUME IInv, Pipelined, StagesInTime, ShortResultAdder, ReleasedAtLast, LeavesInTime, [Next]_vars
  PROVE  LeavesInTime'
<1>1. UNCHANGED program
  BY Steps
<1>2. LastStage \in Stages /\ LastStage \in Nat /\ LastStage > 1
  BY StageFacts DEF LastStage
<1>3. \A g, i : LastGroup(g, i)' <=> LastGroup(g, i)
  BY <1>1 DEF LastGroup, GroupCnt
<1>4. ASSUME Take \/ UNCHANGED <<next_ins, starting>>,
             \A g \in Groups :
               LET s == stage'[g][0][LastStage]
               IN  s = Idle \/ s = stage[g][0][LastStage]
                     \/ (LastGroup(g, s.ins) => s.ins \in TakenBy("cim_compute") /\ s.ins \in booked)
      PROVE  LeavesInTime'
  <2>1. \A j : j \in ControlLeft' => j \in ControlLeft
    BY <1>1, <1>4, ControlLeftSame
  <2>2. ASSUME NEW g \in Groups, NEW s, s = stage'[g][0][LastStage], s # Idle, LastGroup(g, s.ins)
        PROVE  s.left = 0 \/ \A j \in ControlLeft' : j < s.ins
    <3>1. CASE s = stage[g][0][LastStage]
      BY <2>1, <2>2, <3>1 DEF LeavesInTime
    <3>2. CASE s.ins \in TakenBy("cim_compute") /\ s.ins \in booked
      BY <2>1, <3>2, ControlBefore
    <3>3. QED
      BY <1>4, <2>2, <3>1, <3>2
  <2>3. QED
    BY <1>3, <2>2 DEF LeavesInTime
<1>5. CASE Take \/ Besides \/ RunMacroGroup \/ \E g \in Groups : StartMacro(g)
  <2>1. UNCHANGED stage /\ (Take \/ UNCHANGED <<next_ins, starting>>)
    BY <1>5 DEF Take, Besides, RunMacroGroup, StartMacro, front, macro_groups
  <2>2. QED
    BY <1>4, <2>1
<1>6. CASE \E g \in Groups : \E n \in Pipelines : IssueBatch(g, n)
  <2>1. PICK g \in Groups, n \in Pipelines : IssueBatch(g, n)
    BY <1>6
  <2>2. /\ UNCHANGED <<next_ins, starting>>
        /\ \A h \in Groups : \A o \in Pipelines : \A k \in Stages :
             (h = g /\ o = n /\ k = 1) \/ stage'[h][o][k] = stage[h][o][k]
    BY <1>1, <2>1, IssueFacts
  <2>3. \A h \in Groups : stage'[h][0][LastStage] = stage[h][0][LastStage]
    BY <1>2, <2>2, PipelineFacts
  <2>4. QED
    BY <1>4, <2>2, <2>3
<1>7. CASE \E g \in Groups : \E n \in Pipelines : EndStage(g, n)
  <2>1. PICK g \in Groups, n \in Pipelines : EndStage(g, n)
    BY <1>7
  <2>2. UNCHANGED <<next_ins, starting>> /\ stage'[g][n][LastStage] = Idle
    BY <1>1, <2>1, EndFacts
  <2>3. \A h \in Groups : \A o \in Pipelines : \A k \in Stages :
          (h = g /\ o = n /\ k = LastStage) \/ stage'[h][o][k] = stage[h][o][k]
    BY <1>1, <2>1, EndFacts
  <2>4. \A h \in Groups : stage'[h][0][LastStage] = Idle \/ stage'[h][0][LastStage] = stage[h][0][LastStage]
    BY <1>2, <2>2, <2>3, PipelineFacts
  <2>5. QED
    BY <1>4, <2>2, <2>4
<1>8. CASE \E g \in Groups : \E n \in Pipelines : \E k \in Stages : NextStage(g, n, k)
  <2>1. PICK g \in Groups, n \in Pipelines, k \in Stages : NextStage(g, n, k)
    BY <1>8
  <2>2. /\ UNCHANGED <<next_ins, starting>> /\ k < LastStage
        /\ stage[g][n][k] # Idle /\ stage'[g][n][k] = Idle
        /\ stage'[g][n][k + 1].ins = stage[g][n][k].ins \/ stage'[g][n][k + 1] = stage[g][n][k + 1]
    BY <1>1, <2>1, NextFacts
  <2>3. \A h \in Groups : \A o \in Pipelines : \A j \in Stages :
          (h = g /\ o = n /\ j \in {k, k + 1}) \/ stage'[h][o][j] = stage[h][o][j]
    BY <1>1, <2>1, NextFacts
  <2>4. ASSUME NEW h \in Groups, NEW s, s = stage'[h][0][LastStage], s # Idle, s # stage[h][0][LastStage],
               LastGroup(h, s.ins)
        PROVE  s.ins \in TakenBy("cim_compute") /\ s.ins \in booked
    <3>1. h = g /\ n = 0 /\ k + 1 = LastStage
      BY <1>2, <2>2, <2>3, <2>4, PipelineFacts
    <3>2. s.ins = stage[g][0][k].ins /\ stage[g][0][k] # Idle
      BY <2>2, <2>4, <3>1
    <3>3. s.ins \in TakenBy("cim_compute")
      BY <3>2, PipelineFacts DEF IInv, GroupTypes
    <3>4. s.ins \in booked
      BY <2>2, <2>4, <3>1, <3>2 DEF ReleasedAtLast, AtLast
    <3>5. QED
      BY <3>3, <3>4
  <2>5. QED
    BY <1>4, <2>2, <2>4
<1>9. CASE Tick
  <2>1. ASSUME NEW g \in Groups, stage'[g][0][LastStage] # Idle
        PROVE  stage'[g][0][LastStage].left = 0
    <3>1. PICK s \in StageType : s = stage[g][0][LastStage]
      BY <1>2, PipelineFacts DEF IInv, GroupTypes
    <3>2. s # Idle
      BY <1>1, <1>2, <1>9, <2>1, <3>1, TickFacts, PipelineFacts
    <3>3. s.left # 0 /\ stage'[g][0][LastStage].left = s.left - 1
      BY <1>1, <1>2, <1>9, <3>1, <3>2, TickAges, PipelineFacts
    <3>4. s.left <= StageLatency[LastStage]
      BY <1>2, <3>1, <3>2, PipelineFacts DEF Pipelined, PipelineOK
    <3>5. s.left \in Nat /\ StageLatency[LastStage] \in Nat /\ StageLatency[LastStage] <= 1
      BY <1>2, <3>2, KindFacts, StageFacts DEF ShortResultAdder
    <3>6. QED
      BY <3>3, <3>4, <3>5
  <2>2. QED
    BY <2>1 DEF LeavesInTime
<1>10. QED
  BY <1>5, <1>6, <1>7, <1>8, <1>9, Steps

\* With a result adder of a cycle at most, what it adds is over when a control instruction has
\* begun: its cycle is the one in which that one has left decode.
LEMMA BeforeControlIsOver ==
  ASSUME InTimeInv, ReleasedAtLast, LeavesInTime, StagesInTime
  PROVE  OutputAfterCompute
<1> SUFFICES ASSUME Quiet, control # Idle, NEW i \in 1 .. control.ins - 1,
                    program[i].unit = "cim_compute"
             PROVE  i \in finished /\ ~ InMacroGroups(i)
  BY DEF OutputAfterCompute
<1>1. IInv /\ Pipelined /\ FrontTypes /\ FinishIsOver
  BY FinishedIsOut DEF InTimeInv, IInv
<1>2. control.ins \in TakenBy("cim_control") /\ control.ins \in ControlLeft
  BY <1>1 DEF IInv, ControlTypes, ControlLeft
<1>3. control.ins \in Nat /\ next_ins \in Nat /\ control.ins < next_ins
  BY <1>1, <1>2, TakenFacts DEF Id
<1>4. i \in TakenBy("cim_compute") /\ i < control.ins /\ i \in Nat
  BY <1>3 DEF TakenBy
<1>5. i \notin booked
  BY <1>1, <1>2, <1>3, <1>4, ControlBefore
<1>6. ASSUME NEW g \in Groups, LastGroup(g, i), stage[g][0][LastStage].ins = i
      PROVE  FALSE
  <2>1. PICK s \in StageType : s = stage[g][0][LastStage]
    <3>1. LastStage \in Stages /\ 0 \in Pipelines
      BY StageFacts, PipelineFacts DEF LastStage
    <3>2. stage \in [Groups -> [Pipelines -> [Stages -> StageType]]]
      BY <1>1 DEF IInv, GroupTypes
    <3>3. QED
      BY <3>1, <3>2
  <2>2. s # Idle
    BY <1>1, <1>4, <1>6, <2>1, KindFacts, TakenFacts DEF Id
  <2>3. s.left # 0
    BY <1>1, <2>1, <2>2, StagesGoOn, StageFacts, PipelineFacts DEF LastStage
  <2>4. \A j \in ControlLeft : j < s.ins
    BY <1>6, <2>1, <2>2, <2>3 DEF LeavesInTime
  <2>5. QED
    BY <1>2, <1>3, <1>4, <1>6, <2>1, <2>4
<1>7. i \in finished
  BY <1>4, <1>5, <1>6 DEF ReleasedAtLast, ReleasedAt
<1>8. QED
  BY <1>1, <1>7 DEF FinishIsOver

\* "needs to wait until the cim-compute before it has been executed" (doc/ISA.md:172): it has,
\* if no stage is slower than the IPU and the result adder takes a cycle at most.
THEOREM OutputAfterComputeHolds ==
  ASSUME StagesInTime, ShortResultAdder
  PROVE  Spec => []OutputAfterCompute
<1>1. Init => ReleasedAtLast /\ LeavesInTime
  <2>1. Init => ReleasedAtLast
    BY PipelineFacts DEF Init, ReleasedAtLast, AtLast, TakenBy
  <2>2. Init => LeavesInTime
    BY PipelineFacts, StageFacts DEF Init, LeavesInTime, LastStage
  <2>3. QED
    BY <2>1, <2>2
<1>2. InTimeInv /\ ReleasedAtLast /\ LeavesInTime /\ [Next]_vars => (ReleasedAtLast /\ LeavesInTime)'
  BY ReleasedStep, LeavesStep DEF InTimeInv
<1>3. InTimeInv /\ ReleasedAtLast /\ LeavesInTime => OutputAfterCompute
  BY BeforeControlIsOver
<1>4. QED
  BY <1>1, <1>2, <1>3, InTimeInvariance, PTL DEF Spec
=============================================================================
