------------------------ MODULE TransmitSocketProofs ------------------------
(***************************************************************************)
(* TransmitSocket is proved correct for any cores and any programs, those  *)
(* that never complete included: whoever confirms a transfer finds the     *)
(* sender waiting for it (HandshakeConfirmed), and data always finds the   *)
(* receive it is for (DataHasReader).                                      *)
(*                                                                         *)
(* The argument follows one handshake.  Of a sender that waits there is    *)
(* one trace at most: its message, the entry in the map of the receiver,   *)
(* or the confirmation on its way back.  From the confirmation on, the     *)
(* send holds a claim to the read stage of the receiver, which waits with  *)
(* the receive it met; since a receive meets one send only, no other data  *)
(* can arrive there first.                                                 *)
(***************************************************************************)
EXTENDS TransmitSocket, TLAPS, SequenceTheorems

StageType == [op : Nat, at : {"idle", "wait_receiver_ready", "receiver_ready",
                              "wait_sender_ready", "sender_ready", "issued",
                              "wait_data_ready", "wait_load", "read", "wait_store", "written"}]

MessageType == [status : {"sender_ready", "receiver_ready", "send_data", "transport"},
                src : Cores, dst : Cores \cup {NoCore}, tag : Tags \cup {-1}, op : Nat]

Sends(c, op) == Program[c][op].type = "send"

Receives(c, op) == Program[c][op].type = "receive"

Types ==
  /\ pc \in [Cores -> Nat]
  /\ issue \in [Cores -> StageType]
  /\ read \in [Cores -> StageType]
  /\ write \in [Cores -> StageType]
  /\ expected_receiver_core_id \in [Cores -> Cores \cup {NoCore}]
  /\ expected_transfer_id_tag \in [Cores -> Tags \cup {-1}]
  /\ expected_sender_core_id \in [Cores -> Cores \cup {NoCore}]
  /\ receiver_waiting_sender_map \in [Cores -> [Cores -> Tags \cup {-1}]]
  /\ matched \subseteq (Cores \X Nat) \X (Cores \X Nat)

\* A queue holds messages of its core, and no message of a handshake twice.
QueueOK(queue) ==
  /\ queue \in [Cores -> Seq(MessageType)]
  /\ \A c \in Cores : \A i \in DOMAIN queue[c] : queue[c][i].src = c
  /\ \A c \in Cores : \A i, j \in DOMAIN queue[c] :
       queue[c][i] = queue[c][j] /\ queue[c][i].status # "transport" => i = j

\* All the messages of handshakes that are under way: what the queues are to the
\* rest of the invariant.
Handshakes(queue) ==
  UNION {{m \in Range(queue[c]) : m.status # "transport"} : c \in Cores}

InFlight == Handshakes(pending_queue)

\* A busy stage has a transfer of its core, of a kind that waits there, and the
\* later the stage the earlier the transfer.
StagesOK(c) ==
  /\ pc[c] \in 1 .. Len(Program[c]) + 1
  /\ issue[c] = Idle \/ /\ issue[c].at \in StageAt.issue
                        /\ issue[c].op \in DOMAIN Program[c] /\ issue[c].op < pc[c]
  /\ issue[c].at \in {"wait_receiver_ready", "receiver_ready"} => Sends(c, issue[c].op)
  /\ issue[c].at \in {"wait_sender_ready", "sender_ready"} => Receives(c, issue[c].op)
  /\ read[c] = Idle \/ /\ read[c].at \in StageAt.read
                       /\ read[c].op \in DOMAIN Program[c] /\ read[c].op < pc[c]
                       /\ issue[c] # Idle => read[c].op < issue[c].op
  /\ read[c].at = "wait_data_ready" => Receives(c, read[c].op)
  /\ read[c].at = "wait_load" => Program[c][read[c].op].type = "global_load"
  /\ write[c] = Idle \/ /\ write[c].at \in StageAt.write
                        /\ write[c].op \in DOMAIN Program[c]

\* A sender that waits expects what its transfer names.
SenderExpects(s) ==
  issue[s].at = "wait_receiver_ready" =>
    /\ expected_receiver_core_id[s] = Program[s][issue[s].op].peer
    /\ expected_transfer_id_tag[s] = Program[s][issue[s].op].tag

\* A receive that was woken, or issued, has its sender in the map; one that was
\* issued has met it.
ReceiverOK(c) ==
  LET s == Program[c][issue[c].op].peer
  IN  /\ issue[c].at = "wait_sender_ready" => expected_sender_core_id[c] = s
      /\ issue[c].at = "sender_ready" => receiver_waiting_sender_map[c][s] # -1
      /\ issue[c].at = "issued" /\ Receives(c, issue[c].op) =>
           /\ receiver_waiting_sender_map[c][s] # -1
           /\ <<<<s, issue[s].op>>, <<c, issue[c].op>>>> \in matched

\* An entry of the map: its sender waits, for this core and with this tag.
MapOK(c, s) ==
  receiver_waiting_sender_map[c][s] # -1 =>
    /\ issue[s].at = "wait_receiver_ready"
    /\ expected_receiver_core_id[s] = c
    /\ expected_transfer_id_tag[s] = receiver_waiting_sender_map[c][s]

\* The send of core s is sure of the read stage of its receiver.
Claims(s, op) ==
  LET r == Program[s][op].peer
  IN  /\ read[r].at = "wait_data_ready"
      /\ <<<<s, op>>, <<r, read[r].op>>>> \in matched

\* So it is from the confirmation until the data arrives.
ClaimsOK(s) ==
  /\ issue[s].at \in {"receiver_ready", "issued"} /\ Sends(s, issue[s].op) =>
       Claims(s, issue[s].op)
  /\ read[s].at = "read" /\ Sends(s, read[s].op) => Claims(s, read[s].op)

\* A message carries what the program says of its transfer.
MessageOK(m) ==
  /\ m.op \in DOMAIN Program[m.src]
  /\ m.dst = Program[m.src][m.op].peer /\ m.dst \in Cores
  /\ IF m.status = "receiver_ready" THEN Receives(m.src, m.op) ELSE Sends(m.src, m.op)

\* The message of a sender that waits: the only trace of it, if there is one.
SenderReadyOK(m) ==
  m.status = "sender_ready" =>
    /\ issue[m.src].op = m.op /\ issue[m.src].at = "wait_receiver_ready"
    /\ m.tag = Program[m.src][m.op].tag
    /\ receiver_waiting_sender_map[m.dst][m.src] = -1
    /\ \A n \in InFlight : n.status = "receiver_ready" => n.dst # m.src

\* A confirmation: its sender waits for it, and the read stage of the receiver
\* waits for the data.
ReceiverReadyOK(m) ==
  m.status = "receiver_ready" =>
    /\ Confirms(m)
    /\ issue[m.dst].at = "wait_receiver_ready"
    /\ read[m.src].op = m.op /\ read[m.src].at = "wait_data_ready"
    /\ <<<<m.dst, issue[m.dst].op>>, <<m.src, m.op>>>> \in matched
    /\ receiver_waiting_sender_map[m.src][m.dst] = -1

\* Data: of an earlier transfer than those in the stages, and with a claim.
DataOK(m) ==
  m.status = "send_data" =>
    /\ m.op < pc[m.src]
    /\ issue[m.src] # Idle => m.op < issue[m.src].op
    /\ read[m.src] # Idle => m.op < read[m.src].op
    /\ Claims(m.src, m.op)

\* Two messages of a core under way are of two kinds or two transfers.
Alone(m) ==
  \A n \in InFlight :
    m.src = n.src /\ m.status = n.status /\ m.op = n.op => m = n

\* A receive meets one send, once it has found or awaited it.
MetOnce ==
  /\ \A m \in matched :
       LET c == m[2][1]
       IN  /\ m[2][2] < pc[c]
           /\ issue[c].at \in {"wait_sender_ready", "sender_ready"} => m[2][2] # issue[c].op
  /\ \A m, n \in matched : m[2] = n[2] => m = n

CoresOK ==
  \A c \in Cores : StagesOK(c) /\ SenderExpects(c) /\ ReceiverOK(c) /\ ClaimsOK(c)

MessagesOK ==
  \A m \in InFlight :
    MessageOK(m) /\ SenderReadyOK(m) /\ ReceiverReadyOK(m) /\ DataOK(m) /\ Alone(m)

IInv ==
  /\ Types
  /\ QueueOK(pending_queue)
  /\ CoresOK
  /\ MessagesOK
  /\ \A c, s \in Cores : MapOK(c, s)
  /\ MetOnce

-----------------------------------------------------------------------------
(***************************************************************************)
(* Lemmas about programs and queues.                                       *)
(***************************************************************************)

\* Every transfer has a type, a peer and a tag of the program.
LEMMA ProgramTypes ==
  /\ \A c \in Cores : Program[c] \in Seq(Transfer) /\ Len(Program[c]) \in Nat
  /\ \A c \in Cores : DOMAIN Program[c] = 1 .. Len(Program[c])
  /\ \A c \in Cores : \A i \in DOMAIN Program[c] :
       /\ i \in Nat
       /\ Program[c][i].type \in TransferType
       /\ Program[c][i].peer \in Cores \cup {NoCore}
       /\ Program[c][i].tag \in Tags
       /\ Sends(c, i) \/ Receives(c, i) => Program[c][i].peer \in Cores
  /\ Tags \subseteq Nat
<1>1. \A c \in Cores : /\ Program[c] \in Seq(Transfer) /\ Len(Program[c]) \in Nat
                       /\ DOMAIN Program[c] = 1 .. Len(Program[c])
  BY ProgramAssumption, LenProperties
<1>2. ASSUME NEW c \in Cores, NEW i \in DOMAIN Program[c]
      PROVE  /\ i \in Nat
             /\ Program[c][i] \in Transfer
             /\ Program[c][i].tag \in Tags
             /\ Sends(c, i) \/ Receives(c, i) => Program[c][i].peer \in Cores
  <2>1. i \in Nat /\ Program[c][i] \in Transfer
    BY <1>1, ElementOfSeq
  <2>2. <<c, i>> \in UNION {{d} \X DOMAIN Program[d] : d \in Cores}
    OBVIOUS
  <2>3. Program[c][i].tag \in Tags
    BY <2>2 DEF Tags
  <2>4. QED
    BY <2>1, <2>3, ProgramAssumption DEF Sends, Receives
<1>3. Tags \subseteq Nat
  BY <1>2 DEF Tags, Transfer
<1>4. QED
  BY <1>1, <1>2, <1>3 DEF Transfer

\* A stage that goes on keeps its transfer, and the other cores keep their stages.
LEMMA GoesOn ==
  ASSUME NEW stage, stage \in [Cores -> StageType], NEW c \in Cores,
         NEW at \in {"receiver_ready", "sender_ready", "issued", "read"}
  PROVE  LET next == [stage EXCEPT ![c].at = at]
         IN  /\ next \in [Cores -> StageType]
             /\ next[c].op = stage[c].op /\ next[c].at = at
             /\ \A d \in Cores \ {c} : next[d] = stage[d]
<1>1. stage[c] \in StageType
  OBVIOUS
<1>2. [stage[c] EXCEPT !.at = at] \in StageType
  BY <1>1 DEF StageType
<1>3. [stage[c] EXCEPT !.at = at].op = stage[c].op /\ [stage[c] EXCEPT !.at = at].at = at
  BY <1>1 DEF StageType
<1>4. QED
  BY <1>2, <1>3

\* A message is under way if it is in the queue of its core.
LEMMA UnderWay ==
  ASSUME NEW queue, QueueOK(queue)
  PROVE  /\ Handshakes(queue) \subseteq MessageType
         /\ \A m \in MessageType :
              m \in Handshakes(queue) <=>
                m.status # "transport" /\ \E i \in DOMAIN queue[m.src] : m = queue[m.src][i]
<1>1. ASSUME NEW c \in Cores, NEW i \in DOMAIN queue[c]
      PROVE  queue[c][i] \in MessageType /\ queue[c][i].src = c
  <2>1. queue[c] \in Seq(MessageType)
    BY DEF QueueOK
  <2>2. QED
    BY <2>1, LenProperties, ElementOfSeq DEF QueueOK
<1>2. ASSUME NEW m
      PROVE  m \in Handshakes(queue) <=>
               /\ m.status # "transport"
               /\ \E c \in Cores : \E i \in DOMAIN queue[c] : m = queue[c][i]
  <2>1. ASSUME NEW c \in Cores
        PROVE  m \in Range(queue[c]) <=> \E i \in DOMAIN queue[c] : m = queue[c][i]
    BY DEF Range
  <2>2. QED
    BY <2>1 DEF Handshakes
<1>3. \A m \in MessageType : m.src \in Cores
  BY DEF MessageType
<1>4. QED
  BY <1>1, <1>2, <1>3

\* A message that is sent is under way, and nothing else changes.
LEMMA Enqueued ==
  ASSUME QueueOK(pending_queue), NEW m \in MessageType, m \notin InFlight, Enqueue(m.src, m)
  PROVE  /\ QueueOK(pending_queue')
         /\ m.status # "transport" => InFlight' = InFlight \cup {m}
         /\ m.status = "transport" => InFlight' = InFlight
<1> DEFINE q == pending_queue[m.src]
<1>1. m.src \in Cores /\ q \in Seq(MessageType)
  BY DEF QueueOK, MessageType
<1>2. PICK last \in Nat : last = Len(q) + 1
  BY <1>1, LenProperties
<1>3. /\ Append(q, m) \in Seq(MessageType)
      /\ Len(Append(q, m)) = last
      /\ \A i \in 1 .. Len(q) : Append(q, m)[i] = q[i]
      /\ Append(q, m)[last] = m
  BY <1>1, <1>2, AppendProperties
<1>4. /\ DOMAIN q = 1 .. Len(q) /\ DOMAIN Append(q, m) = 1 .. last
      /\ last \notin DOMAIN q /\ DOMAIN Append(q, m) = DOMAIN q \cup {last}
  BY <1>1, <1>2, <1>3, LenProperties
<1>5. /\ pending_queue' = [pending_queue EXCEPT ![m.src] = Append(q, m)]
      /\ pending_queue' \in [Cores -> Seq(MessageType)]
  BY <1>3 DEF Enqueue, QueueOK
<1>6. ASSUME NEW d \in Cores
      PROVE  /\ d # m.src => pending_queue'[d] = pending_queue[d]
             /\ d = m.src => /\ DOMAIN (pending_queue'[d]) = DOMAIN q \cup {last}
                             /\ \A i \in DOMAIN q : pending_queue'[d][i] = q[i]
                             /\ pending_queue'[d][last] = m
  BY <1>1, <1>3, <1>4, <1>5 DEF QueueOK
<1>7. m.status # "transport" => \A i \in DOMAIN q : q[i] # m
  BY UnderWay DEF InFlight
<1> HIDE DEF q
<1>8. QueueOK(pending_queue')
  <2>1. ASSUME NEW d \in Cores
        PROVE  /\ \A i \in DOMAIN (pending_queue'[d]) : pending_queue'[d][i].src = d
               /\ \A i, j \in DOMAIN (pending_queue'[d]) :
                    pending_queue'[d][i] = pending_queue'[d][j]
                      /\ pending_queue'[d][i].status # "transport" => i = j
    <3>1. CASE d # m.src
      BY <3>1, <1>6 DEF QueueOK
    <3>2. CASE d = m.src
      <4>1. /\ \A i \in DOMAIN q : q[i].src = d
            /\ \A i, j \in DOMAIN q : q[i] = q[j] /\ q[i].status # "transport" => i = j
        BY <3>2 DEF QueueOK, q
      <4>2. QED
        BY <3>2, <4>1, <1>6, <1>7
    <3>3. QED
      BY <3>1, <3>2
  <2>2. QED
    BY <1>5, <2>1 DEF QueueOK
<1>9. ASSUME NEW n \in MessageType
      PROVE  n \in InFlight' <=> n \in InFlight \/ (m.status # "transport" /\ n = m)
  <2>1. n.src \in Cores
    BY DEF MessageType
  <2>2. Handshakes(pending_queue') = InFlight' /\ Handshakes(pending_queue) = InFlight
    BY DEF InFlight
  <2>3. n \in Handshakes(pending_queue') <=>
          /\ n.status # "transport"
          /\ \E i \in DOMAIN (pending_queue'[n.src]) : n = pending_queue'[n.src][i]
    BY <1>8, UnderWay
  <2>4. n \in Handshakes(pending_queue) <=>
          /\ n.status # "transport"
          /\ \E i \in DOMAIN pending_queue[n.src] : n = pending_queue[n.src][i]
    BY UnderWay
  <2>5. CASE n.src # m.src
    BY <2>1, <2>2, <2>3, <2>4, <2>5, <1>6
  <2>6. CASE n.src = m.src
    <3>1. (\E i \in DOMAIN (pending_queue'[n.src]) : n = pending_queue'[n.src][i])
            <=> (\E i \in DOMAIN q : n = q[i]) \/ n = m
      BY <2>1, <2>6, <1>4, <1>6
    <3>2. QED
      BY <2>2, <2>3, <2>4, <2>6, <3>1 DEF q
  <2>7. QED
    BY <2>5, <2>6
<1>10. InFlight \subseteq MessageType /\ InFlight' \subseteq MessageType
  BY <1>8, UnderWay DEF InFlight
<1>11. QED
  <2>1. m.status # "transport" => InFlight' = InFlight \cup {m}
    BY <1>9, <1>10
  <2>2. m.status = "transport" => InFlight' = InFlight
    BY <1>9, <1>10
  <2>3. QED
    BY <1>8, <2>1, <2>2

\* A message that is delivered was under way, and nothing else changes.
LEMMA Dequeued ==
  ASSUME QueueOK(pending_queue), NEW c \in Cores, NEW status, Delivers(c, status)
  PROVE  /\ QueueOK(pending_queue')
         /\ Head(pending_queue[c]) \in MessageType
         /\ Head(pending_queue[c]).src = c
         /\ Head(pending_queue[c]).status = status
         /\ status # "transport" => /\ Head(pending_queue[c]) \in InFlight
                                    /\ InFlight' = InFlight \ {Head(pending_queue[c])}
         /\ status = "transport" => InFlight' = InFlight
<1> DEFINE q == pending_queue[c]
<1>1. PICK m : m = Head(q)
  OBVIOUS
<1>2. q \in Seq(MessageType) /\ q # <<>> /\ m.status = status
  BY <1>1 DEF Delivers, QueueOK
<1>3. /\ Tail(q) \in Seq(MessageType)
      /\ Len(Tail(q)) = Len(q) - 1
      /\ \A i \in 1 .. Len(Tail(q)) : Tail(q)[i] = q[i + 1]
  BY <1>2, HeadTailProperties
<1>4. /\ Len(q) \in Nat \ {0} /\ DOMAIN q = 1 .. Len(q) /\ 1 \in DOMAIN q
      /\ DOMAIN Tail(q) = 1 .. Len(q) - 1
      /\ m = q[1] /\ m \in MessageType /\ m.src = c
  BY <1>1, <1>2, <1>3, LenProperties, EmptySeq, HeadTailProperties DEF QueueOK
<1>5. /\ pending_queue' = [pending_queue EXCEPT ![c] = Tail(q)]
      /\ pending_queue' \in [Cores -> Seq(MessageType)]
  BY <1>3 DEF Delivers, QueueOK
<1>6. ASSUME NEW d \in Cores
      PROVE  /\ d # c => pending_queue'[d] = pending_queue[d]
             /\ d = c => pending_queue'[d] = Tail(q)
  BY <1>5 DEF QueueOK
<1>7. /\ \A i \in DOMAIN Tail(q) : i + 1 \in DOMAIN q /\ i + 1 # 1 /\ Tail(q)[i] = q[i + 1]
      /\ \A i \in DOMAIN q : i # 1 => i - 1 \in DOMAIN Tail(q) /\ Tail(q)[i - 1] = q[i]
  BY <1>3, <1>4
<1>8. QueueOK(pending_queue')
  <2>1. ASSUME NEW i \in DOMAIN Tail(q), NEW j \in DOMAIN Tail(q)
        PROVE  /\ Tail(q)[i].src = c
               /\ Tail(q)[i] = Tail(q)[j] /\ Tail(q)[i].status # "transport" => i = j
    <3>1. i \in Int /\ j \in Int
      BY <1>4
    <3>2. i + 1 = j + 1 => i = j
      BY <3>1
    <3>3. QED
      BY <1>7, <3>2 DEF QueueOK
  <2>2. QED
    BY <1>5, <1>6, <2>1 DEF QueueOK
<1>9. ASSUME NEW n \in MessageType
      PROVE  n \in InFlight' <=> n \in InFlight /\ (status = "transport" \/ n # m)
  <2>1. n.src \in Cores
    BY DEF MessageType
  <2>2. CASE n.src # c
    <3>1. n # m /\ pending_queue'[n.src] = pending_queue[n.src]
      BY <2>1, <2>2, <1>4, <1>6
    <3>2. n \in Handshakes(pending_queue') <=>
            /\ n.status # "transport"
            /\ \E i \in DOMAIN (pending_queue'[n.src]) : n = pending_queue'[n.src][i]
      BY <1>8, UnderWay
    <3>3. n \in Handshakes(pending_queue) <=>
            /\ n.status # "transport"
            /\ \E i \in DOMAIN pending_queue[n.src] : n = pending_queue[n.src][i]
      BY UnderWay
    <3>4. QED
      BY <3>1, <3>2, <3>3 DEF InFlight
  <2>3. CASE n.src = c
    <3>1. n \in InFlight' <=> n.status # "transport" /\ \E i \in DOMAIN Tail(q) : n = Tail(q)[i]
      <4>1. n \in Handshakes(pending_queue') <=>
              /\ n.status # "transport"
              /\ \E i \in DOMAIN (pending_queue'[c]) : n = pending_queue'[c][i]
        BY <2>3, <1>8, UnderWay
      <4>2. QED
        BY <4>1, <1>6 DEF InFlight
    <3>2. n \in InFlight <=> n.status # "transport" /\ \E i \in DOMAIN q : n = q[i]
      BY <2>3, UnderWay DEF InFlight
    <3>3. n.status # "transport" =>
            ((\E i \in DOMAIN Tail(q) : n = Tail(q)[i])
               <=> (\E i \in DOMAIN q : n = q[i]) /\ (status = "transport" \/ n # m))
      <4>1. \A i \in DOMAIN q : n.status # "transport" /\ n = q[i] /\ n = q[1] => i = 1
        <5>1. \A i, j \in DOMAIN q : q[i] = q[j] /\ q[i].status # "transport" => i = j
          BY DEF QueueOK
        <5>2. QED
          BY <5>1, <1>4
      <4>2. (\E i \in DOMAIN q : n = q[i])
              <=> n = q[1] \/ \E i \in DOMAIN Tail(q) : n = Tail(q)[i]
        <5>1. ASSUME NEW i \in DOMAIN q, n = q[i], n # q[1]
              PROVE  \E k \in DOMAIN Tail(q) : n = Tail(q)[k]
          BY <5>1, <1>7
        <5>2. QED
          BY <5>1, <1>4, <1>7
      <4>3. n.status # "transport" /\ n = q[1] => ~ \E i \in DOMAIN Tail(q) : n = Tail(q)[i]
        BY <4>1, <1>7
      <4>4. QED
        BY <4>2, <4>3, <1>2, <1>4
    <3>4. QED
      BY <3>1, <3>2, <3>3
  <2>4. QED
    BY <2>2, <2>3
<1>10. status # "transport" => m \in InFlight
  BY <1>2, <1>4, UnderWay DEF InFlight
<1>11. InFlight \subseteq MessageType /\ InFlight' \subseteq MessageType
  BY <1>8, UnderWay DEF InFlight
<1>12. QED
  BY <1>1, <1>2, <1>4, <1>8, <1>9, <1>10, <1>11

-----------------------------------------------------------------------------
(***************************************************************************)
(* Most steps are quiet: one core goes on, past nothing that another waits *)
(* for.  What they do to the other cores and to the messages under way is  *)
(* the same.                                                               *)
(***************************************************************************)
OthersUnchanged(c) ==
  \A d \in Cores \ {c} :
    /\ pc'[d] = pc[d] /\ issue'[d] = issue[d] /\ read'[d] = read[d] /\ write'[d] = write[d]
    /\ expected_receiver_core_id'[d] = expected_receiver_core_id[d]
    /\ expected_transfer_id_tag'[d] = expected_transfer_id_tag[d]
    /\ expected_sender_core_id'[d] = expected_sender_core_id[d]

QuietStep(c) ==
  /\ OthersUnchanged(c)
  /\ receiver_waiting_sender_map' = receiver_waiting_sender_map
  /\ matched \subseteq matched'
  /\ issue[c].at = "wait_receiver_ready" =>
       /\ issue'[c] = issue[c]
       /\ expected_receiver_core_id'[c] = expected_receiver_core_id[c]
       /\ expected_transfer_id_tag'[c] = expected_transfer_id_tag[c]
  /\ read[c].at = "wait_data_ready" => read'[c] = read[c]
  /\ pc'[c] \in Nat /\ pc'[c] >= pc[c]
  /\ \/ issue'[c] = Idle
     \/ issue[c] # Idle /\ issue'[c].op = issue[c].op
     \/ issue'[c].op = pc[c]
  /\ \/ read'[c] = Idle
     \/ read[c] # Idle /\ read'[c].op = read[c].op
     \/ issue[c] # Idle /\ read'[c].op = issue[c].op

\* The invariant of one core, and of one message.
CoreOK(c) == StagesOK(c) /\ SenderExpects(c) /\ ReceiverOK(c) /\ ClaimsOK(c)

LEMMA QuietClaims ==
  ASSUME Types, NEW c \in Cores, QuietStep(c),
         NEW s \in Cores, NEW i \in DOMAIN Program[s], Sends(s, i), Claims(s, i)
  PROVE  Claims(s, i)'
<1>1. Program[s][i].peer \in Cores
  BY ProgramTypes
<1>2. read'[Program[s][i].peer] = read[Program[s][i].peer] /\ matched \subseteq matched'
  BY <1>1 DEF QuietStep, OthersUnchanged, Claims
<1>3. QED
  BY <1>2 DEF Claims

\* The cores that do not move keep their part of the invariant.
LEMMA QuietCores ==
  ASSUME IInv, NEW c \in Cores, QuietStep(c), NEW d \in Cores \ {c}
  PROVE  CoreOK(d)'
<1>1. CoreOK(d)
  BY DEF IInv, CoresOK, CoreOK
<1>2. StagesOK(d)' /\ SenderExpects(d)'
  BY <1>1 DEF CoreOK, QuietStep, OthersUnchanged, StagesOK, SenderExpects
<1>3. ReceiverOK(d)'
  <2>1. issue'[d] = issue[d] /\ expected_sender_core_id'[d] = expected_sender_core_id[d]
    BY DEF QuietStep, OthersUnchanged
  <2>2. \A s \in Cores : issue[s].at = "wait_receiver_ready" => issue'[s] = issue[s]
    BY DEF QuietStep, OthersUnchanged
  <2>3. issue[d].at = "issued" /\ Receives(d, issue[d].op)
          => Program[d][issue[d].op].peer \in Cores
    BY <1>1, ProgramTypes DEF CoreOK, StagesOK, Idle
  <2>4. \A s \in Cores : receiver_waiting_sender_map[d][s] # -1 => issue'[s] = issue[s]
    BY <2>2 DEF IInv, MapOK
  <2>5. QED
    BY <1>1, <2>1, <2>3, <2>4 DEF CoreOK, ReceiverOK, QuietStep
<1>4. ClaimsOK(d)'
  <2>1. issue'[d] = issue[d] /\ read'[d] = read[d]
    BY DEF QuietStep, OthersUnchanged
  <2>2. /\ issue[d].at \in {"receiver_ready", "issued"} => issue[d].op \in DOMAIN Program[d]
        /\ read[d].at = "read" => read[d].op \in DOMAIN Program[d]
    BY <1>1 DEF CoreOK, StagesOK, Idle
  <2>3. Types
    BY DEF IInv
  <2>4. QED
    BY <1>1, <2>1, <2>2, <2>3, QuietClaims DEF CoreOK, ClaimsOK
<1>5. QED
  BY <1>2, <1>3, <1>4 DEF CoreOK

\* So do the messages under way, if the step confirms nothing.
LEMMA QuietMessages ==
  ASSUME IInv, NEW c \in Cores, QuietStep(c), NEW m \in InFlight,
         \A n \in InFlight' \ InFlight : n.status # "receiver_ready"
  PROVE  MessageOK(m)' /\ SenderReadyOK(m)' /\ ReceiverReadyOK(m)' /\ DataOK(m)'
<1>1. MessageOK(m) /\ SenderReadyOK(m) /\ ReceiverReadyOK(m) /\ DataOK(m) /\ Types
  BY DEF IInv, MessagesOK
<1>2. m \in MessageType /\ m.src \in Cores /\ m.op \in Nat /\ m.dst \in Cores
  BY <1>1, UnderWay DEF IInv, InFlight, MessageType, MessageOK
<1>3. \A s \in Cores : issue[s].at = "wait_receiver_ready" =>
        /\ issue'[s] = issue[s]
        /\ expected_receiver_core_id'[s] = expected_receiver_core_id[s]
        /\ expected_transfer_id_tag'[s] = expected_transfer_id_tag[s]
  BY DEF QuietStep, OthersUnchanged
<1>4. \A s \in Cores : read[s].at = "wait_data_ready" => read'[s] = read[s]
  BY DEF QuietStep, OthersUnchanged
<1>5. receiver_waiting_sender_map' = receiver_waiting_sender_map /\ matched \subseteq matched'
  BY DEF QuietStep
<1>6. MessageOK(m)'
  BY <1>1 DEF MessageOK
<1>7. SenderReadyOK(m)'
  BY <1>1, <1>2, <1>3, <1>5 DEF SenderReadyOK
<1>8. ReceiverReadyOK(m)'
  BY <1>1, <1>2, <1>3, <1>4, <1>5 DEF ReceiverReadyOK, Confirms
<1>9. DataOK(m)'
  <2> SUFFICES ASSUME m.status = "send_data" PROVE DataOK(m)'
    BY DEF DataOK
  <2>1. Claims(m.src, m.op)'
    BY <1>1, <1>2, QuietClaims DEF DataOK, MessageOK
  <2>2. StagesOK(m.src) /\ pc[m.src] \in Nat
    BY <1>1, <1>2 DEF IInv, CoresOK, Types
  <2>3. CASE m.src = c
    <3>1. m.op < pc'[c]
      BY <1>1, <1>2, <2>2, <2>3 DEF DataOK, QuietStep
    <3>2. issue'[c] # Idle => m.op < issue'[c].op
      BY <1>1, <1>2, <2>3 DEF DataOK, QuietStep
    <3>3. read'[c] # Idle => m.op < read'[c].op
      BY <1>1, <1>2, <2>3 DEF DataOK, QuietStep
    <3>4. QED
      BY <2>1, <2>3, <3>1, <3>2, <3>3 DEF DataOK
  <2>4. CASE m.src # c
    BY <1>1, <1>2, <2>1, <2>4 DEF DataOK, QuietStep, OthersUnchanged
  <2>5. QED
    BY <2>3, <2>4
<1>10. QED
  BY <1>6, <1>7, <1>8, <1>9

\* So do the entries of the maps.
LEMMA QuietMaps ==
  ASSUME IInv, NEW c \in Cores, QuietStep(c), NEW d \in Cores, NEW s \in Cores
  PROVE  MapOK(d, s)'
BY DEF IInv, MapOK, QuietStep, OthersUnchanged

\* A receive that starts to wait has met none, and one that has met waits no more.
LEMMA QuietMet ==
  ASSUME IInv, NEW c \in Cores, OthersUnchanged(c), matched \subseteq matched',
         pc'[c] \in Nat, pc'[c] >= pc[c],
         issue'[c].at \in {"wait_sender_ready", "sender_ready"} =>
           \/ issue[c].at = issue'[c].at /\ issue[c].op = issue'[c].op
           \/ issue'[c].op = pc[c],
         \A m \in matched' \ matched :
           /\ m[2][1] = c /\ m[2][2] < pc'[c]
           /\ issue'[c].at \notin {"wait_sender_ready", "sender_ready"}
           /\ \A n \in matched' : n[2] = m[2] => n = m
  PROVE  MetOnce'
<1>1. ASSUME NEW m \in matched
      PROVE  /\ m[2][2] < pc'[m[2][1]]
             /\ issue'[m[2][1]].at \in {"wait_sender_ready", "sender_ready"} =>
                  m[2][2] # issue'[m[2][1]].op
  <2>1. /\ m[2][2] < pc[m[2][1]] /\ m[2][1] \in Cores /\ m[2][2] \in Nat
        /\ pc[m[2][1]] \in Nat
        /\ issue[m[2][1]].at \in {"wait_sender_ready", "sender_ready"} =>
             m[2][2] # issue[m[2][1]].op
    BY DEF IInv, MetOnce, Types
  <2>2. QED
    BY <2>1 DEF OthersUnchanged
<1>2. ASSUME NEW m \in matched' \ matched
      PROVE  /\ m[2][2] < pc'[m[2][1]]
             /\ issue'[m[2][1]].at \in {"wait_sender_ready", "sender_ready"} =>
                  m[2][2] # issue'[m[2][1]].op
  OBVIOUS
<1>3. ASSUME NEW m \in matched', NEW n \in matched', m[2] = n[2]
      PROVE  m = n
  <2>1. CASE m \in matched /\ n \in matched
    BY <1>3, <2>1 DEF IInv, MetOnce
  <2>2. CASE m \notin matched \/ n \notin matched
    BY <1>3, <2>2
  <2>3. QED
    BY <2>1, <2>2
<1>4. QED
  BY <1>1, <1>2, <1>3 DEF MetOnce

\* A quiet step keeps the invariant if it keeps what it is responsible for.
LEMMA Quiet ==
  ASSUME IInv, NEW c \in Cores, QuietStep(c), Types', CoreOK(c)', MetOnce',
         QueueOK(pending_queue'),
         \A m \in InFlight' \ InFlight :
           /\ MessageOK(m)' /\ SenderReadyOK(m)' /\ DataOK(m)'
           /\ m.status # "receiver_ready"
           /\ m.src = c
           /\ \A n \in InFlight :
                n.src = c /\ n.status = m.status => n.op # m.op,
         \A m, n \in InFlight' \ InFlight : m = n
  PROVE  IInv'
<1>1. CoresOK'
  BY QuietCores DEF CoresOK, CoreOK
<1>2. ASSUME NEW m \in InFlight'
      PROVE  MessageOK(m)' /\ SenderReadyOK(m)' /\ ReceiverReadyOK(m)' /\ DataOK(m)'
  <2>1. CASE m \in InFlight
    BY <2>1, QuietMessages
  <2>2. CASE m \notin InFlight
    BY <1>2, <2>2 DEF ReceiverReadyOK
  <2>3. QED
    BY <2>1, <2>2
<1>3. ASSUME NEW m \in InFlight', NEW n \in InFlight',
             m.src = n.src, m.status = n.status, m.op = n.op
      PROVE  m = n
  <2>1. m \in InFlight /\ n \in InFlight => m = n
    BY <1>3 DEF IInv, MessagesOK, Alone
  <2>2. QED
    BY <1>3, <2>1
<1>4. MessagesOK'
  BY <1>2, <1>3 DEF MessagesOK, Alone
<1>5. QED
  BY <1>1, <1>4, QuietMaps DEF IInv

-----------------------------------------------------------------------------
(***************************************************************************)
(* The steps of the issue stage.                                           *)
(***************************************************************************)

\* The transfer that is started.
LEMMA Started ==
  ASSUME IInv, NEW c \in Cores, NEW type, Starts(c, type)
  PROVE  /\ pc[c] \in Nat /\ pc[c] \in DOMAIN Program[c]
         /\ Program[c][pc[c]].type \in type
         /\ issue[c] = Idle /\ issue[c].at = "idle"
         /\ pc' \in [Cores -> Nat]
         /\ pc'[c] = pc[c] + 1 /\ pc'[c] \in 1 .. Len(Program[c]) + 1
         /\ \A d \in Cores : d # c => pc'[d] = pc[d]
BY ProgramTypes DEF IInv, Types, Starts, Idle

LEMMA SendHandshakeStep == ASSUME IInv, NEW c \in Cores, SendHandshake(c) PROVE IInv'
<1>1. PICK i \in Nat : i = pc[c]
  BY DEF IInv, Types
<1> DEFINE op == Program[c][i]
           m == Message("sender_ready", c, op.peer, op.tag, i)
           busy == [op |-> i, at |-> "wait_receiver_ready"]
<1>2. /\ i \in DOMAIN Program[c] /\ Sends(c, i) /\ issue[c].at = "idle" /\ issue[c] = Idle
      /\ pc' \in [Cores -> Nat] /\ pc'[c] = i + 1 /\ i + 1 \in 1 .. Len(Program[c]) + 1
      /\ \A d \in Cores : d # c => pc'[d] = pc[d]
  BY <1>1, Started DEF SendHandshake, Sends
<1>3. /\ issue' = [issue EXCEPT ![c] = busy]
      /\ expected_receiver_core_id' = [expected_receiver_core_id EXCEPT ![c] = op.peer]
      /\ expected_transfer_id_tag' = [expected_transfer_id_tag EXCEPT ![c] = op.tag]
      /\ UNCHANGED <<read, write, expected_sender_core_id, receiver_waiting_sender_map, matched>>
      /\ Enqueue(c, m)
  BY <1>1 DEF SendHandshake, IssueAt
<1>4. op.peer \in Cores /\ op.tag \in Tags /\ busy \in StageType
  BY <1>2, ProgramTypes DEF StageType
<1>5. m \in MessageType /\ m.status = "sender_ready" /\ m.src = c
      /\ m.dst = op.peer /\ m.tag = op.tag /\ m.op = i
  BY <1>4 DEF Message, MessageType
<1>6. \A n \in InFlight : n.src = c => n.status # "sender_ready"
  BY <1>2 DEF IInv, MessagesOK, SenderReadyOK
<1>7. QueueOK(pending_queue') /\ InFlight' = InFlight \cup {m}
  BY <1>3, <1>5, <1>6, Enqueued DEF IInv
<1> HIDE DEF m, busy
<1>8. Types'
  BY <1>2, <1>3, <1>4 DEF IInv, Types
<1>9. /\ issue'[c] = busy /\ busy.op = i /\ busy.at = "wait_receiver_ready" /\ busy # Idle
      /\ expected_receiver_core_id'[c] = op.peer /\ expected_transfer_id_tag'[c] = op.tag
      /\ QuietStep(c)
  BY <1>1, <1>2, <1>3 DEF IInv, Types, QuietStep, OthersUnchanged, Idle, busy
<1>10. CoreOK(c)'
  <2>1. CoreOK(c)
    BY DEF IInv, CoresOK, CoreOK
  <2>2. StagesOK(c)'
    <3>1. read[c].op \in Nat
      BY DEF IInv, Types, StageType
    <3>2. QED
      BY <2>1, <3>1, <1>1, <1>2, <1>3, <1>9 DEF CoreOK, StagesOK, StageAt
  <2>3. SenderExpects(c)' /\ ReceiverOK(c)'
    BY <1>9 DEF SenderExpects, ReceiverOK
  <2>4. ClaimsOK(c)'
    BY <2>1, <1>3, <1>9 DEF CoreOK, ClaimsOK, Claims
  <2>5. QED
    BY <2>2, <2>3, <2>4 DEF CoreOK
<1>11. MessageOK(m)' /\ SenderReadyOK(m)' /\ DataOK(m)'
  <2>1. receiver_waiting_sender_map[op.peer][c] = -1
    BY <1>2, <1>4 DEF IInv, MapOK
  <2>2. \A n \in InFlight : n.status = "receiver_ready" => n.dst # c
    BY <1>2 DEF IInv, MessagesOK, ReceiverReadyOK
  <2>3. SenderReadyOK(m)'
    BY <2>1, <2>2, <1>3, <1>5, <1>7, <1>9 DEF SenderReadyOK
  <2>4. MessageOK(m)' /\ DataOK(m)'
    BY <1>2, <1>4, <1>5 DEF MessageOK, DataOK
  <2>5. QED
    BY <2>3, <2>4
<1>12. MetOnce'
  BY <1>1, <1>2, <1>3, <1>9, QuietMet DEF QuietStep
<1>13. QED
  BY <1>5, <1>6, <1>7, <1>8, <1>9, <1>10, <1>11, <1>12, Quiet

LEMMA SendHandshakeEndStep ==
  ASSUME IInv, NEW c \in Cores, SendHandshakeEnd(c) PROVE IInv'
<1> DEFINE i == issue[c].op
<1>1. /\ issue[c].at = "receiver_ready" /\ issue[c] # Idle
      /\ issue' = [issue EXCEPT ![c].at = "issued"]
      /\ expected_receiver_core_id' = [expected_receiver_core_id EXCEPT ![c] = NoCore]
      /\ expected_transfer_id_tag' = [expected_transfer_id_tag EXCEPT ![c] = -1]
      /\ UNCHANGED <<pc, read, write, expected_sender_core_id, receiver_waiting_sender_map,
                     pending_queue, matched>>
  BY DEF SendHandshakeEnd, Idle
<1>2. CoreOK(c) /\ pc[c] \in Nat /\ i \in Nat
  BY DEF IInv, CoresOK, CoreOK, Types, StageType
<1>3. Types'
  <2>1. issue' \in [Cores -> StageType]
    <3>1. issue \in [Cores -> StageType] /\ issue' = [issue EXCEPT ![c].at = "issued"]
      BY <1>1 DEF IInv, Types
    <3>2. QED
      BY <3>1, GoesOn
  <2>2. /\ expected_receiver_core_id' \in [Cores -> Cores \cup {NoCore}]
        /\ expected_transfer_id_tag' \in [Cores -> Tags \cup {-1}]
    <3>1. /\ expected_receiver_core_id \in [Cores -> Cores \cup {NoCore}]
          /\ expected_transfer_id_tag \in [Cores -> Tags \cup {-1}]
      BY DEF IInv, Types
    <3>2. /\ expected_receiver_core_id' = [expected_receiver_core_id EXCEPT ![c] = NoCore]
          /\ expected_transfer_id_tag' = [expected_transfer_id_tag EXCEPT ![c] = -1]
      BY <1>1
    <3>3. QED
      BY <3>1, <3>2
  <2>3. QED
    BY <1>1, <2>1, <2>2 DEF IInv, Types
<1>4. issue'[c].op = i /\ issue'[c].at = "issued" /\ issue'[c] # Idle
  BY <1>1, GoesOn DEF IInv, Types, Idle
<1>5. QuietStep(c)
  BY <1>1, <1>2, <1>4 DEF IInv, Types, QuietStep, OthersUnchanged
<1>6. CoreOK(c)'
  <2>1. StagesOK(c)'
    BY <1>1, <1>2, <1>4 DEF CoreOK, StagesOK, StageAt
  <2>2. Sends(c, i) /\ ~ Receives(c, i)
    BY <1>1, <1>2 DEF CoreOK, StagesOK, Sends, Receives
  <2>3. SenderExpects(c)' /\ ReceiverOK(c)' /\ ClaimsOK(c)'
    <3>1. SenderExpects(c)' /\ ReceiverOK(c)'
      BY <2>2, <1>4 DEF SenderExpects, ReceiverOK
    <3>2. \A j : Claims(c, j) => Claims(c, j)'
      BY <1>1 DEF Claims
    <3>3. ClaimsOK(c)'
      BY <2>2, <3>2, <1>1, <1>2, <1>4 DEF CoreOK, ClaimsOK
    <3>4. QED
      BY <3>1, <3>3
  <2>4. QED
    BY <2>1, <2>3 DEF CoreOK
<1>7. MetOnce'
  BY <1>1, <1>2, <1>4, <1>5, QuietMet DEF QuietStep
<1>8. InFlight' = InFlight /\ QueueOK(pending_queue')
  BY <1>1 DEF IInv, InFlight
<1>9. QED
  BY <1>3, <1>5, <1>6, <1>7, <1>8, Quiet

LEMMA ReceiveHandshakeStep ==
  ASSUME IInv, NEW c \in Cores, ReceiveHandshake(c) PROVE IInv'
<1>1. PICK i \in Nat : i = pc[c]
  BY DEF IInv, Types
<1> DEFINE op == Program[c][i]
<1>2. /\ i \in DOMAIN Program[c] /\ Receives(c, i) /\ issue[c].at = "idle" /\ issue[c] = Idle
      /\ pc' \in [Cores -> Nat] /\ pc'[c] = i + 1 /\ i + 1 \in 1 .. Len(Program[c]) + 1
      /\ \A d \in Cores : d # c => pc'[d] = pc[d]
  BY <1>1, Started DEF ReceiveHandshake, Receives
<1>3. UNCHANGED <<read, write, expected_receiver_core_id, expected_transfer_id_tag,
                  receiver_waiting_sender_map, pending_queue>>
  BY DEF ReceiveHandshake
<1>4. PICK s \in Cores : s = op.peer
  BY <1>2, ProgramTypes
<1>5. /\ CoreOK(c) /\ read[c].op \in Nat /\ issue[s].op \in Nat
      /\ op.tag \in Nat /\ ~ Sends(c, i)
  BY <1>2, ProgramTypes DEF IInv, CoresOK, CoreOK, Types, StageType, Sends, Receives
<1>6. InFlight' = InFlight /\ QueueOK(pending_queue')
  BY <1>3 DEF IInv, InFlight
<1>7. CASE SenderKnown(c, op)
  <2> DEFINE busy == [op |-> i, at |-> "issued"]
             met == <<<<s, issue[s].op>>, <<c, i>>>>
  <2>1. /\ matched' = matched \cup {met}
        /\ issue' = [issue EXCEPT ![c] = busy]
        /\ expected_sender_core_id' = [expected_sender_core_id EXCEPT ![c] = NoCore]
    BY <1>1, <1>4, <1>7 DEF ReceiveHandshake, Match, IssueAt
  <2>2. busy \in StageType /\ met \in (Cores \X Nat) \X (Cores \X Nat)
    BY <1>5 DEF StageType
  <2>3. Types'
    BY <1>2, <1>3, <2>1, <2>2 DEF IInv, Types
  <2>4. /\ issue'[c] = busy /\ busy.op = i /\ busy.at = "issued" /\ busy # Idle
        /\ QuietStep(c)
    <3>1. issue'[c] = busy /\ busy # Idle
      BY <2>1 DEF IInv, Types, Idle
    <3>2. OthersUnchanged(c)
      <4>1. issue \in [Cores -> StageType]
            /\ expected_sender_core_id \in [Cores -> Cores \cup {NoCore}]
            /\ pc \in [Cores -> Nat]
        BY DEF IInv, Types
      <4>2. \A d \in Cores \ {c} :
              /\ issue'[d] = issue[d] /\ pc'[d] = pc[d]
              /\ expected_sender_core_id'[d] = expected_sender_core_id[d]
        <5>1. \A d \in Cores \ {c} : issue'[d] = issue[d]
          BY <2>1, <4>1
        <5>2. \A d \in Cores \ {c} : expected_sender_core_id'[d] = expected_sender_core_id[d]
          BY <2>1, <4>1
        <5>3. QED
          BY <1>2, <5>1, <5>2
      <4>3. QED
        BY <1>3, <4>2 DEF OthersUnchanged
    <3>3. QED
      BY <1>1, <1>2, <1>3, <2>1, <3>1, <3>2 DEF QuietStep, Idle
  <2> HIDE DEF busy
  <2>5. StagesOK(c)'
    BY <1>1, <1>2, <1>3, <1>5, <2>4 DEF CoreOK, StagesOK, StageAt
  <2>6. receiver_waiting_sender_map[c][s] # -1 /\ s # c /\ issue'[s] = issue[s]
    <3>1. receiver_waiting_sender_map[c][s] # -1
      BY <1>4, <1>5, <1>7 DEF SenderKnown
    <3>2. s # c
      BY <3>1, <1>2 DEF IInv, MapOK
    <3>3. QED
      BY <3>1, <3>2, <2>4 DEF QuietStep, OthersUnchanged
  <2>7. ReceiverOK(c)'
    BY <1>3, <1>4, <2>1, <2>4, <2>6 DEF ReceiverOK
  <2>8. SenderExpects(c)' /\ ClaimsOK(c)'
    BY <1>3, <1>5, <2>1, <2>4 DEF CoreOK, SenderExpects, ClaimsOK, Claims
  <2>9. MetOnce'
    <3>1. \A n \in matched : n[2] # <<c, i>>
      BY <1>1 DEF IInv, MetOnce, Types
    <3>2. \A m \in matched' \ matched :
           /\ m[2][1] = c /\ m[2][2] < pc'[c]
           /\ issue'[c].at \notin {"wait_sender_ready", "sender_ready"}
           /\ \A n \in matched' : n[2] = m[2] => n = m
      <4>1. \A m \in matched' \ matched : m[2][1] = c /\ m[2][2] = i /\ m = met
        BY <2>1
      <4>2. i < pc'[c] /\ issue'[c].at = "issued"
        BY <1>2, <2>4
      <4>3. \A n \in matched' : n[2] = <<c, i>> => n = met
        BY <3>1, <2>1
      <4>4. QED
        BY <4>1, <4>2, <4>3
    <3>3. QED
      BY <3>2, <1>1, <1>2, <2>4, QuietMet DEF QuietStep
  <2>10. QED
    BY <1>6, <2>3, <2>4, <2>5, <2>7, <2>8, <2>9, Quiet DEF CoreOK
<1>8. CASE ~ SenderKnown(c, op)
  <2> DEFINE busy == [op |-> i, at |-> "wait_sender_ready"]
  <2>1. /\ matched' = matched
        /\ issue' = [issue EXCEPT ![c] = busy]
        /\ expected_sender_core_id' = [expected_sender_core_id EXCEPT ![c] = s]
    BY <1>1, <1>4, <1>8 DEF ReceiveHandshake, IssueAt
  <2>2. busy \in StageType
    BY DEF StageType
  <2>3. Types'
    BY <1>2, <1>3, <2>1, <2>2 DEF IInv, Types
  <2>4. /\ issue'[c] = busy /\ busy.op = i /\ busy.at = "wait_sender_ready" /\ busy # Idle
        /\ expected_sender_core_id'[c] = s
        /\ QuietStep(c)
    BY <1>1, <1>2, <1>3, <2>1 DEF IInv, Types, QuietStep, OthersUnchanged, Idle
  <2> HIDE DEF busy
  <2>5. StagesOK(c)'
    BY <1>1, <1>2, <1>3, <1>5, <2>4 DEF CoreOK, StagesOK, StageAt
  <2>6. SenderExpects(c)' /\ ReceiverOK(c)' /\ ClaimsOK(c)'
    BY <1>3, <1>4, <1>5, <2>1, <2>4 DEF CoreOK, SenderExpects, ReceiverOK, ClaimsOK, Claims
  <2>7. MetOnce'
    BY <1>1, <1>2, <2>1, <2>4, QuietMet DEF QuietStep
  <2>8. QED
    BY <1>6, <2>3, <2>4, <2>5, <2>6, <2>7, Quiet DEF CoreOK
<1>9. QED
  BY <1>7, <1>8

LEMMA ReceiveHandshakeEndStep ==
  ASSUME IInv, NEW c \in Cores, ReceiveHandshakeEnd(c) PROVE IInv'
<1>1. PICK i \in Nat : i = issue[c].op
  BY DEF IInv, Types, StageType
<1> DEFINE s == Program[c][i].peer
           met == <<<<s, issue[s].op>>, <<c, i>>>>
<1>2. /\ issue[c].at = "sender_ready" /\ issue[c] # Idle
      /\ matched' = matched \cup {met}
      /\ issue' = [issue EXCEPT ![c].at = "issued"]
      /\ expected_sender_core_id' = [expected_sender_core_id EXCEPT ![c] = NoCore]
      /\ UNCHANGED <<pc, read, write, expected_receiver_core_id, expected_transfer_id_tag,
                     receiver_waiting_sender_map, pending_queue>>
  BY <1>1 DEF ReceiveHandshakeEnd, Match, Idle
<1>3. /\ CoreOK(c) /\ pc[c] \in Nat
      /\ i \in DOMAIN Program[c] /\ i < pc[c] /\ Receives(c, i) /\ ~ Sends(c, i)
  BY <1>1, <1>2 DEF IInv, CoresOK, CoreOK, Types, StagesOK, Sends, Receives
<1>4. s \in Cores /\ issue[s].op \in Nat
  BY <1>3, ProgramTypes DEF IInv, Types, StageType
<1>5. Types'
  <2>1. issue' \in [Cores -> StageType]
    <3>1. issue \in [Cores -> StageType] /\ issue' = [issue EXCEPT ![c].at = "issued"]
      BY <1>2 DEF IInv, Types
    <3>2. QED
      BY <3>1, GoesOn
  <2>2. met \in (Cores \X Nat) \X (Cores \X Nat)
    BY <1>4
  <2>3. expected_sender_core_id' \in [Cores -> Cores \cup {NoCore}]
    BY <1>2 DEF IInv, Types
  <2>4. QED
    BY <1>2, <2>1, <2>2, <2>3 DEF IInv, Types
<1>6. issue'[c].op = i /\ issue'[c].at = "issued" /\ issue'[c] # Idle
  BY <1>1, <1>2, GoesOn DEF IInv, Types, Idle
<1>7. QuietStep(c)
  <2>1. \A d \in Cores \ {c} :
          issue'[d] = issue[d] /\ expected_sender_core_id'[d] = expected_sender_core_id[d]
    <3>1. issue \in [Cores -> StageType]
          /\ expected_sender_core_id \in [Cores -> Cores \cup {NoCore}]
      BY DEF IInv, Types
    <3>2. QED
      BY <1>2, <3>1
  <2>2. OthersUnchanged(c)
    BY <2>1, <1>2 DEF OthersUnchanged
  <2>3. QED
    BY <2>2, <1>1, <1>2, <1>3, <1>6 DEF QuietStep
<1>8. StagesOK(c)'
  BY <1>1, <1>2, <1>3, <1>6 DEF CoreOK, StagesOK, StageAt
<1>9. issue'[s].op = issue[s].op /\ receiver_waiting_sender_map[c][s] # -1
  <2>1. receiver_waiting_sender_map[c][s] # -1
    BY <1>1, <1>2, <1>3 DEF CoreOK, ReceiverOK
  <2>2. issue'[s].op = issue[s].op
    BY <1>1, <1>2, <1>4, <1>6, <1>7 DEF QuietStep, OthersUnchanged
  <2>3. QED
    BY <2>1, <2>2
<1>10. SenderExpects(c)' /\ ReceiverOK(c)' /\ ClaimsOK(c)'
  <2>1. SenderExpects(c)'
    BY <1>6 DEF SenderExpects
  <2>2. ReceiverOK(c)'
    <3>1. <<<<s, issue'[s].op>>, <<c, i>>>> \in matched'
      BY <1>2, <1>9
    <3>2. receiver_waiting_sender_map'[c][s] # -1
      BY <1>2, <1>9
    <3>3. QED
      BY <3>1, <3>2, <1>6 DEF ReceiverOK
  <2>3. ClaimsOK(c)'
    <3>1. Claims(c, read[c].op) => Claims(c, read[c].op)'
      BY <1>2 DEF Claims
    <3>2. QED
      BY <3>1, <1>2, <1>3, <1>6 DEF CoreOK, ClaimsOK
  <2>4. QED
    BY <2>1, <2>2, <2>3
<1>11. MetOnce'
  <2>1. \A n \in matched : n[2] # <<c, i>>
    BY <1>1, <1>2 DEF IInv, MetOnce
  <2>2. \A m \in matched' \ matched :
         /\ m[2][1] = c /\ m[2][2] < pc'[c]
         /\ issue'[c].at \notin {"wait_sender_ready", "sender_ready"}
         /\ \A n \in matched' : n[2] = m[2] => n = m
    BY <2>1, <1>2, <1>3, <1>6
  <2>3. QED
    BY <2>2, <1>2, <1>3, <1>6, <1>7, QuietMet DEF QuietStep
<1>12. InFlight' = InFlight /\ QueueOK(pending_queue')
  BY <1>2 DEF IInv, InFlight
<1>13. QED
  BY <1>5, <1>7, <1>8, <1>10, <1>11, <1>12, Quiet DEF CoreOK

LEMMA IssueGlobalStep == ASSUME IInv, NEW c \in Cores, IssueGlobal(c) PROVE IInv'
<1>1. PICK i \in Nat : i = pc[c]
  BY DEF IInv, Types
<1> DEFINE busy == [op |-> i, at |-> "issued"]
<1>2. /\ i \in DOMAIN Program[c] /\ ~ Sends(c, i) /\ ~ Receives(c, i)
      /\ issue[c].at = "idle" /\ issue[c] = Idle
      /\ pc' \in [Cores -> Nat] /\ pc'[c] = i + 1 /\ i + 1 \in 1 .. Len(Program[c]) + 1
      /\ \A d \in Cores : d # c => pc'[d] = pc[d]
  BY <1>1, Started DEF IssueGlobal, Sends, Receives
<1>3. /\ issue' = [issue EXCEPT ![c] = busy]
      /\ UNCHANGED <<read, write, expected_receiver_core_id, expected_transfer_id_tag,
                     expected_sender_core_id, receiver_waiting_sender_map, pending_queue,
                     matched>>
  BY <1>1 DEF IssueGlobal, IssueAt, expected
<1>4. CoreOK(c) /\ busy \in StageType /\ read[c].op \in Nat
  BY DEF IInv, CoresOK, CoreOK, Types, StageType
<1>5. Types'
  BY <1>2, <1>3, <1>4 DEF IInv, Types
<1>6. /\ issue'[c] = busy /\ busy.op = i /\ busy.at = "issued" /\ busy # Idle
      /\ QuietStep(c)
  BY <1>1, <1>2, <1>3 DEF IInv, Types, QuietStep, OthersUnchanged, Idle
<1> HIDE DEF busy
<1>7. StagesOK(c)'
  BY <1>1, <1>2, <1>3, <1>4, <1>6 DEF CoreOK, StagesOK, StageAt
<1>8. SenderExpects(c)' /\ ReceiverOK(c)' /\ ClaimsOK(c)'
  BY <1>2, <1>3, <1>4, <1>6 DEF CoreOK, SenderExpects, ReceiverOK, ClaimsOK, Claims
<1>9. MetOnce'
  BY <1>1, <1>2, <1>3, <1>6, QuietMet DEF QuietStep
<1>10. InFlight' = InFlight /\ QueueOK(pending_queue')
  BY <1>3 DEF IInv, InFlight
<1>11. QED
  BY <1>5, <1>6, <1>7, <1>8, <1>9, <1>10, Quiet DEF CoreOK

-----------------------------------------------------------------------------
(***************************************************************************)
(* The steps of the read and the write stage, and of global memory.        *)
(***************************************************************************)

\* Starting a read that waits for no other core.
LEMMA ReadStarts ==
  ASSUME IInv, NEW c \in Cores, NEW type, NEW where \in {"wait_load", "read"},
         StartsRead(c, type, where), "receive" \notin type,
         where = "wait_load" => type = {"global_load"},
         receiver_waiting_sender_map' = receiver_waiting_sender_map
  PROVE  QuietStep(c) /\ Types' /\ CoreOK(c)' /\ MetOnce'
<1>1. PICK i \in Nat : i = issue[c].op
  BY DEF IInv, Types, StageType
<1> DEFINE busy == [op |-> i, at |-> where]
<1>2. /\ issue[c].at = "issued" /\ issue[c] # Idle
      /\ read[c] = Idle /\ read[c].at = "idle"
      /\ Program[c][i].type \in type /\ ~ Receives(c, i)
      /\ read' = [read EXCEPT ![c] = busy]
      /\ issue' = [issue EXCEPT ![c] = Idle]
      /\ UNCHANGED <<pc, write, matched, receiver_waiting_sender_map,
                     expected_receiver_core_id, expected_transfer_id_tag, expected_sender_core_id>>
  BY <1>1 DEF StartsRead, Op, Idle, expected, Receives
<1>3. busy \in StageType /\ Idle \in StageType /\ Idle.at = "idle"
  BY DEF StageType, Idle
<1>4. Types'
  BY <1>2, <1>3 DEF IInv, Types
<1>5. /\ CoreOK(c) /\ i \in DOMAIN Program[c] /\ i < pc[c] /\ pc[c] \in Nat
      /\ issue'[c] = Idle
      /\ read'[c] = busy /\ busy.op = i /\ busy.at = where /\ busy # Idle
  BY <1>1, <1>2 DEF IInv, CoresOK, CoreOK, StagesOK, Types, Idle
<1> HIDE DEF busy
<1>6. QuietStep(c)
  BY <1>1, <1>2, <1>5 DEF IInv, Types, QuietStep, OthersUnchanged
<1>7. StagesOK(c)'
  BY <1>2, <1>3, <1>5 DEF CoreOK, StagesOK, StageAt
<1>8. SenderExpects(c)' /\ ReceiverOK(c)'
  BY <1>3, <1>5 DEF SenderExpects, ReceiverOK
<1>9. ClaimsOK(c)'
  <2>1. Sends(c, i) => Claims(c, i)
    BY <1>1, <1>2, <1>5 DEF CoreOK, ClaimsOK
  <2>2. Sends(c, i) => Claims(c, i)'
    BY <2>1, <1>5, <1>6, QuietClaims DEF IInv
  <2>3. QED
    BY <2>2, <1>3, <1>5 DEF ClaimsOK
<1>10. MetOnce'
  BY <1>2, <1>3, <1>5, <1>6, QuietMet DEF QuietStep
<1>11. QED
  BY <1>4, <1>6, <1>7, <1>8, <1>9, <1>10 DEF CoreOK

LEMMA LoadGlobalStep == ASSUME IInv, NEW c \in Cores, LoadGlobal(c) PROVE IInv'
<1> DEFINE m == Message("transport", c, NoCore, -1, issue[c].op)
<1>1. QuietStep(c) /\ Types' /\ CoreOK(c)' /\ MetOnce'
  BY ReadStarts DEF LoadGlobal
<1>2. m \in MessageType /\ m.status = "transport" /\ m.src = c
  BY DEF IInv, Types, StageType, MessageType, Message
<1>3. m \notin InFlight
  BY <1>2, UnderWay DEF IInv, InFlight
<1>4. QueueOK(pending_queue') /\ InFlight' = InFlight
  BY <1>2, <1>3, Enqueued DEF IInv, LoadGlobal
<1>5. QED
  BY <1>1, <1>4, Quiet

LEMMA ReadLocalStep == ASSUME IInv, NEW c \in Cores, ReadLocal(c) PROVE IInv'
<1>1. QuietStep(c) /\ Types' /\ CoreOK(c)' /\ MetOnce'
  BY ReadStarts DEF ReadLocal
<1>2. QueueOK(pending_queue') /\ InFlight' = InFlight
  BY DEF IInv, InFlight, ReadLocal
<1>3. QED
  BY <1>1, <1>2, Quiet

\* Starting a write.
LEMMA WriteStarts ==
  ASSUME IInv, NEW c \in Cores, NEW type, NEW where \in {"wait_store", "written"},
         StartsWrite(c, type, where)
  PROVE  QuietStep(c) /\ Types' /\ CoreOK(c)' /\ MetOnce'
<1>1. PICK i \in Nat : i = read[c].op
  BY DEF IInv, Types, StageType
<1> DEFINE busy == [op |-> i, at |-> where]
<1>2. /\ read[c].at = "read" /\ read[c] # Idle
      /\ write' = [write EXCEPT ![c] = busy]
      /\ read' = [read EXCEPT ![c] = Idle]
      /\ UNCHANGED <<pc, issue, matched, receiver_waiting_sender_map,
                     expected_receiver_core_id, expected_transfer_id_tag, expected_sender_core_id>>
  BY <1>1 DEF StartsWrite, Idle, expected
<1>3. busy \in StageType /\ Idle \in StageType /\ Idle.at = "idle"
  BY DEF StageType, Idle
<1>4. Types'
  BY <1>2, <1>3 DEF IInv, Types
<1>5. /\ CoreOK(c) /\ i \in DOMAIN Program[c] /\ pc[c] \in Nat
      /\ read'[c] = Idle
      /\ write'[c] = busy /\ busy.op = i /\ busy.at = where /\ busy # Idle
  BY <1>1, <1>2 DEF IInv, CoresOK, CoreOK, StagesOK, Types, Idle
<1> HIDE DEF busy
<1>6. QuietStep(c)
  BY <1>1, <1>2, <1>5 DEF IInv, Types, QuietStep, OthersUnchanged
<1>7. StagesOK(c)'
  BY <1>2, <1>3, <1>5 DEF CoreOK, StagesOK, StageAt
<1>8. SenderExpects(c)' /\ ReceiverOK(c)'
  BY <1>2, <1>5 DEF CoreOK, SenderExpects, ReceiverOK
<1>9. ClaimsOK(c)'
  <2>1. issue[c].at \in {"receiver_ready", "issued"} => issue[c].op \in DOMAIN Program[c]
    BY <1>5 DEF CoreOK, StagesOK, Idle
  <2>2. QED
    BY <2>1, <1>2, <1>3, <1>5, <1>6, QuietClaims DEF IInv, CoreOK, ClaimsOK
<1>10. MetOnce'
  BY <1>2, <1>5, <1>6, QuietMet DEF QuietStep
<1>11. QED
  BY <1>4, <1>6, <1>7, <1>8, <1>9, <1>10 DEF CoreOK

LEMMA StoreGlobalStep == ASSUME IInv, NEW c \in Cores, StoreGlobal(c) PROVE IInv'
<1> DEFINE m == Message("transport", c, NoCore, -1, read[c].op)
<1>1. QuietStep(c) /\ Types' /\ CoreOK(c)' /\ MetOnce'
  BY WriteStarts DEF StoreGlobal
<1>2. m \in MessageType /\ m.status = "transport" /\ m.src = c
  BY DEF IInv, Types, StageType, MessageType, Message
<1>3. m \notin InFlight
  BY <1>2, UnderWay DEF IInv, InFlight
<1>4. QueueOK(pending_queue') /\ InFlight' = InFlight
  BY <1>2, <1>3, Enqueued DEF IInv, StoreGlobal
<1>5. QED
  BY <1>1, <1>4, Quiet

LEMMA WriteLocalStep == ASSUME IInv, NEW c \in Cores, WriteLocal(c) PROVE IInv'
<1>1. QuietStep(c) /\ Types' /\ CoreOK(c)' /\ MetOnce'
  BY WriteStarts DEF WriteLocal
<1>2. QueueOK(pending_queue') /\ InFlight' = InFlight
  BY DEF IInv, InFlight, WriteLocal
<1>3. QED
  BY <1>1, <1>2, Quiet

LEMMA SendDataStep == ASSUME IInv, NEW c \in Cores, SendData(c) PROVE IInv'
<1>1. PICK i \in Nat : i = read[c].op
  BY DEF IInv, Types, StageType
<1> DEFINE op == Program[c][i]
           m == Message("send_data", c, op.peer, op.tag, i)
<1>2. QuietStep(c) /\ Types' /\ CoreOK(c)' /\ MetOnce'
  BY WriteStarts DEF SendData
<1>3. /\ read[c].at = "read" /\ read[c] # Idle /\ Sends(c, i)
      /\ read' = [read EXCEPT ![c] = Idle] /\ UNCHANGED <<pc, issue>>
      /\ Enqueue(c, m)
  BY <1>1 DEF SendData, StartsWrite, Op, Sends, Idle
<1>4. CoreOK(c) /\ i \in DOMAIN Program[c] /\ pc[c] \in Nat /\ read'[c] = Idle
  BY <1>1, <1>3 DEF IInv, CoresOK, CoreOK, StagesOK, Types, StageType
<1>5. op.peer \in Cores /\ op.tag \in Tags
  BY <1>3, <1>4, ProgramTypes
<1>6. m \in MessageType /\ m.status = "send_data" /\ m.src = c
      /\ m.dst = op.peer /\ m.tag = op.tag /\ m.op = i
  BY <1>5 DEF Message, MessageType
<1>7. \A n \in InFlight : n.src = c /\ n.status = "send_data" => n.op # i
  <2>1. \A n \in InFlight : n.src = c /\ n.status = "send_data" => n.op < read[c].op
    BY <1>3 DEF IInv, MessagesOK, DataOK
  <2>2. QED
    BY <2>1, <1>1
<1>8. QueueOK(pending_queue') /\ InFlight' = InFlight \cup {m}
  BY <1>3, <1>6, <1>7, Enqueued DEF IInv
<1> HIDE DEF m
<1>9. MessageOK(m)' /\ SenderReadyOK(m)'
  BY <1>3, <1>4, <1>5, <1>6 DEF MessageOK, SenderReadyOK
<1>10. DataOK(m)'
  <2>1. Claims(c, i)'
    BY <1>1, <1>2, <1>3, <1>4, QuietClaims DEF IInv, CoreOK, ClaimsOK
  <2>2. i < pc[c] /\ (issue[c] # Idle => i < issue[c].op)
    BY <1>1, <1>3, <1>4 DEF CoreOK, StagesOK
  <2>3. QED
    BY <2>1, <2>2, <1>3, <1>4, <1>6 DEF DataOK
<1>11. QED
  BY <1>2, <1>6, <1>7, <1>8, <1>9, <1>10, Quiet

LEMMA WriteEndStep == ASSUME IInv, NEW c \in Cores, WriteEnd(c) PROVE IInv'
<1>1. /\ write' = [write EXCEPT ![c] = Idle]
      /\ UNCHANGED <<pc, issue, read, matched, receiver_waiting_sender_map, pending_queue,
                     expected_receiver_core_id, expected_transfer_id_tag, expected_sender_core_id>>
  BY DEF WriteEnd, expected
<1>2. Types' /\ write'[c] = Idle
  BY <1>1 DEF IInv, Types, Idle, StageType
<1>3. CoreOK(c) /\ pc[c] \in Nat
  BY DEF IInv, CoresOK, CoreOK, Types
<1>4. QuietStep(c)
  BY <1>1, <1>3 DEF IInv, Types, QuietStep, OthersUnchanged
<1>5. CoreOK(c)'
  <2>1. StagesOK(c)'
    BY <1>1, <1>2, <1>3 DEF CoreOK, StagesOK
  <2>2. SenderExpects(c)'
    BY <1>1, <1>3 DEF CoreOK, SenderExpects
  <2>3. ReceiverOK(c)'
    BY <1>1, <1>3 DEF CoreOK, ReceiverOK
  <2>4. ClaimsOK(c)'
    BY <1>1, <1>3 DEF CoreOK, ClaimsOK, Claims
  <2>5. QED
    BY <2>1, <2>2, <2>3, <2>4 DEF CoreOK
<1>6. MetOnce'
  BY <1>1, <1>3, <1>4, QuietMet DEF QuietStep
<1>7. QueueOK(pending_queue') /\ InFlight' = InFlight
  BY <1>1 DEF IInv, InFlight
<1>8. QED
  BY <1>2, <1>4, <1>5, <1>6, <1>7, Quiet

\* The answer of global memory, after the messages that were there before it.
LEMMA TransportStep == ASSUME IInv, NEW c \in Cores, Transport(c) PROVE IInv'
<1>1. /\ QueueOK(pending_queue') /\ InFlight' = InFlight
      /\ read' = Wakes(read, c, "wait_load", "read")
      /\ write' = Wakes(write, c, "wait_store", "written")
      /\ UNCHANGED <<pc, issue, matched, receiver_waiting_sender_map,
                     expected_receiver_core_id, expected_transfer_id_tag, expected_sender_core_id>>
  BY Dequeued DEF IInv, Transport, Delivers, expected
<1>2. CoreOK(c) /\ Types /\ pc[c] \in Nat
  BY DEF IInv, CoresOK, CoreOK, Types
<1>3. /\ read' \in [Cores -> StageType] /\ read'[c].op = read[c].op
      /\ read[c].at # "wait_load" => read'[c] = read[c]
      /\ read[c].at = "wait_load" => read'[c].at = "read"
      /\ \A d \in Cores \ {c} : read'[d] = read[d]
  BY <1>1, <1>2 DEF Types, Wakes, StageType
<1>4. /\ write' \in [Cores -> StageType] /\ write'[c].op = write[c].op
      /\ write[c].at # "wait_store" => write'[c] = write[c]
      /\ write[c].at = "wait_store" => write'[c].at = "written"
      /\ \A d \in Cores \ {c} : write'[d] = write[d]
  BY <1>1, <1>2 DEF Types, Wakes, StageType
<1>5. Types'
  BY <1>1, <1>2, <1>3, <1>4 DEF Types
<1>6. QuietStep(c)
  <2>1. read[c].at = "wait_load" => read[c] # Idle
    BY DEF Idle
  <2>2. OthersUnchanged(c)
    BY <1>1, <1>3, <1>4 DEF OthersUnchanged
  <2>3. QED
    BY <2>1, <2>2, <1>1, <1>2, <1>3 DEF QuietStep
<1>7. StagesOK(c)'
  <2>1. read[c].at = "wait_load" => read[c] # Idle
    BY DEF Idle
  <2>2. write[c].at = "wait_store" => write[c] # Idle
    BY DEF Idle
  <2>3. QED
    BY <2>1, <2>2, <1>1, <1>2, <1>3, <1>4 DEF CoreOK, StagesOK, StageAt
<1>8. SenderExpects(c)' /\ ReceiverOK(c)'
  BY <1>1, <1>2 DEF CoreOK, SenderExpects, ReceiverOK
<1>9. ClaimsOK(c)'
  <2>1. issue[c].at \in {"receiver_ready", "issued"} => issue[c].op \in DOMAIN Program[c]
    BY <1>2 DEF CoreOK, StagesOK, Idle
  <2>2. /\ read[c].at \in {"wait_load", "read"} => read[c].op \in DOMAIN Program[c]
        /\ read[c].at = "wait_load" => ~ Sends(c, read[c].op)
    BY <1>2 DEF CoreOK, StagesOK, Idle, Sends
  <2>3. QED
    BY <2>1, <2>2, <1>1, <1>2, <1>3, <1>6, QuietClaims DEF CoreOK, ClaimsOK
<1>10. MetOnce'
  BY <1>1, <1>2, <1>6, QuietMet DEF QuietStep
<1>11. QED
  BY <1>1, <1>5, <1>6, <1>7, <1>8, <1>9, <1>10, Quiet DEF CoreOK

-----------------------------------------------------------------------------
(***************************************************************************)
(* The steps that touch what another core waits for: the confirmation of a *)
(* receiver, and what the switch delivers.                                 *)
(***************************************************************************)

\* The receiver takes the sender out of its map, confirms, and waits for data.
LEMMA ReceiveDataStep == ASSUME IInv, NEW c \in Cores, ReceiveData(c) PROVE IInv'
<1>1. PICK i \in Nat : i = issue[c].op
  BY DEF IInv, Types, StageType
<1>2. PICK s : s = Program[c][i].peer
  OBVIOUS
<1> DEFINE busy == [op |-> i, at |-> "wait_data_ready"]
<1>3. PICK m : m = Message("receiver_ready", c, s, receiver_waiting_sender_map[c][s], i)
  OBVIOUS
<1>4. /\ issue[c].at = "issued" /\ issue[c] # Idle
      /\ read[c] = Idle /\ read[c].at = "idle"
      /\ Receives(c, i)
      /\ read' = [read EXCEPT ![c] = busy]
      /\ issue' = [issue EXCEPT ![c] = Idle]
      /\ receiver_waiting_sender_map' = [receiver_waiting_sender_map EXCEPT ![c][s] = -1]
      /\ UNCHANGED <<pc, write, matched,
                     expected_receiver_core_id, expected_transfer_id_tag, expected_sender_core_id>>
      /\ Enqueue(c, m)
  <2>1. StartsRead(c, {"receive"}, "wait_data_ready") /\ s = Op(c, issue).peer
    BY <1>1, <1>2 DEF ReceiveData, Op
  <2>2. Enqueue(c, m) /\ receiver_waiting_sender_map' = SenderServed(c, s)
    BY <1>1, <1>3, <2>1 DEF ReceiveData
  <2>3. QED
    BY <1>1, <2>1, <2>2 DEF StartsRead, Op, Idle, expected, Receives, SenderServed
<1>5. CoreOK(c) /\ i \in DOMAIN Program[c] /\ i < pc[c] /\ ~ Sends(c, i) /\ Types
  BY <1>1, <1>4 DEF IInv, CoresOK, CoreOK, StagesOK, Receives, Sends
<1>6. /\ s \in Cores
      /\ receiver_waiting_sender_map[c][s] # -1
      /\ <<<<s, issue[s].op>>, <<c, i>>>> \in matched
  BY <1>1, <1>2, <1>4, <1>5, ProgramTypes DEF CoreOK, ReceiverOK
<1>7. /\ issue[s].at = "wait_receiver_ready" /\ s # c
      /\ expected_receiver_core_id[s] = c
      /\ expected_transfer_id_tag[s] = receiver_waiting_sender_map[c][s]
  BY <1>4, <1>6 DEF IInv, MapOK
<1>8. m \in MessageType /\ m.status = "receiver_ready" /\ m.src = c /\ m.dst = s
      /\ m.tag = receiver_waiting_sender_map[c][s] /\ m.op = i
  BY <1>3, <1>5, <1>6 DEF Message, MessageType, Types
<1>9. \A n \in InFlight : n.status = "receiver_ready" => n.src # c
  BY <1>4 DEF IInv, MessagesOK, ReceiverReadyOK
<1>10. QueueOK(pending_queue') /\ InFlight' = InFlight \cup {m}
  BY <1>4, <1>8, <1>9, Enqueued DEF IInv
<1>11. busy \in StageType /\ Idle \in StageType /\ Idle.at = "idle"
  BY DEF StageType, Idle
<1>12. /\ issue'[c] = Idle /\ read'[c] = busy
       /\ busy.op = i /\ busy.at = "wait_data_ready" /\ busy # Idle
       /\ \A d \in Cores \ {c} : issue'[d] = issue[d] /\ read'[d] = read[d]
  BY <1>4, <1>5 DEF Types, Idle
<1>13. /\ receiver_waiting_sender_map'[c][s] = -1
       /\ receiver_waiting_sender_map' \in [Cores -> [Cores -> Tags \cup {-1}]]
       /\ \A d, e \in Cores : receiver_waiting_sender_map'[d][e] # -1 =>
            /\ receiver_waiting_sender_map'[d][e] = receiver_waiting_sender_map[d][e]
            /\ ~ (d = c /\ e = s)
  <2>1. /\ receiver_waiting_sender_map' \in [Cores -> [Cores -> Tags \cup {-1}]]
        /\ receiver_waiting_sender_map'[c] = [receiver_waiting_sender_map[c] EXCEPT ![s] = -1]
        /\ \A d \in Cores \ {c} : receiver_waiting_sender_map'[d] = receiver_waiting_sender_map[d]
    BY <1>4, <1>5, <1>6 DEF Types
  <2>2. /\ receiver_waiting_sender_map'[c][s] = -1
        /\ \A e \in Cores \ {s} :
             receiver_waiting_sender_map'[c][e] = receiver_waiting_sender_map[c][e]
    BY <2>1, <1>5, <1>6 DEF Types
  <2>3. QED
    BY <2>1, <2>2
<1> HIDE DEF busy
<1>14. Types'
  BY <1>4, <1>5, <1>11, <1>13 DEF Types
<1>15. ASSUME NEW d \in Cores, NEW j \in DOMAIN Program[d], Sends(d, j), Claims(d, j)
       PROVE  Claims(d, j)'
  <2>1. Program[d][j].peer \in Cores
    BY <1>15, ProgramTypes
  <2>2. read'[Program[d][j].peer] = read[Program[d][j].peer] /\ matched' = matched
    BY <2>1, <1>4, <1>12, <1>15 DEF Claims
  <2>3. QED
    BY <2>2, <1>15 DEF Claims
<1>16. ASSUME NEW d \in Cores
       PROVE  StagesOK(d)' /\ SenderExpects(d)' /\ ReceiverOK(d)' /\ ClaimsOK(d)'
  <2>1. CoreOK(d)
    BY DEF IInv, CoresOK, CoreOK
  <2>2. CASE d = c
    <3>1. StagesOK(c)'
      BY <1>4, <1>5, <1>11, <1>12 DEF CoreOK, StagesOK, StageAt
    <3>2. SenderExpects(c)' /\ ReceiverOK(c)' /\ ClaimsOK(c)'
      BY <1>11, <1>12 DEF SenderExpects, ReceiverOK, ClaimsOK
    <3>3. QED
      BY <2>2, <3>1, <3>2
  <2>3. CASE d # c
    <3>1. StagesOK(d)' /\ SenderExpects(d)'
      BY <2>1, <2>3, <1>4, <1>12 DEF CoreOK, StagesOK, SenderExpects
    <3>2. issue[d].at = "issued" /\ Receives(d, issue[d].op) =>
            Program[d][issue[d].op].peer \in Cores
      BY <2>1, ProgramTypes DEF CoreOK, StagesOK, Idle
    <3>3. \A e \in Cores : receiver_waiting_sender_map[d][e] # -1 => issue'[e] = issue[e]
      BY <1>4, <1>12 DEF IInv, MapOK
    <3>4. receiver_waiting_sender_map'[d] = receiver_waiting_sender_map[d]
      BY <2>3, <1>4, <1>5 DEF Types
    <3>5. ReceiverOK(d)'
      <4>1. issue'[d] = issue[d]
        BY <2>3, <1>12
      <4>2. issue[d].at = "issued" /\ Receives(d, issue[d].op) =>
              issue'[Program[d][issue[d].op].peer].op = issue[Program[d][issue[d].op].peer].op
        BY <2>1, <3>2, <3>3 DEF CoreOK, ReceiverOK
      <4>3. UNCHANGED <<expected_sender_core_id, matched>>
        BY <1>4
      <4>4. ReceiverOK(d)
        BY <2>1 DEF CoreOK
      <4>5. QED
        BY <3>4, <4>1, <4>2, <4>3, <4>4 DEF ReceiverOK
    <3>6. /\ issue[d].at \in {"receiver_ready", "issued"} => issue[d].op \in DOMAIN Program[d]
          /\ read[d].at = "read" => read[d].op \in DOMAIN Program[d]
      BY <2>1 DEF CoreOK, StagesOK, Idle
    <3>7. ClaimsOK(d)'
      BY <2>1, <2>3, <3>6, <1>12, <1>15 DEF CoreOK, ClaimsOK
    <3>8. QED
      BY <3>1, <3>5, <3>7
  <2>4. QED
    BY <2>2, <2>3
<1>17. ASSUME NEW x \in InFlight
       PROVE  MessageOK(x)' /\ SenderReadyOK(x)' /\ ReceiverReadyOK(x)' /\ DataOK(x)'
  <2>1. /\ MessageOK(x) /\ SenderReadyOK(x) /\ ReceiverReadyOK(x) /\ DataOK(x)
        /\ x \in MessageType /\ x.src \in Cores /\ x.dst \in Cores
    BY UnderWay DEF IInv, MessagesOK, InFlight, MessageType, MessageOK
  <2>2. MessageOK(x)'
    BY <2>1 DEF MessageOK
  <2>3. SenderReadyOK(x)'
    <3> SUFFICES ASSUME x.status = "sender_ready" PROVE SenderReadyOK(x)'
      BY DEF SenderReadyOK
    <3>1. x.src # c /\ issue'[x.src] = issue[x.src]
      BY <2>1, <1>4, <1>12 DEF SenderReadyOK
    <3>2. x.src # s
      <4>1. x.src = s => expected_receiver_core_id[s] = x.dst
        BY <2>1 DEF IInv, CoresOK, SenderExpects, SenderReadyOK, MessageOK
      <4>2. QED
        BY <4>1, <2>1, <1>6, <1>7 DEF SenderReadyOK
    <3>3. receiver_waiting_sender_map'[x.dst][x.src] = -1
      BY <2>1, <3>2, <1>13 DEF SenderReadyOK
    <3>4. QED
      BY <2>1, <3>1, <3>2, <3>3, <1>8, <1>10 DEF SenderReadyOK
  <2>4. ReceiverReadyOK(x)'
    <3> SUFFICES ASSUME x.status = "receiver_ready" PROVE ReceiverReadyOK(x)'
      BY DEF ReceiverReadyOK
    <3>1. x.src # c /\ x.dst # c
      BY <2>1, <1>4, <1>9 DEF ReceiverReadyOK
    <3>2. receiver_waiting_sender_map'[x.src][x.dst] = -1
      BY <2>1, <1>13 DEF ReceiverReadyOK
    <3>3. QED
      BY <2>1, <3>1, <3>2, <1>4, <1>12 DEF ReceiverReadyOK, Confirms
  <2>5. DataOK(x)'
    <3> SUFFICES ASSUME x.status = "send_data" PROVE DataOK(x)'
      BY DEF DataOK
    <3>1. Claims(x.src, x.op)'
      BY <2>1, <1>15 DEF DataOK, MessageOK
    <3>2. QED
      BY <2>1, <3>1, <1>1, <1>4, <1>12 DEF DataOK
  <2>6. QED
    BY <2>2, <2>3, <2>4, <2>5
<1>18. MessageOK(m)' /\ SenderReadyOK(m)' /\ ReceiverReadyOK(m)' /\ DataOK(m)'
  <2>1. MessageOK(m)' /\ SenderReadyOK(m)' /\ DataOK(m)'
    BY <1>2, <1>4, <1>5, <1>6, <1>8 DEF MessageOK, SenderReadyOK, DataOK
  <2>2. ReceiverReadyOK(m)'
    BY <1>4, <1>6, <1>7, <1>8, <1>12, <1>13 DEF ReceiverReadyOK, Confirms
  <2>3. QED
    BY <2>1, <2>2
<1>19. ASSUME NEW x \in InFlight'
       PROVE  Alone(x)'
  BY <1>8, <1>9, <1>10 DEF IInv, MessagesOK, Alone
<1>20. \A d, e \in Cores : MapOK(d, e)'
  BY <1>4, <1>12, <1>13 DEF IInv, MapOK
<1>21. MetOnce'
  BY <1>4, <1>11, <1>12 DEF IInv, MetOnce, Types
<1>22. QED
  BY <1>10, <1>14, <1>16, <1>17, <1>18, <1>19, <1>20, <1>21 DEF IInv, CoresOK, MessagesOK

\* The receiver learns of the sender, and is woken if it waits for it.
LEMMA DeliverSenderReadyStep ==
  ASSUME IInv, NEW c \in Cores, DeliverSenderReady(c) PROVE IInv'
<1>1. PICK m : m = Head(pending_queue[c])
  OBVIOUS
<1>2. PICK r : r = m.dst
  OBVIOUS
<1>3. /\ QueueOK(pending_queue') /\ InFlight' = InFlight \ {m}
      /\ m \in InFlight /\ m \in MessageType /\ m.src = c /\ m.status = "sender_ready"
  BY <1>1, Dequeued DEF IInv, DeliverSenderReady
<1>4. /\ receiver_waiting_sender_map' = [receiver_waiting_sender_map EXCEPT ![r][c] = m.tag]
      /\ issue' = IF c = expected_sender_core_id[r]
                    THEN Wakes(issue, r, "wait_sender_ready", "sender_ready") ELSE issue
      /\ UNCHANGED <<pc, read, write, matched,
                     expected_receiver_core_id, expected_transfer_id_tag, expected_sender_core_id>>
  BY <1>1, <1>2, <1>3 DEF DeliverSenderReady, Delivers, expected
<1>5. /\ MessageOK(m) /\ SenderReadyOK(m) /\ Alone(m) /\ r \in Cores /\ Types
      /\ m.tag \in Nat /\ m.tag \in Tags /\ m.op \in Nat
  BY <1>2, <1>3, ProgramTypes DEF IInv, MessagesOK, MessageOK, SenderReadyOK, MessageType
<1>6. /\ issue[c].at = "wait_receiver_ready" /\ issue[c].op = m.op
      /\ expected_receiver_core_id[c] = r /\ expected_transfer_id_tag[c] = m.tag
  BY <1>2, <1>3, <1>5 DEF IInv, CoresOK, SenderExpects, SenderReadyOK, MessageOK
<1>7. /\ issue' \in [Cores -> StageType]
      /\ \A d \in Cores :
           /\ issue'[d].op = issue[d].op
           /\ \/ issue'[d] = issue[d]
              \/ /\ d = r /\ expected_sender_core_id[d] = c
                 /\ issue[d].at = "wait_sender_ready" /\ issue'[d].at = "sender_ready"
  BY <1>4, <1>5 DEF Types, Wakes, StageType
<1>8. /\ receiver_waiting_sender_map' \in [Cores -> [Cores -> Tags \cup {-1}]]
      /\ receiver_waiting_sender_map'[r][c] = m.tag
      /\ \A d, e \in Cores : ~ (d = r /\ e = c) =>
           receiver_waiting_sender_map'[d][e] = receiver_waiting_sender_map[d][e]
  <2>1. /\ receiver_waiting_sender_map' \in [Cores -> [Cores -> Tags \cup {-1}]]
        /\ receiver_waiting_sender_map'[r] = [receiver_waiting_sender_map[r] EXCEPT ![c] = m.tag]
        /\ \A d \in Cores \ {r} : receiver_waiting_sender_map'[d] = receiver_waiting_sender_map[d]
    BY <1>4, <1>5 DEF Types
  <2>2. /\ receiver_waiting_sender_map'[r][c] = m.tag
        /\ \A e \in Cores \ {c} :
             receiver_waiting_sender_map'[r][e] = receiver_waiting_sender_map[r][e]
    BY <2>1, <1>5 DEF Types
  <2>3. QED
    BY <2>1, <2>2
<1>9. Types'
  BY <1>4, <1>5, <1>7, <1>8 DEF Types
<1>10. ASSUME NEW d \in Cores
       PROVE  StagesOK(d)' /\ SenderExpects(d)' /\ ReceiverOK(d)' /\ ClaimsOK(d)'
  <2>1. StagesOK(d) /\ SenderExpects(d) /\ ReceiverOK(d) /\ ClaimsOK(d)
    BY DEF IInv, CoresOK
  <2>2. Claims(d, issue[d].op)' = Claims(d, issue[d].op) /\ Claims(d, read[d].op)' = Claims(d, read[d].op)
    BY <1>4, <1>7 DEF Claims
  <2>3. issue[d].at = "issued" /\ Receives(d, issue[d].op) => Program[d][issue[d].op].peer \in Cores
    BY <2>1, ProgramTypes DEF StagesOK, Idle
  <2>4. m.tag # -1
    BY <1>5
  <2>5. CASE issue'[d] = issue[d]
    <3>1. StagesOK(d)' /\ SenderExpects(d)' /\ ClaimsOK(d)'
      <4>1. StagesOK(d)'
        BY <2>1, <2>5, <1>4 DEF StagesOK
      <4>2. SenderExpects(d)'
        BY <2>1, <2>5, <1>4 DEF SenderExpects
      <4>3. ClaimsOK(d)'
        BY <2>1, <2>2, <2>5, <1>4 DEF ClaimsOK
      <4>4. QED
        BY <4>1, <4>2, <4>3
    <3>2. ReceiverOK(d)'
      <4>1. \A e \in Cores : /\ issue'[e].op = issue[e].op
                             /\ receiver_waiting_sender_map[d][e] # -1 =>
                                  receiver_waiting_sender_map'[d][e] # -1
        BY <2>4, <1>7, <1>8
      <4>2. issue[d].at = "sender_ready" => Program[d][issue[d].op].peer \in Cores
        BY <2>1, ProgramTypes DEF StagesOK, Idle
      <4>3. QED
        BY <2>1, <2>3, <2>5, <4>1, <4>2, <1>4 DEF ReceiverOK
    <3>3. QED
      BY <3>1, <3>2
  <2>6. CASE issue'[d] # issue[d]
    <3>1. /\ d = r /\ expected_sender_core_id[d] = c /\ issue'[d].op = issue[d].op
          /\ issue[d].at = "wait_sender_ready" /\ issue'[d].at = "sender_ready"
      BY <2>6, <1>7
    <3>2. issue[d] # Idle /\ issue'[d] # Idle
      BY <3>1 DEF Idle
    <3>3. StagesOK(d)'
      BY <2>1, <3>1, <3>2, <1>4 DEF StagesOK, StageAt
    <3>4. SenderExpects(d)' /\ ReceiverOK(d)' /\ ClaimsOK(d)'
      <4>1. SenderExpects(d)'
        BY <3>1 DEF SenderExpects
      <4>2. ReceiverOK(d)'
        BY <2>1, <2>4, <3>1, <1>4, <1>8 DEF ReceiverOK
      <4>3. ClaimsOK(d)'
        BY <2>1, <2>2, <3>1, <1>4 DEF ClaimsOK
      <4>4. QED
        BY <4>1, <4>2, <4>3
    <3>5. QED
      BY <3>3, <3>4
  <2>7. QED
    BY <2>5, <2>6
<1>11. ASSUME NEW x \in InFlight'
       PROVE  MessageOK(x)' /\ SenderReadyOK(x)' /\ ReceiverReadyOK(x)' /\ DataOK(x)'
  <2>1. /\ x \in InFlight /\ x # m
        /\ MessageOK(x) /\ SenderReadyOK(x) /\ ReceiverReadyOK(x) /\ DataOK(x)
        /\ x \in MessageType /\ x.src \in Cores /\ x.dst \in Cores
    BY <1>3, UnderWay DEF IInv, MessagesOK, InFlight, MessageType, MessageOK
  <2>2. issue[x.src].at = "wait_receiver_ready" => issue'[x.src] = issue[x.src]
    BY <2>1, <1>7
  <2>3. issue[x.dst].at = "wait_receiver_ready" => issue'[x.dst] = issue[x.dst]
    BY <2>1, <1>7
  <2>4. MessageOK(x)'
    BY <2>1 DEF MessageOK
  <2>5. SenderReadyOK(x)'
    <3>1. x.status = "sender_ready" => x.src # c
      BY <2>1, <1>3, <1>5, <1>6 DEF SenderReadyOK, Alone
    <3>2. QED
      BY <2>1, <2>2, <3>1, <1>3, <1>8 DEF SenderReadyOK
  <2>6. ReceiverReadyOK(x)'
    <3>1. x.status = "receiver_ready" => x.dst # c
      BY <2>1, <1>3, <1>5 DEF SenderReadyOK
    <3>2. QED
      BY <2>1, <2>3, <3>1, <1>4, <1>8 DEF ReceiverReadyOK, Confirms
  <2>7. DataOK(x)'
    <3>1. issue'[x.src].op = issue[x.src].op
      BY <2>1, <1>7
    <3>2. issue[x.src] = Idle => issue'[x.src] = Idle
      BY <2>1, <1>7 DEF Idle
    <3>3. QED
      BY <2>1, <3>1, <3>2, <1>4 DEF DataOK, Claims
  <2>8. QED
    BY <2>4, <2>5, <2>6, <2>7
<1>12. ASSUME NEW x \in InFlight'
       PROVE  Alone(x)'
  BY <1>3 DEF IInv, MessagesOK, Alone
<1>13. ASSUME NEW d \in Cores, NEW e \in Cores
       PROVE  MapOK(d, e)'
  <2>1. MapOK(d, e)
    BY DEF IInv
  <2>2. issue[e].at = "wait_receiver_ready" => issue'[e] = issue[e]
    BY <1>7
  <2>3. CASE d = r /\ e = c
    BY <2>2, <2>3, <1>4, <1>6, <1>8 DEF MapOK
  <2>4. CASE ~ (d = r /\ e = c)
    BY <2>1, <2>2, <2>4, <1>4, <1>8 DEF MapOK
  <2>5. QED
    BY <2>3, <2>4
<1>14. MetOnce'
  <2>1. \A d \in Cores : issue'[d].at \in {"wait_sender_ready", "sender_ready"} =>
          issue[d].at \in {"wait_sender_ready", "sender_ready"} /\ issue'[d].op = issue[d].op
    BY <1>7
  <2>2. \A x \in matched : x[2][1] \in Cores
    BY <1>5 DEF Types
  <2>3. QED
    BY <2>1, <2>2, <1>4 DEF IInv, MetOnce
<1>15. QED
  BY <1>3, <1>9, <1>10, <1>11, <1>12, <1>13, <1>14 DEF IInv, CoresOK, MessagesOK

\* The sender learns that the receiver is ready: it holds a claim now.
LEMMA DeliverReceiverReadyStep ==
  ASSUME IInv, NEW c \in Cores, DeliverReceiverReady(c) PROVE IInv'
<1>1. PICK m : m = Head(pending_queue[c])
  OBVIOUS
<1>2. PICK s : s = m.dst
  OBVIOUS
<1>3. /\ QueueOK(pending_queue') /\ InFlight' = InFlight \ {m}
      /\ m \in InFlight /\ m \in MessageType /\ m.src = c /\ m.status = "receiver_ready"
  BY <1>1, Dequeued DEF IInv, DeliverReceiverReady
<1>4. /\ MessageOK(m) /\ ReceiverReadyOK(m) /\ Alone(m) /\ s \in Cores /\ Types
  BY <1>2, <1>3 DEF IInv, MessagesOK, MessageOK
<1>5. /\ Confirms(m) /\ issue[s].at = "wait_receiver_ready"
      /\ expected_receiver_core_id[s] = c
      /\ read[c].op = m.op /\ read[c].at = "wait_data_ready"
      /\ <<<<s, issue[s].op>>, <<c, m.op>>>> \in matched
      /\ receiver_waiting_sender_map[c][s] = -1
  BY <1>2, <1>3, <1>4 DEF ReceiverReadyOK, Confirms
<1>6. /\ issue' = [issue EXCEPT ![s].at = "receiver_ready"]
      /\ UNCHANGED <<pc, read, write, matched, receiver_waiting_sender_map,
                     expected_receiver_core_id, expected_transfer_id_tag, expected_sender_core_id>>
  BY <1>1, <1>2, <1>3, <1>5 DEF DeliverReceiverReady, Delivers, Wakes, expected
<1>7. /\ issue' \in [Cores -> StageType]
      /\ issue'[s].op = issue[s].op /\ issue'[s].at = "receiver_ready"
      /\ \A d \in Cores \ {s} : issue'[d] = issue[d]
  <2>1. issue \in [Cores -> StageType] /\ s \in Cores
    BY <1>4 DEF Types
  <2>2. [issue[s] EXCEPT !.at = "receiver_ready"] \in StageType
    BY <2>1 DEF StageType
  <2>3. QED
    BY <2>1, <2>2, <1>6 DEF StageType
<1>8. Types'
  BY <1>4, <1>6, <1>7 DEF Types
<1>9. ASSUME NEW d \in Cores
      PROVE  StagesOK(d)' /\ SenderExpects(d)' /\ ReceiverOK(d)' /\ ClaimsOK(d)'
  <2>1. StagesOK(d) /\ SenderExpects(d) /\ ReceiverOK(d) /\ ClaimsOK(d)
    BY DEF IInv, CoresOK
  <2>2. CASE d = s
    <3>1. issue[s] # Idle /\ issue'[s] # Idle
      BY <1>5, <1>7 DEF Idle
    <3>2. StagesOK(s)'
      BY <2>1, <2>2, <3>1, <1>5, <1>6, <1>7 DEF StagesOK, StageAt
    <3>3. SenderExpects(s)' /\ ReceiverOK(s)'
      BY <1>7 DEF SenderExpects, ReceiverOK
    <3>4. ClaimsOK(s)'
      <4>1. Program[s][issue[s].op].peer = c
        BY <2>1, <2>2, <1>5 DEF SenderExpects
      <4>2. QED
        <5>1. Claims(s, issue[s].op)'
          BY <4>1, <1>5, <1>6, <1>7 DEF Claims
        <5>2. Claims(s, read[s].op) => Claims(s, read[s].op)'
          BY <1>6 DEF Claims
        <5>3. QED
          BY <2>1, <2>2, <5>1, <5>2, <1>6, <1>7 DEF ClaimsOK
    <3>5. QED
      BY <2>2, <3>2, <3>3, <3>4
  <2>3. CASE d # s
    <3>1. issue[d].at = "issued" /\ Receives(d, issue[d].op) =>
            Program[d][issue[d].op].peer \in Cores
      BY <2>1, ProgramTypes DEF StagesOK, Idle
    <3>2. \A e \in Cores : issue'[e].op = issue[e].op
      BY <1>7
    <3>3. ReceiverOK(d)'
      <4>1. issue'[d] = issue[d]
        BY <2>3, <1>7
      <4>2. issue[d].at = "issued" /\ Receives(d, issue[d].op) =>
              issue'[Program[d][issue[d].op].peer].op = issue[Program[d][issue[d].op].peer].op
        BY <3>1, <3>2
      <4>3. UNCHANGED <<receiver_waiting_sender_map, expected_sender_core_id, matched>>
        BY <1>6
      <4>4. ReceiverOK(d)
        BY <2>1
      <4>5. QED
        BY <4>1, <4>2, <4>3, <4>4 DEF ReceiverOK
    <3>4. StagesOK(d)' /\ SenderExpects(d)' /\ ClaimsOK(d)'
      <4>1. issue'[d] = issue[d]
        BY <2>3, <1>7
      <4>2. StagesOK(d)'
        BY <2>1, <4>1, <1>6 DEF StagesOK
      <4>3. SenderExpects(d)'
        BY <2>1, <4>1, <1>6 DEF SenderExpects
      <4>4. ClaimsOK(d)'
        <5>1. \A j : Claims(d, j) => Claims(d, j)'
          BY <1>6 DEF Claims
        <5>2. QED
          BY <2>1, <4>1, <5>1, <1>6 DEF ClaimsOK
      <4>5. QED
        BY <4>2, <4>3, <4>4
    <3>5. QED
      BY <3>3, <3>4
  <2>4. QED
    BY <2>2, <2>3
<1>10. ASSUME NEW x \in InFlight'
       PROVE  MessageOK(x)' /\ SenderReadyOK(x)' /\ ReceiverReadyOK(x)' /\ DataOK(x)'
  <2>1. /\ x \in InFlight /\ x # m
        /\ MessageOK(x) /\ SenderReadyOK(x) /\ ReceiverReadyOK(x) /\ DataOK(x)
        /\ x \in MessageType /\ x.src \in Cores /\ x.dst \in Cores
    BY <1>3, UnderWay DEF IInv, MessagesOK, InFlight, MessageType, MessageOK
  <2>2. MessageOK(x)'
    BY <2>1 DEF MessageOK
  <2>3. SenderReadyOK(x)'
    <3>1. x.status = "sender_ready" => x.src # s
      BY <2>1, <1>2, <1>3 DEF SenderReadyOK
    <3>2. QED
      BY <2>1, <3>1, <1>3, <1>6, <1>7 DEF SenderReadyOK
  <2>4. ReceiverReadyOK(x)'
    <3>1. x.status = "receiver_ready" /\ x.dst = s => x.src = c /\ x.op = m.op
      BY <2>1, <1>5 DEF ReceiverReadyOK, Confirms
    <3>2. x.status = "receiver_ready" => x.dst # s
      BY <2>1, <3>1, <1>3, <1>4 DEF Alone
    <3>3. QED
      BY <2>1, <3>2, <1>6, <1>7 DEF ReceiverReadyOK, Confirms
  <2>5. DataOK(x)'
    <3>1. issue'[x.src].op = issue[x.src].op /\ (issue[x.src] = Idle => issue'[x.src] = Idle)
      BY <2>1, <1>5, <1>7 DEF Idle
    <3>2. QED
      BY <2>1, <3>1, <1>6 DEF DataOK, Claims
  <2>6. QED
    BY <2>2, <2>3, <2>4, <2>5
<1>11. ASSUME NEW x \in InFlight'
       PROVE  Alone(x)'
  BY <1>3 DEF IInv, MessagesOK, Alone
<1>12. ASSUME NEW d \in Cores, NEW e \in Cores
       PROVE  MapOK(d, e)'
  <2>1. MapOK(d, e)
    BY DEF IInv
  <2>2. e = s => receiver_waiting_sender_map[d][e] = -1
    BY <2>1, <1>5 DEF MapOK
  <2>3. QED
    BY <2>1, <2>2, <1>6, <1>7 DEF MapOK
<1>13. MetOnce'
  <2>1. \A d \in Cores : issue'[d].at \in {"wait_sender_ready", "sender_ready"} =>
          issue'[d] = issue[d]
    BY <1>7
  <2>2. \A x \in matched : x[2][1] \in Cores
    BY <1>4 DEF Types
  <2>3. QED
    BY <2>1, <2>2, <1>6 DEF IInv, MetOnce
<1>14. QED
  BY <1>3, <1>8, <1>9, <1>10, <1>11, <1>12, <1>13 DEF IInv, CoresOK, MessagesOK

\* Data arrives at the receive it is for, and at no other: a receive meets one
\* send, so nobody else has a claim to this read stage.
LEMMA DeliverDataStep == ASSUME IInv, NEW c \in Cores, DeliverData(c) PROVE IInv'
<1>1. PICK m : m = Head(pending_queue[c])
  OBVIOUS
<1>2. PICK r : r = m.dst
  OBVIOUS
<1>3. /\ QueueOK(pending_queue') /\ InFlight' = InFlight \ {m}
      /\ m \in InFlight /\ m \in MessageType /\ m.src = c /\ m.status = "send_data"
  BY <1>1, Dequeued DEF IInv, DeliverData
<1>4. /\ MessageOK(m) /\ DataOK(m) /\ Alone(m) /\ r \in Cores /\ Types /\ m.op \in Nat
  BY <1>2, <1>3 DEF IInv, MessagesOK, MessageOK, MessageType
<1>5. /\ read[r].at = "wait_data_ready"
      /\ <<<<c, m.op>>, <<r, read[r].op>>>> \in matched
  BY <1>2, <1>3, <1>4 DEF MessageOK, DataOK, Claims
<1>6. /\ read' = [read EXCEPT ![r].at = "read"]
      /\ UNCHANGED <<pc, issue, write, matched, receiver_waiting_sender_map,
                     expected_receiver_core_id, expected_transfer_id_tag, expected_sender_core_id>>
  BY <1>1, <1>2, <1>5 DEF DeliverData, Delivers, Wakes, expected
<1>7. /\ read' \in [Cores -> StageType]
      /\ read'[r].op = read[r].op /\ read'[r].at = "read"
      /\ \A d \in Cores \ {r} : read'[d] = read[d]
  <2>1. read \in [Cores -> StageType] /\ r \in Cores
    BY <1>4 DEF Types
  <2>2. [read[r] EXCEPT !.at = "read"] \in StageType
    BY <2>1 DEF StageType
  <2>3. QED
    BY <2>1, <2>2, <1>6 DEF StageType
<1>8. Types'
  BY <1>4, <1>6, <1>7 DEF Types
<1>9. \A x \in matched : x[2] = <<r, read[r].op>> => x = <<<<c, m.op>>, <<r, read[r].op>>>>
  BY <1>5 DEF IInv, MetOnce
<1>10. ASSUME NEW d \in Cores, NEW j \in DOMAIN Program[d], Sends(d, j), Claims(d, j),
              ~ (d = c /\ j = m.op)
       PROVE  Claims(d, j)'
  <2> DEFINE p == Program[d][j].peer
  <2>1. p \in Cores
    BY <1>10, ProgramTypes
  <2>2. p # r
    <3>1. p = r => <<<<d, j>>, <<r, read[r].op>>>> \in matched
      BY <1>10 DEF Claims
    <3>2. <<<<d, j>>, <<r, read[r].op>>>> # <<<<c, m.op>>, <<r, read[r].op>>>>
      BY <1>10
    <3>3. QED
      BY <3>1, <3>2, <1>9
  <2>3. QED
    BY <2>1, <2>2, <1>6, <1>7, <1>10 DEF Claims
<1>11. ASSUME NEW d \in Cores
       PROVE  StagesOK(d)' /\ SenderExpects(d)' /\ ReceiverOK(d)' /\ ClaimsOK(d)'
  <2>1. StagesOK(d) /\ SenderExpects(d) /\ ReceiverOK(d) /\ ClaimsOK(d)
    BY DEF IInv, CoresOK
  <2>2. StagesOK(d)'
    <3>1. CASE d = r
      <4>1. read[d] # Idle /\ read'[d] # Idle
        BY <3>1, <1>5, <1>7 DEF Idle
      <4>2. QED
        BY <2>1, <3>1, <4>1, <1>5, <1>6, <1>7 DEF StagesOK, StageAt
    <3>2. CASE d # r
      BY <2>1, <3>2, <1>6, <1>7 DEF StagesOK
    <3>3. QED
      BY <3>1, <3>2
  <2>3. SenderExpects(d)' /\ ReceiverOK(d)'
    BY <2>1, <1>6 DEF SenderExpects, ReceiverOK
  <2>4. ASSUME NEW j \in DOMAIN Program[d], issue[d].op = j, Sends(d, j),
               issue[d].at \in {"receiver_ready", "issued"}
        PROVE  Claims(d, j)'
    <3>1. issue[d] # Idle /\ j \in Nat
      BY <2>4, ProgramTypes DEF Idle
    <3>2. ~ (d = c /\ j = m.op)
      BY <2>4, <3>1, <1>3, <1>4 DEF DataOK
    <3>3. QED
      BY <2>1, <2>4, <3>2, <1>10 DEF ClaimsOK
  <2>5. ASSUME NEW j \in DOMAIN Program[d], read'[d].op = j, read'[d].at = "read", Sends(d, j)
        PROVE  Claims(d, j)'
    <3>1. d # r /\ read'[d] = read[d]
      BY <2>1, <2>5, <1>5, <1>7 DEF StagesOK, Sends, Receives
    <3>2. read[d] # Idle /\ j \in Nat
      BY <2>5, <3>1, ProgramTypes DEF Idle
    <3>3. ~ (d = c /\ j = m.op)
      BY <2>5, <3>1, <3>2, <1>3, <1>4 DEF DataOK
    <3>4. QED
      BY <2>1, <2>5, <3>1, <3>3, <1>10 DEF ClaimsOK
  <2>6. ClaimsOK(d)'
    <3>1. issue'[d].at \in {"receiver_ready", "issued"} => issue'[d].op \in DOMAIN Program[d]
      BY <2>1, <1>6 DEF StagesOK, Idle
    <3>2. read'[d].at = "read" => read'[d].op \in DOMAIN Program[d]
      BY <2>2 DEF StagesOK, Idle
    <3>3. issue'[d].at \in {"receiver_ready", "issued"} /\ Sends(d, issue'[d].op) =>
            /\ read'[Program[d][issue'[d].op].peer].at = "wait_data_ready"
            /\ <<<<d, issue'[d].op>>, <<Program[d][issue'[d].op].peer,
                 read'[Program[d][issue'[d].op].peer].op>>>> \in matched'
      BY <2>4, <3>1, <1>6 DEF Claims
    <3>4. read'[d].at = "read" /\ Sends(d, read'[d].op) =>
            /\ read'[Program[d][read'[d].op].peer].at = "wait_data_ready"
            /\ <<<<d, read'[d].op>>, <<Program[d][read'[d].op].peer,
                 read'[Program[d][read'[d].op].peer].op>>>> \in matched'
      BY <2>5, <3>2 DEF Claims
    <3>5. QED
      BY <3>3, <3>4 DEF ClaimsOK, Claims, Sends
  <2>7. QED
    BY <2>2, <2>3, <2>6
<1>12. ASSUME NEW x \in InFlight'
       PROVE  MessageOK(x)' /\ SenderReadyOK(x)' /\ ReceiverReadyOK(x)' /\ DataOK(x)'
  <2>1. /\ x \in InFlight /\ x # m
        /\ MessageOK(x) /\ SenderReadyOK(x) /\ ReceiverReadyOK(x) /\ DataOK(x)
        /\ x \in MessageType /\ x.src \in Cores /\ x.dst \in Cores
    BY <1>3, UnderWay DEF IInv, MessagesOK, InFlight, MessageType, MessageOK
  <2>2. MessageOK(x)' /\ SenderReadyOK(x)'
    BY <2>1, <1>3, <1>6 DEF MessageOK, SenderReadyOK
  <2>3. ReceiverReadyOK(x)'
    <3> SUFFICES ASSUME x.status = "receiver_ready" PROVE ReceiverReadyOK(x)'
      BY DEF ReceiverReadyOK
    <3>1. x.src # r
      <4>1. x.src = r => <<<<x.dst, issue[x.dst].op>>, <<r, read[r].op>>>> \in matched
        BY <2>1 DEF ReceiverReadyOK
      <4>2. x.src = r => x.dst = c /\ issue[c].op = m.op
        BY <4>1, <1>9
      <4>3. x.dst = c => issue[c] # Idle
        BY <2>1 DEF ReceiverReadyOK, Idle
      <4>4. issue[c] # Idle => m.op < issue[c].op
        BY <1>3, <1>4 DEF DataOK
      <4>5. QED
        BY <4>2, <4>3, <4>4, <1>4
    <3>2. read'[x.src] = read[x.src]
      BY <2>1, <3>1, <1>7
    <3>3. QED
      BY <2>1, <3>2, <1>6 DEF ReceiverReadyOK, Confirms
  <2>4. DataOK(x)'
    <3> SUFFICES ASSUME x.status = "send_data" PROVE DataOK(x)'
      BY DEF DataOK
    <3>1. ~ (x.src = c /\ x.op = m.op)
      BY <2>1, <1>3, <1>4 DEF Alone
    <3>2. Claims(x.src, x.op)'
      BY <2>1, <3>1, <1>10 DEF DataOK, MessageOK
    <3>3. read'[x.src].op = read[x.src].op /\ (read[x.src] = Idle => read'[x.src] = Idle)
      BY <2>1, <1>5, <1>7 DEF Idle
    <3>4. QED
      BY <2>1, <3>2, <3>3, <1>6 DEF DataOK
  <2>5. QED
    BY <2>2, <2>3, <2>4
<1>13. ASSUME NEW x \in InFlight'
       PROVE  Alone(x)'
  BY <1>3 DEF IInv, MessagesOK, Alone
<1>14. (\A d, e \in Cores : MapOK(d, e)') /\ MetOnce'
  BY <1>6 DEF IInv, MapOK, MetOnce
<1>15. QED
  BY <1>3, <1>8, <1>11, <1>12, <1>13, <1>14 DEF IInv, CoresOK, MessagesOK

-----------------------------------------------------------------------------
(***************************************************************************)
(* The theorems.                                                           *)
(***************************************************************************)
LEMMA InitOK == Init => IInv
<1> SUFFICES ASSUME Init PROVE IInv
  OBVIOUS
<1>1. Types
  BY DEF Init, Types, Idle, StageType
<1>2. <<>> \in Seq(MessageType) /\ DOMAIN <<>> = {}
  BY EmptySeq, LenProperties
<1>3. QueueOK(pending_queue)
  BY <1>2 DEF Init, QueueOK
<1>4. InFlight = {}
  <2>1. ASSUME NEW m \in InFlight
        PROVE  FALSE
    <3>1. m \in MessageType /\ m.src \in Cores
      BY <1>3, UnderWay DEF InFlight, MessageType
    <3>2. QED
      BY <3>1, <1>2, <1>3, UnderWay DEF InFlight, Init
  <2>2. QED
    BY <2>1
<1>5. ASSUME NEW c \in Cores
      PROVE  StagesOK(c) /\ SenderExpects(c) /\ ReceiverOK(c) /\ ClaimsOK(c)
  <2>1. /\ issue[c] = Idle /\ read[c] = Idle /\ write[c] = Idle /\ Idle.at = "idle"
        /\ pc[c] = 1
    BY DEF Init, Idle
  <2>2. 1 \in 1 .. Len(Program[c]) + 1
    BY ProgramTypes
  <2>3. QED
    BY <2>1, <2>2 DEF StagesOK, SenderExpects, ReceiverOK, ClaimsOK
<1>6. (\A c, s \in Cores : MapOK(c, s)) /\ MetOnce
  BY DEF Init, MapOK, MetOnce
<1>7. QED
  BY <1>1, <1>3, <1>4, <1>5, <1>6 DEF IInv, CoresOK, MessagesOK

\* Every step keeps the invariant.
LEMMA Inductive == IInv /\ [Next]_vars => IInv'
<1> SUFFICES ASSUME IInv, [Next]_vars PROVE IInv'
  OBVIOUS
<1>1. ASSUME NEW c \in Cores, Issues(c) PROVE IInv'
  BY <1>1, SendHandshakeStep, SendHandshakeEndStep, ReceiveHandshakeStep,
     ReceiveHandshakeEndStep, IssueGlobalStep DEF Issues
<1>2. ASSUME NEW c \in Cores, Reads(c) PROVE IInv'
  BY <1>2, ReceiveDataStep, LoadGlobalStep, ReadLocalStep DEF Reads
<1>3. ASSUME NEW c \in Cores, Writes(c) PROVE IInv'
  BY <1>3, SendDataStep, StoreGlobalStep, WriteLocalStep, WriteEndStep DEF Writes
<1>4. ASSUME NEW c \in Cores, Switches(c) PROVE IInv'
  BY <1>4, DeliverSenderReadyStep, DeliverReceiverReadyStep, DeliverDataStep, TransportStep
  DEF Switches
<1>5. CASE UNCHANGED vars
  <2>1. UNCHANGED <<pc, issue, read, write, expected_receiver_core_id, expected_transfer_id_tag,
                    expected_sender_core_id, receiver_waiting_sender_map, pending_queue, matched>>
    BY <1>5 DEF vars, stages, expected
  <2>2. Types' /\ MetOnce' /\ QueueOK(pending_queue')
    BY <2>1 DEF IInv, Types, MetOnce
  <2>3. InFlight' = InFlight
    BY <2>1 DEF InFlight
  <2>4. CoresOK'
    <3>1. ASSUME NEW c \in Cores
          PROVE  StagesOK(c)' /\ SenderExpects(c)' /\ ReceiverOK(c)' /\ ClaimsOK(c)'
      <4>1. StagesOK(c) /\ SenderExpects(c) /\ ReceiverOK(c) /\ ClaimsOK(c)
        BY DEF IInv, CoresOK
      <4>2. StagesOK(c)'
        BY <2>1, <4>1 DEF StagesOK
      <4>3. SenderExpects(c)'
        BY <2>1, <4>1 DEF SenderExpects
      <4>4. ReceiverOK(c)'
        BY <2>1, <4>1 DEF ReceiverOK
      <4>5. ClaimsOK(c)'
        BY <2>1, <4>1 DEF ClaimsOK, Claims
      <4>6. QED
        BY <4>2, <4>3, <4>4, <4>5
    <3>2. QED
      BY <3>1 DEF CoresOK
  <2>5. MessagesOK'
    <3>1. ASSUME NEW m \in InFlight
          PROVE  MessageOK(m)' /\ SenderReadyOK(m)' /\ ReceiverReadyOK(m)' /\ DataOK(m)' /\ Alone(m)'
      <4>1. MessageOK(m) /\ SenderReadyOK(m) /\ ReceiverReadyOK(m) /\ DataOK(m) /\ Alone(m)
        BY DEF IInv, MessagesOK
      <4>2. MessageOK(m)' /\ Alone(m)'
        BY <2>3, <4>1 DEF MessageOK, Alone
      <4>3. SenderReadyOK(m)'
        BY <2>1, <2>3, <4>1 DEF SenderReadyOK
      <4>4. ReceiverReadyOK(m)'
        BY <2>1, <4>1 DEF ReceiverReadyOK, Confirms
      <4>5. DataOK(m)'
        BY <2>1, <4>1 DEF DataOK, Claims
      <4>6. QED
        BY <4>2, <4>3, <4>4, <4>5
    <3>2. QED
      BY <2>3, <3>1 DEF MessagesOK
  <2>6. (\A c, s \in Cores : MapOK(c, s))'
    BY <2>1 DEF IInv, MapOK
  <2>7. QED
    BY <2>2, <2>4, <2>5, <2>6 DEF IInv
<1>6. QED
  BY <1>1, <1>2, <1>3, <1>4, <1>5 DEF Next

\* The inductive invariant.
THEOREM Invariance == Spec => []IInv
BY InitOK, Inductive, PTL DEF Spec

\* Every variable keeps its type, and a stage waits for what that stage waits for
\* (transmit_socket.h and transfer_unit.h: the members).
THEOREM TypeCorrect == Spec => []TypeOK
<1>1. IInv => TypeOK
  <2> SUFFICES ASSUME IInv PROVE TypeOK
    OBVIOUS
  <2>1. ASSUME NEW c \in Cores
        PROVE  /\ pc[c] \in 1 .. Len(Program[c]) + 1
               /\ issue[c] \in Stage(c, StageAt.issue)
               /\ read[c] \in Stage(c, StageAt.read)
               /\ write[c] \in Stage(c, StageAt.write)
    <3>1. /\ issue[c] \in StageType /\ read[c] \in StageType /\ write[c] \in StageType
          /\ StagesOK(c)
      BY DEF IInv, Types, CoresOK
    <3>2. ASSUME NEW stage \in StageType, NEW at,
                 stage = Idle \/ (stage.at \in at /\ stage.op \in DOMAIN Program[c])
          PROVE  stage \in Stage(c, at)
      BY <3>2 DEF StageType, Stage
    <3>3. QED
      BY <3>1, <3>2 DEF StagesOK
  <2>2. ASSUME NEW c \in Cores, NEW i \in DOMAIN pending_queue[c]
        PROVE  pending_queue[c][i].src = c /\ pending_queue[c][i].tag \in Tags \cup {-1}
    <3>1. pending_queue[c] \in Seq(MessageType) /\ pending_queue[c][i].src = c
      BY DEF IInv, QueueOK
    <3>2. pending_queue[c][i] \in MessageType
      BY <3>1, LenProperties, ElementOfSeq
    <3>3. QED
      BY <3>1, <3>2 DEF MessageType
  <2>3. QED
    BY <2>1, <2>2 DEF IInv, Types, TypeOK
<1>2. QED
  BY <1>1, Invariance, PTL

\* The messages of a status, in the terms of the invariant.
LEMMA PendingUnderWay ==
  ASSUME IInv, NEW c \in Cores, NEW status, status # "transport", NEW m \in Pending(c, status)
  PROVE  m \in InFlight /\ m.src = c /\ m.status = status
<1>1. PICK i \in DOMAIN pending_queue[c] : m = pending_queue[c][i] /\ m.status = status
  BY DEF Pending
<1>2. pending_queue[c] \in Seq(MessageType) /\ m.src = c
  BY <1>1 DEF IInv, QueueOK
<1>3. m \in MessageType
  BY <1>1, <1>2, LenProperties, ElementOfSeq
<1>4. QED
  BY <1>1, <1>2, <1>3, UnderWay DEF IInv, InFlight

\* "send-recv not match" is never reported, whatever the programs are: a
\* confirmation finds the send it answers still waiting (transmit_socket.cpp).
THEOREM HandshakesConfirmed == Spec => []HandshakeConfirmed
<1>1. IInv => HandshakeConfirmed
  <2> SUFFICES ASSUME IInv, NEW c \in Cores, NEW m \in Pending(c, "receiver_ready")
               PROVE  /\ Confirms(m)
                      /\ issue[m.dst].at = "wait_receiver_ready"
                      /\ <<<<m.dst, issue[m.dst].op>>, <<c, m.op>>>> \in matched
    BY DEF HandshakeConfirmed
  <2>1. m \in InFlight /\ m.src = c /\ m.status = "receiver_ready"
    BY PendingUnderWay
  <2>2. QED
    BY <2>1 DEF IInv, MessagesOK, ReceiverReadyOK
<1>2. QED
  BY <1>1, Invariance, PTL

\* Data is never lost on an event nobody waits for, and never taken for that of
\* another sender (transmit_socket.cpp: receiver_wait_data_ready_).
THEOREM DataHasItsReader == Spec => []DataHasReader
<1>1. IInv => DataHasReader
  <2> SUFFICES ASSUME IInv, NEW c \in Cores, NEW m \in Pending(c, "send_data")
               PROVE  /\ read[m.dst].at = "wait_data_ready"
                      /\ <<<<c, m.op>>, <<m.dst, read[m.dst].op>>>> \in matched
    BY DEF DataHasReader
  <2>1. m \in InFlight /\ m.src = c /\ m.status = "send_data"
    BY PendingUnderWay
  <2>2. QED
    BY <2>1 DEF IInv, MessagesOK, MessageOK, DataOK, Claims
<1>2. QED
  BY <1>1, Invariance, PTL

-----------------------------------------------------------------------------
(***************************************************************************)
(* The refinement.  TransmitSocket implements Rendezvous, for any cores    *)
(* and all programs whose sends and receives between two cores carry one   *)
(* tag: sends and receives meet each once, and in the order of both        *)
(* programs.                                                               *)
(*                                                                         *)
(* The invariant above is not enough.  To it belongs who has met already:  *)
(* every transfer the core has gone past (AllMet), and not the send whose  *)
(* message or entry of the map still waits for its receive (NewIsUnmet,    *)
(* MetIsServed).                                                           *)
(***************************************************************************)
Waits == {"wait_receiver_ready", "wait_sender_ready", "sender_ready"}

HasMet(c, i) == \E m \in matched : m[1] = <<c, i>> \/ m[2] = <<c, i>>

\* What met is a send and a receive that name each other's core.
Pairs ==
  \A m \in matched :
    LET s == m[1][1]  r == m[2][1]
    IN  /\ m[1][2] \in DOMAIN Program[s] /\ m[1][2] < pc[s]
        /\ Sends(s, m[1][2]) /\ Program[s][m[1][2]].peer = r
        /\ m[2][2] \in DOMAIN Program[r] /\ m[2][2] < pc[r]
        /\ Receives(r, m[2][2]) /\ Program[r][m[2][2]].peer = s

\* A core goes past a send or receive only when it has met.
AllMet ==
  \A c \in Cores : \A i \in DOMAIN Program[c] :
    /\ i < pc[c]
    /\ Sends(c, i) \/ Receives(c, i)
    /\ issue[c].at \in Waits => issue[c].op # i
    => HasMet(c, i)

\* A sender that has met and is in the map is about to be answered.
MetIsServed ==
  \A c, s \in Cores :
    receiver_waiting_sender_map[c][s] # -1 /\ HasMet(s, issue[s].op) =>
      /\ issue[c].at = "issued"
      /\ Receives(c, issue[c].op) /\ Program[c][issue[c].op].peer = s

\* A send whose message is under way has not met.
NewIsUnmet ==
  \A m \in InFlight : m.status = "sender_ready" => ~ HasMet(m.src, m.op)

JInv == Pairs /\ AllMet /\ MetIsServed /\ NewIsUnmet

\* What the issue stage of a core may do without a meeting: nothing, begin a
\* transfer that waits or meets nobody, hear the end of its wait, or pass on.
Turn(c) ==
  \/ issue'[c] = issue[c] /\ pc'[c] = pc[c]
  \/ /\ issue[c] = Idle /\ issue'[c].op = pc[c] /\ pc'[c] = pc[c] + 1
     /\ issue'[c].at \in Waits \/ ~ (Sends(c, pc[c]) \/ Receives(c, pc[c]))
  \/ issue[c].at = "receiver_ready" /\ pc'[c] = pc[c]
  \/ /\ issue[c].at = "issued" /\ pc'[c] = pc[c]
     /\ Receives(c, issue[c].op) =>
          receiver_waiting_sender_map'[c][Program[c][issue[c].op].peer] = -1

-----------------------------------------------------------------------------
(***************************************************************************)
(* Steps in which nobody meets.                                            *)
(***************************************************************************)

\* A message that is sent is the only new one.
LEMMA Sent ==
  ASSUME QueueOK(pending_queue), NEW c \in Cores, NEW m, Enqueue(c, m)
  PROVE  \A x \in InFlight' : x \in InFlight \/ x = m
<1>1. ASSUME NEW d \in Cores, NEW x \in Range(pending_queue'[d])
      PROVE  x \in Range(pending_queue[d]) \/ x = m
  <2>1. pending_queue[d] \in Seq(MessageType)
    BY DEF QueueOK
  <2>2. CASE d # c
    BY <1>1, <2>2 DEF Enqueue, QueueOK
  <2>3. CASE d = c
    <3>1. pending_queue'[d] = Append(pending_queue[d], m)
      BY <2>3 DEF Enqueue, QueueOK
    <3>2. PICK i \in DOMAIN Append(pending_queue[d], m) : x = Append(pending_queue[d], m)[i]
      BY <1>1, <3>1 DEF Range
    <3>3. /\ DOMAIN Append(pending_queue[d], m) = 1 .. Len(pending_queue[d]) + 1
          /\ DOMAIN pending_queue[d] = 1 .. Len(pending_queue[d])
          /\ Len(pending_queue[d]) \in Nat
      BY <2>1, LenProperties
    <3>4. CASE i = Len(pending_queue[d]) + 1
      BY <2>1, <3>2, <3>4
    <3>5. CASE i # Len(pending_queue[d]) + 1
      <4>1. i \in DOMAIN pending_queue[d] /\ x = pending_queue[d][i]
        BY <2>1, <3>2, <3>3, <3>5
      <4>2. QED
        BY <4>1 DEF Range
    <3>6. QED
      BY <3>4, <3>5
  <2>4. QED
    BY <2>2, <2>3
<1>2. QED
  BY <1>1 DEF InFlight, Handshakes

LEMMA NoMeeting ==
  ASSUME IInv, JInv, NEW c \in Cores, matched' = matched, Turn(c),
         \A d \in Cores : d # c => issue'[d] = issue[d] /\ pc'[d] = pc[d],
         \A d, e \in Cores : receiver_waiting_sender_map'[d][e] # -1 =>
                               receiver_waiting_sender_map[d][e] # -1,
         \A x \in InFlight' : x.status = "sender_ready" =>
                                x \in InFlight \/ (x.src = c /\ x.op = pc[c])
  PROVE  JInv'
<1>1. \A d, i : HasMet(d, i)' <=> HasMet(d, i)
  BY DEF HasMet
<1>2. /\ \A d \in Cores : pc[d] \in Nat /\ pc'[d] \in Nat /\ pc'[d] >= pc[d]
      /\ matched \subseteq (Cores \X Nat) \X (Cores \X Nat)
  BY DEF IInv, Types, Turn
<1>3. Pairs'
  <2> SUFFICES ASSUME NEW m \in matched
               PROVE  m[1][2] < pc'[m[1][1]] /\ m[2][2] < pc'[m[2][1]]
    BY DEF JInv, Pairs
  <2>1. m[1] \in Cores \X Nat /\ m[2] \in Cores \X Nat
    BY <1>2
  <2>2. m[1][2] < pc[m[1][1]] /\ m[2][2] < pc[m[2][1]]
    BY DEF JInv, Pairs
  <2>3. QED
    BY <1>2, <2>1, <2>2
<1>4. AllMet'
  <2> SUFFICES ASSUME NEW d \in Cores, NEW i \in DOMAIN Program[d],
                      i < pc'[d], Sends(d, i) \/ Receives(d, i),
                      issue'[d].at \in Waits => issue'[d].op # i
               PROVE  HasMet(d, i)
    BY <1>1 DEF AllMet
  <2>1. i < pc[d] /\ (issue[d].at \in Waits => issue[d].op # i) => HasMet(d, i)
    BY DEF JInv, AllMet
  <2>2. i \in Nat /\ pc[d] \in Nat
    BY <1>2, ProgramTypes
  <2>3. CASE d # c
    BY <2>1, <2>3
  <2>4. CASE d = c /\ issue'[c] = issue[c] /\ pc'[c] = pc[c]
    BY <2>1, <2>4
  <2>5. CASE d = c /\ ~ (issue'[c] = issue[c] /\ pc'[c] = pc[c])
    <3>1. issue[c].at \notin Waits
      BY <2>5 DEF Turn, Waits, Idle
    <3>2. i < pc[c]
      BY <2>2, <2>5 DEF Turn
    <3>3. QED
      BY <2>1, <2>5, <3>1, <3>2
  <2>6. QED
    BY <2>3, <2>4, <2>5
<1>5. MetIsServed'
  <2> SUFFICES ASSUME NEW d \in Cores, NEW e \in Cores,
                      receiver_waiting_sender_map'[d][e] # -1, HasMet(e, issue'[e].op)
               PROVE  /\ issue'[d].at = "issued"
                      /\ Receives(d, issue'[d].op) /\ Program[d][issue'[d].op].peer = e
    BY <1>1 DEF MetIsServed
  <2>1. receiver_waiting_sender_map[d][e] # -1 /\ issue[e].at = "wait_receiver_ready"
    BY DEF IInv, MapOK
  <2>2. issue'[e] = issue[e]
    BY <2>1 DEF Turn, Idle
  <2>3. /\ issue[d].at = "issued"
        /\ Receives(d, issue[d].op) /\ Program[d][issue[d].op].peer = e
    BY <2>1, <2>2 DEF JInv, MetIsServed
  <2>4. issue'[d] = issue[d]
    BY <2>3 DEF Turn, Idle
  <2>5. QED
    BY <2>3, <2>4
<1>6. NewIsUnmet'
  <2> SUFFICES ASSUME NEW x \in InFlight', x.status = "sender_ready"
               PROVE  ~ HasMet(x.src, x.op)
    BY <1>1 DEF NewIsUnmet
  <2>1. CASE x \in InFlight
    BY <2>1 DEF JInv, NewIsUnmet
  <2>2. CASE x.src = c /\ x.op = pc[c]
    <3>1. \A m \in matched : m[1] # <<c, pc[c]>> /\ m[2] # <<c, pc[c]>>
      BY <1>2 DEF JInv, Pairs
    <3>2. QED
      BY <2>2, <3>1 DEF HasMet
  <2>3. QED
    BY <2>1, <2>2
<1>7. QED
  BY <1>3, <1>4, <1>5, <1>6 DEF JInv

LEMMA SendHandshakeMeets == ASSUME IInv, JInv, NEW c \in Cores, SendHandshake(c) PROVE JInv'
<1> DEFINE op == Program[c][pc[c]]
<1>1. PICK m : m = Message("sender_ready", c, op.peer, op.tag, pc[c])
  OBVIOUS
<1>2. issue[c] = Idle /\ pc'[c] = pc[c] + 1 /\ \A d \in Cores : d # c => pc'[d] = pc[d]
  BY Started DEF SendHandshake
<1>3. /\ issue' = [issue EXCEPT ![c] = [op |-> pc[c], at |-> "wait_receiver_ready"]]
      /\ Enqueue(c, m)
      /\ UNCHANGED <<receiver_waiting_sender_map, matched>>
  BY <1>1 DEF SendHandshake, IssueAt
<1>4. /\ issue'[c] = [op |-> pc[c], at |-> "wait_receiver_ready"]
      /\ \A d \in Cores : d # c => issue'[d] = issue[d]
  BY <1>3 DEF IInv, Types
<1>5. Turn(c)
  BY <1>2, <1>4 DEF Turn, Waits
<1>6. \A x \in InFlight' : x \in InFlight \/ (x.src = c /\ x.op = pc[c])
  BY <1>1, <1>3, Sent DEF IInv, Message
<1>7. QED
  BY <1>2, <1>3, <1>4, <1>5, <1>6, NoMeeting

LEMMA SendHandshakeEndMeets ==
  ASSUME IInv, JInv, NEW c \in Cores, SendHandshakeEnd(c) PROVE JInv'
<1>1. /\ issue[c].at = "receiver_ready" /\ issue' = [issue EXCEPT ![c].at = "issued"]
      /\ UNCHANGED <<pc, receiver_waiting_sender_map, pending_queue, matched>>
  BY DEF SendHandshakeEnd
<1>2. \A d \in Cores : d # c => issue'[d] = issue[d]
  BY <1>1 DEF IInv, Types
<1>3. Turn(c) /\ InFlight' = InFlight
  BY <1>1 DEF Turn, InFlight
<1>4. QED
  BY <1>1, <1>2, <1>3, NoMeeting

LEMMA ReceiveWaitsMeets ==
  ASSUME IInv, JInv, NEW c \in Cores, ReceiveHandshake(c), matched' = matched,
         issue' = [issue EXCEPT ![c] = [op |-> pc[c], at |-> "wait_sender_ready"]]
  PROVE  JInv'
<1>1. issue[c] = Idle /\ pc'[c] = pc[c] + 1 /\ \A d \in Cores : d # c => pc'[d] = pc[d]
  BY Started DEF ReceiveHandshake
<1>2. UNCHANGED <<receiver_waiting_sender_map, pending_queue>>
  BY DEF ReceiveHandshake
<1>3. /\ issue'[c] = [op |-> pc[c], at |-> "wait_sender_ready"]
      /\ \A d \in Cores : d # c => issue'[d] = issue[d]
  BY DEF IInv, Types
<1>4. Turn(c) /\ InFlight' = InFlight
  BY <1>1, <1>2, <1>3 DEF Turn, Waits, InFlight
<1>5. QED
  BY <1>1, <1>2, <1>3, <1>4, NoMeeting

LEMMA IssueGlobalMeets == ASSUME IInv, JInv, NEW c \in Cores, IssueGlobal(c) PROVE JInv'
<1>1. /\ issue[c] = Idle /\ pc'[c] = pc[c] + 1
      /\ Program[c][pc[c]].type \in {"global_load", "global_store"}
      /\ \A d \in Cores : d # c => pc'[d] = pc[d]
  BY Started DEF IssueGlobal
<1>2. /\ issue' = [issue EXCEPT ![c] = [op |-> pc[c], at |-> "issued"]]
      /\ UNCHANGED <<receiver_waiting_sender_map, pending_queue, matched>>
  BY DEF IssueGlobal, IssueAt
<1>3. /\ issue'[c] = [op |-> pc[c], at |-> "issued"]
      /\ \A d \in Cores : d # c => issue'[d] = issue[d]
  BY <1>2 DEF IInv, Types
<1>4. Turn(c) /\ InFlight' = InFlight
  BY <1>1, <1>2, <1>3 DEF Turn, InFlight, Sends, Receives
<1>5. QED
  BY <1>1, <1>2, <1>3, <1>4, NoMeeting

LEMMA ReceiveDataMeets == ASSUME IInv, JInv, NEW c \in Cores, ReceiveData(c) PROVE JInv'
<1>1. PICK s : s = Program[c][issue[c].op].peer
  OBVIOUS
<1>2. PICK m : m = Message("receiver_ready", c, s, receiver_waiting_sender_map[c][s], issue[c].op)
  OBVIOUS
<1>3. /\ issue[c].at = "issued" /\ issue' = [issue EXCEPT ![c] = Idle]
      /\ UNCHANGED <<pc, matched>>
      /\ Enqueue(c, m)
      /\ Receives(c, issue[c].op)
      /\ receiver_waiting_sender_map' = [receiver_waiting_sender_map EXCEPT ![c][s] = -1]
  BY <1>1, <1>2 DEF ReceiveData, StartsRead, Op, Receives, SenderServed
<1>4. s \in Cores
  BY <1>1, <1>3, ProgramTypes DEF IInv, CoresOK, StagesOK, Idle
<1>5. \A d \in Cores : d # c => issue'[d] = issue[d]
  BY <1>3 DEF IInv, Types
<1>6. /\ receiver_waiting_sender_map'[c][s] = -1
      /\ \A d, e \in Cores : receiver_waiting_sender_map'[d][e] # -1 =>
                              receiver_waiting_sender_map[d][e] # -1
  <2>1. receiver_waiting_sender_map \in [Cores -> [Cores -> Tags \cup {-1}]]
    BY DEF IInv, Types
  <2>2. /\ \A d \in Cores : d # c => receiver_waiting_sender_map'[d] = receiver_waiting_sender_map[d]
        /\ receiver_waiting_sender_map'[c] = [receiver_waiting_sender_map[c] EXCEPT ![s] = -1]
    BY <1>3, <2>1
  <2>3. /\ receiver_waiting_sender_map'[c][s] = -1
        /\ \A e \in Cores : e # s =>
             receiver_waiting_sender_map'[c][e] = receiver_waiting_sender_map[c][e]
    BY <2>1, <2>2, <1>4
  <2>4. QED
    BY <2>2, <2>3
<1>7. Turn(c)
  BY <1>1, <1>3, <1>6 DEF Turn
<1>8. \A x \in InFlight' : x.status = "sender_ready" => x \in InFlight
  BY <1>2, <1>3, Sent DEF IInv, Message
<1>9. QED
  BY <1>3, <1>5, <1>6, <1>7, <1>8, NoMeeting

\* The other steps of the read and write stages: at most a message, and none of a
\* handshake.
LEMMA StagesMeet ==
  ASSUME IInv, JInv, NEW c \in Cores,
         \/ LoadGlobal(c) \/ ReadLocal(c)
         \/ SendData(c) \/ StoreGlobal(c) \/ WriteLocal(c) \/ WriteEnd(c)
  PROVE  JInv'
<1>1. UNCHANGED <<pc, matched, receiver_waiting_sender_map>>
  BY DEF LoadGlobal, ReadLocal, StartsRead, SendData, StoreGlobal, WriteLocal, StartsWrite, WriteEnd
<1>2. \/ UNCHANGED issue
      \/ /\ issue[c].at = "issued" /\ ~ Receives(c, issue[c].op)
         /\ issue' = [issue EXCEPT ![c] = Idle]
  BY DEF LoadGlobal, ReadLocal, StartsRead, SendData, StoreGlobal, WriteLocal, StartsWrite,
         WriteEnd, Op, Receives
<1>3. \A d \in Cores : d # c => issue'[d] = issue[d]
  BY <1>2 DEF IInv, Types
<1>4. Turn(c)
  BY <1>1, <1>2 DEF Turn
<1>5. \A x \in InFlight' : x.status = "sender_ready" => x \in InFlight
  <2>1. UNCHANGED pending_queue \/ \E m : Enqueue(c, m) /\ m.status # "sender_ready"
    BY DEF LoadGlobal, ReadLocal, SendData, StoreGlobal, WriteLocal, WriteEnd, Message
  <2>2. CASE UNCHANGED pending_queue
    BY <2>2 DEF InFlight
  <2>3. CASE \E m : Enqueue(c, m) /\ m.status # "sender_ready"
    BY <2>3, Sent DEF IInv
  <2>4. QED
    BY <2>1, <2>2, <2>3
<1>6. QED
  BY <1>1, <1>3, <1>4, <1>5, NoMeeting

\* The map gets an entry only of a send that has not met.
LEMMA DeliverSenderReadyMeets ==
  ASSUME IInv, JInv, NEW c \in Cores, DeliverSenderReady(c) PROVE JInv'
<1>1. PICK m : m = Head(pending_queue[c])
  OBVIOUS
<1>2. /\ InFlight' = InFlight \ {m}
      /\ m \in InFlight /\ m.src = c /\ m.status = "sender_ready"
  BY <1>1, Dequeued DEF IInv, DeliverSenderReady
<1>3. m.dst \in Cores /\ issue[c].op = m.op
  BY <1>2 DEF IInv, MessagesOK, MessageOK, SenderReadyOK
<1>4. /\ UNCHANGED <<pc, matched>>
      /\ receiver_waiting_sender_map' = [receiver_waiting_sender_map EXCEPT ![m.dst][c] = m.tag]
      /\ \/ UNCHANGED issue
         \/ /\ issue[m.dst].at = "wait_sender_ready"
            /\ issue' = [issue EXCEPT ![m.dst].at = "sender_ready"]
  BY <1>1, <1>2 DEF DeliverSenderReady, Delivers, Wakes
<1>5. \A d \in Cores :
        \/ issue'[d] = issue[d]
        \/ /\ issue[d].at = "wait_sender_ready"
           /\ issue'[d].at = "sender_ready" /\ issue'[d].op = issue[d].op
  <2>1. issue \in [Cores -> StageType]
    BY DEF IInv, Types
  <2>2. CASE UNCHANGED issue
    BY <2>2
  <2>3. CASE ~ UNCHANGED issue
    <3>1. PICK r \in Cores : r = m.dst
      BY <1>3
    <3>2. issue[r].at = "wait_sender_ready" /\ issue' = [issue EXCEPT ![r].at = "sender_ready"]
      BY <2>3, <3>1, <1>4
    <3>3. /\ issue'[r].op = issue[r].op /\ issue'[r].at = "sender_ready"
          /\ \A d \in Cores \ {r} : issue'[d] = issue[d]
      BY <2>1, <3>2, GoesOn
    <3>4. QED
      BY <3>2, <3>3
  <2>4. QED
    BY <2>2, <2>3
<1>6. \A d, e \in Cores : ~ (d = m.dst /\ e = c) =>
        receiver_waiting_sender_map'[d][e] = receiver_waiting_sender_map[d][e]
  <2>1. receiver_waiting_sender_map \in [Cores -> [Cores -> Tags \cup {-1}]]
    BY DEF IInv, Types
  <2>2. QED
    BY <2>1, <1>3, <1>4
<1>7. \A d, i : HasMet(d, i)' <=> HasMet(d, i)
  BY <1>4 DEF HasMet
<1>8. Pairs'
  BY <1>4 DEF JInv, Pairs
<1>9. AllMet'
  <2> SUFFICES ASSUME NEW d \in Cores, NEW i \in DOMAIN Program[d],
                      i < pc[d], Sends(d, i) \/ Receives(d, i),
                      issue'[d].at \in Waits => issue'[d].op # i
               PROVE  HasMet(d, i)
    BY <1>4, <1>7 DEF AllMet
  <2>1. issue[d].at \in Waits => issue[d].op # i
    BY <1>5 DEF Waits
  <2>2. QED
    BY <2>1 DEF JInv, AllMet
<1>10. MetIsServed'
  <2> SUFFICES ASSUME NEW d \in Cores, NEW e \in Cores,
                      receiver_waiting_sender_map'[d][e] # -1, HasMet(e, issue'[e].op)
               PROVE  /\ issue'[d].at = "issued"
                      /\ Receives(d, issue'[d].op) /\ Program[d][issue'[d].op].peer = e
    BY <1>7 DEF MetIsServed
  <2>1. issue'[e].op = issue[e].op
    BY <1>5
  <2>2. ~ (d = m.dst /\ e = c)
    BY <2>1, <1>2, <1>3 DEF JInv, NewIsUnmet
  <2>3. /\ issue[d].at = "issued"
        /\ Receives(d, issue[d].op) /\ Program[d][issue[d].op].peer = e
    BY <2>1, <2>2, <1>6 DEF JInv, MetIsServed
  <2>4. issue'[d] = issue[d]
    BY <2>3, <1>5
  <2>5. QED
    BY <2>3, <2>4
<1>11. NewIsUnmet'
  BY <1>2, <1>7 DEF JInv, NewIsUnmet
<1>12. QED
  BY <1>8, <1>9, <1>10, <1>11 DEF JInv

\* A sender that is answered has met.
LEMMA DeliverReceiverReadyMeets ==
  ASSUME IInv, JInv, NEW c \in Cores, DeliverReceiverReady(c) PROVE JInv'
<1>1. PICK m : m = Head(pending_queue[c])
  OBVIOUS
<1>2. PICK s : s = m.dst
  OBVIOUS
<1>3. /\ InFlight' = InFlight \ {m}
      /\ m \in InFlight /\ m.src = c /\ m.status = "receiver_ready"
  BY <1>1, Dequeued DEF IInv, DeliverReceiverReady
<1>4. /\ s \in Cores /\ issue[s].at = "wait_receiver_ready"
      /\ <<<<s, issue[s].op>>, <<c, m.op>>>> \in matched
  BY <1>2, <1>3 DEF IInv, MessagesOK, MessageOK, ReceiverReadyOK
<1>5. /\ UNCHANGED <<pc, matched, receiver_waiting_sender_map>>
      /\ issue' = issue \/ issue' = [issue EXCEPT ![s].at = "receiver_ready"]
  BY <1>1, <1>2 DEF DeliverReceiverReady, Delivers, Wakes
<1>6. /\ issue'[s].op = issue[s].op
      /\ \A d \in Cores : d # s => issue'[d] = issue[d]
  <2>1. issue \in [Cores -> StageType]
    BY DEF IInv, Types
  <2>2. CASE issue' = issue
    BY <2>2
  <2>3. CASE issue' = [issue EXCEPT ![s].at = "receiver_ready"]
    <3>1. PICK r \in Cores : r = s
      BY <1>4
    <3>2. issue' = [issue EXCEPT ![r].at = "receiver_ready"]
      BY <2>3, <3>1
    <3>3. issue'[r].op = issue[r].op /\ \A d \in Cores \ {r} : issue'[d] = issue[d]
      BY <2>1, <3>2, GoesOn
    <3>4. QED
      BY <3>1, <3>3
  <2>4. QED
    BY <2>2, <2>3, <1>5
<1>7. \A d, i : HasMet(d, i)' <=> HasMet(d, i)
  BY <1>5 DEF HasMet
<1>8. Pairs'
  BY <1>5 DEF JInv, Pairs
<1>9. AllMet'
  <2> SUFFICES ASSUME NEW d \in Cores, NEW i \in DOMAIN Program[d],
                      i < pc[d], Sends(d, i) \/ Receives(d, i),
                      issue'[d].at \in Waits => issue'[d].op # i
               PROVE  HasMet(d, i)
    BY <1>5, <1>7 DEF AllMet
  <2>1. CASE d = s /\ i = issue[s].op
    BY <2>1, <1>4 DEF HasMet
  <2>2. CASE ~ (d = s /\ i = issue[s].op)
    <3>1. issue[d].at \in Waits => issue[d].op # i
      BY <2>2, <1>6
    <3>2. QED
      BY <3>1 DEF JInv, AllMet
  <2>3. QED
    BY <2>1, <2>2
<1>10. MetIsServed'
  <2> SUFFICES ASSUME NEW d \in Cores, NEW e \in Cores,
                      receiver_waiting_sender_map[d][e] # -1, HasMet(e, issue'[e].op)
               PROVE  /\ issue'[d].at = "issued"
                      /\ Receives(d, issue'[d].op) /\ Program[d][issue'[d].op].peer = e
    BY <1>5, <1>7 DEF MetIsServed
  <2>1. issue'[e].op = issue[e].op
    BY <1>6
  <2>2. /\ issue[d].at = "issued"
        /\ Receives(d, issue[d].op) /\ Program[d][issue[d].op].peer = e
    BY <2>1 DEF JInv, MetIsServed
  <2>3. issue'[d] = issue[d]
    BY <2>2, <1>4, <1>6
  <2>4. QED
    BY <2>2, <2>3
<1>11. NewIsUnmet'
  BY <1>3, <1>7 DEF JInv, NewIsUnmet
<1>12. QED
  BY <1>8, <1>9, <1>10, <1>11 DEF JInv

LEMMA OtherDeliveriesMeet ==
  ASSUME IInv, JInv, NEW c \in Cores, DeliverData(c) \/ Transport(c) PROVE JInv'
<1>1. UNCHANGED <<pc, issue, matched, receiver_waiting_sender_map>>
  BY DEF DeliverData, Transport, Delivers
<1>2. \A x \in InFlight' : x \in InFlight
  BY Dequeued DEF IInv, DeliverData, Transport
<1>3. Turn(c)
  BY <1>1 DEF Turn
<1>4. QED
  BY <1>1, <1>2, <1>3, NoMeeting

-----------------------------------------------------------------------------
(***************************************************************************)
(* A meeting.                                                              *)
(***************************************************************************)

\* The programs agree on the tag of whatever goes from one core to another.
TagsAgree ==
  \A s, r \in Cores : \A i \in DOMAIN Program[s], j \in DOMAIN Program[r] :
    /\ Sends(s, i) /\ Program[s][i].peer = r
    /\ Receives(r, j) /\ Program[r][j].peer = s
    => Program[s][i].tag = Program[r][j].tag

\* The receive of core c that goes on, when its sender is in the map.
Goes(c, i) ==
  /\ i \in DOMAIN Program[c] /\ Receives(c, i)
  /\ receiver_waiting_sender_map[c][Program[c][i].peer] # -1
  /\ \/ issue[c] = Idle /\ i = pc[c] /\ pc'[c] = pc[c] + 1
     \/ issue[c].at = "sender_ready" /\ i = issue[c].op /\ pc'[c] = pc[c]
  /\ issue'[c].op = i /\ issue'[c].at = "issued"
  /\ \A d \in Cores : d # c => issue'[d] = issue[d] /\ pc'[d] = pc[d]
  /\ Match(c, i)
  /\ UNCHANGED <<receiver_waiting_sender_map, pending_queue>>

\* Who meets is a send and a receive that name each other, and neither has met.
LEMMA Partners ==
  ASSUME IInv, JInv, NEW c \in Cores, NEW i \in Nat, Goes(c, i),
         NEW s, s = Program[c][i].peer
  PROVE  /\ s \in Cores /\ s # c /\ issue[s].at = "wait_receiver_ready"
         /\ issue[s].op \in DOMAIN Program[s] /\ issue[s].op < pc[s] /\ issue[s].op \in Nat
         /\ Sends(s, issue[s].op) /\ Program[s][issue[s].op].peer = c
         /\ i < pc'[c]
         /\ ~ HasMet(s, issue[s].op) /\ ~ HasMet(c, i)
<1>1. s \in Cores
  BY ProgramTypes DEF Goes
<1>2. /\ issue[s].at = "wait_receiver_ready" /\ expected_receiver_core_id[s] = c
      /\ s # c
  BY <1>1 DEF IInv, MapOK, Goes, Idle
<1>3. /\ issue[s].op \in DOMAIN Program[s] /\ issue[s].op < pc[s] /\ issue[s].op \in Nat
      /\ Sends(s, issue[s].op)
  <2>1. StagesOK(s) /\ issue[s] # Idle
    BY <1>1, <1>2 DEF IInv, CoresOK, Idle
  <2>2. /\ issue[s].op \in DOMAIN Program[s] /\ issue[s].op < pc[s]
        /\ Sends(s, issue[s].op)
    BY <1>2, <2>1 DEF StagesOK
  <2>3. QED
    BY <1>1, <2>2, ProgramTypes
<1>4. Program[s][issue[s].op].peer = c
  BY <1>1, <1>2 DEF IInv, CoresOK, SenderExpects
<1>5. i < pc'[c]
  <2>1. pc[c] \in Nat /\ (issue[c] # Idle => issue[c].op < pc[c])
    BY DEF IInv, Types, CoresOK, StagesOK
  <2>2. QED
    BY <2>1 DEF Goes, Idle
<1>6. ~ HasMet(s, issue[s].op)
  <2>1. issue[c].at # "issued"
    BY DEF Goes, Idle
  <2>2. receiver_waiting_sender_map[c][s] # -1
    BY DEF Goes
  <2>3. QED
    BY <1>1, <2>1, <2>2 DEF JInv, MetIsServed
<1>7. ~ HasMet(c, i)
  <2> SUFFICES ASSUME NEW m \in matched, m[1] = <<c, i>> \/ m[2] = <<c, i>>
               PROVE  FALSE
    BY DEF HasMet
  <2>1. Sends(m[1][1], m[1][2]) /\ m[2][2] < pc[m[2][1]]
    BY DEF JInv, Pairs
  <2>2. m[1] # <<c, i>>
    BY <2>1 DEF Goes, Sends, Receives
  <2>3. m[2] = <<c, i>> => m[2][1] = c /\ m[2][2] = i
    OBVIOUS
  <2>4. m[2] # <<c, i>>
    <3>1. pc[c] \in Nat
      BY DEF IInv, Types
    <3>2. CASE issue[c] = Idle /\ i = pc[c]
      BY <2>1, <2>3, <3>1, <3>2
    <3>3. CASE issue[c].at = "sender_ready" /\ i = issue[c].op
      BY <2>3, <3>3 DEF IInv, MetOnce
    <3>4. QED
      BY <3>2, <3>3 DEF Goes
  <2>5. QED
    BY <2>2, <2>4
<1>8. QED
  BY <1>1, <1>2, <1>3, <1>4, <1>5, <1>6, <1>7

LEMMA Meeting ==
  ASSUME IInv, JInv, NEW c \in Cores, NEW i \in Nat, Goes(c, i) PROVE JInv'
<1>1. PICK s : s = Program[c][i].peer
  OBVIOUS
<1>2. PICK j : j = issue[s].op
  OBVIOUS
<1>3. /\ s \in Cores /\ s # c /\ issue[s].at = "wait_receiver_ready"
      /\ j \in DOMAIN Program[s] /\ j < pc[s] /\ Sends(s, j) /\ Program[s][j].peer = c
      /\ i \in DOMAIN Program[c] /\ Receives(c, i) /\ i < pc'[c]
  BY <1>1, <1>2, Partners DEF Goes
<1>4. matched' = matched \cup {<<<<s, j>>, <<c, i>>>>}
  BY <1>1, <1>2 DEF Goes, Match
<1>5. \A d, k : HasMet(d, k)' <=>
        HasMet(d, k) \/ <<d, k>> = <<s, j>> \/ <<d, k>> = <<c, i>>
  <2>1. PICK new : new = <<<<s, j>>, <<c, i>>>>
    OBVIOUS
  <2>2. new[1] = <<s, j>> /\ new[2] = <<c, i>> /\ matched' = matched \cup {new}
    BY <2>1, <1>4
  <2>3. QED
    BY <2>2 DEF HasMet
<1>6. /\ \A d \in Cores : pc[d] \in Nat /\ pc'[d] \in Nat /\ pc'[d] >= pc[d]
      /\ matched \subseteq (Cores \X Nat) \X (Cores \X Nat)
      /\ pc'[s] = pc[s]
  BY <1>3 DEF IInv, Types, Goes
<1>7. Pairs'
  <2> SUFFICES ASSUME NEW m \in matched'
               PROVE  /\ m[1][2] \in DOMAIN Program[m[1][1]] /\ m[1][2] < pc'[m[1][1]]
                      /\ Sends(m[1][1], m[1][2]) /\ Program[m[1][1]][m[1][2]].peer = m[2][1]
                      /\ m[2][2] \in DOMAIN Program[m[2][1]] /\ m[2][2] < pc'[m[2][1]]
                      /\ Receives(m[2][1], m[2][2])
                      /\ Program[m[2][1]][m[2][2]].peer = m[1][1]
    BY DEF Pairs
  <2>1. CASE m = <<<<s, j>>, <<c, i>>>>
    BY <2>1, <1>1, <1>3, <1>6
  <2>2. CASE m \in matched
    <3>1. m[1] \in Cores \X Nat /\ m[2] \in Cores \X Nat
      BY <2>2, <1>6
    <3>2. m[1][2] < pc[m[1][1]] /\ m[2][2] < pc[m[2][1]]
      BY <2>2 DEF JInv, Pairs
    <3>3. m[1][2] < pc'[m[1][1]] /\ m[2][2] < pc'[m[2][1]]
      BY <3>1, <3>2, <1>6
    <3>4. QED
      BY <2>2, <3>3 DEF JInv, Pairs
  <2>3. QED
    BY <2>1, <2>2, <1>4
<1>8. AllMet'
  <2> SUFFICES ASSUME NEW d \in Cores, NEW k \in DOMAIN Program[d],
                      k < pc'[d], Sends(d, k) \/ Receives(d, k), <<d, k>> # <<c, i>>,
                      issue'[d].at \in Waits => issue'[d].op # k
               PROVE  HasMet(d, k)
    BY <1>5 DEF AllMet
  <2>1. k < pc[d] /\ (issue[d].at \in Waits => issue[d].op # k) => HasMet(d, k)
    BY DEF JInv, AllMet
  <2>2. CASE d # c
    BY <2>1, <2>2 DEF Goes
  <2>3. CASE d = c /\ issue[c] = Idle
    <3>1. k \in Nat /\ pc[c] \in Nat
      BY <1>6, ProgramTypes
    <3>2. k < pc[c]
      BY <2>3, <3>1 DEF Goes, Idle
    <3>3. QED
      BY <2>1, <2>3, <3>2 DEF Idle, Waits
  <2>4. CASE d = c /\ issue[c].at = "sender_ready"
    BY <2>1, <2>4 DEF Goes, Idle
  <2>5. QED
    BY <2>2, <2>3, <2>4 DEF Goes
<1>9. MetIsServed'
  <2> SUFFICES ASSUME NEW d \in Cores, NEW e \in Cores,
                      receiver_waiting_sender_map[d][e] # -1,
                      NEW k, k = issue'[e].op, HasMet(e, k)'
               PROVE  /\ issue'[d].at = "issued"
                      /\ Receives(d, issue'[d].op) /\ Program[d][issue'[d].op].peer = e
    BY DEF MetIsServed, Goes, HasMet
  <2>1. /\ issue[e].at = "wait_receiver_ready" /\ expected_receiver_core_id[e] = d
        /\ e # c /\ issue'[e] = issue[e] /\ k = issue[e].op
    BY DEF IInv, MapOK, Goes, Idle
  <2>2. CASE HasMet(e, issue[e].op)
    <3>1. /\ issue[d].at = "issued"
          /\ Receives(d, issue[d].op) /\ Program[d][issue[d].op].peer = e
      BY <2>2 DEF JInv, MetIsServed
    <3>2. d # c
      BY <3>1 DEF Goes, Idle
    <3>3. QED
      BY <3>1, <3>2 DEF Goes
  <2>3. CASE ~ HasMet(e, issue[e].op)
    <3>1. e = s
      BY <2>1, <2>3, <1>5
    <3>2. expected_receiver_core_id[s] = c
      BY <1>1, <1>3 DEF IInv, MapOK, Goes
    <3>3. d = c
      BY <2>1, <3>1, <3>2
    <3>4. QED
      BY <3>1, <3>3, <1>1 DEF Goes
  <2>4. QED
    BY <2>2, <2>3
<1>10. NewIsUnmet'
  <2> SUFFICES ASSUME NEW x \in InFlight, x.status = "sender_ready"
               PROVE  ~ HasMet(x.src, x.op)'
    BY DEF NewIsUnmet, Goes, InFlight
  <2>1. ~ HasMet(x.src, x.op)
    BY DEF JInv, NewIsUnmet
  <2>2. /\ issue[x.src].op = x.op /\ issue[x.src].at = "wait_receiver_ready"
        /\ receiver_waiting_sender_map[x.dst][x.src] = -1
        /\ x.dst = Program[x.src][x.op].peer
    BY DEF IInv, MessagesOK, MessageOK, SenderReadyOK
  <2>3. x.src # c
    BY <2>2 DEF Goes, Idle
  <2>4. <<x.src, x.op>> # <<s, j>>
    BY <2>2, <1>1, <1>3 DEF Goes
  <2>5. QED
    BY <2>1, <2>3, <2>4, <1>5
<1>11. QED
  BY <1>7, <1>8, <1>9, <1>10 DEF JInv

\* It is a meeting of the abstract specification, if the programs agree.
LEMMA AbstractMeeting ==
  ASSUME TagsAgree, IInv, JInv, NEW c \in Cores, NEW i \in Nat, Goes(c, i)
  PROVE  Abstract!Next
<1>1. PICK s : s = Program[c][i].peer
  OBVIOUS
<1>2. PICK j : j = issue[s].op
  OBVIOUS
<1>3. /\ s \in Cores /\ s # c /\ issue[s].at = "wait_receiver_ready"
      /\ j \in DOMAIN Program[s] /\ j < pc[s] /\ Sends(s, j) /\ Program[s][j].peer = c
      /\ i \in DOMAIN Program[c] /\ Receives(c, i) /\ i < pc'[c] /\ j \in Nat
      /\ ~ HasMet(s, j) /\ ~ HasMet(c, i)
  BY <1>1, <1>2, Partners DEF Goes
<1>4. matched' = matched \cup {<<<<s, j>>, <<c, i>>>>}
  BY <1>1, <1>2 DEF Goes, Match
<1>5. Abstract!Agree(<<s, j>>, <<c, i>>)
  <2>1. <<s, j>> \in Abstract!Transfers /\ <<c, i>> \in Abstract!Transfers
    BY <1>3 DEF Abstract!Transfers
  <2>2. Program[s][j].tag = Program[c][i].tag
    BY <1>1, <1>3 DEF TagsAgree
  <2>3. QED
    BY <2>1, <2>2, <1>1, <1>3 DEF Abstract!Agree, Abstract!Op, Sends, Receives
<1>6. \A d, k : <<d, k>> \in Abstract!Met <=> HasMet(d, k)
  BY DEF Abstract!Met, HasMet
<1>7. ASSUME NEW d \in Cores, NEW k \in DOMAIN Program[d], k < pc[d],
             Sends(d, k) \/ Receives(d, k), issue[d].at \in Waits => issue[d].op # k
      PROVE  <<d, k>> \in Abstract!Met
  BY <1>6, <1>7 DEF JInv, AllMet
<1>8. Abstract!IsNext(<<s, j>>)
  <2>1. ASSUME NEW k \in 1 .. j - 1, Program[s][k].type \in {"send", "receive"}
        PROVE  <<s, k>> \in Abstract!Met
    <3>1. k \in DOMAIN Program[s] /\ k < pc[s] /\ k # j
      BY <1>3, ProgramTypes DEF IInv, Types
    <3>2. QED
      BY <2>1, <3>1, <1>2, <1>3, <1>7 DEF Sends, Receives
  <2>2. QED
    BY <2>1, <1>3, <1>6 DEF Abstract!IsNext, Abstract!Op
<1>9. Abstract!IsNext(<<c, i>>)
  <2>1. ASSUME NEW k \in 1 .. i - 1, Program[c][k].type \in {"send", "receive"}
        PROVE  <<c, k>> \in Abstract!Met
    <3>1. pc[c] \in Nat /\ (issue[c] # Idle => issue[c].op < pc[c])
      BY DEF IInv, Types, CoresOK, StagesOK
    <3>2. i <= pc[c]
      BY <3>1 DEF Goes, Idle
    <3>3. k \in DOMAIN Program[c] /\ k < pc[c] /\ k # i
      BY <3>1, <3>2, <1>3, ProgramTypes
    <3>4. issue[c].at \in Waits => issue[c].op # k
      BY <3>3 DEF Goes, Idle, Waits
    <3>5. QED
      BY <2>1, <3>3, <3>4, <1>7 DEF Sends, Receives
  <2>2. QED
    BY <2>1, <1>3, <1>6 DEF Abstract!IsNext, Abstract!Op
<1>10. Abstract!Meet(<<s, j>>, <<c, i>>)
  BY <1>4, <1>5, <1>8, <1>9 DEF Abstract!Meet
<1>11. QED
  <2>1. PICK new : new = <<<<s, j>>, <<c, i>>>>
    OBVIOUS
  <2>2. new[1] = <<s, j>> /\ new[2] = <<c, i>> /\ new \in matched'
    BY <2>1, <1>4
  <2>3. QED
    BY <2>2, <1>10 DEF Abstract!Next

\* The two ways to meet: the sender was there first, or the receiver was woken.
LEMMA MeetingSteps ==
  ASSUME IInv, NEW c \in Cores
  PROVE  /\ ReceiveHandshake(c) =>
              \/ \E i \in Nat : Goes(c, i)
              \/ /\ matched' = matched
                 /\ issue' = [issue EXCEPT ![c] = [op |-> pc[c], at |-> "wait_sender_ready"]]
         /\ ReceiveHandshakeEnd(c) => \E i \in Nat : Goes(c, i)
<1>1. ASSUME ReceiveHandshake(c), SenderKnown(c, Program[c][pc[c]])
      PROVE  \E i \in Nat : Goes(c, i)
  <2>1. PICK i : i = pc[c]
    OBVIOUS
  <2>2. /\ i \in Nat /\ i \in DOMAIN Program[c] /\ Receives(c, i)
        /\ issue[c] = Idle /\ pc'[c] = i + 1 /\ \A d \in Cores : d # c => pc'[d] = pc[d]
    BY <1>1, <2>1, Started DEF ReceiveHandshake, Receives
  <2>3. receiver_waiting_sender_map[c][Program[c][i].peer] # -1
    BY <1>1, <2>1, <2>2, ProgramTypes DEF SenderKnown
  <2>4. /\ Match(c, i) /\ issue' = [issue EXCEPT ![c] = [op |-> i, at |-> "issued"]]
        /\ UNCHANGED <<receiver_waiting_sender_map, pending_queue>>
    BY <1>1, <2>1 DEF ReceiveHandshake, IssueAt
  <2>5. /\ issue'[c] = [op |-> i, at |-> "issued"]
        /\ \A d \in Cores : d # c => issue'[d] = issue[d]
    BY <2>4 DEF IInv, Types
  <2>6. QED
    BY <2>1, <2>2, <2>3, <2>4, <2>5 DEF Goes
<1>2. ASSUME ReceiveHandshake(c), ~ SenderKnown(c, Program[c][pc[c]])
      PROVE  /\ matched' = matched
             /\ issue' = [issue EXCEPT ![c] = [op |-> pc[c], at |-> "wait_sender_ready"]]
  BY <1>2 DEF ReceiveHandshake, IssueAt
<1>3. ASSUME ReceiveHandshakeEnd(c)
      PROVE  \E i \in Nat : Goes(c, i)
  <2>1. PICK i : i = issue[c].op
    OBVIOUS
  <2>2. /\ issue[c].at = "sender_ready" /\ Match(c, i)
        /\ issue' = [issue EXCEPT ![c].at = "issued"]
        /\ UNCHANGED <<pc, receiver_waiting_sender_map, pending_queue>>
    BY <1>3, <2>1 DEF ReceiveHandshakeEnd
  <2>3. i \in Nat /\ i \in DOMAIN Program[c] /\ Receives(c, i)
    BY <2>1, <2>2, ProgramTypes DEF IInv, CoresOK, StagesOK, Idle
  <2>4. receiver_waiting_sender_map[c][Program[c][i].peer] # -1
    BY <2>1, <2>2 DEF IInv, CoresOK, ReceiverOK
  <2>5. /\ issue'[c].op = i /\ issue'[c].at = "issued"
        /\ \A d \in Cores : d # c => issue'[d] = issue[d]
    <3>1. issue \in [Cores -> StageType]
      BY DEF IInv, Types
    <3>2. QED
      BY <2>1, <2>2, <3>1, GoesOn
  <2>6. QED
    BY <2>1, <2>2, <2>3, <2>4, <2>5 DEF Goes
<1>4. QED
  BY <1>1, <1>2, <1>3

-----------------------------------------------------------------------------
(***************************************************************************)
(* The theorem.                                                            *)
(***************************************************************************)
LEMMA JInitOK == Init => JInv
<1> SUFFICES ASSUME Init PROVE JInv
  OBVIOUS
<1>1. IInv
  BY InitOK
<1>2. Pairs
  BY DEF Init, Pairs
<1>3. AllMet
  BY ProgramTypes DEF Init, AllMet
<1>4. MetIsServed
  BY DEF Init, MetIsServed
<1>5. NewIsUnmet
  BY DEF Init, NewIsUnmet, HasMet
<1>6. QED
  BY <1>2, <1>3, <1>4, <1>5 DEF JInv

\* Every step keeps the second invariant, and is a meeting or nothing to Rendezvous.
LEMMA Step ==
  ASSUME IInv, JInv, [Next]_vars
  PROVE  JInv' /\ (TagsAgree => [Abstract!Next]_matched)
<1>1. ASSUME NEW c \in Cores, Issues(c)
      PROVE  JInv' /\ (TagsAgree => [Abstract!Next]_matched)
  <2>1. CASE SendHandshake(c)
    BY <2>1, SendHandshakeMeets DEF SendHandshake
  <2>2. CASE SendHandshakeEnd(c)
    BY <2>2, SendHandshakeEndMeets DEF SendHandshakeEnd
  <2>3. ASSUME NEW i \in Nat, Goes(c, i)
        PROVE  JInv' /\ (TagsAgree => [Abstract!Next]_matched)
    BY <2>3, Meeting, AbstractMeeting
  <2>4. CASE ReceiveHandshake(c)
    BY <2>3, <2>4, MeetingSteps, ReceiveWaitsMeets
  <2>5. CASE ReceiveHandshakeEnd(c)
    BY <2>3, <2>5, MeetingSteps
  <2>6. CASE IssueGlobal(c)
    BY <2>6, IssueGlobalMeets DEF IssueGlobal
  <2>7. QED
    BY <1>1, <2>1, <2>2, <2>4, <2>5, <2>6 DEF Issues
<1>2. ASSUME NEW c \in Cores, Reads(c) \/ Writes(c)
      PROVE  JInv' /\ matched' = matched
  <2>1. JInv'
    BY <1>2, ReceiveDataMeets, StagesMeet DEF Reads, Writes
  <2>2. matched' = matched
    BY <1>2 DEF Reads, Writes, ReceiveData, LoadGlobal, ReadLocal, StartsRead,
                SendData, StoreGlobal, WriteLocal, StartsWrite, WriteEnd
  <2>3. QED
    BY <2>1, <2>2
<1>3. ASSUME NEW c \in Cores, Switches(c)
      PROVE  JInv' /\ matched' = matched
  <2>1. JInv'
    BY <1>3, DeliverSenderReadyMeets, DeliverReceiverReadyMeets, OtherDeliveriesMeet DEF Switches
  <2>2. matched' = matched
    BY <1>3 DEF Switches, DeliverSenderReady, DeliverReceiverReady, DeliverData, Transport, Delivers
  <2>3. QED
    BY <2>1, <2>2
<1>4. CASE UNCHANGED vars
  <2>1. UNCHANGED <<pc, issue, receiver_waiting_sender_map, pending_queue, matched>>
    BY <1>4 DEF vars, stages
  <2>2. InFlight' = InFlight /\ \A d, i : HasMet(d, i)' <=> HasMet(d, i)
    BY <2>1 DEF InFlight, HasMet
  <2>3. Pairs' /\ AllMet'
    BY <2>1, <2>2 DEF JInv, Pairs, AllMet
  <2>4. MetIsServed'
    BY <2>1 DEF JInv, MetIsServed, HasMet
  <2>5. NewIsUnmet'
    BY <2>2 DEF JInv, NewIsUnmet
  <2>6. QED
    BY <2>1, <2>3, <2>4, <2>5 DEF JInv
<1>5. QED
  BY <1>1, <1>2, <1>3, <1>4 DEF Next

\* Sends and receives meet as Rendezvous says, each once and in the order of both
\* programs, for all programs that agree on the tags of what goes from one core to
\* another (transmit_socket.cpp: the handshakes).
THEOREM MeetsInOrder == ASSUME TagsAgree PROVE Spec => Implements
<1>1. Init => Abstract!Init
  BY DEF Init, Abstract!Init
<1>2. Init => IInv /\ JInv
  BY InitOK, JInitOK
<1>3. IInv /\ JInv /\ [Next]_vars => IInv' /\ JInv' /\ [Abstract!Next]_matched
  BY Inductive, Step, TagsAgree
<1>4. QED
  BY <1>1, <1>2, <1>3, PTL DEF Spec, Implements, Abstract!Spec

=============================================================================
