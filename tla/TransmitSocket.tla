---------------------------- MODULE TransmitSocket ----------------------------
(***************************************************************************)
(* Transfers between cores: the inter core bus of the transfer unit of     *)
(* each core (GlobalTransferDataPath in core/execute_unit/transfer_unit.   *)
(* cpp, with its three stage threads), its TransmitSocket (core/socket/    *)
(* transmit_socket.cpp) and its Switch (network/switch.cpp).               *)
(*                                                                         *)
(* An action is what a thread does between two waits.  A stage that is     *)
(* started (SubmoduleSocket) begins before the thread that started it goes *)
(* on, so it counts as busy at once.  A switch delivers one message after  *)
(* the other, each after some delay; the event a handler notifies wakes    *)
(* its thread in the next delta cycle, a step of its own.                  *)
(***************************************************************************)
EXTENDS Integers, Sequences, FiniteSets

CONSTANTS
  Cores,
  Program,     \* per core, the sequence of its transfers over the inter core bus
  NoCore       \* -1, for a core

ASSUME NoCoreAssumption == NoCore \notin Cores

TransferType == {"send", "receive", "global_load", "global_store"}

Transfer == [type : TransferType, peer : Cores \cup {NoCore}, tag : Nat]

ASSUME ProgramAssumption ==
  /\ Program \in [Cores -> Seq(Transfer)]
  /\ \A c \in Cores : \A i \in DOMAIN Program[c] :
       Program[c][i].type \in {"send", "receive"} => Program[c][i].peer \in Cores

VARIABLES
  pc,                           \* index of the next transfer of the core
  issue, read, write,           \* the stage threads: [op |-> transfer, at |-> where]
  expected_receiver_core_id,
  expected_transfer_id_tag,
  expected_sender_core_id,
  receiver_waiting_sender_map,  \* -1 for a sender it has no entry for
  pending_queue,                \* of the switch
  matched                       \* history: which send met which receive

stages == <<pc, issue, read, write>>
expected == <<expected_receiver_core_id, expected_transfer_id_tag, expected_sender_core_id>>
vars == <<stages, expected, receiver_waiting_sender_map, pending_queue, matched>>

Idle == [op |-> 0, at |-> "idle"]

Op(c, stage) == Program[c][stage[c].op]

Init ==
  /\ pc = [c \in Cores |-> 1]
  /\ issue = [c \in Cores |-> Idle]
  /\ read = [c \in Cores |-> Idle]
  /\ write = [c \in Cores |-> Idle]
  /\ expected_receiver_core_id = [c \in Cores |-> NoCore]
  /\ expected_transfer_id_tag = [c \in Cores |-> -1]
  /\ expected_sender_core_id = [c \in Cores |-> NoCore]
  /\ receiver_waiting_sender_map = [c \in Cores |-> [s \in Cores |-> -1]]
  /\ pending_queue = [c \in Cores |-> <<>>]
  /\ matched = {}

\* Messages carry, beside what the code puts in them, the transfer they belong to.
Message(status, src, dst, tag, op) ==
  [status |-> status, src |-> src, dst |-> dst, tag |-> tag, op |-> op]

\* sendHandler and transportHandler.
Enqueue(c, message) ==
  pending_queue' = [pending_queue EXCEPT ![c] = Append(@, message)]

-----------------------------------------------------------------------------
(***************************************************************************)
(* The issue stage.                                                        *)
(***************************************************************************)

\* The transfer unit hands over the next transfer of the program.
Starts(c, type) ==
  /\ issue[c] = Idle
  /\ pc[c] \in DOMAIN Program[c]
  /\ Program[c][pc[c]].type \in type
  /\ pc' = [pc EXCEPT ![c] = @ + 1]

IssueAt(c, where) == issue' = [issue EXCEPT ![c] = [op |-> pc[c], at |-> where]]

SendHandshake(c) ==
  LET op == Program[c][pc[c]]
  IN  /\ Starts(c, {"send"})
      /\ expected_receiver_core_id' = [expected_receiver_core_id EXCEPT ![c] = op.peer]
      /\ expected_transfer_id_tag' = [expected_transfer_id_tag EXCEPT ![c] = op.tag]
      /\ Enqueue(c, Message("sender_ready", c, op.peer, op.tag, pc[c]))
      /\ IssueAt(c, "wait_receiver_ready")
      /\ UNCHANGED <<read, write, expected_sender_core_id, receiver_waiting_sender_map, matched>>

SendHandshakeEnd(c) ==
  /\ issue[c].at = "receiver_ready"
  /\ expected_receiver_core_id' = [expected_receiver_core_id EXCEPT ![c] = NoCore]
  /\ expected_transfer_id_tag' = [expected_transfer_id_tag EXCEPT ![c] = -1]
  /\ issue' = [issue EXCEPT ![c].at = "issued"]
  /\ UNCHANGED <<pc, read, write, expected_sender_core_id, receiver_waiting_sender_map,
                 pending_queue, matched>>

\* The receive i of core c meets what the sender is waiting with.
Match(c, i) ==
  LET s == Program[c][i].peer
  IN  matched' = matched \cup {<<<<s, issue[s].op>>, <<c, i>>>>}

\* Mutant: the thread waits for the sender's message without looking for it first.
SenderKnownNever(c, op) == FALSE

SenderKnown(c, op) == receiver_waiting_sender_map[c][op.peer] = op.tag

\* The sender may be there already, or the thread waits for it.
ReceiveHandshake(c) ==
  LET op == Program[c][pc[c]]
  IN  /\ Starts(c, {"receive"})
      /\ IF SenderKnown(c, op)
           THEN /\ Match(c, pc[c])
                /\ IssueAt(c, "issued")
                /\ expected_sender_core_id' = [expected_sender_core_id EXCEPT ![c] = NoCore]
           ELSE /\ UNCHANGED matched
                /\ IssueAt(c, "wait_sender_ready")
                /\ expected_sender_core_id' = [expected_sender_core_id EXCEPT ![c] = op.peer]
      /\ UNCHANGED <<read, write, expected_receiver_core_id, expected_transfer_id_tag,
                     receiver_waiting_sender_map, pending_queue>>

ReceiveHandshakeEnd(c) ==
  /\ issue[c].at = "sender_ready"
  /\ Match(c, issue[c].op)
  /\ expected_sender_core_id' = [expected_sender_core_id EXCEPT ![c] = NoCore]
  /\ issue' = [issue EXCEPT ![c].at = "issued"]
  /\ UNCHANGED <<pc, read, write, expected_receiver_core_id, expected_transfer_id_tag,
                 receiver_waiting_sender_map, pending_queue>>

IssueGlobal(c) ==
  /\ Starts(c, {"global_load", "global_store"})
  /\ IssueAt(c, "issued")
  /\ UNCHANGED <<read, write, expected, receiver_waiting_sender_map, pending_queue, matched>>

-----------------------------------------------------------------------------
(***************************************************************************)
(* The read stage, started when it is free, and what each kind of transfer *)
(* does in it.                                                             *)
(***************************************************************************)
StartsRead(c, type, where) ==
  /\ issue[c].at = "issued"
  /\ Op(c, issue).type \in type
  /\ read[c] = Idle
  /\ read' = [read EXCEPT ![c] = [op |-> issue[c].op, at |-> where]]
  /\ issue' = [issue EXCEPT ![c] = Idle]
  /\ UNCHANGED <<pc, write, expected, matched>>

\* Mutant: the entry of the sender is left in the map.
SenderKept(c, s) == receiver_waiting_sender_map

SenderServed(c, s) == [receiver_waiting_sender_map EXCEPT ![c][s] = -1]

\* receiveData: the tag confirmed is the one the map holds.
ReceiveData(c) ==
  LET s == Op(c, issue).peer
  IN  /\ StartsRead(c, {"receive"}, "wait_data_ready")
      /\ Enqueue(c, Message("receiver_ready", c, s, receiver_waiting_sender_map[c][s],
                            issue[c].op))
      /\ receiver_waiting_sender_map' = SenderServed(c, s)

LoadGlobal(c) ==
  /\ StartsRead(c, {"global_load"}, "wait_load")
  /\ Enqueue(c, Message("transport", c, NoCore, -1, issue[c].op))
  /\ UNCHANGED receiver_waiting_sender_map

\* A local read, over before the stage passes the transfer on.
ReadLocal(c) ==
  /\ StartsRead(c, {"send", "global_store"}, "read")
  /\ UNCHANGED <<receiver_waiting_sender_map, pending_queue>>

-----------------------------------------------------------------------------
(***************************************************************************)
(* The write stage.                                                        *)
(***************************************************************************)
StartsWrite(c, type, where) ==
  /\ read[c].at = "read"
  /\ Op(c, read).type \in type
  /\ write[c] = Idle
  /\ write' = [write EXCEPT ![c] = [op |-> read[c].op, at |-> where]]
  /\ read' = [read EXCEPT ![c] = Idle]
  /\ UNCHANGED <<pc, issue, expected, receiver_waiting_sender_map, matched>>

SendData(c) ==
  /\ StartsWrite(c, {"send"}, "written")
  /\ Enqueue(c, Message("send_data", c, Op(c, read).peer, Op(c, read).tag, read[c].op))

StoreGlobal(c) ==
  /\ StartsWrite(c, {"global_store"}, "wait_store")
  /\ Enqueue(c, Message("transport", c, NoCore, -1, read[c].op))

WriteLocal(c) ==
  /\ StartsWrite(c, {"receive", "global_load"}, "written")
  /\ UNCHANGED pending_queue

\* The write is over; finishInstruction, and the stage is free.
WriteEnd(c) ==
  /\ write[c].at = "written"
  /\ write' = [write EXCEPT ![c] = Idle]
  /\ UNCHANGED <<pc, issue, read, expected, receiver_waiting_sender_map, pending_queue, matched>>

-----------------------------------------------------------------------------
(***************************************************************************)
(* The switch of core c delivers: switchReceiveHandler of the core the     *)
(* message goes to.                                                        *)
(***************************************************************************)
Delivers(c, status) ==
  /\ pending_queue[c] # <<>>
  /\ Head(pending_queue[c]).status = status
  /\ pending_queue' = [pending_queue EXCEPT ![c] = Tail(@)]
  /\ UNCHANGED <<pc, expected, matched>>

\* Mutant: what is notified starts a thread that is idle, too.
WakesIdle(stage, c, waiting, woken) == [stage EXCEPT ![c].at = woken]

\* Mutant: what is notified wakes the thread whatever it is waiting for.
WakesAlways(stage, c, waiting, woken) ==
  IF stage[c] # Idle THEN [stage EXCEPT ![c].at = woken] ELSE stage

\* A notified event wakes the thread if it is waiting for it, and is lost if not.
Wakes(stage, c, waiting, woken) ==
  IF stage[c].at = waiting THEN [stage EXCEPT ![c].at = woken] ELSE stage

DeliverSenderReady(c) ==
  LET m == Head(pending_queue[c])
  IN  /\ Delivers(c, "sender_ready")
      /\ receiver_waiting_sender_map' =
           [receiver_waiting_sender_map EXCEPT ![m.dst][m.src] = m.tag]
      /\ issue' = IF m.src = expected_sender_core_id[m.dst]
                    THEN Wakes(issue, m.dst, "wait_sender_ready", "sender_ready")
                    ELSE issue
      /\ UNCHANGED <<read, write>>

Confirms(m) ==
  /\ m.src = expected_receiver_core_id[m.dst]
  /\ m.tag = expected_transfer_id_tag[m.dst]

DeliverReceiverReady(c) ==
  LET m == Head(pending_queue[c])
  IN  /\ Delivers(c, "receiver_ready")
      /\ issue' = IF Confirms(m) THEN Wakes(issue, m.dst, "wait_receiver_ready", "receiver_ready")
                                 ELSE issue
      /\ UNCHANGED <<read, write, receiver_waiting_sender_map>>

DeliverData(c) ==
  /\ Delivers(c, "send_data")
  /\ read' = Wakes(read, Head(pending_queue[c]).dst, "wait_data_ready", "read")
  /\ UNCHANGED <<issue, write, receiver_waiting_sender_map>>

\* The request and the answer of global memory: the switch waits for both.
Transport(c) ==
  /\ Delivers(c, "transport")
  /\ read' = Wakes(read, c, "wait_load", "read")
  /\ write' = Wakes(write, c, "wait_store", "written")
  /\ UNCHANGED <<issue, receiver_waiting_sender_map>>

-----------------------------------------------------------------------------
Issues(c) ==
  SendHandshake(c) \/ SendHandshakeEnd(c) \/ ReceiveHandshake(c)
    \/ ReceiveHandshakeEnd(c) \/ IssueGlobal(c)

Reads(c) == ReceiveData(c) \/ LoadGlobal(c) \/ ReadLocal(c)

Writes(c) == SendData(c) \/ StoreGlobal(c) \/ WriteLocal(c) \/ WriteEnd(c)

Switches(c) ==
  DeliverSenderReady(c) \/ DeliverReceiverReady(c) \/ DeliverData(c) \/ Transport(c)

Done ==
  \A c \in Cores :
    /\ pc[c] = Len(Program[c]) + 1
    /\ issue[c] = Idle /\ read[c] = Idle /\ write[c] = Idle
    /\ pending_queue[c] = <<>>

Next == \E c \in Cores : Issues(c) \/ Reads(c) \/ Writes(c) \/ Switches(c)

Spec == Init /\ [][Next]_vars

\* The kernel runs every thread that can go on, and every delay ends.
Fairness ==
  \A c \in Cores : WF_vars(Issues(c)) /\ WF_vars(Reads(c)) /\ WF_vars(Writes(c))
                     /\ WF_vars(Switches(c))

FairSpec == Spec /\ Fairness

-----------------------------------------------------------------------------
(***************************************************************************)
(* Properties.                                                             *)
(***************************************************************************)
StageAt == [
  issue |-> {"wait_receiver_ready", "receiver_ready", "wait_sender_ready", "sender_ready",
             "issued"},
  read |-> {"wait_data_ready", "wait_load", "read"},
  write |-> {"wait_store", "written"}]

Stage(c, where) == {Idle} \cup [op : DOMAIN Program[c], at : where]

Tags == {Program[t[1]][t[2]].tag : t \in UNION {{c} \X DOMAIN Program[c] : c \in Cores}}

\* Every variable of the sockets, stages and switches has its type: a stage that is
\* busy has a transfer of its core, and waits only for what that stage waits for.
TypeOK ==
  /\ \A c \in Cores :
       /\ pc[c] \in 1 .. Len(Program[c]) + 1
       /\ issue[c] \in Stage(c, StageAt.issue)
       /\ read[c] \in Stage(c, StageAt.read)
       /\ write[c] \in Stage(c, StageAt.write)
       /\ \A i \in DOMAIN pending_queue[c] :
            /\ pending_queue[c][i].src = c
            /\ pending_queue[c][i].tag \in Tags \cup {-1}
  /\ expected_receiver_core_id \in [Cores -> Cores \cup {NoCore}]
  /\ expected_sender_core_id \in [Cores -> Cores \cup {NoCore}]
  /\ expected_transfer_id_tag \in [Cores -> Tags \cup {-1}]
  /\ receiver_waiting_sender_map \in [Cores -> [Cores -> Tags \cup {-1}]]

Pending(c, status) ==
  {pending_queue[c][i] : i \in {j \in DOMAIN pending_queue[c] :
                                  pending_queue[c][j].status = status}}

\* "send-recv not match" is never reported: while the confirmation of a receiver
\* is under way, the send it answers is still waiting for it, with its tag.
HandshakeConfirmed ==
  \A c \in Cores : \A m \in Pending(c, "receiver_ready") :
    /\ Confirms(m)
    /\ issue[m.dst].at = "wait_receiver_ready"
    /\ <<<<m.dst, issue[m.dst].op>>, <<c, m.op>>>> \in matched

\* receiver_wait_data_ready_ tells no sender from another and is lost when nobody
\* waits: data under way always finds the read stage of its core waiting, and
\* waiting with the receive that met this send.
DataHasReader ==
  \A c \in Cores : \A m \in Pending(c, "send_data") :
    /\ read[m.dst].at = "wait_data_ready"
    /\ <<<<c, m.op>>, <<m.dst, read[m.dst].op>>>> \in matched

\* doc/ISA.md: the tag identifies the transfer and both sides confirm it.
TagConfirmed ==
  \A m \in matched :
    Program[m[1][1]][m[1][2]].tag = Program[m[2][1]][m[2][2]].tag

Abstract == INSTANCE Rendezvous

\* Sends and receives meet as the abstract specification says: each once, in
\* the order of both programs, and only with the transfer that agrees.
Implements == Abstract!Spec

\* When the programs agree on their transfers, every transfer ends: no event is
\* lost and no cycle of waiting stages closes.
Completes == <>Done

=============================================================================
