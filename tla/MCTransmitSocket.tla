--------------------------- MODULE MCTransmitSocket ---------------------------
(***************************************************************************)
(* Small instances of TransmitSocket.                                      *)
(***************************************************************************)
EXTENDS TransmitSocket, TLC

CONSTANTS A, B, C

Send(peer, tag) == [type |-> "send", peer |-> peer, tag |-> tag]

Receive(peer, tag) == [type |-> "receive", peer |-> peer, tag |-> tag]

Global(type) == [type |-> type, peer |-> NoCore, tag |-> 0]

\* Two transfers of A in a row use one tag, C competes with A for B, B answers,
\* and global accesses share the switches with the messages.
AgreeingProgram ==
  (A :> <<Send(B, 1), Send(B, 1), Receive(B, 2), Global("global_load")>>) @@
  (B :> <<Global("global_store"), Receive(C, 1), Receive(A, 1), Receive(A, 1), Send(A, 2)>>) @@
  (C :> <<Global("global_load"), Send(B, 1), Global("global_store")>>)

\* B takes the transfers of A in the other order.
CrossedProgram ==
  (A :> <<Send(B, 1), Send(B, 2)>>) @@
  (B :> <<Receive(A, 2), Receive(A, 1)>>) @@
  (C :> <<Global("global_load")>>)

=============================================================================
