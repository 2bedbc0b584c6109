------------------------------ MODULE Rendezvous ------------------------------
(***************************************************************************)
(* What send and receive between cores promise (doc/ISA.md, the transfer   *)
(* instructions): a send and a receive meet when each is the next transfer *)
(* of its core, they name each other's core and carry the same tag.        *)
(***************************************************************************)
EXTENDS Naturals, Sequences

CONSTANTS
  Cores,
  Program     \* per core, its transfers over the inter core bus

VARIABLE
  matched     \* pairs <<send, receive>>, a transfer being a pair <<core, index>>

Transfers == UNION {{c} \X DOMAIN Program[c] : c \in Cores}

Op(t) == Program[t[1]][t[2]]

Agree(send, receive) ==
  /\ send \in Transfers /\ receive \in Transfers
  /\ Op(send).type = "send" /\ Op(receive).type = "receive"
  /\ Op(send).peer = receive[1] /\ Op(receive).peer = send[1]
  /\ Op(send).tag = Op(receive).tag

Met == {m[1] : m \in matched} \cup {m[2] : m \in matched}

\* Every transfer of the core before this one that had to meet another has.
IsNext(t) ==
  /\ t \notin Met
  /\ \A i \in 1 .. t[2] - 1 :
       Op(<<t[1], i>>).type \in {"send", "receive"} => <<t[1], i>> \in Met

Init == matched = {}

Meet(send, receive) ==
  /\ Agree(send, receive)
  /\ IsNext(send) /\ IsNext(receive)
  /\ matched' = matched \cup {<<send, receive>>}

Next == \E m \in matched' : Meet(m[1], m[2])

Spec == Init /\ [][Next]_matched

=============================================================================
