------------------------------ MODULE Scoreboard ------------------------------
(***************************************************************************)
(* What the resource booking of a core promises, without the tables and    *)
(* signals it is built from: instructions are booked in decode order, one  *)
(* is booked only while nothing it conflicts with is booked, and bookings  *)
(* end in any order.                                                       *)
(***************************************************************************)
EXTENDS Resources

VARIABLES
  booked,       \* payloads of the instructions that hold resources
  lastBooked    \* ins_id of the youngest instruction ever booked, -1 before

vars == <<booked, lastBooked>>

Init ==
  /\ booked = {}
  /\ lastBooked = -1

Book(p) ==
  /\ p \in Payload
  /\ p.ins_id > lastBooked
  /\ \A q \in booked : ~ ConflictWithIns(q, p)
  /\ booked' = booked \cup {p}
  /\ lastBooked' = p.ins_id

Free(S) ==
  /\ S # {}
  /\ booked' = booked \ S
  /\ UNCHANGED lastBooked

Next ==
  \/ \E p \in booked' : Book(p)
  \/ \E S \in SUBSET booked : Free(S)

Spec == Init /\ [][Next]_vars

-----------------------------------------------------------------------------
\* The types of the two variables.
TypeOK ==
  /\ booked \in SUBSET Payload
  /\ lastBooked \in Int

\* What is in flight is in flight legally: a younger instruction never holds
\* resources together with an older one it conflicts with.
NoHazard ==
  \A p, q \in booked : p.ins_id < q.ins_id => ~ ConflictWithIns(p, q)

=============================================================================
