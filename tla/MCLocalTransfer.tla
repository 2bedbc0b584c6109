--------------------------- MODULE MCLocalTransfer ---------------------------
(***************************************************************************)
(* A small instance of LocalTransfer.                                      *)
(***************************************************************************)
EXTENDS LocalTransfer, TLC

CONSTANTS m1, m2, m3

ThreeMemories == {m1, m2, m3}

FourCells == 0 .. 3

OnePath == {0}

\* The dedicated data path joins m1 and m3.
JoinedPairs == 0 :> {{m1, m3}}

Copy(src, from, dst, to) == [src |-> <<src, from>>, dst |-> <<dst, to>>, process_times |-> 2]

\* On the bus: a transfer, one within the memory it has written, overlapping itself,
\* one of what the other path has written last, and one back over what that path has
\* read.  On the dedicated path, two in a row.
Transfers ==
  <<Copy(m1, 0, m2, 0), Copy(m2, 0, m2, 1), Copy(m1, 0, m3, 0), Copy(m1, 2, m3, 1),
    Copy(m3, 2, m2, 2), Copy(m2, 1, m1, 2)>>

=============================================================================
