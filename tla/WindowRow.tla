------------------------------- MODULE WindowRow -------------------------------
(***************************************************************************)
(* What a tiling layout promises its user, whatever tree it keeps: the     *)
(* windows of a screen stand in a row.  A window opens somewhere in the    *)
(* row, closes, or is moved along the row; the others keep their order,    *)
(* and no window is lost or doubled.                                       *)
(***************************************************************************)
EXTENDS Naturals, Sequences, SequencesExt

CONSTANT Views
VARIABLE row

Init == row = <<>>

Open(v) ==
  /\ ~Contains(row, v)
  /\ \E i \in 1..Len(row) + 1 : row' = InsertAt(row, i, v)

Close(v) == \E i \in 1..Len(row) : row[i] = v /\ row' = RemoveAt(row, i)

Move(v) ==
  \E i, j \in 1..Len(row) :
    row[i] = v /\ row' = InsertAt(RemoveAt(row, i), j, v)

Next == \E v \in Views : Open(v) \/ Close(v) \/ Move(v)

Spec == Init /\ [][Next]_row
=============================================================================
