------------------------------ MODULE Timeline ------------------------------
(***************************************************************************)
(* What undo and redo promise: the states of a document form a line with a *)
(* cursor.  Undo and redo move the cursor and change nothing; an edit      *)
(* amends the state under the cursor; a saved edit forgets the states      *)
(* after the cursor and, beyond Cap saved states, the oldest.              *)
(***************************************************************************)
EXTENDS Integers, Sequences

CONSTANTS States, Blank, Cap

VARIABLES line, cursor

Init == line = <<Blank>> /\ cursor = 1

Back == cursor > 1 /\ cursor' = cursor - 1 /\ UNCHANGED line

Forward == cursor < Len(line) /\ cursor' = cursor + 1 /\ UNCHANGED line

Amend ==
    /\ Len(line') = Len(line)
    /\ line'[cursor] \in States
    /\ line' = [line EXCEPT ![cursor] = line'[cursor]]
    /\ UNCHANGED cursor

Saved(s) == SubSeq(line, 1, cursor) \o <<s>>

Save ==
    /\ cursor' = IF cursor <= Cap THEN cursor + 1 ELSE cursor
    /\ Len(line') = cursor'
    /\ line'[cursor'] \in States
    /\ line' = IF cursor <= Cap
               THEN Saved(line'[cursor']) ELSE Tail(Saved(line'[cursor']))

Reset == line' = <<Blank>> /\ cursor' = 1

Next == Back \/ Forward \/ Amend \/ Save \/ Reset

Spec == Init /\ [][Next]_<<line, cursor>>
=============================================================================
