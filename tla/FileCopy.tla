------------------------------ MODULE FileCopy ------------------------------
(***************************************************************************)
(* What the file transfer promises the person who sends: the files appear  *)
(* at the other side in the order they were sent, each one whole or not at *)
(* all.                                                                    *)
(***************************************************************************)
EXTENDS Naturals, Sequences

CONSTANT Sent      \* the files, in the order they are sent
VARIABLE arrived   \* the files that have arrived intact, in order

Init == arrived = <<>>

Arrive ==
    /\ Len(arrived) < Len(Sent)
    /\ arrived' = Append(arrived, Sent[Len(arrived) + 1])

Spec == Init /\ [][Arrive]_arrived
=============================================================================
