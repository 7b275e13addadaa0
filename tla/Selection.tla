------------------------------ MODULE Selection ------------------------------
(***************************************************************************)
(* What a loop over a list keeps of it: the entries of a set, in the order *)
(* of the list (QList::removeAll(), and the loops that collect the entries *)
(* of a list that match).                                                  *)
(***************************************************************************)
EXTENDS Naturals, Sequences

Chosen(list, S) ==
    LET chosen[n \in 0..Len(list)] ==
            IF n = 0 THEN <<>>
            ELSE IF list[n] \in S THEN Append(chosen[n - 1], list[n]) ELSE chosen[n - 1]
    IN  chosen[Len(list)]
=============================================================================
