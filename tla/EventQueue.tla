----------------------------- MODULE EventQueue -----------------------------
(***************************************************************************)
(* What a guest may expect of the input events of SDL: it takes them in    *)
(* the order in which they happened, and one is lost only while it has     *)
(* Capacity older ones left to take.                                       *)
(***************************************************************************)
EXTENDS Naturals, SequencesExt

CONSTANTS Inputs, Capacity

VARIABLE pending  \* the events the guest has not taken yet

Init == pending = <<>>

Happen == \E e \in Inputs : pending' = Append(pending, e)

Take == pending # <<>> /\ pending' = Tail(pending)

Lose == /\ Len(pending) > Capacity
        /\ pending' = RemoveAt(pending, Capacity + 1)

Next == Happen \/ Take \/ Lose

Spec == Init /\ [][Next]_pending
=============================================================================
