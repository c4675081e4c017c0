----------------------------- MODULE SharedWord -----------------------------
(***************************************************************************)
(* What a guest can rely on when several harts use one word of memory: an  *)
(* instruction reads the word and answers what it read, or changes the     *)
(* word at once and answers what was there, or answers what it read and    *)
(* overwrites, once and at some later moment, whatever the word holds by   *)
(* then.  pending[h] is the overwriting that hart h still has to do.       *)
(***************************************************************************)
CONSTANTS Harts, Words, FetchOps

VARIABLES mem, rd, pending

vars == <<mem, rd, pending>>

Idle(h) == pending[h] = {}

Read(h) == /\ Idle(h)
           /\ rd' = mem
           /\ UNCHANGED <<mem, pending>>

\* A store conditional without a reservation.
Refuse(h) == /\ Idle(h)
             /\ rd' = 1
             /\ UNCHANGED <<mem, pending>>

Write(h, v) == /\ Idle(h)
               /\ mem' = v
               /\ UNCHANGED <<rd, pending>>

FetchAndOp(h, f, v) == /\ Idle(h)
                       /\ mem' = f[<<mem, v>>]
                       /\ rd' = mem
                       /\ UNCHANGED pending

\* What it will answer is known by now: what it has read, or 0 for success.
Promise(h, v, answer) ==
    /\ Idle(h)
    /\ answer \in {0, mem}
    /\ pending' = [pending EXCEPT ![h] = {<<v, answer>>}]
    /\ UNCHANGED <<mem, rd>>

Overwrite(h, v, answer) == /\ pending[h] = {<<v, answer>>}
                           /\ mem' = v
                           /\ rd' = answer
                           /\ pending' = [pending EXCEPT ![h] = {}]

Init == /\ mem \in Words
        /\ rd \in Words
        /\ pending = [h \in Harts |-> {}]

Next == \E h \in Harts :
            \/ Read(h) \/ Refuse(h)
            \/ \E v \in Words :
                   \/ Write(h, v)
                   \/ \E f \in FetchOps : FetchAndOp(h, f, v)
                   \/ \E answer \in Words : \/ Promise(h, v, answer)
                                            \/ Overwrite(h, v, answer)

Spec == Init /\ [][Next]_vars
=============================================================================
