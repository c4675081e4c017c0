------------------------------ MODULE Exchange ------------------------------
(***************************************************************************)
(* What the packet layer of the stub promises GDB: one command at a time,  *)
(* each executed exactly once, each answered after it was executed.  The   *)
(* three numbers count commands.                                           *)
(***************************************************************************)
EXTENDS Naturals

VARIABLES sent,  \* commands GDB has given
          ran,   \* commands the stub has executed
          got    \* answers GDB has taken

Init == sent = 0 /\ ran = 0 /\ got = 0

Ask == /\ got = sent
       /\ sent' = sent + 1
       /\ UNCHANGED <<ran, got>>

Run == /\ ran < sent
       /\ ran' = ran + 1
       /\ UNCHANGED <<sent, got>>

Receive == /\ got < ran
           /\ got' = got + 1
           /\ UNCHANGED <<sent, ran>>

Next == Ask \/ Run \/ Receive

Spec == Init /\ [][Next]_<<sent, ran, got>>
=============================================================================
