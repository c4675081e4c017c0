----------------------------- MODULE MCCthread -----------------------------
(* Cthread on a small set of cores, for TLC. *)
EXTENDS Cthread
=============================================================================
