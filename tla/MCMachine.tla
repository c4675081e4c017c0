----------------------------- MODULE MCMachine -----------------------------
EXTENDS Machine
=============================================================================
