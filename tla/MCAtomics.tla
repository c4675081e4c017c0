----------------------------- MODULE MCAtomics -----------------------------
EXTENDS Atomics

MCFetchOps == {[p \in Words \X Words |-> p[2]],
               [p \in Words \X Words |-> (p[1] + p[2]) % M]}
=============================================================================
