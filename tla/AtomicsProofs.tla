--------------------------- MODULE AtomicsProofs ---------------------------
(***************************************************************************)
(* Theorems about Atomics, for every number of harts, every word size and  *)
(* every set of fetch-and-op instructions.                                 *)
(***************************************************************************)
EXTENDS Atomics, TLAPS

\* What the value a hart is about to compare with tells, as long as the word
\* has not changed since it was read or reserved.
InCas(h) ==
    at[h] = "cas" =>
        /\ op[h] \in MinMaxOps \cup {"SC"}
        /\ op[h] = "SC" => answer[h] = 0
        /\ ~stale[h] =>
               /\ expected[h] = mem
               /\ op[h] = "SC" => reserved[h] = mem
               /\ op[h] # "SC" => answer[h] = mem /\ ~Keeps(op[h], mem, val[h])

Reservation(h) == ll_sc_flag[h] /\ ~broken[h] => reserved[h] = mem

IInv == TypeOK /\ \A h \in Harts : InCas(h) /\ Reservation(h)

-----------------------------------------------------------------------------
\* The words are numbers, 0 and 1 among them.
LEMMA WordsAreNumbers == /\ 0 \in Words /\ 1 \in Words
                         /\ Words \subseteq Int
BY AtomicsAssumption DEF Words

LEMMA FetchInWords ==
    ASSUME NEW f \in FetchOps, NEW x \in Words, NEW v \in Words
    PROVE  f[<<x, v>>] \in Words
BY AtomicsAssumption

\* A change of the word spoils what the others have read.
LEMMA OthersSpoilt ==
    ASSUME TypeOK, NEW h \in Harts, NEW k \in Harts, Changes(h),
           InCas(k), Reservation(k), k # h,
           <<at[k], op[k], val[k], answer[k], expected[k], ll_sc_flag[k],
             reserved[k]>>' =
           <<at[k], op[k], val[k], answer[k], expected[k], ll_sc_flag[k],
             reserved[k]>>
    PROVE  InCas(k)' /\ Reservation(k)'
<1>1. /\ stale'[k] = (stale[k] \/ (mem' # mem /\ at[k] = "cas"))
      /\ broken'[k] = (broken[k] \/ (mem' # mem /\ ll_sc_flag[k]))
  BY DEF Changes
<1>2. CASE mem' = mem
  <2>1. stale'[k] = stale[k] /\ broken'[k] = broken[k]
    BY <1>1, <1>2 DEF TypeOK
  <2> QED BY <2>1, <1>2 DEF InCas, Reservation, Keeps, Signed
<1>3. CASE mem' # mem
  BY <1>1, <1>3 DEF InCas, Reservation
<1> QED BY <1>2, <1>3

LEMMA ChangesType ==
    ASSUME TypeOK, NEW h \in Harts, Changes(h)
    PROVE  stale' \in [Harts -> BOOLEAN] /\ broken' \in [Harts -> BOOLEAN]
BY DEF Changes, TypeOK

LEMMA InitHolds == Init => IInv
BY WordsAreNumbers DEF Init, IInv, TypeOK, InCas, Reservation, MinMaxOps

-----------------------------------------------------------------------------
(* What an action leaves of the other harts.                               *)

Same(k) == UNCHANGED <<at[k], op[k], val[k], answer[k], expected[k],
                       ll_sc_flag[k], reserved[k], stale[k], broken[k]>>

LEMMA Untouched ==
    ASSUME NEW k \in Harts, InCas(k), Reservation(k), Same(k), mem' = mem
    PROVE  InCas(k)' /\ Reservation(k)'
BY DEF InCas, Reservation, Same, Keeps, Signed

LEMMA LoadKeeps ==
    ASSUME IInv, NEW h \in Harts, Load(h)
    PROVE  IInv'
<1>1. TypeOK'
  BY DEF IInv, Load, TypeOK, hartVars, history
<1>2. ASSUME NEW k \in Harts PROVE InCas(k)' /\ Reservation(k)'
  BY Untouched DEF IInv, Load, hartVars, history, Same
<1> QED BY <1>1, <1>2 DEF IInv

LEMMA StoreKeeps ==
    ASSUME IInv, NEW h \in Harts, NEW v \in Operands, Store(h, v)
    PROVE  IInv'
<1>1. TypeOK'
  BY ChangesType, AtomicsAssumption DEF IInv, Store, TypeOK, hartVars
<1>2. ASSUME NEW k \in Harts, k # h PROVE InCas(k)' /\ Reservation(k)'
  BY <1>2, OthersSpoilt DEF IInv, Store, hartVars
<1>3. InCas(h)' /\ Reservation(h)'
  BY DEF IInv, TypeOK, Store, hartVars, Changes, InCas, Reservation
<1> QED BY <1>1, <1>2, <1>3 DEF IInv

LEMMA FetchKeeps ==
    ASSUME IInv, NEW h \in Harts, NEW v \in Operands, NEW f \in FetchOps,
           Fetch(h, f, v)
    PROVE  IInv'
<1>1. TypeOK'
  <2>1. v \in Words /\ mem \in Words
    BY AtomicsAssumption DEF IInv, TypeOK
  <2>2. f[<<mem, v>>] \in Words
    BY <2>1, FetchInWords
  <2> QED BY <2>2, ChangesType DEF IInv, Fetch, TypeOK, hartVars
<1>2. ASSUME NEW k \in Harts, k # h PROVE InCas(k)' /\ Reservation(k)'
  BY <1>2, OthersSpoilt DEF IInv, Fetch, hartVars
<1>3. InCas(h)' /\ Reservation(h)'
  BY DEF IInv, TypeOK, Fetch, hartVars, Changes, InCas, Reservation
<1> QED BY <1>1, <1>2, <1>3 DEF IInv

LEMMA MinMaxKeepsKeeps ==
    ASSUME IInv, NEW h \in Harts, NEW v \in Operands, NEW o \in MinMax,
           MinMaxKeeps(h, o, v)
    PROVE  IInv'
<1>1. TypeOK'
  BY DEF IInv, MinMaxKeeps, TypeOK, hartVars, history
<1>2. ASSUME NEW k \in Harts PROVE InCas(k)' /\ Reservation(k)'
  BY Untouched DEF IInv, MinMaxKeeps, hartVars, history, Same
<1> QED BY <1>1, <1>2 DEF IInv

LEMMA MinMaxReplacesKeeps ==
    ASSUME IInv, NEW h \in Harts, NEW v \in Operands, NEW o \in MinMax,
           MinMaxReplaces(h, o, v)
    PROVE  IInv'
<1>0. v \in Words /\ mem \in Words /\ o \in MinMaxOps
  BY AtomicsAssumption DEF IInv, TypeOK
<1>1. TypeOK'
  BY <1>0 DEF IInv, MinMaxReplaces, EnterCas, TypeOK
<1>2. ASSUME NEW k \in Harts, k # h PROVE InCas(k)' /\ Reservation(k)'
  <2>1. Same(k)
    BY <1>2 DEF IInv, TypeOK, MinMaxReplaces, EnterCas, Same
  <2> QED BY <2>1, Untouched DEF IInv, MinMaxReplaces
<1>3. InCas(h)'
  <2>1. /\ op'[h] = o /\ val'[h] = v /\ answer'[h] = mem /\ expected'[h] = mem
        /\ mem' = mem /\ o # "SC"
    BY <1>0 DEF IInv, TypeOK, MinMaxReplaces, EnterCas, MinMaxOps
  <2>2. ~Keeps(o, mem, v)
    BY DEF MinMaxReplaces
  <2>3. ~Keeps(op[h], mem, val[h])'
    BY <2>1, <2>2 DEF Keeps, Signed
  <2> QED BY <1>0, <2>1, <2>3 DEF InCas
<1>4. Reservation(h)'
  BY DEF IInv, Reservation, MinMaxReplaces
<1> QED BY <1>1, <1>2, <1>3, <1>4 DEF IInv

LEMMA CasSucceedsKeeps ==
    ASSUME IInv, NEW h \in Harts, CasSucceeds(h)
    PROVE  IInv'
<1>1. TypeOK'
  BY ChangesType, WordsAreNumbers DEF IInv, CasSucceeds, TypeOK
<1>2. ASSUME NEW k \in Harts, k # h PROVE InCas(k)' /\ Reservation(k)'
  BY <1>2, OthersSpoilt DEF IInv, CasSucceeds, TypeOK
<1>3. InCas(h)' /\ Reservation(h)'
  BY DEF IInv, TypeOK, CasSucceeds, Changes, InCas, Reservation
<1> QED BY <1>1, <1>2, <1>3 DEF IInv

LEMMA CasFailsKeeps ==
    ASSUME IInv, NEW h \in Harts, CasFails(h)
    PROVE  IInv'
<1>1. TypeOK'
  BY DEF IInv, CasFails, TypeOK, history
<1>2. ASSUME NEW k \in Harts, k # h PROVE InCas(k)' /\ Reservation(k)'
  <2>1. Same(k)
    BY <1>2 DEF IInv, TypeOK, CasFails, Same, history
  <2> QED BY <2>1, Untouched DEF IInv, CasFails
<1>3. InCas(h)' /\ Reservation(h)'
  BY DEF IInv, TypeOK, CasFails, history, InCas, Reservation
<1> QED BY <1>1, <1>2, <1>3 DEF IInv

LEMMA LoadReservedKeeps ==
    ASSUME IInv, NEW h \in Harts, LoadReserved(h)
    PROVE  IInv'
<1>1. TypeOK'
  BY DEF IInv, LoadReserved, TypeOK
<1>2. ASSUME NEW k \in Harts, k # h PROVE InCas(k)' /\ Reservation(k)'
  <2>1. Same(k)
    BY <1>2 DEF IInv, TypeOK, LoadReserved, Same
  <2> QED BY <2>1, Untouched DEF IInv, LoadReserved
<1>3. InCas(h)' /\ Reservation(h)'
  BY DEF IInv, TypeOK, LoadReserved, InCas, Reservation
<1> QED BY <1>1, <1>2, <1>3 DEF IInv

LEMMA StoreConditionalKeeps ==
    ASSUME IInv, NEW h \in Harts, NEW v \in Operands, StoreConditional(h, v)
    PROVE  IInv'
<1>1. TypeOK'
  BY AtomicsAssumption, WordsAreNumbers
     DEF IInv, StoreConditional, EnterCas, TypeOK
<1>2. ASSUME NEW k \in Harts, k # h PROVE InCas(k)' /\ Reservation(k)'
  <2>1. Same(k)
    BY <1>2 DEF IInv, TypeOK, StoreConditional, EnterCas, Same
  <2> QED BY <2>1, Untouched DEF IInv, StoreConditional
<1>3. InCas(h)' /\ Reservation(h)'
  BY DEF IInv, TypeOK, StoreConditional, EnterCas, InCas, Reservation
<1> QED BY <1>1, <1>2, <1>3 DEF IInv

LEMMA StoreConditionalFailsKeeps ==
    ASSUME IInv, NEW h \in Harts, StoreConditionalFails(h) \/ TakeInterrupt(h)
    PROVE  IInv'
<1>1. TypeOK'
  BY WordsAreNumbers
     DEF IInv, StoreConditionalFails, TakeInterrupt, TypeOK, history
<1>2. ASSUME NEW k \in Harts, k # h PROVE InCas(k)' /\ Reservation(k)'
  <2>1. Same(k)
    BY <1>2 DEF IInv, TypeOK, StoreConditionalFails, TakeInterrupt, Same, history
  <2> QED BY <2>1, Untouched DEF IInv, StoreConditionalFails, TakeInterrupt
<1>3. InCas(h)' /\ Reservation(h)'
  BY DEF IInv, TypeOK, StoreConditionalFails, TakeInterrupt, InCas, Reservation,
         history
<1> QED BY <1>1, <1>2, <1>3 DEF IInv

LEMMA NextKeeps == IInv /\ [Next]_vars => IInv'
<1> SUFFICES ASSUME IInv, [Next]_vars PROVE IInv'
  OBVIOUS
<1>1. CASE UNCHANGED vars
  <2>1. TypeOK'
    BY <1>1 DEF IInv, TypeOK, vars
  <2>2. ASSUME NEW k \in Harts PROVE InCas(k)' /\ Reservation(k)'
    BY <1>1, Untouched DEF IInv, vars, Same
  <2> QED BY <2>1, <2>2 DEF IInv
<1>2. ASSUME NEW h \in Harts, Instruction(h) PROVE IInv'
  BY <1>2, LoadKeeps, LoadReservedKeeps, StoreConditionalFailsKeeps, StoreKeeps,
     StoreConditionalKeeps, FetchKeeps, MinMaxKeepsKeeps, MinMaxReplacesKeeps
     DEF Instruction
<1>3. ASSUME NEW h \in Harts, Cas(h) PROVE IInv'
  BY <1>3, CasSucceedsKeeps, CasFailsKeeps DEF Cas
<1>4. ASSUME NEW h \in Harts, TakeInterrupt(h) PROVE IInv'
  BY <1>4, StoreConditionalFailsKeeps
<1> QED BY <1>1, <1>2, <1>3, <1>4 DEF Next

THEOREM Invariance == Spec => []IInv
BY InitHolds, NextKeeps, PTL DEF Spec

\* Every value stays within the width of a word (cpu.c:449-512).
THEOREM TypeCorrectness == Spec => []TypeOK
<1>1. IInv => TypeOK
  BY DEF IInv
<1> QED BY Invariance, <1>1, PTL

-----------------------------------------------------------------------------
(* Atomicity.                                                              *)

LEMMA OnlyCasSucceedsLeaves ==
    ASSUME IInv, Next, NEW h \in Harts, at[h] = "cas", at'[h] = "next"
    PROVE  CasSucceeds(h)
<1>1. PICK k \in Harts : Instruction(k) \/ Cas(k) \/ TakeInterrupt(k)
  BY DEF Next
<1>2. CASE k # h
  <2>1. at'[h] = at[h]
    BY <1>1, <1>2 DEF IInv, TypeOK, Instruction, Cas, TakeInterrupt, Load, Store,
       Fetch, MinMaxKeeps, MinMaxReplaces, EnterCas, CasSucceeds, CasFails,
       LoadReserved, StoreConditional, StoreConditionalFails, hartVars
  <2> QED BY <2>1
<1>3. CASE k = h
  BY <1>1, <1>3 DEF IInv, TypeOK, Instruction, Cas, TakeInterrupt, Load, Store,
     Fetch, MinMaxKeeps, MinMaxReplaces, EnterCas, CasFails,
     LoadReserved, StoreConditional, StoreConditionalFails
<1> QED BY <1>2, <1>3

\* A compare and swap that has not been overtaken replaces what its hart read
\* or reserved (cpu.c:466-479, memory.h:83-130).
THEOREM Atomicity == Spec => AtomicUnlessDisturbed
<1>1. ASSUME IInv, [Next]_vars, NEW h \in Harts
      PROVE  Undisturbed(h)
  <2> SUFFICES ASSUME at[h] = "cas", at'[h] = "next", ~stale[h]
               PROVE  /\ mem' = Result(op[h], mem, val[h])
                      /\ IF op[h] = "SC" THEN rd' = 0 /\ mem = reserved[h]
                                         ELSE rd' = mem
    BY DEF Undisturbed
  <2>1. CasSucceeds(h)
    BY <1>1, OnlyCasSucceedsLeaves DEF vars
  <2>2. mem' = val[h] /\ rd' = answer[h]
    BY <2>1 DEF CasSucceeds
  <2>3. InCas(h)
    BY <1>1 DEF IInv
  <2>4. mem' = Result(op[h], mem, val[h])
    BY <2>2, <2>3 DEF InCas, Result, MinMaxOps
  <2> QED BY <2>2, <2>3, <2>4 DEF InCas
<1>2. IInv /\ [Next]_vars => [\A h \in Harts : Undisturbed(h)]_vars
  BY <1>1
<1> QED BY Invariance, <1>2, PTL DEF Spec, AtomicUnlessDisturbed

-----------------------------------------------------------------------------
(* Refinement.                                                             *)

LEMMA PendingOf ==
    ASSUME NEW h \in Harts
    PROVE  [k \in Harts |-> Pending(k)][h] =
               IF at[h] = "cas" THEN {<<val[h], answer[h]>>} ELSE {}
BY DEF Pending

LEMMA PendingStays ==
    ASSUME UNCHANGED <<at, val, answer>>
    PROVE  [k \in Harts |-> Pending(k)]' = [k \in Harts |-> Pending(k)]
BY DEF Pending

\* What one hart does to the pending writes.
LEMMA PendingMoves ==
    ASSUME TypeOK, NEW h \in Harts, NEW q,
           \A k \in Harts \ {h} : /\ at'[k] = at[k] /\ val'[k] = val[k]
                                 /\ answer'[k] = answer[k],
           q = (IF at'[h] = "cas" THEN {<<val'[h], answer'[h]>>} ELSE {})
    PROVE  [k \in Harts |-> Pending(k)]' =
               [[k \in Harts |-> Pending(k)] EXCEPT ![h] = q]
<1>1. Pending(h)' = q
  BY DEF Pending
<1>2. ASSUME NEW k \in Harts, k # h PROVE Pending(k)' = Pending(k)
  BY <1>2 DEF Pending
<1> QED BY <1>1, <1>2, Zenon

LEMMA InstructionMaps ==
    ASSUME IInv, NEW h \in Harts, Instruction(h)
    PROVE  [Word!Next]_(Word!vars)
<1> DEFINE P == [k \in Harts |-> Pending(k)]
<1>0. TypeOK
  BY DEF IInv
<1>1. CASE Load(h)
  <2>1. P' = P
    BY <1>1, PendingStays DEF Load, hartVars
  <2>2. P[h] = {}
    BY <1>1, PendingOf DEF Load
  <2>3. Word!Read(h)
    BY <1>1, <2>1, <2>2 DEF Load, Word!Read, Word!Idle
  <2> QED BY <2>3 DEF Word!Next
<1>2. CASE LoadReserved(h)
  <2>1. P' = P
    BY <1>2, PendingStays DEF LoadReserved
  <2> QED BY <1>2, <2>1 DEF LoadReserved, Word!vars
<1>3. CASE StoreConditionalFails(h)
  <2>1. P' = P
    <3>1. P' = [P EXCEPT ![h] = {}]
      BY <1>3, <1>0, PendingMoves DEF StoreConditionalFails, TypeOK
    <3>2. P[h] = {}
      BY <1>3, PendingOf DEF StoreConditionalFails
    <3> QED BY <3>1, <3>2
  <2>2. P[h] = {}
    BY <1>3, PendingOf DEF StoreConditionalFails
  <2>3. Word!Refuse(h)
    BY <1>3, <2>1, <2>2 DEF StoreConditionalFails, Word!Refuse, Word!Idle
  <2> QED BY <2>3 DEF Word!Next
<1>4. ASSUME NEW v \in Operands, Store(h, v) PROVE Word!Next
  <2>1. P' = P
    BY <1>4, PendingStays DEF Store, hartVars
  <2>2. P[h] = {}
    BY <1>4, PendingOf DEF Store
  <2>3. Word!Write(h, v) /\ v \in Words
    BY <1>4, <2>1, <2>2, AtomicsAssumption DEF Store, Word!Write, Word!Idle
  <2> QED BY <2>3 DEF Word!Next
<1>5. ASSUME NEW v \in Operands, NEW f \in FetchOps, Fetch(h, f, v)
      PROVE  Word!Next
  <2>1. P' = P
    BY <1>5, PendingStays DEF Fetch, hartVars
  <2>2. P[h] = {}
    BY <1>5, PendingOf DEF Fetch
  <2>3. Word!FetchAndOp(h, f, v) /\ v \in Words
    BY <1>5, <2>1, <2>2, AtomicsAssumption
       DEF Fetch, Word!FetchAndOp, Word!Idle
  <2> QED BY <2>3 DEF Word!Next
<1>6. ASSUME NEW v \in Operands, NEW o \in MinMax, MinMaxKeeps(h, o, v)
      PROVE  Word!Next
  <2>1. P' = P
    BY <1>6, PendingStays DEF MinMaxKeeps, hartVars
  <2>2. P[h] = {}
    BY <1>6, PendingOf DEF MinMaxKeeps
  <2>3. Word!Read(h)
    BY <1>6, <2>1, <2>2 DEF MinMaxKeeps, Word!Read, Word!Idle
  <2> QED BY <2>3 DEF Word!Next
<1>7. ASSUME NEW v \in Operands, NEW o \in MinMax, MinMaxReplaces(h, o, v)
      PROVE  Word!Next
  <2>1. P' = [P EXCEPT ![h] = {<<v, mem>>}]
    BY <1>7, <1>0, PendingMoves DEF MinMaxReplaces, EnterCas, TypeOK
  <2>2. P[h] = {}
    BY <1>7, PendingOf DEF MinMaxReplaces
  <2>3. Word!Promise(h, v, mem) /\ v \in Words /\ mem \in Words
    BY <1>7, <1>0, <2>1, <2>2, AtomicsAssumption
       DEF MinMaxReplaces, Word!Promise, Word!Idle, TypeOK
  <2> QED BY <2>3 DEF Word!Next
<1>8. ASSUME NEW v \in Operands, StoreConditional(h, v) PROVE Word!Next
  <2>1. P' = [P EXCEPT ![h] = {<<v, 0>>}]
    BY <1>8, <1>0, PendingMoves DEF StoreConditional, EnterCas, TypeOK
  <2>2. P[h] = {}
    BY <1>8, PendingOf DEF StoreConditional
  <2>3. Word!Promise(h, v, 0) /\ v \in Words /\ 0 \in Words
    BY <1>8, <2>1, <2>2, AtomicsAssumption, WordsAreNumbers
       DEF StoreConditional, Word!Promise, Word!Idle
  <2> QED BY <2>3 DEF Word!Next
<1> QED BY <1>1, <1>2, <1>3, <1>4, <1>5, <1>6, <1>7, <1>8 DEF Instruction

LEMMA CasMaps ==
    ASSUME IInv, NEW h \in Harts, Cas(h) \/ TakeInterrupt(h)
    PROVE  [Word!Next]_(Word!vars)
<1> DEFINE P == [k \in Harts |-> Pending(k)]
<1>0. TypeOK
  BY DEF IInv
<1>1. CASE CasSucceeds(h)
  <2>1. P' = [P EXCEPT ![h] = {}]
    BY <1>1, <1>0, PendingMoves DEF CasSucceeds, TypeOK
  <2>2. P[h] = {<<val[h], answer[h]>>}
    BY <1>1, PendingOf DEF CasSucceeds
  <2>3. Word!Overwrite(h, val[h], answer[h]) /\ val[h] \in Words
        /\ answer[h] \in Words
    BY <1>1, <1>0, <2>1, <2>2 DEF CasSucceeds, Word!Overwrite, TypeOK
  <2> QED BY <2>3 DEF Word!Next
<1>2. CASE CasFails(h)
  <2>1. P' = P
    BY <1>2, PendingStays DEF CasFails
  <2> QED BY <1>2, <2>1 DEF CasFails, Word!vars
<1>3. CASE TakeInterrupt(h)
  <2>1. P' = [P EXCEPT ![h] = {}]
    BY <1>3, <1>0, PendingMoves DEF TakeInterrupt, TypeOK
  <2>2. P[h] = {}
    BY <1>3, PendingOf DEF TakeInterrupt
  <2>3. P' = P
    BY <2>1, <2>2
  <2> QED BY <1>3, <2>3 DEF TakeInterrupt, Word!vars
<1> QED BY <1>1, <1>2, <1>3 DEF Cas

\* The compare-and-swap loop of mem_cas implements one overwriting
\* (memory.h:77-81), and with it min, max and SC.
THEOREM WordRefinement == Spec => ImplementsSharedWord
<1> DEFINE P == [k \in Harts |-> Pending(k)]
<1>1. Init => Word!Init
  BY WordsAreNumbers DEF Init, Word!Init, Pending
<1>2. IInv /\ [Next]_vars => [Word!Next]_(Word!vars)
  <2> SUFFICES ASSUME IInv, [Next]_vars PROVE [Word!Next]_(Word!vars)
    OBVIOUS
  <2>1. CASE UNCHANGED vars
    BY <2>1, PendingStays DEF vars, Word!vars
  <2>2. CASE Next
    BY <2>2, InstructionMaps, CasMaps DEF Next
  <2> QED BY <2>1, <2>2
<1> QED BY Invariance, <1>1, <1>2, PTL DEF Spec, ImplementsSharedWord, Word!Spec
=============================================================================
