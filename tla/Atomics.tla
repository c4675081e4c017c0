------------------------------ MODULE Atomics ------------------------------
(***************************************************************************)
(* The A extension of cpu.c (vcore_a_type) on one word of guest memory     *)
(* that several harts share, with the accessors of memory.h.  Swap and the *)
(* fetch-and-op instructions are one atomic operation of the host; min and *)
(* max read the word and then overwrite it in a compare-and-swap loop;     *)
(* LR and SC emulate a reservation with the value that was there.  Every   *)
(* access of a hart to the word is one action, so other harts come between *)
(* any two of them.  Memory orders are not modelled: the word is one       *)
(* location.                                                               *)
(***************************************************************************)
EXTENDS Integers

CONSTANTS Harts,
          M,         \* how many values a word has, 2^32 in the code
          FetchOps,  \* ASWP, AADD, AAND, AOR, AXOR: <<old, operand>> to new
          MinMax,    \* the instructions of MinMaxOps that programs use
          Operands   \* the values programs compute with

Words == 0 .. (M - 1)

MinMaxOps == {"AMAX", "AMIN", "AMAXU", "AMINU"}

ASSUME AtomicsAssumption == /\ M \in Nat /\ M > 1
                            /\ FetchOps \subseteq [Words \X Words -> Words]
                            /\ MinMax \subseteq MinMaxOps
                            /\ Operands \subseteq Words

VARIABLES
    mem,        \* the shared word
    rd,         \* what the last instruction that wrote one left in its rd
    at,         \* per hart: "next" (between instructions), "cas" (in mem_cas),
                \* "sc" (on a store conditional that has failed)
    op,         \* the instruction a hart in mem_cas executes
    val,        \* what mem_cas writes
    answer,     \* what goes to rd when it is done
    expected,   \* the variable of that name in mem_cas
    ll_sc_flag, reserved,  \* fields of VCore
    stale,      \* history: the word has changed since this hart read the value
                \* that it is about to replace,
    broken      \* history: ... since this hart reserved it

hartVars == <<at, op, val, answer, expected, ll_sc_flag, reserved>>
history == <<stale, broken>>
vars == <<mem, rd, at, op, val, answer, expected, ll_sc_flag, reserved, stale,
          broken>>

TypeOK ==
    /\ mem \in Words /\ rd \in Words
    /\ at \in [Harts -> {"next", "cas", "sc"}]
    /\ op \in [Harts -> MinMaxOps \cup {"SC", "none"}]
    /\ val \in [Harts -> Words]
    /\ answer \in [Harts -> Words]
    /\ expected \in [Harts -> Words]
    /\ ll_sc_flag \in [Harts -> BOOLEAN]
    /\ reserved \in [Harts -> Words]
    /\ stale \in [Harts -> BOOLEAN]
    /\ broken \in [Harts -> BOOLEAN]

Signed(x) == IF x >= M \div 2 THEN x - M ELSE x

\* The comparison that makes min and max return without writing.
Keeps(o, old, v) == \/ o = "AMAXU" /\ old > v
                    \/ o = "AMINU" /\ old < v
                    \/ o = "AMAX" /\ Signed(old) > Signed(v)
                    \/ o = "AMIN" /\ Signed(old) < Signed(v)

\* History: the word changes under all those that have read or reserved it.
Changes(h) ==
    LET changed == mem' # mem
    IN  /\ stale' = [k \in Harts |-> \/ stale[k]
                                     \/ (changed /\ k # h /\ at[k] = "cas")]
        /\ broken' = [k \in Harts |-> broken[k] \/ (changed /\ ll_sc_flag[k])]

-----------------------------------------------------------------------------
(* Instructions that are one access.                                       *)

Load(h) == /\ at[h] = "next"
           /\ rd' = mem
           /\ UNCHANGED <<mem, hartVars, history>>

Store(h, v) == /\ at[h] = "next"
               /\ mem' = v
               /\ Changes(h)
               /\ UNCHANGED <<rd, hartVars>>

\* Mutant of Fetch: the answer is the new word, as of __atomic_add_fetch.
FetchNew(h, f, v) == /\ at[h] = "next"
                     /\ mem' = f[<<mem, v>>]
                     /\ rd' = f[<<mem, v>>]
                     /\ Changes(h)
                     /\ UNCHANGED hartVars

Fetch(h, f, v) == /\ at[h] = "next"
                  /\ mem' = f[<<mem, v>>]
                  /\ rd' = mem
                  /\ Changes(h)
                  /\ UNCHANGED hartVars

-----------------------------------------------------------------------------
(* Instructions that overwrite what they have read earlier.                *)

EnterCas(h, o, v, a, e) ==
    /\ at' = [at EXCEPT ![h] = "cas"]
    /\ op' = [op EXCEPT ![h] = o]
    /\ val' = [val EXCEPT ![h] = v]
    /\ answer' = [answer EXCEPT ![h] = a]
    /\ expected' = [expected EXCEPT ![h] = e]

\* mem_amax, mem_amin, mem_amaxu, mem_aminu: the value that is there wins, ...
MinMaxKeeps(h, o, v) ==
    /\ at[h] = "next"
    /\ Keeps(o, mem, v)
    /\ rd' = mem
    /\ UNCHANGED <<mem, hartVars, history>>

\* Mutant of MinMaxReplaces: no early return, the operand always wins.
MinMaxReplacesAlways(h, o, v) ==
    /\ at[h] = "next"
    /\ EnterCas(h, o, v, mem, mem)
    /\ stale' = [stale EXCEPT ![h] = FALSE]
    /\ UNCHANGED <<mem, rd, ll_sc_flag, reserved, broken>>

\* ... or the operand does, and is on its way to replace it.
MinMaxReplaces(h, o, v) ==
    /\ at[h] = "next"
    /\ ~Keeps(o, mem, v)
    /\ EnterCas(h, o, v, mem, mem)
    /\ stale' = [stale EXCEPT ![h] = FALSE]
    /\ UNCHANGED <<mem, rd, ll_sc_flag, reserved, broken>>

\* One turn of the loop of mem_cas: when the word is not the expected one,
\* the host writes what it found to expected.
CasSucceeds(h) ==
    /\ at[h] = "cas"
    /\ mem = expected[h]
    /\ mem' = val[h]
    /\ rd' = answer[h]
    /\ at' = [at EXCEPT ![h] = "next"]
    /\ op' = [op EXCEPT ![h] = "none"]
    /\ val' = [val EXCEPT ![h] = 0]
    /\ answer' = [answer EXCEPT ![h] = 0]
    /\ expected' = [expected EXCEPT ![h] = 0]
    /\ Changes(h)
    /\ UNCHANGED <<ll_sc_flag, reserved>>

\* Mutant of CasFails: expected is passed to the host by value.
CasFailsByValue(h) == /\ at[h] = "cas"
                      /\ mem # expected[h]
                      /\ UNCHANGED vars

CasFails(h) ==
    /\ at[h] = "cas"
    /\ mem # expected[h]
    /\ expected' = [expected EXCEPT ![h] = mem]
    /\ UNCHANGED <<mem, rd, at, op, val, answer, ll_sc_flag, reserved,
                   history>>

Cas(h) == CasSucceeds(h) \/ CasFails(h)

-----------------------------------------------------------------------------
(* The reservation.                                                        *)

\* LR leaves its rd alone: the guest does not get to know the value.
LoadReserved(h) ==
    /\ at[h] = "next"
    /\ ll_sc_flag' = [ll_sc_flag EXCEPT ![h] = TRUE]
    /\ reserved' = [reserved EXCEPT ![h] = mem]
    /\ broken' = [broken EXCEPT ![h] = FALSE]
    /\ UNCHANGED <<mem, rd, at, op, val, answer, expected, stale>>

StoreConditional(h, v) ==
    /\ at[h] = "next"
    /\ ll_sc_flag[h]
    /\ ll_sc_flag' = [ll_sc_flag EXCEPT ![h] = FALSE]
    /\ EnterCas(h, "SC", v, 0, reserved[h])
    /\ stale' = [stale EXCEPT ![h] = broken[h]]
    /\ UNCHANGED <<mem, rd, reserved, broken>>

\* Mutant of StoreConditionalFails: failure is -1, as in the system calls.
StoreConditionalFailsMinusOne(h) ==
    /\ at[h] \in {"next", "sc"}
    /\ ~ll_sc_flag[h]
    /\ rd' = -1
    /\ at' = [at EXCEPT ![h] = "sc"]
    /\ UNCHANGED <<mem, op, val, answer, expected, ll_sc_flag, reserved,
                   history>>

\* Without a reservation SC returns before it has advanced the program
\* counter: the hart executes it again, ...
StoreConditionalFails(h) ==
    /\ at[h] \in {"next", "sc"}
    /\ ~ll_sc_flag[h]
    /\ rd' = 1
    /\ at' = [at EXCEPT ![h] = "sc"]
    /\ UNCHANGED <<mem, op, val, answer, expected, ll_sc_flag, reserved,
                   history>>

\* ... until an interrupt takes it to its handler.
TakeInterrupt(h) ==
    /\ at[h] = "sc"
    /\ at' = [at EXCEPT ![h] = "next"]
    /\ UNCHANGED <<mem, rd, op, val, answer, expected, ll_sc_flag, reserved,
                   history>>

-----------------------------------------------------------------------------
Init == /\ mem \in Words
        /\ rd = 0
        /\ at = [h \in Harts |-> "next"]
        /\ op = [h \in Harts |-> "none"]
        /\ val = [h \in Harts |-> 0]
        /\ answer = [h \in Harts |-> 0]
        /\ expected = [h \in Harts |-> 0]
        /\ ll_sc_flag = [h \in Harts |-> FALSE]
        /\ reserved = [h \in Harts |-> 0]
        /\ stale = [h \in Harts |-> FALSE]
        /\ broken = [h \in Harts |-> FALSE]

Instruction(h) ==
    \/ Load(h) \/ LoadReserved(h) \/ StoreConditionalFails(h)
    \/ \E v \in Operands :
           \/ Store(h, v) \/ StoreConditional(h, v)
           \/ \E f \in FetchOps : Fetch(h, f, v)
           \/ \E o \in MinMax : MinMaxKeeps(h, o, v) \/ MinMaxReplaces(h, o, v)

Next == \E h \in Harts : Instruction(h) \/ Cas(h) \/ TakeInterrupt(h)

\* A hart inside mem_cas goes on; what programs execute is their choice.
Fairness == \A h \in Harts : WF_vars(Cas(h))

Spec == Init /\ [][Next]_vars /\ Fairness

-----------------------------------------------------------------------------
(* Properties.                                                             *)

\* The words a hart that is not in mem_cas still has to write: none.
Pending(h) == IF at[h] = "cas" THEN {<<val[h], answer[h]>>} ELSE {}

Word == INSTANCE SharedWord
            WITH Words <- Words, mem <- mem, rd <- rd,
                 pending <- [h \in Harts |-> Pending(h)]

\* The retries of the compare and swap do not show (memory.h:77-81): min, max
\* and SC overwrite the word exactly once and answer what they read, or 0, and
\* the fetch-and-op instructions are one atomic step (memory.h:49-71).
ImplementsSharedWord == Word!Spec

\* The instruction as the architecture defines it, on the word as it is.
Result(o, old, v) == IF o \in MinMaxOps /\ Keeps(o, old, v) THEN old ELSE v

\* Min, max and SC are atomic unless the word has changed since it was read
\* or reserved: the word they replace is the one they answer, or the one LR
\* reserved (cpu.c:466-479, memory.h:83-130).
Undisturbed(h) ==
    at[h] = "cas" /\ at'[h] = "next" /\ ~stale[h] =>
        /\ mem' = Result(op[h], mem, val[h])
        /\ IF op[h] = "SC" THEN rd' = 0 /\ mem = reserved[h] ELSE rd' = mem

AtomicUnlessDisturbed == [][\A h \in Harts : Undisturbed(h)]_vars

\* A hart goes round in mem_cas for ever only if the word keeps changing:
\* expected is brought up to date each time (memory.h:78).
RetryNeedsChanges ==
    \A h \in Harts : <>[](at[h] = "cas") => []<><<mem' # mem>>_vars

\* What the architecture asks of min and max, and this emulation does not do:
\* the loop of mem_cas does not compare again, so an older operand can replace
\* a larger word.
NeverLowered ==
    [][\A h \in Harts : op[h] = "AMAXU" /\ at'[h] = "next" => mem' >= mem]_vars

\* What it asks of SC: to fail when the reservation is broken.
BrokenFails ==
    [][\A h \in Harts : op[h] = "SC" /\ at'[h] = "next" => ~stale[h]]_vars
=============================================================================
