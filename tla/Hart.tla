-------------------------------- MODULE Hart --------------------------------
(***************************************************************************)
(* The privileged side of a hart in a supervisor build: the traps, the     *)
(* interrupt check between two instructions (supervisor/trap.c) and the    *)
(* SYSTEM opcode (supervisor/cpu_supervisor.c), in the loop of vcore_run   *)
(* (cpu.c).                                                                *)
(*                                                                         *)
(* A word is a set of bits (BitWords).  The general registers are left     *)
(* out: the operand of an instruction is any word of Operands.  Memory is  *)
(* shared with the other harts, so the instruction at an address of Code   *)
(* may be a different one each time; elsewhere, in the vector table for    *)
(* instance, there are jumps to Code.  No code sets the mode to USER_MODE: *)
(* the hart is in SUPERVISOR_MODE throughout.                              *)
(***************************************************************************)
EXTENDS BitWords

CONSTANTS Code,      \* addresses of the guest's program
          Written,   \* the CSRs it writes
          Operands,  \* what rs1 may hold
          Ins,       \* the instruction word of an illegal instruction
          Debug      \* ctx.debug

Csrs == {"SSTATUS", "SIE", "STVEC", "SCOUNTEREN", "SENVCFG", "SSCRATCH", "SEPC",
         "SCAUSE", "STVAL", "SIP", "SATP"}

ASSUME HartAssumption ==
    /\ W \in Nat /\ W >= 10
    /\ Code \subseteq Words
    /\ {} \in Code
    /\ Written \subseteq Csrs
    /\ Operands \subseteq Words
    /\ Ins \in Words
    /\ Debug \in BOOLEAN

VARIABLES at,         \* "run", "exit", "check", and "out" of vcore_run
          pc,
          csr,
          ll_sc_flag,
          exit        \* atomic_exit_loop

vars == <<at, pc, csr, ll_sc_flag, exit>>

\* The bits of SSTATUS, SIE and SIP, and the trap codes.
SSTATUS_SIE == 1
SSI == 1
STI == 5
SEI == 9
Sources == {SSI, STI, SEI}

INTERRUPT == W - 1
ILL_INS == {1}
BRKPT == {0, 1}
CauseOf(source) ==
    {INTERRUPT} \cup (CASE source = SSI -> {0}
                        [] source = STI -> {0, 2}
                        [] source = SEI -> {0, 3})

STVEC_MODE == csr["STVEC"] \cap {0, 1}
STVEC_BASE == csr["STVEC"] \ {0, 1}
Direct == {}
Vectored == {0}

-----------------------------------------------------------------------------
(* dispatch_trap.  SET_SSTATUS_SPIE, RESET_SSTATUS_SIE and the SPP macros  *)
(* give a new value of SSTATUS that the code does not store: SSTATUS, and  *)
(* with it the interrupt enable, stays as it is.                           *)

Here == [csr |-> csr, pc |-> pc]

Saved(hart, code) == [hart.csr EXCEPT !["SCAUSE"] = code, !["SEPC"] = hart.pc]

Exception(code, val) == [csr |-> [Saved(Here, code) EXCEPT !["STVAL"] = val],
                         pc |-> STVEC_BASE]

\* The entry of the handler; with another mode an assertion fails.
Handler(source) ==
    IF STVEC_MODE = Direct THEN STVEC_BASE
    ELSE Plus(STVEC_BASE, Up(CauseOf(source) \ {INTERRUPT}, 2))

Interrupt(hart, source) == [csr |-> Saved(hart, CauseOf(source)),
                            pc |-> Handler(source)]

Four == {2}

\* The instructions that raise ILL_INS and then advance all the same.
After(trap) == [trap EXCEPT !.pc = Plus(@, Four)]

-----------------------------------------------------------------------------
(* One turn of vcore_run: an instruction, ...                              *)

Turn == at = "run" /\ at' = "exit"
System == Turn /\ pc \in Code

\* What Instructions and Atomics describe, with any next address.
Plain == /\ Turn
         /\ pc' \in Code
         /\ UNCHANGED <<csr, ll_sc_flag, exit>>

LR == /\ System
      /\ ll_sc_flag' = TRUE
      /\ pc' = Plus(pc, Four)
      /\ UNCHANGED <<csr, exit>>

\* Without the flag SC sets rd and leaves the pc where it is.
SC == /\ System
      /\ ll_sc_flag' = FALSE
      /\ pc' = IF ll_sc_flag THEN Plus(pc, Four) ELSE pc
      /\ UNCHANGED <<csr, exit>>

Trap(trap) == /\ System
              /\ csr' = trap.csr
              /\ pc' = trap.pc
              /\ UNCHANGED <<ll_sc_flag, exit>>

\* A bad function code of a known opcode (STVAL is 0 for the immediate
\* operations), ...
IllegalFunction == \E val \in {Ins, {}} : Trap(After(Exception(ILL_INS, val)))

\* ... an unknown opcode, ENV function or CSR.
IllegalInstruction == Trap(Exception(ILL_INS, Ins))

\* An SBI call: it may order the hart itself to stop or suspend.
Ecall == /\ System
         /\ exit' \in {exit, TRUE}
         /\ pc' = Plus(pc, Four)
         /\ UNCHANGED <<csr, ll_sc_flag>>

Ebreak == /\ System
          /\ IF Debug
             THEN exit' = TRUE /\ UNCHANGED <<pc, csr>>
             ELSE /\ csr' = Exception(BRKPT, pc).csr
                  /\ pc' = Exception(BRKPT, pc).pc
                  /\ UNCHANGED exit
          /\ UNCHANGED ll_sc_flag

\* The masks of Writable forgotten: for SIE, for SIP, and mode 2 of STVEC.
WritableAnyEnable(name, word) ==
    CASE name = "SIP"   -> word \cap {SSI}
      [] name = "STVEC" -> IF 1 \in word THEN word \ {0, 1} ELSE word
      [] OTHER          -> word
WritableAnyPending(name, word) ==
    CASE name = "SIE"   -> word \cap Sources
      [] name = "STVEC" -> IF 1 \in word THEN word \ {0, 1} ELSE word
      [] OTHER          -> word
WritableModeTwo(name, word) ==
    CASE name = "SIP"   -> word \cap {SSI}
      [] name = "SIE"   -> word \cap Sources
      [] name = "STVEC" -> IF {0, 1} \subseteq word THEN word \ {0, 1} ELSE word
      [] OTHER          -> word

\* What a CSR instruction may write to a CSR.
Writable(name, word) ==
    CASE name = "SIP"   -> word \cap {SSI}
      [] name = "SIE"   -> word \cap Sources
      [] name = "STVEC" -> IF 1 \in word THEN word \ {0, 1} ELSE word
      [] OTHER          -> word

\* CSRRW.  The pc is not advanced.
WriteCsr(name, word) == /\ System
                        /\ csr' = [csr EXCEPT ![name] = Writable(name, word)]
                        /\ UNCHANGED <<pc, ll_sc_flag, exit>>

\* The codes of the other CSR instructions are hexadecimal where binary was
\* meant, and match no function: nothing happens.
OtherCsr == System /\ UNCHANGED <<pc, csr, ll_sc_flag, exit>>

Execute == \/ Plain \/ LR \/ SC
           \/ IllegalFunction \/ IllegalInstruction
           \/ Ecall \/ Ebreak \/ OtherCsr
           \/ \E name \in Written, word \in Operands : WriteCsr(name, word)

\* ... the exit check, ...
CheckExit == /\ at = "exit"
             /\ at' = IF exit THEN "out" ELSE "check"
             /\ UNCHANGED <<pc, csr, ll_sc_flag, exit>>

\* ... and the interrupt check.  Its three tests follow one another: each one
\* that finds its interrupt pending dispatches it, after the one before.
Enabled == ~ll_sc_flag /\ SSTATUS_SIE \in csr["SSTATUS"]
Pending == csr["SIE"] \cap csr["SIP"] \cap Sources

Served(hart, source) == IF source \in Pending THEN Interrupt(hart, source) ELSE hart

InterruptsServed == Served(Served(Served(Here, SEI), SSI), STI)

CheckInterrupts == /\ at = "check"
                   /\ at' = "run"
                   /\ IF Enabled
                      THEN /\ csr' = InterruptsServed.csr
                           /\ pc' = InterruptsServed.pc
                      ELSE UNCHANGED <<csr, pc>>
                   /\ UNCHANGED <<ll_sc_flag, exit>>

-----------------------------------------------------------------------------
(* The threads around it (Cthread).                                        *)

Init == /\ at = "run"
        /\ pc = {}
        /\ csr = [name \in Csrs |-> {}]
        /\ ll_sc_flag = FALSE
        /\ exit = FALSE

\* Halts and orders set atomic_exit_loop, an order to start clears it.
Signalled == /\ exit' = ~exit
             /\ UNCHANGED <<at, pc, csr, ll_sc_flag>>

\* The debugger may have moved the pc; a step sets the exit flag first.
Resume == /\ at = "out"
          /\ at' = "run"
          /\ pc' \in {pc} \cup Code
          /\ exit' \in BOOLEAN
          /\ UNCHANGED <<csr, ll_sc_flag>>

\* hart_start: vcore_init clears the hart.
Restart == /\ at = "out"
           /\ at' = "run"
           /\ pc' \in Code
           /\ csr' = [name \in Csrs |-> {}]
           /\ ll_sc_flag' = FALSE
           /\ exit' = FALSE

Next == \/ Execute \/ CheckExit \/ CheckInterrupts
        \/ Signalled \/ Resume \/ Restart

Spec == Init /\ [][Next]_vars

-----------------------------------------------------------------------------
(* Properties.                                                             *)

\* The types; of SIE and SIP no bit but the writable ones is ever one, and no
\* device sets a bit of SIP (cpu_supervisor.c:146-156).
TypeOK == /\ at \in {"run", "exit", "check", "out"}
          /\ pc \in Words
          /\ csr \in [Csrs -> Words]
          /\ csr["SIE"] \subseteq Sources
          /\ csr["SIP"] \subseteq {SSI}
          /\ ll_sc_flag \in BOOLEAN
          /\ exit \in BOOLEAN

\* Whatever the guest writes, dispatch_trap finds a mode it knows: its
\* assertion "THERE IS A BUG IN STVEC MODE" cannot fail (trap.c:40-45).
StvecLegal == STVEC_MODE \in {Direct, Vectored}

Interrupted == at = "check" /\ at' = "run" /\ Enabled /\ Pending # {}

\* One check_interrupts saves the interrupted program: SEPC holds the instruction
\* that is next, although the three tests may each dispatch, the later one from
\* the handler of the earlier (trap.c:59-67).  The handler can be interrupted by
\* the check that follows, see TrapDisablesInterrupts.
InterruptsResumable ==
    [][Interrupted => \E source \in Pending : /\ csr' = Saved(Here, CauseOf(source))
                                             /\ pc' = Handler(source)]_vars

\* "save old Interrupt Enable value and then reset interrupts if enabled"
\* (trap.c:10): not so, and the handler is interrupted before its first
\* instruction is followed by its second, with SEPC lost.
TrapDisablesInterrupts ==
    [][Interrupted => SSTATUS_SIE \notin csr'["SSTATUS"]]_vars
=============================================================================
