----------------------------- MODULE HartProofs -----------------------------
(***************************************************************************)
(* Theorems about Hart, for every width of a register from ten bits up,    *)
(* every program and every operand.                                        *)
(***************************************************************************)
EXTENDS Hart, TLAPS

IInv == TypeOK /\ StvecLegal

-----------------------------------------------------------------------------
(* Words.                                                                  *)

LEMMA ZeroIsWord == {} \in Words
BY DEF Words

LEMMA PlusIsWord == ASSUME NEW a, NEW b PROVE Plus(a, b) \in Words
BY DEF Plus, WordOf, Words

LEMMA BaseIsWord == ASSUME csr \in [Csrs -> Words] PROVE STVEC_BASE \in Words
BY DEF STVEC_BASE, Words, Csrs

LEMMA CodesAreWords == /\ ILL_INS \in Words /\ BRKPT \in Words
                       /\ \A source \in Sources : CauseOf(source) \in Words
<1>1. \A i \in 0 .. 9 : i \in Bits
  BY HartAssumption DEF Bits
<1>2. W - 1 \in Bits
  BY HartAssumption DEF Bits
<1>3. 0 \in Bits /\ 1 \in Bits /\ 2 \in Bits /\ 3 \in Bits
  BY <1>1
<1>4. ILL_INS \in Words /\ BRKPT \in Words
  BY <1>3 DEF ILL_INS, BRKPT, Words
<1>5. ASSUME NEW source \in Sources PROVE CauseOf(source) \in Words
  <2>1. CASE source = SSI
    BY <2>1, <1>2, <1>3 DEF CauseOf, INTERRUPT, Words
  <2>2. CASE source = STI
    BY <2>2, <1>2, <1>3 DEF CauseOf, INTERRUPT, Words, SSI, STI
  <2>3. CASE source = SEI
    BY <2>3, <1>2, <1>3 DEF CauseOf, INTERRUPT, Words, SSI, STI, SEI
  <2> QED BY <2>1, <2>2, <2>3 DEF Sources
<1> QED BY <1>4, <1>5

\* What a CSR instruction writes is a word within the masks of the register.
LEMMA WritableIsLegal ==
    ASSUME NEW name \in Csrs, NEW word \in Words
    PROVE  /\ Writable(name, word) \in Words
           /\ name = "SIP" => Writable(name, word) \subseteq {SSI}
           /\ name = "SIE" => Writable(name, word) \subseteq Sources
           /\ name = "STVEC" =>
                  Writable(name, word) \cap {0, 1} \in {Direct, Vectored}
<1>1. CASE name = "SIP"
  BY <1>1 DEF Writable, Words
<1>2. CASE name = "SIE"
  BY <1>2 DEF Writable, Words
<1>3. CASE name = "STVEC"
  <2>1. Writable(name, word) = IF 1 \in word THEN word \ {0, 1} ELSE word
    BY <1>3 DEF Writable
  <2>2. CASE 1 \in word
    BY <2>1, <2>2, <1>3 DEF Words, Direct
  <2>3. CASE 1 \notin word
    <3>1. word \cap {0, 1} = {} \/ word \cap {0, 1} = {0}
      BY <2>3
    <3> QED BY <2>1, <2>3, <3>1, <1>3 DEF Direct, Vectored
  <2> QED BY <2>2, <2>3
<1>4. CASE name \notin {"SIP", "SIE", "STVEC"}
  BY <1>4 DEF Writable
<1> QED BY <1>1, <1>2, <1>3, <1>4

-----------------------------------------------------------------------------
(* A trap changes SCAUSE, SEPC and STVAL, and takes the pc to a word.      *)

TrapOnly(c) == /\ c \in [Csrs -> Words]
               /\ \A name \in Csrs \ {"SCAUSE", "SEPC", "STVAL"} :
                      c[name] = csr[name]

\* Such registers are as legal as those before.
LEMMA TrapKeepsLegal ==
    ASSUME IInv, TrapOnly(csr')
    PROVE  /\ csr' \in [Csrs -> Words]
           /\ csr'["SIE"] \subseteq Sources
           /\ csr'["SIP"] \subseteq {SSI}
           /\ StvecLegal'
BY DEF IInv, TypeOK, StvecLegal, STVEC_MODE, TrapOnly, Csrs

LEMMA ExceptionIsTrap ==
    ASSUME TypeOK, NEW code \in Words, NEW val \in Words
    PROVE  /\ TrapOnly(Exception(code, val).csr)
           /\ Exception(code, val).pc \in Words
BY BaseIsWord DEF TypeOK, Exception, Saved, Here, TrapOnly, Csrs

LEMMA InterruptIsTrap ==
    ASSUME TypeOK, NEW source \in Sources
    PROVE  /\ TrapOnly(Interrupt(Here, source).csr)
           /\ Interrupt(Here, source).pc \in Words
<1>1. Handler(source) \in Words
  BY BaseIsWord, PlusIsWord DEF Handler, TypeOK
<1>2. CauseOf(source) \in Words
  BY CodesAreWords
<1> QED BY <1>1, <1>2 DEF TypeOK, Interrupt, Saved, Here, TrapOnly, Csrs

\* At most one of the three tests of check_interrupts finds an interrupt.
LEMMA OneInterrupt ==
    ASSUME TypeOK
    PROVE  InterruptsServed = IF SSI \in Pending THEN Interrupt(Here, SSI)
                                                 ELSE Here
<1>1. SEI \notin Pending /\ STI \notin Pending
  BY DEF TypeOK, Pending, SSI, SEI, STI
<1> QED BY <1>1 DEF InterruptsServed, Served

LEMMA ServedIsTrap ==
    ASSUME TypeOK
    PROVE  TrapOnly(InterruptsServed.csr) /\ InterruptsServed.pc \in Words
<1>1. TrapOnly(Here.csr) /\ Here.pc \in Words
  BY DEF TypeOK, Here, TrapOnly
<1>2. SSI \in Sources
  BY DEF Sources
<1> QED BY <1>1, <1>2, OneInterrupt, InterruptIsTrap

-----------------------------------------------------------------------------
(* The inductive invariant.                                                *)

LEMMA InitHolds == Init => IInv
BY ZeroIsWord DEF Init, IInv, TypeOK, StvecLegal, STVEC_MODE, Direct, Csrs

LEMMA ExecuteKeeps == ASSUME IInv, Execute PROVE IInv'
<1> USE DEF Turn, System
<1>0. at' = "exit"
  BY DEF Execute, Plain, LR, SC, IllegalFunction, IllegalInstruction, Trap,
         Ecall, Ebreak, WriteCsr, OtherCsr
<1>t. TypeOK
  BY DEF IInv
<1>c. Code \subseteq Words
  BY HartAssumption
<1>k. ASSUME UNCHANGED csr, pc' \in Words, ll_sc_flag' \in BOOLEAN,
             exit' \in BOOLEAN
      PROVE  IInv'
  BY <1>0, <1>k DEF IInv, TypeOK, StvecLegal, STVEC_MODE
<1>d. ASSUME TrapOnly(csr'), pc' \in Words,
             UNCHANGED <<ll_sc_flag, exit>>
      PROVE  IInv'
  BY <1>0, <1>d, <1>t, TrapKeepsLegal DEF IInv, TypeOK
<1>e. Exception(ILL_INS, Ins).pc \in Words /\ TrapOnly(Exception(ILL_INS, Ins).csr)
  BY <1>t, CodesAreWords, HartAssumption, ExceptionIsTrap
<1>1. CASE Plain
  BY <1>1, <1>k, <1>c, <1>t DEF Plain, TypeOK
<1>2. CASE LR
  BY <1>2, <1>k, <1>t, PlusIsWord DEF LR, TypeOK
<1>3. CASE SC
  BY <1>3, <1>k, <1>t, PlusIsWord DEF SC, TypeOK
<1>4. CASE IllegalFunction
  <2>1. PICK val \in {Ins, {}} : Trap(After(Exception(ILL_INS, val)))
    BY <1>4 DEF IllegalFunction
  <2>2. val \in Words
    BY HartAssumption, ZeroIsWord
  <2>3. TrapOnly(Exception(ILL_INS, val).csr)
    BY <2>2, <1>t, CodesAreWords, ExceptionIsTrap
  <2>4. After(Exception(ILL_INS, val)).csr = Exception(ILL_INS, val).csr
    BY DEF After, Exception
  <2>5. After(Exception(ILL_INS, val)).pc \in Words
    BY PlusIsWord DEF After, Exception
  <2> QED BY <1>d, <2>1, <2>3, <2>4, <2>5 DEF Trap
<1>5. CASE IllegalInstruction
  BY <1>5, <1>d, <1>e DEF IllegalInstruction, Trap
<1>6. CASE Ecall
  BY <1>6, <1>k, <1>t, PlusIsWord DEF Ecall, TypeOK
<1>7. CASE Ebreak
  <2>1. CASE Debug
    BY <1>7, <2>1, <1>k, <1>t DEF Ebreak, TypeOK
  <2>2. CASE ~Debug
    <3>1. Exception(BRKPT, pc).pc \in Words /\ TrapOnly(Exception(BRKPT, pc).csr)
      BY <1>t, CodesAreWords, ExceptionIsTrap DEF TypeOK
    <3> QED BY <1>7, <2>2, <3>1, <1>d DEF Ebreak
  <2> QED BY <2>1, <2>2
<1>8. CASE OtherCsr
  BY <1>8, <1>k, <1>t DEF OtherCsr, TypeOK
<1>9. ASSUME NEW name \in Written, NEW word \in Operands, WriteCsr(name, word)
      PROVE  IInv'
  <2>1. name \in Csrs /\ word \in Words
    BY HartAssumption
  <2>2. csr' = [csr EXCEPT ![name] = Writable(name, word)]
    BY <1>9 DEF WriteCsr
  <2>3. csr' \in [Csrs -> Words]
    BY <2>1, <2>2, <1>t, WritableIsLegal DEF TypeOK
  <2>4. /\ csr'["SIE"] \subseteq Sources
        /\ csr'["SIP"] \subseteq {SSI}
    BY <2>1, <2>2, <1>t, WritableIsLegal DEF TypeOK, Csrs
  <2>5. csr'["STVEC"] \cap {0, 1} \in {Direct, Vectored}
    <3>1. CASE name = "STVEC"
      BY <3>1, <2>1, <2>2, <1>t, WritableIsLegal DEF TypeOK
    <3>2. CASE name # "STVEC"
      BY <3>2, <2>1, <2>2, <1>t DEF IInv, TypeOK, StvecLegal, STVEC_MODE, Csrs
    <3> QED BY <3>1, <3>2
  <2> QED BY <1>9, <1>0, <1>t, <2>3, <2>4, <2>5
          DEF WriteCsr, IInv, TypeOK, StvecLegal, STVEC_MODE
<1> QED BY <1>1, <1>2, <1>3, <1>4, <1>5, <1>6, <1>7, <1>8, <1>9 DEF Execute

LEMMA NextKeeps == ASSUME IInv, [Next]_vars PROVE IInv'
<1>t. TypeOK
  BY DEF IInv
<1>1. CASE Execute
  BY <1>1, ExecuteKeeps
<1>2. CASE CheckExit
  BY <1>2 DEF CheckExit, IInv, TypeOK, StvecLegal, STVEC_MODE
<1>3. CASE CheckInterrupts
  <2>1. CASE Enabled
    <3>1. TrapOnly(csr') /\ pc' \in Words
      BY <1>3, <2>1, <1>t, ServedIsTrap DEF CheckInterrupts
    <3> QED BY <1>3, <3>1, <1>t, TrapKeepsLegal DEF CheckInterrupts, IInv, TypeOK
  <2>2. CASE ~Enabled
    BY <1>3, <2>2 DEF CheckInterrupts, IInv, TypeOK, StvecLegal, STVEC_MODE
  <2> QED BY <2>1, <2>2
<1>4. CASE Signalled
  BY <1>4 DEF Signalled, IInv, TypeOK, StvecLegal, STVEC_MODE
<1>5. CASE Resume
  BY <1>5, HartAssumption DEF Resume, IInv, TypeOK, StvecLegal, STVEC_MODE
<1>6. CASE Restart
  BY <1>6, HartAssumption, ZeroIsWord
     DEF Restart, IInv, TypeOK, StvecLegal, STVEC_MODE, Direct, Csrs
<1>7. CASE UNCHANGED vars
  BY <1>7 DEF vars, IInv, TypeOK, StvecLegal, STVEC_MODE
<1> QED BY <1>1, <1>2, <1>3, <1>4, <1>5, <1>6, <1>7 DEF Next

\* The types, the masks of SIE and SIP and the modes of stvec, together, are
\* kept by every instruction, trap and restart.
THEOREM Invariance == Spec => []IInv
BY InitHolds, NextKeeps, PTL DEF Spec

\* The program counter and the CSRs stay words of the register width, and no
\* bit of SIE and SIP is set that cpu_supervisor.c:146-156 masks.
THEOREM TypeCorrectness == Spec => []TypeOK
<1>1. IInv => TypeOK
  BY DEF IInv
<1> QED BY <1>1, Invariance, PTL

\* The assertion of dispatch_trap (trap.c:45) cannot fail.
THEOREM AssertionHolds == Spec => []StvecLegal
<1>1. IInv => StvecLegal
  BY DEF IInv
<1> QED BY <1>1, Invariance, PTL

\* An interrupt that is taken (trap.c:49-68) saves the pc of the instruction
\* that was next: the three tests dispatch one interrupt at most.
THEOREM InterruptsReturn == Spec => InterruptsResumable
<1>1. ASSUME IInv, [Next]_vars
      PROVE  [Interrupted =>
                  \E source \in Pending : /\ csr' = Saved(Here, CauseOf(source))
                                         /\ pc' = Handler(source)]_vars
  <2>s. SUFFICES ASSUME Interrupted
                 PROVE  \E source \in Pending : /\ csr' = Saved(Here, CauseOf(source))
                                               /\ pc' = Handler(source)
    OBVIOUS
  <2>t. TypeOK
    BY <1>1 DEF IInv
  <2>1. Pending \subseteq {SSI}
    BY <2>t DEF Pending, TypeOK
  <2>2. SSI \in Pending
    BY <2>1, <2>s DEF Interrupted
  <2>3. CheckInterrupts
    BY <1>1, <2>s DEF Interrupted, Next, Execute, Plain, LR, SC, IllegalFunction,
                IllegalInstruction, Trap, Ecall, Ebreak, WriteCsr, OtherCsr,
                System, Turn, CheckExit, Signalled, Resume, Restart, vars
  <2>4. csr' = Interrupt(Here, SSI).csr /\ pc' = Interrupt(Here, SSI).pc
    BY <2>2, <2>3, <2>t, <2>s, OneInterrupt DEF CheckInterrupts, Interrupted
  <2> QED BY <2>2, <2>4 DEF Interrupt
<1> QED BY <1>1, Invariance, PTL DEF Spec, InterruptsResumable
=============================================================================
