---------------------------- MODULE CthreadProofs ----------------------------
(***************************************************************************)
(* Cthread, for every set of cores.                                        *)
(***************************************************************************)
EXTENDS Cthread, TLAPS

\* Core i has been given order s and has not acknowledged it.
Ordered(i, s) ==
    /\ signal[i] = s
    /\ \/ s = "STOPPED"   /\ state[i] = "STOP_PENDING"
       \/ s = "SUSPENDED" /\ state[i] = "SUSPEND_PENDING"
       \/ s = "HALTED"    /\ state[i] = "HALT_PENDING"

\* Between two rounds of cthread_fsm: nothing the thread left behind is
\* published as STARTED, STOPPED or SUSPENDED.
AtFsm(i) == pc[i] = "fsm" =>
    \/ state[i] = "HALTED" /\ signal[i] \in {"HALTED", "STEPPING"}
    \/ state[i] = "STEPPING" /\ signal[i] = "HALTED"
    \/ state[i] \in {"START_PENDING", "RESUME_PENDING"} /\ signal[i] = "STARTED"
    \/ state[i] = "CONTINUE_PENDING" /\ signal[i] \in Hsm
    \/ \E s \in {"STOPPED", "SUSPENDED", "HALTED"} : Ordered(i, s)

\* In cthread_wait_on_sign: the order was acknowledged, and possibly replaced
\* by one that the acknowledged state admits.
AtWait(i) == pc[i] = "wait" =>
    /\ serving[i] # "STARTED"
    /\ serving[i] = "STEPPING" => exitLoop[i]
    /\ \/ state[i] = serving[i] /\ signal[i] = serving[i]
       \/ Ordered(i, "HALTED")
       \/ /\ serving[i] = "HALTED"
          /\ \/ state[i] = "HALTED" /\ signal[i] = "STEPPING"
             \/ state[i] = "CONTINUE_PENDING" /\ signal[i] \in Hsm
       \/ /\ serving[i] = "STEPPING"
          /\ state[i] = "STEPPING" /\ signal[i] = "HALTED"
       \/ /\ serving[i] = "STOPPED"
          /\ state[i] = "START_PENDING" /\ signal[i] = "STARTED"
       \/ /\ serving[i] = "SUSPENDED"
          /\ state[i] = "RESUME_PENDING" /\ signal[i] = "STARTED"

\* In vcore_run, or just out of it: started with the flag down and no newer
\* order, or with the flag up and on the way out.
InRun(i) == pc[i] \in {"run", "check", "left"} =>
    \/ /\ serving[i] = "STARTED"
       /\ \/ /\ state[i] = "STARTED" /\ signal[i] = "STARTED"
             /\ ~exitLoop[i] /\ pc[i] # "left"
          \/ /\ \E s \in {"STOPPED", "SUSPENDED", "HALTED"} : Ordered(i, s)
             /\ exitLoop[i]
    \/ /\ serving[i] = "STEPPING"
       /\ exitLoop[i]
       /\ \/ state[i] = "STEPPING" /\ signal[i] = "HALTED"
          \/ Ordered(i, "HALTED")

\* Only a sleeper that has nothing to see sleeps.
Asleep(i) ==
    /\ i \in onSignal => /\ pc[i] = "wait"
                         /\ state[i] = serving[i] /\ signal[i] = serving[i]
    /\ i \in onState => stepper[i] # "idle" /\ state[i] # stepper[i]

\* STEP stands only while the main thread waits for its acknowledgement.
StepOrder(i) == signal[i] = "STEPPING" => stepper[i] = "STEPPING"

CoreInv(i) == AtFsm(i) /\ AtWait(i) /\ InRun(i) /\ Asleep(i) /\ StepOrder(i)

IInv == /\ TypeOK
        /\ crash = "none"
        /\ \A i \in Cores : CoreInv(i)

-----------------------------------------------------------------------------
\* The inductive invariant holds of a freshly initialised set of cores.
LEMMA InitIInv == Init => IInv
  BY DEF Init, IInv, TypeOK, States, Signals, Hsm, CoreInv, AtFsm, AtWait,
         InRun, Asleep, StepOrder

\* Core j looks the same before and after a step.
Same(j) ==
    /\ state'[j] = state[j] /\ signal'[j] = signal[j]
    /\ exitLoop'[j] = exitLoop[j] /\ pc'[j] = pc[j]
    /\ serving'[j] = serving[j] /\ stepper'[j] = stepper[j]
    /\ (j \in onSignal') = (j \in onSignal)
    /\ (j \in onState') = (j \in onState)

\* What a step leaves alone stays well.
LEMMA SameCore == ASSUME NEW j \in Cores, CoreInv(j), Same(j)
                  PROVE  CoreInv(j)'
  BY DEF CoreInv, AtFsm, AtWait, InRun, Asleep, StepOrder, Ordered, Same

\* Acknowledging STOP, HALT or SUSPEND parks a thread that is not executing.
LEMMA FsmParkInv ==
  ASSUME IInv, NEW i \in Cores, FsmPark(i) PROVE IInv'
<1>1. TypeOK' /\ crash' = "none"
  BY DEF IInv, TypeOK, States, Signals, Pending, Hsm, CoreInv, InRun, Ordered,
      FsmPark, WaitOnSign, Parked
<1>2. CoreInv(i)'
  BY DEF IInv, TypeOK, CoreInv, AtFsm, AtWait, InRun, Asleep, StepOrder,
      Ordered,
         States, Signals, Pending, Hsm, FsmPark, WaitOnSign, Parked
<1>3. ASSUME NEW j \in Cores, j # i PROVE Same(j)
  BY <1>3 DEF IInv, TypeOK, Same, FsmPark, WaitOnSign, Parked
<1> QED
  BY <1>1, <1>2, <1>3, SameCore DEF IInv

\* Acknowledging STEP leaves HALTED with the exit flag up.
LEMMA FsmStepInv ==
  ASSUME IInv, NEW i \in Cores, FsmStep(i) PROVE IInv'
<1>1. TypeOK' /\ crash' = "none"
  BY DEF IInv, TypeOK, States, Signals, Pending, Hsm, CoreInv, InRun, Ordered,
      FsmStep, WaitOnSign
<1>2. CoreInv(i)'
  BY DEF IInv, TypeOK, CoreInv, AtFsm, AtWait, InRun, Asleep, StepOrder,
      Ordered,
         States, Signals, Pending, Hsm, FsmStep, WaitOnSign
<1>3. ASSUME NEW j \in Cores, j # i PROVE Same(j)
  BY <1>3 DEF IInv, TypeOK, Same, FsmStep, WaitOnSign
<1> QED
  BY <1>1, <1>2, <1>3, SameCore DEF IInv

\* Entering STARTED lowers the flag: no newer order can be standing.
LEMMA FsmStartInv ==
  ASSUME IInv, NEW i \in Cores, FsmStart(i) PROVE IInv'
<1>1. TypeOK' /\ crash' = "none"
  BY DEF IInv, TypeOK, States, Signals, Pending, Hsm, CoreInv, InRun, Ordered,
      FsmStart
<1>2. CoreInv(i)'
  BY DEF IInv, TypeOK, CoreInv, AtFsm, AtWait, InRun, Asleep, StepOrder,
      Ordered,
         States, Signals, Pending, Hsm, FsmStart
<1>3. ASSUME NEW j \in Cores, j # i PROVE Same(j)
  BY <1>3 DEF IInv, TypeOK, Same, FsmStart
<1> QED
  BY <1>1, <1>2, <1>3, SameCore DEF IInv

\* A thread woken for an order it already follows goes back to sleep.
LEMMA WakeToWaitInv ==
  ASSUME IInv, NEW i \in Cores, WakeToWait(i) PROVE IInv'
<1>1. TypeOK' /\ crash' = "none"
  BY DEF IInv, TypeOK, States, Signals, Pending, Hsm, CoreInv, InRun, Ordered,
      WakeToWait, WaitOnSign
<1>2. CoreInv(i)'
  BY DEF IInv, TypeOK, CoreInv, AtFsm, AtWait, InRun, Asleep, StepOrder,
      Ordered,
         States, Signals, Pending, Hsm, WakeToWait, WaitOnSign
<1>3. ASSUME NEW j \in Cores, j # i PROVE Same(j)
  BY <1>3 DEF IInv, TypeOK, Same, WakeToWait, WaitOnSign
<1> QED
  BY <1>1, <1>2, <1>3, SameCore DEF IInv

\* A thread woken by a new order returns to cthread_fsm, or runs one instruction
\* with the flag up.
LEMMA WakeToGoInv ==
  ASSUME IInv, NEW i \in Cores, WakeToGo(i) PROVE IInv'
<1>1. TypeOK' /\ crash' = "none"
  BY DEF IInv, TypeOK, States, Signals, Pending, Hsm, CoreInv, InRun, Ordered,
      WakeToGo
<1>2. CoreInv(i)'
  BY DEF IInv, TypeOK, CoreInv, AtFsm, AtWait, InRun, Asleep, StepOrder,
      Ordered,
         States, Signals, Pending, Hsm, WakeToGo
<1>3. ASSUME NEW j \in Cores, j # i PROVE Same(j)
  BY <1>3 DEF IInv, TypeOK, Same, WakeToGo
<1> QED
  BY <1>1, <1>2, <1>3, SameCore DEF IInv

\* An instruction moves nothing but the thread.
LEMMA ExecuteInv ==
  ASSUME IInv, NEW i \in Cores, Execute(i) PROVE IInv'
<1>1. TypeOK' /\ crash' = "none"
  BY DEF IInv, TypeOK, States, Signals, Pending, Hsm, CoreInv, InRun, Ordered,
      Execute
<1>2. CoreInv(i)'
  BY DEF IInv, TypeOK, CoreInv, AtFsm, AtWait, InRun, Asleep, StepOrder,
      Ordered,
         States, Signals, Pending, Hsm, Execute
<1>3. ASSUME NEW j \in Cores, j # i PROVE Same(j)
  BY <1>3 DEF IInv, TypeOK, Same, Execute
<1> QED
  BY <1>1, <1>2, <1>3, SameCore DEF IInv

\* The hot loop is left only with the exit flag up.
LEMMA CheckExitInv ==
  ASSUME IInv, NEW i \in Cores, CheckExit(i) PROVE IInv'
<1>1. TypeOK' /\ crash' = "none"
  BY DEF IInv, TypeOK, States, Signals, Pending, Hsm, CoreInv, InRun, Ordered,
      CheckExit
<1>2. CoreInv(i)'
  BY DEF IInv, TypeOK, CoreInv, AtFsm, AtWait, InRun, Asleep, StepOrder,
      Ordered,
         States, Signals, Pending, Hsm, CheckExit
<1>3. ASSUME NEW j \in Cores, j # i PROVE Same(j)
  BY <1>3 DEF IInv, TypeOK, Same, CheckExit
<1> QED
  BY <1>1, <1>2, <1>3, SameCore DEF IInv

\* The assertion behind vcore_run holds.
LEMMA AfterRunInv ==
  ASSUME IInv, NEW i \in Cores, AfterRun(i) PROVE IInv'
<1>1. TypeOK' /\ crash' = "none"
  BY DEF IInv, TypeOK, States, Signals, Pending, Hsm, CoreInv, InRun, Ordered,
      AfterRun
<1>2. CoreInv(i)'
  BY DEF IInv, TypeOK, CoreInv, AtFsm, AtWait, InRun, Asleep, StepOrder,
      Ordered,
         States, Signals, Pending, Hsm, AfterRun
<1>3. ASSUME NEW j \in Cores, j # i PROVE Same(j)
  BY <1>3 DEF IInv, TypeOK, Same, AfterRun
<1> QED
  BY <1>1, <1>2, <1>3, SameCore DEF IInv

\* The main thread blocks again only when its answer is not there.
LEMMA StepBlocksInv ==
  ASSUME IInv, NEW i \in Cores, StepBlocks(i) PROVE IInv'
<1>1. TypeOK' /\ crash' = "none"
  BY DEF IInv, TypeOK, States, Signals, Pending, Hsm, CoreInv, InRun, Ordered,
      StepBlocks
<1>2. CoreInv(i)'
  BY DEF IInv, TypeOK, CoreInv, AtFsm, AtWait, InRun, Asleep, StepOrder,
      Ordered,
         States, Signals, Pending, Hsm, StepBlocks
<1>3. ASSUME NEW j \in Cores, j # i PROVE Same(j)
  BY <1>3 DEF IInv, TypeOK, Same, StepBlocks
<1> QED
  BY <1>1, <1>2, <1>3, SameCore DEF IInv

\* The main thread lets a core step that has acknowledged STEP.
LEMMA StepAckedInv ==
  ASSUME IInv, NEW i \in Cores, StepAcked(i) PROVE IInv'
<1>1. TypeOK' /\ crash' = "none"
  BY DEF IInv, TypeOK, States, Signals, Pending, Hsm, CoreInv, InRun, Ordered,
      StepAcked
<1>2. CoreInv(i)'
  BY DEF IInv, TypeOK, CoreInv, AtFsm, AtWait, InRun, Asleep, StepOrder,
      Ordered,
         States, Signals, Pending, Hsm, StepAcked
<1>3. ASSUME NEW j \in Cores, j # i PROVE Same(j)
  BY <1>3 DEF IInv, TypeOK, Same, StepAcked
<1> QED
  BY <1>1, <1>2, <1>3, SameCore DEF IInv

\* A step that is done leaves no STEP order behind.
LEMMA StepDoneInv ==
  ASSUME IInv, NEW i \in Cores, StepDone(i) PROVE IInv'
<1>1. TypeOK' /\ crash' = "none"
  BY DEF IInv, TypeOK, States, Signals, Pending, Hsm, CoreInv, InRun, Ordered,
      StepDone
<1>2. CoreInv(i)'
  BY DEF IInv, TypeOK, CoreInv, AtFsm, AtWait, InRun, Asleep, StepOrder,
      Ordered,
         States, Signals, Pending, Hsm, StepDone
<1>3. ASSUME NEW j \in Cores, j # i PROVE Same(j)
  BY <1>3 DEF IInv, TypeOK, Same, StepDone
<1> QED
  BY <1>1, <1>2, <1>3, SameCore DEF IInv

\* A spurious wakeup harms nobody.
LEMMA SpuriousWakeInv ==
  ASSUME IInv, NEW i \in Cores, SpuriousWake(i) PROVE IInv'
<1>1. TypeOK' /\ crash' = "none"
  BY DEF IInv, TypeOK, States, Signals, Pending, Hsm, CoreInv, InRun, Ordered,
      SpuriousWake
<1>2. CoreInv(i)'
  BY DEF IInv, TypeOK, CoreInv, AtFsm, AtWait, InRun, Asleep, StepOrder,
      Ordered,
         States, Signals, Pending, Hsm, SpuriousWake
<1>3. ASSUME NEW j \in Cores, j # i PROVE Same(j)
  BY <1>3 DEF IInv, TypeOK, Same, SpuriousWake
<1> QED
  BY <1>1, <1>2, <1>3, SameCore DEF IInv

\* A halt can overtake any other order.
LEMMA SignalHaltInv ==
  ASSUME IInv, NEW i \in Cores, SignalHalt(i) PROVE IInv'
<1>1. TypeOK' /\ crash' = "none"
  BY DEF IInv, TypeOK, States, Signals, Pending, Hsm, CoreInv, InRun, Ordered,
      SignalHalt
<1>2. CoreInv(i)'
  BY DEF IInv, TypeOK, CoreInv, AtFsm, AtWait, InRun, Asleep, StepOrder,
      Ordered,
         States, Signals, Pending, Hsm, SignalHalt
<1>3. ASSUME NEW j \in Cores, j # i PROVE Same(j)
  BY <1>3 DEF IInv, TypeOK, Same, SignalHalt
<1> QED
  BY <1>1, <1>2, <1>3, SameCore DEF IInv

\* An HSM order is accepted only where the core can follow it.
LEMMA AcceptHsmInv ==
  ASSUME IInv, NEW i \in Cores, NEW s \in Hsm, AcceptHsm(i, s) PROVE IInv'
<1>1. TypeOK' /\ crash' = "none"
  BY DEF IInv, TypeOK, States, Signals, Pending, Hsm, CoreInv, InRun, Ordered,
      AcceptHsm, Accepts, NextState, Hsm
<1>a. state[i] \in {"STARTED", "STOPPED", "SUSPENDED"} /\ pc[i] # "fsm"
  BY DEF IInv, TypeOK, CoreInv, AtFsm, Ordered, AcceptHsm, Accepts
<1>2. CoreInv(i)'
  <2>1. CASE s = "STARTED"
    BY <1>a, <2>1 DEF IInv, TypeOK, CoreInv, AtFsm, AtWait, InRun, Asleep,
       StepOrder, Ordered, AcceptHsm, Accepts, NextState
  <2>2. CASE s = "STOPPED"
    BY <1>a, <2>2 DEF IInv, TypeOK, CoreInv, AtFsm, AtWait, InRun, Asleep,
       StepOrder, Ordered, AcceptHsm, Accepts, NextState
  <2>3. CASE s = "SUSPENDED"
    BY <1>a, <2>3 DEF IInv, TypeOK, CoreInv, AtFsm, AtWait, InRun, Asleep,
       StepOrder, Ordered, AcceptHsm, Accepts, NextState
  <2> QED
    BY <2>1, <2>2, <2>3 DEF Hsm
<1>3. ASSUME NEW j \in Cores, j # i PROVE Same(j)
  BY <1>3 DEF IInv, TypeOK, Same, AcceptHsm, Accepts, NextState, Hsm
<1> QED
  BY <1>1, <1>2, <1>3, SameCore DEF IInv

\* A buffered HSM order disturbs nothing but old_signal.
LEMMA BufferHsmInv ==
  ASSUME IInv, NEW i \in Cores, NEW s \in Hsm, BufferHsm(i, s) PROVE IInv'
<1>1. TypeOK' /\ crash' = "none"
  BY DEF IInv, TypeOK, States, Signals, Pending, Hsm, CoreInv, InRun, Ordered,
      BufferHsm, Hsm
<1>2. CoreInv(i)'
  BY DEF IInv, TypeOK, CoreInv, AtFsm, AtWait, InRun, Asleep, StepOrder,
      Ordered,
         States, Signals, Pending, Hsm, BufferHsm, Hsm
<1>3. ASSUME NEW j \in Cores, j # i PROVE Same(j)
  BY <1>3 DEF IInv, TypeOK, Same, BufferHsm, Hsm
<1> QED
  BY <1>1, <1>2, <1>3, SameCore DEF IInv

\* Resetting an idle core costs no order its exit flag.
LEMMA ResetCoreInv ==
  ASSUME IInv, NEW i \in Cores, ResetCore(i) PROVE IInv'
<1>1. TypeOK' /\ crash' = "none"
  BY DEF IInv, TypeOK, ResetCore
<1>2. CoreInv(i)'
  BY DEF IInv, TypeOK, CoreInv, AtFsm, AtWait, InRun, Asleep, StepOrder,
     Ordered, ResetCore, Idle
<1>3. ASSUME NEW j \in Cores, j # i PROVE Same(j)
  BY <1>3 DEF IInv, TypeOK, Same, ResetCore
<1> QED
  BY <1>1, <1>2, <1>3, SameCore DEF IInv

\* A continue meets a core that is halted, and restores an HSM order.
LEMMA MainContinueInv ==
  ASSUME IInv, NEW i \in Cores, MainContinue(i) PROVE IInv'
<1>1. TypeOK' /\ crash' = "none"
  <2>1. /\ oldSignal[i] \in Hsm /\ oldSignal[i] \notin {"HALTED", "STEPPING"}
    BY DEF IInv, TypeOK, Hsm
  <2>2. /\ signal' = [signal EXCEPT ![i] = oldSignal[i]]
        /\ exitLoop' = [exitLoop EXCEPT ![i] = (oldSignal[i] # "STARTED")]
        /\ state' = [state EXCEPT ![i] = "CONTINUE_PENDING"]
        /\ onSignal' = onSignal \ {i}
        /\ UNCHANGED <<crash, oldSignal, pc, serving, stepper, onState>>
    BY <2>1 DEF MainContinue, SignalContinue
  <2> QED
    BY <2>1, <2>2 DEF IInv, TypeOK, States, Signals, Pending
<1>a. /\ state[i] = "HALTED" /\ pc[i] \in {"fsm", "wait"}
      /\ pc[i] = "wait" => serving[i] = "HALTED"
  BY DEF IInv, TypeOK, CoreInv, InRun, AtWait, Ordered, MainContinue
<1>b. /\ state'[i] = "CONTINUE_PENDING" /\ signal'[i] \in Hsm
      /\ pc'[i] = pc[i] /\ serving'[i] = serving[i]
      /\ i \notin onSignal' /\ stepper' = stepper /\ onState' = onState
      /\ stepper[i] = "idle"
  BY <1>a DEF IInv, TypeOK, Hsm, MainContinue, MainFree, SignalContinue
<1>2. CoreInv(i)'
  BY <1>a, <1>b DEF IInv, CoreInv, AtFsm, AtWait, InRun, Asleep, StepOrder,
     Ordered, Hsm
<1>3. ASSUME NEW j \in Cores, j # i PROVE Same(j)
  BY <1>3 DEF IInv, TypeOK, Same, MainContinue, SignalContinue
<1> QED
  BY <1>1, <1>2, <1>3, SameCore DEF IInv

\* A step meets a core that is halted.
LEMMA MainStepInv ==
  ASSUME IInv, NEW i \in Cores, MainStep(i) PROVE IInv'
<1>1. TypeOK' /\ crash' = "none"
  <2>1. /\ signal' = [signal EXCEPT ![i] = "STEPPING"]
        /\ exitLoop' = [exitLoop EXCEPT ![i] = TRUE]
        /\ onSignal' = onSignal \ {i}
        /\ stepper' = [stepper EXCEPT ![i] = "STEPPING"]
        /\ onState' = onState \cup {i}
        /\ UNCHANGED <<crash, state, oldSignal, pc, serving>>
    BY DEF MainStep, SignalStep
  <2> QED
    BY <2>1 DEF IInv, TypeOK, Signals
<1>a. /\ state[i] = "HALTED" /\ pc[i] \in {"fsm", "wait"}
      /\ pc[i] = "wait" => serving[i] = "HALTED"
  BY DEF IInv, TypeOK, CoreInv, InRun, AtWait, Ordered, MainStep
<1>b. /\ state' = state /\ signal'[i] = "STEPPING" /\ pc' = pc
      /\ serving' = serving /\ i \notin onSignal'
      /\ stepper'[i] = "STEPPING"
  BY <1>a DEF IInv, TypeOK, MainStep, SignalStep
<1>2. CoreInv(i)'
  BY <1>a, <1>b DEF CoreInv, AtFsm, AtWait, InRun, Asleep, StepOrder, Ordered
<1>3. ASSUME NEW j \in Cores, j # i PROVE Same(j)
  BY <1>3 DEF IInv, TypeOK, Same, MainStep, SignalStep
<1> QED
  BY <1>1, <1>2, <1>3, SameCore DEF IInv
-----------------------------------------------------------------------------
\* A step that changes no variable changes no conjunct of the invariant.
LEMMA StutterInv == ASSUME IInv, UNCHANGED vars PROVE IInv'
<1>1. TypeOK' /\ crash' = "none"
  BY DEF IInv, TypeOK, vars
<1>2. ASSUME NEW j \in Cores PROVE Same(j)
  BY DEF Same, vars
<1> QED
  BY <1>1, <1>2, SameCore DEF IInv

\* Every step of cthread.c preserves the inductive invariant.
LEMMA NextInv == ASSUME IInv, [Next]_vars PROVE IInv'
<1>1. ASSUME NEW i \in Cores, CoreStep(i) PROVE IInv'
  BY <1>1, FsmParkInv, FsmStepInv, FsmStartInv, WakeToWaitInv, WakeToGoInv,
     ExecuteInv, CheckExitInv, AfterRunInv DEF CoreStep
<1>2. ASSUME NEW i \in Cores, StepWait(i) PROVE IInv'
  BY <1>2, StepBlocksInv, StepAckedInv, StepDoneInv DEF StepWait
<1>3. ASSUME NEW i \in Cores, SpuriousWake(i) PROVE IInv'
  BY <1>3, SpuriousWakeInv
<1>4. ASSUME NEW i \in Cores, SignalHalt(i) PROVE IInv'
  BY <1>4, SignalHaltInv
<1>5. ASSUME NEW i \in Cores, NEW s \in Hsm, SignalHsm(i, s) PROVE IInv'
  BY <1>5, AcceptHsmInv, BufferHsmInv DEF SignalHsm
<1>6. ASSUME NEW i \in Cores, MainContinue(i) PROVE IInv'
  BY <1>6, MainContinueInv
<1>7. ASSUME NEW i \in Cores, MainStep(i) PROVE IInv'
  BY <1>7, MainStepInv
<1>8. ASSUME NEW i \in Cores, ResetCore(i) PROVE IInv'
  BY <1>8, ResetCoreInv
<1>9. CASE UNCHANGED vars
  BY <1>9, StutterInv
<1> QED
  BY <1>1, <1>2, <1>3, <1>4, <1>5, <1>6, <1>7, <1>8, <1>9 DEF Next

\* The inductive invariant holds in every state of every behaviour.
THEOREM Invariance == Spec => []IInv
  BY InitIInv, NextInv, PTL DEF Spec

\* Every variable keeps its type; old_signal in particular never holds a
\* debugging order, which cthread_signal_continue relies on.
THEOREM TypeCorrectness == Spec => []TypeOK
<1>1. IInv => TypeOK
  BY DEF IInv
<1> QED
  BY <1>1, Invariance, PTL

\* A core whose published state is HALTED, STOPPED or SUSPENDED is not in
\* vcore_run, so its registers may be touched from outside.
THEOREM ParkedIdle == Spec => []ParkedCoresAreIdle
<1>1. ASSUME IInv PROVE ParkedCoresAreIdle
  <2> SUFFICES ASSUME NEW i \in Cores, state[i] \in Parked
               PROVE  pc[i] \in {"fsm", "wait"}
    BY DEF ParkedCoresAreIdle
  <2> QED
    BY <1>1 DEF IInv, TypeOK, CoreInv, InRun, Ordered, Parked
<1> QED
  BY <1>1, Invariance, PTL

\* No sequence of orders leaves a core in its hot loop, with the exit flag
\* down, while an order other than START stands.
THEOREM ExitStands == Spec => []ExitRequestStands
<1>1. ASSUME IInv PROVE ExitRequestStands
  <2> SUFFICES ASSUME NEW i \in Cores, pc[i] \in InGuest, signal[i] # "STARTED"
               PROVE  exitLoop[i]
    BY DEF ExitRequestStands
  <2> QED
    BY <1>1 DEF IInv, CoreInv, InRun, InGuest
<1> QED
  BY <1>1, Invariance, PTL

\* Neither a core nor the main thread sleeps through what it waits for.
THEOREM NoWakeupLost == Spec => []NoLostWakeup
<1>1. ASSUME IInv PROVE NoLostWakeup
  BY <1>1 DEF IInv, TypeOK, CoreInv, Asleep, NoLostWakeup
<1> QED
  BY <1>1, Invariance, PTL

\* No assertion of cthread.c fails, for any number of cores and any sequence
\* of HSM orders, halts, continues and steps.
THEOREM NeverAborts == Spec => []NoAbort
<1>1. IInv => NoAbort
  BY DEF IInv, NoAbort
<1> QED
  BY <1>1, Invariance, PTL

\* Only the main thread's continue or step takes a core out of HALTED: the
\* guest's HSM orders and the halts of other cores do not.
THEOREM HaltedStands == Spec => HaltedIsLeftByMainOnly
<1> DEFINE Left(i) == /\ state[i] = "HALTED" /\ state'[i] # "HALTED"
                      /\ state'[i] # "CONTINUE_PENDING"
                      /\ ~(state'[i] = "STEPPING" /\ stepper[i] = "STEPPING")
<1>1. ASSUME IInv, Next, NEW i \in Cores, Left(i) PROVE FALSE
  <2>1. PICK j \in Cores :
            \/ CoreStep(j) \/ StepWait(j) \/ SpuriousWake(j) \/ SignalHalt(j)
            \/ \E s \in Hsm : SignalHsm(j, s)
            \/ ResetCore(j) \/ MainContinue(j) \/ MainStep(j)
    BY <1>1 DEF Next
  <2>2. CASE CoreStep(j)
    <3>1. CASE FsmPark(j)
      BY <1>1, <3>1 DEF IInv, TypeOK, CoreInv, AtFsm, Ordered, FsmPark,
         WaitOnSign, Parked
    <3>2. CASE FsmStep(j)
      BY <1>1, <3>2 DEF IInv, TypeOK, CoreInv, StepOrder, FsmStep, WaitOnSign
    <3>3. CASE FsmStart(j)
      BY <1>1, <3>3 DEF IInv, TypeOK, CoreInv, AtFsm, Ordered, FsmStart
    <3>4. CASE WakeToWait(j)
      BY <1>1, <3>4 DEF IInv, TypeOK, CoreInv, AtWait, Ordered, WakeToWait,
         WaitOnSign
    <3>5. CASE WakeToGo(j) \/ Execute(j) \/ CheckExit(j) \/ AfterRun(j)
      BY <1>1, <3>5 DEF WakeToGo, Execute, CheckExit, AfterRun
    <3> QED
      BY <2>2, <3>1, <3>2, <3>3, <3>4, <3>5 DEF CoreStep
  <2>3. CASE StepWait(j) \/ SpuriousWake(j) \/ ResetCore(j)
    BY <1>1, <2>3 DEF ResetCore, StepWait, StepBlocks, StepAcked, StepDone, SpuriousWake
  <2>4. CASE SignalHalt(j)
    BY <1>1, <2>4 DEF IInv, TypeOK, SignalHalt
  <2>5. ASSUME NEW s \in Hsm, SignalHsm(j, s) PROVE FALSE
    BY <1>1, <2>5 DEF IInv, TypeOK, SignalHsm, AcceptHsm, BufferHsm, Accepts
  <2>6. CASE MainContinue(j)
    BY <1>1, <2>6 DEF IInv, TypeOK, MainContinue, SignalContinue
  <2>7. CASE MainStep(j)
    BY <1>1, <2>7 DEF MainStep, SignalStep
  <2> QED
    BY <2>1, <2>2, <2>3, <2>4, <2>5, <2>6, <2>7
<1>2. ASSUME IInv, [Next]_vars
      PROVE  [\A i \in Cores : state[i] = "HALTED" /\ state'[i] # "HALTED" =>
                 \/ state'[i] = "CONTINUE_PENDING"
                 \/ state'[i] = "STEPPING" /\ stepper[i] = "STEPPING"]_vars
  BY <1>1, <1>2
<1> QED
  BY <1>2, Invariance, PTL DEF Spec, HaltedIsLeftByMainOnly

-----------------------------------------------------------------------------
(* Refinement of CoreAccess.  Each lemma maps the steps that move one of    *)
(* the two abstract sets; every other step stutters.                       *)

\* A step that keeps where each thread is with respect to vcore_run, and
\* which cores are published as parked, is a stutter.
LEMMA AccessStutter ==
  ASSUME \A j \in Cores : /\ (pc'[j] \in InGuest) = (pc[j] \in InGuest)
                           /\ (state'[j] \in Parked) = (state[j] \in Parked)
  PROVE  UNCHANGED CA!vars
  BY DEF CA!vars, running, parked

\* The thread of a core that is not parked enters or leaves vcore_run.
LEMMA AccessRun ==
  ASSUME NEW i \in Cores, state[i] \notin Parked,
         \A j \in Cores : /\ (state'[j] \in Parked) = (state[j] \in Parked)
                          /\ j # i => (pc'[j] \in InGuest) = (pc[j] \in InGuest)
  PROVE  [CA!Next]_(CA!vars)
<1>1. parked' = parked /\ i \notin parked
  BY DEF parked
<1>2. CASE (pc'[i] \in InGuest) = (pc[i] \in InGuest)
  BY <1>2, AccessStutter
<1>3. CASE pc[i] \in InGuest /\ pc'[i] \notin InGuest
  <2>1. i \in running /\ running' = running \ {i}
    BY <1>3 DEF running
  <2> QED
    BY <1>1, <2>1 DEF CA!Next, CA!Leave
<1>4. CASE pc[i] \notin InGuest /\ pc'[i] \in InGuest
  <2>1. i \notin running /\ running' = running \cup {i}
    BY <1>4 DEF running
  <2> QED
    BY <1>1, <2>1 DEF CA!Next, CA!Enter
<1> QED
  BY <1>2, <1>3, <1>4

\* A core that is not in vcore_run is parked or released.
LEMMA AccessPark ==
  ASSUME NEW i \in Cores, pc[i] \notin InGuest,
         \A j \in Cores : /\ (pc'[j] \in InGuest) = (pc[j] \in InGuest)
                          /\ j # i => (state'[j] \in Parked) = (state[j] \in Parked)
  PROVE  [CA!Next]_(CA!vars)
<1>1. running' = running /\ i \notin running
  BY DEF running
<1>2. CASE (state'[i] \in Parked) = (state[i] \in Parked)
  BY <1>2, AccessStutter
<1>3. CASE state[i] \in Parked /\ state'[i] \notin Parked
  <2>1. i \in parked /\ parked' = parked \ {i}
    BY <1>3 DEF parked
  <2> QED
    BY <1>1, <2>1 DEF CA!Next, CA!Unpark
<1>4. CASE state[i] \notin Parked /\ state'[i] \in Parked
  <2>1. i \notin parked /\ parked' = parked \cup {i}
    BY <1>4 DEF parked
  <2> QED
    BY <1>1, <2>1 DEF CA!Next, CA!Park
<1> QED
  BY <1>2, <1>3, <1>4

\* Every step of the thread layer is a step of CoreAccess or a stutter.
LEMMA AccessStep == ASSUME IInv, [Next]_vars PROVE [CA!Next]_(CA!vars)
<1>1. CASE UNCHANGED vars
  BY <1>1, AccessStutter DEF vars
<1>2. ASSUME NEW i \in Cores, \/ FsmPark(i) \/ FsmStep(i) \/ WakeToWait(i)
      PROVE  [CA!Next]_(CA!vars)
  <2>1. pc[i] \notin InGuest /\ pc' = [pc EXCEPT ![i] = "wait"]
    BY <1>2 DEF FsmPark, FsmStep, WakeToWait, WaitOnSign, InGuest
  <2>2. \A j \in Cores : j # i => state'[j] = state[j]
    BY <1>2 DEF IInv, TypeOK, FsmPark, FsmStep, WakeToWait, WaitOnSign
  <2> QED
    BY <2>1, <2>2, AccessPark DEF IInv, TypeOK, InGuest
<1>3. ASSUME NEW i \in Cores, FsmStart(i) PROVE [CA!Next]_(CA!vars)
  <2>1. state[i] \notin Parked
    BY <1>3 DEF IInv, TypeOK, CoreInv, AtFsm, Ordered, FsmStart, Parked
  <2>2. /\ state' = [state EXCEPT ![i] = "STARTED"]
        /\ pc' = [pc EXCEPT ![i] = "run"]
    BY <1>3 DEF FsmStart
  <2> QED
    BY <2>1, <2>2, AccessRun DEF IInv, TypeOK, Parked
<1>4. ASSUME NEW i \in Cores, WakeToGo(i) PROVE [CA!Next]_(CA!vars)
  <2>1. CASE pc'[i] = "fsm"
    BY <1>4, <2>1, AccessStutter DEF IInv, TypeOK, WakeToGo, InGuest
  <2>2. CASE serving[i] = "STEPPING"
    <3>1. state[i] \notin Parked
      BY <1>4, <2>2 DEF IInv, TypeOK, CoreInv, AtWait, Ordered, WakeToGo, Parked
    <3> QED
      BY <1>4, <3>1, AccessRun DEF IInv, TypeOK, WakeToGo
  <2> QED
    BY <1>4, <2>1, <2>2 DEF IInv, TypeOK, WakeToGo
<1>5. ASSUME NEW i \in Cores, Execute(i) \/ CheckExit(i)
      PROVE  [CA!Next]_(CA!vars)
  <2>1. state[i] \notin Parked
    BY <1>5 DEF IInv, TypeOK, CoreInv, InRun, Ordered, Execute, CheckExit, Parked
  <2>2. state' = state /\ \A j \in Cores : j # i => pc'[j] = pc[j]
    BY <1>5 DEF IInv, TypeOK, Execute, CheckExit
  <2> QED
    BY <2>1, <2>2, AccessRun
<1>6. ASSUME NEW i \in Cores, AfterRun(i) PROVE [CA!Next]_(CA!vars)
  <2>1. \A j \in Cores : (pc'[j] \in InGuest) = (pc[j] \in InGuest)
    BY <1>6 DEF IInv, TypeOK, AfterRun, InGuest
  <2> QED
    BY <1>6, <2>1, AccessStutter DEF AfterRun
<1>7. ASSUME NEW i \in Cores, SignalHalt(i) PROVE [CA!Next]_(CA!vars)
  <2>1. pc' = pc /\ state' = [state EXCEPT ![i] = "HALT_PENDING"]
    BY <1>7 DEF SignalHalt
  <2>2. CASE pc[i] \notin InGuest
    BY <2>1, <2>2, AccessPark DEF IInv, TypeOK
  <2>3. CASE pc[i] \in InGuest
    <3>1. state[i] \notin Parked
      BY <2>3 DEF IInv, TypeOK, CoreInv, InRun, Ordered, Parked, InGuest
    <3> QED
      BY <2>1, <3>1, AccessStutter DEF IInv, TypeOK, Parked
  <2> QED
    BY <2>2, <2>3
<1>8. ASSUME NEW i \in Cores, NEW s \in Hsm, AcceptHsm(i, s)
      PROVE  [CA!Next]_(CA!vars)
  <2>1. /\ pc' = pc /\ state' = [state EXCEPT ![i] = NextState(i, s)]
        /\ NextState(i, s) \notin Parked
    BY <1>8 DEF AcceptHsm, NextState, Hsm, Parked
  <2>2. CASE pc[i] \notin InGuest
    BY <2>1, <2>2, AccessPark DEF IInv, TypeOK
  <2>3. CASE pc[i] \in InGuest
    <3>1. state[i] \notin Parked
      BY <2>3 DEF IInv, TypeOK, CoreInv, InRun, Ordered, Parked, InGuest
    <3> QED
      BY <2>1, <3>1, AccessStutter DEF IInv, TypeOK
  <2> QED
    BY <2>2, <2>3
<1>9. ASSUME NEW i \in Cores, MainContinue(i) PROVE [CA!Next]_(CA!vars)
  <2>1. pc[i] \notin InGuest
    BY <1>9 DEF IInv, TypeOK, CoreInv, InRun, Ordered, MainContinue, InGuest
  <2>2. pc' = pc /\ \A j \in Cores : j # i => state'[j] = state[j]
    BY <1>9 DEF IInv, TypeOK, MainContinue, SignalContinue
  <2> QED
    BY <2>1, <2>2, AccessPark
<1>10. ASSUME NEW i \in Cores,
              \/ StepWait(i) \/ SpuriousWake(i) \/ MainStep(i)
              \/ ResetCore(i)
              \/ \E s \in Hsm : BufferHsm(i, s)
       PROVE  [CA!Next]_(CA!vars)
  <2>1. pc' = pc /\ state' = state
    BY <1>10 DEF StepWait, StepBlocks, StepAcked, StepDone, SpuriousWake,
       MainStep, SignalStep, BufferHsm, ResetCore
  <2> QED
    BY <2>1, AccessStutter
<1> QED
  BY <1>1, <1>2, <1>3, <1>4, <1>5, <1>6, <1>7, <1>8, <1>9, <1>10
     DEF Next, CoreStep, SignalHsm

\* cthread.c implements CoreAccess: executing a core and being invited to a
\* core from outside exclude each other at every step.
THEOREM CoreAccessRefinement == Spec => ImplementsCoreAccess
<1>1. Init => CA!Init
  BY DEF Init, CA!Init, running, parked, InGuest, Parked
<1>2. IInv /\ [Next]_vars => [CA!Next]_(CA!vars)
  BY AccessStep
<1> QED
  BY <1>1, <1>2, Invariance, PTL DEF Spec, CA!Spec, ImplementsCoreAccess

=============================================================================
