--------------------------- MODULE MachineProofs ---------------------------
(***************************************************************************)
(* Machine, for every number of harts and every guest: what the manager    *)
(* and the debugger's main thread can rely on, and what the core threads   *)
(* can.  The exit flags are kept apart, since vcore_init of a hart_start   *)
(* may clear one at the wrong moment: what rests on them is proved for     *)
(* guests that start each hart once (OneStart), and for the flag of a core *)
(* that is single-stepped if there is no ^C either (Undisturbed); the rest *)
(* for all guests.                                                         *)
(***************************************************************************)
EXTENDS Machine, TLAPS

Halting == {"HALTED", "HALT_PENDING"}

\* Each hart is started once at most: hart 0 by the boot, any other by one
\* hart_start of any hart, at any time.
OneStart == MaxStarts <= 1 /\ 0 \notin Startable

\* Nor does a ^C, answered before the cores are halted, let main step one core
\* while others still make calls.
Undisturbed == OneStart /\ MaxInterrupts = 0

(* The core threads.                                                       *)

Ordered(i, s) ==
    /\ signal[i] = s
    /\ \/ s = "STOPPED"   /\ state[i] = "STOP_PENDING"
       \/ s = "SUSPENDED" /\ state[i] = "SUSPEND_PENDING"
       \/ s = "HALTED"    /\ state[i] = "HALT_PENDING"

OrderedOff(i) == \E s \in {"STOPPED", "SUSPENDED", "HALTED"} : Ordered(i, s)

\* Between two rounds of cthread_fsm.
AtFsm(i) == pc[i] = "fsm" =>
    \/ state[i] = "HALTED" /\ signal[i] \in {"HALTED", "STEPPING"}
    \/ state[i] = "STEPPING" /\ signal[i] = "HALTED"
    \/ state[i] \in {"START_PENDING", "RESUME_PENDING"} /\ signal[i] = "STARTED"
    \/ state[i] = "CONTINUE_PENDING" /\ signal[i] \in Ct!Hsm
    \/ OrderedOff(i)

\* In cthread_wait_on_sign.
AtWait(i) == pc[i] = "wait" =>
    /\ serving[i] # "STARTED"
    /\ Undisturbed /\ serving[i] = "STEPPING" => exitLoop[i]
    /\ \/ state[i] = serving[i] /\ signal[i] = serving[i]
       \/ Ordered(i, "HALTED")
       \/ /\ serving[i] = "HALTED"
          /\ \/ state[i] = "HALTED" /\ signal[i] = "STEPPING"
             \/ state[i] = "CONTINUE_PENDING" /\ signal[i] \in Ct!Hsm
       \/ /\ serving[i] = "STEPPING"
          /\ state[i] = "STEPPING" /\ signal[i] = "HALTED"
       \/ /\ serving[i] = "STOPPED"
          /\ state[i] = "START_PENDING" /\ signal[i] = "STARTED"
       \/ /\ serving[i] = "SUSPENDED"
          /\ state[i] = "RESUME_PENDING" /\ signal[i] = "STARTED"

\* In vcore_run or just out of it.
InRun(i) == pc[i] \in {"run", "check", "left"} =>
    \/ /\ serving[i] = "STARTED"
       /\ \/ /\ state[i] = "STARTED" /\ signal[i] = "STARTED"
             /\ ~exitLoop[i] /\ pc[i] # "left"
          \/ OrderedOff(i) /\ (OneStart => exitLoop[i])
    \/ /\ serving[i] = "STEPPING"
       /\ Undisturbed => exitLoop[i]
       /\ \/ state[i] = "STEPPING" /\ signal[i] = "HALTED"
          \/ Ordered(i, "HALTED")

\* STEP stands only while the main thread waits for its acknowledgement, and is
\* served only while it waits for the core to be done.
StepOrder(i) ==
    /\ signal[i] = "STEPPING" => stepper[i] = "STEPPING"
    /\ pc[i] # "fsm" /\ serving[i] = "STEPPING" => stepper[i] # "idle"

CoreInv(i) == AtFsm(i) /\ AtWait(i) /\ InRun(i) /\ StepOrder(i)

CoresInv == /\ Ct!TypeOK
            /\ OneStart => crash = "none"
            /\ \A i \in Cores : CoreInv(i)

-----------------------------------------------------------------------------
(* The manager and the main thread.                                        *)

\* The main thread is in cthread_signal_step for one core at most.
Stepper == \A i \in Cores : stepper[i] # "idle" => mpc = "stepping" /\ target = i

\* A core makes its calls while it executes, main its only one after a ^C.
CallsOf(t) ==
    /\ t \in Cores /\ call[t] # "none" => pc[t] = "run"
    /\ call[t] \in {"reset", "start"} => arg[t] \in Startable
    /\ call[t] \in {"lock", "halting"} => debug
    /\ t = Main => /\ call[t] \in {"none", "lock", "halting", "done"}
                   /\ call[t] # "none" => mpc = "halting"
    /\ call[t] = "halting" => haltLock = t

\* What a thread that halts the cores has done so far.
HaltsOf(t) ==
    /\ call[t] = "halting" /\ (t = Main \/ interrupts = 0) =>
           \A i \in Cores : i < arg[t] => state[i] \in Halting
    /\ t = Main /\ call[t] = "done" => \A i \in Cores : state[i] \in Halting

\* The cores where main is.
Serves == {"stub", "step_all", "step_one", "step", "continue_one"}

Places ==
    /\ mpc \in {"boot", "spin"} <=> ~debug
    /\ mpc \in {"step_one", "step", "stepping", "continue_one"} => target \in Cores
    /\ mpc = "boot" => AllHalted
    /\ mpc = "stub" => \A i \in Cores : state[i] \in Halting
    /\ mpc \in Serves /\ interrupts = 0 => AllHalted
    /\ mpc = "stepping" /\ interrupts = 0 =>
           \A i \in Cores \ {target} : state[i] = "HALTED"
    /\ mpc = "continuing" => \A i \in Cores : i >= target => state[i] = "HALTED"
    /\ mpc = "continuing" => haltLock = Main
    /\ mpc = "halting" => interrupts > 0

\* The manager's exits need a ^C: only the stub's early return from
\* wait_for_halt can hand it cores that still run.
CrashTakesInterrupt == exited # "none" => interrupts > 0

MachineInv ==
        /\ MgrTypeOK /\ starts \in [Cores -> 0 .. MaxStarts]
        /\ CoresInv
        /\ Stepper
        /\ \A t \in Threads : CallsOf(t) /\ HaltsOf(t)
        /\ Places
        /\ CrashTakesInterrupt

(* The harts that are started.                                             *)

\* Hart t is between the state test and the signal of a hart_start.
Starting(t) == call[t] \in {"reset", "start"}

\* A hart that was never on: its thread has yet to see its first START.
NeverOn(j) == /\ oldSignal[j] = "STOPPED"
              /\ signal[j] # "STARTED"
              /\ pc[j] \in {"fsm", "wait"}

\* With one start for each, a hart stays untouched until it is signalled, and
\* one hart at most is about to do that.
StartsInv ==
    /\ \A j \in Cores \ {0} :
           starts[j] = 0 \/ (\E t \in Cores : Starting(t) /\ arg[t] = j)
               => NeverOn(j)
    /\ \A t \in Cores : Starting(t) => starts[arg[t]] > 0
    /\ \A t, u \in Cores : Starting(t) /\ Starting(u) /\ arg[t] = arg[u] => t = u

IInv == MachineInv /\ (OneStart => StartsInv)

-----------------------------------------------------------------------------
(* The core threads keep their part.                                       *)

\* A halted or halting core without a STEP order stays so.
Quiet ==
    /\ stepper' = stepper
    /\ \A j \in Cores : signal[j] # "STEPPING" =>
           /\ state[j] = "HALTED" => state'[j] = "HALTED"
           /\ state[j] \in Halting => state'[j] \in Halting

\* Core j looks the same before and after a step.
Same(j) ==
    /\ state'[j] = state[j] /\ signal'[j] = signal[j]
    /\ exitLoop'[j] = exitLoop[j] /\ pc'[j] = pc[j]
    /\ serving'[j] = serving[j] /\ stepper'[j] = stepper[j]

\* What a step leaves alone stays well.
LEMMA SameCore == ASSUME NEW j \in Cores, CoreInv(j), Same(j)
                  PROVE  CoreInv(j)'
  BY DEF CoreInv, AtFsm, AtWait, InRun, StepOrder, Ordered, OrderedOff, Same,
         OneStart, Undisturbed

\* Acknowledging STOP, HALT or SUSPEND parks a thread that is not executing.
LEMMA FsmParkKeeps ==
  ASSUME CoresInv, NEW i \in Cores, Ct!FsmPark(i) PROVE CoresInv' /\ Quiet
<1>1. Ct!TypeOK' /\ (OneStart => crash = "none")'
  BY DEF CoresInv, Ct!TypeOK, Ct!States, Ct!Signals, Ct!Pending, Ct!Hsm,
     CoreInv, AtFsm, AtWait, InRun, StepOrder, OrderedOff, Ordered, OneStart,
     Undisturbed, Ct!FsmPark, Ct!WaitOnSign, Ct!Parked
<1>2. CoreInv(i)'
  BY DEF CoresInv, Ct!TypeOK, Ct!States, Ct!Signals, Ct!Pending, Ct!Hsm,
     CoreInv, AtFsm, AtWait, InRun, StepOrder, OrderedOff, Ordered, OneStart,
     Undisturbed, Ct!FsmPark, Ct!WaitOnSign, Ct!Parked
<1>3. ASSUME NEW j \in Cores, j # i PROVE Same(j)
  BY <1>3 DEF CoresInv, Ct!TypeOK, Same, Ct!FsmPark, Ct!WaitOnSign, Ct!Parked
<1>4. /\ stepper' = stepper
      /\ signal[i] # "STEPPING" =>
             /\ state[i] = "HALTED" => state'[i] = "HALTED"
             /\ state[i] \in Halting => state'[i] \in Halting
  BY DEF CoresInv, Ct!TypeOK, Ct!States, Ct!Signals, Ct!Pending, Ct!Hsm,
     CoreInv, AtFsm, AtWait, InRun, StepOrder, OrderedOff, Ordered, OneStart,
     Undisturbed, Halting, Ct!FsmPark, Ct!WaitOnSign, Ct!Parked
<1> QED
  BY <1>1, <1>2, <1>3, <1>4, SameCore DEF CoresInv, Quiet, Same

\* Acknowledging STEP leaves HALTED: the one thing that does, by order of main.
LEMMA FsmStepKeeps ==
  ASSUME CoresInv, NEW i \in Cores, Ct!FsmStep(i) PROVE CoresInv' /\ Quiet
<1>1. Ct!TypeOK' /\ (OneStart => crash = "none")'
  BY DEF CoresInv, Ct!TypeOK, Ct!States, Ct!Signals, Ct!Pending, Ct!Hsm,
     CoreInv, AtFsm, AtWait, InRun, StepOrder, OrderedOff, Ordered, OneStart,
     Undisturbed, Ct!FsmStep, Ct!WaitOnSign
<1>2. CoreInv(i)'
  BY DEF CoresInv, Ct!TypeOK, Ct!States, Ct!Signals, Ct!Pending, Ct!Hsm,
     CoreInv, AtFsm, AtWait, InRun, StepOrder, OrderedOff, Ordered, OneStart,
     Undisturbed, Ct!FsmStep, Ct!WaitOnSign
<1>3. ASSUME NEW j \in Cores, j # i PROVE Same(j)
  BY <1>3 DEF CoresInv, Ct!TypeOK, Same, Ct!FsmStep, Ct!WaitOnSign
<1>4. /\ stepper' = stepper
      /\ signal[i] # "STEPPING" =>
             /\ state[i] = "HALTED" => state'[i] = "HALTED"
             /\ state[i] \in Halting => state'[i] \in Halting
  BY DEF CoresInv, Ct!TypeOK, Ct!States, Ct!Signals, Ct!Pending, Ct!Hsm,
     CoreInv, AtFsm, AtWait, InRun, StepOrder, OrderedOff, Ordered, OneStart,
     Undisturbed, Halting, Ct!FsmStep, Ct!WaitOnSign
<1> QED
  BY <1>1, <1>2, <1>3, <1>4, SameCore DEF CoresInv, Quiet, Same

\* A core that enters STARTED was not halted.
LEMMA FsmStartKeeps ==
  ASSUME CoresInv, NEW i \in Cores, Ct!FsmStart(i) PROVE CoresInv' /\ Quiet
<1>1. Ct!TypeOK' /\ (OneStart => crash = "none")'
  BY DEF CoresInv, Ct!TypeOK, Ct!States, Ct!Signals, Ct!Pending, Ct!Hsm,
     CoreInv, AtFsm, AtWait, InRun, StepOrder, OrderedOff, Ordered, OneStart,
     Undisturbed, Ct!FsmStart
<1>2. CoreInv(i)'
  BY DEF CoresInv, Ct!TypeOK, Ct!States, Ct!Signals, Ct!Pending, Ct!Hsm,
     CoreInv, AtFsm, AtWait, InRun, StepOrder, OrderedOff, Ordered, OneStart,
     Undisturbed, Ct!FsmStart
<1>3. ASSUME NEW j \in Cores, j # i PROVE Same(j)
  BY <1>3 DEF CoresInv, Ct!TypeOK, Same, Ct!FsmStart
<1>4. /\ stepper' = stepper
      /\ signal[i] # "STEPPING" =>
             /\ state[i] = "HALTED" => state'[i] = "HALTED"
             /\ state[i] \in Halting => state'[i] \in Halting
  BY DEF CoresInv, Ct!TypeOK, Ct!States, Ct!Signals, Ct!Pending, Ct!Hsm,
     CoreInv, AtFsm, AtWait, InRun, StepOrder, OrderedOff, Ordered, OneStart,
     Undisturbed, Halting, Ct!FsmStart
<1> QED
  BY <1>1, <1>2, <1>3, <1>4, SameCore DEF CoresInv, Quiet, Same

\* A thread woken for an order it already follows goes back to sleep.
LEMMA WakeToWaitKeeps ==
  ASSUME CoresInv, NEW i \in Cores, Ct!WakeToWait(i) PROVE CoresInv' /\ Quiet
<1>1. Ct!TypeOK' /\ (OneStart => crash = "none")'
  BY DEF CoresInv, Ct!TypeOK, Ct!States, Ct!Signals, Ct!Pending, Ct!Hsm,
     CoreInv, AtFsm, AtWait, InRun, StepOrder, OrderedOff, Ordered, OneStart,
     Undisturbed, Ct!WakeToWait, Ct!WaitOnSign
<1>2. CoreInv(i)'
  BY DEF CoresInv, Ct!TypeOK, Ct!States, Ct!Signals, Ct!Pending, Ct!Hsm,
     CoreInv, AtFsm, AtWait, InRun, StepOrder, OrderedOff, Ordered, OneStart,
     Undisturbed, Ct!WakeToWait, Ct!WaitOnSign
<1>3. ASSUME NEW j \in Cores, j # i PROVE Same(j)
  BY <1>3 DEF CoresInv, Ct!TypeOK, Same, Ct!WakeToWait, Ct!WaitOnSign
<1>4. /\ stepper' = stepper
      /\ signal[i] # "STEPPING" =>
             /\ state[i] = "HALTED" => state'[i] = "HALTED"
             /\ state[i] \in Halting => state'[i] \in Halting
  BY DEF CoresInv, Ct!TypeOK, Ct!States, Ct!Signals, Ct!Pending, Ct!Hsm,
     CoreInv, AtFsm, AtWait, InRun, StepOrder, OrderedOff, Ordered, OneStart,
     Undisturbed, Halting, Ct!WakeToWait, Ct!WaitOnSign
<1> QED
  BY <1>1, <1>2, <1>3, <1>4, SameCore DEF CoresInv, Quiet, Same

\* A thread woken by a new order leaves cthread_wait_on_sign.
LEMMA WakeToGoKeeps ==
  ASSUME CoresInv, NEW i \in Cores, Ct!WakeToGo(i) PROVE CoresInv' /\ Quiet
<1>1. Ct!TypeOK' /\ (OneStart => crash = "none")'
  BY DEF CoresInv, Ct!TypeOK, Ct!States, Ct!Signals, Ct!Pending, Ct!Hsm,
     CoreInv, AtFsm, AtWait, InRun, StepOrder, OrderedOff, Ordered, OneStart,
     Undisturbed, Ct!WakeToGo
<1>2. CoreInv(i)'
  BY DEF CoresInv, Ct!TypeOK, Ct!States, Ct!Signals, Ct!Pending, Ct!Hsm,
     CoreInv, AtFsm, AtWait, InRun, StepOrder, OrderedOff, Ordered, OneStart,
     Undisturbed, Ct!WakeToGo
<1>3. ASSUME NEW j \in Cores, j # i PROVE Same(j)
  BY <1>3 DEF CoresInv, Ct!TypeOK, Same, Ct!WakeToGo
<1>4. /\ stepper' = stepper
      /\ signal[i] # "STEPPING" =>
             /\ state[i] = "HALTED" => state'[i] = "HALTED"
             /\ state[i] \in Halting => state'[i] \in Halting
  BY DEF CoresInv, Ct!TypeOK, Ct!States, Ct!Signals, Ct!Pending, Ct!Hsm,
     CoreInv, AtFsm, AtWait, InRun, StepOrder, OrderedOff, Ordered, OneStart,
     Undisturbed, Halting, Ct!WakeToGo
<1> QED
  BY <1>1, <1>2, <1>3, <1>4, SameCore DEF CoresInv, Quiet, Same

\* An instruction moves nothing but the thread.
LEMMA ExecuteKeeps ==
  ASSUME CoresInv, NEW i \in Cores, Ct!Execute(i) PROVE CoresInv' /\ Quiet
<1>1. Ct!TypeOK' /\ (OneStart => crash = "none")'
  BY DEF CoresInv, Ct!TypeOK, Ct!States, Ct!Signals, Ct!Pending, Ct!Hsm,
     CoreInv, AtFsm, AtWait, InRun, StepOrder, OrderedOff, Ordered, OneStart,
     Undisturbed, Ct!Execute
<1>2. CoreInv(i)'
  BY DEF CoresInv, Ct!TypeOK, Ct!States, Ct!Signals, Ct!Pending, Ct!Hsm,
     CoreInv, AtFsm, AtWait, InRun, StepOrder, OrderedOff, Ordered, OneStart,
     Undisturbed, Ct!Execute
<1>3. ASSUME NEW j \in Cores, j # i PROVE Same(j)
  BY <1>3 DEF CoresInv, Ct!TypeOK, Same, Ct!Execute
<1>4. /\ stepper' = stepper
      /\ signal[i] # "STEPPING" =>
             /\ state[i] = "HALTED" => state'[i] = "HALTED"
             /\ state[i] \in Halting => state'[i] \in Halting
  BY DEF CoresInv, Ct!TypeOK, Ct!States, Ct!Signals, Ct!Pending, Ct!Hsm,
     CoreInv, AtFsm, AtWait, InRun, StepOrder, OrderedOff, Ordered, OneStart,
     Undisturbed, Halting, Ct!Execute
<1> QED
  BY <1>1, <1>2, <1>3, <1>4, SameCore DEF CoresInv, Quiet, Same

\* The hot loop is left only with the exit flag up.
LEMMA CheckExitKeeps ==
  ASSUME CoresInv, NEW i \in Cores, Ct!CheckExit(i) PROVE CoresInv' /\ Quiet
<1>1. Ct!TypeOK' /\ (OneStart => crash = "none")'
  BY DEF CoresInv, Ct!TypeOK, Ct!States, Ct!Signals, Ct!Pending, Ct!Hsm,
     CoreInv, AtFsm, AtWait, InRun, StepOrder, OrderedOff, Ordered, OneStart,
     Undisturbed, Ct!CheckExit
<1>2. CoreInv(i)'
  BY DEF CoresInv, Ct!TypeOK, Ct!States, Ct!Signals, Ct!Pending, Ct!Hsm,
     CoreInv, AtFsm, AtWait, InRun, StepOrder, OrderedOff, Ordered, OneStart,
     Undisturbed, Ct!CheckExit
<1>3. ASSUME NEW j \in Cores, j # i PROVE Same(j)
  BY <1>3 DEF CoresInv, Ct!TypeOK, Same, Ct!CheckExit
<1>4. /\ stepper' = stepper
      /\ signal[i] # "STEPPING" =>
             /\ state[i] = "HALTED" => state'[i] = "HALTED"
             /\ state[i] \in Halting => state'[i] \in Halting
  BY DEF CoresInv, Ct!TypeOK, Ct!States, Ct!Signals, Ct!Pending, Ct!Hsm,
     CoreInv, AtFsm, AtWait, InRun, StepOrder, OrderedOff, Ordered, OneStart,
     Undisturbed, Halting, Ct!CheckExit
<1> QED
  BY <1>1, <1>2, <1>3, <1>4, SameCore DEF CoresInv, Quiet, Same

\* The assertion behind vcore_run holds if nobody clears the flag.
LEMMA AfterRunKeeps ==
  ASSUME CoresInv, NEW i \in Cores, Ct!AfterRun(i) PROVE CoresInv' /\ Quiet
<1>1. Ct!TypeOK' /\ (OneStart => crash = "none")'
  BY DEF CoresInv, Ct!TypeOK, Ct!States, Ct!Signals, Ct!Pending, Ct!Hsm,
     CoreInv, AtFsm, AtWait, InRun, StepOrder, OrderedOff, Ordered, OneStart,
     Undisturbed, Ct!AfterRun
<1>2. CoreInv(i)'
  BY DEF CoresInv, Ct!TypeOK, Ct!States, Ct!Signals, Ct!Pending, Ct!Hsm,
     CoreInv, AtFsm, AtWait, InRun, StepOrder, OrderedOff, Ordered, OneStart,
     Undisturbed, Ct!AfterRun
<1>3. ASSUME NEW j \in Cores, j # i PROVE Same(j)
  BY <1>3 DEF CoresInv, Ct!TypeOK, Same, Ct!AfterRun
<1>4. /\ stepper' = stepper
      /\ signal[i] # "STEPPING" =>
             /\ state[i] = "HALTED" => state'[i] = "HALTED"
             /\ state[i] \in Halting => state'[i] \in Halting
  BY DEF CoresInv, Ct!TypeOK, Ct!States, Ct!Signals, Ct!Pending, Ct!Hsm,
     CoreInv, AtFsm, AtWait, InRun, StepOrder, OrderedOff, Ordered, OneStart,
     Undisturbed, Halting, Ct!AfterRun
<1> QED
  BY <1>1, <1>2, <1>3, <1>4, SameCore DEF CoresInv, Quiet, Same

\* A spurious wakeup harms nobody.
LEMMA SpuriousWakeKeeps ==
  ASSUME CoresInv, NEW i \in Cores, Ct!SpuriousWake(i) PROVE CoresInv' /\ Quiet
<1>1. Ct!TypeOK' /\ (OneStart => crash = "none")'
  BY DEF CoresInv, Ct!TypeOK, Ct!States, Ct!Signals, Ct!Pending, Ct!Hsm,
     CoreInv, AtFsm, AtWait, InRun, StepOrder, OrderedOff, Ordered, OneStart,
     Undisturbed, Ct!SpuriousWake
<1>2. CoreInv(i)'
  BY DEF CoresInv, Ct!TypeOK, Ct!States, Ct!Signals, Ct!Pending, Ct!Hsm,
     CoreInv, AtFsm, AtWait, InRun, StepOrder, OrderedOff, Ordered, OneStart,
     Undisturbed, Ct!SpuriousWake
<1>3. ASSUME NEW j \in Cores, j # i PROVE Same(j)
  BY <1>3 DEF CoresInv, Ct!TypeOK, Same, Ct!SpuriousWake
<1>4. /\ stepper' = stepper
      /\ signal[i] # "STEPPING" =>
             /\ state[i] = "HALTED" => state'[i] = "HALTED"
             /\ state[i] \in Halting => state'[i] \in Halting
  BY DEF CoresInv, Ct!TypeOK, Ct!States, Ct!Signals, Ct!Pending, Ct!Hsm,
     CoreInv, AtFsm, AtWait, InRun, StepOrder, OrderedOff, Ordered, OneStart,
     Undisturbed, Halting, Ct!SpuriousWake
<1> QED
  BY <1>1, <1>2, <1>3, <1>4, SameCore DEF CoresInv, Quiet, Same

\* A halt can overtake any other order.
LEMMA SignalHaltKeeps ==
  ASSUME CoresInv, NEW i \in Cores, Ct!SignalHalt(i) PROVE CoresInv' /\ Quiet
<1>1. Ct!TypeOK' /\ (OneStart => crash = "none")'
  BY DEF CoresInv, Ct!TypeOK, Ct!States, Ct!Signals, Ct!Pending, Ct!Hsm,
     CoreInv, AtFsm, AtWait, InRun, StepOrder, OrderedOff, Ordered, OneStart,
     Undisturbed, Ct!SignalHalt
<1>2. CoreInv(i)'
  BY DEF CoresInv, Ct!TypeOK, Ct!States, Ct!Signals, Ct!Pending, Ct!Hsm,
     CoreInv, AtFsm, AtWait, InRun, StepOrder, OrderedOff, Ordered, OneStart,
     Undisturbed, Ct!SignalHalt
<1>3. ASSUME NEW j \in Cores, j # i PROVE Same(j)
  BY <1>3 DEF CoresInv, Ct!TypeOK, Same, Ct!SignalHalt
<1>4. /\ stepper' = stepper
      /\ signal[i] # "STEPPING" =>
             /\ state[i] = "HALTED" => state'[i] = "HALTED"
             /\ state[i] \in Halting => state'[i] \in Halting
  BY DEF CoresInv, Ct!TypeOK, Ct!States, Ct!Signals, Ct!Pending, Ct!Hsm,
     CoreInv, AtFsm, AtWait, InRun, StepOrder, OrderedOff, Ordered, OneStart,
     Undisturbed, Halting, Ct!SignalHalt
<1> QED
  BY <1>1, <1>2, <1>3, <1>4, SameCore DEF CoresInv, Quiet, Same

\* A buffered HSM order disturbs nothing but old_signal.
LEMMA BufferHsmKeeps ==
  ASSUME CoresInv, NEW i \in Cores, NEW s \in Ct!Hsm, Ct!BufferHsm(i, s)
  PROVE  CoresInv' /\ Quiet
<1>1. Ct!TypeOK' /\ (OneStart => crash = "none")'
  BY DEF CoresInv, Ct!TypeOK, Ct!States, Ct!Signals, Ct!Pending, Ct!Hsm,
     CoreInv, AtFsm, AtWait, InRun, StepOrder, OrderedOff, Ordered, OneStart,
     Undisturbed, Ct!BufferHsm
<1>2. CoreInv(i)'
  BY DEF CoresInv, Ct!TypeOK, Ct!States, Ct!Signals, Ct!Pending, Ct!Hsm,
     CoreInv, AtFsm, AtWait, InRun, StepOrder, OrderedOff, Ordered, OneStart,
     Undisturbed, Ct!BufferHsm
<1>3. ASSUME NEW j \in Cores, j # i PROVE Same(j)
  BY <1>3 DEF CoresInv, Ct!TypeOK, Same, Ct!BufferHsm
<1>4. /\ stepper' = stepper
      /\ signal[i] # "STEPPING" =>
             /\ state[i] = "HALTED" => state'[i] = "HALTED"
             /\ state[i] \in Halting => state'[i] \in Halting
  BY DEF CoresInv, Ct!TypeOK, Ct!States, Ct!Signals, Ct!Pending, Ct!Hsm,
     CoreInv, AtFsm, AtWait, InRun, StepOrder, OrderedOff, Ordered, OneStart,
     Undisturbed, Halting, Ct!BufferHsm
<1> QED
  BY <1>1, <1>2, <1>3, <1>4, SameCore DEF CoresInv, Quiet, Same

\* The main thread blocks again in cthread_signal_step.
LEMMA StepBlocksKeeps ==
  ASSUME CoresInv, NEW i \in Cores, Ct!StepBlocks(i) PROVE CoresInv' /\ Quiet
<1>1. Ct!TypeOK' /\ (OneStart => crash = "none")'
  BY DEF CoresInv, Ct!TypeOK, Ct!States, Ct!Signals, Ct!Pending, Ct!Hsm,
     CoreInv, AtFsm, AtWait, InRun, StepOrder, OrderedOff, Ordered, OneStart,
     Undisturbed, Ct!StepBlocks
<1>2. CoreInv(i)'
  BY DEF CoresInv, Ct!TypeOK, Ct!States, Ct!Signals, Ct!Pending, Ct!Hsm,
     CoreInv, AtFsm, AtWait, InRun, StepOrder, OrderedOff, Ordered, OneStart,
     Undisturbed, Ct!StepBlocks
<1>3. ASSUME NEW j \in Cores, j # i PROVE Same(j)
  BY <1>3 DEF CoresInv, Ct!TypeOK, Same, Ct!StepBlocks
<1>4. /\ stepper' = stepper
      /\ signal[i] # "STEPPING" =>
             /\ state[i] = "HALTED" => state'[i] = "HALTED"
             /\ state[i] \in Halting => state'[i] \in Halting
  BY DEF CoresInv, Ct!TypeOK, Ct!States, Ct!Signals, Ct!Pending, Ct!Hsm,
     CoreInv, AtFsm, AtWait, InRun, StepOrder, OrderedOff, Ordered, OneStart,
     Undisturbed, Halting, Ct!StepBlocks
<1> QED
  BY <1>1, <1>2, <1>3, <1>4, SameCore DEF CoresInv, Quiet, Same

\* A step that is done leaves no STEP order behind.
LEMMA StepDoneKeeps ==
  ASSUME CoresInv, NEW i \in Cores, Ct!StepDone(i) PROVE CoresInv'
<1>1. Ct!TypeOK' /\ (OneStart => crash = "none")'
  BY DEF CoresInv, Ct!TypeOK, Ct!States, Ct!Signals, Ct!Pending, Ct!Hsm,
     CoreInv, AtFsm, AtWait, InRun, StepOrder, OrderedOff, Ordered, OneStart,
     Undisturbed, Ct!StepDone
<1>2. CoreInv(i)'
  BY DEF CoresInv, Ct!TypeOK, Ct!States, Ct!Signals, Ct!Pending, Ct!Hsm,
     CoreInv, AtFsm, AtWait, InRun, StepOrder, OrderedOff, Ordered, OneStart,
     Undisturbed, Ct!StepDone
<1>3. ASSUME NEW j \in Cores, j # i PROVE Same(j)
  BY <1>3 DEF CoresInv, Ct!TypeOK, Same, Ct!StepDone
<1> QED
  BY <1>1, <1>2, <1>3, SameCore DEF CoresInv

\* The main thread lets a core step that has acknowledged STEP.
LEMMA StepAckedKeeps ==
  ASSUME CoresInv, NEW i \in Cores, Ct!StepAcked(i) PROVE CoresInv'
<1>1. Ct!TypeOK' /\ (OneStart => crash = "none")'
  BY DEF CoresInv, Ct!TypeOK, Ct!States, Ct!Signals, Ct!Pending, Ct!Hsm,
     CoreInv, AtFsm, AtWait, InRun, StepOrder, OrderedOff, Ordered, OneStart,
     Undisturbed, Ct!StepAcked
<1>2. CoreInv(i)'
  BY DEF CoresInv, Ct!TypeOK, Ct!States, Ct!Signals, Ct!Pending, Ct!Hsm,
     CoreInv, AtFsm, AtWait, InRun, StepOrder, OrderedOff, Ordered, OneStart,
     Undisturbed, Ct!StepAcked
<1>3. ASSUME NEW j \in Cores, j # i PROVE Same(j)
  BY <1>3 DEF CoresInv, Ct!TypeOK, Same, Ct!StepAcked
<1> QED
  BY <1>1, <1>2, <1>3, SameCore DEF CoresInv

\* An HSM order is accepted only where the core can follow it, which is not
\* while it is halted.
LEMMA AcceptHsmKeeps ==
  ASSUME CoresInv, NEW i \in Cores, NEW s \in Ct!Hsm, Ct!AcceptHsm(i, s)
  PROVE  CoresInv' /\ Quiet
<1>1. Ct!TypeOK' /\ (OneStart => crash = "none")'
  BY DEF CoresInv, Ct!TypeOK, Ct!States, Ct!Signals, Ct!Pending, Ct!Hsm,
     OneStart, Undisturbed, Ct!AcceptHsm, Ct!NextState
<1>2. /\ state[i] \in {"STARTED", "STOPPED", "SUSPENDED"} /\ pc[i] # "fsm"
      /\ state[i] = "STARTED" <=> s # "STARTED"
  BY DEF CoresInv, Ct!TypeOK, CoreInv, AtFsm, OrderedOff, Ordered,
     Ct!AcceptHsm, Ct!Accepts, Ct!Hsm
<1>3. CoreInv(i)'
  <2>1. /\ signal'[i] = s /\ state'[i] = Ct!NextState(i, s)
        /\ exitLoop'[i] = (s # "STARTED")
        /\ UNCHANGED <<pc, serving, stepper>>
    BY DEF CoresInv, Ct!TypeOK, Ct!AcceptHsm
  <2>2. CASE s = "STARTED"
    BY <1>2, <2>1, <2>2 DEF CoresInv, Ct!TypeOK, CoreInv, AtFsm, AtWait, InRun,
       StepOrder, OrderedOff, Ordered, OneStart, Undisturbed, Ct!NextState
  <2>3. CASE s \in {"STOPPED", "SUSPENDED"}
    BY <1>2, <2>1, <2>3 DEF CoresInv, Ct!TypeOK, CoreInv, AtFsm, AtWait, InRun,
       StepOrder, OrderedOff, Ordered, OneStart, Undisturbed, Ct!NextState
  <2> QED
    BY <2>2, <2>3 DEF Ct!Hsm
<1>4. ASSUME NEW j \in Cores, j # i PROVE Same(j)
  BY <1>4 DEF CoresInv, Ct!TypeOK, Same, Ct!AcceptHsm
<1> QED
  BY <1>1, <1>2, <1>3, <1>4, SameCore DEF CoresInv, Quiet, Same, Halting,
     Ct!AcceptHsm

\* The core threads do not move.
LEMMA RestKeeps == ASSUME CoresInv, UNCHANGED ctVars PROVE CoresInv' /\ Quiet
<1>1. Ct!TypeOK' /\ (OneStart => crash = "none")'
  BY DEF CoresInv, ctVars, Ct!TypeOK, OneStart, Undisturbed
<1>2. ASSUME NEW j \in Cores PROVE Same(j)
  BY DEF ctVars, Same
<1> QED
  BY <1>1, <1>2, SameCore DEF CoresInv, Quiet, ctVars

\* One cthread_signal_start, _stop or _suspend.
LEMMA OrderKeeps ==
  ASSUME CoresInv, NEW i \in Cores, NEW s \in Ct!Hsm, Order(i, s)
  PROVE  CoresInv' /\ Quiet
  BY AcceptHsmKeeps, BufferHsmKeeps, RestKeeps DEF Order, Ct!SignalHsm

\* Main resumes a core that is halted, with the order that was held back.
LEMMA ContinueKeeps ==
  ASSUME CoresInv, NEW i \in Cores, state[i] = "HALTED", stepper[i] = "idle",
         Ct!SignalContinue(i)
  PROVE  /\ CoresInv'
         /\ stepper' = stepper /\ pc' = pc
         /\ \A j \in Cores \ {i} : state'[j] = state[j]
<1>1. oldSignal[i] \in Ct!Hsm /\ oldSignal[i] \notin {"HALTED", "STEPPING"}
  BY DEF CoresInv, Ct!TypeOK, Ct!Hsm
<1>2. /\ signal' = [signal EXCEPT ![i] = oldSignal[i]]
      /\ exitLoop' = [exitLoop EXCEPT ![i] = (oldSignal[i] # "STARTED")]
      /\ state' = [state EXCEPT ![i] = "CONTINUE_PENDING"]
      /\ onSignal' = onSignal \ {i}
      /\ UNCHANGED <<crash, oldSignal, pc, serving, stepper, onState>>
  BY <1>1 DEF Ct!SignalContinue
<1>3. Ct!TypeOK' /\ (OneStart => crash = "none")'
  BY <1>1, <1>2 DEF CoresInv, Ct!TypeOK, Ct!States, Ct!Signals, Ct!Pending,
     OneStart, Undisturbed
<1>4. /\ pc[i] \in {"fsm", "wait"}
      /\ pc[i] = "wait" => serving[i] = "HALTED"
  BY DEF CoresInv, Ct!TypeOK, CoreInv, InRun, AtWait, OrderedOff, Ordered
<1>5. CoreInv(i)'
  BY <1>1, <1>2, <1>4 DEF CoresInv, Ct!TypeOK, CoreInv, AtFsm, AtWait, InRun,
     StepOrder, Ct!Hsm
<1>6. ASSUME NEW j \in Cores, j # i PROVE Same(j)
  BY <1>2, <1>6 DEF CoresInv, Ct!TypeOK, Same
<1> QED
  BY <1>2, <1>3, <1>5, <1>6, SameCore DEF CoresInv, Same

\* Main steps a core that is halted.
LEMMA StepKeeps ==
  ASSUME CoresInv, NEW i \in Cores, state[i] = "HALTED", Ct!SignalStep(i)
  PROVE  /\ CoresInv'
         /\ stepper' = [stepper EXCEPT ![i] = "STEPPING"]
         /\ pc' = pc /\ state' = state
<1>1. /\ signal' = [signal EXCEPT ![i] = "STEPPING"]
      /\ exitLoop' = [exitLoop EXCEPT ![i] = TRUE]
      /\ onSignal' = onSignal \ {i}
      /\ stepper' = [stepper EXCEPT ![i] = "STEPPING"]
      /\ onState' = onState \cup {i}
      /\ UNCHANGED <<crash, state, oldSignal, pc, serving>>
  BY DEF Ct!SignalStep
<1>2. Ct!TypeOK' /\ (OneStart => crash = "none")'
  BY <1>1 DEF CoresInv, Ct!TypeOK, Ct!Signals, OneStart, Undisturbed
<1>3. /\ pc[i] \in {"fsm", "wait"}
      /\ pc[i] = "wait" => serving[i] = "HALTED"
  BY DEF CoresInv, Ct!TypeOK, CoreInv, InRun, AtWait, OrderedOff, Ordered
<1>4. CoreInv(i)'
  BY <1>1, <1>3 DEF CoresInv, Ct!TypeOK, CoreInv, AtFsm, AtWait, InRun,
     StepOrder
<1>5. ASSUME NEW j \in Cores, j # i PROVE Same(j)
  BY <1>1, <1>5 DEF CoresInv, Ct!TypeOK, Same
<1> QED
  BY <1>1, <1>2, <1>4, <1>5, SameCore DEF CoresInv

-----------------------------------------------------------------------------
(* Every thread keeps the invariant.                                       *)

LEMMA ThreadsAre == /\ \A t \in Threads : t \in Cores <=> t # Main
                    /\ Cores \subseteq Threads /\ Main \in Threads
                    /\ Main \notin Cores /\ Free \notin Threads
                    /\ N \in Nat \ {0}
  BY ManagerAssumption DEF Threads, Cores, Main, Free

\* While a thread halts the cores, no STEP order stands: main is not stepping,
\* or steps the core that halts, which has begun to execute.
LEMMA NoStepOrder ==
  ASSUME MachineInv, NEW t \in Threads,
         \/ call[t] = "halting" /\ (t = Main \/ interrupts = 0)
         \/ call[t] = "done" /\ t = Main
  PROVE  \A i \in Cores : signal[i] # "STEPPING"
<1> SUFFICES ASSUME NEW i \in Cores, signal[i] = "STEPPING" PROVE FALSE
  OBVIOUS
<1>1. stepper[i] = "STEPPING" /\ mpc = "stepping" /\ target = i
  BY DEF MachineInv, CoresInv, CoreInv, StepOrder, Stepper
<1>2. t \in Cores /\ interrupts = 0 /\ pc[t] = "run"
  BY <1>1, ThreadsAre DEF MachineInv, CallsOf
<1>3. t = i
  BY <1>1, <1>2 DEF MachineInv, Places, CoresInv, CoreInv, InRun, OrderedOff, Ordered
<1> QED
  BY <1>2, <1>3 DEF MachineInv, CoresInv, CoreInv, InRun, OrderedOff, Ordered

\* A step of thread t that neither moves main's place nor resumes a core.
LEMMA ThreadKeeps ==
  ASSUME MachineInv, CoresInv', Quiet, MgrTypeOK',
         (starts \in [Cores -> 0 .. MaxStarts])',
         UNCHANGED <<debug, mpc, target, cmd, interrupts, exited>>,
         NEW t \in Threads, t = Main => mpc = "halting" \/ haltLock' = haltLock,
         \A u \in Threads \ {t} :
             /\ call'[u] = call[u] /\ arg'[u] = arg[u]
             /\ haltLock = u => haltLock' = u,
         \A j \in Cores \ {t} : pc'[j] = pc[j],
         CallsOf(t)', HaltsOf(t)'
  PROVE  MachineInv'
<1>1. \A j \in Cores : signal[j] = "STEPPING" => mpc = "stepping" /\ target = j
  BY DEF MachineInv, CoresInv, CoreInv, StepOrder, Stepper
<1>2. Stepper'
  BY DEF MachineInv, Stepper, Quiet
<1>3. ASSUME NEW u \in Threads \ {t} PROVE (CallsOf(u) /\ HaltsOf(u))'
  <2>1. CallsOf(u)'
    BY <1>3 DEF MachineInv, CallsOf
  <2>2. HaltsOf(u)'
    BY <1>3, NoStepOrder DEF MachineInv, HaltsOf, Quiet
  <2> QED
    BY <2>1, <2>2
<1>4. Places'
  <2>1. mpc # "stepping" => \A j \in Cores : signal[j] # "STEPPING"
    BY <1>1
  <2>2. mpc = "boot" \/ (mpc \in Serves /\ interrupts = 0) => AllHalted'
    BY <2>1 DEF MachineInv, Places, Serves, AllHalted, Quiet
  <2>3. mpc = "stub" => \A i \in Cores : state'[i] \in Halting
    BY <2>1 DEF MachineInv, Places, Quiet
  <2>4. mpc = "stepping" /\ interrupts = 0 =>
            \A i \in Cores \ {target} : state'[i] = "HALTED"
    BY <1>1 DEF MachineInv, Places, Quiet
  <2>5. mpc = "continuing" =>
            \A i \in Cores : i >= target => state'[i] = "HALTED"
    BY <2>1 DEF MachineInv, Places, Quiet
  <2>6. mpc = "continuing" => haltLock' = Main
    BY ThreadsAre DEF MachineInv, Places
  <2> QED
    BY <2>2, <2>3, <2>4, <2>5, <2>6 DEF MachineInv, Places
<1>5. CrashTakesInterrupt'
  BY DEF MachineInv, CrashTakesInterrupt
<1> QED
  BY <1>2, <1>3, <1>4, <1>5 DEF MachineInv

\* cthread_fsm is not in a call: those are made from vcore_run.
LEMMA FollowOrdersKeeps ==
  ASSUME MachineInv, NEW i \in Cores, FollowOrders(i), UNCHANGED starts
  PROVE  MachineInv'
<1>1. CoresInv' /\ Quiet
  BY FsmParkKeeps, FsmStepKeeps, FsmStartKeeps, WakeToWaitKeeps, WakeToGoKeeps,
     CheckExitKeeps, AfterRunKeeps DEF MachineInv, FollowOrders
<1>2. pc[i] # "run" /\ \A j \in Cores \ {i} : pc'[j] = pc[j]
  BY DEF MachineInv, CoresInv, Ct!TypeOK, FollowOrders, Ct!FsmPark, Ct!FsmStep,
     Ct!FsmStart, Ct!WakeToWait, Ct!WakeToGo, Ct!CheckExit, Ct!AfterRun,
     Ct!WaitOnSign
<1>3. UNCHANGED mgrVars
  BY DEF FollowOrders
<1>4. MgrTypeOK' /\ (starts \in [Cores -> 0 .. MaxStarts])'
  BY <1>3 DEF MachineInv, MgrTypeOK, mgrVars
<1>5. CallsOf(i)' /\ HaltsOf(i)'
  BY <1>2, <1>3, ThreadsAre DEF MachineInv, CallsOf, HaltsOf, mgrVars
<1> QED
  BY <1>1, <1>2, <1>3, <1>4, <1>5, ThreadsAre, ThreadKeeps DEF mgrVars

\* An instruction ends the call it made.
LEMMA ExecutesKeeps ==
  ASSUME MachineInv, NEW i \in Cores, Execute(i), UNCHANGED starts
  PROVE  MachineInv'
<1>1. CoresInv' /\ Quiet
  BY ExecuteKeeps DEF MachineInv, Execute
<1>2. \A j \in Cores \ {i} : pc'[j] = pc[j]
  BY DEF MachineInv, CoresInv, Ct!TypeOK, Execute, Ct!Execute
<1>3. MgrTypeOK' /\ (starts \in [Cores -> 0 .. MaxStarts])'
  BY DEF MachineInv, MgrTypeOK, Execute
<1>4. /\ call'[i] = "none"
      /\ \A u \in Threads \ {i} : call'[u] = call[u]
  BY ThreadsAre DEF MachineInv, MgrTypeOK, Execute
<1>5. CallsOf(i)' /\ HaltsOf(i)'
  BY <1>4, ThreadsAre DEF CallsOf, HaltsOf
<1> QED
  BY <1>1, <1>2, <1>3, <1>4, <1>5, ThreadsAre, ThreadKeeps DEF Execute

\* An EBREAK begins to halt the cores.
LEMMA EbreakKeeps ==
  ASSUME MachineInv, NEW i \in Cores, Ebreak(i), UNCHANGED starts
  PROVE  MachineInv'
<1>1. CoresInv' /\ Quiet /\ pc' = pc
  BY RestKeeps DEF MachineInv, Ebreak, ctVars
<1>2. MgrTypeOK' /\ (starts \in [Cores -> 0 .. MaxStarts])'
  BY ThreadsAre DEF MachineInv, MgrTypeOK, Ebreak
<1>3. /\ call'[i] = "lock"
      /\ \A u \in Threads \ {i} : call'[u] = call[u]
  BY ThreadsAre DEF MachineInv, MgrTypeOK, Ebreak
<1>4. CallsOf(i)' /\ HaltsOf(i)'
  BY <1>1, <1>3, ThreadsAre DEF CallsOf, HaltsOf, Ebreak
<1> QED
  BY <1>1, <1>2, <1>3, <1>4, ThreadsAre, ThreadKeeps DEF Ebreak

\* The loop of threads_mgr_halt_cores, whoever runs it.
LEMMA HaltCoresKeeps ==
  ASSUME MachineInv, NEW t \in Threads, HaltCores(t), UNCHANGED starts
  PROVE  MachineInv'
<1>1. /\ call[t] \in {"lock", "halting"} /\ debug
      /\ t \in Cores => pc[t] = "run"
      /\ t = Main => mpc = "halting"
  BY DEF MachineInv, CallsOf, HaltCores, HaltLock, HaltNext, HaltUnlock
<1>2. CASE HaltLock(t)
  <2>1. CoresInv' /\ Quiet /\ pc' = pc
    BY <1>2, RestKeeps DEF MachineInv, HaltLock, ctVars
  <2>2. MgrTypeOK' /\ (starts \in [Cores -> 0 .. MaxStarts])'
    BY <1>2, ThreadsAre DEF MachineInv, MgrTypeOK, HaltLock
  <2>3. /\ call'[t] = "halting" /\ arg'[t] = 0 /\ haltLock' = t
        /\ \A u \in Threads \ {t} : call'[u] = call[u] /\ arg'[u] = arg[u]
        /\ haltLock = Free
    BY <1>2 DEF MachineInv, MgrTypeOK, HaltLock
  <2>4. CallsOf(t)' /\ HaltsOf(t)'
    BY <1>1, <1>2, <2>1, <2>3, ThreadsAre DEF CallsOf, HaltsOf, HaltLock, Cores
  <2> QED
    BY <1>1, <1>2, <2>1, <2>2, <2>3, <2>4, ThreadsAre, ThreadKeeps DEF HaltLock
<1>3. CASE HaltNext(t)
  <2>1. arg[t] \in Cores /\ arg[t] \in Nat
    BY <1>3, ThreadsAre DEF MachineInv, MgrTypeOK, HaltNext, Cores
  <2>2. /\ CoresInv' /\ Quiet /\ pc' = pc
        /\ state'[arg[t]] \in Halting
    BY <1>3, <2>1, RestKeeps, SignalHaltKeeps
       DEF MachineInv, HaltNext, ctVars, Halting, Ct!SignalHalt, CoresInv,
       Ct!TypeOK
  <2>3. /\ call' = call /\ arg'[t] = arg[t] + 1 /\ haltLock' = haltLock
        /\ \A u \in Threads \ {t} : arg'[u] = arg[u]
    BY <1>3 DEF MachineInv, MgrTypeOK, HaltNext
  <2>4. MgrTypeOK' /\ (starts \in [Cores -> 0 .. MaxStarts])'
    BY <1>3, <2>1, ThreadsAre DEF MachineInv, MgrTypeOK, HaltNext, Cores
  <2>5. CallsOf(t)'
    BY <1>1, <1>3, <2>2, <2>3 DEF MachineInv, CallsOf, HaltNext
  <2>6. HaltsOf(t)'
    <3> SUFFICES ASSUME t = Main \/ interrupts = 0, NEW i \in Cores,
                        i < arg[t] + 1
                 PROVE  state'[i] \in Halting
      BY <1>3, <2>3 DEF HaltsOf, HaltNext
    <3>1. CASE i = arg[t]
      BY <2>2, <3>1
    <3>2. CASE i < arg[t]
      BY <1>3, <2>2, <3>2, NoStepOrder DEF MachineInv, HaltsOf, HaltNext, Quiet
    <3> QED
      BY <2>1, <3>1, <3>2 DEF Cores
  <2> QED
    BY <1>1, <1>3, <2>2, <2>3, <2>4, <2>5, <2>6, ThreadKeeps DEF HaltNext
<1>4. CASE HaltUnlock(t)
  <2>1. CoresInv' /\ Quiet /\ UNCHANGED <<pc, state>>
    BY <1>4, RestKeeps DEF MachineInv, HaltUnlock, ctVars
  <2>2. MgrTypeOK' /\ (starts \in [Cores -> 0 .. MaxStarts])'
    BY <1>4, ThreadsAre DEF MachineInv, MgrTypeOK, HaltUnlock
  <2>3. /\ call'[t] = "done" /\ haltLock = t
        /\ \A u \in Threads \ {t} : call'[u] = call[u] /\ arg'[u] = arg[u]
    BY <1>4 DEF MachineInv, MgrTypeOK, HaltUnlock, CallsOf
  <2>4. t = Main => \A i \in Cores : state[i] \in Halting
    BY <1>4, ThreadsAre DEF MachineInv, HaltsOf, HaltUnlock, Cores
  <2>5. CallsOf(t)' /\ HaltsOf(t)'
    BY <1>1, <1>4, <2>1, <2>3, <2>4 DEF CallsOf, HaltsOf, HaltUnlock
  <2> QED
    BY <1>1, <1>4, <2>1, <2>2, <2>3, <2>5, ThreadKeeps DEF HaltUnlock
<1> QED
  BY <1>2, <1>3, <1>4 DEF HaltCores

\* The three steps of hart_start; the second one clears an exit flag.
LEMMA HartStartKeeps ==
  ASSUME MachineInv, NEW i \in Starters, NEW j \in Startable, HartStart(i, j)
  PROVE  MachineInv'
<1>1. i \in Cores /\ j \in Cores
  BY GuestAssumption
<1>2. CoresInv' /\ Quiet /\ pc' = pc
  BY RestKeeps DEF MachineInv, HartStart, ctVars
<1>3. MgrTypeOK' /\ (starts \in [Cores -> 0 .. MaxStarts])'
  <2>1. MgrTypeOK'
    BY <1>1, ThreadsAre DEF MachineInv, MgrTypeOK, HartStart, Cores
  <2>2. (starts \in [Cores -> 0 .. MaxStarts])'
    BY GuestAssumption DEF MachineInv, HartStart
  <2> QED
    BY <2>1, <2>2
<1>4. /\ call'[i] = "reset" /\ arg'[i] = j
      /\ \A u \in Threads \ {i} : call'[u] = call[u] /\ arg'[u] = arg[u]
  BY <1>1, ThreadsAre DEF MachineInv, MgrTypeOK, HartStart
<1>5. CallsOf(i)' /\ HaltsOf(i)'
  BY <1>1, <1>2, <1>4, ThreadsAre DEF CallsOf, HaltsOf, HartStart
<1> QED
  BY <1>1, <1>2, <1>3, <1>4, <1>5, ThreadsAre, ThreadKeeps DEF HartStart

\* A hart that was never on is not the one main steps while another executes:
\* vcore_init meets it idle.
LEMMA ResetMeetsIdle ==
  ASSUME IInv, NEW i \in Cores, OneStart, call[i] = "reset"
  PROVE  /\ arg[i] \in Cores /\ NeverOn(arg[i])
         /\ Undisturbed => Ct!Idle(arg[i])
<1> DEFINE j == arg[i]
<1>1. j \in Cores /\ j # 0 /\ NeverOn(j)
  BY GuestAssumption, ThreadsAre
     DEF IInv, MachineInv, CallsOf, OneStart, StartsInv, Starting
<1>2. ASSUME Undisturbed, pc[j] = "wait", serving[j] = "STEPPING" PROVE FALSE
  <2>1. mpc = "stepping" /\ target = j /\ interrupts = 0
    BY <1>1, <1>2 DEF IInv, MachineInv, MgrTypeOK, CoresInv, CoreInv, StepOrder,
       Stepper, Undisturbed
  <2>2. pc[i] = "run"
    BY ThreadsAre DEF IInv, MachineInv, CallsOf
  <2>3. state[i] = "HALTED"
    BY <1>2, <2>1, <2>2 DEF IInv, MachineInv, Places
  <2> QED
    BY <2>2, <2>3 DEF IInv, MachineInv, CoresInv, CoreInv, InRun, OrderedOff, Ordered
<1> QED
  BY <1>1, <1>2 DEF NeverOn, Ct!Idle

LEMMA HartStartResetKeeps ==
  ASSUME IInv, NEW i \in Cores, HartStartReset(i), UNCHANGED starts
  PROVE  MachineInv'
<1> USE DEF IInv
<1>1. arg[i] \in Cores /\ pc[i] = "run" /\ call[i] = "reset"
  BY ThreadsAre, GuestAssumption DEF MachineInv, CallsOf, HartStartReset
<1>2. CoresInv'
  <2>1. Ct!TypeOK'
    BY <1>1 DEF MachineInv, CoresInv, Ct!TypeOK, HartStartReset
  <2>2. ASSUME NEW j \in Cores, j = arg[i] PROVE CoreInv(j)'
    <3>1. /\ UNCHANGED <<state, signal, pc, serving, stepper>>
          /\ ~exitLoop'[j] /\ CoreInv(j)
      BY <2>2 DEF MachineInv, CoresInv, Ct!TypeOK, HartStartReset
    <3>2. OneStart => pc[j] \in {"fsm", "wait"}
      BY <1>1, <2>2, ResetMeetsIdle DEF NeverOn
    <3>3. Undisturbed /\ pc[j] = "wait" => serving[j] # "STEPPING"
      BY <1>1, <2>2, ResetMeetsIdle DEF Ct!Idle, Undisturbed
    <3>4. InRun(j)'
      BY <3>1, <3>2 DEF CoreInv, InRun, OrderedOff, Ordered, OneStart,
      Undisturbed
    <3>5. AtWait(j)'
      BY <3>1, <3>3 DEF CoreInv, AtWait, Ordered, OneStart, Undisturbed
    <3>6. AtFsm(j)' /\ StepOrder(j)'
      BY <3>1 DEF CoreInv, AtFsm, StepOrder, OrderedOff, Ordered
    <3> QED
      BY <3>4, <3>5, <3>6 DEF CoreInv
  <2>3. ASSUME NEW j \in Cores, j # arg[i] PROVE CoreInv(j)'
    <3>1. Same(j)
      BY <1>1, <2>3 DEF MachineInv, CoresInv, Ct!TypeOK, Same, HartStartReset
    <3> QED
      BY <3>1, SameCore DEF MachineInv, CoresInv
  <2>4. (OneStart => crash = "none")'
    BY DEF MachineInv, CoresInv, OneStart, HartStartReset
  <2> QED
    BY <2>1, <2>2, <2>3, <2>4 DEF CoresInv
<1>3. Quiet /\ pc' = pc
  BY DEF Quiet, HartStartReset
<1>4. MgrTypeOK' /\ (starts \in [Cores -> 0 .. MaxStarts])'
  BY ThreadsAre DEF MachineInv, MgrTypeOK, HartStartReset
<1>5. /\ call'[i] = "start" /\ arg' = arg
      /\ \A u \in Threads \ {i} : call'[u] = call[u]
  BY ThreadsAre DEF MachineInv, MgrTypeOK, HartStartReset
<1>6. CallsOf(i)' /\ HaltsOf(i)'
  BY <1>1, <1>3, <1>5, ThreadsAre DEF MachineInv, CallsOf, HaltsOf, HartStartReset
<1> QED
  BY <1>2, <1>3, <1>4, <1>5, <1>6, ThreadsAre, ThreadKeeps DEF HartStartReset

\* An order to hart j, after which the call of hart i is done.
LEMMA OrderedKeeps ==
  ASSUME MachineInv, NEW i \in Cores, NEW j \in Cores, NEW s \in Ct!Hsm,
         Order(j, s), pc[i] = "run", UNCHANGED starts,
         call' = [call EXCEPT ![i] = "done"],
         arg' = arg \/ arg' = [arg EXCEPT ![i] = 0],
         UNCHANGED <<debug, mpc, target, cmd, interrupts, haltLock, exited>>
  PROVE  MachineInv'
<1>1. CoresInv' /\ Quiet
  BY OrderKeeps DEF MachineInv
<1>2. pc' = pc
  BY DEF Order, Ct!SignalHsm, Ct!AcceptHsm, Ct!BufferHsm, ctVars
<1>3. MgrTypeOK' /\ (starts \in [Cores -> 0 .. MaxStarts])'
  BY ThreadsAre DEF MachineInv, MgrTypeOK
<1>4. /\ call'[i] = "done"
      /\ \A u \in Threads \ {i} : call'[u] = call[u] /\ arg'[u] = arg[u]
  BY ThreadsAre DEF MachineInv, MgrTypeOK
<1>5. CallsOf(i)' /\ HaltsOf(i)'
  BY <1>2, <1>4, ThreadsAre DEF CallsOf, HaltsOf
<1> QED
  BY <1>1, <1>2, <1>3, <1>4, <1>5, ThreadsAre, ThreadKeeps

\* Whatever the thread of a core does.
LEMMA CoreRunsKeeps ==
  ASSUME IInv, NEW i \in Cores, CoreRuns(i)
  PROVE  MachineInv'
<1>1. 0 \in Cores /\ i \in Threads /\ MachineInv
  BY ThreadsAre DEF Cores, IInv
<1>2. CASE HartStartSignal(i) /\ UNCHANGED starts
  <2>1. arg[i] \in Cores /\ pc[i] = "run"
    BY <1>1, <1>2, GuestAssumption DEF MachineInv, CallsOf, HartStartSignal
  <2> QED
    BY <1>1, <1>2, <2>1, OrderedKeeps DEF HartStartSignal, Ct!Hsm
<1>3. CASE HartStop(i) /\ UNCHANGED starts
  BY <1>1, <1>3, OrderedKeeps DEF HartStop, Ct!Hsm
<1>4. CASE HartSuspend(i) /\ UNCHANGED starts
  BY <1>1, <1>4, OrderedKeeps DEF HartSuspend, Ct!Hsm
<1> QED
  BY <1>1, <1>2, <1>3, <1>4, FollowOrdersKeeps, ExecutesKeeps, EbreakKeeps,
     HaltCoresKeeps, HartStartKeeps, HartStartResetKeeps DEF CoreRuns

-----------------------------------------------------------------------------
(* The main thread keeps the invariant.                                    *)

\* The cores move, and nobody else.
LEMMA CoresOnly ==
  ASSUME MachineInv, CoresInv', Quiet, pc' = pc, UNCHANGED <<mgrVars, starts>>
  PROVE  MachineInv'
<1>1. MgrTypeOK' /\ (starts \in [Cores -> 0 .. MaxStarts])'
  BY DEF MachineInv, MgrTypeOK, mgrVars
<1>2. CallsOf(Main)' /\ HaltsOf(Main)'
  BY ThreadsAre, NoStepOrder DEF MachineInv, CallsOf, HaltsOf, Quiet, mgrVars
<1> QED
  BY <1>1, <1>2, ThreadsAre, ThreadKeeps DEF mgrVars

\* Main moves on to another place, and no core changes its state.
LEMMA MainMoves ==
  ASSUME MachineInv, CoresInv',
         UNCHANGED <<state, pc, debug, interrupts, call, arg, starts>>,
         mpc # "halting", mpc' # "halting",
         \A t \in Threads : call[t] = "halting" => haltLock' = haltLock,
         Stepper', MgrTypeOK', Places', CrashTakesInterrupt'
  PROVE  MachineInv'
<1>1. (starts \in [Cores -> 0 .. MaxStarts])'
  BY DEF MachineInv
<1>2. ASSUME NEW t \in Threads PROVE (CallsOf(t) /\ HaltsOf(t))'
  BY DEF MachineInv, CallsOf, HaltsOf
<1> QED
  BY <1>1, <1>2 DEF MachineInv

\* Main resumes a halted core while nobody halts the cores.
LEMMA MainContinues ==
  ASSUME MachineInv, NEW i \in Cores, state[i] = "HALTED", Ct!SignalContinue(i),
         UNCHANGED <<debug, interrupts, haltLock, call, arg, exited, starts>>,
         mpc \notin {"stepping", "halting"}, mpc' # "halting",
         \A t \in Threads : call[t] = "halting" => interrupts > 0,
         MgrTypeOK', Places'
  PROVE  MachineInv'
<1>1. stepper[i] = "idle"
  BY DEF MachineInv, Stepper
<1>2. CoresInv' /\ stepper' = stepper /\ pc' = pc
  BY <1>1, ContinueKeeps DEF MachineInv
<1>3. (starts \in [Cores -> 0 .. MaxStarts])' /\ CrashTakesInterrupt'
  BY DEF MachineInv, CrashTakesInterrupt
<1>4. Stepper'
  BY <1>2 DEF MachineInv, Stepper
<1>5. ASSUME NEW t \in Threads PROVE (CallsOf(t) /\ HaltsOf(t))'
  <2>1. call[Main] = "none"
    BY ThreadsAre DEF MachineInv, CallsOf
  <2>2. interrupts > 0 => interrupts # 0
    BY DEF MachineInv, MgrTypeOK
  <2> QED
    BY <1>2, <2>1, <2>2 DEF MachineInv, CallsOf, HaltsOf
<1> QED
  BY <1>2, <1>3, <1>4, <1>5 DEF MachineInv

\* While main is where nobody executes, no core halts the others.
LEMMA HaltedMakeNoCalls ==
  ASSUME MachineInv, AllHalted, mpc # "halting"
  PROVE  \A t \in Threads : call[t] = "none"
<1>1. \A i \in Cores : pc[i] # "run"
  BY DEF MachineInv, AllHalted, CoresInv, CoreInv, InRun, OrderedOff, Ordered
<1> QED
  BY <1>1, ThreadsAre DEF MachineInv, CallsOf

LEMMA MainRunsKeeps ==
  ASSUME MachineInv, MainRuns, UNCHANGED starts
  PROVE  MachineInv'
<1>0. 0 \in Cores /\ \A n : n \in 0 .. N /\ n < N => n \in Cores
  BY ThreadsAre DEF Cores
<1>1. CASE BootContinue
  <2>1. AllHalted /\ ~debug
    BY <1>1 DEF MachineInv, Places, BootContinue
  <2>2. \A t \in Threads : call[t] = "halting" => interrupts > 0
    BY <2>1 DEF MachineInv, CallsOf
  <2>3. MgrTypeOK' /\ Places'
    BY <1>1, <2>1 DEF MachineInv, MgrTypeOK, MainPlaces, Places, Serves, BootContinue
  <2> QED
    BY <1>0, <1>1, <2>1, <2>2, <2>3, MainContinues DEF BootContinue, AllHalted
<1>2. CASE NoBreakpointHere
  <2>1. CoresInv' /\ UNCHANGED <<state, pc, stepper>>
    BY <1>2, RestKeeps DEF MachineInv, NoBreakpointHere, ctVars
  <2>2. MgrTypeOK' /\ Stepper' /\ CrashTakesInterrupt'
    BY <1>2, <2>1, ThreadsAre DEF MachineInv, MgrTypeOK, MainPlaces, Stepper,
       CrashTakesInterrupt, NoBreakpointHere
  <2>3. Places'
    BY <1>2, <2>1 DEF MachineInv, Places, Serves, AllHalted, NoBreakpointHere
  <2> QED
    BY <1>2, <2>1, <2>2, <2>3, MainMoves DEF NoBreakpointHere
<1>3. CASE StepCore /\ state[target] # "HALTED"
  <2>1. CoresInv' /\ UNCHANGED <<state, pc, stepper>> /\ target \in Cores
    BY <1>0, <1>3, RestKeeps DEF MachineInv, MgrTypeOK, StepCore, ctVars
  <2>2. interrupts > 0
    BY <1>3, <2>1 DEF MachineInv, MgrTypeOK, Places, Serves, AllHalted, StepCore
  <2>3. MgrTypeOK' /\ Stepper' /\ CrashTakesInterrupt'
    BY <1>3, <2>1, <2>2 DEF MachineInv, MgrTypeOK, Stepper, CrashTakesInterrupt,
       StepCore
  <2>4. Places'
    BY <1>3, <2>1 DEF MachineInv, Places, Serves, AllHalted, StepCore
  <2> QED
    BY <1>3, <2>1, <2>3, <2>4, MainMoves DEF StepCore
<1>4. CASE StepCore /\ state[target] = "HALTED"
  <2>1. target \in Cores /\ Ct!SignalStep(target)
    BY <1>0, <1>4 DEF MachineInv, MgrTypeOK, StepCore, Ct!MainStep
  <2>2. /\ CoresInv' /\ pc' = pc /\ state' = state
        /\ stepper' = [stepper EXCEPT ![target] = "STEPPING"]
    BY <1>4, <2>1, StepKeeps DEF MachineInv
  <2>3. MgrTypeOK' /\ Stepper' /\ CrashTakesInterrupt'
    BY <1>4, <2>2 DEF MachineInv, MgrTypeOK, MainPlaces, Stepper,
       CrashTakesInterrupt, StepCore
  <2>4. Places'
    BY <1>4, <2>1, <2>2 DEF MachineInv, Places, Serves, AllHalted, StepCore
  <2> QED
    BY <1>4, <2>2, <2>3, <2>4, MainMoves DEF StepCore
<1>5. CASE StepWait
  <2>1. target \in Cores
    BY <1>5 DEF MachineInv, Places, StepWait
  <2>2. CASE Ct!StepBlocks(target)
    BY <1>5, <2>1, <2>2, StepBlocksKeeps, CoresOnly
       DEF MachineInv, StepWait, Ct!StepBlocks
  <2>3. CASE Ct!StepAcked(target)
    <3>1. CoresInv' /\ UNCHANGED <<state, pc>> /\ UNCHANGED mgrVars
      BY <1>5, <2>1, <2>3, StepAckedKeeps DEF MachineInv, StepWait, Ct!StepAcked
    <3>2. MgrTypeOK' /\ Stepper' /\ CrashTakesInterrupt' /\ Places'
      BY <1>5, <2>3, <3>1 DEF MachineInv, MgrTypeOK, Stepper,
      CrashTakesInterrupt,
         Places, AllHalted, mgrVars, StepWait, Ct!StepAcked
    <3> QED
      BY <1>5, <3>1, <3>2, MainMoves DEF mgrVars, StepWait
  <2> QED
    BY <1>5, <2>2, <2>3 DEF StepWait
<1>6. CASE StepReturns
  <2>1. target \in Cores /\ state[target] = "HALTED"
    BY <1>6 DEF MachineInv, Places, StepReturns, Ct!StepDone
  <2>2. CoresInv' /\ UNCHANGED <<state, pc>>
    BY <1>6, <2>1, StepDoneKeeps DEF MachineInv, StepReturns, Ct!StepDone
  <2>3. /\ mpc = "stepping" /\ mpc' \in {"step_all", "continue_one", "wait_halt"}
        /\ IF mpc' = "step_all" THEN target' = target + 1 ELSE target' = target
    BY <1>6 DEF MachineInv, MgrTypeOK, StepReturns
  <2>4. Stepper'
    BY <1>6, <2>1 DEF MachineInv, CoresInv, Ct!TypeOK, Stepper, StepReturns, Ct!StepDone
  <2>5. MgrTypeOK' /\ CrashTakesInterrupt'
    BY <1>6, <2>1, <2>3, ThreadsAre DEF MachineInv, MgrTypeOK, MainPlaces,
       CrashTakesInterrupt, StepReturns, Cores
  <2>6. Places'
    <3>1. interrupts = 0 => AllHalted
      BY <2>1, <2>3 DEF MachineInv, Places, AllHalted
    <3> QED
      BY <1>6, <2>1, <2>2, <2>3, <3>1 DEF MachineInv, Places, Serves, AllHalted,
         StepReturns
  <2> QED
    BY <1>6, <2>2, <2>3, <2>4, <2>5, <2>6, MainMoves DEF StepReturns
<1>7. CASE TryContinueAll
  <2>1. CoresInv' /\ UNCHANGED <<state, pc, stepper>>
    BY <1>7, RestKeeps DEF MachineInv, TryContinueAll, ctVars
  <2>2. \A t \in Threads : call[t] = "halting" => haltLock' = haltLock
    BY <1>7, ThreadsAre DEF MachineInv, CallsOf, TryContinueAll
  <2>3. interrupts > 0 \/ AllHalted
    BY <1>7 DEF MachineInv, MgrTypeOK, Places, Serves, TryContinueAll
  <2>4. MgrTypeOK' /\ Stepper' /\ CrashTakesInterrupt'
    BY <1>7, <2>1, <2>3, ThreadsAre DEF MachineInv, MgrTypeOK, MainPlaces, Stepper,
       CrashTakesInterrupt, TryContinueAll
  <2>5. Places'
    BY <1>7, <2>1 DEF MachineInv, Places, Serves, AllHalted, TryContinueAll
  <2> QED
    BY <1>7, <2>1, <2>2, <2>4, <2>5, MainMoves DEF MachineInv, TryContinueAll
<1>8. CASE ContinueNext
  <2>1. target \in Cores /\ state[target] = "HALTED" /\ Ct!SignalContinue(target)
    BY <1>0, <1>8 DEF MachineInv, MgrTypeOK, ContinueNext, Ct!MainContinue
  <2>2. \A t \in Threads : call[t] # "halting"
    BY <1>8, ThreadsAre DEF MachineInv, CallsOf, Places, ContinueNext
  <2>3. \A j \in Cores \ {target} : state'[j] = state[j]
    BY <2>1 DEF MachineInv, CoresInv, Ct!TypeOK, Ct!SignalContinue
  <2>4. MgrTypeOK'
    BY <1>8, ThreadsAre DEF MachineInv, MgrTypeOK, ContinueNext
  <2>5. Places'
    <3>1. target \in Nat /\ target' = target + 1 /\ mpc' = "continuing"
      BY <1>8, ThreadsAre DEF MachineInv, MgrTypeOK, ContinueNext
    <3>2. \A j \in Cores : j >= target + 1 => j >= target /\ j # target
      BY <3>1 DEF Cores
    <3>3. \A j \in Cores : j >= target' => state'[j] = "HALTED"
      BY <1>8, <2>3, <3>1, <3>2 DEF MachineInv, Places, ContinueNext
    <3> QED
      BY <1>8, <3>1, <3>3 DEF MachineInv, Places, Serves, ContinueNext
  <2> QED
    BY <1>8, <2>1, <2>2, <2>4, <2>5, MainContinues DEF ContinueNext
<1>9. CASE ContinueUnlock
  <2>1. CoresInv' /\ UNCHANGED <<state, pc, stepper>>
    BY <1>9, RestKeeps DEF MachineInv, ContinueUnlock, ctVars
  <2>2. \A t \in Threads : call[t] # "halting"
    BY <1>9, ThreadsAre DEF MachineInv, CallsOf, Places, ContinueUnlock
  <2>3. MgrTypeOK' /\ Stepper' /\ CrashTakesInterrupt' /\ Places'
    BY <1>9, <2>1, ThreadsAre DEF MachineInv, MgrTypeOK, MainPlaces, Stepper,
       CrashTakesInterrupt, Places, Serves, ContinueUnlock
  <2> QED
    BY <1>9, <2>1, <2>2, <2>3, MainMoves DEF ContinueUnlock
<1>10. CASE ContinueOne /\ state[target] # "HALTED"
  <2>1. CoresInv' /\ UNCHANGED <<state, pc, stepper>> /\ target \in Cores
    BY <1>10, RestKeeps DEF MachineInv, Places, ContinueOne, ctVars
  <2>2. interrupts > 0
    BY <1>10, <2>1 DEF MachineInv, MgrTypeOK, Places, Serves, AllHalted, ContinueOne
  <2>3. MgrTypeOK' /\ Stepper' /\ CrashTakesInterrupt' /\ Places'
    BY <1>10, <2>1, <2>2 DEF MachineInv, MgrTypeOK, Stepper, CrashTakesInterrupt,
       Places, Serves, AllHalted, ContinueOne
  <2> QED
    BY <1>10, <2>1, <2>3, MainMoves DEF ContinueOne
<1>11. CASE ContinueOne /\ state[target] = "HALTED"
  <2>1. target \in Cores /\ Ct!SignalContinue(target)
    BY <1>11 DEF MachineInv, Places, ContinueOne, Ct!MainContinue
  <2>2. \A t \in Threads : call[t] = "halting" => interrupts > 0
    <3>1. interrupts = 0 => \A t \in Threads : call[t] = "none"
      BY <1>11, HaltedMakeNoCalls DEF MachineInv, Places, Serves, ContinueOne
    <3> QED
      BY <3>1 DEF MachineInv, MgrTypeOK
  <2>3. MgrTypeOK' /\ Places'
    BY <1>11 DEF MachineInv, MgrTypeOK, MainPlaces, Places, Serves, ContinueOne
  <2> QED
    BY <1>11, <2>1, <2>2, <2>3, MainContinues DEF ContinueOne
<1>12. CASE SeesHalted
  <2>1. CoresInv' /\ UNCHANGED <<state, pc, stepper>>
    BY <1>12, RestKeeps DEF MachineInv, SeesHalted, ctVars
  <2>2. MgrTypeOK' /\ Stepper' /\ CrashTakesInterrupt' /\ Places'
    BY <1>12, <2>1 DEF MachineInv, MgrTypeOK, MainPlaces, Stepper,
       CrashTakesInterrupt, Places, Serves, AllHalted, Halting, SeesHalted
  <2> QED
    BY <1>12, <2>1, <2>2, MainMoves DEF SeesHalted
<1>13. CASE InterruptReply
  <2>1. CoresInv' /\ UNCHANGED <<state, pc, stepper>>
    BY <1>13, RestKeeps DEF MachineInv, InterruptReply, ctVars
  <2>2. \A i \in Cores : state[i] \in Halting
    BY <1>13, ThreadsAre DEF MachineInv, HaltsOf, InterruptReply
  <2>3. MgrTypeOK' /\ Stepper' /\ CrashTakesInterrupt'
        /\ (starts \in [Cores -> 0 .. MaxStarts])'
    BY <1>13, <2>1, ThreadsAre DEF MachineInv, MgrTypeOK, MainPlaces, Stepper,
       CrashTakesInterrupt, InterruptReply
  <2>4. Places'
    BY <1>13, <2>1, <2>2 DEF MachineInv, MgrTypeOK, Places, Serves, InterruptReply
  <2>5. ASSUME NEW t \in Threads PROVE (CallsOf(t) /\ HaltsOf(t))'
    BY <1>13, <2>1, ThreadsAre DEF MachineInv, MgrTypeOK, CallsOf, HaltsOf,
       InterruptReply
  <2> QED
    BY <2>1, <2>3, <2>4, <2>5 DEF MachineInv
<1>14. CASE HaltCores(Main)
  BY <1>14, ThreadsAre, HaltCoresKeeps
<1> QED
  BY <1>1, <1>2, <1>3, <1>4, <1>5, <1>6, <1>7, <1>8, <1>9, <1>10, <1>11, <1>12,
     <1>13, <1>14 DEF MainRuns

LEMMA MainIsToldKeeps ==
  ASSUME MachineInv, MainIsTold, UNCHANGED starts
  PROVE  MachineInv'
<1>1. CoresInv' /\ UNCHANGED <<state, pc, stepper>>
  BY RestKeeps DEF MachineInv, MainIsTold, RecvContinueAll, RecvContinue, RecvStep,
     RecvInterrupt, ctVars
<1>2. CASE RecvContinueAll \/ \E i \in Cores : RecvContinue(i) \/ RecvStep(i)
  <2>1. MgrTypeOK' /\ Stepper' /\ CrashTakesInterrupt' /\ mpc = "stub"
    BY <1>1, <1>2, ThreadsAre DEF MachineInv, MgrTypeOK, MainPlaces, Stepper,
       CrashTakesInterrupt, RecvContinueAll, RecvContinue, RecvStep, Cores
  <2>2. Places'
    BY <1>1, <1>2 DEF MachineInv, Places, Serves, AllHalted, RecvContinueAll,
       RecvContinue, RecvStep
  <2> QED
    BY <1>1, <1>2, <2>1, <2>2, MainMoves DEF RecvContinueAll, RecvContinue,
       RecvStep
<1>3. CASE RecvInterrupt
  <2>1. MgrTypeOK' /\ Stepper' /\ CrashTakesInterrupt'
        /\ (starts \in [Cores -> 0 .. MaxStarts])'
    BY <1>1, <1>3, ThreadsAre, ManagerAssumption DEF MachineInv, MgrTypeOK,
       MainPlaces, Stepper, CrashTakesInterrupt, RecvInterrupt
  <2>2. Places'
    BY <1>1, <1>3 DEF MachineInv, MgrTypeOK, Places, Serves, RecvInterrupt
  <2>3. ASSUME NEW t \in Threads PROVE (CallsOf(t) /\ HaltsOf(t))'
    BY <1>1, <1>3, ThreadsAre DEF MachineInv, MgrTypeOK, CallsOf, HaltsOf, Places,
       RecvInterrupt
  <2> QED
    BY <1>1, <2>1, <2>2, <2>3 DEF MachineInv
<1> QED
  BY <1>2, <1>3 DEF MainIsTold

-----------------------------------------------------------------------------
(* Harts that are started once.                                            *)

\* What main does to the cores: one call of cthread.c, or nothing.
MainDoes == \/ UNCHANGED ctVars
            \/ \E i \in Cores : \/ Ct!MainContinue(i) \/ Ct!MainStep(i)
                               \/ Ct!StepWait(i) \/ Ct!SignalHalt(i)

\* Main continues and steps one core at a time, and only halted ones.
LEMMA MainDrives ==
  ASSUME MachineInv, crash = "none", MainRuns \/ MainIsTold PROVE MainDoes
<1>1. CASE BootContinue
  <2>1. 0 \in Cores /\ state[0] = "HALTED" /\ Ct!MainFree
    BY <1>1, ThreadsAre DEF MachineInv, Places, AllHalted, Stepper, Cores,
       BootContinue, CoresInv, Ct!TypeOK, Ct!MainFree
  <2> QED
    BY <1>1, <2>1 DEF BootContinue, MainDoes, Ct!MainContinue
<1>2. CASE StepCore
  <2>1. target \in Cores
    BY <1>2, ThreadsAre DEF MachineInv, MgrTypeOK, StepCore, Cores
  <2> QED
    BY <1>2, <2>1 DEF StepCore, MainDoes
<1>3. CASE StepWait \/ StepReturns
  <2>1. target \in Cores
    BY <1>3 DEF MachineInv, Places, StepWait, StepReturns
  <2> QED
    BY <1>3, <2>1 DEF StepWait, StepReturns, MainDoes, Ct!StepWait
<1>4. CASE ContinueNext
  <2>1. target \in Cores
    BY <1>4, ThreadsAre DEF MachineInv, MgrTypeOK, ContinueNext, Cores
  <2> QED
    BY <1>4, <2>1 DEF ContinueNext, MainDoes
<1>5. CASE ContinueOne
  BY <1>5 DEF MachineInv, Places, ContinueOne, MainDoes
<1>6. CASE HaltNext(Main)
  <2>1. arg[Main] \in Cores
    BY <1>6, ThreadsAre DEF MachineInv, MgrTypeOK, HaltNext, Cores
  <2> QED
    BY <1>6, <2>1 DEF HaltNext, MainDoes
<1>7. CASE \/ NoBreakpointHere \/ TryContinueAll \/ ContinueUnlock
           \/ SeesHalted \/ InterruptReply \/ HaltLock(Main) \/ HaltUnlock(Main)
           \/ MainIsTold
  BY <1>7 DEF NoBreakpointHere, TryContinueAll, ContinueUnlock, SeesHalted,
     InterruptReply, HaltLock, HaltUnlock, MainIsTold, RecvContinueAll,
     RecvContinue, RecvStep, RecvInterrupt, MainDoes
<1> QED
  BY <1>1, <1>2, <1>3, <1>4, <1>5, <1>6, <1>7 DEF MainRuns, HaltCores

\* Only a START turns on a hart that was never on.
LEMMA StaysOff ==
  ASSUME CoresInv, NEW i \in Cores, NEW j \in Cores, NeverOn(j),
         \/ Ct!CoreStep(i) \/ Ct!StepWait(i) \/ Ct!SpuriousWake(i)
         \/ Ct!SignalHalt(i) \/ Ct!MainContinue(i) \/ Ct!MainStep(i)
         \/ \E s \in Ct!Hsm : Order(i, s) /\ (i # j \/ s # "STARTED")
  PROVE  NeverOn(j)'
<1>1. CASE Ct!CoreStep(i)
  BY <1>1 DEF CoresInv, Ct!TypeOK, NeverOn, Ct!CoreStep, Ct!FsmPark, Ct!FsmStep,
     Ct!FsmStart, Ct!WakeToWait, Ct!WakeToGo, Ct!WaitOnSign, Ct!Execute,
     Ct!CheckExit, Ct!AfterRun
<1>2. CASE Ct!StepWait(i) \/ Ct!SpuriousWake(i) \/ Ct!SignalHalt(i)
  BY <1>2 DEF CoresInv, Ct!TypeOK, NeverOn, Ct!StepWait, Ct!StepBlocks,
     Ct!StepAcked, Ct!StepDone, Ct!SpuriousWake, Ct!SignalHalt
<1>3. CASE Ct!MainContinue(i) \/ Ct!MainStep(i)
  BY <1>3 DEF CoresInv, Ct!TypeOK, NeverOn, Ct!MainContinue, Ct!MainStep,
     Ct!SignalContinue, Ct!SignalStep
<1>4. ASSUME NEW s \in Ct!Hsm, Order(i, s), i # j \/ s # "STARTED"
      PROVE  NeverOn(j)'
  <2>1. state[j] # "STARTED"
    BY DEF CoresInv, CoreInv, NeverOn, AtFsm, AtWait, OrderedOff, Ordered
  <2>2. i = j => ~Ct!Accepts(i, s) /\ ~Ct!Buffers(i, s)
    BY <1>4, <2>1 DEF NeverOn, Ct!Accepts, Ct!Buffers
  <2> QED
    BY <1>4, <2>2 DEF CoresInv, Ct!TypeOK, NeverOn, Order, Ct!SignalHsm,
       Ct!AcceptHsm, Ct!BufferHsm, ctVars
<1> QED
  BY <1>1, <1>2, <1>3, <1>4

\* A step that turns on no hart and makes no call for one.
LEMMA StartsRest ==
  ASSUME MachineInv, StartsInv, starts' = starts,
         \A j \in Cores : NeverOn(j) => NeverOn(j)',
         \A t \in Cores : Starting(t)' => Starting(t) /\ arg'[t] = arg[t]
  PROVE  StartsInv'
  BY DEF StartsInv

\* One hart_start for each, and who makes it has it to himself.
LEMMA StartsCall ==
  ASSUME MachineInv, OneStart, StartsInv, NEW i \in Cores, NEW k \in Startable,
         HartStart(i, k)
  PROVE  StartsInv'
<1>1. /\ k \in Cores \ {0} /\ starts[k] = 0
      /\ starts' = [starts EXCEPT ![k] = 1]
  <2>1. k \in Cores \ {0} /\ starts[k] \in 0 .. MaxStarts /\ starts[k] < MaxStarts
    BY GuestAssumption DEF MachineInv, HartStart, OneStart
  <2>2. starts[k] = 0 /\ starts' = [starts EXCEPT ![k] = starts[k] + 1]
    BY <2>1, GuestAssumption DEF HartStart, OneStart
  <2> QED
    BY <2>1, <2>2
<1>2. /\ call' = [call EXCEPT ![i] = "reset"] /\ arg' = [arg EXCEPT ![i] = k]
      /\ UNCHANGED ctVars
  BY DEF HartStart
<1>3. /\ Starting(i)' /\ arg'[i] = k
      /\ \A t \in Cores \ {i} : /\ Starting(t)' <=> Starting(t)
                               /\ arg'[t] = arg[t]
  BY <1>2, ThreadsAre DEF MachineInv, MgrTypeOK, Starting
<1>4. \A t \in Cores : Starting(t) => arg[t] \in Cores /\ arg[t] # k
  BY <1>1, GuestAssumption, ThreadsAre DEF MachineInv, CallsOf, StartsInv, Starting
<1>5. \A j \in Cores : /\ NeverOn(j)' <=> NeverOn(j)
                       /\ starts'[j] = IF j = k THEN 1 ELSE starts[j]
  BY <1>1, <1>2 DEF MachineInv, NeverOn, ctVars
<1>6. \A j \in Cores \ {0} :
          starts'[j] = 0 \/ (\E t \in Cores : Starting(t)' /\ arg'[t] = j)
              => NeverOn(j)'
  BY <1>1, <1>3, <1>5 DEF StartsInv
<1>7. \A t \in Cores : Starting(t)' => starts'[arg'[t]] > 0
  BY <1>1, <1>3, <1>4, <1>5 DEF StartsInv
<1>8. \A t, u \in Cores :
          Starting(t)' /\ Starting(u)' /\ arg'[t] = arg'[u] => t = u
  BY <1>3, <1>4 DEF StartsInv
<1> QED
  BY <1>6, <1>7, <1>8 DEF StartsInv

\* The hart that is signalled is nobody else's any more.
LEMMA StartsSignal ==
  ASSUME MachineInv, StartsInv, NEW i \in Cores, HartStartSignal(i),
         UNCHANGED starts
  PROVE  StartsInv'
<1> DEFINE k == arg[i]
<1>1. k \in Cores /\ Starting(i) /\ starts[k] > 0 /\ Order(k, "STARTED")
  BY GuestAssumption, ThreadsAre
     DEF MachineInv, CallsOf, StartsInv, HartStartSignal, Starting
<1>2. /\ ~Starting(i)'
      /\ \A t \in Cores \ {i} : /\ Starting(t)' <=> Starting(t)
                               /\ arg'[t] = arg[t]
  BY ThreadsAre DEF MachineInv, MgrTypeOK, HartStartSignal, Starting
<1>3. \A j \in Cores \ {k} : NeverOn(j) => NeverOn(j)'
  BY <1>1, StaysOff DEF MachineInv, Ct!Hsm
<1>4. \A t \in Cores : Starting(t)' => Starting(t) /\ t # i /\ arg'[t] = arg[t]
  BY <1>2
<1>5. \A t \in Cores : Starting(t)' => arg'[t] # k
  BY <1>1, <1>4 DEF StartsInv
<1>6. ASSUME NEW j \in Cores \ {0},
             starts'[j] = 0 \/ \E t \in Cores : Starting(t)' /\ arg'[t] = j
      PROVE  NeverOn(j)'
  BY <1>1, <1>3, <1>4, <1>5, <1>6 DEF StartsInv
<1> QED
  BY <1>4, <1>6 DEF StartsInv

\* Every step keeps the harts that were never on, and their starters apart.
LEMMA StartsKeep ==
  ASSUME MachineInv, OneStart, StartsInv, [Next]_allVars PROVE StartsInv'
<1>1. CoresInv /\ \A i \in Cores : i \in Threads /\ i # Main
  BY ThreadsAre DEF MachineInv
<1>2. CASE UNCHANGED allVars \/ Spin
  BY <1>2, StartsRest DEF Spin, allVars, ctVars, mgrVars, NeverOn, Starting
<1>3. ASSUME NEW i \in Cores, SpuriousWake(i) PROVE StartsInv'
  BY <1>1, <1>3, StaysOff, StartsRest DEF SpuriousWake, mgrVars, Starting
<1>4. CASE (MainRuns \/ MainIsTold) /\ UNCHANGED starts /\ crash = "none"
  <2>1. \A j \in Cores : NeverOn(j) => NeverOn(j)'
    BY <1>1, <1>4, MainDrives, StaysOff DEF MainDoes, NeverOn, ctVars
  <2>2. \A t \in Cores : call'[t] = call[t] /\ arg'[t] = arg[t]
    BY <1>1, <1>4 DEF MachineInv, MgrTypeOK, mgrVars, MainRuns, MainIsTold,
       BootContinue, NoBreakpointHere, StepCore, StepWait, StepReturns,
       TryContinueAll, ContinueNext, ContinueUnlock, ContinueOne, SeesHalted,
       InterruptReply, HaltCores, HaltLock, HaltNext, HaltUnlock,
       RecvContinueAll, RecvContinue, RecvStep, RecvInterrupt
  <2> QED
    BY <1>4, <2>1, <2>2, StartsRest DEF Starting
<1>5. ASSUME NEW i \in Cores, CoreRuns(i) PROVE StartsInv'
  <2>1. CASE (FollowOrders(i) \/ Execute(i)) /\ UNCHANGED starts
    <3>1. Ct!CoreStep(i)
      BY <2>1 DEF FollowOrders, Execute, Ct!CoreStep
    <3>2. \A t \in Cores : Starting(t)' => Starting(t) /\ arg'[t] = arg[t]
      BY <1>1, <2>1 DEF MachineInv, MgrTypeOK, FollowOrders, Execute, mgrVars,
         Starting
    <3> QED
      BY <1>1, <2>1, <3>1, <3>2, StaysOff, StartsRest
  <2>2. CASE (Ebreak(i) \/ HaltCores(i)) /\ UNCHANGED starts
    <3>1. \A j \in Cores : NeverOn(j) => NeverOn(j)'
      <4>1. call[i] = "halting" /\ arg[i] < N => arg[i] \in Cores
        BY <1>1, ThreadsAre DEF MachineInv, MgrTypeOK, Cores
      <4>2. UNCHANGED ctVars \/ \E k \in Cores : Ct!SignalHalt(k)
        BY <2>2, <4>1 DEF Ebreak, HaltCores, HaltLock, HaltNext, HaltUnlock
      <4> QED
        BY <1>1, <4>2, StaysOff DEF NeverOn, ctVars
    <3>2. \A t \in Cores : Starting(t)' => Starting(t) /\ arg'[t] = arg[t]
      BY <1>1, <2>2 DEF MachineInv, MgrTypeOK, Ebreak, HaltCores, HaltLock,
         HaltNext, HaltUnlock, Starting
    <3> QED
      BY <2>2, <3>1, <3>2, StartsRest
  <2>3. CASE (HartStop(i) \/ HartSuspend(i)) /\ UNCHANGED starts
    <3>1. \E k \in Cores, s \in Ct!Hsm : Order(k, s) /\ s # "STARTED"
      BY <2>3, ThreadsAre DEF HartStop, HartSuspend, Cores, Ct!Hsm
    <3>2. \A t \in Cores : Starting(t)' => Starting(t) /\ arg'[t] = arg[t]
      BY <1>1, <2>3 DEF MachineInv, MgrTypeOK, HartStop, HartSuspend, Starting
    <3> QED
      BY <1>1, <2>3, <3>1, <3>2, StaysOff, StartsRest
  <2>4. CASE HartStartReset(i) /\ UNCHANGED starts
    BY <1>1, <2>4, StartsRest DEF MachineInv, MgrTypeOK, HartStartReset, NeverOn,
       Starting
  <2>5. CASE HartStartSignal(i) /\ UNCHANGED starts
    BY <2>5, StartsSignal
  <2>6. CASE \E k \in Startable : HartStart(i, k)
    BY <2>6, StartsCall
  <2> QED
    BY <1>5, <2>1, <2>2, <2>3, <2>4, <2>5, <2>6 DEF CoreRuns
<1> QED
  BY <1>2, <1>3, <1>4, <1>5 DEF Next, Alive

-----------------------------------------------------------------------------
(* The theorems.                                                           *)

LEMMA InitHolds == Init => IInv
<1> SUFFICES ASSUME Init PROVE IInv
  OBVIOUS
<1>1. Ct!Init /\ MgrInit
  BY DEF Init, MgrInit
<1>2. CoresInv
  BY <1>1 DEF Ct!Init, CoresInv, Ct!TypeOK, Ct!States, Ct!Signals, Ct!Hsm,
     CoreInv, AtFsm, AtWait, InRun, StepOrder
<1>3. MgrTypeOK /\ starts \in [Cores -> 0 .. MaxStarts]
  BY ThreadsAre, ManagerAssumption, GuestAssumption
     DEF Init, MgrInit, MgrTypeOK, MainPlaces
<1>4. AllHalted /\ Stepper
  BY <1>1 DEF Ct!Init, AllHalted, Stepper
<1>5. \A t \in Threads : CallsOf(t) /\ HaltsOf(t)
  BY <1>1 DEF MgrInit, CallsOf, HaltsOf
<1>6. Places /\ CrashTakesInterrupt
  BY <1>1, <1>3, <1>4 DEF MgrInit, MgrTypeOK, Places, Serves, AllHalted, Halting,
     CrashTakesInterrupt
<1>7. StartsInv
  BY <1>1, ThreadsAre DEF Ct!Init, MgrInit, StartsInv, Starting, NeverOn
<1> QED
  BY <1>2, <1>3, <1>4, <1>5, <1>6, <1>7 DEF IInv, MachineInv

LEMMA MachineKeeps ==
  ASSUME IInv, [Next]_allVars
  PROVE  MachineInv'
<1> USE DEF IInv
<1>1. CASE UNCHANGED allVars
  BY <1>1, RestKeeps, CoresOnly DEF MachineInv, allVars, ctVars
<1>2. ASSUME NEW i \in Cores, SpuriousWake(i) PROVE MachineInv'
  <2>1. pc' = pc /\ UNCHANGED <<mgrVars, starts>>
    BY <1>2 DEF SpuriousWake, Ct!SpuriousWake
  <2> QED
    BY <1>2, <2>1, SpuriousWakeKeeps, CoresOnly DEF MachineInv, SpuriousWake
<1>3. CASE Spin
  BY <1>1, <1>3 DEF Spin
<1> QED
  BY <1>1, <1>2, <1>3, CoreRunsKeeps, MainRunsKeeps, MainIsToldKeeps DEF Next

LEMMA NextKeeps == ASSUME IInv, [Next]_allVars PROVE IInv'
  BY MachineKeeps, StartsKeep DEF IInv, OneStart

\* The inductive invariant holds in every state of every behaviour.
THEOREM Invariance == Spec => []IInv
  BY InitHolds, NextKeeps, PTL DEF Spec

\* For every number of harts and every guest the variables of the machine keep
\* their types (cthread.c, threads_mgr2.c, sbi.c).
THEOREM TypeCorrectness == Spec => []TypeOK
<1>1. IInv => TypeOK
  BY DEF IInv, MachineInv, CoresInv, TypeOK
<1> QED
  BY <1>1, Invariance, PTL

\* Without ^C the manager never exits: it continues and steps halted cores.
THEOREM ManagerSurvives ==
  ASSUME MaxInterrupts = 0 PROVE Spec => []NoManagerCrash
<1>1. IInv => NoManagerCrash
  BY DEF IInv, MachineInv, MgrTypeOK, CrashTakesInterrupt, NoManagerCrash
<1> QED
  BY <1>1, Invariance, PTL

\* GDB is served on a machine that is at rest, or coming to rest after a ^C
\* (wait_for_halt, builder.c:47-70).
THEOREM ServesAtRest == Spec => []StubServesHalted
<1>1. IInv => StubServesHalted
  BY DEF IInv, MachineInv, Places, Serves, Halting, AllHalted, StubServesHalted
<1> QED
  BY <1>1, Invariance, PTL

\* Without ^C no core is resumed behind the back of a thread that halts them
\* all (threads_mgr2.c:95-107).
THEOREM HaltAllAtomic == ASSUME MaxInterrupts = 0 PROVE Spec => []HaltAllIsAll
<1>1. ASSUME IInv PROVE HaltAllIsAll
  <2> SUFFICES ASSUME NEW t \in Threads, call[t] = "halting",
                      NEW i \in 0 .. (arg[t] - 1)
               PROVE  state[i] \in Halting
    BY DEF HaltAllIsAll, Halting
  <2>1. arg[t] \in 0 .. N /\ interrupts = 0
    BY <1>1 DEF IInv, MachineInv, MgrTypeOK
  <2>2. i \in Cores /\ i < arg[t]
    BY <2>1, ThreadsAre DEF Cores
  <2> QED
    BY <1>1, <2>1, <2>2 DEF IInv, MachineInv, HaltsOf
<1> QED
  BY <1>1, Invariance, PTL

\* While each hart is started once, hart 0 by the boot and any other by one
\* hart_start, no assertion of cthread.c fails, whatever harts, debugger and ^C
\* do: vcore_init never clears the flag of a core that has been told to leave.
THEOREM AssertionsHold == ASSUME OneStart PROVE Spec => []NoAssertFails
<1>1. IInv => NoAssertFails
  BY DEF IInv, MachineInv, CoresInv, NoAssertFails
<1> QED
  BY <1>1, Invariance, PTL

\* A step of a core's thread is one of Cthread, or none of its business.
LEMMA CoreDrives ==
  ASSUME IInv, Undisturbed, crash = "none", NEW i \in Cores, CoreRuns(i)
  PROVE  [Ct!Next]_ctVars
<1> USE DEF IInv
<1>1. CASE FollowOrders(i) \/ Execute(i)
  BY <1>1 DEF FollowOrders, Execute, Ct!Next, Ct!CoreStep
<1>2. CASE Ebreak(i) \/ HaltLock(i) \/ HaltUnlock(i)
  BY <1>2 DEF Ebreak, HaltLock, HaltUnlock
<1>3. CASE HaltNext(i)
  <2>1. arg[i] \in Cores
    BY <1>3, ThreadsAre DEF MachineInv, MgrTypeOK, HaltNext, Cores
  <2> QED
    BY <1>3, <2>1 DEF HaltNext, Ct!Next
<1>4. CASE HartStartReset(i)
  <2>1. arg[i] \in Cores /\ Ct!Idle(arg[i])
    BY <1>4, ResetMeetsIdle DEF HartStartReset, Undisturbed
  <2> QED
    BY <1>4, <2>1 DEF HartStartReset, Ct!Next, Ct!ResetCore
<1>5. ASSUME NEW j \in Cores, NEW s \in Ct!Hsm, Order(j, s)
      PROVE  [Ct!Next]_ctVars
  BY <1>5 DEF Order, Ct!Next
<1>6. 0 \in Cores /\ {"STOPPED", "SUSPENDED", "STARTED"} \subseteq Ct!Hsm
  BY ThreadsAre DEF Cores, Ct!Hsm
<1>7. CASE HartStop(i) \/ HartSuspend(i)
  BY <1>5, <1>6, <1>7 DEF HartStop, HartSuspend
<1>8. CASE HartStartSignal(i)
  <2>1. arg[i] \in Cores
    BY <1>8, GuestAssumption, ThreadsAre DEF MachineInv, CallsOf, HartStartSignal
  <2> QED
    BY <1>5, <1>6, <1>8, <2>1 DEF HartStartSignal
<1>9. CASE \E j \in Startable : HartStart(i, j)
  BY <1>9 DEF HartStart
<1> QED
  BY <1>1, <1>2, <1>3, <1>4, <1>7, <1>8, <1>9 DEF CoreRuns, HaltCores

\* While each hart is started once and there is no ^C, the machine drives the
\* core threads the way Cthread expects, hart_start's unlocked vcore_init
\* included: what CthreadProofs shows of every Cthread holds of its cores.
THEOREM CoresDrivenRight == ASSUME Undisturbed PROVE Spec => DrivesCoresSafely
<1>1. Init => Ct!Init
  BY DEF Init, MgrInit
<1>2. IInv /\ [Next]_allVars => [Ct!Next]_ctVars
  <2> SUFFICES ASSUME IInv, [Next]_allVars PROVE [Ct!Next]_ctVars
    OBVIOUS
  <2>1. CASE UNCHANGED allVars \/ Spin
    BY <2>1 DEF Spin, allVars
  <2>2. ASSUME NEW i \in Cores, SpuriousWake(i), crash = "none"
        PROVE  [Ct!Next]_ctVars
    BY <2>2 DEF SpuriousWake, Ct!Next
  <2>3. CASE (MainRuns \/ MainIsTold) /\ crash = "none"
    BY <2>3, MainDrives DEF IInv, MainDoes, Ct!Next
  <2> QED
    BY <2>1, <2>2, <2>3, CoreDrives DEF Next, Alive
<1> QED
  BY <1>1, <1>2, Invariance, PTL DEF Spec, DrivesCoresSafely

=============================================================================
