------------------------------- MODULE Cthread -------------------------------
(***************************************************************************)
(* The core threads of Switch-V32 (cthread.c): one pthread per virtual     *)
(* core runs cthread_fsm for ever and follows the "signals" other threads  *)
(* leave for it: the guest's SBI hart state management (START, STOP,       *)
(* SUSPEND) and the debugger (HALT, STEP, continue).                       *)
(*                                                                         *)
(* Grain.  What a function does between taking and releasing the core's    *)
(* mutex is one action; a pthread_cond_wait_ ends it.  The exit flag       *)
(* core.atomic_exit_loop is read by vcore_run outside the mutex, so that   *)
(* read is an action of its own.  A waiter woken by pthread_cond_signal_,  *)
(* or spuriously, has to take the mutex again before it looks at anything. *)
(*                                                                         *)
(* Signals and states share their values in the C enums (START_S =         *)
(* STATE_STARTED, ...) and are cast into each other: here they share names.*)
(***************************************************************************)
CONSTANT Cores

VARIABLES
    state,      \* Cthread.state, the acknowledged or pending state of a core
    signal,     \* Cthread.signal, the last order to follow
    oldSignal,  \* Cthread.old_signal, the order to restore after debugging
    exitLoop,   \* core.atomic_exit_loop
    pc,         \* where the core's thread is in cthread_fsm
    serving,    \* the case of cthread_fsm's switch the thread is in
    onSignal,   \* cores whose thread is blocked on cond_signal
    stepper,    \* what the main thread awaits inside cthread_signal_step
    onState,    \* cores on whose cond_state the main thread is blocked
    crash       \* the assertion that aborted the process

vars == <<state, signal, oldSignal, exitLoop, pc, serving, onSignal,
          stepper, onState, crash>>

Hsm     == {"STARTED", "STOPPED", "SUSPENDED"}
Signals == Hsm \cup {"HALTED", "STEPPING"}
Pending == {"START_PENDING", "STOP_PENDING", "SUSPEND_PENDING",
            "RESUME_PENDING", "HALT_PENDING", "CONTINUE_PENDING"}
States  == Signals \cup Pending

\* The states in which an HSM order is buffered instead of followed.
Debugging == {"HALTED", "HALT_PENDING", "CONTINUE_PENDING", "STEPPING"}

Parked  == {"HALTED", "STOPPED", "SUSPENDED"}
InGuest == {"run", "check"}

TypeOK ==
    /\ state     \in [Cores -> States]
    /\ signal    \in [Cores -> Signals]
    /\ oldSignal \in [Cores -> Hsm]
    /\ exitLoop  \in [Cores -> BOOLEAN]
    /\ pc        \in [Cores -> {"fsm", "wait", "run", "check", "left"}]
    /\ serving   \in [Cores -> Signals]
    /\ onSignal  \subseteq Cores
    /\ stepper   \in [Cores -> {"idle", "STEPPING", "HALTED"}]
    /\ onState   \subseteq Cores
    /\ crash     \in {"none", "hot_loop", "old_signal", "not_halted"}

\* cthread_init and cthread_run on every core: halted, with the HSM state to
\* start from held back in old_signal.
Init ==
    /\ state = [i \in Cores |-> "HALTED"]
    /\ signal = [i \in Cores |-> "HALTED"]
    /\ oldSignal \in [Cores -> Hsm]
    /\ exitLoop = [i \in Cores |-> FALSE]
    /\ pc = [i \in Cores |-> "fsm"]
    /\ serving = [i \in Cores |-> "HALTED"]
    /\ onSignal = {}
    /\ stepper = [i \in Cores |-> "idle"]
    /\ onState = {}
    /\ crash = "none"

-----------------------------------------------------------------------------
(* The core's own thread: cthread_fsm and the hot loop of vcore_run.       *)

\* Mutant of WaitOnSign: the acknowledgement is published, nobody is told.
WaitOnSignSilently(i, s) ==
    /\ state' = [state EXCEPT ![i] = s]
    /\ UNCHANGED onState
    /\ onSignal' = onSignal \cup {i}
    /\ pc' = [pc EXCEPT ![i] = "wait"]

\* cthread_wait_on_sign up to pthread_cond_wait_: acknowledge s, wake whoever
\* waits for the acknowledgement if it is news, and block.
WaitOnSign(i, s) ==
    /\ state' = [state EXCEPT ![i] = s]
    /\ onState' = IF state[i] = s THEN onState ELSE onState \ {i}
    /\ onSignal' = onSignal \cup {i}
    /\ pc' = [pc EXCEPT ![i] = "wait"]

\* The STOP, HALT and SUSPEND cases of the switch.
FsmPark(i) ==
    /\ pc[i] = "fsm"
    /\ signal[i] \in Parked
    /\ serving' = [serving EXCEPT ![i] = signal[i]]
    /\ WaitOnSign(i, signal[i])
    /\ UNCHANGED <<signal, oldSignal, exitLoop, stepper, crash>>

\* Mutant of FsmStep: the instruction is executed before STEP is acknowledged.
FsmStepAtOnce(i) ==
    /\ pc[i] = "fsm"
    /\ signal[i] = "STEPPING"
    /\ serving' = [serving EXCEPT ![i] = "STEPPING"]
    /\ exitLoop' = [exitLoop EXCEPT ![i] = TRUE]
    /\ pc' = [pc EXCEPT ![i] = "run"]
    /\ UNCHANGED <<state, signal, oldSignal, onSignal, stepper, onState,
                   crash>>

FsmStep(i) ==
    /\ pc[i] = "fsm"
    /\ signal[i] = "STEPPING"
    /\ serving' = [serving EXCEPT ![i] = "STEPPING"]
    /\ exitLoop' = [exitLoop EXCEPT ![i] = TRUE]
    /\ WaitOnSign(i, "STEPPING")
    /\ UNCHANGED <<signal, oldSignal, stepper, crash>>

\* The START case down to vcore_run: cthread_enter_state always notifies.
FsmStart(i) ==
    /\ pc[i] = "fsm"
    /\ signal[i] = "STARTED"
    /\ serving' = [serving EXCEPT ![i] = "STARTED"]
    /\ exitLoop' = [exitLoop EXCEPT ![i] = FALSE]
    /\ state' = [state EXCEPT ![i] = "STARTED"]
    /\ onState' = onState \ {i}
    /\ pc' = [pc EXCEPT ![i] = "run"]
    /\ UNCHANGED <<signal, oldSignal, onSignal, stepper, crash>>

\* pthread_cond_wait_ returned: the order is the one already followed.
WakeToWait(i) ==
    /\ pc[i] = "wait"
    /\ i \notin onSignal
    /\ signal[i] = serving[i]
    /\ WaitOnSign(i, serving[i])
    /\ UNCHANGED <<signal, oldSignal, exitLoop, serving, stepper, crash>>

\* pthread_cond_wait_ returned to a new order.  After STEP a core that was
\* turned on executes an instruction first.
WakeToGo(i) ==
    /\ pc[i] = "wait"
    /\ i \notin onSignal
    /\ signal[i] # serving[i]
    /\ pc' = [pc EXCEPT ![i] =
                IF serving[i] = "STEPPING" /\ oldSignal[i] = "STARTED"
                THEN "run" ELSE "fsm"]
    /\ UNCHANGED <<state, signal, oldSignal, exitLoop, serving, onSignal,
                   stepper, onState, crash>>

\* One instruction of vcore_run; what it does beyond the thread layer's own
\* state is not this module's business.
Execute(i) ==
    /\ pc[i] = "run"
    /\ pc' = [pc EXCEPT ![i] = "check"]
    /\ UNCHANGED <<state, signal, oldSignal, exitLoop, serving, onSignal,
                   stepper, onState, crash>>

\* The unlocked read of atomic_exit_loop that ends the hot loop.
CheckExit(i) ==
    /\ pc[i] = "check"
    /\ pc' = [pc EXCEPT ![i] = IF exitLoop[i] THEN "left" ELSE "run"]
    /\ UNCHANGED <<state, signal, oldSignal, exitLoop, serving, onSignal,
                   stepper, onState, crash>>

\* Back from vcore_run, with the mutex again; the START case asserts that the
\* exit flag is still set.
AfterRun(i) ==
    /\ pc[i] = "left"
    /\ IF serving[i] = "STARTED" /\ ~exitLoop[i]
       THEN crash' = "hot_loop" /\ UNCHANGED pc
       ELSE pc' = [pc EXCEPT ![i] = "fsm"] /\ UNCHANGED crash
    /\ UNCHANGED <<state, signal, oldSignal, exitLoop, serving, onSignal,
                   stepper, onState>>

CoreStep(i) ==
    \/ FsmPark(i) \/ FsmStep(i) \/ FsmStart(i)
    \/ WakeToWait(i) \/ WakeToGo(i)
    \/ Execute(i) \/ CheckExit(i) \/ AfterRun(i)

-----------------------------------------------------------------------------
(* Orders from other threads.                                              *)

\* Mutant of Accepts: a start is not held back while the core is halted.
AcceptsWhileHalted(i, s) ==
    IF s = "STARTED" THEN state[i] \in {"STOPPED", "SUSPENDED", "HALTED"}
                     ELSE state[i] = "STARTED"

\* cthread_signal_hsm, what each order needs and where it leads.
Accepts(i, s) == IF s = "STARTED" THEN state[i] \in {"STOPPED", "SUSPENDED"}
                                  ELSE state[i] = "STARTED"

Buffers(i, s) == /\ state[i] \in Debugging
                 /\ IF s = "STARTED" THEN oldSignal[i] # "STARTED"
                                     ELSE oldSignal[i] = "STARTED"

NextState(i, s) == CASE s = "STOPPED"   -> "STOP_PENDING"
                     [] s = "SUSPENDED" -> "SUSPEND_PENDING"
                     [] s = "STARTED"   -> IF state[i] = "STOPPED"
                                           THEN "START_PENDING"
                                           ELSE "RESUME_PENDING"

\* Mutant of AcceptHsm: the hot loop is not told to end.
AcceptHsmQuietly(i, s) ==
    /\ Accepts(i, s)
    /\ signal' = [signal EXCEPT ![i] = s]
    /\ oldSignal' = [oldSignal EXCEPT ![i] = s]
    /\ state' = [state EXCEPT ![i] = NextState(i, s)]
    /\ onSignal' = onSignal \ {i}
    /\ UNCHANGED <<exitLoop, pc, serving, stepper, onState, crash>>

AcceptHsm(i, s) ==
    /\ Accepts(i, s)
    /\ signal' = [signal EXCEPT ![i] = s]
    /\ oldSignal' = [oldSignal EXCEPT ![i] = s]
    /\ state' = [state EXCEPT ![i] = NextState(i, s)]
    /\ exitLoop' = [exitLoop EXCEPT ![i] = (s # "STARTED")]
    /\ onSignal' = onSignal \ {i}
    /\ UNCHANGED <<pc, serving, stepper, onState, crash>>

BufferHsm(i, s) ==
    /\ Buffers(i, s)
    /\ oldSignal' = [oldSignal EXCEPT ![i] = s]
    /\ UNCHANGED <<state, signal, exitLoop, pc, serving, onSignal, stepper,
                   onState, crash>>

\* cthread_signal_start, _stop and _suspend; an order that is neither
\* accepted nor buffered changes nothing.
SignalHsm(i, s) == AcceptHsm(i, s) \/ BufferHsm(i, s)

IgnoresHsm(i, s) == ~Accepts(i, s) /\ ~Buffers(i, s)

\* cthread_get_hsm_state.
HsmState(i) == IF state[i] \in {"HALTED", "STEPPING", "HALT_PENDING"}
               THEN oldSignal[i] ELSE state[i]

\* Mutant of SignalHalt: HALTED is published without waiting for the core.
SignalHaltAtOnce(i) ==
    /\ state[i] \notin {"HALTED", "HALT_PENDING"}
    /\ signal' = [signal EXCEPT ![i] = "HALTED"]
    /\ state' = [state EXCEPT ![i] = "HALTED"]
    /\ exitLoop' = [exitLoop EXCEPT ![i] = TRUE]
    /\ onSignal' = onSignal \ {i}
    /\ UNCHANGED <<oldSignal, pc, serving, stepper, onState, crash>>

\* Mutant of SignalHalt: old_signal follows every order, HALT included.
SignalHaltRemembered(i) ==
    /\ state[i] \notin {"HALTED", "HALT_PENDING"}
    /\ signal' = [signal EXCEPT ![i] = "HALTED"]
    /\ oldSignal' = [oldSignal EXCEPT ![i] = "HALTED"]
    /\ state' = [state EXCEPT ![i] = "HALT_PENDING"]
    /\ exitLoop' = [exitLoop EXCEPT ![i] = TRUE]
    /\ onSignal' = onSignal \ {i}
    /\ UNCHANGED <<pc, serving, stepper, onState, crash>>

\* Mutant of SignalHalt: the hot loop is not told to end.
SignalHaltQuietly(i) ==
    /\ state[i] \notin {"HALTED", "HALT_PENDING"}
    /\ signal' = [signal EXCEPT ![i] = "HALTED"]
    /\ state' = [state EXCEPT ![i] = "HALT_PENDING"]
    /\ onSignal' = onSignal \ {i}
    /\ UNCHANGED <<oldSignal, exitLoop, pc, serving, stepper, onState, crash>>

\* Mutant of SignalHalt: a core that is being continued is not halted.
SignalHaltIfSettled(i) ==
    \/ state[i] = "CONTINUE_PENDING" /\ UNCHANGED vars
    \/ /\ state[i] \notin {"HALTED", "HALT_PENDING", "CONTINUE_PENDING"}
       /\ signal' = [signal EXCEPT ![i] = "HALTED"]
       /\ state' = [state EXCEPT ![i] = "HALT_PENDING"]
       /\ exitLoop' = [exitLoop EXCEPT ![i] = TRUE]
       /\ onSignal' = onSignal \ {i}
       /\ UNCHANGED <<oldSignal, pc, serving, stepper, onState, crash>>

\* cthread_signal_halt.
SignalHalt(i) ==
    /\ state[i] \notin {"HALTED", "HALT_PENDING"}
    /\ signal' = [signal EXCEPT ![i] = "HALTED"]
    /\ state' = [state EXCEPT ![i] = "HALT_PENDING"]
    /\ exitLoop' = [exitLoop EXCEPT ![i] = TRUE]
    /\ onSignal' = onSignal \ {i}
    /\ UNCHANGED <<oldSignal, pc, serving, stepper, onState, crash>>

\* Mutant of SignalContinue: the sleeping core is not woken.
SignalContinueSilently(i) ==
    /\ state[i] \in {"HALTED", "HALT_PENDING"}
    /\ oldSignal[i] \notin {"HALTED", "STEPPING"}
    /\ signal' = [signal EXCEPT ![i] = oldSignal[i]]
    /\ exitLoop' = [exitLoop EXCEPT ![i] = (oldSignal[i] # "STARTED")]
    /\ state' = [state EXCEPT ![i] = "CONTINUE_PENDING"]
    /\ UNCHANGED <<oldSignal, pc, serving, onSignal, stepper, onState, crash>>

\* cthread_signal_continue.
SignalContinue(i) ==
    /\ state[i] \in {"HALTED", "HALT_PENDING"}
    /\ IF oldSignal[i] \in {"HALTED", "STEPPING"}
       THEN /\ crash' = "old_signal"
            /\ UNCHANGED <<state, signal, exitLoop, onSignal>>
       ELSE /\ signal' = [signal EXCEPT ![i] = oldSignal[i]]
            /\ exitLoop' = [exitLoop EXCEPT ![i] = (oldSignal[i] # "STARTED")]
            /\ state' = [state EXCEPT ![i] = "CONTINUE_PENDING"]
            /\ onSignal' = onSignal \ {i}
            /\ UNCHANGED crash
    /\ UNCHANGED <<oldSignal, pc, serving, stepper, onState>>

\* cthread_signal_step down to its first wait.
SignalStep(i) ==
    /\ IF state[i] # "HALTED"
       THEN /\ crash' = "not_halted"
            /\ UNCHANGED <<signal, exitLoop, onSignal, stepper, onState>>
       ELSE /\ signal' = [signal EXCEPT ![i] = "STEPPING"]
            /\ exitLoop' = [exitLoop EXCEPT ![i] = TRUE]
            /\ onSignal' = onSignal \ {i}
            /\ stepper' = [stepper EXCEPT ![i] = "STEPPING"]
            /\ onState' = onState \cup {i}
            /\ UNCHANGED crash
    /\ UNCHANGED <<state, oldSignal, pc, serving>>

\* The main thread, awake in cthread_signal_step, does not find the state it
\* waits for and blocks again.
StepBlocks(i) ==
    /\ stepper[i] # "idle"
    /\ i \notin onState
    /\ state[i] # stepper[i]
    /\ onState' = onState \cup {i}
    /\ UNCHANGED <<state, signal, oldSignal, exitLoop, pc, serving, onSignal,
                   stepper, crash>>

\* Mutant of StepAcked: the core is let go and not woken.
StepAckedSilently(i) ==
    /\ stepper[i] = "STEPPING"
    /\ i \notin onState
    /\ state[i] = "STEPPING"
    /\ signal' = [signal EXCEPT ![i] = "HALTED"]
    /\ stepper' = [stepper EXCEPT ![i] = "HALTED"]
    /\ onState' = onState \cup {i}
    /\ UNCHANGED <<state, oldSignal, exitLoop, pc, serving, onSignal, crash>>

\* It finds the core in STEPPING: it lets it go, and waits for HALTED.
StepAcked(i) ==
    /\ stepper[i] = "STEPPING"
    /\ i \notin onState
    /\ state[i] = "STEPPING"
    /\ signal' = [signal EXCEPT ![i] = "HALTED"]
    /\ onSignal' = onSignal \ {i}
    /\ stepper' = [stepper EXCEPT ![i] = "HALTED"]
    /\ onState' = onState \cup {i}
    /\ UNCHANGED <<state, oldSignal, exitLoop, pc, serving, crash>>

\* It finds the core halted again, and returns.
StepDone(i) ==
    /\ stepper[i] = "HALTED"
    /\ i \notin onState
    /\ state[i] = "HALTED"
    /\ stepper' = [stepper EXCEPT ![i] = "idle"]
    /\ UNCHANGED <<state, signal, oldSignal, exitLoop, pc, serving, onSignal,
                   onState, crash>>

StepWait(i) == StepBlocks(i) \/ StepAcked(i) \/ StepDone(i)

\* POSIX lets pthread_cond_wait return with nobody having signalled.
SpuriousWake(i) ==
    /\ \/ i \in onSignal /\ onSignal' = onSignal \ {i} /\ UNCHANGED onState
       \/ i \in onState /\ onState' = onState \ {i} /\ UNCHANGED onSignal
    /\ UNCHANGED <<state, signal, oldSignal, exitLoop, pc, serving, stepper,
                   crash>>

\* vcore_init of a hart that is about to be started: it clears the whole core,
\* the exit flag with it, and takes no lock.  It is for a core whose thread is
\* neither executing nor about to execute the instruction of a step.
Idle(i) == pc[i] = "fsm" \/ (pc[i] = "wait" /\ serving[i] # "STEPPING")

ResetCore(i) ==
    /\ Idle(i)
    /\ exitLoop' = [exitLoop EXCEPT ![i] = FALSE]
    /\ UNCHANGED <<state, signal, oldSignal, pc, serving, onSignal, stepper,
                   onState, crash>>

-----------------------------------------------------------------------------
\* The main thread is the only one that continues and steps cores, one call
\* at a time; threads_mgr_continue_core(s), threads_mgr_step_core and main
\* only do so to a core that is halted.
MainFree == \A j \in Cores : stepper[j] = "idle"


\* Mutant of MainContinue: a core is continued without looking at its state.
MainContinueUnchecked(i) == MainFree /\ SignalContinue(i)

MainContinue(i) == MainFree /\ state[i] = "HALTED" /\ SignalContinue(i)
MainStep(i)     == MainFree /\ state[i] = "HALTED" /\ SignalStep(i)

\* Any thread may halt any core, and any hart may give any hart an HSM order.
Next ==
    /\ crash = "none"
    /\ \E i \in Cores :
        \/ CoreStep(i)
        \/ StepWait(i)
        \/ SpuriousWake(i)
        \/ SignalHalt(i)
        \/ \E s \in Hsm : SignalHsm(i, s)
        \/ ResetCore(i)
        \/ MainContinue(i)
        \/ MainStep(i)

\* The scheduler does not starve a thread that can run.
Fairness == \A i \in Cores : /\ WF_vars(crash = "none" /\ CoreStep(i))
                             /\ WF_vars(crash = "none" /\ StepWait(i))

Spec == Init /\ [][Next]_vars /\ Fairness

-----------------------------------------------------------------------------
(* Safety.                                                                 *)

\* A core published as HALTED, STOPPED or SUSPENDED is not executing: the
\* debugger reads and writes its registers, and hart_start resets the whole
\* core, with no lock and on the strength of that state alone.
ParkedCoresAreIdle ==
    \A i \in Cores : state[i] \in Parked => pc[i] \in {"fsm", "wait"}

\* While a core executes guest code and the last order is anything but START,
\* its exit flag is up: no sequence of orders can lower the flag and strand
\* the order behind a hot loop that nobody interrupts.
ExitRequestStands ==
    \A i \in Cores : pc[i] \in InGuest /\ signal[i] # "STARTED" => exitLoop[i]

\* Nobody sleeps through what it waits for: a core blocked in
\* cthread_wait_on_sign has no newer order, and the main thread blocked in
\* cthread_signal_step has not been answered.
NoLostWakeup ==
    /\ \A i \in onSignal : signal[i] = serving[i] /\ state[i] = serving[i]
    /\ \A i \in onState : state[i] # stepper[i]

\* None of the assertions of cthread.c fails: the exit flag still stands when
\* the hot loop was left, a continue never restores a debugging order, and a
\* step only meets a halted core.
NoAbort == crash = "none"

(* What a step may never do.                                               *)

\* Debugging takes precedence over the guest: no HSM order and no other core
\* takes a core out of HALTED, only the main thread's continue or step does.
HaltedIsLeftByMainOnly ==
    [][\A i \in Cores : state[i] = "HALTED" /\ state'[i] # "HALTED" =>
            \/ state'[i] = "CONTINUE_PENDING"
            \/ state'[i] = "STEPPING" /\ stepper[i] = "STEPPING"]_vars

(* Liveness.                                                               *)

\* Every order that was accepted is acknowledged, by the state it asked for
\* or by the HALTED of a debugger that overtook it.
OrdersAreServed ==
    \A i \in Cores :
        /\ state[i] = "HALT_PENDING" ~> state[i] = "HALTED"
        /\ state[i] = "STOP_PENDING" ~> state[i] \in {"STOPPED", "HALTED"}
        /\ state[i] = "SUSPEND_PENDING" ~> state[i] \in {"SUSPENDED", "HALTED"}
        /\ state[i] \in {"START_PENDING", "RESUME_PENDING"}
               ~> state[i] \in {"STARTED", "HALTED"}
        /\ state[i] = "CONTINUE_PENDING" ~> state[i] \in Hsm \cup {"HALTED"}

(* Refinement.                                                             *)

running == {i \in Cores : pc[i] \in InGuest}
parked  == {i \in Cores : state[i] \in Parked}

CA == INSTANCE CoreAccess WITH running <- running, parked <- parked

\* cthread.c keeps the promise of CoreAccess: guest execution and access from
\* outside exclude each other, and each step changes one of them for one core.
ImplementsCoreAccess == CA!Spec
=============================================================================
