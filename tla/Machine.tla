------------------------------- MODULE Machine -------------------------------
(***************************************************************************)
(* The whole multi-hart machine: the core threads (Cthread), the manager   *)
(* and the main thread (ThreadsMgr), and the guest's SBI calls of the hart *)
(* state management extension (hsm_ext in sbi.c) that harts make while     *)
(* they execute.                                                           *)
(***************************************************************************)
EXTENDS ThreadsMgr

CONSTANTS Starters,    \* harts whose program calls hart_start
          Startable,   \* harts it calls it for, itself included or not
          MaxStarts,   \* bound: hart_start calls per hart
          Stoppers,    \* harts whose program calls hart_stop
          Suspenders   \* harts whose program calls hart_suspend, retentive

ASSUME GuestAssumption == /\ Starters \subseteq Cores
                          /\ Startable \subseteq Cores
                          /\ MaxStarts \in Nat
                          /\ Stoppers \subseteq Cores
                          /\ Suspenders \subseteq Cores

VARIABLE starts  \* per hart, the hart_start calls made for it

allVars == <<ctVars, mgrVars, starts>>

TypeOK == /\ Ct!TypeOK /\ MgrTypeOK
          /\ starts \in [Cores -> 0 .. MaxStarts]

-----------------------------------------------------------------------------
(* hsm_ext, on hart i.                                                     *)

\* One cthread_signal_* call, whatever the core's state makes of it.
Order(i, s) == \/ Ct!SignalHsm(i, s)
               \/ Ct!IgnoresHsm(i, s) /\ UNCHANGED ctVars

\* Hart Start looks at the hart's state (and refuses a started hart), ...
HartStart(i, j) ==
    /\ pc[i] = "run" /\ call[i] = "none"
    /\ starts[j] < MaxStarts
    /\ starts' = [starts EXCEPT ![j] = @ + 1]
    /\ Ct!HsmState(j) \notin {"START_PENDING", "STARTED"}
    /\ call' = [call EXCEPT ![i] = "reset"]
    /\ arg' = [arg EXCEPT ![i] = j]
    /\ UNCHANGED <<ctVars, debug, mpc, target, cmd, interrupts, haltLock,
                   exited>>

\* ... clears the hart with vcore_init, exit flag included, ...
HartStartReset(i) ==
    /\ call[i] = "reset"
    /\ exitLoop' = [exitLoop EXCEPT ![arg[i]] = FALSE]
    /\ call' = [call EXCEPT ![i] = "start"]
    /\ UNCHANGED <<state, signal, oldSignal, pc, serving, onSignal, stepper,
                   onState, crash>>
    /\ UNCHANGED <<debug, mpc, target, cmd, interrupts, haltLock, arg, exited>>

\* ... and signals it: three steps that others can come between.
HartStartSignal(i) ==
    /\ call[i] = "start"
    /\ Order(arg[i], "STARTED")
    /\ call' = [call EXCEPT ![i] = "done"]
    /\ arg' = [arg EXCEPT ![i] = 0]
    /\ UNCHANGED <<debug, mpc, target, cmd, interrupts, haltLock, exited>>

\* Hart Stop: itself.
HartStop(i) ==
    /\ pc[i] = "run" /\ call[i] = "none"
    /\ Order(i, "STOPPED")
    /\ call' = [call EXCEPT ![i] = "done"]
    /\ UNCHANGED <<debug, mpc, target, cmd, interrupts, haltLock, arg, exited>>

\* Hart Suspend, retentive: the suspend type in A0 (zero) is also what is
\* taken for the hart id, so the hart that is suspended is hart 0.
HartSuspend(i) ==
    /\ pc[i] = "run" /\ call[i] = "none"
    /\ Order(0, "SUSPENDED")
    /\ call' = [call EXCEPT ![i] = "done"]
    /\ UNCHANGED <<debug, mpc, target, cmd, interrupts, haltLock, arg, exited>>

-----------------------------------------------------------------------------
\* The thread of core i runs on; it does so until it blocks.
CoreRuns(i) ==
    \/ /\ \/ FollowOrders(i)
          \/ Execute(i)
          \/ Ebreak(i)
          \/ HaltCores(i)
          \/ HartStartReset(i)
          \/ HartStartSignal(i)
          \/ i \in Stoppers /\ HartStop(i)
          \/ i \in Suspenders /\ HartSuspend(i)
       /\ UNCHANGED starts
    \/ i \in Starters /\ \E j \in Startable : HartStart(i, j)

SpuriousWake(i) == Ct!SpuriousWake(i) /\ UNCHANGED <<mgrVars, starts>>

Alive == crash = "none" /\ exited = "none"

\* main spins for ever when it does not serve GDB.
Spin == mpc = "spin" /\ UNCHANGED allVars

Init == MgrInit /\ starts = [i \in Cores |-> 0]

Next ==
    /\ Alive
    /\ \/ \E i \in Cores : CoreRuns(i) \/ SpuriousWake(i)
       \/ (MainRuns \/ MainIsTold) /\ UNCHANGED starts
       \/ Spin

\* Every thread that can run does, in the end; GDB need not send anything.
Fairness == /\ \A i \in Cores : WF_allVars(Alive /\ CoreRuns(i))
            /\ WF_allVars(Alive /\ MainRuns /\ UNCHANGED starts)

Spec == Init /\ [][Next]_allVars /\ Fairness

-----------------------------------------------------------------------------
(* Safety.                                                                 *)

\* None of the assertions of cthread.c fails.
NoAssertFails == crash = "none"

\* The manager never dies of "CONTINUE ... BROKEN INVARIANT.": it continues
\* and steps cores only when they are halted.
NoManagerCrash == exited = "none"

\* When the stub serves GDB packets after a stop reply, every core is halted:
\* GDB reads registers and memory of a machine at rest.  After a ^C it is only
\* true that every core has been told to halt.
StubServesHalted ==
    mpc = "stub" => /\ \A i \in Cores : state[i] \in {"HALTED", "HALT_PENDING"}
                    /\ interrupts = 0 => \A i \in Cores : state[i] = "HALTED"

\* Stopping the cores is one operation: while a thread halts them one after
\* the other, none of those already halted is resumed behind its back.
HaltAllIsAll ==
    \A t \in Threads : call[t] = "halting" =>
        \A i \in 0 .. (arg[t] - 1) : state[i] \in {"HALTED", "HALT_PENDING"}

\* An HSM order that meets the debugger is buffered for later: a core that
\* reaches an HSM state is in the state that was last ordered.
BufferedOrderFollowed ==
    \A i \in Cores : state[i] \in Ct!Hsm => state[i] = oldSignal[i]

(* Liveness.                                                               *)

\* cthread_signal_step is synchronous: the main thread comes back from it.
StepIsSynchronous == mpc = "stepping" ~> mpc # "stepping"

\* A hart that hits a breakpoint gives the prompt back to GDB: everybody
\* halts, whoever else halts, stops, starts or suspends at the same time.
BreakpointStopsMachine ==
    (\E i \in Cores : call[i] = "lock") ~> mpc = "stub"

\* After a ^C the cores do come to rest, unless GDB orders something first.
InterruptStopsMachine ==
    (mpc = "stub" /\ Alive) ~> (AllHalted \/ mpc # "stub")

\* A continue of all cores that meets a halt in progress gives way
\* (threads_mgr2.c:126-128) and the stub waits for a stop it has not ordered:
\* GDB gets its reply all the same, also when the halt began before a ^C was
\* answered.
StopIsReported ==
    (mpc = "wait_halt" /\ cmd = "all" /\ \E i \in Cores : call[i] = "halting")
        ~> mpc = "stub"

\* A hart whose start was given success gets to run.
StartedHartRuns ==
    \A i \in Cores : oldSignal[i] = "STARTED" ~> state[i] = "STARTED"

(* Refinement.                                                             *)

\* The machine drives the core threads the way they expect: continue and step
\* only meet halted cores, vcore_init only idle ones, and no thread is kept
\* from running on.
DrivesCoresRight == Ct!Spec

\* The safety half of it.
DrivesCoresSafely == Ct!Init /\ [][Ct!Next]_ctVars
=============================================================================
