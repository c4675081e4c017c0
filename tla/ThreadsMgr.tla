----------------------------- MODULE ThreadsMgr -----------------------------
(***************************************************************************)
(* The operations on all the cores at once (threads_mgr2.c) and the thread *)
(* that uses them: main, which either starts core 0 and spins, or serves a *)
(* GDB session (build_v and wait_for_halt of the stub).  Cores come in     *)
(* through EBREAK, which halts everybody.                                  *)
(*                                                                         *)
(* The state and the steps of each core's thread are those of Cthread.     *)
(*                                                                         *)
(* threads_mgr_are_halted and the loop that checks before continuing read  *)
(* one core after the other; a core found HALTED stays so until the reader *)
(* itself continues or steps it, so each of these loops is one step.       *)
(***************************************************************************)
EXTENDS Naturals

CONSTANTS N,             \* ctx.cores
          DebugModes,    \* the values of ctx.debug to consider
          MaxInterrupts  \* bound: how often GDB sends ^C

ASSUME ManagerAssumption == /\ N \in Nat \ {0}
                            /\ DebugModes \subseteq BOOLEAN
                            /\ MaxInterrupts \in Nat

Cores   == 0 .. (N - 1)
Main    == N
Threads == 0 .. N
Free    == N + 1         \* halt_all_n_run_mutex is held by no thread

VARIABLES state, signal, oldSignal, exitLoop, pc, serving, onSignal, stepper,
          onState, crash

ctVars == <<state, signal, oldSignal, exitLoop, pc, serving, onSignal, stepper,
            onState, crash>>

Ct == INSTANCE Cthread

VARIABLES
    debug,       \* ctx.debug
    mpc,         \* what the main thread is doing
    target,      \* the core a vCont action or the stepping loop is at
    cmd,         \* the vCont action: continue all, continue one, step one
    interrupts,  \* number of ^C sent
    haltLock,    \* the holder of halt_all_n_run_mutex
    call,        \* per thread, the call made on behalf of other cores
    arg,         \* per thread, the loop index or the hart of that call
    exited       \* the SV32_CRASH that ended the process

mgrVars == <<debug, mpc, target, cmd, interrupts, haltLock, call, arg, exited>>

MainPlaces == {"boot", "spin", "stub", "step_all", "step_one", "step",
               "stepping", "continuing", "continue_one", "wait_halt",
               "halting"}

MgrTypeOK ==
    /\ debug \in BOOLEAN
    /\ mpc \in MainPlaces
    /\ target \in 0 .. N
    /\ cmd \in {"all", "one", "step"}
    /\ interrupts \in 0 .. MaxInterrupts
    /\ haltLock \in Threads \cup {Free}
    /\ call \in [Threads -> {"none", "lock", "halting", "reset", "start",
                             "done"}]
    /\ arg \in [Threads -> 0 .. N]
    /\ exited \in {"none", "step", "continue_one", "continue_all"}

\* threads_mgr_init: only core 0 is turned on; main goes on to run_debug or
\* to the continue of core 0.
MgrInit ==
    /\ Ct!Init
    /\ oldSignal = [i \in Cores |-> IF i = 0 THEN "STARTED" ELSE "STOPPED"]
    /\ debug \in DebugModes
    /\ mpc = IF debug THEN "stub" ELSE "boot"
    /\ target = 0
    /\ cmd = "all"
    /\ interrupts = 0
    /\ haltLock = Free
    /\ call = [t \in Threads |-> "none"]
    /\ arg = [t \in Threads |-> 0]
    /\ exited = "none"

\* Mutant of AllHalted: a core on its way to HALTED counts.
AllHalting == \A i \in Cores : state[i] \in {"HALTED", "HALT_PENDING"}

\* threads_mgr_are_halted.
AllHalted == \A i \in Cores : state[i] = "HALTED"

-----------------------------------------------------------------------------
(* threads_mgr_halt_cores, by a core that executes EBREAK or by main.      *)

HaltLock(t) ==
    /\ call[t] = "lock"
    /\ haltLock = Free
    /\ haltLock' = t
    /\ call' = [call EXCEPT ![t] = "halting"]
    /\ arg' = [arg EXCEPT ![t] = 0]
    /\ UNCHANGED <<ctVars, debug, mpc, target, cmd, interrupts, exited>>

\* Mutant of HaltNext: the halting core leaves itself out.
HaltNextOthers(t) ==
    /\ call[t] = "halting"
    /\ arg[t] < N
    /\ IF arg[t] = t \/ state[arg[t]] \in {"HALTED", "HALT_PENDING"}
       THEN UNCHANGED ctVars
       ELSE Ct!SignalHalt(arg[t])
    /\ arg' = [arg EXCEPT ![t] = @ + 1]
    /\ UNCHANGED <<debug, mpc, target, cmd, interrupts, haltLock, call, exited>>

HaltNext(t) ==
    /\ call[t] = "halting"
    /\ arg[t] < N
    /\ IF state[arg[t]] \in {"HALTED", "HALT_PENDING"}
       THEN UNCHANGED ctVars
       ELSE Ct!SignalHalt(arg[t])
    /\ arg' = [arg EXCEPT ![t] = @ + 1]
    /\ UNCHANGED <<debug, mpc, target, cmd, interrupts, haltLock, call, exited>>

\* Mutant of HaltUnlock: the mutex is kept.
HaltUnlockForgotten(t) ==
    /\ call[t] = "halting"
    /\ arg[t] = N
    /\ call' = [call EXCEPT ![t] = "done"]
    /\ arg' = [arg EXCEPT ![t] = 0]
    /\ UNCHANGED <<ctVars, debug, mpc, target, cmd, interrupts, haltLock,
                   exited>>

HaltUnlock(t) ==
    /\ call[t] = "halting"
    /\ arg[t] = N
    /\ haltLock' = Free
    /\ call' = [call EXCEPT ![t] = "done"]
    /\ arg' = [arg EXCEPT ![t] = 0]
    /\ UNCHANGED <<ctVars, debug, mpc, target, cmd, interrupts, exited>>

HaltCores(t) == HaltLock(t) \/ HaltNext(t) \/ HaltUnlock(t)

-----------------------------------------------------------------------------
(* Core i executes.                                                        *)

\* An instruction that calls nothing, or the end of one that did.
Execute(i) ==
    /\ call[i] \in {"none", "done"}
    /\ Ct!Execute(i)
    /\ call' = [call EXCEPT ![i] = "none"]
    /\ UNCHANGED <<debug, mpc, target, cmd, interrupts, haltLock, arg, exited>>

\* sad_step_the_breakpoint is stepping core i over a breakpoint: it has put
\* back the instruction that was there, and that was not an EBREAK.
SteppingOver(i) == mpc = "stepping" /\ target = i /\ cmd # "step"

\* EBREAK under the debugger.
Ebreak(i) ==
    /\ debug
    /\ ~SteppingOver(i)
    /\ pc[i] = "run"
    /\ call[i] = "none"
    /\ call' = [call EXCEPT ![i] = "lock"]
    /\ UNCHANGED <<ctVars, debug, mpc, target, cmd, interrupts, haltLock, arg,
                   exited>>

\* The rest of cthread_fsm.
FollowOrders(i) ==
    /\ \/ Ct!FsmPark(i) \/ Ct!FsmStep(i) \/ Ct!FsmStart(i)
       \/ Ct!WakeToWait(i) \/ Ct!WakeToGo(i)
       \/ Ct!CheckExit(i) \/ Ct!AfterRun(i)
    /\ UNCHANGED mgrVars

-----------------------------------------------------------------------------
(* The main thread.                                                        *)

\* Without -d: core 0 is continued and main spins.
BootContinue ==
    /\ mpc = "boot"
    /\ Ct!SignalContinue(0)
    /\ mpc' = "spin"
    /\ UNCHANGED <<debug, target, cmd, interrupts, haltLock, call, arg, exited>>

\* A vCont packet: "c" for all, "c" or "s" for one thread.
RecvContinueAll ==
    /\ mpc = "stub"
    /\ mpc' = "step_all" /\ cmd' = "all" /\ target' = 0
    /\ UNCHANGED <<ctVars, debug, interrupts, haltLock, call, arg, exited>>

RecvContinue(i) ==
    /\ mpc = "stub"
    /\ mpc' = "step_one" /\ cmd' = "one" /\ target' = i
    /\ UNCHANGED <<ctVars, debug, interrupts, haltLock, call, arg, exited>>

RecvStep(i) ==
    /\ mpc = "stub"
    /\ mpc' = "step" /\ cmd' = "step" /\ target' = i
    /\ UNCHANGED <<ctVars, debug, interrupts, haltLock, call, arg, exited>>

\* Mutant of NoBreakpointHere: the loop over the cores goes one too far.
NoBreakpointHerePastEnd ==
    /\ \/ mpc = "step_all" /\ target <= N /\ mpc' = mpc /\ target' = target + 1
       \/ mpc = "step_one" /\ mpc' = "continue_one" /\ target' = target
    /\ UNCHANGED <<ctVars, debug, cmd, interrupts, haltLock, call, arg, exited>>

\* sad_step_the_breakpoint on a core that is not at a breakpoint.
NoBreakpointHere ==
    /\ \/ mpc = "step_all" /\ target < N /\ mpc' = mpc /\ target' = target + 1
       \/ mpc = "step_one" /\ mpc' = "continue_one" /\ target' = target
    /\ UNCHANGED <<ctVars, debug, cmd, interrupts, haltLock, call, arg, exited>>

\* threads_mgr_step_core, to step over a breakpoint or because GDB said so.
StepCore ==
    /\ mpc \in {"step_all", "step_one", "step"}
    /\ target < N
    /\ IF state[target] # "HALTED"
       THEN exited' = "step" /\ UNCHANGED <<ctVars, mpc>>
       ELSE Ct!MainStep(target) /\ mpc' = "stepping" /\ UNCHANGED exited
    /\ UNCHANGED <<debug, target, cmd, interrupts, haltLock, call, arg>>

\* In cthread_signal_step.
StepWait ==
    /\ mpc = "stepping"
    /\ Ct!StepBlocks(target) \/ Ct!StepAcked(target)
    /\ UNCHANGED mgrVars

StepReturns ==
    /\ mpc = "stepping"
    /\ Ct!StepDone(target)
    /\ \/ cmd = "all"  /\ mpc' = "step_all" /\ target' = target + 1
       \/ cmd = "one"  /\ mpc' = "continue_one" /\ target' = target
       \/ cmd = "step" /\ mpc' = "wait_halt" /\ target' = target
    /\ UNCHANGED <<debug, cmd, interrupts, haltLock, call, arg, exited>>

\* Mutant of TryContinueAll: continuing does not exclude halting.
TryContinueAllUnlocked ==
    /\ mpc = "step_all"
    /\ target = N
    /\ IF AllHalted THEN mpc' = "continuing" /\ UNCHANGED exited
                    ELSE exited' = "continue_all" /\ UNCHANGED mpc
    /\ target' = 0
    /\ UNCHANGED <<ctVars, debug, cmd, interrupts, haltLock, call, arg>>

\* threads_mgr_continue_cores: it gives way to a halt in progress, and insists
\* on everybody being halted.
TryContinueAll ==
    /\ mpc = "step_all"
    /\ target = N
    /\ IF haltLock # Free
       THEN mpc' = "wait_halt" /\ UNCHANGED <<haltLock, exited>>
       ELSE IF AllHalted
            THEN mpc' = "continuing" /\ haltLock' = Main /\ UNCHANGED exited
            ELSE exited' = "continue_all" /\ UNCHANGED <<mpc, haltLock>>
    /\ target' = 0
    /\ UNCHANGED <<ctVars, debug, cmd, interrupts, call, arg>>

ContinueNext ==
    /\ mpc = "continuing"
    /\ target < N
    /\ Ct!MainContinue(target)
    /\ target' = target + 1
    /\ UNCHANGED <<debug, mpc, cmd, interrupts, haltLock, call, arg, exited>>

ContinueUnlock ==
    /\ mpc = "continuing"
    /\ target = N
    /\ haltLock' = Free
    /\ mpc' = "wait_halt"
    /\ target' = 0
    /\ UNCHANGED <<ctVars, debug, cmd, interrupts, call, arg, exited>>

\* threads_mgr_continue_core.
ContinueOne ==
    /\ mpc = "continue_one"
    /\ IF state[target] # "HALTED"
       THEN exited' = "continue_one" /\ UNCHANGED <<ctVars, mpc>>
       ELSE Ct!MainContinue(target) /\ mpc' = "wait_halt" /\ UNCHANGED exited
    /\ UNCHANGED <<debug, target, cmd, interrupts, haltLock, call, arg>>

\* Mutant of SeesHalted: one halted core is enough.
SeesOneHalted ==
    /\ mpc = "wait_halt"
    /\ \E i \in Cores : state[i] = "HALTED"
    /\ mpc' = "stub"
    /\ UNCHANGED <<ctVars, debug, target, cmd, interrupts, haltLock, call, arg,
                   exited>>

\* wait_for_halt sees every core halted: the stop reply is sent.
SeesHalted ==
    /\ mpc = "wait_halt"
    /\ AllHalted
    /\ mpc' = "stub"
    /\ UNCHANGED <<ctVars, debug, target, cmd, interrupts, haltLock, call, arg,
                   exited>>

\* wait_for_halt reads ^C: it halts the cores and leaves at once.
RecvInterrupt ==
    /\ mpc = "wait_halt"
    /\ interrupts < MaxInterrupts
    /\ interrupts' = interrupts + 1
    /\ mpc' = "halting"
    /\ call' = [call EXCEPT ![Main] = "lock"]
    /\ UNCHANGED <<ctVars, debug, target, cmd, haltLock, arg, exited>>

\* Mutant of InterruptReply: it does not wait for the loop over the cores.
InterruptReplyAtOnce ==
    /\ mpc = "halting"
    /\ mpc' = "stub"
    /\ UNCHANGED <<ctVars, debug, target, cmd, interrupts, haltLock, call, arg,
                   exited>>

InterruptReply ==
    /\ mpc = "halting"
    /\ call[Main] = "done"
    /\ call' = [call EXCEPT ![Main] = "none"]
    /\ mpc' = "stub"
    /\ UNCHANGED <<ctVars, debug, target, cmd, interrupts, haltLock, arg,
                   exited>>

\* What main does without being told to.
MainRuns ==
    \/ BootContinue
    \/ NoBreakpointHere \/ StepCore \/ StepWait \/ StepReturns
    \/ TryContinueAll \/ ContinueNext \/ ContinueUnlock \/ ContinueOne
    \/ SeesHalted
    \/ InterruptReply
    \/ HaltCores(Main)

\* What GDB makes it do.
MainIsTold ==
    \/ RecvContinueAll
    \/ \E i \in Cores : RecvContinue(i) \/ RecvStep(i)
    \/ RecvInterrupt
=============================================================================
