# A verification of Switch-V32 in TLA+

Switch-V32 emulates a RISC-V (RV32) machine: each virtual core ("hart") is a
pthread that interprets guest instructions, either one user program whose
system calls are forwarded to the host (USER build) or bare-metal supervisor
code with several harts and an SBI (SUPERVISOR build). A GDB stub
(`stubb_a_dub`) can be attached to it. The hard part of this program is its
concurrency: harts, hart state management (HSM) calls, breakpoints and the
debugger all order the same threads about. That is the core of this project;
around it are the instructions, the traps, the atomics, the packet layer and the
system calls.

Paths below are relative to the repository.

## 1. Inventory

| part | state | operations | talks to |
|---|---|---|---|
| core threads, `src/cthread.c` | per core: state, signal, old_signal, exit flag, mutex, two condition variables | cthread_fsm (the thread), signal_start / stop / suspend, signal_halt / continue / step, get_state, get_hsm_state | driven by SBI, manager, main |
| threads manager, `src/threads_mgr2.c` | the cores, the halt-all mutex | init, halt_cores, continue_core(s), step_core, are_halted | called by the stub's main thread and by EBREAK |
| main and debug session, `src/main.c`, `src/debug.c`, `builder.c` | ctx.debug, place in the vCont protocol | boot, vCont c / s, wait_for_halt, ^C, registers and memory | manager, guest memory |
| SBI HSM, `src/supervisor/sbi.c` | none of its own | hart_start, hart_stop, hart_get_status, hart_suspend | core threads of other harts, vcore_init |
| execution loop, `src/cpu.c` | registers, exit flag, reservation | vcore_run, instructions, vcore_init | memory, traps |
| atomics and memory, `src/memory.h`, `memory.c` | guest memory | loads, stores, LR/SC, AMO, mapping, copies for system calls | all harts at once |
| breakpoints, `breakpoint.c` | table of address and saved instruction | insert, remove, step over, find halting hart | guest memory, step_core |
| packet layer, `parser.c`, `buffer.c`, `extract.c`, `stub.c` | parser state, two buffers, ack mode | read, parse, answer, resend | socket |
| traps and CSRs, `src/supervisor/trap.c`, `cpu_supervisor.c` | sstatus, sie, sip, sepc, mode | dispatch_trap, check_interrupts, CSR instructions | execution loop |
| virtual memory, `src/supervisor/vm.c` | page tables in guest memory | vm_tree_walk (never called) | memory |
| user system calls, `src/user/emu.c` | descriptor map, program break | open, close, read, write, brk, ... | host |
| SDL, `src/sdl.c` | event ring, palette, frame buffer | pull_events, drawing | guest, SDL |
| loader, arguments | | run once before any thread starts | memory |

What makes each part correct, in short: no order to a core is lost or stranded
and nobody touches a core that executes (core threads); stopping and resuming
everybody are single operations and the debugger always gets the machine back
(manager, session); an order the guest was told succeeded takes effect (SBI);
a read-modify-write is atomic and a store conditional fails on interference
(atomics); memory without the debugger's traps is the program the user loaded
(breakpoints); each packet is answered exactly once, and with acknowledgements
however the socket cuts the stream (packet layer); an instruction word does what the RISC-V manual says
(execution loop); an interrupt saves the address of the next instruction (traps); the guest never
touches the emulator's own descriptors, and its input events arrive in order
(system calls, SDL).

Hard behaviours: orders from several threads meeting on one core; the exit flag
that is read without the mutex; debugging that has to remember the HSM order it
overrides; loops over several cores that are not atomic; waiting on condition
variables; a ^C that is answered before it has taken effect; a compare and swap
that another hart gets ahead of; three interrupt tests in a row of which each may
enter a handler; descriptors that come and go under numbers the guest chooses.
`PROJECT.json` lists each hazard at its line.

## 2. Modules

| module | what it is |
|---|---|
| `CoreAccess` | the abstract promise: executing a core and being invited to it from outside exclude each other |
| `Cthread` | `cthread.c` and the exit protocol of `vcore_run`; implements `CoreAccess` |
| `CthreadProofs` | its theorems, for every set of cores |
| `ThreadsMgr` | `threads_mgr2.c`, the boot and the vCont session of the main thread, EBREAK; drives an instance of `Cthread` |
| `Machine` | `ThreadsMgr` and the HSM calls of `sbi.c`: the whole multi-hart machine |
| `MachineProofs` | its theorems, for every number of harts and every guest |
| `Breakpoints` | `breakpoint.c` and the Z, z and vCont packets, over guest memory and running harts |
| `BreakpointsProofs` | its theorems, for every number of harts, program and table size |
| `Exchange` | the abstract promise of the packet layer: each command is executed once and then answered once |
| `Packets` | `parser.c`, `buffer.c`, the command loop of `stub.c` and the ^C poll, at a socket that cuts the stream; implements `Exchange` |
| `PacketsProofs` | its theorems, for every size of packets and reads and every number of commands and disturbances |
| `SharedWord` | the abstract promise of the atomics: an instruction reads, changes the word at once, or overwrites it once at a later moment |
| `Atomics` | the A opcode of `cpu.c` and the accessors of `memory.h`, several harts on one word; implements `SharedWord` |
| `AtomicsProofs` | its theorems, for every number of harts, width and program |
| `BitWords` | words as sets of bits: shifts, masks, two's complement |
| `Instructions` | decoding and executing an instruction word, `cpu.c` |
| `Isa` | the reference: encoding and effect of each instruction as the RISC-V manual defines them |
| `IsaProofs` | that every legal instruction word is taken apart into the fields it was made of and has the effect of its instruction, for every operand and width |
| `Hart` | `supervisor/trap.c` and `cpu_supervisor.c` in the loop of `vcore_run` |
| `HartProofs` | its theorems, for every width, program and operands |
| `EventQueue` | the abstract promise of the input events: in order, and lost only while the guest is behind |
| `Sdl` | `sdl.c`: the window and the event ring; implements `EventQueue` |
| `User` | `user/emu.c`: the system calls of a user build, with `Sdl` |
| `UserProofs` | theorems of `User` and `Sdl`: the guest never reaches the emulator's descriptors, and its events arrive in order, for every size of ring and queue |
| `MC...` | what TLC runs |

`Machine`, `Breakpoints` and `Packets` meet in the same main thread and each
abstracts what another one details: the manager is atomic in `Breakpoints`,
where a breakpoint lies is a choice in `ThreadsMgr`, and in `Packets` both are
one flag, `running`. In the same way the loop of `vcore_run` is in four modules:
its exit protocol in `Cthread`, its instructions in `Instructions`, its memory
accesses in `Atomics`, its traps in `Hart`. In `Hart` the instructions of
`Instructions` and `Atomics` are one action that leaves the pc anywhere, and the
threads around it raise and lower the exit flag as they like.

### Cthread

The variables `state`, `signal`, `oldSignal` and `exitLoop` are the fields of
the same name of the C structs. `pc` is where the thread is: `fsm` (about to
take the mutex in `cthread_fsm`), `wait` (in `cthread_wait_on_sign`), `run`
and `check` (in `vcore_run`, before an instruction and before the read of the
exit flag), `left` (out of `vcore_run`, before the assertion). `serving` is
the case of the switch it is in. `onSignal` are the cores blocked on
`cond_signal`, `onState` the cores on whose `cond_state` the main thread is
blocked inside `cthread_signal_step`, and `stepper` what it is waiting for.
`crash` names the assertion that failed.

What runs between lock and unlock (or wait) is one action, because nothing else
may touch the fields meanwhile; the exit flag is the exception, and its read in
the hot loop is an action of its own. The instruction itself is opaque. Since
the C enums share their values and are cast into each other, states and signals
share their names here.

The environment of the module is the weakest its callers allow: any HSM order
and any halt, to any core, at any time; continue and step by one thread, one at
a time, to a core that is halted (both callers in `threads_mgr2.c` test that
first, and only that thread ends HALTED). `cthread_signal_continue` would also
take a core in HALT_PENDING; no caller lets it, and the mutant
`MainContinueUnchecked` shows the assertion that fails if one did. `ResetCore`
is `vcore_init` by `hart_start`, allowed on a core that is not executing;
whether `sbi.c` keeps to that is a question to `Machine`.

### ThreadsMgr and Machine

`mpc` is what the main thread is doing, `target` and `cmd` the vCont action it
works on, `haltLock` the holder of `halt_all_n_run_mutex`. `call` and `arg` are,
per thread, where it is in `threads_mgr_halt_cores` or in `hart_start`, with the
loop index or the hart it is about. Every step of a core's thread is the step of
`Cthread`. The loops that halt and continue the cores take one core per action;
the loops that only look whether everybody is halted are one action, which is
exact because a core found HALTED stays so until the thread that looks changes
it. `hart_start` is three actions (look at the state, `vcore_init`, signal)
because nothing protects it as a whole. `exited` names the SV32_CRASH that ended
the process.

Guest programs are the constants `Starters`, `Stoppers` and `Suspenders` (which
harts make which call) and `Startable` (for which harts `hart_start` is called,
the caller included: `sbi.c:106-129` does not refuse it). `MaxStarts` bounds the
calls for each hart that are not refused. A start of hart 0, or of a hart that
was on before, is a restart, and the subject of the run `restart`; any hart that executes may hit an EBREAK at any time
under the debugger, except while it is stepped over a breakpoint, where the
instruction that was put back is not an EBREAK (`breakpoint.c:25`). The
retentive suspend acts on hart 0 whoever calls it, as in the code
(`sbi.c:98,101,155`).

### Breakpoints

`mem` is guest memory, `table` is `breakpoints_g`, `pc` the program counter of
each core, `run` what it is about to do, `main` the place of the main thread in
`build_v`: `look` (about to call `sad_step_the_breakpoint` for core `cur`),
`step` (inside it, the trap at `lifted` taken out), `resume` (the loop is done)
and `wait` (`wait_for_halt`). `act` and `who` are the vCont action; `stepped` is
BRK_STEPPED. Three variables are there for the properties: `hit` (the cores that
executed an EBREAK), `told` (the core the stop reply names) and `wanted`, the
addresses whose Z was answered OK, which is what GDB believes.

A halt, a continue and a step take effect at once here, `ThreadsMgr` being about
how they do; what a halt leaves open is kept: a core may execute one more
instruction before it sees its exit flag (`Execute`, `LeaveLoop`), which may be
another EBREAK. An instruction leaves the program counter anywhere. A ^C is
answered before the cores have halted, as in the code, but the next packet is
served only when they have; the window between is the subject of
`MCMachineResume.cfg`. `Program` may contain EBREAKs of the guest itself: `sad_insert_breakpoint` answers OK to them
and records nothing. `sad_step_the_breakpoint` is followed by the put-back
whatever happens meanwhile. Left out: memory packets that write over a trapped
address, and guests that write to their own code.

### Packets and Exchange

A byte is its kind and the number of the command it belongs to, so the model
tells a cut, lost or doubled packet from a whole one without characters. `wire`
is what GDB wrote and the stub has not read; each read takes as many bytes as
the socket chooses, at most `READ_MAX` (`initial_size`). `inbuf` and `out` are
the data of the two buffers, `parser` is `parser_g`, `stubAck` is
`ack_enabled_g`, `back` what GDB has not read yet. `Parse` folds the turns of
the loop of `sad_parser_pkt` over what the last read added, which is where
`parse_idx` stands between two reads. `ran` counts executed commands; commands
differ only in whether they answer at once (`quick`), when the guest has halted
(`vCont`), or end the acknowledgements (`noAck`).

GDB is external. It gives one command at a time, acknowledges, rejects, repeats
after a - or a time-out and sends ^C, the last two only for a vCont, the one
command whose answer waits for the guest. `MaxCmds`, `MaxRepeats`, `MaxNaks` and
`MaxGarbled` bound how often. `RoughNoAck` chooses how rough the socket and GDB
are once there are no acknowledgements: if it is FALSE, a read then brings all
that was written, GDB sends no ^C and the answer to QStartNoAckMode arrives
well. That is a precondition of the passing run and not of the code, where the
socket cuts the stream in both modes (`stub.c:102-129`), the stub polls for ^C in
both (`builder.c:56`), and the parser, without acknowledgements, has finished a
packet at its `#` (`parser.c:52-57`): a cut there, or a ^C that crosses the answer
(`parser.c:48`), makes it discard the command that came with it.
`MCPacketsNoAck.cfg` shows that.

### Atomics and SharedWord

`mem` is the word, `rd` what the last instruction left in its destination
register, `at` where each hart is: between instructions, in the loop of `mem_cas`,
or repeating a store conditional. `op`, `val`, `answer` and `expected` are the
local variables of that loop; `ll_sc_flag` and `reserved` the fields of the hart.
Each access of the host to the word is one action, so another hart comes between
any two. `FetchOps` are the five operations the host does atomically, as
functions; min and max are those that read first and then compare and swap
until they overwrite, even if the comparison would now come out differently; LR
keeps the value, and SC swaps against whatever value the loop finds. `stale` and
`broken` are history variables: whether the word has changed since it was read,
or reserved. A store conditional without a reservation writes 1 and does not
advance the pc, so the hart repeats it until an interrupt takes it elsewhere.

The refinement maps a hart in the loop to one that owes an overwriting
(`pending`); its retries stutter.

### BitWords, Instructions and Isa

An instruction word is the set of its 32 bits that are one, and so is a
register, with `W` bits. The macros and shifts of `cpu.h` and `cpu.c` are
operations on such sets (`Field`, `Up`, `Down`, `DownSigned` for a shift of a
signed number). `Execute` is one turn of the `switch` of `vcore_run`, with a
function per opcode; the sub-tables by function code are those of the code, also
where it goes on after an illegal one. A byte has `W / 4` bits, so that bytes,
half words and words relate as in the code.

`Isa` is written from the architecture and shares nothing with `Instructions` but
the words: `Encode` is what an assembler does, `Effect` computes in numbers (a
quotient is the number with the right remainder, a bitwise operation goes bit by
bit). `Turn` executes the program `Path`, here a jump that leaves its return
address in the register ZERO, which the code does not protect but resets.
`IsHart` and `Emitted` bound the states and instructions of an instance: memory
lies within the address space, operands are in the ranges of their formats.

### Hart

`at` is the place in the loop: `run`, `exit` (before the exit check), `check`
(before `check_interrupts`), `out`. `csr` maps the names of the supervisor CSRs to
words. The general registers are left out: an operand is any word of `Operands`,
and any instruction may stand at any address of `Code`, since the other harts and
the debugger write to memory. What the macros of `csr.h` compute and
`dispatch_trap` drops is not stored here either. `Writable` is what a CSR
instruction may set in each CSR; `OtherCsr` are the functions whose codes no
instruction has. The three tests of `check_interrupts` follow one another in
`InterruptsServed`, each on the result of the one before. Counters, the
debugger's register writes and user mode, which no code enters, are left out.

### User, Sdl and EventQueue

`fds` is the kernel's descriptor table as far as the emulator uses it: what each
of `2 * BASE` descriptors refers to, of which the guest's descriptor g is
`BASE + g`. The kernel gives the lowest free one (`Lowest`). `Open` is the whole
OPEN call: open, then `dup2` to the place above `BASE`, then close. `display` is
the descriptor SDL opens for its connection, which is what a window changes for
the descriptor table. `Pulled` is a turn of the loop of `sdl_pull_events` over an
event of SDL's queue; that an event is polled before the ring is tested is kept.
The guest takes events at its tail. `EventQueue` sees the events in the ring and
in SDL's queue as one sequence; a full ring drops the one behind its last.

## 3. Runs

| run | bounds | question |
|---|---|---|
| `cthread` | 2 cores | every property of `Cthread` below |
| `machine` | 3 harts, no ^C, each secondary hart started once by hart 0; hart 0 may stop, hart 1 may suspend | with and without the debugger: is it always in control, and are the threads used the way they expect |
| `interrupt` | 2 harts, one ^C | what is left of it after a ^C |
| `restart` | 2 harts, two starts of a hart that stops itself | violated, see findings |
| `breakpoints` | 2 harts, 4 addresses (one with an EBREAK of the guest), table of 2 | does stepping over, setting and clearing keep program and breakpoints |
| `stop_reply` | the same | violated, see findings |
| `packets` | 3 commands, reads of up to 5 of a packet's 6 bytes, one repetition, one rejected answer, one garbled command | is each command executed and answered once, with acknowledgements however the stream is cut, without them on a stream that is not |
| `atomics` | 2 harts, words 0 to 2, operands 1 and 2, swap, add, signed max, unsigned min | what can a guest rely on when harts share a word |
| `isa` | registers of 4 bits, all values of two of them, four immediates | does each instruction word do what the manual says |
| `hart` | words of 10 bits, three code addresses, four operands | what holds of traps and interrupts under any sequence of CSR writes |
| `trap` | the same | violated, see findings |
| `user` | `BASE` 5, two files, six guest descriptors, SDL queue of 2, ring of 4 | do the guest's system calls keep to the guest's descriptors, do its events arrive |

Cores of `Cthread` meet only in the main thread's step, which serves one at a
time, so two of them show every interaction the module has. In `Machine` three
harts give a halting hart, a hart being halted and a bystander being started.
One ^C is enough because the main thread is back at its packet loop after it. A
table of two with three instructions to trap fills up; two harts can both stand
on breakpoints when everybody is continued, so that the loop over them lifts two
traps in turn. A read of five bytes cannot hold a packet of six, and
may hold the end of one and the start of the next; three commands allow one to
end the acknowledgements between two others.

Two harts show all of `Atomics`: what others do to a hart is to change the word.
Three values are the fewest in which signed and unsigned order differ and a
comparison can come out differently after a change. Four bits have a sign bit, a
smallest number whose negation overflows, and bytes of one bit with their own
sign; the immediates are a negative one, all ones, zero and an odd one, and the
fields of the instruction word keep their 32 bits. Neither decoding nor effects
depend on such samples: `IsaProofs` proves both for all operands and for the 32
bits of the code, and `MCIsa` assumes the first of ten patterns of bits and of some
operands at the borders of each format as a check of the statements. Ten bits are
the fewest that hold the highest interrupt source (bit 9); as the interrupt bit
of SCAUSE is the highest of the word, `Hart` has it coincide with bit 9 there, and
`HartProofs` is about every width. The operands of `hart` set all enable bits, no
bit, a legal vectored and an illegal mode. A ring of four holds three events, so
a queue of two fills it in two pulls, wraps it in three and leaves an event behind
when it is full; five descriptors below `BASE` are the three streams, the one that
open gives, and the one that SDL opens.

**cthread.** `ParkedCoresAreIdle`: a core published as HALTED, STOPPED or
SUSPENDED is not executing. `ExitRequestStands`: a core in its hot loop with any
order but START has its exit flag up. `NoLostWakeup`: nobody sleeps although
what it waits for is there. `NoAbort`: no assertion fails.
`HaltedIsLeftByMainOnly`: HSM orders and halts never resume a halted core.
`OrdersAreServed`: each pending state ends in the state it asked for, or in the
HALTED of a debugger that overtook it. `ImplementsCoreAccess`: refinement of
`CoreAccess`.

**machine.** `NoAssertFails` and `NoManagerCrash`: neither an assertion nor a
"BROKEN INVARIANT" exit. `StubServesHalted`: packets are served on a machine at
rest. `HaltAllIsAll`: nobody is resumed behind the back of a thread that halts
everybody. `StepIsSynchronous`: a step returns. `BreakpointStopsMachine`: a hart
that hits a breakpoint gives GDB the prompt back. `DrivesCoresRight`: the
composed machine implements `Cthread`, its fairness included, so what is proved
about `Cthread` holds of the cores of this machine.

**interrupt.** `InterruptStopsMachine`: the cores do come to rest after a ^C if
GDB waits. `StopIsReported`: a continue of all cores that meets a halt in progress
gives way to it (`threads_mgr2.c:126-128`), and the stub then waits for a stop that
it has not ordered; it gets one. Only with a ^C can the two meet: the EBREAK that
halts was executed before the cores had come to rest, the ^C was answered all the
same, and GDB's next continue finds the mutex taken. The mutant, a halt that leaves
out a core that is being continued, loses that stop. `NoAssertFails` and the weaker half of `StubServesHalted` survive it. Here and
in the runs about ^C and restarts the process may really end, so a deadlock is
not an error.

**breakpoints.** `TrapsOverProgram`: memory without the traps of the table is
the program. `AskedIsTrapped`: what GDB set and was told OK is in place whenever
cores go. `NoBreakpointPassed`: only the core that is stepped over a breakpoint
moves on from it. `StepOversEnd`: stepping over breakpoints ends.

**packets.** `ParsedPacketIsWhole`: a packet the parser finishes is the command
GDB is waiting for, complete. `ImplementsExchange`: no command is executed twice
or answered before it was executed. `EveryCommandAnswered`: while acknowledgements
are on, nothing is lost to a cut, to a repetition or to the bytes a reset
discards, and a ^C is noticed. Once they are off the run says this only of reads
that bring all that was written and of a GDB that sends no ^C; beyond that it is
false (`MCPacketsNoAck.cfg`). A command that arrives garbled is excepted, for the
reason given below.

**atomics.** `ImplementsSharedWord`: refinement of `SharedWord`, that is, one
change of the word per instruction, and an answer that was in it.
`AtomicUnlessDisturbed`: min, max and SC are what the architecture says, as long
as nobody changed the word since it was read or reserved.
`RetryNeedsChanges`: a hart goes round in `mem_cas` for ever only if the word
changes for ever.

**isa.** `ExecutesRiscv`: every instruction the compiler can emit, on every state
of the instance, has the effect the manual gives it. Left out by `Comparable`:
accesses outside of memory, and the two cases of JALR under `MCIsaJalr.cfg` below.

**hart.** `StvecLegal`: the assertion of `dispatch_trap` on the mode cannot fail.
`InterruptsResumable`: of the three tests of `check_interrupts` at most one
enters a handler, so SEPC is the interrupted program's when it is entered. That is
not yet a return: as finding 3 says, the next check enters the handler again.

**user.** `OwnDescriptorsKept`: no sequence of calls closes, replaces or adds a
descriptor of the emulator, or hands the guest the one of SDL.
`ImplementsEventQueue`: events arrive in order across the wrap of the ring, and a
pull loses at most one, to a full ring. The run ends where the emulator exits, so
a deadlock is not an error.

Fairness: a thread that can take a step does so eventually (`WF` per core thread
and for the main thread's own steps), which is what an operating system
scheduler gives; spurious wakeups, HSM calls, breakpoints and what GDB sends are
never forced to happen. In `Packets` the stub and GDB's reading of answers are weakly
fair; GDB need not ask anything and the guest need not halt. In `Atomics` a hart
in `mem_cas` goes on; which instructions it executes is free. The other modules
have no liveness property and assume no fairness.

### Extra configurations

These are not runs of `PROJECT.json`. Each asks TLC for a behaviour that breaks a
property one could wish for, and finds one.

| configuration | property | what TLC finds |
|---|---|---|
| `MCMachineResume.cfg` | `NoManagerCrash` | `wait_for_halt` orders the halt on ^C and returns without waiting; the stub replies and serves the next packet. A vCont then finds a core in HALT_PENDING and the emulator exits with "CONTINUE ... BROKEN INVARIANT." (`builder.c:56-59`, `threads_mgr2.c:88,113,134`), although "Should continue all only if they were all stopped" (`threads_mgr2.c:130`). Registers read in that window belong to a core that still executes |
| `MCMachineStep.cfg` | `StepIsSynchronous` | in the same window another core may execute an EBREAK; its halt of all cores hits the core that is being stepped before the main thread saw it in STEPPING, and the main thread never returns from `cthread_signal_step` (`cthread.c:174`) |
| `MCMachineBoot.cfg` | `StartedHartRuns` | without `-d` only core 0 is continued; a secondary hart that is started stays HALTED for ever, although the call returns SBI_SUCCESS |
| `MCMachineBuffer.cfg` | `BufferedOrderFollowed` | a `hart_start` that finds the hart in CONTINUE_PENDING is written to `old_signal` after the continue has read it, and lost |
| `MCPacketsNoAck.cfg` | `EveryCommandAnswered` | without acknowledgements a packet is finished at its `#` (`parser.c:54`). If a read ends between the `#` and the two digits, the digits are taken for the start of the next packet, and the parser error discards what came with them, which GDB will not repeat |
| `MCAtomicsDisturbed.cfg` | `NeverLowered`, `BrokenFails` | a max that was decided on an older word replaces a larger one; an SC succeeds although the reservation is broken (`memory.h:77-81`, `cpu.c:466-479`) |
| `MCIsaJalr.cfg` | `JalrIsRiscv` | JALR with rd = rs1 jumps to the return address, and an odd target stays odd (`cpu.c:371`) |
| `MCUserOpen.cfg` | `OpenKeepsFiles` | the second file that is opened replaces the first: both get the guest descriptor that is free below `BASE` (`emu.c:310-322`) |

## 4. Findings

Where the code does not do what its own text says:

1. `restart`: `hart_start` on a hart in a pending state passes the test of
   `sbi.c:118` and its unlocked `vcore_init` clears the exit flag that a stop or
   halt has just raised: the hot loop assertion of `cthread.c:242` fails, or the
   order is never followed.
2. `stop_reply`: the stop reply names the first core found on a breakpoint
   (`breakpoint.c:90-98`), which may have been halted in front of it by the core
   that hit. The hit of the other core is never reported: the next continue steps
   it over.
3. `trap`: the macros that should save and clear the interrupt enable are
   expressions whose value `trap.c:11-19` drops. SSTATUS keeps its SIE bit, so the
   handler is interrupted again at once and SEPC loses the program.

Not covered by a run:

- The reply to ^C leaves before the cores have halted, and the next vCont may end
  the emulator (`MCMachineResume.cfg`).
- `cthread_get_hsm_state` returns CONTINUE_PENDING (11) to the guest, and
  hart_suspend takes its suspend type for the hart id.
- After its own `-` the stub skips everything up to the next `+`, so the command
  GDB repeats is not parsed.
- If the answer to QStartNoAckMode is rejected, the `-` arrives with the
  acknowledgements already off and is taken for the start of a packet.
- A buffer that grew is reallocated at its initial size with its old
  `data_size` (`buffer.c:41`).
- Of the CSR instructions only CSRRW has the function code of the instruction set
  (`cpu_supervisor.c:10`), none advances the pc, and one on a user-level address
  uses a pointer that was never set (`cpu_supervisor.c:123`).
- An illegal function code raises ILL_INS and then advances the pc, into the
  handler's second instruction.
- An SC without a reservation repeats itself; an LR without an SC keeps interrupts
  off (`cpu.c:471`, `trap.c:52`). Comments call both intended.
- The step of a debugger leaves `vcore_run` before the interrupt check: a program
  that is only stepped never takes an interrupt.
- Once acknowledgements are off, a ^C that crosses the answer of a vCont makes the
  parser report an error and discard what came with it (`builder.c:56`,
  `parser.c:48`), as does a cut after the `#` (`MCPacketsNoAck.cfg`).
- `vcore_init` of a `hart_start` that is still under way after an early answer to
  ^C clears the exit flag of a hart that GDB steps (section 5).
- `sdl_init` refuses no second call, which changes the size of the ring and leaves
  the first window; `sdl_pull_events` uses the guest's head without a check
  (`sdl.c:175-183`). `User` calls the one once and gives the other a head inside
  the ring.
- GETTIMEOFDAY writes to the address in A0 after A0 has become its result
  (`emu.c:292`); the error of `sdl_init` is dropped (`emu.c:335`); BRK has no lower
  bound; `emu_args` takes each of several spaces for an argument.

## 5. Proofs

`CthreadProofs` proves for every set of cores, with no assumption on it, that
the specification satisfies `TypeOK`, `ParkedCoresAreIdle`,
`ExitRequestStands`, `NoLostWakeup`, `NoAbort` and `HaltedIsLeftByMainOnly`, and
that it implements `CoreAccess`.

None of these is inductive. What is, `IInv`, describes for each place of a core's
thread which states and orders can meet there: `AtFsm` (a thread between two
rounds is not published as STARTED, STOPPED or SUSPENDED), `AtWait` (the order
being served stands, or has been replaced by one the acknowledged state admits;
a step keeps the flag up), `InRun` (started with the flag down and no newer
order, or on the way out with the flag up), `Asleep` and `StepOrder` (STEP stands
only while the main thread awaits it). One lemma per action shows that it
preserves `IInv`: `CoreInv` of the core it moves, and `SameCore` for all others,
of which it leaves every field alone. `ParkedIdle` then reads off `InRun` that an
executing core is in none of the parked states, `NeverAborts` that a core out of
its hot loop has the flag up, and so on. For the refinement each action either
moves the thread of a core that is not parked (`AccessRun`), or parks or releases
a core that is not executing (`AccessPark`), or stutters.

TLC checked `IInv` as an invariant of `MCCthread`, and from every state that
satisfies it for one core, before it was proved.

`BreakpointsProofs` proves `TypeOK`, `TrapsOverProgram`, `AskedIsTrapped` and
`NoBreakpointPassed` from `BreakpointAssumption` alone: at least one core, any
program over instructions that are not EBREAK and EBREAKs of the guest's own,
any table size. The first two are not inductive, because putting a trap back
needs a free slot and an instruction that is the program's. Its `IInv` adds
`Lifted`: while `sad_step_the_breakpoint` is at work the traps are those GDB
wants less the one at `lifted`, a slot is free, the stepped core has not moved
and the others are halted; and that all cores are halted in `look` and `resume`.
`InsertBreakpoint` and `RemoveBreakpoint` are the lemmas about the table; both
rest on `FirstOfSlots`, that the search for a slot has a result, which follows
from the well-foundedness of `<`. `NoBreakpointPassed` follows from `IInv`: a
core can only leave an address GDB wants if no trap is there, and then the
address is `lifted` and the core is `cur`.

`MachineProofs` proves, for every number of harts, every choice of starting,
stopping and suspending harts, with and without the debugger, from
`ManagerAssumption` and `GuestAssumption`: `TypeOK` and `StubServesHalted`;
without ^C (`MaxInterrupts = 0`) `NoManagerCrash` and `HaltAllIsAll`; while each
hart is started once (`OneStart`: hart 0 by the boot, any other by at most one
`hart_start` that is not refused) `NoAssertFails`, ^C included; and under `OneStart`
without ^C (`Undisturbed`) that each step of the machine is one `Cthread` allows
(`DrivesCoresSafely`). These are the conditions of the runs `machine` and
`interrupt`, and those under which the statements hold: `MCMachineResume.cfg`, the
run `restart` and what is said of `ResetMeetsIdle` below are their counterexamples.

Its `IInv` restates the invariant of `Cthread` with the exit flags apart, because
the reset of `hart_start` may clear them: `AtFsm`, `AtWait`, `InRun`, `StepOrder`
say where a core's thread is for each of its states, and mention the flag of a
hart that runs only under `OneStart`, that of one that is stepped only under
`Undisturbed`. On top of it are `Stepper` (main is in `cthread_signal_step`
for at most one core, its `target`), `CallsOf` (a hart makes calls only while it
executes, the mutex belongs to the thread that halts), `HaltsOf` (the cores a
halting thread has passed are still halting) and `Places` (which cores are halted
at each place of main). The core threads meet these through `Quiet`: nothing but a
STEP order takes a core out of HALTED on its own. `NoStepOrder` is the key to
`HaltsOf`: while a thread halts the cores, main either is not stepping, or steps
the very core that halts, which is past its STEP order. `ThreadKeeps` covers every
step of a thread that resumes nobody, `MainMoves` and `MainContinues` those of
main.

`StartsInv` is why one start for each hart is safe although `vcore_init` takes no
lock: a hart that was not started yet, or that some hart is about to signal, has a
thread that was never on (`NeverOn`), and at most one hart is about to signal it.
`StaysOff` shows that no order but START changes the former, halts, steps and
continues of the debugger included. So the flag that `HartStartReset` clears is not
that of a hart that executes. It could be that of a hart GDB steps, which executes
nothing but waits for the order to do so; `ResetMeetsIdle` shows that it is not, as
all harts but that one are then HALTED, and the caller executes. That needs the
absence of ^C: after one that was answered early the caller may still execute, and
a stepped hart whose flag it clears runs on.

`AtomicsProofs` proves `TypeOK`, `AtomicUnlessDisturbed` and
`ImplementsSharedWord` from `AtomicsAssumption`: a word has at least two values
and the host's operations stay in it. `IInv` says of a hart in `mem_cas` that
unless the word is `stale` for it, the word is the one expected and, for min and
max, the one it answers and still loses to the operand (`InCas`), and of a hart
with a reservation that unless it is `broken` the word is the one reserved
(`Reservation`). For the refinement `PendingOf` follows the mapped `pending`
through each action.

`PacketsProofs` proves from `PacketsAssumption`, for every size of packets and
reads and any number of commands, repetitions, rejected answers and garbled
commands: `TypeOK` (`TypeCorrectness`), `ParsedPacketIsWhole` (`PacketsAreWhole`)
and `ImplementsExchange` (`ExchangeRefinement`), each while the execution is
`Calm`: acknowledgements are on, or nothing cuts or crosses what is on the wire
without them. With acknowledgements there is no condition at all on how the
socket cuts the stream. Calm is needed: without it a packet is finished at its
`#`, and `MCPacketsNoAck.cfg` shows what then happens if a read ends there; and the
`-` of a rejected answer to QStartNoAckMode is taken for the start of a packet. If `RoughNoAck` is FALSE, as in the
run, every execution is calm and `ExchangeWithoutNoise` has no condition left.

The invariant is about `Stream`, which is `inbuf \o wire`: a read moves bytes from
the second to the first and does not change it, so how the socket cuts the stream
disappears from the argument. `Place` says for each state of the parser what is
in the stream before and after the place it has come to: with acknowledgements
there is never more than one `+` or `-` in it (`Plus`, `Answered`), the command
after a `+` is the one GDB waits for, and what follows it came while a vCont ran.
`Stuck` is the state in which the stub skips a repeated command (section 4):
nothing else is in the stream, so nothing is executed twice. `Waiting` keeps the
packet of a vCont whole while the polls for ^C read into the same buffer.

`Parse` is a fold and the prover knows no induction over folds. `FoldExists` shows
that the function that the library's fold chooses exists, by giving it;
`ParseTurns` takes it apart into a sequence of parser states, one per byte; and
`ParseKeeps` is an induction over that sequence, for which `Induction` takes a
minimal counterexample from the well-foundedness of `<`. `AckTurn` and `BareTurn`
are its steps.

`IsaProofs` proves `AllImmediatesDecode` without any assumption: for all sets of
32 bits, and whatever the other fields hold, the five decoders return the
sign-extended immediate. The argument goes bit by bit; the sign bits of a
`DownSigned` are those from the sign's place up. `AllInstructionsDecode` puts the
rest of the word around it: of every instruction of `Table`, with any registers and
any immediate that its format can hold (`Legal`), the word that `Encode` puts
together is taken apart into opcode, function codes, register numbers and
immediate. `Pieces` says that the parts of a word do not overlap, `RegisterIs` that
the sum of powers by which RD, RS1 and RS2 become numbers is the number encoded
and `Fits` that an immediate in the range of its format has nothing but its sign
above it.

`InstructionsAreRiscv` proves `ExecutesRiscv` from `IsaAssumption`: registers of 4,
8, 16 or 32 bits, any choice of the 32 registers with 0 and 1 among them, any
immediates of 12 bits (times 2 and 4096 for the formats that shift them), any
state of the hart to begin in and any program. The invariant is `IsHart`, with
whatever was left in the register ZERO; what needs an argument is that `Execute`,
which works on bits, and `Effect`, which calculates, agree. It goes in four steps.

- Numbers are sums of powers of two that a fold adds up in an order `CHOOSE`
  decides. `SumOf` replaces each by `Below(w, 32)`, the sum in the order of the
  bits: the partial sums are a function on 0 to 32 (`Sums`), `FoldedIsTotal`
  compares any order with it by a minimal counterexample in the number of
  elements, and `Induction` serves all inductions over bits.
- `Split`, `BitOf` and `Cut` say of such sums what long multiplication says: the
  bits from `s` on count `2 ^ s` times, a bit is found by division, the low bits are
  the remainder. From these follow `WordOfNum`, `NumOfWord` and `SameWord`, words as
  numbers modulo `2 ^ W`.
- Each operation on bits is then compared with its arithmetic: `PlusMinus`,
  `ShiftUp`, `ShiftDown`, `ShiftDownSigned`, `SignedDivision` (C rounds towards
  zero; the architecture asks for the quotient with the right remainder, of which
  `DivIsQuotient` shows that there is one only), `ValueIs` and `SignExtendedIs` for
  loads, `StoredBytes` for stores. `Calculates` sums them up for the function codes,
  of which `CodesDiffer` says that no two are confused.
- One lemma for each class of instructions (`RegisterInstruction` to
  `StoreInstruction`) joins this to the decoded fields; `ImmediateInstruction` needs
  that no immediate makes the word look like a shift to the handler, which tests the
  codes of SRAI, SRLI and SLLI first.

That JALR is right only if rd is not rs1 and the target is even is where the proof
of `LinkInstruction` uses `Comparable`; `MCIsaJalr.cfg` has the counterexample.

`HartProofs` proves `TypeOK`, `StvecLegal` and `InterruptsResumable` from
`HartAssumption`, for every width from ten bits, program and operands. `IInv` is
the first two together; it is inductive because SIP keeps nothing but its software
bit, `Writable` removes mode 2 and 3 of STVEC, and traps touch neither. The
software bit is also why the three tests cannot both dispatch.

`UserProofs` proves `OwnDescriptorsKept` from `UserAssumption`, for every `BASE`
above 3 and any descriptors passed. Its `IInv` adds what is below `BASE` at each
moment: the streams, SDL's connection and nothing else, so that the lowest free
descriptor is below `BASE` and the move upward leaves it free again. `TypeOK`
needs the same invariant, as SDL's connection has a descriptor from below `BASE`
only because those the emulator keeps are free.

It also proves `ImplementsEventQueue` from `SdlAssumption`, for every ring whose
size is a power of two and every length of SDL's queue. `Content` are the events
between tail and head of the ring, across its end or not. `Untaken`, which is what
`EventQueue` sees, is what is left when SDL's queue is put behind it one by one,
as far as the ring has room; both that and the loop of `sdl_pull_events` are folds
over the queue, laid out turn by turn as in `PacketsProofs`. While the loop goes
on, the ring grows by the event that the other fold adds; the turn that finds the
ring full drops one, and all later ones stay in SDL's queue, so a pull leaves
`Untaken` alone or loses the one event behind a full ring.

Only model-checked:

- liveness: `OrdersAreServed`, `StepIsSynchronous`, `BreakpointStopsMachine`,
  `InterruptStopsMachine`, `StopIsReported`, `StepOversEnd`,
  `EveryCommandAnswered`, `RetryNeedsChanges`, and the part of `DrivesCoresRight`
  that is fairness.

Each safety property that a run expects to hold is proved under conditions that
the constants of that run satisfy: no more than the assumptions on the constants
that its module states for `cthread`, `breakpoints`, `atomics`, `isa`, `hart` and
`user`; under `OneStart`, `MaxInterrupts = 0` or both, as above, for `machine` and
`interrupt`; with `RoughNoAck = FALSE`, or while the
execution is `Calm`, for `packets`.

## 6. Not modelled, and what could follow

- The loader, arguments and `emu_args`: sequential code that runs once before any
  thread exists, better served by tests.
- Socket calls, target description, register and memory packets, drawing: copies
  and I/O. Of these, memory packets over breakpoints (`builder.c:233`) would be
  worth adding to `Breakpoints`.
- `vm_tree_walk`: it has no caller.
- The capacity of the packet buffers; memory orders of the host; the copies of
  system calls into guest memory; user mode of a supervisor build and the
  user-level CSRs, whose access is undefined behaviour.
- Proofs: what is left is liveness, which stays with TLC.
