----------------------------- MODULE Breakpoints -----------------------------
(***************************************************************************)
(* The software breakpoints of the GDB stub (breakpoint.c) against guest   *)
(* memory and the harts that run through it.                               *)
(*                                                                         *)
(* A breakpoint is an EBREAK written over an instruction the table saves.  *)
(* To leave one, sad_step_the_breakpoint takes it out, steps the core and  *)
(* puts it back.  Guest memory is a set of code addresses, an instruction  *)
(* is opaque and may jump anywhere.  How the manager halts, steps and      *)
(* continues cores is the matter of ThreadsMgr: here a continue or a step  *)
(* takes effect at once, and a halt leaves each core the one instruction   *)
(* it may still execute before it sees the exit flag.                      *)
(***************************************************************************)
EXTENDS Integers, FiniteSets

CONSTANTS N,               \* sys_conf.smp
          Addrs,           \* code addresses
          Instrs,          \* instructions but EBREAK
          Ebreak,
          Program,         \* what was loaded: EBREAKs of its own included
          MAX_BREAKPOINTS

ASSUME BreakpointAssumption ==
    /\ N \in Nat \ {0}
    /\ Ebreak \notin Instrs
    /\ Program \in [Addrs -> Instrs \cup {Ebreak}]
    /\ MAX_BREAKPOINTS \in Nat

Cores == 0 .. N - 1
Slots == 0 .. MAX_BREAKPOINTS - 1
All   == -1               \* the thread id of a vCont for every core

VARIABLES
    mem,        \* guest memory
    table,      \* breakpoints_g
    pc,         \* regs[PC] of each core
    run,        \* what each core is about to do
    hit,        \* cores that executed an EBREAK since the last vCont
    main,       \* where the main thread is in build_v
    act, who,   \* the vCont action it works on
    cur,        \* the core whose breakpoint it looks for
    lifted,     \* the address sad_step_the_breakpoint will restore
    stepped,    \* it returned BRK_STEPPED for the last core
    told,       \* the core the last stop reply named, All for none
    wanted      \* GDB's own view: addresses whose Z was answered OK

bpVars == <<mem, table, pc, run, hit, main, act, who, cur, lifted, stepped,
            told, wanted>>

AllHalted == \A c \in Cores : run[c] = "halted"

Slot == [status : {"EMPTY", "FULL"}, addr : Addrs,
         instr : Instrs \cup {Ebreak}]

TypeOK ==
    /\ mem \in [Addrs -> Instrs \cup {Ebreak}]
    /\ table \in [Slots -> Slot]
    /\ pc \in [Cores -> Addrs]
    /\ run \in [Cores -> {"halted", "going", "halting", "stepping"}]
    /\ hit \subseteq Cores
    /\ main \in {"serve", "look", "step", "resume", "wait"}
    /\ act \in {"c", "s"}
    /\ who \in Cores \cup {All}
    /\ cur \in Cores
    /\ lifted \in Addrs
    /\ stepped \in BOOLEAN
    /\ told \in Cores \cup {All}
    /\ wanted \subseteq Addrs

\* sad_breakpoint_reset under a halted machine.
Init ==
    /\ mem = Program
    /\ \E a \in Addrs :
         /\ table = [s \in Slots |-> [status |-> "EMPTY", addr |-> a,
                                      instr |-> Program[a]]]
         /\ pc = [c \in Cores |-> a]
         /\ lifted = a
    /\ run = [c \in Cores |-> "halted"]
    /\ hit = {}
    /\ main = "serve"
    /\ act = "c" /\ who = All /\ cur = 0
    /\ stepped = FALSE
    /\ told = All
    /\ wanted = {}

-----------------------------------------------------------------------------
(* The table.                                                              *)

FirstOf(S) == CHOOSE s \in S : \A t \in S : s <= t

Full      == {s \in Slots : table[s].status = "FULL"}
Trapped   == {table[s].addr : s \in Full}
Find(a)   == {s \in Full : table[s].addr = a}
FreeSlots == Slots \ Full

\* Mutant of Insert: an address that holds an EBREAK is recorded again.
InsertAgain(a) ==
    IF FreeSlots = {}
    THEN UNCHANGED <<mem, table>>
    ELSE /\ mem' = [mem EXCEPT ![a] = Ebreak]
         /\ table' = [table EXCEPT ![FirstOf(FreeSlots)] =
                        [status |-> "FULL", addr |-> a, instr |-> mem[a]]]

\* sad_insert_breakpoint; its result is BRK_INSERTED iff a slot was free,
\* although an address that already holds an EBREAK is left alone.
Insert(a) ==
    IF FreeSlots = {} \/ mem[a] = Ebreak
    THEN UNCHANGED <<mem, table>>
    ELSE /\ mem' = [mem EXCEPT ![a] = Ebreak]
         /\ table' = [table EXCEPT ![FirstOf(FreeSlots)] =
                        [status |-> "FULL", addr |-> a, instr |-> mem[a]]]

\* sad_remove_breakpoint of an address that has one.
Remove(a) ==
    /\ mem' = [mem EXCEPT ![a] = table[FirstOf(Find(a))].instr]
    /\ table' = [table EXCEPT ![FirstOf(Find(a))].status = "EMPTY"]

-----------------------------------------------------------------------------
(* The main thread: the Z, z and vCont packets.                            *)

Serving == main = "serve" /\ AllHalted

BuildZ(a) ==
    /\ Serving
    /\ Insert(a)
    /\ wanted' = IF FreeSlots = {} THEN wanted ELSE wanted \cup {a}
    /\ UNCHANGED <<pc, run, hit, main, act, who, cur, lifted, stepped, told>>

\* Where there is none the answer is E and nothing changes.
Buildz(a) ==
    /\ Serving
    /\ Find(a) # {}
    /\ Remove(a)
    /\ wanted' = wanted \ {a}
    /\ UNCHANGED <<pc, run, hit, main, act, who, cur, lifted, stepped, told>>

\* vCont;c, vCont;c:w and vCont;s:w.  Stepping everybody is answered E.
VCont(action, w) ==
    /\ Serving
    /\ action = "s" => w # All
    /\ act' = action /\ who' = w
    /\ cur' = IF w = All THEN 0 ELSE w
    /\ hit' = {}
    /\ told' = All
    /\ main' = "look"
    /\ UNCHANGED <<mem, table, pc, run, lifted, stepped, wanted>>

\* Mutant of NextCore: the loop runs one core too far.
NextCorePastEnd ==
    IF who = All /\ cur \in Cores
    THEN cur' = cur + 1 /\ main' = "look"
    ELSE cur' = cur /\ main' = "resume"

\* Mutant of NextCore: the loop stays where it is.
NextCoreStuck ==
    IF who = All /\ cur + 1 \in Cores
    THEN cur' = cur /\ main' = "look"
    ELSE cur' = cur /\ main' = "resume"

\* The core the loop of a continue of all cores looks at next, if any.
NextCore ==
    IF who = All /\ cur + 1 \in Cores
    THEN cur' = cur + 1 /\ main' = "look"
    ELSE cur' = cur /\ main' = "resume"

\* sad_step_the_breakpoint of a core that is on none ...
NotOnBreakpoint ==
    /\ main = "look"
    /\ Find(pc[cur]) = {}
    /\ stepped' = FALSE
    /\ NextCore
    /\ UNCHANGED <<mem, table, pc, run, hit, act, who, lifted, told, wanted>>

\* Mutant of StepOver: the others go on meanwhile.
StepOverAmongOthers ==
    /\ main = "look"
    /\ Find(pc[cur]) # {}
    /\ Remove(pc[cur])
    /\ lifted' = pc[cur]
    /\ run' = [c \in Cores |-> IF c = cur THEN "stepping" ELSE "going"]
    /\ main' = "step"
    /\ UNCHANGED <<pc, hit, act, who, cur, stepped, told, wanted>>

\* ... and of one that is: take it out, order the step, ...
StepOver ==
    /\ main = "look"
    /\ Find(pc[cur]) # {}
    /\ Remove(pc[cur])
    /\ lifted' = pc[cur]
    /\ run' = [run EXCEPT ![cur] = "stepping"]
    /\ main' = "step"
    /\ UNCHANGED <<pc, hit, act, who, cur, stepped, told, wanted>>

\* Mutant of PutBack: the trap comes back where the core is now.
PutBackHere ==
    /\ main = "step"
    /\ run[cur] = "halted"
    /\ Insert(pc[cur])
    /\ stepped' = TRUE
    /\ NextCore
    /\ UNCHANGED <<pc, run, hit, act, who, lifted, told, wanted>>

\* ... and, the step done, put it back.
PutBack ==
    /\ main = "step"
    /\ run[cur] = "halted"
    /\ Insert(lifted)
    /\ stepped' = TRUE
    /\ NextCore
    /\ UNCHANGED <<pc, run, hit, act, who, lifted, told, wanted>>

\* core(s)_continue, or core_step unless the step over was the step.
Resume ==
    /\ main = "resume"
    /\ run' = CASE act = "c" /\ who = All -> [c \in Cores |-> "going"]
                [] act = "c" /\ who # All -> [run EXCEPT ![who] = "going"]
                [] act = "s" /\ stepped   -> run
                [] OTHER                  -> [run EXCEPT ![who] = "stepping"]
    /\ main' = "wait"
    /\ UNCHANGED <<mem, table, pc, hit, act, who, cur, lifted, stepped, told,
                   wanted>>

OnBreakpoint == {c \in Cores : Find(pc[c]) # {}}

\* The stop reply, which names the first core found on a breakpoint
\* (sad_breakpoint_hartid) after a continue of all cores.
StopReply ==
    /\ main = "wait"
    /\ AllHalted
    /\ told' = CASE who # All         -> who
                 [] OnBreakpoint = {} -> All
                 [] OTHER             -> FirstOf(OnBreakpoint)
    /\ main' = "serve"
    /\ UNCHANGED <<mem, table, pc, run, hit, act, who, cur, lifted, stepped,
                   wanted>>

Halting == [c \in Cores |-> IF run[c] = "going" THEN "halting" ELSE run[c]]

\* ^C: the reply does not wait for the cores.  GDB's next packet does here.
InterruptReply ==
    /\ main = "wait"
    /\ \A c \in Cores : run[c] # "stepping"
    /\ run' = Halting
    /\ main' = "serve"
    /\ UNCHANGED <<mem, table, pc, hit, act, who, cur, lifted, stepped, told,
                   wanted>>

-----------------------------------------------------------------------------
(* The cores.                                                              *)

\* Any instruction but EBREAK: it may leave the pc anywhere.
Execute(c) ==
    /\ run[c] # "halted"
    /\ mem[pc[c]] # Ebreak
    /\ \E a \in Addrs : pc' = [pc EXCEPT ![c] = a]
    /\ run' = IF run[c] = "going" THEN run ELSE [run EXCEPT ![c] = "halted"]
    /\ UNCHANGED <<mem, table, hit, main, act, who, cur, lifted, stepped,
                   told, wanted>>

\* EBREAK under the debugger halts every core and leaves the pc alone.
HitEbreak(c) ==
    /\ run[c] # "halted"
    /\ mem[pc[c]] = Ebreak
    /\ hit' = hit \cup {c}
    /\ run' = [Halting EXCEPT ![c] = "halted"]
    /\ UNCHANGED <<mem, table, pc, main, act, who, cur, lifted, stepped, told,
                   wanted>>

\* A core that sees its exit flag before another instruction.
LeaveLoop(c) ==
    /\ run[c] = "halting"
    /\ run' = [run EXCEPT ![c] = "halted"]
    /\ UNCHANGED <<mem, table, pc, hit, main, act, who, cur, lifted, stepped,
                   told, wanted>>

CoreRuns(c) == Execute(c) \/ HitEbreak(c) \/ LeaveLoop(c)
MainRuns == NotOnBreakpoint \/ StepOver \/ PutBack \/ Resume \/ StopReply

GdbAsks == \/ \E a \in Addrs : BuildZ(a) \/ Buildz(a)
           \/ \E action \in {"c", "s"}, w \in Cores \cup {All} :
                VCont(action, w)
           \/ InterruptReply

Next == MainRuns \/ GdbAsks \/ \E c \in Cores : CoreRuns(c)

\* Threads that can run do; GDB may never say anything.
Spec == /\ Init /\ [][Next]_bpVars
        /\ WF_bpVars(MainRuns)
        /\ \A c \in Cores : WF_bpVars(CoreRuns(c))

-----------------------------------------------------------------------------
(* Properties.                                                             *)

\* Guest memory is the loaded program with an EBREAK at each address of the
\* table, once each, and what the table saves is the program's instruction:
\* taking the breakpoints out in any order gives the program back.
TrapsOverProgram ==
    /\ \A a \in Addrs : mem[a] = IF a \in Trapped THEN Ebreak ELSE Program[a]
    /\ \A s \in Full : /\ table[s].instr = Program[table[s].addr]
                       /\ table[s].instr # Ebreak
                       /\ \A t \in Full : table[s].addr = table[t].addr => s = t

\* What GDB asked for and was told OK is in place whenever cores go or GDB is
\* served, a full table and steps over breakpoints notwithstanding; the only
\* addresses accepted and not recorded are EBREAKs of the guest itself.
AskedIsTrapped ==
    main # "step" => Trapped = {a \in wanted : Program[a] # Ebreak}

\* A core passes an address GDB has a breakpoint at only as the one core the
\* stub steps over it: no other core slips through while the trap is lifted,
\* and a core that is continued stops where it must.
NoBreakpointPassed ==
    [][\A c \in Cores : /\ pc[c] # pc'[c]
                        /\ pc[c] \in wanted
                        => main = "step" /\ c = cur /\ pc[c] = lifted]_bpVars

\* After a continue of all cores the stop reply names, if any, a core that
\* executed the EBREAK of its breakpoint, "the one that halted everything".
\* It does not hold: another core may have come to rest on a breakpoint it has
\* not executed.
StopNamesHit == who = All /\ told # All => told \in hit

\* The stub never hangs in the middle of a vCont: stepping over breakpoints,
\* one core after the other, ends with the cores resumed.
StepOversEnd == main = "look" ~> main = "wait"
=============================================================================
