-------------------------- MODULE BreakpointsProofs --------------------------
(***************************************************************************)
(* Breakpoints, for every number of cores, every program and every size of *)
(* the table.                                                              *)
(***************************************************************************)
EXTENDS Breakpoints, WellFoundedInduction, TLAPS

USE BreakpointAssumption

\* The table while sad_step_the_breakpoint has the trap at `lifted` out: the
\* freed slot is waiting for it, and only the core it steps can move.
Lifted ==
    /\ lifted \in wanted
    /\ Program[lifted] # Ebreak
    /\ Trapped = {a \in wanted : Program[a] # Ebreak} \ {lifted}
    /\ FreeSlots # {}
    /\ run[cur] = "stepping" => pc[cur] = lifted
    /\ \A c \in Cores : c # cur => run[c] = "halted"

\* The inductive invariant.
IInv ==
    /\ TypeOK
    /\ TrapsOverProgram
    /\ AskedIsTrapped
    /\ main = "step" => Lifted
    /\ main \in {"look", "resume"} => AllHalted

-----------------------------------------------------------------------------
(* The operators on the table.                                             *)

\* A nonempty set of slots has a first one, so the search of breakpoint.c
\* for a free slot ends at one.
LEMMA FirstOfSlots ==
    ASSUME NEW S, S \subseteq Nat, S # {}
    PROVE  FirstOf(S) \in S
<1> DEFINE Less == {ss \in Nat \X Nat : ss[1] < ss[2]}
<1>1. IsWellFoundedOn(Less, Nat)
  BY NatLessThanWellFounded DEF OpToRel
<1>2. PICK x \in S : \A y \in S : <<y, x>> \notin Less
  <2> HIDE DEF Less
  <2> QED BY <1>1, WFMin
<1>3. ASSUME NEW y \in S
      PROVE  x <= y
  <2>1. x \in Nat /\ y \in Nat
    OBVIOUS
  <2>2. ~(y < x)
    <3>1. <<y, x>> \notin Less
      BY <1>2
    <3>2. QED
      BY <2>1, <3>1, Zenon
  <2>3. QED
    BY <2>1, <2>2
<1>4. QED
  BY <1>3 DEF FirstOf

Traps(m, t) == m \in [Addrs -> Instrs \cup {Ebreak}] /\ t \in [Slots -> Slot]

\* sad_remove_breakpoint puts the program's instruction back, frees a slot and
\* touches no other breakpoint.
LEMMA RemoveBreakpoint ==
    ASSUME TypeOK, TrapsOverProgram,
           NEW a \in Addrs, Find(a) # {}, Remove(a)
    PROVE  /\ Traps(mem', table') /\ TrapsOverProgram'
           /\ Trapped' = Trapped \ {a}
           /\ a \in Trapped /\ Program[a] # Ebreak
           /\ FreeSlots' # {}
<1> DEFINE s == FirstOf(Find(a))
<1>1. s \in Find(a)
  BY FirstOfSlots DEF Find, Full, Slots
<1>2. s \in Full /\ table[s].addr = a
  BY <1>1 DEF Find
<1>3. /\ table[s].instr = Program[a] /\ Program[a] # Ebreak
      /\ \A t \in Full : table[t].addr = a => t = s
  BY <1>2 DEF TrapsOverProgram
<1> HIDE DEF s
<1>4. /\ mem' = [mem EXCEPT ![a] = table[s].instr]
      /\ table' = [table EXCEPT ![s].status = "EMPTY"]
  BY DEF Remove, s
<1>5. Full' = Full \ {s}
  BY <1>2, <1>4 DEF Full, TypeOK, Slot
<1>6. \A t \in Full' : table'[t] = table[t]
  BY <1>4, <1>5 DEF Full, TypeOK
<1>7. Trapped' = Trapped \ {a}
  BY <1>2, <1>3, <1>5, <1>6 DEF Trapped
<1>8. Traps(mem', table')
  BY <1>2, <1>3, <1>4 DEF Traps, TypeOK, Slot, Full
<1>9. TrapsOverProgram'
  <2>1. \A b \in Addrs :
          mem'[b] = IF b \in Trapped' THEN Ebreak ELSE Program[b]
    BY <1>3, <1>4, <1>7 DEF TrapsOverProgram, TypeOK
  <2>2. QED
    BY <2>1, <1>5, <1>6 DEF TrapsOverProgram
<1>10. s \in FreeSlots'
  BY <1>2, <1>5 DEF FreeSlots, Full
<1>11. QED
  BY <1>2, <1>3, <1>7, <1>8, <1>9, <1>10 DEF Trapped

\* sad_insert_breakpoint with a free slot traps the address unless the guest
\* has an EBREAK there already; with a full table it does nothing.
LEMMA InsertBreakpoint ==
    ASSUME TypeOK, TrapsOverProgram,
           NEW a \in Addrs, Insert(a)
    PROVE  /\ Traps(mem', table') /\ TrapsOverProgram'
           /\ Trapped' = IF FreeSlots = {} \/ Program[a] = Ebreak
                         THEN Trapped ELSE Trapped \cup {a}
<1>1. CASE FreeSlots = {} \/ mem[a] = Ebreak
  <2>1. mem' = mem /\ table' = table
    BY <1>1 DEF Insert
  <2>2. Trapped' = Trapped /\ TrapsOverProgram'
    BY <2>1 DEF TrapsOverProgram, Trapped, Full
  <2>3. FreeSlots = {} \/ Program[a] = Ebreak \/ a \in Trapped
    BY <1>1 DEF TrapsOverProgram
  <2>4. Traps(mem', table')
    BY <2>1 DEF Traps, TypeOK
  <2>5. QED
    BY <2>2, <2>3, <2>4
<1>2. CASE FreeSlots # {} /\ mem[a] # Ebreak
  <2> DEFINE s == FirstOf(FreeSlots)
             r == [status |-> "FULL", addr |-> a, instr |-> mem[a]]
  <2>1. s \in Slots /\ s \notin Full
    BY <1>2, FirstOfSlots DEF FreeSlots, Slots
  <2>2. a \notin Trapped /\ mem[a] = Program[a] /\ Program[a] # Ebreak
    BY <1>2 DEF TrapsOverProgram
  <2>3. mem' = [mem EXCEPT ![a] = Ebreak] /\ table' = [table EXCEPT ![s] = r]
    BY <1>2 DEF Insert
  <2> HIDE DEF s
  <2>4. Full' = Full \cup {s}
    BY <2>1, <2>3 DEF Full, TypeOK
  <2>5. /\ table'[s] = r
        /\ \A t \in Full : table'[t] = table[t]
    BY <2>1, <2>3 DEF Full, TypeOK
  <2>6. Trapped' = Trapped \cup {a}
    BY <2>4, <2>5 DEF Trapped
  <2>7. Traps(mem', table')
    BY <2>3 DEF Traps, TypeOK, Slot
  <2>8. \A b \in Addrs :
          mem'[b] = IF b \in Trapped' THEN Ebreak ELSE Program[b]
    BY <2>3, <2>6 DEF TrapsOverProgram, TypeOK
  <2>9. \A t \in Full : table[t].addr # a
    BY <2>2 DEF Trapped
  <2>10. TrapsOverProgram'
    BY <2>2, <2>4, <2>5, <2>8, <2>9 DEF TrapsOverProgram
  <2>11. QED
    BY <1>2, <2>2, <2>6, <2>7, <2>10
<1>3. QED
  BY <1>1, <1>2

\* What leaves memory and the table alone leaves all that is read off them.
LEMMA SameTable ==
    ASSUME TrapsOverProgram, UNCHANGED <<mem, table>>
    PROVE  /\ TrapsOverProgram'
           /\ Trapped' = Trapped /\ FreeSlots' = FreeSlots
BY DEF TrapsOverProgram, Trapped, FreeSlots, Full

-----------------------------------------------------------------------------
(* Each action preserves the invariant.                                    *)

\* The machine GDB finds: halted, no breakpoint marked.
LEMMA InitInv == Init => IInv
<1> SUFFICES ASSUME Init PROVE IInv
  OBVIOUS
<1>1. TypeOK
  <2>1. mem \in [Addrs -> Instrs \cup {Ebreak}] /\ table \in [Slots -> Slot]
    BY DEF Init, Slot
  <2>2. pc \in [Cores -> Addrs] /\ lifted \in Addrs
    BY DEF Init
  <2>3. /\ run \in [Cores -> {"halted", "going", "halting", "stepping"}]
        /\ cur \in Cores
    BY DEF Init, Cores
  <2>4. QED
    BY <2>1, <2>2, <2>3 DEF Init, TypeOK
<1>2. Full = {} /\ Trapped = {}
  BY DEF Init, Full, Trapped
<1>3. TrapsOverProgram
  BY <1>2 DEF Init, TrapsOverProgram
<1>4. QED
  BY <1>1, <1>2, <1>3 DEF IInv, AskedIsTrapped, Init

\* Z adds a trap exactly where GDB is told OK and the guest has no EBREAK.
LEMMA BuildZInv ==
    ASSUME IInv, NEW a \in Addrs, BuildZ(a)
    PROVE  IInv'
<1>1. TypeOK /\ TrapsOverProgram /\ AskedIsTrapped /\ main = "serve"
  BY DEF IInv, BuildZ, Serving
<1>2. /\ Traps(mem', table') /\ TrapsOverProgram'
      /\ Trapped' = IF FreeSlots = {} \/ Program[a] = Ebreak
                    THEN Trapped ELSE Trapped \cup {a}
  BY <1>1, InsertBreakpoint DEF BuildZ
<1>3. wanted' = IF FreeSlots = {} THEN wanted ELSE wanted \cup {a}
  BY DEF BuildZ
<1>4. TypeOK'
  BY <1>1, <1>2, <1>3 DEF Traps, TypeOK, BuildZ
<1>5. AskedIsTrapped'
  BY <1>1, <1>2, <1>3 DEF AskedIsTrapped
<1>6. main' = "serve"
  BY <1>1 DEF BuildZ
<1>7. QED
  BY <1>2, <1>4, <1>5, <1>6 DEF IInv

\* z removes one.
LEMMA BuildzInv ==
    ASSUME IInv, NEW a \in Addrs, Buildz(a)
    PROVE  IInv'
<1>1. TypeOK /\ TrapsOverProgram /\ AskedIsTrapped /\ main = "serve"
  BY DEF IInv, Buildz, Serving
<1>2. /\ Traps(mem', table') /\ TrapsOverProgram'
      /\ Trapped' = Trapped \ {a}
  BY <1>1, RemoveBreakpoint DEF Buildz
<1>3. TypeOK'
  BY <1>1, <1>2 DEF Traps, TypeOK, Buildz
<1>4. AskedIsTrapped'
  BY <1>1, <1>2 DEF AskedIsTrapped, Buildz
<1>5. main' = "serve"
  BY <1>1 DEF Buildz
<1>6. QED
  BY <1>2, <1>3, <1>4, <1>5 DEF IInv

\* StepOver lifts one trap, on a machine at rest.
LEMMA StepOverInv ==
    ASSUME IInv, StepOver
    PROVE  IInv'
<1>1. /\ TypeOK /\ TrapsOverProgram /\ AskedIsTrapped /\ AllHalted
      /\ main = "look" /\ pc[cur] \in Addrs
  BY DEF IInv, StepOver, TypeOK
<1>2. /\ Traps(mem', table') /\ TrapsOverProgram'
      /\ Trapped' = Trapped \ {pc[cur]}
      /\ pc[cur] \in Trapped /\ Program[pc[cur]] # Ebreak
      /\ FreeSlots' # {}
  BY <1>1, RemoveBreakpoint DEF StepOver
<1>3. TypeOK'
  BY <1>1, <1>2 DEF Traps, TypeOK, StepOver
<1>4. Lifted'
  BY <1>1, <1>2 DEF Lifted, AskedIsTrapped, AllHalted, StepOver, TypeOK
<1>5. main' = "step"
  BY DEF StepOver
<1>6. QED
  BY <1>2, <1>3, <1>4, <1>5 DEF IInv, AskedIsTrapped

\* PutBack finds the slot StepOver freed: the trap is there again.
LEMMA PutBackInv ==
    ASSUME IInv, PutBack
    PROVE  IInv'
<1>1. TypeOK /\ TrapsOverProgram /\ Lifted /\ lifted \in Addrs
  BY DEF IInv, PutBack, TypeOK
<1>2. /\ Traps(mem', table') /\ TrapsOverProgram'
      /\ Trapped' = Trapped \cup {lifted}
  BY <1>1, InsertBreakpoint DEF PutBack, Lifted
<1>3. TypeOK'
  BY <1>1, <1>2 DEF Traps, TypeOK, PutBack, NextCore, Cores
<1>4. AskedIsTrapped'
  BY <1>1, <1>2 DEF AskedIsTrapped, Lifted, PutBack
<1>5. AllHalted'
  BY <1>1 DEF AllHalted, Lifted, PutBack
<1>6. main' # "step"
  BY DEF PutBack, NextCore
<1>7. QED
  BY <1>2, <1>3, <1>4, <1>5, <1>6 DEF IInv

\* The other steps of the main thread leave memory and the table alone.
LEMMA MainInv ==
    ASSUME IInv,
           \/ NotOnBreakpoint \/ Resume \/ StopReply \/ InterruptReply
           \/ \E action \in {"c", "s"}, w \in Cores \cup {All} :
                VCont(action, w)
    PROVE  IInv'
<1>1. TypeOK /\ TrapsOverProgram /\ AskedIsTrapped
  BY DEF IInv
<1>2. UNCHANGED <<mem, table, wanted>> /\ main # "step" /\ main' # "step"
  BY DEF NotOnBreakpoint, NextCore, Resume, StopReply, InterruptReply, VCont,
         Serving
<1>3. TrapsOverProgram' /\ AskedIsTrapped'
  BY <1>1, <1>2, SameTable DEF AskedIsTrapped
<1>4. TypeOK' /\ (main' \in {"look", "resume"} => AllHalted')
  <2>1. CASE NotOnBreakpoint
    BY <1>1, <2>1 DEF NotOnBreakpoint, NextCore, TypeOK, Cores, AllHalted, IInv
  <2>2. CASE Resume
    BY <1>1, <2>2 DEF Resume, TypeOK
  <2>3. CASE StopReply
    <3>1. OnBreakpoint \subseteq Cores /\ OnBreakpoint \subseteq Nat
      BY DEF OnBreakpoint, Cores
    <3>2. told' \in Cores \cup {All}
      BY <1>1, <2>3, <3>1, FirstOfSlots DEF StopReply, TypeOK
    <3>3. QED
      BY <1>1, <2>3, <3>2 DEF StopReply, TypeOK
  <2>4. CASE InterruptReply
    BY <1>1, <2>4 DEF InterruptReply, Halting, TypeOK
  <2>5. CASE \E action \in {"c", "s"}, w \in Cores \cup {All} :
               VCont(action, w)
    <3>1. PICK action \in {"c", "s"}, w \in Cores \cup {All} :
            VCont(action, w)
      BY <2>5
    <3>2. cur' \in Cores
      BY <3>1 DEF VCont, Cores
    <3>3. QED
      BY <1>1, <3>1, <3>2 DEF VCont, TypeOK, Serving, AllHalted
  <2>6. QED
    BY <2>1, <2>2, <2>3, <2>4, <2>5
<1>5. QED
  BY <1>2, <1>3, <1>4 DEF IInv

\* So do the cores; only the one that is stepped moves while a trap is out,
\* and it halts by that.
LEMMA CoreInv ==
    ASSUME IInv, NEW c \in Cores, CoreRuns(c)
    PROVE  IInv'
<1>1. TypeOK /\ TrapsOverProgram /\ AskedIsTrapped
  BY DEF IInv
<1>2. /\ UNCHANGED <<mem, table, wanted, main, cur, lifted>>
      /\ run[c] # "halted"
  BY DEF CoreRuns, Execute, HitEbreak, LeaveLoop
<1>3. TrapsOverProgram' /\ AskedIsTrapped'
  BY <1>1, <1>2, SameTable DEF AskedIsTrapped
<1>4. TypeOK'
  <2>1. CASE Execute(c)
    BY <1>1, <2>1 DEF Execute, TypeOK
  <2>2. CASE HitEbreak(c)
    BY <1>1, <2>2 DEF HitEbreak, Halting, TypeOK
  <2>3. CASE LeaveLoop(c)
    BY <1>1, <2>3 DEF LeaveLoop, TypeOK
  <2>4. QED
    BY <2>1, <2>2, <2>3 DEF CoreRuns
<1>5. main \notin {"look", "resume"}
  BY <1>2 DEF IInv, AllHalted
<1>6. main = "step" => Lifted'
  <2>1. SUFFICES ASSUME main = "step" PROVE Lifted'
    OBVIOUS
  <2>2. Lifted /\ c = cur
    BY <1>2, <2>1 DEF IInv, Lifted
  <2>3. /\ run'[cur] \in {"halted", "going"}
        /\ \A d \in Cores : d # cur => run'[d] = "halted"
    BY <1>1, <2>2 DEF CoreRuns, Execute, HitEbreak, LeaveLoop, Halting, Lifted,
                      TypeOK
  <2>4. QED
    BY <1>1, <1>2, <2>2, <2>3, SameTable DEF Lifted
<1>7. QED
  BY <1>2, <1>3, <1>4, <1>5, <1>6 DEF IInv

\* Every step of the specification preserves the invariant.
LEMMA StepInv == IInv /\ [Next]_bpVars => IInv'
<1> SUFFICES ASSUME IInv, [Next]_bpVars
             PROVE  IInv'
  OBVIOUS
<1>1. ASSUME NEW a \in Addrs, BuildZ(a) \/ Buildz(a)
      PROVE  IInv'
  BY <1>1, BuildZInv, BuildzInv
<1>2. CASE MainRuns
  BY <1>2, StepOverInv, PutBackInv, MainInv DEF MainRuns
<1>3. CASE InterruptReply \/ \E action \in {"c", "s"}, w \in Cores \cup {All} :
                               VCont(action, w)
  BY <1>3, MainInv
<1>4. ASSUME NEW c \in Cores, CoreRuns(c)
      PROVE  IInv'
  BY <1>4, CoreInv
<1>5. CASE UNCHANGED bpVars
  <2>1. UNCHANGED <<mem, table>>
    BY <1>5 DEF bpVars
  <2>2. TrapsOverProgram' /\ Trapped' = Trapped /\ FreeSlots' = FreeSlots
    BY <2>1, SameTable DEF IInv
  <2>3. TypeOK'
    BY <1>5 DEF IInv, TypeOK, bpVars
  <2>4. QED
    BY <1>5, <2>2, <2>3 DEF IInv, AskedIsTrapped, Lifted, AllHalted, bpVars
<1>6. QED
  BY <1>1, <1>2, <1>3, <1>4, <1>5 DEF Next, GdbAsks

\* The invariant the properties are read off.
THEOREM Invariance == Spec => []IInv
<1>1. QED
  BY InitInv, StepInv, PTL DEF Spec

-----------------------------------------------------------------------------
(* What follows.                                                           *)

\* The table, memory and the stub's position keep their types.
THEOREM TypeCorrectness == Spec => []TypeOK
<1>1. IInv => TypeOK
  BY DEF IInv
<1>2. QED
  BY <1>1, Invariance, PTL

\* Whatever GDB sets, clears and steps over, memory is the loaded program with
\* the table's traps in it, and the table can give every instruction back.
THEOREM ProgramIsKept == Spec => []TrapsOverProgram
<1>1. IInv => TrapsOverProgram
  BY DEF IInv
<1>2. QED
  BY <1>1, Invariance, PTL

\* No breakpoint is lost, not even by stepping over one with a full table.
THEOREM NoBreakpointLost == Spec => []AskedIsTrapped
<1>1. IInv => AskedIsTrapped
  BY DEF IInv
<1>2. QED
  BY <1>1, Invariance, PTL

\* A core that moves away from a breakpoint is the one the stub steps over it.
LEMMA PassedOnlySteppingOver ==
    ASSUME IInv, [Next]_bpVars,
           NEW c \in Cores, pc[c] # pc'[c], pc[c] \in wanted
    PROVE  main = "step" /\ c = cur /\ pc[c] = lifted
<1>1. Execute(c)
  <2>1. \E d \in Cores : Execute(d)
    BY DEF Next, GdbAsks, MainRuns, CoreRuns, BuildZ, Buildz, VCont,
           InterruptReply, NotOnBreakpoint, StepOver, PutBack, Resume,
           StopReply, HitEbreak, LeaveLoop, bpVars
  <2>2. PICK d \in Cores : Execute(d)
    BY <2>1
  <2>3. d = c
    BY <2>2 DEF Execute, IInv, TypeOK
  <2>4. QED
    BY <2>2, <2>3
<1>2. mem[pc[c]] # Ebreak /\ run[c] # "halted" /\ pc[c] \in Addrs
  BY <1>1 DEF Execute, IInv, TypeOK
<1>3. pc[c] \notin Trapped /\ Program[pc[c]] # Ebreak
  BY <1>2 DEF IInv, TrapsOverProgram
<1>4. main = "step" /\ Lifted
  BY <1>3 DEF IInv, AskedIsTrapped
<1>5. QED
  BY <1>2, <1>3, <1>4 DEF Lifted

\* No core runs through a breakpoint behind the debugger's back.
THEOREM BreakpointsStop == Spec => NoBreakpointPassed
<1>1. IInv /\ [Next]_bpVars =>
        [\A c \in Cores : /\ pc[c] # pc'[c]
                          /\ pc[c] \in wanted
                          => main = "step" /\ c = cur /\ pc[c] = lifted]_bpVars
  BY PassedOnlySteppingOver
<1>2. QED
  BY <1>1, Invariance, PTL DEF Spec, NoBreakpointPassed
=============================================================================
