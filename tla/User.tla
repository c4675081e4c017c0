-------------------------------- MODULE User --------------------------------
(***************************************************************************)
(* The system calls of a guest in a user build: emu_system_call of emu.c,  *)
(* reached from vcore_sys_type and dispatch_trap of user/.  The guest's    *)
(* descriptor g is the emulator's descriptor BASE + g; the emulator keeps  *)
(* those below BASE for itself.  The kernel's table of descriptors says    *)
(* what each one refers to.                                                *)
(*                                                                         *)
(* The guest's memory and the results in A0 are left out: the guest may    *)
(* call with any descriptor next.  Opening a window makes SDL open a       *)
(* descriptor too, the connection to the display.                          *)
(***************************************************************************)
EXTENDS Sdl, FiniteSets

CONSTANTS BASE,        \* ELF_FDS_BASELINE
          Files,       \* files the guest opens
          Redirected,  \* standard streams given by -i, -o and -e
          GuestFds,    \* descriptors the guest passes
          BrkLimit,    \* ctx.brk_limit
          Breaks,      \* addresses passed to BRK
          LoadedBrk    \* elf_brk as loaded

Std == 0 .. 2
NoFile == "closed"
Own == {"stdin", "stdout", "stderr", "display"}
Stream == [i \in Std |-> CASE i = 0 -> "stdin" [] i = 1 -> "stdout" [] i = 2 -> "stderr"]
Lower == 0 .. (BASE - 1)
Fds == 0 .. (2 * BASE - 1)

ASSUME UserAssumption == /\ BASE \in Nat /\ BASE > 3
                         /\ (Own \cup {NoFile}) \cap Files = {}
                         /\ Redirected \subseteq Std
                         /\ GuestFds \subseteq Int
                         /\ BrkLimit \in Nat /\ Breaks \subseteq Nat
                         /\ LoadedBrk \in Nat

VARIABLES fds,      \* the kernel's table
          display,  \* the descriptor of SDL's connection, or -1
          elf_brk,
          over      \* the emulator has exited

vars == <<fds, display, elf_brk, over, sdlVars>>

-----------------------------------------------------------------------------
(* The kernel.                                                             *)

Free == {f \in Fds : fds[f] = NoFile}
Lowest(f) == f \in Free /\ \A g \in Free : f <= g

Close(table, f) == IF f \in Fds THEN [table EXCEPT ![f] = NoFile] ELSE table
Dup2(table, f, g) == [table EXCEPT ![g] = table[f]]

-----------------------------------------------------------------------------
\* emu_std: a guest's stream is the emulator's own or a file of its command
\* line.
Init == /\ \E file \in Files :
               fds = [f \in Fds |->
                   IF f \in Std THEN Stream[f]
                   ELSE IF f - BASE \in Std
                   THEN (IF f - BASE \in Redirected THEN file ELSE Stream[f - BASE])
                   ELSE NoFile]
        /\ display = -1
        /\ elf_brk = LoadedBrk
        /\ over = FALSE
        /\ SdlInit

Call == ~over

\* CLOSE, with negative descriptors not refused, and as it is.
CloseCallUnchecked(g) ==
    /\ Call
    /\ fds' = Close(fds, g + BASE)
    /\ UNCHANGED <<display, elf_brk, over, sdlVars>>
CloseCall(g) ==
    /\ Call
    /\ fds' = IF g < 0 THEN fds ELSE Close(fds, g + BASE)
    /\ UNCHANGED <<display, elf_brk, over, sdlVars>>

\* OPEN, when it succeeds: the file goes where the kernel puts it, and from
\* there to the same place above BASE; what was there is closed silently.
MovedUp(table, f) == Close(Dup2(table, f, BASE + f), f)

Open(file) ==
    /\ Call
    /\ \E f \in Fds :
           /\ Lowest(f)
           /\ LET opened == [fds EXCEPT ![f] = file]
              IN  IF f >= BASE
                  THEN over' = TRUE /\ fds' = opened
                  ELSE fds' = MovedUp(opened, f) /\ UNCHANGED over
    /\ UNCHANGED <<display, elf_brk, sdlVars>>

\* BRK, with the limit itself let through, and as it is.
BrkToLimit(address) ==
    /\ Call
    /\ elf_brk' = IF address \in 1 .. BrkLimit THEN address ELSE elf_brk
    /\ UNCHANGED <<fds, display, over, sdlVars>>
Brk(address) ==
    /\ Call
    /\ elf_brk' = IF address \in 1 .. (BrkLimit - 1) THEN address ELSE elf_brk
    /\ UNCHANGED <<fds, display, over, sdlVars>>

\* EXIT, SDL_SHUTDOWN, an unknown call, and an instruction ILL_INS is raised
\* for.
Exit == /\ Call
        /\ over' = TRUE
        /\ UNCHANGED <<fds, display, elf_brk, sdlVars>>

\* SDL_INIT, once: the window opens, or the emulator exits.  A second call, which
\* sdl_init does not refuse and which could change the ring's mask, is left out.
InitWindow(size, w, h) ==
    /\ Call
    /\ ~window
    /\ ~Refused(size, w, h) /\ size = Size
    /\ \/ \E f \in Fds :
              /\ Lowest(f)
              /\ window' = TRUE
              /\ display' = f
              /\ fds' = [fds EXCEPT ![f] = "display"]
              /\ UNCHANGED over
       \/ /\ over' = TRUE
          /\ UNCHANGED <<window, display, fds>>
    /\ UNCHANGED <<elf_brk, queue, ring, head, tail>>

Events == /\ Call
          /\ PullEvents \/ EventHappens \/ GuestTakes
          /\ UNCHANGED <<fds, display, elf_brk, over>>

Next == \/ \E g \in GuestFds : CloseCall(g)
        \/ \E file \in Files : Open(file)
        \/ \E address \in Breaks : Brk(address)
        \/ Exit
        \/ \E size \in 0 .. Size, w, h \in 0 .. 1 : InitWindow(size, w, h)
        \/ Events

Spec == Init /\ [][Next]_vars

-----------------------------------------------------------------------------
(* Properties.                                                             *)

TypeOK == /\ fds \in [Fds -> Own \cup Files \cup {NoFile}]
          /\ display \in Lower \cup {-1}
          /\ elf_brk \in {LoadedBrk} \cup 1 .. (BrkLimit - 1)
          /\ over \in BOOLEAN
          /\ SdlTypeOK

\* "0-511 for this program 512-1023 for the elf" (emu.c:33-34): no call of the
\* guest closes, replaces or adds a descriptor below BASE, and none of the
\* guest's reaches the connection to the display.
OwnDescriptorsKept ==
    ~over => /\ \A f \in Lower : fds[f] = IF f \in Std THEN Stream[f]
                                         ELSE IF f = display THEN "display"
                                         ELSE NoFile
             /\ \A f \in Fds \ Lower : fds[f] # "display"

\* A file that is open stays what it is until the guest closes it: not so, all
\* files are opened under the descriptor that was free at the start.
OpenKeepsFiles ==
    [][\A f \in Fds \ Lower :
           fds[f] # NoFile /\ fds'[f] # fds[f] => fds'[f] = NoFile]_vars
=============================================================================
