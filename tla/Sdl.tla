-------------------------------- MODULE Sdl ---------------------------------
(***************************************************************************)
(* The window and the events of a guest in a user build (sdl.c).  SDL      *)
(* queues events; sdl_pull_events moves those of the keyboard and mouse to *)
(* a ring in the guest's memory, and the guest takes them from there.      *)
(* Drawing is left out: the palette and the frames are only passed on.     *)
(***************************************************************************)
EXTENDS Integers, SequencesExt

CONSTANTS Inputs,   \* events of the keyboard and mouse
          Others,   \* events the emulator skips
          MaxQueue, \* bound of SDL's queue
          Size      \* of the guest's ring

NoEvent == "none"
IsPowerOfTwo(n) == \E k \in 0 .. n : 2 ^ k = n

ASSUME SdlAssumption == /\ Size \in Nat \ {0} /\ IsPowerOfTwo(Size)
                        /\ MaxQueue \in Nat
                        /\ NoEvent \notin Inputs \cup Others
                        /\ Inputs \cap Others = {}

VARIABLES window,  \* whether there is one
          queue,   \* SDL's
          ring,    \* events, indexed from 0
          head,    \* *head and
          tail     \* tail, which the guest passes by value

sdlVars == <<window, queue, ring, head, tail>>

SdlInit == /\ window = FALSE
           /\ queue = <<>>
           /\ ring = [i \in 0 .. (Size - 1) |-> NoEvent]
           /\ head = 0
           /\ tail = 0

\* What sdl_init refuses.  emu_system_call drops the error, one of which is 0,
\* the code of success.
Refused(size, w, h) == size = 0 \/ ~IsPowerOfTwo(size) \/ w <= 0 \/ h <= 0

\* (idx + 1) & mask, where mask is the size - 1.
Following(idx) == (idx + 1) % Size

\* The full test of Pulled forgotten.
PulledOverOld(loop, e) ==
    IF e \notin Inputs THEN loop
    ELSE [loop EXCEPT !.ring[loop.idx] = e, !.idx = Following(@)]

\* The loop of sdl_pull_events over one event e of the queue, on the ring, the
\* index, whether the loop has ended, and the events it leaves in the queue.
\* The event is taken from the queue before the ring is found full.
Pulled(loop, e) ==
    IF loop.ended THEN [loop EXCEPT !.left = Append(@, e)]
    ELSE IF Following(loop.idx) = tail THEN [loop EXCEPT !.ended = TRUE]
    ELSE IF e \notin Inputs THEN loop
    ELSE [loop EXCEPT !.ring[loop.idx] = e, !.idx = Following(@)]

\* The loop over all of the queue.
Pull == FoldLeft(Pulled, [ring |-> ring, idx |-> head,
                          ended |-> FALSE, left |-> <<>>], queue)

\* sdl_pull_events uses the head the guest passes without a check
\* (sdl.c:175-183); here it is the guest's own, inside the ring.
PullEvents == /\ window
              /\ ring' = Pull.ring
              /\ head' = Pull.idx
              /\ queue' = Pull.left
              /\ UNCHANGED <<window, tail>>

-----------------------------------------------------------------------------
(* Around it: the user and the guest.                                      *)

EventHappens == /\ window
                /\ Len(queue) < MaxQueue
                /\ \E e \in Inputs \cup Others : queue' = Append(queue, e)
                /\ UNCHANGED <<window, ring, head, tail>>

GuestTakes == /\ tail # head
              /\ tail' = Following(tail)
              /\ UNCHANGED <<window, queue, ring, head>>

-----------------------------------------------------------------------------
(* Properties.                                                             *)

SdlTypeOK == /\ window \in BOOLEAN
             /\ queue \in Seq(Inputs \cup Others)
             /\ ring \in [0 .. (Size - 1) -> Inputs \cup {NoEvent}]
             /\ head \in 0 .. (Size - 1)
             /\ tail \in 0 .. (Size - 1)

\* The events in the ring, the oldest first, and then those still queued.
InRing == [i \in 1 .. ((head - tail) % Size) |-> ring[(tail + i - 1) % Size]]
WithInput(s, e) == IF e \in Inputs THEN Append(s, e) ELSE s
FollowedBy(s, events) == FoldLeft(WithInput, s, events)
Untaken == FollowedBy(InRing, queue)

EQ == INSTANCE EventQueue WITH pending <- Untaken, Capacity <- Size - 1

\* The guest gets its events in order, across wraps of the ring, and a pull
\* loses at most one event, and only with a full ring (sdl.c:173-189).
ImplementsEventQueue == EQ!Spec
=============================================================================
