----------------------------- MODULE UserProofs -----------------------------
(***************************************************************************)
(* Theorems about User, for every table of descriptors, every file and     *)
(* every descriptor a guest passes, every size of its ring of events and   *)
(* every queue of SDL's.                                                   *)
(*                                                                         *)
(* The emulator's descriptors are its own.  The window matters there: the  *)
(* display takes a descriptor from below BASE, and the first one that a    *)
(* guest's file would pass through.                                        *)
(*                                                                         *)
(* The ring, the queue and the loop that moves events from one to the      *)
(* other implement EventQueue.  The loop is a fold; it is laid out as a    *)
(* sequence of turns, and so is the list of the events a guest has still   *)
(* to take.  What a turn does to that list is then proved for one turn,    *)
(* and for all of them by an induction over a set of turns.                *)
(***************************************************************************)
EXTENDS User, WellFoundedInduction, TLAPS

-----------------------------------------------------------------------------
(* The descriptors.                                                        *)

\* While the emulator runs, all descriptors below BASE but the streams and the
\* display are free, and the display is there as long as the window.
IInv == /\ fds \in [Fds -> Own \cup Files \cup {NoFile}]
        /\ window \in BOOLEAN
        /\ ~over => /\ display \in Lower \cup {-1}
                    /\ display \notin Std
                    /\ ~window => display = -1
        /\ OwnDescriptorsKept

LEMMA Numbers == /\ BASE \in Nat /\ BASE > 3
                 /\ Std \subseteq Lower /\ Lower \subseteq Fds
                 /\ Fds \subseteq Int
                 /\ \A f \in Lower : BASE + f \in Fds \ Lower
                 /\ Std \subseteq Int /\ 3 \in Lower /\ 3 \notin Std
BY UserAssumption DEF Std, Lower, Fds

LEMMA Names == /\ \A i \in Std : Stream[i] \in Own \ {"display", NoFile}
               /\ "display" # NoFile /\ "display" \in Own
               /\ \A file \in Files : file # NoFile /\ file # "display"
BY UserAssumption DEF Std, Stream, Own, NoFile

LEMMA InitHolds == Init => IInv
<1> SUFFICES ASSUME Init PROVE IInv
  OBVIOUS
<1>1. PICK file \in Files :
          fds = [f \in Fds |->
                   IF f \in Std THEN Stream[f]
                   ELSE IF f - BASE \in Std
                   THEN (IF f - BASE \in Redirected THEN file ELSE Stream[f - BASE])
                   ELSE NoFile]
  BY DEF Init
<1>2. fds \in [Fds -> Own \cup Files \cup {NoFile}]
  BY <1>1, Names
<1>3. \A f \in Lower : f - BASE \notin Std /\ f # -1
  BY Numbers DEF Lower, Std
<1>4. \A f \in Lower : fds[f] = IF f \in Std THEN Stream[f] ELSE NoFile
  BY <1>1, <1>3, Numbers
<1>5. \A f \in Fds \ Lower : fds[f] # "display"
  BY <1>1, Names, Numbers
<1>6. display = -1 /\ window = FALSE /\ -1 \notin Std
  BY DEF Init, SdlInit, Std
<1>7. OwnDescriptorsKept
  BY <1>3, <1>4, <1>5, <1>6 DEF OwnDescriptorsKept
<1> QED BY <1>2, <1>6, <1>7 DEF IInv, Init

\* The guest's descriptors stand for ones from BASE up, or for none.
LEMMA CloseKeeps == ASSUME IInv, NEW g \in GuestFds, CloseCall(g) PROVE IInv'
<1>1. CASE g + BASE \in Fds /\ g >= 0
  <2>1. g \in Int /\ g + BASE \notin Lower
    BY <1>1, UserAssumption DEF Lower
  <2>2. fds' = [fds EXCEPT ![g + BASE] = NoFile]
    BY <1>1, <2>1 DEF CloseCall, Close
  <2>3. /\ fds' \in [Fds -> Own \cup Files \cup {NoFile}]
        /\ \A f \in Lower : fds'[f] = fds[f]
        /\ \A f \in Fds : fds'[f] \in {fds[f], NoFile}
    BY <2>1, <2>2, <1>1, Numbers DEF IInv
  <2> QED BY <2>3, Names, Numbers
          DEF IInv, CloseCall, OwnDescriptorsKept, sdlVars
<1>2. CASE ~(g + BASE \in Fds /\ g >= 0)
  <2>1. fds' = fds
    BY <1>2, UserAssumption DEF CloseCall, Close
  <2> QED BY <2>1 DEF IInv, CloseCall, OwnDescriptorsKept, sdlVars
<1> QED BY <1>1, <1>2

\* The kernel's choice is free before and after, and the place above it is not
\* below BASE.
LEMMA OpenKeeps == ASSUME IInv, NEW file \in Files, Open(file) PROVE IInv'
<1>1. PICK f \in Fds :
          /\ Lowest(f)
          /\ IF f >= BASE
             THEN over' = TRUE /\ fds' = [fds EXCEPT ![f] = file]
             ELSE /\ fds' = MovedUp([fds EXCEPT ![f] = file], f)
                  /\ UNCHANGED over
  BY DEF Open
<1>2. fds[f] = NoFile
  BY <1>1 DEF Lowest, Free
<1>3. UNCHANGED <<display, window>> /\ ~over
  BY DEF Open, Call, sdlVars
<1>4. CASE f >= BASE
  BY <1>1, <1>3, <1>4 DEF IInv, OwnDescriptorsKept
<1>5. CASE ~(f >= BASE)
  <2>1. f \in Lower
    BY <1>5, Numbers DEF Lower, Fds
  <2>2. BASE + f \in Fds \ Lower /\ BASE + f # f
    BY <2>1, Numbers
  <2>3. fds' = [[[fds EXCEPT ![f] = file] EXCEPT ![BASE + f] = file]
                    EXCEPT ![f] = NoFile]
    BY <1>1, <1>5 DEF MovedUp, Close, Dup2, IInv
  <2>4. /\ fds' \in [Fds -> Own \cup Files \cup {NoFile}]
        /\ \A e \in Lower : fds'[e] = fds[e]
        /\ \A e \in Fds : fds'[e] \in {fds[e], file, NoFile}
    BY <2>1, <2>2, <2>3, <1>2, Numbers DEF IInv
  <2> QED BY <2>4, <1>1, <1>3, <1>5, Names, Numbers DEF IInv, OwnDescriptorsKept
<1> QED BY <1>4, <1>5

\* Before there is a window 3 is the lowest descriptor that is free.
LEMMA WindowKeeps ==
    ASSUME IInv, NEW size, NEW w, NEW h, InitWindow(size, w, h)
    PROVE  IInv'
<1>1. CASE over'
  <2>1. UNCHANGED <<window, display, fds>>
    BY <1>1 DEF InitWindow, Call
  <2> QED BY <1>1, <2>1 DEF IInv, OwnDescriptorsKept
<1>2. CASE ~over'
  <2>0. ~over /\ ~window /\ display = -1
    BY DEF InitWindow, Call, IInv
  <2>1. PICK f \in Fds : /\ Lowest(f)
                         /\ window' = TRUE
                         /\ display' = f
                         /\ fds' = [fds EXCEPT ![f] = "display"]
    BY <1>2 DEF InitWindow
  <2>2. \A e \in Lower : fds[e] = IF e \in Std THEN Stream[e] ELSE NoFile
    BY <2>0, Numbers DEF IInv, OwnDescriptorsKept, Lower
  <2>3. 3 \in Free
    BY <2>2, Numbers DEF Free
  <2>4. f <= 3 /\ f \in Fds /\ fds[f] = NoFile
    BY <2>1, <2>3 DEF Lowest, Free
  <2>5. f \in Lower
    BY <2>4, Numbers DEF Lower, Fds
  <2>6. f \notin Std
    BY <2>2, <2>4, <2>5, Names
  <2>7. /\ fds' \in [Fds -> Own \cup Files \cup {NoFile}]
        /\ fds'[f] = "display"
        /\ \A e \in Fds : e # f => fds'[e] = fds[e]
    BY <2>1, <2>4, Names DEF IInv
  <2>8. \A e \in Lower : fds'[e] = IF e \in Std THEN Stream[e]
                                   ELSE IF e = f THEN "display" ELSE NoFile
    BY <2>2, <2>6, <2>7, Numbers
  <2>9. \A e \in Fds \ Lower : fds'[e] # "display"
    BY <2>0, <2>5, <2>7 DEF IInv, OwnDescriptorsKept
  <2> QED BY <2>1, <2>5, <2>6, <2>7, <2>8, <2>9 DEF IInv, OwnDescriptorsKept
<1> QED BY <1>1, <1>2 DEF IInv

LEMMA NextKeeps == ASSUME IInv, [Next]_vars PROVE IInv'
<1>k. ASSUME UNCHANGED <<fds, display, window>>, over' \in {over, TRUE}
      PROVE  IInv'
  BY <1>k DEF IInv, OwnDescriptorsKept
<1>1. ASSUME NEW g \in GuestFds, CloseCall(g) PROVE IInv'
  BY <1>1, CloseKeeps
<1>2. ASSUME NEW file \in Files, Open(file) PROVE IInv'
  BY <1>2, OpenKeeps
<1>3. ASSUME NEW address \in Breaks, Brk(address) PROVE IInv'
  BY <1>3, <1>k DEF Brk, sdlVars
<1>4. CASE Exit
  BY <1>4, <1>k DEF Exit, sdlVars
<1>5. ASSUME NEW size, NEW w, NEW h, InitWindow(size, w, h) PROVE IInv'
  BY <1>5, WindowKeeps
<1>6. CASE Events
  BY <1>6, <1>k DEF Events, PullEvents, EventHappens, GuestTakes
<1>7. CASE UNCHANGED vars
  BY <1>7, <1>k DEF vars, sdlVars
<1> QED BY <1>1, <1>2, <1>3, <1>4, <1>5, <1>6, <1>7 DEF Next

\* "0-511 for this program 512-1023 for the elf" (emu.c:33-34): for every BASE
\* above 3, whatever the guest closes and opens, before and after sdl_init.
THEOREM Descriptors == Spec => []OwnDescriptorsKept
<1>1. IInv => OwnDescriptorsKept
  BY DEF IInv
<1> QED BY <1>1, InitHolds, NextKeeps, PTL DEF Spec

-----------------------------------------------------------------------------
(* The ring: what it holds from one index to another.                      *)

LEMMA SizeIs == Size \in Nat /\ Size > 0 /\ 0 \in 0 .. (Size - 1)
BY SdlAssumption

LEMMA Wraps ==
    /\ \A x \in Int : 0 <= x /\ x < Size => x % Size = x
    /\ \A x \in Int : Size <= x /\ x < 2 * Size => x % Size = x - Size
    /\ \A x \in Int : x < 0 /\ -Size <= x => x % Size = x + Size
    /\ \A x \in Int : x % Size \in 0 .. (Size - 1)
    /\ \A x \in Int : 0 <= x /\ x < 2 * Size =>
           x % Size = IF x < Size THEN x ELSE x - Size
<1> DEFINE n == Size
<1>1. n \in Nat /\ n > 0
  BY SizeIs
<1> HIDE DEF n
<1>2. \A x \in Int : 0 <= x /\ x < n => x % n = x
  BY <1>1
<1>3. \A x \in Int : n <= x /\ x < 2 * n => x % n = x - n
  BY <1>1
<1>4. \A x \in Int : x < 0 /\ -n <= x => x % n = x + n
  BY <1>1
<1>5. \A x \in Int : x % n \in 0 .. (n - 1)
  BY <1>1
<1>6. \A x \in Int : 0 <= x /\ x < 2 * n =>
          x % n = IF x < n THEN x ELSE x - n
  BY <1>1, <1>2, <1>3
<1> QED BY <1>2, <1>3, <1>4, <1>5, <1>6 DEF n

RingEvents == Inputs \cup {NoEvent}
Slots == 0 .. (Size - 1)
Rings == [Slots -> RingEvents]

\* The events of a ring r from index t up to index h.
Content(r, h, t) == [i \in 1 .. ((h - t) % Size) |-> r[(t + i - 1) % Size]]

LEMMA FollowingIs ==
    ASSUME NEW h \in Slots
    PROVE  /\ Following(h) \in Slots
           /\ Following(h) = IF h = Size - 1 THEN 0 ELSE h + 1
<1>1. h \in Nat /\ h + 1 \in Int /\ h + 1 <= Size /\ Size \in Nat /\ Size > 0
  BY SizeIs DEF Slots
<1>2. CASE h = Size - 1
  <2>1. (h + 1) % Size = (h + 1) - Size
    BY <1>1, <1>2, Wraps
  <2> QED BY <1>1, <1>2, <2>1 DEF Following, Slots
<1>3. CASE h # Size - 1
  <2>1. (h + 1) % Size = h + 1
    BY <1>1, <1>3, Wraps
  <2> QED BY <1>1, <1>3, <2>1 DEF Following, Slots
<1> QED BY <1>2, <1>3

LEMMA ContentIs ==
    ASSUME NEW r \in Rings, NEW h \in Slots, NEW t \in Slots
    PROVE  /\ Content(r, h, t) \in Seq(RingEvents)
           /\ Len(Content(r, h, t)) = IF t <= h THEN h - t ELSE h - t + Size
           /\ Len(Content(r, h, t)) \in Slots
           /\ \A i \in 1 .. Len(Content(r, h, t)) :
                 Content(r, h, t)[i] =
                     r[IF t + i - 1 < Size THEN t + i - 1 ELSE t + i - 1 - Size]
<1> DEFINE n == IF t <= h THEN h - t ELSE h - t + Size
<1>1. /\ h \in Int /\ t \in Int /\ Size \in Nat /\ Size > 0
      /\ 0 <= h /\ h < Size /\ 0 <= t /\ t < Size
  BY SizeIs DEF Slots
<1>2. (h - t) % Size = n
  <2>1. CASE t <= h
    <3>1. h - t \in Int /\ 0 <= h - t /\ h - t < Size
      BY <1>1, <2>1
    <3> QED BY <3>1, <2>1, Wraps
  <2>2. CASE ~(t <= h)
    <3>1. h - t \in Int /\ h - t < 0 /\ -Size <= h - t
      BY <1>1, <2>2
    <3> QED BY <3>1, <2>2, Wraps
  <2> QED BY <2>1, <2>2
<1>3. n \in Nat /\ n < Size
  BY <1>1
<1> HIDE DEF n
<1>4. ASSUME NEW i \in 1 .. n
      PROVE  /\ (t + i - 1) % Size =
                  IF t + i - 1 < Size THEN t + i - 1 ELSE t + i - 1 - Size
             /\ (t + i - 1) % Size \in Slots
  <2>1. t + i - 1 \in Int /\ 0 <= t + i - 1 /\ t + i - 1 < 2 * Size
    BY <1>1, <1>3
  <2> QED BY <1>1, <1>3, <2>1, Wraps DEF Slots
<1> DEFINE s == Content(r, h, t)
<1>5. s = [i \in 1 .. n |-> r[(t + i - 1) % Size]]
  BY <1>2 DEF Content
<1>6. \A i \in 1 .. n : r[(t + i - 1) % Size] \in RingEvents
  BY <1>4 DEF Rings
<1> HIDE DEF s
<1>7. s \in Seq(RingEvents) /\ Len(s) = n
  BY <1>3, <1>5, <1>6
<1>8. \A i \in 1 .. n : s[i] =
          r[IF t + i - 1 < Size THEN t + i - 1 ELSE t + i - 1 - Size]
  BY <1>4, <1>5
<1>9. n \in Slots
  BY <1>1, <1>3 DEF Slots
<1> QED BY <1>7, <1>8, <1>9 DEF n, s

LEMMA SameSeq ==
    ASSUME NEW S, NEW s \in Seq(S), NEW t \in Seq(S),
           Len(s) = Len(t), \A i \in 1 .. Len(s) : s[i] = t[i]
    PROVE  s = t
OBVIOUS

\* A full ring holds Size - 1 events.
LEMMA FullIs ==
    ASSUME NEW r \in Rings, NEW h \in Slots, NEW t \in Slots, Following(h) = t
    PROVE  Len(Content(r, h, t)) = Size - 1
<1>1. /\ h \in Int /\ t \in Int /\ Size \in Nat /\ Size > 0
      /\ 0 <= h /\ h < Size /\ 0 <= t /\ t < Size
  BY SizeIs DEF Slots
<1>2. t = IF h = Size - 1 THEN 0 ELSE h + 1
  BY FollowingIs
<1>3. Len(Content(r, h, t)) = IF t <= h THEN h - t ELSE h - t + Size
  BY ContentIs
<1> QED BY <1>1, <1>2, <1>3

\* An event that is put into a ring that is not full comes last.
LEMMA PutIs ==
    ASSUME NEW r \in Rings, NEW h \in Slots, NEW t \in Slots,
           Following(h) # t, NEW e \in Inputs
    PROVE  Content([r EXCEPT ![h] = e], Following(h), t) =
               Append(Content(r, h, t), e)
<1> DEFINE q == [r EXCEPT ![h] = e]
           g == Following(h)
           a == Content(r, h, t)
           b == Content(q, g, t)
<1>1. /\ q \in Rings /\ q[h] = e
      /\ \A i \in Slots : i # h => q[i] = r[i]
  BY DEF Rings, RingEvents
<1>2. g \in Slots /\ g = IF h = Size - 1 THEN 0 ELSE h + 1
  BY FollowingIs
<1>3. /\ a \in Seq(RingEvents)
      /\ Len(a) = IF t <= h THEN h - t ELSE h - t + Size
      /\ \A i \in 1 .. Len(a) :
             a[i] = r[IF t + i - 1 < Size THEN t + i - 1 ELSE t + i - 1 - Size]
  BY ContentIs
<1>4. g # t
  OBVIOUS
<1> HIDE DEF q, g, a, b
<1>5. /\ b \in Seq(RingEvents)
      /\ Len(b) = IF t <= g THEN g - t ELSE g - t + Size
      /\ \A i \in 1 .. Len(b) :
             b[i] = q[IF t + i - 1 < Size THEN t + i - 1 ELSE t + i - 1 - Size]
  BY <1>1, <1>2, ContentIs DEF b
<1>6. /\ h \in Int /\ t \in Int /\ Size \in Nat /\ Size > 0
      /\ 0 <= h /\ h < Size /\ 0 <= t /\ t < Size
  BY SizeIs DEF Slots
<1>7. Len(b) = Len(a) + 1 /\ Len(a) \in Nat
  BY <1>2, <1>3, <1>4, <1>5, <1>6
<1>8. ASSUME NEW i \in 1 .. Len(a) PROVE b[i] = a[i]
  <2> DEFINE x == IF t + i - 1 < Size THEN t + i - 1 ELSE t + i - 1 - Size
  <2>1. x \in Slots /\ x # h
    BY <1>3, <1>6, <1>7 DEF Slots
  <2>2. i \in 1 .. Len(b)
    BY <1>7
  <2>3. b[i] = q[x] /\ a[i] = r[x]
    BY <1>3, <1>5, <2>2
  <2> HIDE DEF x
  <2> QED BY <1>1, <2>1, <2>3
<1>9. b[Len(a) + 1] = e
  <2> DEFINE i == Len(a) + 1
             x == IF t + i - 1 < Size THEN t + i - 1 ELSE t + i - 1 - Size
  <2>1. x = h
    BY <1>3, <1>6, <1>7
  <2>2. i \in 1 .. Len(b)
    BY <1>7
  <2>3. b[i] = q[x]
    BY <1>5, <2>2
  <2> HIDE DEF x
  <2> QED BY <1>1, <2>1, <2>3
<1>10. Append(a, e) \in Seq(RingEvents)
  BY <1>3 DEF RingEvents
<1>11. b = Append(a, e)
  <2> DEFINE c == Append(a, e)
  <2>1. /\ Len(c) = Len(a) + 1 /\ c[Len(a) + 1] = e
        /\ \A i \in 1 .. Len(a) : c[i] = a[i]
    BY <1>3
  <2>2. c \in Seq(RingEvents)
    BY <1>10
  <2> HIDE DEF c
  <2>3. \A i \in 1 .. Len(b) : i \in 1 .. Len(a) \/ i = Len(a) + 1
    BY <1>7
  <2>4. \A i \in 1 .. Len(b) : b[i] = c[i]
    BY <1>8, <1>9, <2>1, <2>3
  <2>5. b = c
    BY <1>5, <1>7, <2>1, <2>2, <2>4, SameSeq
  <2> QED BY <2>5 DEF c
<1> QED BY <1>11 DEF a, b, q, g

\* The guest takes the first event.
LEMMA TakeIs ==
    ASSUME NEW r \in Rings, NEW h \in Slots, NEW t \in Slots, t # h
    PROVE  /\ Content(r, h, t) # <<>>
           /\ Content(r, h, Following(t)) = Tail(Content(r, h, t))
<1> DEFINE g == Following(t)
           a == Content(r, h, t)
           b == Content(r, h, g)
<1>2. g \in Slots /\ g = IF t = Size - 1 THEN 0 ELSE t + 1
  BY FollowingIs
<1>3. /\ a \in Seq(RingEvents)
      /\ Len(a) = IF t <= h THEN h - t ELSE h - t + Size
      /\ \A i \in 1 .. Len(a) :
             a[i] = r[IF t + i - 1 < Size THEN t + i - 1 ELSE t + i - 1 - Size]
  BY ContentIs
<1> HIDE DEF g, a, b
<1>5. /\ b \in Seq(RingEvents)
      /\ Len(b) = IF g <= h THEN h - g ELSE h - g + Size
      /\ \A i \in 1 .. Len(b) :
             b[i] = r[IF g + i - 1 < Size THEN g + i - 1 ELSE g + i - 1 - Size]
  BY <1>2, ContentIs DEF b
<1>6. /\ h \in Int /\ t \in Int /\ Size \in Nat /\ Size > 0
      /\ 0 <= h /\ h < Size /\ 0 <= t /\ t < Size
  BY SizeIs DEF Slots
<1>7. Len(a) = Len(b) + 1 /\ Len(b) \in Nat
  BY <1>2, <1>3, <1>5, <1>6
<1>8. a # <<>>
  BY <1>7
<1>9. /\ Tail(a) \in Seq(RingEvents) /\ Len(Tail(a)) = Len(b)
      /\ \A i \in 1 .. Len(b) : Tail(a)[i] = a[i + 1]
  BY <1>3, <1>7, <1>8
<1>10. ASSUME NEW i \in 1 .. Len(b) PROVE b[i] = Tail(a)[i]
  <2> DEFINE x == IF g + i - 1 < Size THEN g + i - 1 ELSE g + i - 1 - Size
             y == IF t + (i + 1) - 1 < Size THEN t + (i + 1) - 1
                  ELSE t + (i + 1) - 1 - Size
  <2>1. x = y
    BY <1>2, <1>5, <1>6, <1>7
  <2>2. i + 1 \in 1 .. Len(a)
    BY <1>7
  <2>3. b[i] = r[x] /\ a[i + 1] = r[y]
    BY <1>3, <1>5, <2>2
  <2> HIDE DEF x, y
  <2> QED BY <1>9, <2>1, <2>3
<1>11. b = Tail(a)
  BY <1>5, <1>9, <1>10, SameSeq
<1> QED BY <1>8, <1>11 DEF a, b, g

-----------------------------------------------------------------------------
(* The two folds, turn by turn.                                            *)

LEMMA Induction ==
    ASSUME NEW X, 0 \in X, NEW n \in Nat,
           \A i \in Nat : i < n /\ i \in X => i + 1 \in X
    PROVE  \A i \in 0 .. n : i \in X
<1> DEFINE T == {i \in 0 .. n : i \notin X}
<1> SUFFICES ASSUME T # {} PROVE FALSE
  OBVIOUS
<1>1. T \subseteq Nat
  OBVIOUS
<1>2. PICK m \in T : \A i \in T : <<i, m>> \notin OpToRel(<, Nat)
  <2> HIDE DEF T
  <2> QED BY <1>1, NatLessThanWellFounded, WFMin
<1>3. m \in Nat /\ m # 0 /\ m - 1 \in Nat
  OBVIOUS
<1>4. m - 1 \in X
  <2>1. <<m - 1, m>> \in OpToRel(<, Nat)
    BY <1>3 DEF OpToRel
  <2>2. m - 1 \notin T
    BY <1>2, <2>1
  <2>3. m - 1 \in 0 .. n
    BY <1>3
  <2> QED BY <2>2, <2>3
<1> QED BY <1>3, <1>4

LEMMA MaxOf ==
    ASSUME NEW n \in Nat, NEW T \in SUBSET (1 .. n + 1)
    PROVE  /\ n + 1 \in T => Max(T) = n + 1
           /\ Max(1 .. n + 1) = n + 1
<1>1. ASSUME NEW S \in SUBSET (1 .. n + 1), n + 1 \in S
      PROVE  Max(S) = n + 1
  <2>1. \E x \in S : \A y \in S : x >= y
    BY <1>1
  <2>2. Max(S) \in S /\ \A y \in S : Max(S) >= y
    BY <2>1 DEF Max
  <2>3. Max(S) >= n + 1 /\ Max(S) \in 1 .. n + 1
    BY <1>1, <2>2
  <2> QED BY <2>3
<1> QED BY <1>1

FoldedPull(b, s, n, t) ==
    t = [T \in SUBSET (1 .. n) |->
            IF T = {} THEN b ELSE Pulled(t[T \ {Max(T)}], s[Max(T)])]

LEMMA FoldedPullExists ==
    ASSUME NEW b, NEW s, NEW n \in Nat
    PROVE  \E t : FoldedPull(b, s, n, t)
<1> DEFINE X == {i \in Nat : \E t : FoldedPull(b, s, i, t)}
<1>1. 0 \in X
  <2>1. FoldedPull(b, s, 0, [T \in SUBSET (1 .. 0) |-> b])
    BY DEF FoldedPull
  <2> QED BY <2>1
<1>2. ASSUME NEW i \in Nat, i \in X PROVE i + 1 \in X
  <2>1. PICK t : FoldedPull(b, s, i, t)
    BY <1>2
  <2> DEFINE u == [T \in SUBSET (1 .. i + 1) |->
                     IF i + 1 \in T THEN Pulled(t[T \ {i + 1}], s[i + 1])
                                    ELSE t[T]]
  <2>2. ASSUME NEW T \in SUBSET (1 .. i + 1)
        PROVE  u[T] = IF T = {} THEN b
                      ELSE Pulled(u[T \ {Max(T)}], s[Max(T)])
    <3>1. CASE i + 1 \in T
      <4>1. /\ Max(T) = i + 1 /\ T \ {i + 1} \in SUBSET (1 .. i + 1)
            /\ i + 1 \notin T \ {i + 1}
        BY <3>1, MaxOf
      <4>2. u[T \ {i + 1}] = t[T \ {i + 1}]
        BY <4>1
      <4> QED BY <3>1, <4>1, <4>2
    <3>2. CASE i + 1 \notin T
      <4>1. T \in SUBSET (1 .. i)
        BY <3>2
      <4>2. u[T] = t[T]
        BY <3>2
      <4>3. T # {} => /\ T \ {Max(T)} \in SUBSET (1 .. i + 1)
                      /\ i + 1 \notin T \ {Max(T)}
        BY <3>2
      <4>4. T # {} => u[T \ {Max(T)}] = t[T \ {Max(T)}]
        BY <4>3
      <4> QED BY <4>1, <4>2, <4>4, <2>1 DEF FoldedPull
    <3> QED BY <3>1, <3>2
  <2> HIDE DEF u
  <2>3. FoldedPull(b, s, i + 1, u)
    <3>1. u = [T \in SUBSET (1 .. i + 1) |-> u[T]]
      BY DEF u
    <3> QED BY <2>2, <3>1 DEF FoldedPull
  <2> QED BY <2>3
<1> HIDE DEF X
<1>3. n \in 0 .. n
  OBVIOUS
<1>4. n \in X
  BY <1>1, <1>2, <1>3, Induction
<1> QED BY <1>4 DEF X

\* sdl_pull_events turn by turn.
LEMMA PullTurns ==
    ASSUME NEW S, queue \in Seq(S)
    PROVE  \E turn : /\ turn[0] = [ring |-> ring, idx |-> head,
                                   ended |-> FALSE, left |-> <<>>]
                     /\ \A i \in 1 .. Len(queue) :
                            turn[i] = Pulled(turn[i - 1], queue[i])
                     /\ Pull = turn[Len(queue)]
<1> DEFINE s == queue
           b == [ring |-> ring, idx |-> head, ended |-> FALSE, left |-> <<>>]
           n == Len(s)
           t == CHOOSE t : FoldedPull(b, s, n, t)
<1>0. n \in Nat /\ DOMAIN s = 1 .. n
  OBVIOUS
<1>1. Pull = t[1 .. n]
  BY <1>0 DEF Pull, FoldLeft, MapThenFoldSet, FoldedPull
<1> HIDE DEF n, t
<1>2. FoldedPull(b, s, n, t)
  BY <1>0, FoldedPullExists DEF t
<1> DEFINE turn == [i \in Nat |-> t[1 .. i]]
<1>3. turn[0] = b
  <2>1. 1 .. 0 = {} /\ {} \in SUBSET (1 .. n)
    OBVIOUS
  <2> QED BY <1>2, <2>1 DEF FoldedPull
<1>4. ASSUME NEW i \in 1 .. n
      PROVE  turn[i] = Pulled(turn[i - 1], s[i])
  <2>1. /\ i \in Nat /\ i - 1 \in Nat /\ i = (i - 1) + 1 /\ i \in 1 .. i
        /\ 1 .. i \in SUBSET (1 .. n)
    BY <1>0
  <2>2. Max(1 .. i) = i
    BY <2>1, MaxOf
  <2>3. (1 .. i) \ {i} = 1 .. i - 1
    BY <2>1
  <2> QED BY <2>1, <2>2, <2>3, <1>2 DEF FoldedPull
<1> QED BY <1>0, <1>1, <1>3, <1>4 DEF n

FoldedInput(b, s, n, t) ==
    t = [T \in SUBSET (1 .. n) |->
            IF T = {} THEN b ELSE WithInput(t[T \ {Max(T)}], s[Max(T)])]

LEMMA FoldedInputExists ==
    ASSUME NEW b, NEW s, NEW n \in Nat
    PROVE  \E t : FoldedInput(b, s, n, t)
<1> DEFINE X == {i \in Nat : \E t : FoldedInput(b, s, i, t)}
<1>1. 0 \in X
  <2>1. FoldedInput(b, s, 0, [T \in SUBSET (1 .. 0) |-> b])
    BY DEF FoldedInput
  <2> QED BY <2>1
<1>2. ASSUME NEW i \in Nat, i \in X PROVE i + 1 \in X
  <2>1. PICK t : FoldedInput(b, s, i, t)
    BY <1>2
  <2> DEFINE u == [T \in SUBSET (1 .. i + 1) |->
                     IF i + 1 \in T THEN WithInput(t[T \ {i + 1}], s[i + 1])
                                    ELSE t[T]]
  <2>2. ASSUME NEW T \in SUBSET (1 .. i + 1)
        PROVE  u[T] = IF T = {} THEN b
                      ELSE WithInput(u[T \ {Max(T)}], s[Max(T)])
    <3>1. CASE i + 1 \in T
      <4>1. /\ Max(T) = i + 1 /\ T \ {i + 1} \in SUBSET (1 .. i + 1)
            /\ i + 1 \notin T \ {i + 1}
        BY <3>1, MaxOf
      <4>2. u[T \ {i + 1}] = t[T \ {i + 1}]
        BY <4>1
      <4> QED BY <3>1, <4>1, <4>2
    <3>2. CASE i + 1 \notin T
      <4>1. T \in SUBSET (1 .. i)
        BY <3>2
      <4>2. u[T] = t[T]
        BY <3>2
      <4>3. T # {} => /\ T \ {Max(T)} \in SUBSET (1 .. i + 1)
                      /\ i + 1 \notin T \ {Max(T)}
        BY <3>2
      <4>4. T # {} => u[T \ {Max(T)}] = t[T \ {Max(T)}]
        BY <4>3
      <4> QED BY <4>1, <4>2, <4>4, <2>1 DEF FoldedInput
    <3> QED BY <3>1, <3>2
  <2> HIDE DEF u
  <2>3. FoldedInput(b, s, i + 1, u)
    <3>1. u = [T \in SUBSET (1 .. i + 1) |-> u[T]]
      BY DEF u
    <3> QED BY <2>2, <3>1 DEF FoldedInput
  <2> QED BY <2>3
<1> HIDE DEF X
<1>3. n \in 0 .. n
  OBVIOUS
<1>4. n \in X
  BY <1>1, <1>2, <1>3, Induction
<1> QED BY <1>4 DEF X

\* What the list x is when the first i events of s are added to x[0].
Turns(x, s, n) == \A i \in 1 .. n : x[i] = WithInput(x[i - 1], s[i])

\* Untaken event by event.
LEMMA InputTurns ==
    ASSUME NEW b, NEW S, NEW s \in Seq(S)
    PROVE  \E turn : /\ turn[0] = b
                     /\ Turns(turn, s, Len(s))
                     /\ FollowedBy(b, s) = turn[Len(s)]
<1> DEFINE n == Len(s)
           t == CHOOSE t : FoldedInput(b, s, n, t)
<1>0. n \in Nat /\ DOMAIN s = 1 .. n
  OBVIOUS
<1>1. FollowedBy(b, s) = t[1 .. n]
  BY <1>0 DEF FollowedBy, FoldLeft, MapThenFoldSet, FoldedInput
<1> HIDE DEF n, t
<1>2. FoldedInput(b, s, n, t)
  BY <1>0, FoldedInputExists DEF t
<1> DEFINE turn == [i \in Nat |-> t[1 .. i]]
<1>3. turn[0] = b
  <2>1. 1 .. 0 = {} /\ {} \in SUBSET (1 .. n)
    OBVIOUS
  <2> QED BY <1>2, <2>1 DEF FoldedInput
<1>4. ASSUME NEW i \in 1 .. n
      PROVE  turn[i] = WithInput(turn[i - 1], s[i])
  <2>1. /\ i \in Nat /\ i - 1 \in Nat /\ i = (i - 1) + 1 /\ i \in 1 .. i
        /\ 1 .. i \in SUBSET (1 .. n)
    BY <1>0
  <2>2. Max(1 .. i) = i
    BY <2>1, MaxOf
  <2>3. (1 .. i) \ {i} = 1 .. i - 1
    BY <2>1
  <2> QED BY <2>1, <2>2, <2>3, <1>2 DEF FoldedInput
<1>5. Turns(turn, s, n)
  BY <1>4 DEF Turns
<1>6. turn[n] = t[1 .. n]
  BY <1>0
<1> HIDE DEF turn
<1> QED BY <1>0, <1>1, <1>3, <1>5, <1>6 DEF n

-----------------------------------------------------------------------------
(* What a turn does, and what an event more or less in the queue does.     *)

LoopType == [ring : Rings, idx : Slots, ended : BOOLEAN,
             left : Seq(Inputs \cup Others)]

LEMMA PulledCases ==
    ASSUME NEW loop \in LoopType, NEW e \in Inputs \cup Others
    PROVE  LET r == Pulled(loop, e)
           IN  /\ r \in LoopType
               /\ loop.ended => /\ r.ended /\ r.ring = loop.ring
                                /\ r.idx = loop.idx
                                /\ r.left = Append(loop.left, e)
               /\ ~loop.ended /\ Following(loop.idx) = tail =>
                    /\ r.ended /\ r.ring = loop.ring /\ r.idx = loop.idx
                    /\ r.left = loop.left
               /\ ~loop.ended /\ Following(loop.idx) # tail /\ e \notin Inputs =>
                    r = loop
               /\ ~loop.ended /\ Following(loop.idx) # tail /\ e \in Inputs =>
                    /\ ~r.ended /\ r.left = loop.left
                    /\ r.ring = [loop.ring EXCEPT ![loop.idx] = e]
                    /\ r.idx = Following(loop.idx)
<1> DEFINE R == Rings
           I == Slots
           L == Seq(Inputs \cup Others)
           r == Pulled(loop, e)
           q == [loop.ring EXCEPT ![loop.idx] = e]
           l == Append(loop.left, e)
           g == Following(loop.idx)
<1>1. loop \in [ring : R, idx : I, ended : BOOLEAN, left : L]
  BY DEF LoopType
<1>2. l \in L
  BY <1>1
<1>3. e \in Inputs => q \in R
  BY <1>1 DEF Rings, RingEvents
<1>4. g \in I
  <2>1. loop.idx \in Slots
    BY <1>1
  <2> QED BY <2>1, FollowingIs
<1>5. CASE loop.ended
  <2>1. r = [loop EXCEPT !.left = l]
    BY <1>5 DEF Pulled
  <2> HIDE DEF R, I, L, r, q, l, g
  <2> QED BY <1>1, <1>2, <1>5, <2>1 DEF LoopType, R, I, L, r, l
<1>6. CASE ~loop.ended /\ g = tail
  <2>1. r = [loop EXCEPT !.ended = TRUE]
    BY <1>6 DEF Pulled
  <2> HIDE DEF R, I, L, r, q, l
  <2> QED BY <1>1, <1>6, <2>1 DEF LoopType, R, I, L, r
<1>7. CASE ~loop.ended /\ g # tail /\ e \notin Inputs
  <2>1. r = loop
    BY <1>7 DEF Pulled
  <2> QED BY <1>7, <2>1
<1>8. CASE ~loop.ended /\ g # tail /\ e \in Inputs
  <2>1. r = [loop EXCEPT !.ring = q, !.idx = g]
    BY <1>8 DEF Pulled
  <2> HIDE DEF R, I, L, q, l, g
  <2>2. /\ r \in [ring : R, idx : I, ended : BOOLEAN, left : L]
        /\ r.ring = q /\ r.idx = g /\ r.ended = loop.ended /\ r.left = loop.left
    BY <1>1, <1>3, <1>4, <1>8, <2>1
  <2> HIDE DEF r
  <2> QED BY <1>8, <2>2 DEF LoopType, R, I, L, q, g, r
<1> QED BY <1>5, <1>6, <1>7, <1>8

LEMMA SameTurns ==
    ASSUME NEW x, NEW y, NEW z, NEW n \in Nat, x[0] = y[0],
           Turns(x, z, n), Turns(y, z, n)
    PROVE  x[n] = y[n]
<1> DEFINE X == {i \in Nat : x[i] = y[i]}
<1>1. 0 \in X
  OBVIOUS
<1>2. ASSUME NEW i \in Nat, i < n, i \in X PROVE i + 1 \in X
  <2>1. i + 1 \in 1 .. n /\ (i + 1) - 1 = i
    BY <1>2
  <2> QED BY <1>2, <2>1 DEF Turns
<1> HIDE DEF X
<1>3. n \in X
  <2>1. n \in 0 .. n
    OBVIOUS
  <2> QED BY <1>1, <1>2, <2>1, Induction
<1> QED BY <1>3 DEF X

LEMMA NoneQueued == ASSUME NEW b PROVE FollowedBy(b, <<>>) = b
<1>1. <<>> \in Seq({}) /\ Len(<<>>) = 0
  OBVIOUS
<1> QED BY <1>1, InputTurns

LEMMA OneMoreQueued ==
    ASSUME NEW b, NEW S, NEW s \in Seq(S), NEW e \in S
    PROVE  FollowedBy(b, Append(s, e)) =
               WithInput(FollowedBy(b, s), e)
<1> DEFINE n == Len(s)
           a == Append(s, e)
<1>1. /\ a \in Seq(S) /\ Len(a) = n + 1 /\ a[n + 1] = e /\ n \in Nat
      /\ \A i \in 1 .. n : a[i] = s[i]
  OBVIOUS
<1> HIDE DEF a
<1>2. PICK x : /\ x[0] = b
               /\ Turns(x, s, n)
               /\ FollowedBy(b, s) = x[n]
  BY InputTurns
<1>3. PICK y : /\ y[0] = b
               /\ Turns(y, a, Len(a))
               /\ FollowedBy(b, a) = y[Len(a)]
  BY <1>1, InputTurns
<1> HIDE DEF n
<1>4. x[n] = y[n]
  <2>1. Turns(x, s, n) /\ Turns(y, s, n)
    BY <1>1, <1>2, <1>3 DEF Turns
  <2>2. x[0] = y[0] /\ n \in Nat
    BY <1>1, <1>2, <1>3
  <2> QED BY <2>1, <2>2, SameTurns
<1>5. y[n + 1] = WithInput(y[n], e)
  <2>1. n + 1 \in 1 .. Len(a) /\ (n + 1) - 1 = n
    BY <1>1
  <2> QED BY <1>1, <1>3, <2>1 DEF Turns
<1> QED BY <1>1, <1>2, <1>3, <1>4, <1>5 DEF a

LEMMA FirstTaken ==
    ASSUME NEW b \in Seq(RingEvents), b # <<>>, NEW S, NEW s \in Seq(S)
    PROVE  /\ FollowedBy(b, s) \in Seq(RingEvents)
           /\ FollowedBy(b, s) # <<>>
           /\ FollowedBy(Tail(b), s) = Tail(FollowedBy(b, s))
<1> DEFINE n == Len(s)
<1>1. n \in Nat
  OBVIOUS
<1>2. PICK x : /\ x[0] = b
               /\ Turns(x, s, n)
               /\ FollowedBy(b, s) = x[n]
  BY InputTurns
<1>3. PICK y : /\ y[0] = Tail(b)
               /\ Turns(y, s, n)
               /\ FollowedBy(Tail(b), s) = y[n]
  BY InputTurns
<1> HIDE DEF n
<1> DEFINE X == {i \in Nat : /\ x[i] \in Seq(RingEvents) \ {<<>>}
                             /\ y[i] = Tail(x[i])}
<1>4. 0 \in X
  BY <1>2, <1>3
<1>5. ASSUME NEW i \in Nat, i < n, i \in X PROVE i + 1 \in X
  <2>1. i + 1 \in 1 .. n /\ (i + 1) - 1 = i
    BY <1>1, <1>5
  <2>2. /\ x[i + 1] = WithInput(x[i], s[i + 1])
        /\ y[i + 1] = WithInput(y[i], s[i + 1])
    BY <1>2, <1>3, <2>1 DEF Turns
  <2>3. ASSUME NEW a \in Seq(RingEvents), a # <<>>, NEW e \in RingEvents
        PROVE  Append(a, e) # <<>> /\ Append(Tail(a), e) = Tail(Append(a, e))
    BY <2>3
  <2>4. CASE s[i + 1] \in Inputs
    <3>1. s[i + 1] \in RingEvents
      BY <2>4 DEF RingEvents
    <3>2. /\ x[i + 1] = Append(x[i], s[i + 1])
          /\ y[i + 1] = Append(Tail(x[i]), s[i + 1])
          /\ x[i] \in Seq(RingEvents) /\ x[i] # <<>>
      BY <1>5, <2>2, <2>4 DEF WithInput
    <3>3. Append(x[i], s[i + 1]) \in Seq(RingEvents)
      BY <3>1, <3>2
    <3> DEFINE c == x[i]
               d == s[i + 1]
    <3>4. c \in Seq(RingEvents) /\ c # <<>> /\ d \in RingEvents
      BY <3>1, <3>2
    <3> HIDE DEF c, d
    <3>5. Append(c, d) # <<>> /\ Append(Tail(c), d) = Tail(Append(c, d))
      BY <2>3, <3>4
    <3>6. /\ x[i + 1] \in Seq(RingEvents) /\ x[i + 1] # <<>>
          /\ y[i + 1] = Tail(x[i + 1])
      BY <3>2, <3>3, <3>5 DEF c, d
    <3> QED BY <3>6
  <2>5. CASE s[i + 1] \notin Inputs
    BY <1>5, <2>2, <2>5 DEF WithInput
  <2> QED BY <2>4, <2>5
<1> HIDE DEF X
<1>6. n \in X
  <2>1. n \in 0 .. n
    BY <1>1
  <2> QED BY <1>1, <1>4, <1>5, <2>1, Induction
<1> QED BY <1>2, <1>3, <1>6 DEF X

LEMMA Removed ==
    ASSUME NEW S, NEW s \in Seq(S), NEW i \in 1 .. Len(s)
    PROVE  /\ RemoveAt(s, i) \in Seq(S)
           /\ Len(RemoveAt(s, i)) = Len(s) - 1
           /\ \A j \in 1 .. Len(s) - 1 :
                  RemoveAt(s, i)[j] = IF j < i THEN s[j] ELSE s[j + 1]
<1> DEFINE a == SubSeq(s, 1, i - 1)
           c == SubSeq(s, i + 1, Len(s))
           r == a \o c
<1>1. /\ a \in Seq(S) /\ Len(a) = i - 1
      /\ \A j \in 1 .. i - 1 : a[j] = s[j]
  OBVIOUS
<1>2. /\ c \in Seq(S) /\ Len(c) = Len(s) - i
      /\ \A j \in 1 .. Len(s) - i : c[j] = s[i + j]
  OBVIOUS
<1>3. RemoveAt(s, i) = r
  BY DEF RemoveAt
<1> HIDE DEF a, c
<1>4. /\ r \in Seq(S) /\ Len(r) = Len(a) + Len(c)
      /\ \A j \in 1 .. Len(a) : r[j] = a[j]
      /\ \A j \in 1 .. Len(c) : r[Len(a) + j] = c[j]
  <2>1. a \in Seq(S) /\ c \in Seq(S)
    BY <1>1, <1>2
  <2> QED BY <2>1
<1> HIDE DEF r
<1>5. i \in Nat /\ Len(s) \in Nat /\ i >= 1 /\ i <= Len(s)
  OBVIOUS
<1>6. ASSUME NEW j \in 1 .. Len(s) - 1
      PROVE  r[j] = IF j < i THEN s[j] ELSE s[j + 1]
  <2>1. CASE j < i
    BY <1>1, <1>4, <1>5, <2>1
  <2>2. CASE ~(j < i)
    <3> DEFINE x == j - (i - 1)
    <3>1. x \in 1 .. Len(s) - i /\ (i - 1) + x = j /\ i + x = j + 1
      BY <1>5, <2>2
    <3> HIDE DEF x
    <3>2. r[(i - 1) + x] = c[x] /\ c[x] = s[i + x]
      BY <1>1, <1>2, <1>4, <3>1
    <3> QED BY <2>2, <3>1, <3>2
  <2> QED BY <2>1, <2>2
<1> QED BY <1>1, <1>2, <1>3, <1>4, <1>5, <1>6

\* Removing an event and adding another one commute.
LEMMA RemovedBefore ==
    ASSUME NEW S, NEW s \in Seq(S), NEW i \in 1 .. Len(s), NEW e \in S
    PROVE  RemoveAt(Append(s, e), i) = Append(RemoveAt(s, i), e)
<1> DEFINE n == Len(s)
           a == Append(s, e)
           r == RemoveAt(s, i)
           b == Append(r, e)
           q == RemoveAt(a, i)
<1>1. /\ n \in Nat /\ a \in Seq(S) /\ Len(a) = n + 1 /\ a[n + 1] = e
      /\ \A j \in 1 .. n : a[j] = s[j]
  OBVIOUS
<1>2. /\ r \in Seq(S) /\ Len(r) = n - 1
      /\ \A j \in 1 .. n - 1 : r[j] = IF j < i THEN s[j] ELSE s[j + 1]
  BY Removed
<1> HIDE DEF r
<1>3. /\ b \in Seq(S) /\ Len(b) = n /\ b[n] = e
      /\ \A j \in 1 .. n - 1 : b[j] = r[j]
  <2>1. /\ b \in Seq(S) /\ Len(b) = Len(r) + 1 /\ b[Len(r) + 1] = e
        /\ \A j \in 1 .. Len(r) : b[j] = r[j]
    BY <1>2
  <2> HIDE DEF b, n
  <2> QED BY <1>1, <1>2, <2>1
<1> HIDE DEF a, b
<1>i. i \in 1 .. Len(a) /\ i \in 1 .. n /\ i \in Nat
  BY <1>1
<1>4. /\ q \in Seq(S) /\ Len(q) = Len(a) - 1
      /\ \A j \in 1 .. Len(a) - 1 : q[j] = IF j < i THEN a[j] ELSE a[j + 1]
  BY <1>1, <1>i, Removed
<1> HIDE DEF q, n
<1>5. ASSUME NEW j \in 1 .. n PROVE q[j] = b[j]
  <2>1. q[j] = IF j < i THEN a[j] ELSE a[j + 1]
    BY <1>1, <1>4
  <2>2. CASE j = n
    <3>1. ~(j < i)
      BY <1>1, <1>i, <2>2
    <3> QED BY <1>1, <1>3, <2>1, <2>2, <3>1
  <2>3. CASE j # n
    <3>1. j \in 1 .. n - 1 /\ j \in 1 .. n /\ j + 1 \in 1 .. n
      BY <1>1, <2>3
    <3>2. b[j] = IF j < i THEN s[j] ELSE s[j + 1]
      BY <1>2, <1>3, <3>1
    <3> QED BY <1>1, <2>1, <3>1, <3>2
  <2> QED BY <2>2, <2>3
<1>6. q = b
  <2>1. Len(q) = Len(b) /\ Len(q) = n
    BY <1>1, <1>3, <1>4
  <2> QED BY <1>3, <1>4, <1>5, <2>1, SameSeq
<1> QED BY <1>6 DEF q, b, a, r

LEMMA RemovedLast ==
    ASSUME NEW S, NEW s \in Seq(S), NEW e \in S
    PROVE  RemoveAt(Append(s, e), Len(s) + 1) = s
<1> DEFINE n == Len(s)
           a == Append(s, e)
           q == RemoveAt(a, n + 1)
<1>1. /\ n \in Nat /\ a \in Seq(S) /\ Len(a) = n + 1
      /\ \A j \in 1 .. n : a[j] = s[j]
  OBVIOUS
<1> HIDE DEF a
<1>2. n + 1 \in 1 .. Len(a)
  BY <1>1
<1>3. /\ q \in Seq(S) /\ Len(q) = Len(a) - 1
      /\ \A j \in 1 .. Len(a) - 1 : q[j] = IF j < n + 1 THEN a[j] ELSE a[j + 1]
  BY <1>1, <1>2, Removed
<1> HIDE DEF q
<1>4. \A j \in 1 .. n : q[j] = s[j]
  BY <1>1, <1>3
<1>5. q = s
  <2>1. Len(q) = Len(s)
    BY <1>1, <1>3
  <2> QED BY <1>3, <1>4, <2>1, SameSeq
<1> QED BY <1>5 DEF q, a

\* What follows an event that is lost is not touched.
LEMMA LostFirst ==
    ASSUME NEW b \in Seq(RingEvents), Len(b) = Size - 1, NEW e \in Inputs,
           NEW S, NEW s \in Seq(S)
    PROVE  LET u == FollowedBy(Append(b, e), s)
           IN  Len(u) > Size - 1 /\ FollowedBy(b, s) = RemoveAt(u, Size)
<1> DEFINE n == Len(s)
           a == Append(b, e)
<1>1. n \in Nat /\ Size \in Nat /\ Size > 0
  BY SizeIs
<1>a. /\ a \in Seq(RingEvents) /\ Len(a) = Size /\ b = RemoveAt(a, Size)
  <2>1. e \in RingEvents
    BY DEF RingEvents
  <2>2. RemoveAt(a, Len(b) + 1) = b
    BY <2>1, RemovedLast
  <2>3. Len(b) + 1 = Size
    BY <1>1
  <2>4. a \in Seq(RingEvents) /\ Len(a) = Len(b) + 1
    BY <2>1
  <2> HIDE DEF a
  <2>5. RemoveAt(a, Size) = b
    BY <2>2, <2>3
  <2> QED BY <2>3, <2>4, <2>5
<1> HIDE DEF a
<1>2. PICK x : /\ x[0] = a
               /\ Turns(x, s, n)
               /\ FollowedBy(a, s) = x[n]
  BY InputTurns
<1>3. PICK y : /\ y[0] = b
               /\ Turns(y, s, n)
               /\ FollowedBy(b, s) = y[n]
  BY InputTurns
<1> HIDE DEF n
<1> DEFINE X == {i \in Nat : /\ x[i] \in Seq(RingEvents) /\ Len(x[i]) >= Size
                             /\ y[i] = RemoveAt(x[i], Size)}
<1>4. 0 \in X
  BY <1>1, <1>2, <1>3, <1>a
<1>5. ASSUME NEW i \in Nat, i < n, i \in X PROVE i + 1 \in X
  <2> DEFINE c == x[i]
             d == s[i + 1]
  <2>1. i + 1 \in 1 .. n /\ (i + 1) - 1 = i
    BY <1>1, <1>5
  <2>2. /\ x[i + 1] = WithInput(c, d)
        /\ y[i + 1] = WithInput(y[i], d)
    BY <1>2, <1>3, <2>1 DEF Turns
  <2>3. c \in Seq(RingEvents) /\ Len(c) >= Size /\ y[i] = RemoveAt(c, Size)
    BY <1>5
  <2> HIDE DEF c, d
  <2>4. CASE d \in Inputs
    <3>1. d \in RingEvents
      BY <2>4 DEF RingEvents
    <3>2. x[i + 1] = Append(c, d) /\ y[i + 1] = Append(RemoveAt(c, Size), d)
      BY <2>2, <2>3, <2>4 DEF WithInput
    <3>3. Size \in 1 .. Len(c)
      BY <1>1, <2>3
    <3>4. RemoveAt(Append(c, d), Size) = Append(RemoveAt(c, Size), d)
      BY <2>3, <3>1, <3>3, RemovedBefore
    <3>5. Append(c, d) \in Seq(RingEvents) /\ Len(Append(c, d)) >= Size
      BY <1>1, <2>3, <3>1
    <3>6. /\ x[i + 1] \in Seq(RingEvents) /\ Len(x[i + 1]) >= Size
          /\ y[i + 1] = RemoveAt(x[i + 1], Size)
      BY <3>2, <3>4, <3>5
    <3> QED BY <3>6
  <2>5. CASE d \notin Inputs
    BY <2>2, <2>3, <2>5 DEF WithInput
  <2> QED BY <2>4, <2>5
<1> HIDE DEF X
<1>6. n \in X
  <2>1. n \in 0 .. n
    BY <1>1
  <2> QED BY <1>1, <1>4, <1>5, <2>1, Induction
<1>7. /\ x[n] \in Seq(RingEvents) /\ Len(x[n]) >= Size
      /\ y[n] = RemoveAt(x[n], Size)
  BY <1>6 DEF X
<1>8. Len(x[n]) > Size - 1
  BY <1>1, <1>7
<1> QED BY <1>2, <1>3, <1>7, <1>8 DEF a

-----------------------------------------------------------------------------
(* The loop, and the steps.                                                *)

Behind(l, s, m) == /\ Len(l) = Len(s) - m
                   /\ \A j \in 1 .. Len(l) : l[j] = s[m + j]

\* The events that come after the first m, one by one or as a sequence.
LEMMA Rest ==
    ASSUME NEW S, NEW s \in Seq(S), NEW x,
           Turns(x, s, Len(s)),
           NEW m \in 1 .. Len(s), NEW T, NEW l \in Seq(T), Behind(l, s, m)
    PROVE  FollowedBy(x[m], l) = x[Len(s)]
<1> DEFINE n == Len(l)
           z == [i \in Nat |-> x[m + i]]
<1>1. n \in Nat /\ m \in Nat /\ m >= 1 /\ m + n = Len(s) /\ Len(s) \in Nat
  BY DEF Behind
<1>2. PICK y : /\ y[0] = x[m]
               /\ Turns(y, l, n)
               /\ FollowedBy(x[m], l) = y[n]
  BY InputTurns
<1> HIDE DEF n
<1>3. z[0] = x[m] /\ z[n] = x[Len(s)]
  <2>1. z[0] = x[m + 0] /\ z[n] = x[m + n] /\ m + 0 = m
    BY <1>1
  <2> QED BY <1>1, <2>1
<1>4. ASSUME NEW i \in 1 .. n PROVE z[i] = WithInput(z[i - 1], l[i])
  <2>1. /\ i \in Nat /\ i - 1 \in Nat /\ m + i \in 1 .. Len(s)
        /\ (m + i) - 1 = m + (i - 1)
    BY <1>1
  <2>2. x[m + i] = WithInput(x[(m + i) - 1], s[m + i])
    BY <2>1 DEF Turns
  <2>3. l[i] = s[m + i]
    BY DEF n, Behind
  <2>4. z[i] = x[m + i] /\ z[i - 1] = x[m + (i - 1)]
    BY <2>1
  <2>5. x[m + i] = WithInput(x[m + (i - 1)], l[i])
    <3>1. x[(m + i) - 1] = x[m + (i - 1)]
      BY <2>1
    <3> QED BY <2>2, <2>3, <3>1
  <2> HIDE DEF z
  <2> QED BY <2>4, <2>5
<1> HIDE DEF z
<1>5. z[n] = y[n]
  <2>1. z[0] = y[0]
    BY <1>2, <1>3
  <2>2. Turns(z, l, n) /\ Turns(y, l, n)
    BY <1>2, <1>4 DEF Turns
  <2>3. n \in Nat
    BY <1>1
  <2> QED BY <2>1, <2>2, <2>3, SameTurns
<1> QED BY <1>2, <1>3, <1>5

\* sdl_pull_events, whatever the ring and the queue hold: no event that is
\* still to be taken is lost but the one that finds the ring full.
LEMMA PullIs ==
    ASSUME SdlTypeOK
    PROVE  /\ Pull.ring \in Rings
           /\ Pull.idx \in Slots
           /\ Pull.left \in Seq(Inputs \cup Others)
           /\ LET u == FollowedBy(Content(ring, head, tail), queue)
                  v == FollowedBy(Content(Pull.ring, Pull.idx, tail), Pull.left)
              IN  v = u \/ (Len(u) > Size - 1 /\ v = RemoveAt(u, Size))
<1> DEFINE E == Inputs \cup Others
           b == Content(ring, head, tail)
           n == Len(queue)
           start == [ring |-> ring, idx |-> head,
                     ended |-> FALSE, left |-> <<>>]
<1>1. /\ ring \in Rings /\ head \in Slots /\ tail \in Slots /\ queue \in Seq(E)
      /\ n \in Nat /\ \A i \in 1 .. n : queue[i] \in E
  BY DEF SdlTypeOK, Rings, Slots, RingEvents
<1>2. PICK t : /\ t[0] = start
               /\ \A i \in 1 .. n : t[i] = Pulled(t[i - 1], queue[i])
               /\ Pull = t[n]
  BY <1>1, PullTurns
<1>3. PICK x : /\ x[0] = b
               /\ Turns(x, queue, n)
               /\ FollowedBy(b, queue) = x[n]
  BY <1>1, InputTurns
<1>b. b \in Seq(RingEvents)
  BY <1>1, ContentIs
<1>c. start \in LoopType
  BY <1>1 DEF LoopType
<1> DEFINE C(i) == Content(t[i].ring, t[i].idx, tail)
           Running(i) == ~t[i].ended /\ t[i].left = <<>> /\ C(i) = x[i]
           EndedAt(i, m) == /\ t[i].ended
                            /\ Len(C(i)) = Size - 1 /\ C(i) = x[m - 1]
                            /\ Len(t[i].left) = i - m
                            /\ \A j \in 1 .. i - m : t[i].left[j] = queue[m + j]
           X == {i \in Nat : /\ t[i] \in LoopType
                             /\ Running(i) \/ \E m \in 1 .. i : EndedAt(i, m)}
<1>4. 0 \in X
  <2>1. t[0] \in LoopType
    BY <1>2, <1>c
  <2>2. Running(0)
    BY <1>2, <1>3
  <2> QED BY <2>1, <2>2
<1> HIDE DEF n, b, start
<1>5. ASSUME NEW i \in Nat, i < n, i \in X PROVE i + 1 \in X
  <2> DEFINE old == t[i]
             e == queue[i + 1]
             new == t[i + 1]
  <2>1. i + 1 \in 1 .. n /\ (i + 1) - 1 = i
    BY <1>1, <1>5
  <2>2. new = Pulled(old, e) /\ x[i + 1] = WithInput(x[i], e)
    BY <1>2, <1>3, <2>1 DEF Turns
  <2>3. e \in E
    BY <1>1, <2>1
  <2>4. old \in LoopType
    BY <1>5
  <2>o. /\ old.ring \in Rings /\ old.idx \in Slots
        /\ old.left \in Seq(Inputs \cup Others)
    BY <2>4 DEF LoopType
  <2> HIDE DEF old, e, new
  <2>5. /\ new \in LoopType
        /\ old.ended => /\ new.ended /\ new.ring = old.ring
                        /\ new.idx = old.idx
                        /\ new.left = Append(old.left, e)
        /\ ~old.ended /\ Following(old.idx) = tail =>
               /\ new.ended /\ new.ring = old.ring /\ new.idx = old.idx
               /\ new.left = old.left
        /\ ~old.ended /\ Following(old.idx) # tail /\ e \notin Inputs =>
               new = old
        /\ ~old.ended /\ Following(old.idx) # tail /\ e \in Inputs =>
               /\ ~new.ended /\ new.left = old.left
               /\ new.ring = [old.ring EXCEPT ![old.idx] = e]
               /\ new.idx = Following(old.idx)
    BY <2>2, <2>3, <2>4, PulledCases
  <2>6. CASE Running(i)
    <3>1. /\ ~old.ended /\ old.left = <<>>
          /\ Content(old.ring, old.idx, tail) = x[i]
      BY <2>6 DEF old
    <3>2. CASE Following(old.idx) = tail
      <4>1. /\ new.ended /\ new.ring = old.ring /\ new.idx = old.idx
            /\ new.left = <<>>
        BY <2>5, <3>1, <3>2
      <4>2. Len(Content(old.ring, old.idx, tail)) = Size - 1
        BY <1>1, <2>o, <3>2, FullIs
      <4>3. Content(new.ring, new.idx, tail) = Content(old.ring, old.idx, tail)
        BY <4>1
      <4>4. EndedAt(i + 1, i + 1)
        <5>1. Len(new.left) = (i + 1) - (i + 1)
          BY <4>1
        <5>2. \A j \in 1 .. (i + 1) - (i + 1) : new.left[j] = queue[i + 1 + j]
          OBVIOUS
        <5>3. x[(i + 1) - 1] = x[i]
          BY <2>1
        <5> QED BY <3>1, <4>1, <4>2, <4>3, <5>1, <5>2, <5>3 DEF new
      <4>5. i + 1 \in 1 .. i + 1 /\ i + 1 \in Nat
        OBVIOUS
      <4> HIDE DEF EndedAt
      <4> QED BY <2>5, <4>4, <4>5 DEF new
    <3>3. CASE Following(old.idx) # tail /\ e \notin Inputs
      <4>1. new = old /\ x[i + 1] = x[i]
        BY <2>2, <2>5, <3>1, <3>3 DEF WithInput
      <4>2. Running(i + 1)
        BY <3>1, <4>1 DEF new
      <4> HIDE DEF Running
      <4> QED BY <2>5, <4>2 DEF new
    <3>4. CASE Following(old.idx) # tail /\ e \in Inputs
      <4>1. /\ ~new.ended /\ new.left = <<>>
            /\ new.ring = [old.ring EXCEPT ![old.idx] = e]
            /\ new.idx = Following(old.idx)
        BY <2>5, <3>1, <3>4
      <4>2. x[i + 1] = Append(x[i], e)
        BY <2>2, <3>4 DEF WithInput
      <4>3. Content([old.ring EXCEPT ![old.idx] = e], Following(old.idx), tail)
               = Append(Content(old.ring, old.idx, tail), e)
        BY <1>1, <2>o, <3>4, PutIs
      <4>4. Running(i + 1)
        BY <3>1, <4>1, <4>2, <4>3 DEF new
      <4> HIDE DEF Running
      <4> QED BY <2>5, <4>4 DEF new
    <3> QED BY <3>2, <3>3, <3>4
  <2>7. ASSUME NEW m \in 1 .. i, EndedAt(i, m) PROVE i + 1 \in X
    <3>1. /\ old.ended
          /\ Len(Content(old.ring, old.idx, tail)) = Size - 1
          /\ Content(old.ring, old.idx, tail) = x[m - 1]
          /\ Len(old.left) = i - m
          /\ \A j \in 1 .. i - m : old.left[j] = queue[m + j]
      BY <2>7 DEF old
    <3>2. /\ new.ended /\ new.ring = old.ring /\ new.idx = old.idx
          /\ new.left = Append(old.left, e)
      BY <2>5, <3>1
    <3>3. Content(new.ring, new.idx, tail) = Content(old.ring, old.idx, tail)
      BY <3>2
    <3>4. /\ Len(Append(old.left, e)) = Len(old.left) + 1
          /\ Append(old.left, e)[Len(old.left) + 1] = e
          /\ \A j \in 1 .. Len(old.left) : Append(old.left, e)[j] = old.left[j]
      BY <2>3, <2>o
    <3>5. Len(new.left) = (i + 1) - m
      BY <3>1, <3>2, <3>4
    <3>6. ASSUME NEW j \in 1 .. (i + 1) - m PROVE new.left[j] = queue[m + j]
      <4>1. CASE j = (i + 1) - m
        <5>1. new.left[(i - m) + 1] = e
          BY <3>1, <3>2, <3>4
        <5>2. (i - m) + 1 = j /\ m + j = i + 1
          BY <4>1
        <5> QED BY <5>1, <5>2 DEF e
      <4>2. CASE j # (i + 1) - m
        <5>1. j \in 1 .. i - m
          BY <4>2
        <5> QED BY <3>1, <3>2, <3>4, <5>1
      <4> QED BY <4>1, <4>2
    <3>7. EndedAt(i + 1, m)
      BY <3>1, <3>2, <3>3, <3>5, <3>6 DEF new
    <3>8. m \in 1 .. i + 1 /\ i + 1 \in Nat
      OBVIOUS
    <3> HIDE DEF EndedAt
    <3> QED BY <2>5, <3>7, <3>8 DEF new
  <2> HIDE DEF Running, EndedAt
  <2> QED BY <1>5, <2>6, <2>7
<1> HIDE DEF X
<1>6. n \in X
  <2>1. n \in 0 .. n
    BY <1>1
  <2> QED BY <1>1, <1>4, <1>5, <2>1, Induction
<1>7. t[n] \in LoopType /\ (Running(n) \/ \E m \in 1 .. n : EndedAt(n, m))
  BY <1>6 DEF X
<1>8. Pull \in LoopType
  BY <1>2, <1>7
<1>9. /\ Pull.ring \in Rings /\ Pull.idx \in Slots
      /\ Pull.left \in Seq(Inputs \cup Others)
  BY <1>8 DEF LoopType
<1> DEFINE c == Content(Pull.ring, Pull.idx, tail)
           l == Pull.left
           u == FollowedBy(b, queue)
           v == FollowedBy(c, l)
           Lost(p, q) == q = p \/ (Len(p) > Size - 1 /\ q = RemoveAt(p, Size))
<1>10. ASSUME Running(n) PROVE Lost(u, v)
  <2>1. c = x[n] /\ l = <<>>
    BY <1>2, <1>10
  <2>2. v = c
    BY <2>1, NoneQueued
  <2>3. u = x[n]
    BY <1>3
  <2> HIDE DEF u, v
  <2> QED BY <2>1, <2>2, <2>3
<1>11. ASSUME NEW m \in 1 .. n, EndedAt(n, m)
       PROVE  Lost(u, v)
  <2>1. /\ Len(c) = Size - 1 /\ c = x[m - 1] /\ Len(l) = n - m
        /\ \A j \in 1 .. n - m : l[j] = queue[m + j]
    BY <1>2, <1>11
  <2>2. x[m] = WithInput(c, queue[m])
    BY <1>3, <2>1 DEF Turns
  <2>3. c \in Seq(RingEvents)
    BY <1>1, <1>9, ContentIs
  <2>l. l \in Seq(E)
    BY <1>9
  <2> HIDE DEF c, l, E
  <2>4. FollowedBy(x[m], l) = x[n]
    <3>1. queue \in Seq(E) /\ l \in Seq(E)
      BY <1>1, <2>l
    <3>2. Turns(x, queue, Len(queue)) /\ m \in 1 .. Len(queue)
      BY <1>3 DEF n
    <3>3. Behind(l, queue, m)
      BY <2>1 DEF n, Behind
    <3>4. FollowedBy(x[m], l) = x[Len(queue)]
      BY <3>1, <3>2, <3>3, Rest
    <3> QED BY <3>4 DEF n
  <2>5. u = x[n]
    BY <1>3
  <2>6. CASE queue[m] \in Inputs
    <3>1. x[m] = Append(c, queue[m])
      BY <2>2, <2>6 DEF WithInput
    <3>2. /\ Len(FollowedBy(Append(c, queue[m]), l)) > Size - 1
          /\ FollowedBy(c, l) =
                 RemoveAt(FollowedBy(Append(c, queue[m]), l), Size)
      BY <2>1, <2>3, <2>6, <2>l, LostFirst
    <3> QED BY <2>4, <2>5, <3>1, <3>2
  <2>7. CASE queue[m] \notin Inputs
    <3>1. x[m] = c
      BY <2>2, <2>7 DEF WithInput
    <3> QED BY <2>4, <2>5, <3>1
  <2> QED BY <2>6, <2>7
<1> HIDE DEF Running, EndedAt, v, u, Lost
<1>12. Lost(u, v)
  BY <1>7, <1>10, <1>11
<1> HIDE DEF c, l
<1> QED BY <1>9, <1>12 DEF Lost, v, u, c, l, b

Quiet == UNCHANGED <<queue, ring, head, tail>>

LEMMA SdlTypes ==
    SdlTypeOK => /\ ring \in Rings /\ head \in Slots /\ tail \in Slots
                 /\ queue \in Seq(Inputs \cup Others)
                 /\ window \in BOOLEAN
BY DEF SdlTypeOK, Rings, Slots, RingEvents

LEMMA UntakenIs == Untaken = FollowedBy(Content(ring, head, tail), queue)
BY DEF Untaken, InRing, Content

LEMMA QueueStarts == SdlInit => SdlTypeOK /\ Untaken = <<>>
<1> SUFFICES ASSUME SdlInit PROVE SdlTypeOK /\ Untaken = <<>>
  OBVIOUS
<1>1. SdlTypeOK
  BY SizeIs DEF SdlInit, SdlTypeOK
<1>2. /\ Len(Content(ring, head, tail)) = 0
      /\ Content(ring, head, tail) \in Seq(RingEvents)
  <2>1. head = tail /\ head \in Int
    BY DEF SdlInit
  <2> QED BY <1>1, <2>1, SdlTypes, ContentIs
<1>3. Content(ring, head, tail) = <<>>
  BY <1>2
<1>4. queue = <<>>
  BY DEF SdlInit
<1> QED BY <1>1, <1>3, <1>4, NoneQueued, UntakenIs

LEMMA QuietKeeps == ASSUME SdlTypeOK, Quiet, window' \in BOOLEAN
                    PROVE  SdlTypeOK' /\ Untaken' = Untaken
BY DEF SdlTypeOK, Quiet, Untaken, InRing

LEMMA PullKeeps == ASSUME SdlTypeOK, PullEvents
                   PROVE  SdlTypeOK' /\ (Untaken' = Untaken \/ EQ!Lose)
<1>1. /\ ring' = Pull.ring /\ head' = Pull.idx /\ queue' = Pull.left
      /\ tail' = tail /\ window' = window
  BY DEF PullEvents
<1>2. /\ Pull.ring \in Rings /\ Pull.idx \in Slots
      /\ Pull.left \in Seq(Inputs \cup Others)
  BY PullIs
<1>3. SdlTypeOK'
  BY <1>1, <1>2 DEF SdlTypeOK, Rings, Slots, RingEvents
<1> DEFINE u == FollowedBy(Content(ring, head, tail), queue)
           v == FollowedBy(Content(Pull.ring, Pull.idx, tail), Pull.left)
<1>4. v = u \/ (Len(u) > Size - 1 /\ v = RemoveAt(u, Size))
  BY PullIs
<1>5. Untaken = u
  BY UntakenIs
<1>6. Untaken' = FollowedBy(Content(ring', head', tail'), queue')
  BY DEF Untaken, InRing, Content
<1>7. Untaken' = v
  BY <1>1, <1>6
<1> HIDE DEF u, v
<1>8. CASE v = u
  BY <1>3, <1>5, <1>7, <1>8
<1>9. CASE Len(u) > Size - 1 /\ v = RemoveAt(u, Size)
  <2>1. (Size - 1) + 1 = Size
    BY SizeIs
  <2>2. Len(Untaken) > Size - 1 /\ Untaken' = RemoveAt(Untaken, (Size - 1) + 1)
    BY <1>5, <1>7, <1>9, <2>1
  <2>3. EQ!Lose
    BY <2>2 DEF EQ!Lose, EQ!RemoveAt, RemoveAt
  <2> QED BY <1>3, <2>3
<1> QED BY <1>4, <1>8, <1>9

LEMMA HappensKeeps == ASSUME SdlTypeOK, EventHappens
                      PROVE  SdlTypeOK' /\ (Untaken' = Untaken \/ EQ!Happen)
<1>1. PICK e \in Inputs \cup Others : queue' = Append(queue, e)
  BY DEF EventHappens
<1>2. UNCHANGED <<window, ring, head, tail>>
  BY DEF EventHappens
<1>3. SdlTypeOK'
  BY <1>1, <1>2 DEF SdlTypeOK
<1>4. Untaken' = FollowedBy(Content(ring, head, tail), queue')
  BY <1>2 DEF Untaken, InRing, Content
<1>5. FollowedBy(Content(ring, head, tail), Append(queue, e)) =
          WithInput(FollowedBy(Content(ring, head, tail), queue), e)
  BY SdlTypes, OneMoreQueued
<1>6. Untaken' = WithInput(Untaken, e)
  BY <1>1, <1>4, <1>5, UntakenIs
<1>7. CASE e \in Inputs
  BY <1>3, <1>6, <1>7 DEF WithInput, EQ!Happen
<1>8. CASE e \notin Inputs
  BY <1>3, <1>6, <1>8 DEF WithInput
<1> QED BY <1>7, <1>8

LEMMA TakeKeeps == ASSUME SdlTypeOK, GuestTakes PROVE SdlTypeOK' /\ EQ!Take
<1> DEFINE b == Content(ring, head, tail)
<1>1. /\ tail # head /\ tail' = Following(tail)
      /\ UNCHANGED <<window, queue, ring, head>>
  BY DEF GuestTakes
<1>2. ring \in Rings /\ head \in Slots /\ tail \in Slots
  BY SdlTypes
<1>3. Following(tail) \in Slots
  BY <1>2, FollowingIs
<1>4. SdlTypeOK'
  BY <1>1, <1>3 DEF SdlTypeOK, Slots
<1>5. b # <<>> /\ Content(ring, head, Following(tail)) = Tail(b)
  BY <1>1, <1>2, TakeIs
<1>6. b \in Seq(RingEvents)
  BY <1>2, ContentIs
<1>7. Untaken = FollowedBy(b, queue)
  BY UntakenIs
<1>8. Untaken' = FollowedBy(Content(ring', head', tail'), queue')
  BY DEF Untaken, InRing, Content
<1>9. Untaken' = FollowedBy(Tail(b), queue)
  BY <1>1, <1>5, <1>8
<1> HIDE DEF b
<1>10. /\ FollowedBy(b, queue) # <<>>
       /\ FollowedBy(Tail(b), queue) = Tail(FollowedBy(b, queue))
  BY <1>5, <1>6, SdlTypes, FirstTaken
<1>11. Untaken # <<>> /\ Untaken' = Tail(Untaken)
  BY <1>7, <1>9, <1>10
<1> QED BY <1>4, <1>11 DEF EQ!Take

\* Every step of the emulator is one of the event queue or none of its.
LEMMA StepKeeps ==
    ASSUME SdlTypeOK, [Next]_vars
    PROVE  SdlTypeOK' /\ [EQ!Next]_Untaken
<1>q. ASSUME Quiet, window' \in {window, TRUE}
      PROVE  SdlTypeOK' /\ [EQ!Next]_Untaken
  <2>1. window' \in BOOLEAN
    BY <1>q, SdlTypes
  <2>2. SdlTypeOK' /\ Untaken' = Untaken
    BY <1>q, <2>1, QuietKeeps
  <2> QED BY <2>2
<1>1. ASSUME NEW g \in GuestFds, CloseCall(g)
      PROVE  SdlTypeOK' /\ [EQ!Next]_Untaken
  BY <1>1, <1>q DEF CloseCall, sdlVars, Quiet
<1>2. ASSUME NEW file \in Files, Open(file)
      PROVE  SdlTypeOK' /\ [EQ!Next]_Untaken
  BY <1>2, <1>q DEF Open, sdlVars, Quiet
<1>3. ASSUME NEW address \in Breaks, Brk(address)
      PROVE  SdlTypeOK' /\ [EQ!Next]_Untaken
  BY <1>3, <1>q DEF Brk, sdlVars, Quiet
<1>4. CASE Exit
  BY <1>4, <1>q DEF Exit, sdlVars, Quiet
<1>5. ASSUME NEW size, NEW w, NEW h, InitWindow(size, w, h)
      PROVE  SdlTypeOK' /\ [EQ!Next]_Untaken
  BY <1>5, <1>q DEF InitWindow, Quiet
<1>6. CASE Events
  <2>1. CASE PullEvents
    BY <2>1, PullKeeps DEF EQ!Next
  <2>2. CASE EventHappens
    BY <2>2, HappensKeeps DEF EQ!Next
  <2>3. CASE GuestTakes
    BY <2>3, TakeKeeps DEF EQ!Next
  <2> QED BY <1>6, <2>1, <2>2, <2>3 DEF Events
<1>7. CASE UNCHANGED vars
  BY <1>7, <1>q DEF vars, sdlVars, Quiet
<1> QED BY <1>1, <1>2, <1>3, <1>4, <1>5, <1>6, <1>7 DEF Next

\* The guest takes the events of sdl_pull_events in the order in which they
\* happened, and a pull loses at most the one that finds the ring full: for
\* every size of the ring and every length of SDL's queue.
THEOREM EventQueueRefinement == Spec => ImplementsEventQueue
<1>1. Init => SdlTypeOK /\ EQ!Init
  BY QueueStarts DEF Init, EQ!Init
<1>2. SdlTypeOK /\ [Next]_vars => SdlTypeOK' /\ [EQ!Next]_Untaken
  BY StepKeeps
<1> QED BY <1>1, <1>2, PTL DEF Spec, ImplementsEventQueue, EQ!Spec

-----------------------------------------------------------------------------
(* Types.                                                                  *)

LEMMA TypesStart == Init => TypeOK
<1> SUFFICES ASSUME Init PROVE TypeOK
  OBVIOUS
<1>1. fds \in [Fds -> Own \cup Files \cup {NoFile}]
  BY InitHolds DEF IInv
<1>2. SdlTypeOK
  BY QueueStarts DEF Init
<1> QED BY <1>1, <1>2 DEF Init, TypeOK

\* The display's descriptor is one from below BASE only because those that the
\* emulator keeps are free, which is the other invariant.
LEMMA TypesKept == ASSUME IInv, TypeOK, [Next]_vars PROVE TypeOK'
<1>1. fds' \in [Fds -> Own \cup Files \cup {NoFile}]
  BY NextKeeps DEF IInv
<1>2. SdlTypeOK'
  BY StepKeeps DEF TypeOK
<1>k. ASSUME display' = display, elf_brk' = elf_brk, over' \in {over, TRUE}
      PROVE  TypeOK'
  BY <1>k, <1>1, <1>2 DEF TypeOK
<1>3. ASSUME NEW g \in GuestFds, CloseCall(g) PROVE TypeOK'
  BY <1>3, <1>k DEF CloseCall
<1>4. ASSUME NEW file \in Files, Open(file) PROVE TypeOK'
  BY <1>4, <1>k DEF Open
<1>5. ASSUME NEW address \in Breaks, Brk(address) PROVE TypeOK'
  <2>1. elf_brk' \in {LoadedBrk} \cup 1 .. (BrkLimit - 1)
    BY <1>5 DEF Brk, TypeOK
  <2> QED BY <1>1, <1>2, <1>5, <2>1 DEF Brk, TypeOK
<1>6. CASE Exit
  BY <1>6, <1>k DEF Exit
<1>7. ASSUME NEW size, NEW w, NEW h, InitWindow(size, w, h) PROVE TypeOK'
  <2>1. display' \in Lower \cup {-1}
    <3>1. CASE over'
      <4>1. display' = display
        BY <1>7, <3>1 DEF InitWindow, Call
      <4> QED BY <4>1 DEF TypeOK
    <3>2. CASE ~over'
      BY <1>7, <3>2, NextKeeps DEF IInv
    <3> QED BY <3>1, <3>2
  <2>2. elf_brk' = elf_brk /\ over' \in {over, TRUE}
    BY <1>7 DEF InitWindow
  <2> QED BY <1>1, <1>2, <2>1, <2>2 DEF TypeOK
<1>8. CASE Events
  BY <1>8, <1>k DEF Events
<1>9. CASE UNCHANGED vars
  BY <1>9, <1>k DEF vars
<1> QED BY <1>3, <1>4, <1>5, <1>6, <1>7, <1>8, <1>9 DEF Next

\* elf_brk stays below the limit, the indices stay inside the guest's ring, the
\* connection to the display stays below BASE.
THEOREM TypeCorrectness == Spec => []TypeOK
<1>1. Init => IInv /\ TypeOK
  BY InitHolds, TypesStart
<1>2. IInv /\ TypeOK /\ [Next]_vars => IInv' /\ TypeOK'
  BY NextKeeps, TypesKept
<1> QED BY <1>1, <1>2, PTL DEF Spec
=============================================================================
