------------------------------ MODULE BitWords ------------------------------
(***************************************************************************)
(* Machine words.  A word is the set of its bits that are one, so that the *)
(* masks and shifts of the code are operations on sets; where the code     *)
(* calculates, the word stands for a number.                               *)
(***************************************************************************)
EXTENDS Integers, FiniteSetsExt

CONSTANT W  \* bits of a register, 32 in the code

Bits == 0 .. (W - 1)
Words == SUBSET Bits

NumOf == [w \in Words |-> MapThenSumSet(LAMBDA i : 2 ^ i, w)]

\* uint32_t and int32_t.
Num(w) == NumOf[w]
Signed(w) == IF W - 1 \in w THEN Num(w) - 2 ^ W ELSE Num(w)

\* A number cut to the width of a word; a negative one in two's complement.
WordOf(n) == {i \in Bits : (n \div 2 ^ i) % 2 = 1}

Plus(a, b) == WordOf(Num(a) + Num(b))

\* << and >> of an unsigned number, >> of a signed one of `width` bits.
Up(w, k) == {i + k : i \in w}
Down(w, k) == {i - k : i \in {j \in w : j >= k}}
DownSigned(w, k, width) ==
    Down(w, k) \cup (IF width - 1 \in w THEN (width - k) .. (width - 1) ELSE {})
=============================================================================
