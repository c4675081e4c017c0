----------------------------- MODULE IsaProofs ------------------------------
(***************************************************************************)
(* The decoder and the handlers of the execution loop, for every width,    *)
(* all registers and all operands.  First the fields: what the compiler    *)
(* put into an instruction word is what the macros of cpu.h take out of    *)
(* it.  Then the effects: numbers as sums of bits, and with them the       *)
(* operators of Instructions, which work on bits, against those of Isa,    *)
(* which calculate; one class of instructions after the other; and from    *)
(* those that ExecutesRiscv always holds.                                  *)
(***************************************************************************)
EXTENDS Isa, WellFoundedInduction, TLAPS

\* A bit of a word shifted up or down, and of a signed word shifted down.
LEMMA UpBit ==
    ASSUME NEW w \in SUBSET Int, NEW k \in Int, NEW b \in Int
    PROVE  b \in Up(w, k) <=> b - k \in w
<1>1. ASSUME b \in Up(w, k) PROVE b - k \in w
  <2>1. PICK i \in w : b = i + k
    BY <1>1 DEF Up
  <2>2. i \in Int
    OBVIOUS
  <2>3. b - k = i
    BY <2>1, <2>2
  <2> QED BY <2>3
<1>2. ASSUME b - k \in w PROVE b \in Up(w, k)
  <2>1. b = (b - k) + k
    OBVIOUS
  <2> QED BY <2>1, <1>2 DEF Up
<1> QED BY <1>1, <1>2

LEMMA DownBit ==
    ASSUME NEW w \in SUBSET Int, NEW k \in Int, NEW b \in Int
    PROVE  b \in Down(w, k) <=> b + k \in w /\ b >= 0
<1>1. ASSUME b \in Down(w, k) PROVE b + k \in w /\ b >= 0
  <2>1. PICK i \in {j \in w : j >= k} : b = i - k
    BY <1>1 DEF Down
  <2>2. i \in Int /\ i >= k /\ i \in w
    BY <2>1
  <2>3. b + k = i /\ b >= 0
    BY <2>1, <2>2
  <2> QED BY <2>2, <2>3
<1>2. ASSUME b + k \in w, b >= 0 PROVE b \in Down(w, k)
  <2>1. b = (b + k) - k /\ b + k >= k
    BY <1>2
  <2>2. b + k \in {j \in w : j >= k}
    BY <1>2, <2>1
  <2> QED BY <2>1, <2>2 DEF Down
<1> QED BY <1>1, <1>2

LEMMA DownSignedBit ==
    ASSUME NEW w \in SUBSET Int, NEW k \in Int, NEW b \in Int
    PROVE  b \in DownSigned(w, k, 32) <=>
               \/ b + k \in w /\ b >= 0
               \/ 31 \in w /\ b >= 32 - k /\ b <= 31
<1>1. CASE 31 \in w
  <2>1. DownSigned(w, k, 32) = Down(w, k) \cup (32 - k) .. 31
    BY <1>1 DEF DownSigned
  <2> QED BY <1>1, <2>1, DownBit
<1>2. CASE 31 \notin w
  <2>1. DownSigned(w, k, 32) = Down(w, k)
    BY <1>2 DEF DownSigned
  <2> QED BY <1>2, <2>1, DownBit
<1> QED BY <1>1, <1>2

\* The results are sets of integers: two of them with the same bits are equal.
LEMMA ShiftsAreSets ==
    ASSUME NEW w \in SUBSET Int, NEW k \in Int
    PROVE  /\ Up(w, k) \in SUBSET Int
           /\ Down(w, k) \in SUBSET Int
           /\ DownSigned(w, k, 32) \in SUBSET Int
<1>1. Up(w, k) \in SUBSET Int /\ Down(w, k) \in SUBSET Int
  BY DEF Up, Down
<1> QED BY <1>1 DEF DownSigned

Word32 == SUBSET (0 .. 31)

LEMMA Word32IsSet ==
    ASSUME NEW w \in Word32, NEW v PROVE w \cap v \in SUBSET Int
<1>1. \A i \in w : i \in Int
  BY DEF Word32
<1> QED BY <1>1

-----------------------------------------------------------------------------
(* The immediates, one format after the other.                             *)

LEMMA DecodeI ==
    ASSUME NEW imm \in Word32, NEW rest \in Word32
    PROVE  I_IMM(EncodeI(imm) \cup (rest \cap 0 .. 19)) = SignExtend(imm, 11)
<1> DEFINE ins == EncodeI(imm) \cup (rest \cap 0 .. 19)
           top == ins \cap 20 .. 31
<1>1. ins \in SUBSET Int /\ top \in SUBSET Int
  BY ShiftsAreSets, Word32IsSet DEF EncodeI
<1>2. ASSUME NEW b \in Int
      PROVE  b \in top <=> b \in 20 .. 31 /\ b - 20 \in imm
  <2>1. b \in EncodeI(imm) <=> b - 20 \in imm \cap 0 .. 11
    BY UpBit, Word32IsSet DEF EncodeI
  <2> QED BY <2>1
<1>3. ASSUME NEW b \in Int
      PROVE  b \in I_IMM(ins) <=> b \in SignExtend(imm, 11)
  <2>1. b \in I_IMM(ins) <=> \/ b + 20 \in top /\ b >= 0
                             \/ 31 \in top /\ b >= 12 /\ b <= 31
    BY <1>1, DownSignedBit DEF I_IMM
  <2>2. b + 20 \in top <=> b + 20 \in 20 .. 31 /\ b \in imm
    BY <1>2
  <2>3. 31 \in top <=> 11 \in imm
    BY <1>2
  <2> QED BY <2>1, <2>2, <2>3 DEF SignExtend, Word32
<1>4. I_IMM(ins) \in SUBSET Int /\ SignExtend(imm, 11) \in SUBSET Int
  BY <1>1, ShiftsAreSets DEF I_IMM, SignExtend, Word32
<1> QED BY <1>3, <1>4

LEMMA DecodeS ==
    ASSUME NEW imm \in Word32, NEW rest \in Word32
    PROVE  S_IMM(EncodeS(imm) \cup (rest \cap NotStore)) = SignExtend(imm, 11)
<1> DEFINE ins == EncodeS(imm) \cup (rest \cap NotStore)
<1>1. ins \in SUBSET Int /\ \A v : ins \cap v \in SUBSET Int
  BY ShiftsAreSets, Word32IsSet DEF EncodeS
<1>2. ASSUME NEW b \in Int
      PROVE  b \in ins <=> \/ b - 7 \in imm \cap 0 .. 4
                            \/ b - 20 \in imm \cap 5 .. 11
                            \/ b \in rest \cap NotStore
  <2>1. b \in Up(imm \cap 0 .. 4, 7) <=> b - 7 \in imm \cap 0 .. 4
    BY UpBit, Word32IsSet
  <2>2. b \in Up(imm \cap 5 .. 11, 20) <=> b - 20 \in imm \cap 5 .. 11
    BY UpBit, Word32IsSet
  <2> QED BY <2>1, <2>2 DEF EncodeS
<1>3. ASSUME NEW b \in Int
      PROVE  b \in S_IMM(ins) <=> b \in SignExtend(imm, 11)
  <2>1. b \in S_IMM(ins) <=> \/ b + 7 \in ins \cap 7 .. 11 /\ b >= 0
                             \/ b + 20 \in ins \cap 25 .. 31 /\ b >= 0
                             \/ 31 \in ins /\ b >= 12 /\ b <= 31
    <3>1. b \in Down(ins \cap 7 .. 11, 7) <=>
              b + 7 \in ins \cap 7 .. 11 /\ b >= 0
      BY <1>1, DownBit
    <3>2. b \in DownSigned(ins \cap 25 .. 31, 20, 32) <=>
              \/ b + 20 \in ins \cap 25 .. 31 /\ b >= 0
              \/ 31 \in ins \cap 25 .. 31 /\ b >= 32 - 20 /\ b <= 31
      BY <1>1, DownSignedBit
    <3> QED BY <3>1, <3>2 DEF S_IMM, Field
  <2>2. b + 7 \in ins \cap 7 .. 11 <=> b \in imm \cap 0 .. 4
    BY <1>2 DEF NotStore
  <2>3. b + 20 \in ins \cap 25 .. 31 <=> b \in imm \cap 5 .. 11
    BY <1>2 DEF NotStore
  <2>4. 31 \in ins <=> 11 \in imm
    BY <1>2 DEF NotStore
  <2> QED BY <2>1, <2>2, <2>3, <2>4 DEF SignExtend, Word32
<1>4. S_IMM(ins) \in SUBSET Int /\ SignExtend(imm, 11) \in SUBSET Int
  BY <1>1, ShiftsAreSets DEF S_IMM, Field, SignExtend, Word32
<1> QED BY <1>3, <1>4

LEMMA DecodeB ==
    ASSUME NEW imm \in Word32, NEW rest \in Word32
    PROVE  B_IMM(EncodeB(imm) \cup (rest \cap NotStore)) =
               SignExtend(imm, 12) \ {0}
<1> DEFINE ins == EncodeB(imm) \cup (rest \cap NotStore)
<1>0. \A v : imm \cap v \in SUBSET Int
  BY Word32IsSet
<1>1. ins \in SUBSET Int /\ \A v : ins \cap v \in SUBSET Int
  BY <1>0, ShiftsAreSets, Word32IsSet DEF EncodeB
<1>2. ASSUME NEW b \in Int
      PROVE  b \in ins <=> \/ b - 7 \in imm \cap 1 .. 4
                            \/ b - 20 \in imm \cap 5 .. 10
                            \/ (b + 4 \in imm \cap {11} /\ b >= 0)
                            \/ b - 19 \in imm \cap {12}
                            \/ b \in rest \cap NotStore
  <2>1. b \in Up(imm \cap 1 .. 4, 7) <=> b - 7 \in imm \cap 1 .. 4
    BY <1>0, UpBit
  <2>2. b \in Up(imm \cap 5 .. 10, 20) <=> b - 20 \in imm \cap 5 .. 10
    BY <1>0, UpBit
  <2>3. b \in Down(imm \cap {11}, 4) <=> b + 4 \in imm \cap {11} /\ b >= 0
    BY <1>0, DownBit
  <2>4. b \in Up(imm \cap {12}, 19) <=> b - 19 \in imm \cap {12}
    BY <1>0, UpBit
  <2> QED BY <2>1, <2>2, <2>3, <2>4 DEF EncodeB
<1>3. ASSUME NEW b \in Int
      PROVE  b \in B_IMM(ins) <=> b \in SignExtend(imm, 12) \ {0}
  <2>1. b \in Down(ins \cap 8 .. 11, 7) <=> b \in imm \cap 1 .. 4
    <3>1. b \in Down(ins \cap 8 .. 11, 7) <=>
              b + 7 \in ins \cap 8 .. 11 /\ b >= 0
      BY <1>1, DownBit
    <3> QED BY <3>1, <1>2 DEF NotStore
  <2>2. b \in Down(ins \cap 25 .. 30, 20) <=> b \in imm \cap 5 .. 10
    <3>1. b \in Down(ins \cap 25 .. 30, 20) <=>
              b + 20 \in ins \cap 25 .. 30 /\ b >= 0
      BY <1>1, DownBit
    <3> QED BY <3>1, <1>2 DEF NotStore
  <2>3. b \in Up(ins \cap {7}, 4) <=> b \in imm \cap {11}
    <3>1. b \in Up(ins \cap {7}, 4) <=> b - 4 \in ins \cap {7}
      BY <1>1, UpBit
    <3> QED BY <3>1, <1>2 DEF NotStore
  <2>4. b \in DownSigned(ins \cap {31}, 19, 32) <=> 12 \in imm /\ b \in 12 .. 31
    <3>1. b \in DownSigned(ins \cap {31}, 19, 32) <=>
              \/ b + 19 \in ins \cap {31} /\ b >= 0
              \/ 31 \in ins \cap {31} /\ b >= 32 - 19 /\ b <= 31
      BY <1>1, DownSignedBit
    <3>2. 31 \in ins <=> 12 \in imm
      BY <1>2 DEF NotStore
    <3> QED BY <3>1, <3>2
  <2> QED BY <2>1, <2>2, <2>3, <2>4 DEF B_IMM, SignExtend, Word32
<1>4. B_IMM(ins) \in SUBSET Int /\ SignExtend(imm, 12) \in SUBSET Int
  BY <1>1, ShiftsAreSets DEF B_IMM, SignExtend, Word32
<1> QED BY <1>3, <1>4

LEMMA DecodeJ ==
    ASSUME NEW imm \in Word32, NEW rest \in Word32
    PROVE  J_IMM(EncodeJ(imm) \cup (rest \cap 0 .. 11)) =
               SignExtend(imm, 20) \ {0}
<1> DEFINE ins == EncodeJ(imm) \cup (rest \cap 0 .. 11)
           low == Down(ins, 21) \cap 0 .. 9
           mid == Down(ins, 20) \cap {0}
           high == Down(ins, 12) \cap 0 .. 7
<1>0. \A v : imm \cap v \in SUBSET Int
  BY Word32IsSet
<1>1. ins \in SUBSET Int
  BY <1>0, ShiftsAreSets, Word32IsSet DEF EncodeJ
<1>2. ASSUME NEW b \in Int
      PROVE  b \in ins <=> \/ b - 20 \in imm \cap 1 .. 10
                            \/ b - 9 \in imm \cap {11}
                            \/ b \in imm \cap 12 .. 19
                            \/ b - 11 \in imm \cap {20}
                            \/ b \in rest \cap 0 .. 11
  <2>1. b \in Up(imm \cap 1 .. 10, 20) <=> b - 20 \in imm \cap 1 .. 10
    BY <1>0, UpBit
  <2>2. b \in Up(imm \cap {11}, 9) <=> b - 9 \in imm \cap {11}
    BY <1>0, UpBit
  <2>3. b \in Up(imm \cap {20}, 11) <=> b - 11 \in imm \cap {20}
    BY <1>0, UpBit
  <2> QED BY <2>1, <2>2, <2>3 DEF EncodeJ
<1>d. /\ low \in SUBSET Int
      /\ mid \in SUBSET Int
      /\ high \in SUBSET Int
  OBVIOUS
<1>3. ASSUME NEW b \in Int
      PROVE  b \in J_IMM(ins) <=> b \in SignExtend(imm, 20) \ {0}
  <2>1. b \in Up(low, 1) <=> b \in imm \cap 1 .. 10
    <3>1. b \in Up(low, 1) <=>
              b - 1 \in low
      <4> HIDE DEF low
      <4> QED BY <1>d, UpBit
    <3>2. b - 1 \in Down(ins, 21) <=> b - 1 + 21 \in ins /\ b - 1 >= 0
      BY <1>1, DownBit
    <3> QED BY <3>1, <3>2, <1>2
  <2>2. b \in Up(mid, 11) <=> b \in imm \cap {11}
    <3>1. b \in Up(mid, 11) <=>
              b - 11 \in mid
      <4> HIDE DEF mid
      <4> QED BY <1>d, UpBit
    <3>2. 0 \in Down(ins, 20) <=> 0 + 20 \in ins
      BY <1>1, DownBit
    <3> QED BY <3>1, <3>2, <1>2
  <2>3. b \in Up(high, 12) <=> b \in imm \cap 12 .. 19
    <3>1. b \in Up(high, 12) <=>
              b - 12 \in high
      <4> HIDE DEF high
      <4> QED BY <1>d, UpBit
    <3>2. b - 12 \in Down(ins, 12) <=> b - 12 + 12 \in ins /\ b - 12 >= 0
      BY <1>1, DownBit
    <3> QED BY <3>1, <3>2, <1>2
  <2>4. b \in DownSigned(ins, 11, 32) \cap 20 .. 31 <=>
            20 \in imm /\ b \in 20 .. 31
    <3>1. b \in DownSigned(ins, 11, 32) <=>
              \/ b + 11 \in ins /\ b >= 0
              \/ 31 \in ins /\ b >= 32 - 11 /\ b <= 31
      BY <1>1, DownSignedBit
    <3>2. 31 \in ins <=> 20 \in imm
      BY <1>2
    <3>3. \A i \in ins : i <= 31
      <4>1. ASSUME NEW i \in ins PROVE i <= 31
        BY <1>1, <1>2
      <4> QED BY <4>1
    <3> QED BY <3>1, <3>2, <3>3
  <2> QED BY <2>1, <2>2, <2>3, <2>4 DEF J_IMM, SignExtend, Word32
<1>u. /\ Up(low, 1) \in SUBSET Int
      /\ Up(mid, 11) \in SUBSET Int
      /\ Up(high, 12) \in SUBSET Int
  BY <1>d, ShiftsAreSets
<1>4. J_IMM(ins) \in SUBSET Int /\ SignExtend(imm, 20) \in SUBSET Int
  BY <1>1, <1>u, ShiftsAreSets DEF J_IMM, SignExtend, Word32
<1> QED BY <1>3, <1>4

LEMMA DecodeU ==
    ASSUME NEW imm \in Word32, NEW rest \in Word32
    PROVE  U_IMM(EncodeU(imm) \cup (rest \cap 0 .. 11)) = imm \cap 12 .. 31
BY DEF U_IMM, EncodeU

\* I_IMM, S_IMM, B_IMM, J_IMM and U_IMM (cpu.h:72, cpu.c:49-58) give back the
\* immediate that the compiler encoded, sign included, whatever the other
\* fields of the instruction word hold.
THEOREM AllImmediatesDecode ==
    \A imm, rest \in SUBSET (0 .. 31) : ImmediatesDecode(imm, rest)
BY DecodeI, DecodeS, DecodeB, DecodeJ, DecodeU DEF ImmediatesDecode, Word32

-----------------------------------------------------------------------------
(* The bits of numbers.                                                    *)

Power(b) == 2 ^ b

LEMMA Powers ==
    ASSUME NEW b \in 0 .. 31
    PROVE  /\ Power(b) \in Nat /\ Power(b) > 0
           /\ (b >= 3 => Power(b) >= 8) /\ (b >= 5 => Power(b) >= 32)
           /\ (b >= 7 => Power(b) >= 128) /\ (b >= 11 => Power(b) >= 2048)
           /\ (b >= 12 => Power(b) >= 4096) /\ (b >= 20 => Power(b) >= 1048576)
<1>1. /\ Power(0) = 1 /\ Power(1) = 2 /\ Power(2) = 4
      /\ Power(3) = 8 /\ Power(4) = 16 /\ Power(5) = 32
      /\ Power(6) = 64 /\ Power(7) = 128 /\ Power(8) = 256
      /\ Power(9) = 512 /\ Power(10) = 1024 /\ Power(11) = 2048
      /\ Power(12) = 4096 /\ Power(13) = 8192 /\ Power(14) = 16384
      /\ Power(15) = 32768 /\ Power(16) = 65536 /\ Power(17) = 131072
      /\ Power(18) = 262144 /\ Power(19) = 524288 /\ Power(20) = 1048576
      /\ Power(21) = 2097152 /\ Power(22) = 4194304 /\ Power(23) = 8388608
      /\ Power(24) = 16777216 /\ Power(25) = 33554432 /\ Power(26) = 67108864
      /\ Power(27) = 134217728 /\ Power(28) = 268435456 /\ Power(29) = 536870912
      /\ Power(30) = 1073741824 /\ Power(31) = 2147483648
  BY DEF Power
<1> QED BY <1>1

LEMMA BitIs ==
    ASSUME NEW n, NEW b
    PROVE  b \in BitsOf(n) <=> b \in 0 .. 30 /\ (n \div Power(b)) % 2 = 1
BY Zenon DEF BitsOf, Power

LEMMA Parity ==
    ASSUME NEW x \in Int, NEW k \in Nat, k = 2
    PROVE  /\ x = -1 => x % k = 1
           /\ x = 0 => x % k = 0
<1>1. ASSUME NEW y \in Int, NEW p \in Nat, p > 0
      PROVE  /\ y < 0 /\ -p <= y => y % p = y + p
             /\ 0 <= y /\ y < p => y % p = y
  BY <1>1
<1> QED BY <1>1

\* The bits of a number that lie above it are its sign.
LEMMA SignBit ==
    ASSUME NEW n \in Int, NEW p \in Nat, p > 0, -p <= n, n < p
    PROVE  (n \div p) % 2 = IF n < 0 THEN 1 ELSE 0
<1> DEFINE m == n \div p
<1>1. n < 0 => m = -1
  OBVIOUS
<1>2. n >= 0 => m = 0
  OBVIOUS
<1> HIDE DEF m
<1>3. m = -1 \/ m = 0
  BY <1>1, <1>2
<1>4. m \in Int
  BY <1>3
<1>5. (m = -1 => m % 2 = 1) /\ (m = 0 => m % 2 = 0)
  BY <1>4, Parity
<1>6. n < 0 => m % 2 = 1
  BY <1>1, <1>5
<1>7. n >= 0 => m % 2 = 0
  BY <1>2, <1>5
<1>8. m % 2 = IF n < 0 THEN 1 ELSE 0
  BY <1>6, <1>7
<1> QED BY <1>8 DEF m

LEMMA SmallBits ==
    ASSUME NEW n \in Nat
    PROVE  /\ n < 8 => BitsOf(n) \in SUBSET (0 .. 2)
           /\ n < 32 => BitsOf(n) \in SUBSET (0 .. 4)
           /\ n < 128 => BitsOf(n) \in SUBSET (0 .. 6)
<1>1. ASSUME NEW b \in 0 .. 30, n < Power(b) PROVE b \notin BitsOf(n)
  <2>0. b \in 0 .. 31
    OBVIOUS
  <2>1. Power(b) \in Nat /\ Power(b) > 0
    BY <2>0, Powers
  <2>2. (n \div Power(b)) % 2 = 0
    <3> DEFINE p == Power(b)
    <3>1. p \in Nat /\ p > 0 /\ n < p
      BY <1>1, <2>1
    <3> HIDE DEF p
    <3>2. (n \div p) % 2 = 0
      BY <3>1, SignBit
    <3> QED BY <3>2 DEF p
  <2> QED BY <2>2, BitIs
<1>2. BitsOf(n) \subseteq 0 .. 30
  BY DEF BitsOf
<1>3. ASSUME NEW b \in BitsOf(n)
      PROVE  /\ n < 8 => b \in 0 .. 2
             /\ n < 32 => b \in 0 .. 4
             /\ n < 128 => b \in 0 .. 6
  <2>1. b \in 0 .. 30 /\ b \in 0 .. 31
    BY <1>2
  <2>2. ~(n < Power(b))
    BY <1>1, <2>1
  <2>3. Power(b) \in Nat
    BY <2>1, Powers
  <2>4. /\ b >= 3 => Power(b) >= 8
        /\ b >= 5 => Power(b) >= 32
        /\ b >= 7 => Power(b) >= 128
    BY <2>1, Powers
  <2> HIDE DEF BitsOf
  <2> QED BY <2>1, <2>2, <2>3, <2>4
<1> QED BY <1>3

\* The opcodes and function codes of the instructions fit their fields.
LEMMA Entries ==
    ASSUME NEW n \in DOMAIN Table
    PROVE  /\ Table[n][1] \in {3, 19, 23, 35, 51, 55, 99, 103, 111}
           /\ Table[n][2] \in 0 .. 7 /\ Table[n][3] \in 0 .. 127
           /\ n \in Shifts => Table[n][1] = 19
<1>1. Table[n] \in {3, 19, 23, 35, 51, 55, 99, 103, 111}
                       \X (0 .. 7) \X (0 .. 127)
  BY SMTT(60) DEF Table
<1>2. n \in Shifts => Table[n][1] = 19
  BY SMTT(60) DEF Table, Shifts
<1> QED BY <1>1, <1>2

-----------------------------------------------------------------------------
(* Numbers as sums of bits.  RD, RS1, RS2, Num and Value sum up powers of  *)
(* two in an order that CHOOSE decides; whatever it is, the result is the  *)
(* sum in the order of the bits, which induction reaches.                  *)

\* Induction up to n, over a set.
LEMMA Induction ==
    ASSUME NEW X, 0 \in X, NEW n \in Nat,
           \A i \in Nat : i < n /\ i \in X => i + 1 \in X
    PROVE  \A i \in 0 .. n : i \in X
<1> DEFINE T == {i \in 0 .. n : i \notin X}
<1> SUFFICES ASSUME T # {} PROVE FALSE
  OBVIOUS
<1>1. T \subseteq Nat
  OBVIOUS
<1>2. PICK m \in T : \A i \in T : <<i, m>> \notin OpToRel(<, Nat)
  <2> HIDE DEF T
  <2> QED BY <1>1, NatLessThanWellFounded, WFMin
<1>3. m \in Nat /\ m # 0 /\ m - 1 \in Nat
  OBVIOUS
<1>4. m - 1 \in X
  <2>1. <<m - 1, m>> \in OpToRel(<, Nat)
    BY <1>3 DEF OpToRel
  <2>2. m - 1 \notin T
    BY <1>2, <2>1
  <2>3. m - 1 \in 0 .. n
    BY <1>3
  <2> QED BY <2>2, <2>3
<1> QED BY <1>3, <1>4

\* The sums v[n] of the g[i] for i in T below n.
Term(g, T, i) == IF i \in T THEN g[i] ELSE 0
IsSums(g, T, v) == /\ v \in [0 .. 32 -> Int]
                   /\ v[0] = 0
                   /\ \A i \in 0 .. 31 : v[i + 1] = v[i] + Term(g, T, i)
Sums(g, T) == CHOOSE v : IsSums(g, T, v)
Total(g, T) == Sums(g, T)[32]
Weights == [0 .. 31 -> Int]

\* The partial sums exist, and CHOOSE finds them.
LEMMA SumsExist == ASSUME NEW g \in Weights, NEW T PROVE IsSums(g, T, Sums(g, T))
<1> DEFINE X == {n \in Nat : \E v \in [0 .. 32 -> Int] :
                   /\ v[0] = 0
                   /\ \A i \in 0 .. (n - 1) : i < 32 => v[i + 1] = v[i] + Term(g, T, i)}
<1>1. 0 \in X
  <2> DEFINE v == [i \in 0 .. 32 |-> 0]
  <2>1. v \in [0 .. 32 -> Int] /\ v[0] = 0
    OBVIOUS
  <2>2. 0 .. (0 - 1) = {}
    OBVIOUS
  <2> HIDE DEF v
  <2> QED BY <2>1, <2>2
<1>2. ASSUME NEW n \in Nat, n < 32, n \in X PROVE n + 1 \in X
  <2>1. PICK v \in [0 .. 32 -> Int] :
           /\ v[0] = 0
           /\ \A i \in 0 .. (n - 1) : i < 32 => v[i + 1] = v[i] + Term(g, T, i)
    BY <1>2
  <2>2. Term(g, T, n) \in Int
    BY <1>2 DEF Term, Weights
  <2> DEFINE u == [v EXCEPT ![n + 1] = v[n] + Term(g, T, n)]
  <2>3. v[n] + Term(g, T, n) \in Int
    BY <1>2, <2>2
  <2>4. u \in [0 .. 32 -> Int]
    BY <2>3
  <2>5. u[0] = 0
    BY <2>1
  <2>6. ASSUME NEW i \in 0 .. ((n + 1) - 1), i < 32
        PROVE  u[i + 1] = u[i] + Term(g, T, i)
    <3>1. i \in 0 .. n /\ i # n + 1 /\ i + 1 \in 0 .. 32
      BY <2>6
    <3>2. u[i] = v[i]
      BY <3>1
    <3>3. CASE i = n
      BY <3>1, <3>2, <3>3
    <3>4. CASE i # n
      <4>1. i \in 0 .. (n - 1) /\ i + 1 # n + 1
        BY <3>1, <3>4
      <4>2. u[i + 1] = v[i + 1]
        BY <4>1, <3>1
      <4> QED BY <2>1, <2>6, <3>2, <4>1, <4>2
    <3> QED BY <3>3, <3>4
  <2>7. \A i \in 0 .. ((n + 1) - 1) : i < 32 => u[i + 1] = u[i] + Term(g, T, i)
    <3> HIDE DEF u
    <3> QED BY <2>6
  <2> HIDE DEF u
  <2> QED BY <1>2, <2>4, <2>5, <2>7
<1>3. \A i \in 0 .. 32 : i \in X
  <2> HIDE DEF X
  <2> QED BY <1>1, <1>2, Induction
<1>4. 32 \in X
  BY <1>3
<1>5. PICK v : IsSums(g, T, v)
  BY <1>4 DEF IsSums
<1> QED BY <1>5 DEF Sums

\* Each partial sum adds one term.
LEMMA SumsStep ==
    ASSUME NEW g \in Weights, NEW T
    PROVE  /\ Sums(g, T)[0] = 0
           /\ \A i \in 0 .. 32 : Sums(g, T)[i] \in Int
           /\ \A i \in 0 .. 31 : Sums(g, T)[i + 1] = Sums(g, T)[i] + Term(g, T, i)
BY SumsExist DEF IsSums

\* What one element contributes.
LEMMA OneMore ==
    ASSUME NEW g \in Weights, NEW T, NEW x \in T, x \in 0 .. 31
    PROVE  Total(g, T) = g[x] + Total(g, T \ {x})
<1> DEFINE S == T \ {x}
           u == Sums(g, T)
           v == Sums(g, S)
           X == {n \in 0 .. 32 : u[n] = v[n] + (IF x < n THEN g[x] ELSE 0)}
<1>1. /\ u[0] = 0 /\ v[0] = 0
      /\ \A i \in 0 .. 32 : u[i] \in Int /\ v[i] \in Int
      /\ \A i \in 0 .. 31 : u[i + 1] = u[i] + Term(g, T, i)
      /\ \A i \in 0 .. 31 : v[i + 1] = v[i] + Term(g, S, i)
  BY SumsStep
<1>2. g[x] \in Int /\ \A i \in 0 .. 31 : g[i] \in Int
  BY DEF Weights
<1> HIDE DEF u, v
<1>3. 0 \in X
  BY <1>1
<1>4. ASSUME NEW n \in Nat, n < 32, n \in X PROVE n + 1 \in X
  <2>1. /\ u[n] = v[n] + (IF x < n THEN g[x] ELSE 0)
        /\ u[n + 1] = u[n] + Term(g, T, n)
        /\ v[n + 1] = v[n] + Term(g, S, n)
        /\ u[n] \in Int /\ v[n] \in Int /\ n + 1 \in 0 .. 32
    BY <1>1, <1>4
  <2>2. /\ n = x => Term(g, T, n) = g[x] /\ Term(g, S, n) = 0
        /\ n # x => Term(g, T, n) = Term(g, S, n) /\ Term(g, S, n) \in Int
    BY <1>2, <1>4 DEF Term
  <2>3. CASE n = x
    BY <1>2, <2>1, <2>2, <2>3
  <2>4. CASE n # x
    <3>1. x < n <=> x < n + 1
      BY <2>4
    <3> QED BY <1>2, <2>1, <2>2, <2>4, <3>1
  <2> QED BY <2>3, <2>4
<1>5. \A i \in 0 .. 32 : i \in X
  <2> HIDE DEF X
  <2> QED BY <1>3, <1>4, Induction
<1>6. u[32] = v[32] + g[x]
  BY <1>5
<1> QED BY <1>1, <1>2, <1>6 DEF Total, u, v

\* What MapThenFoldSet computes.
Folded(g, T, t) ==
    t = [S \in SUBSET T |->
           IF S = {} THEN 0
           ELSE g[CHOOSE x \in S : TRUE] + t[S \ {CHOOSE x \in S : TRUE}]]

One == [i \in 0 .. 31 |-> 1]

\* The total over nothing.
LEMMA NoSum == ASSUME NEW g \in Weights PROVE Total(g, {}) = 0
<1> DEFINE u == Sums(g, {})
           X == {n \in 0 .. 32 : u[n] = 0}
<1>1. /\ u[0] = 0
      /\ \A i \in 0 .. 31 : u[i + 1] = u[i] + Term(g, {}, i)
  BY SumsStep
<1> HIDE DEF u
<1>2. ASSUME NEW n \in Nat, n < 32, n \in X PROVE n + 1 \in X
  BY <1>1, <1>2 DEF Term
<1>3. \A i \in 0 .. 32 : i \in X
  <2> HIDE DEF X
  <2>1. 0 \in X
    BY <1>1 DEF X
  <2> QED BY <2>1, <1>2, Induction
<1> QED BY <1>3 DEF Total, u

\* The number of the elements, by which the folds are compared.
LEMMA Counts ==
    ASSUME NEW T PROVE Total(One, T) \in Nat
<1> DEFINE u == Sums(One, T)
           X == {n \in 0 .. 32 : u[n] \in Nat}
<1>0. One \in Weights /\ \A i \in 0 .. 31 : Term(One, T, i) \in Nat
  BY DEF One, Weights, Term
<1>1. /\ u[0] = 0
      /\ \A i \in 0 .. 31 : u[i + 1] = u[i] + Term(One, T, i)
  BY <1>0, SumsStep
<1> HIDE DEF u
<1>2. ASSUME NEW n \in Nat, n < 32, n \in X PROVE n + 1 \in X
  BY <1>0, <1>1, <1>2
<1>3. \A i \in 0 .. 32 : i \in X
  <2> HIDE DEF X
  <2>1. 0 \in X
    BY <1>1 DEF X
  <2> QED BY <2>1, <1>2, Induction
<1> QED BY <1>3 DEF Total, u

\* A fold in any order yields the total.
LEMMA FoldedIsTotal ==
    ASSUME NEW g \in Weights, NEW w \in SUBSET (0 .. 31), NEW t, Folded(g, w, t)
    PROVE  t[w] = Total(g, w)
<1> DEFINE Bad == {T \in SUBSET w : t[T] # Total(g, T)}
           N == {Total(One, T) : T \in Bad}
<1> SUFFICES ASSUME Bad # {} PROVE FALSE
  OBVIOUS
<1>1. \A T : Total(One, T) \in Nat
  BY Counts
<1>2. N \subseteq Nat /\ N # {}
  BY <1>1
<1>3. PICK m \in N : \A i \in N : <<i, m>> \notin OpToRel(<, Nat)
  <2> HIDE DEF N, Bad
  <2> QED BY <1>2, NatLessThanWellFounded, WFMin
<1>4. PICK T \in Bad : Total(One, T) = m
  OBVIOUS
<1> DEFINE x == CHOOSE x \in T : TRUE
<1>5. T # {}
  <2>1. t[{}] = 0
    BY DEF Folded
  <2> QED BY <1>4, <2>1, NoSum
<1>6. x \in T
  BY <1>5
<1>7. t[T] = g[x] + t[T \ {x}]
  BY <1>5 DEF Folded
<1> HIDE DEF x
<1>8. x \in 0 .. 31
  BY <1>6
<1>9. Total(g, T) = g[x] + Total(g, T \ {x})
  BY <1>6, <1>8, OneMore
<1>10. T \ {x} \notin Bad
  <2>0. One \in Weights /\ One[x] = 1
    BY <1>8 DEF One, Weights
  <2>1. Total(One, T) = 1 + Total(One, T \ {x})
    BY <1>6, <1>8, <2>0, OneMore
  <2>2. Total(One, T \ {x}) < m /\ Total(One, T \ {x}) \in Nat /\ m \in Nat
    BY <1>1, <1>4, <2>1
  <2>3. <<Total(One, T \ {x}), m>> \in OpToRel(<, Nat)
    BY <2>2 DEF OpToRel
  <2>4. T \ {x} \in Bad => Total(One, T \ {x}) \in N
    <3> HIDE DEF Bad
    <3> QED OBVIOUS
  <2> HIDE DEF N, Bad
  <2> QED BY <1>3, <2>3, <2>4
<1>11. t[T \ {x}] = Total(g, T \ {x})
  BY <1>10
<1> QED BY <1>4, <1>7, <1>9, <1>11

\* Such a fold exists.
LEMMA FoldedExists ==
    ASSUME NEW g \in Weights, NEW w \in SUBSET (0 .. 31) PROVE \E t : Folded(g, w, t)
<1> DEFINE t == [T \in SUBSET w |-> Total(g, T)]
<1>1. ASSUME NEW T \in SUBSET w, T # {}
      PROVE  Total(g, T) = g[CHOOSE x \in T : TRUE] + t[T \ {CHOOSE x \in T : TRUE}]
  <2> DEFINE x == CHOOSE x \in T : TRUE
  <2>1. x \in T
    BY <1>1
  <2> HIDE DEF x
  <2>2. Total(g, T) = g[x] + Total(g, T \ {x})
    BY <2>1, OneMore
  <2>3. t[T \ {x}] = Total(g, T \ {x})
    OBVIOUS
  <2> QED BY <2>2, <2>3 DEF x
<1>2. Total(g, {}) = 0
  BY NoSum
<1>3. Folded(g, w, t)
  BY <1>1, <1>2 DEF Folded
<1> QED BY <1>3

\* What the instance says of the width and the registers.
LEMMA Width == /\ W \in Nat /\ W \in 4 .. 32
               /\ W = 4 \/ W = 8 \/ W = 16 \/ W = 32
               /\ 0 \in Registers /\ 1 \in Registers /\ Registers \subseteq 0 .. 31
BY IsaAssumption

\* The powers of two, up to the carry of a 32-bit word.
LEMMA PowerTable ==
    ASSUME NEW b \in 0 .. 32
    PROVE  /\ Power(b) \in Nat /\ Power(b) > 0
           /\ b < 32 => Power(b + 1) = 2 * Power(b)
           /\ Power(0) = 1
<1>1. /\ Power(0) = 1 /\ Power(1) = 2 /\ Power(2) = 4
      /\ Power(3) = 8 /\ Power(4) = 16 /\ Power(5) = 32
      /\ Power(6) = 64 /\ Power(7) = 128 /\ Power(8) = 256
      /\ Power(9) = 512 /\ Power(10) = 1024 /\ Power(11) = 2048
      /\ Power(12) = 4096 /\ Power(13) = 8192 /\ Power(14) = 16384
      /\ Power(15) = 32768 /\ Power(16) = 65536 /\ Power(17) = 131072
      /\ Power(18) = 262144 /\ Power(19) = 524288 /\ Power(20) = 1048576
      /\ Power(21) = 2097152 /\ Power(22) = 4194304 /\ Power(23) = 8388608
      /\ Power(24) = 16777216 /\ Power(25) = 33554432 /\ Power(26) = 67108864
      /\ Power(27) = 134217728 /\ Power(28) = 268435456 /\ Power(29) = 536870912
      /\ Power(30) = 1073741824 /\ Power(31) = 2147483648
      /\ Power(32) = 4294967296
  BY DEF Power
<1> QED BY <1>1

LEMMA PowerNat == ASSUME NEW b \in 0 .. 32
                  PROVE  Power(b) \in Nat /\ Power(b) > 0
BY PowerTable

LEMMA PowerNone == Power(0) = 1
BY PowerTable

LEMMA PowerNext == ASSUME NEW b \in 0 .. 31 PROVE Power(b + 1) = 2 * Power(b)
BY PowerTable

\* 2^(i+k) = 2^i * 2^k.
LEMMA PowerSum ==
    ASSUME NEW i \in Nat, NEW k \in Nat, i + k <= 32
    PROVE  Power(i + k) = Power(i) * Power(k)
<1> DEFINE X == {n \in Nat : i + n <= 32 => Power(i + n) = Power(i) * Power(n)}
<1>1. 0 \in X
  <2>1. Power(i) \in Nat /\ i + 0 = i
    BY PowerNat
  <2> QED BY <2>1, PowerNone
<1>2. ASSUME NEW n \in Nat, n < k, n \in X PROVE n + 1 \in X
  <2>1. Power(i + n) = Power(i) * Power(n) /\ i + n \in 0 .. 31 /\ n \in 0 .. 31
    BY <1>2
  <2>2. Power((i + n) + 1) = 2 * Power(i + n) /\ Power(n + 1) = 2 * Power(n)
    BY <2>1, PowerNext
  <2>3. Power(i) \in Nat /\ Power(n) \in Nat
    BY <2>1, PowerNat
  <2>4. 2 * (Power(i) * Power(n)) = Power(i) * (2 * Power(n))
    BY <2>3
  <2>5. (i + n) + 1 = i + (n + 1)
    OBVIOUS
  <2> QED BY <2>1, <2>2, <2>4, <2>5
<1>3. \A n \in 0 .. k : n \in X
  <2> HIDE DEF X
  <2> QED BY <1>1, <1>2, Induction
<1> QED BY <1>3

\* The value of the bits of w below n.
Two == [i \in 0 .. 31 |-> Power(i)]
Below(w, n) == Sums(Two, w)[n]

\* One bit more.
LEMMA BelowNext ==
    ASSUME NEW w, NEW n \in 0 .. 31
    PROVE  /\ n \in w => Below(w, n + 1) = Below(w, n) + Power(n)
           /\ n \notin w => Below(w, n + 1) = Below(w, n)
<1>1. Two \in Weights
  BY PowerNat DEF Two, Weights
<1>2. Below(w, n + 1) = Below(w, n) + Term(Two, w, n) /\ Below(w, n) \in Int
  BY <1>1, SumsStep DEF Below
<1>3. Term(Two, w, n) = IF n \in w THEN Power(n) ELSE 0
  BY DEF Term, Two
<1> QED BY <1>2, <1>3

LEMMA BelowNone == ASSUME NEW w PROVE Below(w, 0) = 0
<1>1. Two \in Weights
  BY PowerNat DEF Two, Weights
<1> QED BY <1>1, SumsStep DEF Below

\* n bits hold less than 2^n.
LEMMA Bounded ==
    ASSUME NEW w, NEW n \in 0 .. 32
    PROVE  Below(w, n) \in Nat /\ Below(w, n) < Power(n)
<1> DEFINE X == {k \in 0 .. 32 : Below(w, k) \in Nat /\ Below(w, k) < Power(k)}
<1>1. 0 \in X
  BY PowerNone, BelowNone
<1>2. ASSUME NEW k \in Nat, k < 32, k \in X PROVE k + 1 \in X
  <2>1. Below(w, k) \in Nat /\ Below(w, k) < Power(k) /\ Power(k) \in Nat
        /\ Power(k + 1) = 2 * Power(k) /\ k + 1 \in 0 .. 32
    BY <1>2, PowerNext, PowerNat
  <2>2. /\ k \in w => Below(w, k + 1) = Below(w, k) + Power(k)
        /\ k \notin w => Below(w, k + 1) = Below(w, k)
    BY <1>2, BelowNext
  <2> QED BY <2>1, <2>2
<1>3. \A k \in 0 .. 32 : k \in X
  <2> HIDE DEF X
  <2> QED BY <1>1, <1>2, Induction
<1> QED BY <1>3

\* The l bits from s on are those of y.
LEMMA Split ==
    ASSUME NEW x, NEW y, NEW s \in Nat, NEW l \in Nat, s + l <= 32,
           \A j \in 0 .. (l - 1) : s + j \in x <=> j \in y
    PROVE  Below(x, s + l) = Below(x, s) + Power(s) * Below(y, l)
<1> DEFINE X == {j \in Nat : j <= l =>
                   Below(x, s + j) = Below(x, s) + Power(s) * Below(y, j)}
<1>0. Power(s) \in Nat /\ Below(x, s) \in Int
  BY PowerNat, Bounded
<1>1. 0 \in X
  <2>1. s + 0 = s /\ Power(s) * 0 = 0
    BY <1>0
  <2> QED BY <1>0, <2>1, BelowNone
<1>2. ASSUME NEW j \in Nat, j < l, j \in X PROVE j + 1 \in X
  <2>1. Below(x, s + j) = Below(x, s) + Power(s) * Below(y, j)
    BY <1>2
  <2>2. /\ s + j \in x => Below(x, (s + j) + 1) = Below(x, s + j) + Power(s + j)
        /\ s + j \notin x => Below(x, (s + j) + 1) = Below(x, s + j)
    <3>1. s + j \in 0 .. 31
      BY <1>2
    <3> QED BY <3>1, BelowNext
  <2>3. /\ j \in y => Below(y, j + 1) = Below(y, j) + Power(j)
        /\ j \notin y => Below(y, j + 1) = Below(y, j)
    <3>1. j \in 0 .. 31
      BY <1>2
    <3> QED BY <3>1, BelowNext
  <2>4. s + j \in x <=> j \in y
    BY <1>2
  <2>5. Power(s + j) = Power(s) * Power(j) /\ Power(j) \in Nat /\ Below(y, j) \in Int
    <3>1. s + j <= 32 /\ j \in 0 .. 32
      BY <1>2
    <3>2. Power(s + j) = Power(s) * Power(j)
      BY <3>1, PowerSum
    <3> QED BY <3>1, <3>2, PowerNat, Bounded
  <2>6. \A p, a, b \in Int : p * (a + b) = p * a + p * b
    OBVIOUS
  <2>7. CASE j \in y
    <3>1. Below(x, (s + j) + 1) = Below(x, s) + Power(s) * Below(y, j) + Power(s) * Power(j)
      BY <1>0, <2>1, <2>2, <2>4, <2>5, <2>7
    <3>2. Power(s) * Below(y, j + 1) = Power(s) * Below(y, j) + Power(s) * Power(j)
      BY <1>0, <2>3, <2>5, <2>6, <2>7
    <3>3. Power(s) * Below(y, j) \in Int /\ Power(s) * Power(j) \in Int
      BY <1>0, <2>5
    <3>4. (s + j) + 1 = s + (j + 1)
      OBVIOUS
    <3> QED BY <1>0, <3>1, <3>2, <3>3, <3>4
  <2>8. CASE j \notin y
    <3>1. Below(x, (s + j) + 1) = Below(x, s + j)
      BY <2>2, <2>4, <2>8, <2>1, <1>0, <2>5
    <3>2. Below(y, j + 1) = Below(y, j)
      BY <2>3, <2>8, <2>5
    <3>4. (s + j) + 1 = s + (j + 1)
      OBVIOUS
    <3> QED BY <2>1, <3>1, <3>2, <3>4
  <2> QED BY <2>7, <2>8
<1>3. \A j \in 0 .. l : j \in X
  <2> HIDE DEF X
  <2> QED BY <1>1, <1>2, Induction
<1> QED BY <1>3

LEMMA Times ==
    ASSUME NEW p \in Nat, NEW a \in Int, NEW b \in Int, a <= b
    PROVE  p * a \in Int /\ p * b \in Int /\ p * a <= p * b
OBVIOUS

\* Quotient and remainder, for a divisor that is not a numeral.
LEMMA Division ==
    ASSUME NEW x \in Int, NEW p \in Nat, p > 0
    PROVE  /\ x \div p \in Int /\ x % p \in Nat /\ x % p < p
           /\ p * (x \div p) \in Int
           /\ x = p * (x \div p) + (x % p)
OBVIOUS

\* No other quotient and remainder are.
LEMMA Quotients ==
    ASSUME NEW p \in Nat, p > 0, NEW v \in Nat, v < p, NEW q \in Int,
           NEW x \in Int, x = v + p * q
    PROVE  x \div p = q /\ x % p = v
<1> DEFINE d == x \div p
           r == x % p
<1>1. d \in Int /\ r \in Nat /\ r < p /\ p * d \in Int /\ x = p * d + r
  BY Division
<1> HIDE DEF d, r
<1>2. p * q \in Int
  OBVIOUS
<1>3. CASE d < q
  <2>1. d + 1 <= q
    BY <1>1, <1>3
  <2>2. p * (d + 1) <= p * q
    BY <1>1, <2>1, Times
  <2>3. p * (d + 1) = p * d + p
    BY <1>1
  <2> QED BY <1>1, <1>2, <2>2, <2>3
<1>4. CASE q < d
  <2>1. q + 1 <= d
    BY <1>1, <1>4
  <2>2. p * (q + 1) <= p * d
    BY <1>1, <2>1, Times
  <2>3. p * (q + 1) = p * q + p
    OBVIOUS
  <2> QED BY <1>1, <1>2, <2>2, <2>3
<1>5. d = q
  BY <1>1, <1>3, <1>4
<1>6. r = v
  BY <1>1, <1>2, <1>5
<1> QED BY <1>5, <1>6 DEF d, r

LEMMA Parities ==
    ASSUME NEW c \in Nat, c < 2, NEW h \in Int
    PROVE  (c + 2 * h) % 2 = c
<1>1. 2 \in Nat /\ 2 > 0 /\ c + 2 * h \in Int
  OBVIOUS
<1> QED BY <1>1, Quotients

\* The bits of a value.
LEMMA BitOf ==
    ASSUME NEW w, NEW n \in 0 .. 32, NEW b \in 0 .. (n - 1)
    PROVE  b \in w <=> (Below(w, n) \div Power(b)) % 2 = 1
<1> DEFINE y == {j \in 0 .. 31 : (b + 1) + j \in w}
           l == n - (b + 1)
           h == Below(y, l)
           p == Power(b)
           v == Below(w, b)
           c == IF b \in w THEN 1 ELSE 0
<1>1. /\ l \in 0 .. 31 /\ b + 1 \in Nat /\ (b + 1) + l = n /\ b \in 0 .. 31
      /\ b + 1 \in 0 .. 32
  OBVIOUS
<1>2. Below(w, (b + 1) + l) = Below(w, b + 1) + Power(b + 1) * h
  <2>1. \A j \in 0 .. (l - 1) : (b + 1) + j \in w <=> j \in y
    OBVIOUS
  <2>2. (b + 1) + l <= 32 /\ l \in Nat
    OBVIOUS
  <2> HIDE DEF y, l
  <2> QED BY <1>1, <2>1, <2>2, Split
<1>3. p \in Nat /\ p > 0 /\ v \in Nat /\ v < p /\ h \in Nat /\ c \in Nat /\ c < 2
  <2> HIDE DEF y, l
  <2>1. p \in Nat /\ p > 0 /\ v \in Nat /\ v < p
    BY <1>1, PowerNat, Bounded
  <2>2. h \in Nat
    BY <1>1, Bounded
  <2> QED BY <2>1, <2>2
<1>4. Power(b + 1) = 2 * p
  BY <1>1, PowerNext
<1>5. Below(w, b + 1) = v + p * c
  <2>1. /\ b \in w => Below(w, b + 1) = v + p
        /\ b \notin w => Below(w, b + 1) = v
    BY <1>1, BelowNext
  <2>2. p * 1 = p /\ p * 0 = 0 /\ v + 0 = v
    BY <1>3
  <2> HIDE DEF p, v
  <2> QED BY <2>1, <2>2
<1>6. Below(w, n) = v + p * c + (2 * p) * h
  BY <1>1, <1>2, <1>4, <1>5
<1>7. b \in w <=> c = 1
  OBVIOUS
<1> HIDE DEF p, v, c, h, y, l
<1>8. Below(w, n) = v + p * (c + 2 * h)
  <2>1. p * (c + 2 * h) = p * c + (2 * p) * h
    BY <1>3
  <2> QED BY <1>3, <1>6, <2>1
<1>9. Below(w, n) \div p = c + 2 * h
  <2>1. c + 2 * h \in Int /\ Below(w, n) \in Int
    BY <1>3, Bounded
  <2> QED BY <1>3, <1>8, <2>1, Quotients
<1>10. (c + 2 * h) % 2 = c
  BY <1>3, Parities
<1> QED BY <1>7, <1>9, <1>10 DEF p

Summed(w, t) ==
    t = [T \in SUBSET w |->
           IF T = {} THEN 0
           ELSE Power(CHOOSE x \in T : TRUE) + t[T \ {CHOOSE x \in T : TRUE}]]

\* A number is even or odd.
LEMMA EvenOrOdd == ASSUME NEW x \in Int PROVE x % 2 \in {0, 1}
<1>1. \A k \in Nat : k > 0 => x % k \in 0 .. (k - 1)
  OBVIOUS
<1> QED BY <1>1

\* The bits of w without the order in which CHOOSE adds them up.
LEMMA SumOf ==
    ASSUME NEW w \in SUBSET (0 .. 31)
    PROVE  MapThenSumSet(LAMBDA i : 2 ^ i, w) = Below(w, 32)
<1> DEFINE t == CHOOSE t : Summed(w, t)
<1>1. MapThenSumSet(LAMBDA i : 2 ^ i, w) = t[w]
  BY DEF MapThenSumSet, MapThenFoldSet, Summed, Power
<1>2. ASSUME NEW u PROVE Summed(w, u) <=> Folded(Two, w, u)
  <2>1. ASSUME NEW T \in SUBSET w, T # {}
        PROVE  Power(CHOOSE x \in T : TRUE) = Two[CHOOSE x \in T : TRUE]
    <3>1. (CHOOSE x \in T : TRUE) \in 0 .. 31
      BY <2>1
    <3> QED BY <3>1 DEF Two
  <2> QED BY <2>1, ZenonT(30) DEF Summed, Folded
<1>3. Two \in Weights
  BY PowerNat DEF Two, Weights
<1>4. Summed(w, t)
  BY <1>2, <1>3, FoldedExists
<1>5. t[w] = Total(Two, w)
  BY <1>2, <1>3, <1>4, FoldedIsTotal
<1> QED BY <1>1, <1>5 DEF Total, Below

LEMMA NoBits == ASSUME NEW n \in 0 .. 32 PROVE Below({}, n) = 0
<1> DEFINE X == {k \in 0 .. 32 : Below({}, k) = 0}
<1>1. 0 \in X
  BY BelowNone
<1>2. ASSUME NEW k \in Nat, k < 32, k \in X PROVE k + 1 \in X
  BY <1>2, BelowNext
<1>3. \A k \in 0 .. 32 : k \in X
  <2> HIDE DEF X
  <2> QED BY <1>1, <1>2, Induction
<1> QED BY <1>3

\* n bits that are all set.
LEMMA AllBits ==
    ASSUME NEW n \in 0 .. 32, NEW w, 0 .. (n - 1) \subseteq w
    PROVE  Below(w, n) = Power(n) - 1
<1> DEFINE X == {k \in Nat : k <= n => Below(w, k) = Power(k) - 1}
<1>1. 0 \in X
  BY BelowNone, PowerNone
<1>2. ASSUME NEW k \in Nat, k < n, k \in X PROVE k + 1 \in X
  <2>1. k \in w /\ k \in 0 .. 31 /\ k \in 0 .. 32
    BY <1>2
  <2>2. Below(w, k + 1) = Below(w, k) + Power(k) /\ Power(k + 1) = 2 * Power(k)
    BY <2>1, BelowNext, PowerNext
  <2>3. Power(k) \in Nat
    BY <2>1, PowerNat
  <2> QED BY <1>2, <2>2, <2>3
<1>3. \A k \in 0 .. n : k \in X
  <2> HIDE DEF X
  <2> QED BY <1>1, <1>2, Induction
<1> QED BY <1>3

\* Bits from s on that are not there.
LEMMA Short ==
    ASSUME NEW w, NEW s \in Nat, NEW n \in 0 .. 32, s <= n,
           \A b \in s .. (n - 1) : b \notin w
    PROVE  Below(w, n) = Below(w, s)
<1> DEFINE l == n - s
<1>1. l \in Nat /\ s + l = n /\ \A j \in 0 .. (l - 1) : s + j \in w <=> j \in {}
  OBVIOUS
<1>2. Below(w, s + l) = Below(w, s) + Power(s) * Below({}, l)
  <2> HIDE DEF l
  <2> QED BY <1>1, Split
<1>3. Below({}, l) = 0 /\ Power(s) \in Nat /\ Below(w, s) \in Nat
  <2>1. l \in 0 .. 32 /\ s \in 0 .. 32
    OBVIOUS
  <2> QED BY <2>1, NoBits, PowerNat, Bounded
<1> QED BY <1>1, <1>2, <1>3

\* Only the bits matter.
LEMMA SameBits ==
    ASSUME NEW x, NEW y, NEW n \in 0 .. 32, \A b \in 0 .. (n - 1) : b \in x <=> b \in y
    PROVE  Below(x, n) = Below(y, n)
<1>1. 0 \in Nat /\ n \in Nat /\ 0 + n = n /\ \A j \in 0 .. (n - 1) : 0 + j \in x <=> j \in y
  OBVIOUS
<1>2. Below(x, 0 + n) = Below(x, 0) + Power(0) * Below(y, n)
  BY <1>1, Split
<1>3. Below(y, n) \in Nat
  BY Bounded
<1> QED BY <1>1, <1>2, <1>3, BelowNone, PowerNone

-----------------------------------------------------------------------------
(* Words and numbers.                                                      *)

\* The bits of the word of a number.
LEMMA WordBit ==
    ASSUME NEW n
    PROVE  /\ WordOf(n) \in Words
           /\ \A b \in Bits : b \in WordOf(n) <=> (n \div Power(b)) % 2 = 1
BY Zenon DEF WordOf, Words, Power

LEMMA BitsAre == Bits = 0 .. (W - 1) /\ Words = SUBSET (0 .. (W - 1))
BY DEF Bits, Words

\* The number of a word is the sum of its bits.
LEMMA NumIs == ASSUME NEW w \in Words
               PROVE Num(w) = Below(w, W) /\ Num(w) \in Nat /\ Num(w) < Power(W)
<1>1. w \in SUBSET (0 .. 31) /\ W \in 0 .. 32
  BY Width, BitsAre
<1>2. Num(w) = MapThenSumSet(LAMBDA i : 2 ^ i, w)
  BY DEF Num, NumOf
<1>3. Num(w) = Below(w, 32)
  BY <1>1, <1>2, SumOf
<1>4. Below(w, 32) = Below(w, W)
  BY <1>1, BitsAre, Short
<1> QED BY <1>1, <1>3, <1>4, Bounded

LEMMA EqualWords ==
    ASSUME NEW v \in Words, NEW w \in Words, \A b \in Bits : b \in v <=> b \in w
    PROVE  v = w
BY DEF Words

\* A word is the word of its number.
LEMMA WordOfNum == ASSUME NEW w \in Words PROVE WordOf(Num(w)) = w
<1>1. \A b \in Bits : b \in WordOf(Num(w)) <=> b \in w
  <2> TAKE b \in Bits
  <2>1. b \in 0 .. (W - 1) /\ W \in 0 .. 32
    BY Width, BitsAre
  <2>2. b \in w <=> (Below(w, W) \div Power(b)) % 2 = 1
    BY <2>1, BitOf
  <2> QED BY <2>2, NumIs, WordBit
<1> QED BY <1>1, WordBit, EqualWords

\* One more bit of a remainder.
LEMMA NextRemainder ==
    ASSUME NEW n \in Int, NEW p \in Nat, p > 0
    PROVE  n % (2 * p) = (n % p) + p * ((n \div p) % 2)
<1> DEFINE d == n \div p
           r == n % p
           c == d % 2
           h == d \div 2
<1>1. d \in Int /\ r \in Nat /\ r < p /\ p * d \in Int /\ n = p * d + r
  BY Division
<1> HIDE DEF d, r
<1>2. h \in Int /\ c \in Nat /\ c < 2 /\ d = 2 * h + c
  BY <1>1, Division
<1> HIDE DEF c, h
<1>3. n = (r + p * c) + (2 * p) * h
  <2>1. p * (2 * h + c) = (2 * p) * h + p * c
    BY <1>2
  <2> QED BY <1>1, <1>2, <2>1
<1>4. r + p * c \in Nat /\ r + p * c < 2 * p /\ 2 * p \in Nat /\ 2 * p > 0
  <2>1. c = 0 \/ c = 1
    BY <1>2
  <2> QED BY <1>1, <2>1
<1>5. n % (2 * p) = r + p * c
  <2> DEFINE v == r + p * c
             q == 2 * p
  <2>1. v \in Nat /\ q \in Nat /\ q > 0 /\ v < q /\ n = v + q * h
    BY <1>3, <1>4
  <2> HIDE DEF v, q
  <2>2. n % q = v
    BY <1>2, <2>1, Quotients
  <2> QED BY <2>2 DEF v, q
<1> QED BY <1>5 DEF c, d, r

\* A set with the l low bits of a number.
LEMMA Cut ==
    ASSUME NEW n \in Int, NEW w, NEW l \in 0 .. 32,
           \A b \in 0 .. (l - 1) : b \in w <=> (n \div Power(b)) % 2 = 1
    PROVE  Below(w, l) = n % Power(l)
<1> DEFINE X == {k \in Nat : k <= l => Below(w, k) = n % Power(k)}
<1>2. 0 \in X
  <2>1. n % 1 = 0
    OBVIOUS
  <2> QED BY <2>1, BelowNone, PowerNone
<1>3. ASSUME NEW k \in Nat, k < l, k \in X PROVE k + 1 \in X
  <2>1. k \in 0 .. (l - 1) /\ k \in 0 .. 31 /\ k \in 0 .. 32
    BY <1>3
  <2> DEFINE p == Power(k)
             c == (n \div p) % 2
  <2>2. p \in Nat /\ p > 0 /\ Power(k + 1) = 2 * p
    BY <2>1, PowerNat, PowerNext
  <2>3. Below(w, k) = n % p
    <3>1. k <= l
      BY <1>3
    <3> QED BY <1>3, <3>1
  <2>4. /\ k \in w => Below(w, k + 1) = Below(w, k) + p
        /\ k \notin w => Below(w, k + 1) = Below(w, k)
    BY <2>1, BelowNext
  <2>5. k \in w <=> c = 1
    BY <2>1
  <2>6. c \in {0, 1}
    <3>1. n \div p \in Int
      BY <2>2, Division
    <3> QED BY <3>1, EvenOrOdd
  <2>7. n % (2 * p) = (n % p) + p * c
    BY <2>2, NextRemainder
  <2>8. n % p \in Nat
    BY <2>2, Division
  <2>9. Below(w, k + 1) = n % Power(k + 1)
    <3> HIDE DEF p, c
    <3> DEFINE r == n % p
    <3>1. r \in Nat /\ n % (2 * p) = r + p * c /\ Below(w, k) = r
      BY <2>3, <2>7, <2>8
    <3> HIDE DEF r
    <3>2. CASE c = 1
      <4>1. p * c = p
        BY <3>2, <2>2
      <4> QED BY <2>2, <2>4, <2>5, <3>1, <3>2, <4>1
    <3>3. CASE c = 0
      <4>1. p * c = 0
        BY <3>3, <2>2
      <4>2. r + 0 = r
        BY <3>1
      <4> QED BY <2>2, <2>4, <2>5, <3>1, <3>3, <4>1, <4>2
    <3> QED BY <2>6, <3>2, <3>3
  <2> QED BY <2>9
<1>4. \A k \in 0 .. l : k \in X
  <2>1. l \in Nat
    OBVIOUS
  <2> HIDE DEF X
  <2> QED BY <1>2, <1>3, <2>1, Induction
<1> QED BY <1>4

\* The number of a word cut from a number.
LEMMA NumOfWord ==
    ASSUME NEW n \in Int PROVE Num(WordOf(n)) = n % Power(W)
<1> DEFINE w == WordOf(n)
<1>1. w \in Words /\ \A b \in 0 .. (W - 1) : b \in w <=> (n \div Power(b)) % 2 = 1
  BY WordBit, BitsAre
<1> HIDE DEF w
<1>2. Below(w, W) = n % Power(W)
  <2>1. W \in 0 .. 32
    BY Width
  <2> QED BY <1>1, <2>1, Cut
<1> QED BY <1>1, <1>2, NumIs DEF w

\* Numbers that differ by multiples of 2 ^ W have the same word.
LEMMA SameWord ==
    ASSUME NEW n \in Int, NEW m \in Int, NEW k \in Int, n = m + Power(W) * k
    PROVE  WordOf(n) = WordOf(m)
<1> DEFINE p == Power(W)
           r == m % p
           q == m \div p
<1>1. p \in Nat /\ p > 0
  BY Width, PowerNat
<1> HIDE DEF p
<1>2. q \in Int /\ r \in Nat /\ r < p /\ p * q \in Int /\ m = p * q + r
  BY <1>1, Division
<1> HIDE DEF q, r
<1>3. n = r + p * (q + k)
  <2> DEFINE a == p * q
             b == p * k
             c == p * (q + k)
  <2>1. c = a + b /\ a \in Int /\ b \in Int
    BY <1>1, <1>2
  <2>2. n = m + b
    BY DEF p
  <2>3. m = a + r /\ r \in Nat
    BY <1>2
  <2> HIDE DEF a, b, c
  <2>4. n = r + c
    BY <2>1, <2>2, <2>3
  <2> QED BY <2>4 DEF c
<1>4. n % p = r
  <2> DEFINE e == q + k
  <2>1. e \in Int /\ n = r + p * e
    BY <1>2, <1>3
  <2> HIDE DEF e
  <2>2. p \in Nat /\ p > 0 /\ r \in Nat /\ r < p
    BY <1>1, <1>2
  <2> QED BY <2>1, <2>2, Quotients, ZenonT(30)
<1>5. Num(WordOf(n)) = Num(WordOf(m))
  BY <1>4, NumOfWord DEF p, r
<1>6. WordOf(n) \in Words /\ WordOf(m) \in Words
  BY WordBit
<1> QED BY <1>5, <1>6, WordOfNum

\* A constant of the code is the number of its bits.
LEMMA CodeNumber ==
    ASSUME NEW n \in 0 .. 1023 PROVE Below(BitsOf(n), 31) = n
<1>1. \A b \in 0 .. (31 - 1) : b \in BitsOf(n) <=> (n \div Power(b)) % 2 = 1
  BY BitIs
<1>2. 31 \in 0 .. 32 /\ n \in Int
  OBVIOUS
<1>3. Below(BitsOf(n), 31) = n % Power(31)
  BY <1>1, <1>2, Cut
<1>4. Power(31) = 2147483648
  BY DEF Power
<1>5. n % 2147483648 = n
  OBVIOUS
<1> QED BY <1>3, <1>4, <1>5

\* A register number is read back from the field it was put in.
LEMMA RegisterIs ==
    ASSUME NEW n \in 0 .. 31, NEW w, w = BitsOf(n)
    PROVE  MapThenSumSet(LAMBDA i : 2 ^ i, w) = n
<1>1. w \in SUBSET (0 .. 31) /\ 31 \notin w
  BY DEF BitsOf
<1>2. MapThenSumSet(LAMBDA i : 2 ^ i, w) = Below(w, 32)
  BY <1>1, SumOf
<1>3. Below(w, 32) = Below(w, 31)
  BY <1>1, Short
<1>4. n \in 0 .. 1023
  OBVIOUS
<1> QED BY <1>2, <1>3, <1>4, CodeNumber, ZenonT(30)

-----------------------------------------------------------------------------
(* The instruction word is taken apart.                                    *)

LEMMA DownUp ==
    ASSUME NEW w \in SUBSET Nat, NEW k \in Nat PROVE Down(Up(w, k), k) = w
<1>1. Up(w, k) \in SUBSET Int /\ w \in SUBSET Int
  BY ShiftsAreSets
<1>2. ASSUME NEW b \in Int PROVE b \in Down(Up(w, k), k) <=> b \in w
  <2>1. b \in Down(Up(w, k), k) <=> b + k \in Up(w, k) /\ b >= 0
    BY <1>1, DownBit
  <2>2. b + k \in Up(w, k) <=> (b + k) - k \in w
    BY <1>1, UpBit
  <2> QED BY <2>1, <2>2
<1>3. Down(Up(w, k), k) \in SUBSET Int
  BY <1>1, ShiftsAreSets
<1> QED BY <1>1, <1>2, <1>3

LEMMA UpRange ==
    ASSUME NEW k \in Nat, NEW l \in Nat, NEW w \in SUBSET (0 .. l)
    PROVE  Up(w, k) \in SUBSET (k .. (k + l))
BY DEF Up

\* The parts of an instruction word stay apart.
Joined(ins, o, d, f, r, h) ==
    /\ o \in SUBSET (0 .. 6) /\ d \in SUBSET (7 .. 11)
    /\ f \in SUBSET (12 .. 14)
    /\ r \in SUBSET (15 .. 19) /\ h \in SUBSET (20 .. 31)
    /\ ins = o \cup d \cup f \cup r \cup h

Separate(ins, o, d, f, r, h) ==
    /\ ins \cap 0 .. 6 = o
    /\ ins \cap 7 .. 11 = d
    /\ ins \cap 12 .. 14 = f
    /\ ins \cap 15 .. 19 = r
    /\ ins \cap 20 .. 24 = h \cap 20 .. 24
    /\ ins \cap 25 .. 31 = h \cap 25 .. 31

LEMMA Pieces ==
    ASSUME NEW o, NEW d, NEW f, NEW r, NEW h, NEW ins,
           Joined(ins, o, d, f, r, h)
    PROVE  Separate(ins, o, d, f, r, h)
<1>0. /\ o \in SUBSET (0 .. 6) /\ d \in SUBSET (7 .. 11)
      /\ f \in SUBSET (12 .. 14)
      /\ r \in SUBSET (15 .. 19) /\ h \in SUBSET (20 .. 31)
      /\ ins = o \cup d \cup f \cup r \cup h
  BY DEF Joined
<1>1. ASSUME NEW b \in Int
      PROVE  /\ b \in o => b \in 0 .. 6
             /\ b \in d => b \in 7 .. 11
             /\ b \in f => b \in 12 .. 14
             /\ b \in r => b \in 15 .. 19
             /\ b \in h => b \in 20 .. 31
  BY <1>0
<1>2. ASSUME NEW b \in ins PROVE b \in Int
  BY <1>0
<1>3. /\ o \subseteq Int /\ d \subseteq Int /\ f \subseteq Int
      /\ r \subseteq Int /\ h \subseteq Int
  BY <1>0
<1>4. ASSUME NEW b \in Int
      PROVE  /\ b \in ins \cap 0 .. 6 <=> b \in o
             /\ b \in ins \cap 7 .. 11 <=> b \in d
             /\ b \in ins \cap 12 .. 14 <=> b \in f
             /\ b \in ins \cap 15 .. 19 <=> b \in r
             /\ b \in ins \cap 20 .. 24 <=> b \in h \cap 20 .. 24
             /\ b \in ins \cap 25 .. 31 <=> b \in h \cap 25 .. 31
  BY <1>0, <1>1
<1>6. ins \cap 0 .. 6 = o
  BY <1>2, <1>3, <1>4
<1>7. ins \cap 7 .. 11 = d
  BY <1>2, <1>3, <1>4
<1>8. ins \cap 12 .. 14 = f
  BY <1>2, <1>3, <1>4
<1>9. ins \cap 15 .. 19 = r
  BY <1>2, <1>3, <1>4
<1>10. /\ ins \cap 20 .. 24 = h \cap 20 .. 24
       /\ ins \cap 25 .. 31 = h \cap 25 .. 31
  BY <1>2, <1>3, <1>4
<1> QED BY <1>6, <1>7, <1>8, <1>9, <1>10 DEF Separate

-----------------------------------------------------------------------------
(* The immediates fit their formats.                                       *)

LEMMA Imm32Bit ==
    ASSUME NEW n \in Int
    PROVE  /\ Imm32(n) \in Word32
           /\ \A b \in 0 .. 30 : b \in Imm32(n) <=> (n \div Power(b)) % 2 = 1
           /\ 31 \in Imm32(n) <=> n < 0
<1>1. BitsOf(n) \in SUBSET (0 .. 30)
  BY DEF BitsOf
<1>2. \A b \in 0 .. 30 : b \in BitsOf(n) <=> (n \div Power(b)) % 2 = 1
  BY BitIs
<1> QED BY <1>1, <1>2 DEF Imm32, Word32

\* The bits from q on are all the sign of a number that fits below them.
LEMMA Extends ==
    ASSUME NEW n \in Int, NEW q \in 0 .. 30,
           NEW p \in Nat, p > 0, -p <= n, n < p,
           \A b \in q .. 30 : Power(b) \in Nat /\ Power(b) >= p
    PROVE  SignExtend(Imm32(n), q) = Imm32(n)
<1> DEFINE w == Imm32(n)
<1>1. /\ w \in Word32
      /\ \A b \in 0 .. 30 : b \in w <=> (n \div Power(b)) % 2 = 1
      /\ 31 \in w <=> n < 0
  BY Imm32Bit
<1> HIDE DEF w
<1>2. ASSUME NEW b \in q .. 30 PROVE b \in w <=> n < 0
  <2> DEFINE k == Power(b)
  <2>0. k \in Nat /\ k >= p
    OBVIOUS
  <2> HIDE DEF k
  <2>1. k \in Nat /\ k > 0 /\ -k <= n /\ n < k
    BY <2>0
  <2>2. (n \div k) % 2 = IF n < 0 THEN 1 ELSE 0
    BY <2>1, SignBit
  <2>3. b \in w <=> (n \div k) % 2 = 1
    <3>1. b \in 0 .. 30
      OBVIOUS
    <3>2. b \in w <=> (n \div Power(b)) % 2 = 1
      BY <1>1, <3>1
    <3> QED BY <3>2 DEF k
  <2> QED BY <2>2, <2>3
<1>3. \A b \in q .. 31 : b \in w <=> n < 0
  BY <1>1, <1>2
<1>4. w \subseteq 0 .. 31
  BY <1>1 DEF Word32
<1>5. q \in w <=> n < 0
  BY <1>3
<1>6. ASSUME NEW b \in Int PROVE b \in SignExtend(w, q) <=> b \in w
  BY <1>3, <1>4, <1>5 DEF SignExtend
<1>7. SignExtend(w, q) \in SUBSET Int
  BY <1>4 DEF SignExtend
<1> QED BY <1>4, <1>6, <1>7 DEF w

LEMMA Fits ==
    ASSUME NEW n \in Int
    PROVE  /\ n \in -(2 ^ 11) .. (2 ^ 11 - 1) =>
                  SignExtend(Imm32(n), 11) = Imm32(n)
           /\ n \in -(2 ^ 12) .. (2 ^ 12 - 1) =>
                  SignExtend(Imm32(n), 12) = Imm32(n)
           /\ n \in -(2 ^ 20) .. (2 ^ 20 - 1) =>
                  SignExtend(Imm32(n), 20) = Imm32(n)
<1>1. \A b \in 11 .. 30 : Power(b) \in Nat /\ Power(b) >= 2048
  BY Powers
<1>2. \A b \in 12 .. 30 : Power(b) \in Nat /\ Power(b) >= 4096
  BY Powers
<1>3. \A b \in 20 .. 30 : Power(b) \in Nat /\ Power(b) >= 1048576
  BY Powers
<1>4. ASSUME n \in -(2 ^ 11) .. (2 ^ 11 - 1)
      PROVE  SignExtend(Imm32(n), 11) = Imm32(n)
  <2>1. -2048 <= n /\ n < 2048
    BY <1>4
  <2> QED BY <1>1, <2>1, Extends
<1>5. ASSUME n \in -(2 ^ 12) .. (2 ^ 12 - 1)
      PROVE  SignExtend(Imm32(n), 12) = Imm32(n)
  <2>1. -4096 <= n /\ n < 4096
    BY <1>5
  <2> QED BY <1>2, <2>1, Extends
<1>6. ASSUME n \in -(2 ^ 20) .. (2 ^ 20 - 1)
      PROVE  SignExtend(Imm32(n), 20) = Imm32(n)
  <2>1. -1048576 <= n /\ n < 1048576
    BY <1>6
  <2> QED BY <1>3, <2>1, Extends
<1> QED BY <1>4, <1>5, <1>6

\* Even offsets and upper immediates lose nothing to the format.
LEMMA LowBits ==
    ASSUME NEW n \in Int
    PROVE  /\ n % 2 = 0 => 0 \notin Imm32(n)
           /\ n % 2 ^ 12 = 0 => Imm32(n) \cap 12 .. 31 = Imm32(n)
<1>1. n % 2 = 0 => 0 \notin Imm32(n)
  <2>1. Power(0) = 1
    BY DEF Power
  <2>2. 0 \in Imm32(n) <=> (n \div 1) % 2 = 1
    BY <2>1, Imm32Bit
  <2> QED BY <2>2
<1>2. ASSUME n % 4096 = 0, NEW b \in 0 .. 11 PROVE b \notin Imm32(n)
  <2>1. b \in Imm32(n) <=> (n \div Power(b)) % 2 = 1
    BY Imm32Bit
  <2>2. /\ (n \div 1) % 2 = 0 /\ (n \div 2) % 2 = 0 /\ (n \div 4) % 2 = 0
        /\ (n \div 8) % 2 = 0 /\ (n \div 16) % 2 = 0 /\ (n \div 32) % 2 = 0
        /\ (n \div 64) % 2 = 0 /\ (n \div 128) % 2 = 0 /\ (n \div 256) % 2 = 0
        /\ (n \div 512) % 2 = 0 /\ (n \div 1024) % 2 = 0
        /\ (n \div 2048) % 2 = 0
    BY <1>2
  <2>3. /\ Power(0) = 1 /\ Power(1) = 2 /\ Power(2) = 4 /\ Power(3) = 8
        /\ Power(4) = 16 /\ Power(5) = 32 /\ Power(6) = 64 /\ Power(7) = 128
        /\ Power(8) = 256 /\ Power(9) = 512 /\ Power(10) = 1024
        /\ Power(11) = 2048
    BY DEF Power
  <2>4. (n \div Power(b)) % 2 = 0
    BY <2>2, <2>3
  <2> QED BY <2>1, <2>4
<1>3. ASSUME n % 2 ^ 12 = 0 PROVE Imm32(n) \cap 12 .. 31 = Imm32(n)
  <2>1. n % 4096 = 0
    BY <1>3
  <2>2. Imm32(n) \in SUBSET (0 .. 31)
    BY Imm32Bit DEF Word32
  <2> HIDE DEF Imm32
  <2> QED BY <1>2, <2>1, <2>2
<1> QED BY <1>1, <1>3

-----------------------------------------------------------------------------
(* One format after the other.                                             *)

\* The parts of the instruction word of i that are not its immediate.
OpcodeOf(i) == BitsOf(Table[i.name][1])
Func3Of(i) == Up(BitsOf(Table[i.name][2]), 12)
Func7Of(i) == Up(BitsOf(Table[i.name][3]), 25)
RdOf(i) == Up(BitsOf(i.rd), 7)
Rs1Of(i) == Up(BitsOf(i.rs1), 15)
Rs2Of(i) == Up(BitsOf(i.rs2), 20)

LEMMA Parts ==
    ASSUME NEW i, Legal(i)
    PROVE  /\ OpcodeOf(i) \in SUBSET (0 .. 6)
           /\ Func3Of(i) \in SUBSET (12 .. 14)
           /\ Func7Of(i) \in SUBSET (25 .. 31)
           /\ RdOf(i) \in SUBSET (7 .. 11)
           /\ Rs1Of(i) \in SUBSET (15 .. 19)
           /\ Rs2Of(i) \in SUBSET (20 .. 24)
<1>1. /\ Table[i.name][1] \in 0 .. 127 /\ Table[i.name][2] \in 0 .. 7
      /\ Table[i.name][3] \in 0 .. 127
      /\ i.rd \in 0 .. 31 /\ i.rs1 \in 0 .. 31 /\ i.rs2 \in 0 .. 31
  BY Entries DEF Legal
<1>2. /\ BitsOf(Table[i.name][1]) \in SUBSET (0 .. 6)
      /\ BitsOf(Table[i.name][2]) \in SUBSET (0 .. 2)
      /\ BitsOf(Table[i.name][3]) \in SUBSET (0 .. 6)
      /\ BitsOf(i.rd) \in SUBSET (0 .. 4)
      /\ BitsOf(i.rs1) \in SUBSET (0 .. 4)
      /\ BitsOf(i.rs2) \in SUBSET (0 .. 4)
  BY <1>1, SmallBits
<1>3. OpcodeOf(i) \in SUBSET (0 .. 6)
  BY <1>2 DEF OpcodeOf
<1>4. Func3Of(i) \in SUBSET (12 .. 12 + 2)
  BY <1>2, UpRange DEF Func3Of
<1>5. Func7Of(i) \in SUBSET (25 .. 25 + 6)
  BY <1>2, UpRange DEF Func7Of
<1>6. RdOf(i) \in SUBSET (7 .. 7 + 4)
  BY <1>2, UpRange DEF RdOf
<1>7. Rs1Of(i) \in SUBSET (15 .. 15 + 4)
  BY <1>2, UpRange DEF Rs1Of
<1>8. Rs2Of(i) \in SUBSET (20 .. 20 + 4)
  BY <1>2, UpRange DEF Rs2Of
<1> QED BY <1>3, <1>4, <1>5, <1>6, <1>7, <1>8

LEMMA Fields ==
    ASSUME NEW i, Legal(i)
    PROVE  /\ Down(RdOf(i), 7) = BitsOf(i.rd)
           /\ Down(Rs1Of(i), 15) = BitsOf(i.rs1)
           /\ Down(Rs2Of(i), 20) = BitsOf(i.rs2)
           /\ Down(Func3Of(i), 12) = BitsOf(Table[i.name][2])
<1>1. \A n : BitsOf(n) \in SUBSET Nat
  BY DEF BitsOf
<1> QED BY <1>1, DownUp DEF RdOf, Rs1Of, Rs2Of, Func3Of

LEMMA Formats ==
    ASSUME NEW i, Legal(i)
    PROVE  LET opcode == Table[i.name][1]
               imm == Imm32(i.imm)
           IN  /\ opcode = 51 =>
                      Encode(i) = OpcodeOf(i) \cup Func3Of(i) \cup Func7Of(i)
                          \cup RdOf(i) \cup Rs1Of(i) \cup Rs2Of(i)
               /\ i.name \in Shifts =>
                      Encode(i) = OpcodeOf(i) \cup Func3Of(i) \cup Func7Of(i)
                          \cup RdOf(i) \cup Rs1Of(i) \cup EncodeI(imm)
               /\ opcode \in {3, 19, 103} /\ i.name \notin Shifts =>
                      Encode(i) = OpcodeOf(i) \cup Func3Of(i)
                          \cup RdOf(i) \cup Rs1Of(i) \cup EncodeI(imm)
               /\ opcode = 35 =>
                      Encode(i) = OpcodeOf(i) \cup Func3Of(i)
                          \cup Rs1Of(i) \cup Rs2Of(i) \cup EncodeS(imm)
               /\ opcode = 99 =>
                      Encode(i) = OpcodeOf(i) \cup Func3Of(i)
                          \cup Rs1Of(i) \cup Rs2Of(i) \cup EncodeB(imm)
<1>1. i.name \in Shifts => Table[i.name][1] = 19
  BY Entries DEF Legal
<1> QED BY <1>1, SMTT(60) DEF Encode, OpcodeOf, Func3Of, Func7Of, RdOf, Rs1Of,
                              Rs2Of

LEMMA DownUpLess ==
    ASSUME NEW w \in SUBSET Nat, NEW k \in Nat, NEW l \in Nat, l <= k
    PROVE  Down(Up(w, k), l) = Up(w, k - l)
<1>1. Up(w, k) \in SUBSET Int /\ w \in SUBSET Int
  BY ShiftsAreSets
<1>2. ASSUME NEW b \in Int PROVE b \in Down(Up(w, k), l) <=> b \in Up(w, k - l)
  <2>1. b \in Down(Up(w, k), l) <=> b + l \in Up(w, k) /\ b >= 0
    BY <1>1, DownBit
  <2>2. b + l \in Up(w, k) <=> (b + l) - k \in w
    BY <1>1, UpBit
  <2>3. b \in Up(w, k - l) <=> b - (k - l) \in w
    BY <1>1, UpBit
  <2>4. (b + l) - k = b - (k - l)
    OBVIOUS
  <2>5. b - (k - l) \in w => b >= 0
    OBVIOUS
  <2> QED BY <2>1, <2>2, <2>3, <2>4, <2>5
<1>3. Down(Up(w, k), l) \in SUBSET Int /\ Up(w, k - l) \in SUBSET Int
  BY <1>1, ShiftsAreSets
<1> QED BY <1>2, <1>3

\* What the decoder finds beside an immediate.
LEMMA Decoded ==
    ASSUME NEW i, Legal(i), NEW d, NEW h, NEW ins,
           Joined(ins, OpcodeOf(i), d, Func3Of(i), Rs1Of(i), h)
    PROVE  /\ OPCODE_TYPE(ins) = OpcodeOf(i)
           /\ FUNC(ins) = BitsOf(Table[i.name][2])
           /\ RS1(ins) = i.rs1
           /\ d = RdOf(i) => RD(ins) = i.rd
           /\ \A n \in 0 .. 31 :
                  h \cap 20 .. 24 = Up(BitsOf(n), 20) => RS2(ins) = n
           /\ h \cap 25 .. 31 = Func7Of(i) =>
                  R_FUNC(ins) = BitsOf(Table[i.name][2])
                                    \cup Up(BitsOf(Table[i.name][3]), 4)
<1>1. /\ ins \cap 0 .. 6 = OpcodeOf(i)
      /\ ins \cap 7 .. 11 = d
      /\ ins \cap 12 .. 14 = Func3Of(i)
      /\ ins \cap 15 .. 19 = Rs1Of(i)
      /\ ins \cap 20 .. 24 = h \cap 20 .. 24
      /\ ins \cap 25 .. 31 = h \cap 25 .. 31
  BY Pieces DEF Separate
<1>2. OPCODE_TYPE(ins) = OpcodeOf(i)
  BY <1>1 DEF OPCODE_TYPE
<1>3. FUNC(ins) = BitsOf(Table[i.name][2])
  BY <1>1, Fields DEF FUNC, Field
<1>4. i.rd \in 0 .. 31 /\ i.rs1 \in 0 .. 31 /\ i.rs2 \in 0 .. 31
  BY DEF Legal
<1>5. RS1(ins) = i.rs1
  <2>1. Field(ins, 15, 19) = BitsOf(i.rs1)
    BY <1>1, Fields DEF Field
  <2> QED BY <1>4, <2>1, RegisterIs DEF RS1
<1>6. ASSUME d = RdOf(i) PROVE RD(ins) = i.rd
  <2>1. Field(ins, 7, 11) = BitsOf(i.rd)
    BY <1>1, <1>6, Fields DEF Field
  <2> QED BY <1>4, <2>1, RegisterIs DEF RD
<1>7. ASSUME NEW n \in 0 .. 31, h \cap 20 .. 24 = Up(BitsOf(n), 20)
      PROVE  RS2(ins) = n
  <2>1. Down(Up(BitsOf(n), 20), 20) = BitsOf(n)
    <3>1. BitsOf(n) \in SUBSET Nat
      BY DEF BitsOf
    <3> QED BY <3>1, DownUp
  <2>2. Field(ins, 20, 24) = BitsOf(n)
    BY <1>1, <1>7, <2>1 DEF Field
  <2> QED BY <2>2, RegisterIs DEF RS2
<1>8. ASSUME h \cap 25 .. 31 = Func7Of(i)
      PROVE  R_FUNC(ins) = BitsOf(Table[i.name][2])
                               \cup Up(BitsOf(Table[i.name][3]), 4)
  <2>1. BitsOf(Table[i.name][3]) \in SUBSET Nat
    BY DEF BitsOf
  <2>2. Down(Func7Of(i), 21) = Up(BitsOf(Table[i.name][3]), 25 - 21)
    BY <2>1, DownUpLess DEF Func7Of
  <2>3. Down(Func3Of(i), 12) = BitsOf(Table[i.name][2])
    BY Fields
  <2>4. 25 - 21 = 4
    OBVIOUS
  <2> QED BY <1>1, <1>8, <2>2, <2>3, <2>4 DEF R_FUNC
<1> QED BY <1>2, <1>3, <1>5, <1>6, <1>7, <1>8

\* Without the registers and the function code.
LEMMA DecodedUpper ==
    ASSUME NEW i, Legal(i), NEW h \in SUBSET (12 .. 31),
           NEW ins, ins = OpcodeOf(i) \cup RdOf(i) \cup h
    PROVE  OPCODE_TYPE(ins) = OpcodeOf(i) /\ RD(ins) = i.rd
<1>1. OpcodeOf(i) \in SUBSET (0 .. 6) /\ RdOf(i) \in SUBSET (7 .. 11)
  BY Parts
<1>2. ins \cap 0 .. 6 = OpcodeOf(i)
  BY <1>1
<1>3. ins \cap 7 .. 11 = RdOf(i)
  BY <1>1
<1>4. Field(ins, 7, 11) = BitsOf(i.rd) /\ i.rd \in 0 .. 31
  BY <1>3, Fields DEF Field, Legal
<1> QED BY <1>2, <1>4, RegisterIs DEF OPCODE_TYPE, RD

\* Where the immediates are in the word.
LEMMA Places ==
    ASSUME NEW imm \in Word32
    PROVE  /\ EncodeI(imm) \in SUBSET (20 .. 31)
           /\ EncodeS(imm) \cap 7 .. 11 \in SUBSET (7 .. 11)
           /\ EncodeS(imm) = (EncodeS(imm) \cap 7 .. 11)
                                 \cup (EncodeS(imm) \cap 25 .. 31)
           /\ EncodeB(imm) = (EncodeB(imm) \cap 7 .. 11)
                                 \cup (EncodeB(imm) \cap 25 .. 31)
           /\ EncodeU(imm) \in SUBSET (12 .. 31)
           /\ EncodeJ(imm) \in SUBSET (12 .. 31)
<1>0. \A v : imm \cap v \in SUBSET Int
  BY Word32IsSet
<1>1. EncodeI(imm) \in SUBSET (20 .. 31)
  BY DEF EncodeI, Up
<1>2. \A b \in EncodeS(imm) : b \in 7 .. 11 \cup 25 .. 31
  BY DEF EncodeS, Up
<1>3. \A b \in EncodeB(imm) : b \in 7 .. 11 \cup 25 .. 31
  BY DEF EncodeB, Up, Down
<1>4. EncodeU(imm) \in SUBSET (12 .. 31)
  BY DEF EncodeU
<1>5. EncodeJ(imm) \in SUBSET (12 .. 31)
  BY DEF EncodeJ, Up
<1> QED BY <1>1, <1>2, <1>3, <1>4, <1>5

LEMMA UpperFormats ==
    ASSUME NEW i, Legal(i), Table[i.name][1] \in {23, 55, 111}
    PROVE  /\ Table[i.name][1] \in {23, 55} =>
                  Encode(i) = OpcodeOf(i) \cup RdOf(i)
                                  \cup EncodeU(Imm32(i.imm))
           /\ Table[i.name][1] = 111 =>
                  Encode(i) = OpcodeOf(i) \cup RdOf(i)
                                  \cup EncodeJ(Imm32(i.imm))
<1>1. Table[i.name][2] = 0 /\ i.name \notin Shifts
  BY SMTT(60) DEF Legal, Table, Shifts
<1>2. BitsOf(0) = {}
  <2>1. ASSUME NEW b \in 0 .. 30 PROVE b \notin BitsOf(0)
    <3>1. b \in 0 .. 31
      OBVIOUS
    <3> DEFINE p == Power(b)
    <3>2. p \in Nat /\ p > 0
      BY <3>1, Powers
    <3> HIDE DEF p
    <3>3. (0 \div p) % 2 = 0
      BY <3>2, SignBit
    <3> QED BY <3>3, BitIs DEF p
  <2>2. BitsOf(0) \subseteq 0 .. 30
    BY DEF BitsOf
  <2> QED BY <2>1, <2>2
<1>3. Up(BitsOf(Table[i.name][2]), 12) = {}
  <2>1. Up({}, 12) = {}
    BY DEF Up
  <2> QED BY <1>1, <1>2, <2>1
<1>4. Table[i.name][1] \in {23, 55} =>
          Encode(i) = (OpcodeOf(i) \cup Up(BitsOf(Table[i.name][2]), 12))
                          \cup RdOf(i) \cup EncodeU(Imm32(i.imm))
  BY <1>1, SMTT(60) DEF Encode, OpcodeOf, RdOf
<1>5. Table[i.name][1] = 111 =>
          Encode(i) = (OpcodeOf(i) \cup Up(BitsOf(Table[i.name][2]), 12))
                          \cup RdOf(i) \cup EncodeJ(Imm32(i.imm))
  BY <1>1, SMTT(60) DEF Encode, OpcodeOf, RdOf
<1> QED BY <1>3, <1>4, <1>5

\* No immediate.
LEMMA FormatR ==
    ASSUME NEW i, Legal(i), Table[i.name][1] = 51 PROVE FieldsDecode(i)
<1> DEFINE h == Rs2Of(i) \cup Func7Of(i)
<1>1. Rs2Of(i) \in SUBSET (20 .. 24) /\ Func7Of(i) \in SUBSET (25 .. 31)
      /\ RdOf(i) \in SUBSET (7 .. 11)
  BY Parts
<1>2. h \cap 20 .. 24 = Rs2Of(i) /\ h \cap 25 .. 31 = Func7Of(i)
      /\ h \in SUBSET (20 .. 31)
  BY <1>1
<1>3. Encode(i) = OpcodeOf(i) \cup RdOf(i) \cup Func3Of(i) \cup Rs1Of(i) \cup h
  BY Formats
<1>j. Joined(Encode(i), OpcodeOf(i), RdOf(i), Func3Of(i), Rs1Of(i), h)
  BY <1>2, <1>3, Parts DEF Joined
<1> HIDE DEF h
<1>4. /\ OPCODE_TYPE(Encode(i)) = OpcodeOf(i)
      /\ FUNC(Encode(i)) = BitsOf(Table[i.name][2])
      /\ RS1(Encode(i)) = i.rs1
      /\ RD(Encode(i)) = i.rd
      /\ RS2(Encode(i)) = i.rs2
      /\ R_FUNC(Encode(i)) = BitsOf(Table[i.name][2])
                                 \cup Up(BitsOf(Table[i.name][3]), 4)
  BY <1>2, <1>j, Decoded DEF Rs2Of, Legal
<1>5. i.name \notin Shifts
  BY Entries DEF Legal
<1> QED BY <1>4, <1>5 DEF FieldsDecode, OpcodeOf

\* The immediate of a shift is the number in the place of rs2.
LEMMA FormatShift ==
    ASSUME NEW i, Legal(i), i.name \in Shifts PROVE FieldsDecode(i)
<1> DEFINE h == EncodeI(Imm32(i.imm)) \cup Func7Of(i)
<1>1. Table[i.name][1] = 19
  BY Entries DEF Legal
<1>2. EncodeI(Imm32(i.imm)) = Up(BitsOf(i.imm), 20) /\ i.imm \in 0 .. 31
      /\ EncodeI(Imm32(i.imm)) \in SUBSET (20 .. 24)
  <2>1. i.imm \in 0 .. 31
    BY DEF Legal
  <2>2. BitsOf(i.imm) \in SUBSET (0 .. 4)
    BY <2>1, SmallBits
  <2>3. Imm32(i.imm) = BitsOf(i.imm)
    BY <2>1 DEF Imm32
  <2>4. Imm32(i.imm) \cap 0 .. 11 = BitsOf(i.imm)
    BY <2>2, <2>3
  <2>5. Up(BitsOf(i.imm), 20) \in SUBSET (20 .. 20 + 4)
    BY <2>2, UpRange
  <2> QED BY <2>1, <2>4, <2>5 DEF EncodeI
<1>3. Func7Of(i) \in SUBSET (25 .. 31)
  BY Parts
<1>4. /\ h \cap 20 .. 24 = Up(BitsOf(i.imm), 20) /\ h \cap 25 .. 31 = Func7Of(i)
      /\ h \in SUBSET (20 .. 31)
  BY <1>2, <1>3
<1>5. Encode(i) = OpcodeOf(i) \cup RdOf(i) \cup Func3Of(i) \cup Rs1Of(i) \cup h
  BY Formats
<1>6. Joined(Encode(i), OpcodeOf(i), RdOf(i), Func3Of(i), Rs1Of(i), h)
  BY <1>4, <1>5, Parts DEF Joined
<1> HIDE DEF h
<1>7. /\ OPCODE_TYPE(Encode(i)) = OpcodeOf(i)
      /\ FUNC(Encode(i)) = BitsOf(Table[i.name][2])
      /\ RS1(Encode(i)) = i.rs1
      /\ RD(Encode(i)) = i.rd
      /\ RS2(Encode(i)) = i.imm
      /\ R_FUNC(Encode(i)) = BitsOf(Table[i.name][2])
                                 \cup Up(BitsOf(Table[i.name][3]), 4)
  BY <1>2, <1>4, <1>6, Decoded
<1> QED BY <1>1, <1>7 DEF FieldsDecode, OpcodeOf

LEMMA FormatI ==
    ASSUME NEW i, Legal(i), Table[i.name][1] \in {3, 19, 103},
           i.name \notin Shifts
    PROVE  FieldsDecode(i)
<1> DEFINE imm == Imm32(i.imm)
           h == EncodeI(imm)
           rest == OpcodeOf(i) \cup RdOf(i) \cup Func3Of(i) \cup Rs1Of(i)
<1>1. imm \in Word32 /\ i.imm \in Int
  BY Imm32Bit DEF Legal
<1>2. Encode(i) = rest \cup h
  BY Formats
<1>3. Joined(Encode(i), OpcodeOf(i), RdOf(i), Func3Of(i), Rs1Of(i), h)
  <2>1. h \in SUBSET (20 .. 31)
    BY <1>1, Places
  <2> QED BY <1>2, <2>1, Parts DEF Joined
<1>4. rest \in Word32 /\ rest \cap 0 .. 19 = rest
  <2>1. rest \subseteq 0 .. 19
    BY Parts
  <2> QED BY <2>1 DEF Word32
<1> HIDE DEF imm, rest
<1>5. Encode(i) = EncodeI(imm) \cup (rest \cap 0 .. 19)
  BY <1>2, <1>4
<1>6. I_IMM(Encode(i)) = SignExtend(imm, 11)
  BY <1>1, <1>4, <1>5, DecodeI
<1>7. I_IMM(Encode(i)) = Imm32(i.imm)
  BY <1>1, <1>6, Fits DEF imm, Legal
<1> HIDE DEF h
<1>8. /\ OPCODE_TYPE(Encode(i)) = OpcodeOf(i)
      /\ FUNC(Encode(i)) = BitsOf(Table[i.name][2])
      /\ RS1(Encode(i)) = i.rs1
      /\ RD(Encode(i)) = i.rd
  BY <1>3, Decoded
<1> QED BY <1>7, <1>8 DEF FieldsDecode, OpcodeOf

\* Stores and branches: the immediate is in the place of rd and func7.
BesideStore(i) == OpcodeOf(i) \cup Func3Of(i) \cup Rs1Of(i) \cup Rs2Of(i)

LEMMA DecodedStore ==
    ASSUME NEW i, Legal(i),
           NEW enc, enc = (enc \cap 7 .. 11) \cup (enc \cap 25 .. 31),
           Encode(i) = BesideStore(i) \cup enc
    PROVE  /\ OPCODE_TYPE(Encode(i)) = OpcodeOf(i)
           /\ FUNC(Encode(i)) = BitsOf(Table[i.name][2])
           /\ RS1(Encode(i)) = i.rs1
           /\ RS2(Encode(i)) = i.rs2
           /\ BesideStore(i) \in Word32
           /\ Encode(i) = enc \cup (BesideStore(i) \cap NotStore)
<1> DEFINE d == enc \cap 7 .. 11
           e == enc \cap 25 .. 31
           h == Rs2Of(i) \cup e
<1>1. Encode(i) = OpcodeOf(i) \cup d \cup Func3Of(i) \cup Rs1Of(i) \cup h
  BY DEF BesideStore
<1>2. Rs2Of(i) \in SUBSET (20 .. 24) /\ e \in SUBSET (25 .. 31)
      /\ d \in SUBSET (7 .. 11)
  BY Parts
<1>3. BesideStore(i) \in Word32 /\ BesideStore(i) \cap NotStore = BesideStore(i)
  <2>1. BesideStore(i) \subseteq 0 .. 6 \cup 12 .. 24
    BY Parts DEF BesideStore
  <2> QED BY <2>1 DEF Word32, NotStore
<1> HIDE DEF d, e
<1>4. h \cap 20 .. 24 = Rs2Of(i) /\ h \in SUBSET (20 .. 31)
  <2>1. ASSUME NEW r \in SUBSET (20 .. 24), NEW t \in SUBSET (25 .. 31)
        PROVE  (r \cup t) \cap 20 .. 24 = r /\ r \cup t \in SUBSET (20 .. 31)
    <3>1. \A b \in t : b \notin 20 .. 24 /\ b \in 20 .. 31
      OBVIOUS
    <3>2. \A b \in r : b \in 20 .. 24 /\ b \in 20 .. 31
      OBVIOUS
    <3>3. (r \cup t) \cap 20 .. 24 = r
      BY <3>1, <3>2
    <3> QED BY <3>1, <3>2, <3>3
  <2> QED BY <1>2, <2>1
<1>5. Joined(Encode(i), OpcodeOf(i), d, Func3Of(i), Rs1Of(i), h)
  BY <1>1, <1>2, <1>4, Parts DEF Joined
<1> HIDE DEF h
<1>6. /\ OPCODE_TYPE(Encode(i)) = OpcodeOf(i)
      /\ FUNC(Encode(i)) = BitsOf(Table[i.name][2])
      /\ RS1(Encode(i)) = i.rs1
      /\ RS2(Encode(i)) = i.rs2
  BY <1>4, <1>5, Decoded DEF Rs2Of, Legal
<1> QED BY <1>3, <1>6

LEMMA FormatS ==
    ASSUME NEW i, Legal(i), Table[i.name][1] = 35 PROVE FieldsDecode(i)
<1> DEFINE imm == Imm32(i.imm)
           enc == EncodeS(imm)
<1>1. imm \in Word32 /\ i.imm \in Int
  BY Imm32Bit DEF Legal
<1>2. enc = (enc \cap 7 .. 11) \cup (enc \cap 25 .. 31)
  BY <1>1, Places
<1>3. Encode(i) = BesideStore(i) \cup enc
  BY Formats DEF BesideStore
<1>4. i.name \notin Shifts
  BY Entries DEF Legal
<1> HIDE DEF imm
<1>5. S_IMM(Encode(i)) = SignExtend(imm, 11)
  <2>1. BesideStore(i) \in Word32
        /\ Encode(i) = EncodeS(imm) \cup (BesideStore(i) \cap NotStore)
    <3> HIDE DEF enc
    <3>1. BesideStore(i) \in Word32
          /\ Encode(i) = enc \cup (BesideStore(i) \cap NotStore)
      BY <1>2, <1>3, DecodedStore
    <3> QED BY <3>1 DEF enc
  <2> QED BY <1>1, <2>1, DecodeS
<1>6. S_IMM(Encode(i)) = Imm32(i.imm)
  BY <1>1, <1>5, Fits DEF imm, Legal
<1> HIDE DEF enc
<1>7. /\ OPCODE_TYPE(Encode(i)) = OpcodeOf(i)
      /\ FUNC(Encode(i)) = BitsOf(Table[i.name][2])
      /\ RS1(Encode(i)) = i.rs1
      /\ RS2(Encode(i)) = i.rs2
  BY <1>2, <1>3, DecodedStore
<1> QED BY <1>4, <1>6, <1>7 DEF FieldsDecode, OpcodeOf

LEMMA FormatB ==
    ASSUME NEW i, Legal(i), Table[i.name][1] = 99 PROVE FieldsDecode(i)
<1> DEFINE imm == Imm32(i.imm)
           enc == EncodeB(imm)
<1>1. imm \in Word32 /\ i.imm \in Int
  BY Imm32Bit DEF Legal
<1>2. enc = (enc \cap 7 .. 11) \cup (enc \cap 25 .. 31)
  BY <1>1, Places
<1>3. Encode(i) = BesideStore(i) \cup enc
  BY Formats DEF BesideStore
<1>4. i.name \notin Shifts
  BY Entries DEF Legal
<1> HIDE DEF imm
<1>5. B_IMM(Encode(i)) = SignExtend(imm, 12) \ {0}
  <2>1. BesideStore(i) \in Word32
        /\ Encode(i) = EncodeB(imm) \cup (BesideStore(i) \cap NotStore)
    <3> HIDE DEF enc
    <3>1. BesideStore(i) \in Word32
          /\ Encode(i) = enc \cup (BesideStore(i) \cap NotStore)
      BY <1>2, <1>3, DecodedStore
    <3> QED BY <3>1 DEF enc
  <2> QED BY <1>1, <2>1, DecodeB
<1>6. B_IMM(Encode(i)) = Imm32(i.imm)
  <2>1. SignExtend(Imm32(i.imm), 12) = Imm32(i.imm)
    BY <1>1, Fits DEF Legal
  <2>2. 0 \notin Imm32(i.imm)
    BY <1>1, LowBits DEF Legal
  <2> QED BY <1>5, <2>1, <2>2 DEF imm
<1> HIDE DEF enc
<1>7. /\ OPCODE_TYPE(Encode(i)) = OpcodeOf(i)
      /\ FUNC(Encode(i)) = BitsOf(Table[i.name][2])
      /\ RS1(Encode(i)) = i.rs1
      /\ RS2(Encode(i)) = i.rs2
  BY <1>2, <1>3, DecodedStore
<1> QED BY <1>4, <1>6, <1>7 DEF FieldsDecode, OpcodeOf

LEMMA FormatJ ==
    ASSUME NEW i, Legal(i), Table[i.name][1] = 111 PROVE FieldsDecode(i)
<1> DEFINE imm == Imm32(i.imm)
           rest == OpcodeOf(i) \cup RdOf(i)
<1>1. imm \in Word32 /\ i.imm \in Int
  BY Imm32Bit DEF Legal
<1>2. Encode(i) = OpcodeOf(i) \cup RdOf(i) \cup EncodeJ(imm)
  BY UpperFormats
<1>3. EncodeJ(imm) \in SUBSET (12 .. 31)
  BY <1>1, Places
<1>4. rest \in Word32 /\ rest \cap 0 .. 11 = rest
  <2>1. rest \subseteq 0 .. 11
    BY Parts
  <2> QED BY <2>1 DEF Word32
<1>5. i.name \notin Shifts
  BY Entries DEF Legal
<1> HIDE DEF imm
<1>6. OPCODE_TYPE(Encode(i)) = OpcodeOf(i) /\ RD(Encode(i)) = i.rd
  <2> HIDE DEF rest
  <2> DEFINE h == EncodeJ(imm)
  <2>1. h \in SUBSET (12 .. 31) /\ Encode(i) = OpcodeOf(i) \cup RdOf(i) \cup h
    BY <1>2, <1>3
  <2> HIDE DEF h
  <2> QED BY <2>1, DecodedUpper
<1>7. Encode(i) = EncodeJ(imm) \cup (rest \cap 0 .. 11)
  BY <1>2, <1>4
<1> HIDE DEF rest
<1>8. J_IMM(Encode(i)) = SignExtend(imm, 20) \ {0}
  BY <1>1, <1>4, <1>7, DecodeJ
<1>9. J_IMM(Encode(i)) = Imm32(i.imm)
  <2>1. SignExtend(Imm32(i.imm), 20) = Imm32(i.imm)
    BY <1>1, Fits DEF Legal
  <2>2. 0 \notin Imm32(i.imm)
    BY <1>1, LowBits DEF Legal
  <2> QED BY <1>8, <2>1, <2>2 DEF imm
<1> QED BY <1>5, <1>6, <1>9 DEF FieldsDecode, OpcodeOf

LEMMA FormatU ==
    ASSUME NEW i, Legal(i), Table[i.name][1] \in {23, 55} PROVE FieldsDecode(i)
<1> DEFINE imm == Imm32(i.imm)
           rest == OpcodeOf(i) \cup RdOf(i)
<1>1. imm \in Word32 /\ i.imm \in Int
  BY Imm32Bit DEF Legal
<1>2. Encode(i) = OpcodeOf(i) \cup RdOf(i) \cup EncodeU(imm)
  BY UpperFormats
<1>3. EncodeU(imm) \in SUBSET (12 .. 31)
  BY <1>1, Places
<1>4. rest \in Word32 /\ rest \cap 0 .. 11 = rest
  <2>1. rest \subseteq 0 .. 11
    BY Parts
  <2> QED BY <2>1 DEF Word32
<1>5. i.name \notin Shifts
  BY Entries DEF Legal
<1> HIDE DEF imm
<1>6. OPCODE_TYPE(Encode(i)) = OpcodeOf(i) /\ RD(Encode(i)) = i.rd
  BY <1>2, <1>3, DecodedUpper, ZenonT(30)
<1>7. Encode(i) = EncodeU(imm) \cup (rest \cap 0 .. 11)
  BY <1>2, <1>4
<1> HIDE DEF rest
<1>8. U_IMM(Encode(i)) = imm \cap 12 .. 31
  BY <1>1, <1>4, <1>7, DecodeU
<1>9. U_IMM(Encode(i)) = Imm32(i.imm)
  BY <1>1, <1>8, LowBits DEF imm, Legal
<1> QED BY <1>5, <1>6, <1>9 DEF FieldsDecode, OpcodeOf

\* OPCODE_TYPE, RD, RS1, RS2, FUNC, R_FUNC and the five immediates (cpu.h:60-72,
\* cpu.c:49-58) find in the word of every legal instruction, whatever its
\* registers and immediate, the fields the compiler put there.
THEOREM AllInstructionsDecode == \A i : Legal(i) => FieldsDecode(i)
<1> SUFFICES ASSUME NEW i, Legal(i) PROVE FieldsDecode(i)
  OBVIOUS
<1>1. Table[i.name][1] \in {3, 19, 23, 35, 51, 55, 99, 103, 111}
  BY Entries DEF Legal
<1> QED BY <1>1, FormatR, FormatShift, FormatI, FormatS, FormatB, FormatJ,
           FormatU

-----------------------------------------------------------------------------
(* Sums, differences and signed numbers.                                   *)

\* The sign bit is the upper half of the range.
LEMMA TopBit ==
    ASSUME NEW w \in Words
    PROVE  /\ Num(w) \in Nat /\ Num(w) < 2 * Power(W - 1)
           /\ Power(W) = 2 * Power(W - 1) /\ Power(W - 1) \in Nat /\ Power(W - 1) > 0
           /\ W - 1 \in w => Num(w) >= Power(W - 1)
           /\ W - 1 \notin w => Num(w) < Power(W - 1)
<1>1. W - 1 \in 0 .. 31 /\ W - 1 \in 0 .. 32 /\ (W - 1) + 1 = W
  BY Width
<1>2. /\ W - 1 \in w => Below(w, W) = Below(w, W - 1) + Power(W - 1)
      /\ W - 1 \notin w => Below(w, W) = Below(w, W - 1)
  BY <1>1, BelowNext
<1>3. Below(w, W - 1) \in Nat /\ Below(w, W - 1) < Power(W - 1)
  BY <1>1, Bounded
<1>4. Power(W - 1) \in Nat /\ Power(W - 1) > 0
  BY <1>1, PowerNat
<1>5. Power(W) = 2 * Power(W - 1)
  BY <1>1, PowerNext
<1>6. Num(w) = Below(w, W)
  BY NumIs
<1> QED BY <1>2, <1>3, <1>4, <1>5, <1>6

\* The signed number of a word.
LEMMA SignedIs ==
    ASSUME NEW w \in Words
    PROVE  /\ Signed(w) \in Int
           /\ -Power(W - 1) <= Signed(w) /\ Signed(w) < Power(W - 1)
           /\ W - 1 \in w => Signed(w) = Num(w) - Power(W) /\ Signed(w) < 0
           /\ W - 1 \notin w => Signed(w) = Num(w) /\ Signed(w) >= 0
<1>1. Signed(w) = IF W - 1 \in w THEN Num(w) - Power(W) ELSE Num(w)
  BY Zenon DEF Signed, Power
<1> QED BY <1>1, TopBit

\* It differs from the number by a multiple of 2 ^ W.
LEMMA SignedDiffers ==
    ASSUME NEW w \in Words
    PROVE  \E k \in Int : Signed(w) = Num(w) + Power(W) * k
<1>1. Power(W) \in Nat /\ Num(w) \in Nat
  BY Width, PowerNat, NumIs
<1>2. CASE W - 1 \in w
  <2>1. Power(W) * (-1) = -Power(W) /\ -1 \in Int
    BY <1>1
  <2> QED BY <1>1, <1>2, <2>1, SignedIs
<1>3. CASE W - 1 \notin w
  <2>1. Power(W) * 0 = 0 /\ 0 \in Int
    BY <1>1
  <2> QED BY <1>1, <1>3, <2>1, SignedIs
<1> QED BY <1>2, <1>3

\* A word is the word of its signed number.
LEMMA SignedWord == ASSUME NEW w \in Words PROVE WordOf(Signed(w)) = w
<1>1. PICK k \in Int : Signed(w) = Num(w) + Power(W) * k
  BY SignedDiffers
<1>2. WordOf(Signed(w)) = WordOf(Num(w))
  BY <1>1, SignedIs, NumIs, SameWord
<1> QED BY <1>2, WordOfNum

\* Sums and differences do not depend on the signs.
LEMMA PlusMinus ==
    ASSUME NEW a \in Words, NEW b \in Words
    PROVE  /\ WordOf(Signed(a) + Signed(b)) = Plus(a, b)
           /\ WordOf(Signed(a) - Signed(b)) = WordOf(Num(a) - Num(b))
<1> DEFINE p == Power(W)
           x == Num(a)
           y == Num(b)
           xs == Signed(a)
           ys == Signed(b)
<1>0. p \in Nat /\ x \in Int /\ y \in Int
  BY Width, PowerNat, NumIs
<1>1. PICK k \in Int : xs = x + p * k
  BY SignedDiffers
<1>2. PICK l \in Int : ys = y + p * l
  BY SignedDiffers
<1> HIDE DEF p, x, y, xs, ys
<1> DEFINE pk == p * k
           pl == p * l
<1>3. p * (k + l) = pk + pl /\ p * (k - l) = pk - pl /\ pk \in Int /\ pl \in Int
  BY <1>0
<1>4. xs = x + pk /\ ys = y + pl
  BY <1>1, <1>2
<1> HIDE DEF pk, pl
<1>5. /\ xs + ys = (x + y) + p * (k + l) /\ k + l \in Int
      /\ xs - ys = (x - y) + p * (k - l) /\ k - l \in Int
  BY <1>0, <1>3, <1>4
<1>6. xs + ys \in Int /\ x + y \in Int /\ xs - ys \in Int /\ x - y \in Int
  BY <1>0, <1>3, <1>4
<1>7. WordOf(xs + ys) = WordOf(x + y)
  BY <1>5, <1>6, SameWord, Zenon DEF p
<1>8. WordOf(xs - ys) = WordOf(x - y)
  BY <1>5, <1>6, SameWord, Zenon DEF p
<1> QED BY <1>7, <1>8 DEF x, y, xs, ys, Plus

\* The sum with a number that was cut to a word.
LEMMA PlusNumber ==
    ASSUME NEW a \in Words, NEW n \in Int
    PROVE  Plus(a, WordOf(n)) = WordOf(Num(a) + n)
<1> DEFINE p == Power(W)
           x == Num(a)
           q == n \div p
           r == n % p
           m == p * q
<1>0. p \in Nat /\ p > 0 /\ x \in Int
  BY Width, PowerNat, NumIs
<1>1. Num(WordOf(n)) = r
  BY NumOfWord
<1> HIDE DEF p, x
<1>2. q \in Int /\ r \in Nat /\ m \in Int /\ n = m + r
  BY <1>0, Division
<1> HIDE DEF r, q
<1>3. p * (-q) = -m /\ -q \in Int
  BY <1>0, <1>2
<1> HIDE DEF m
<1>4. x + r = (x + n) + p * (-q) /\ x + r \in Int /\ x + n \in Int
  BY <1>0, <1>2, <1>3
<1>5. WordOf(x + r) = WordOf(x + n)
  BY <1>3, <1>4, SameWord, Zenon DEF p
<1> QED BY <1>1, <1>5 DEF Plus, x

\* The words of 0, 1 and -1.
LEMMA SmallWords ==
    /\ WordOf(1) = {0} /\ WordOf(0) = {} /\ WordOf(-1) = Bits
    /\ Num({}) = 0 /\ {} \in Words /\ Bits \in Words
<1>0. {} \in Words /\ {0} \in Words /\ Bits \in Words
  BY Width, BitsAre
<1>1. Num({}) = 0
  <2>1. W \in 0 .. 32
    BY Width
  <2> QED BY <1>0, <2>1, NumIs, NoBits
<1>2. Num({0}) = 1
  <2>1. W \in 0 .. 32 /\ 1 \in Nat /\ 1 <= W /\ \A b \in 1 .. (W - 1) : b \notin {0}
    BY Width
  <2>2. Below({0}, W) = Below({0}, 1)
    BY <2>1, Short
  <2>3. 0 \in 0 .. 31 /\ 0 + 1 = 1
    OBVIOUS
  <2>4. 0 \in {0} => Below({0}, 0 + 1) = Below({0}, 0) + Power(0)
    BY <2>3, BelowNext
  <2> QED BY <1>0, <2>2, <2>3, <2>4, NumIs, BelowNone, PowerNone
<1>3. Num(Bits) = Power(W) - 1 /\ Power(W) \in Nat
  <2>1. W \in 0 .. 32 /\ 0 .. (W - 1) \subseteq Bits
    BY Width, BitsAre
  <2> QED BY <1>0, <2>1, NumIs, AllBits, PowerNat
<1>4. WordOf(-1) = Bits
  <2>1. Power(W) - 1 = -1 + Power(W) * 1
    BY <1>3
  <2>2. WordOf(Power(W) - 1) = WordOf(-1)
    BY <1>3, <2>1, SameWord
  <2> QED BY <1>0, <1>3, <2>2, WordOfNum
<1> QED BY <1>0, <1>1, <1>2, <1>4, WordOfNum

\* The low bits of an immediate.
LEMMA ImmediateWord ==
    ASSUME NEW n \in Int, -Power(31) <= n, n < Power(31)
    PROVE  Imm32(n) \cap Bits = WordOf(n)
<1>1. Imm32(n) \cap Bits \in Words
  BY DEF Words
<1>2. ASSUME NEW b \in Bits PROVE b \in Imm32(n) <=> b \in WordOf(n)
  <2>1. b \in WordOf(n) <=> (n \div Power(b)) % 2 = 1
    BY WordBit
  <2>2. b \in 0 .. 30 \/ b = 31
    BY BitsAre, Width
  <2>3. CASE b \in 0 .. 30
    BY <2>1, <2>3, Imm32Bit
  <2>4. CASE b = 31
    <3> DEFINE p == Power(31)
    <3>1. p \in Nat /\ p > 0 /\ -p <= n /\ n < p
      BY PowerNat
    <3>2. (n \div p) % 2 = IF n < 0 THEN 1 ELSE 0
      <4> HIDE DEF p
      <4> QED BY <3>1, SignBit
    <3> QED BY <2>1, <2>4, <3>2, Imm32Bit
  <2> QED BY <2>2, <2>3, <2>4
<1>3. WordOf(n) \in Words
  BY WordBit
<1> QED BY <1>1, <1>2, <1>3, EqualWords

-----------------------------------------------------------------------------
(* Shifts.                                                                 *)

\* << multiplies.
LEMMA ShiftUp ==
    ASSUME NEW a \in Words, NEW k \in 0 .. (W - 1)
    PROVE  Up(a, k) \cap Bits = WordOf(Num(a) * Power(k))
<1> DEFINE v == Up(a, k) \cap Bits
           l == W - k
           p == Power(k)
           y == {j \in 0 .. 31 : l + j \in a}
           low == Below(a, l)
           h == Below(y, k)
<1>0. /\ k \in Nat /\ l \in Nat /\ k + l = W /\ l + k = W /\ k \in 0 .. 32
      /\ l \in 0 .. 32 /\ W \in 0 .. 32 /\ a \in SUBSET Int
  BY Width, BitsAre
<1>1. v \in Words
  BY DEF Words
<1>2. ASSUME NEW b \in Bits PROVE b \in v <=> b - k \in a
  BY <1>0, <1>2, BitsAre, UpBit
<1> HIDE DEF v, l
<1>3. Below(v, W) = p * low
  <2>1. \A j \in 0 .. (l - 1) : k + j \in v <=> j \in a
    <3> TAKE j \in 0 .. (l - 1)
    <3>1. k + j \in Bits /\ (k + j) - k = j
      BY <1>0, BitsAre
    <3> QED BY <1>2, <3>1
  <2>2. Below(v, k + l) = Below(v, k) + Power(k) * Below(a, l)
    BY <1>0, <2>1, Split
  <2>3. \A b \in 0 .. (k - 1) : b \notin v
    <3> TAKE b \in 0 .. (k - 1)
    <3>1. b \in Bits /\ b - k \notin Bits
      BY <1>0, BitsAre
    <3> QED BY <1>2, <3>1, BitsAre
  <2>4. Below(v, k) = Below({}, k)
    BY <1>0, <2>3, SameBits
  <2>5. Below({}, k) = 0 /\ p \in Nat /\ low \in Nat
    BY <1>0, NoBits, PowerNat, Bounded
  <2>6. p * low \in Nat
    BY <2>5
  <2> QED BY <1>0, <2>2, <2>4, <2>5, <2>6
<1>4. Num(a) = low + Power(l) * h
  <2>1. \A j \in 0 .. (k - 1) : l + j \in a <=> j \in y
    BY <1>0
  <2> HIDE DEF y
  <2>2. Below(a, l + k) = Below(a, l) + Power(l) * Below(y, k)
    BY <1>0, <2>1, Split
  <2> QED BY <1>0, <2>2, NumIs
<1>5. Power(W) = p * Power(l)
  BY <1>0, PowerSum
<1>6. p \in Nat /\ Power(l) \in Nat /\ low \in Nat /\ h \in Nat
  <2> HIDE DEF y
  <2> QED BY <1>0, PowerNat, Bounded
<1> HIDE DEF p, low, h, y
<1> DEFINE q == Power(l)
<1>7. Num(a) * p = p * low + Power(W) * h
  <2> HIDE DEF q
  <2>1. (low + q * h) * p = p * low + (p * q) * h
    BY <1>6 DEF q
  <2> QED BY <1>4, <1>5, <2>1 DEF q
<1>8. Num(a) * p \in Int /\ p * low \in Int /\ h \in Int
  <2>1. Num(a) \in Nat
    BY NumIs
  <2> QED BY <1>6, <2>1
<1>9. WordOf(Num(a) * p) = WordOf(p * low)
  BY <1>7, <1>8, SameWord, Zenon
<1>10. Num(v) = p * low
  BY <1>1, <1>3, NumIs
<1> QED BY <1>1, <1>9, <1>10, WordOfNum DEF p, v

\* The bits from k on are a quotient.
LEMMA Quotient2 ==
    ASSUME NEW a \in Words, NEW k \in 0 .. (W - 1)
    PROVE  /\ Down(a, k) \in Words
           /\ Num(Down(a, k)) = Below(Down(a, k), W - k)
           /\ Num(a) = Below(a, k) + Power(k) * Num(Down(a, k))
           /\ Num(a) \div Power(k) = Num(Down(a, k))
<1> DEFINE d == Down(a, k)
           l == W - k
           p == Power(k)
<1>0. /\ k \in Nat /\ l \in Nat /\ k + l = W /\ k \in 0 .. 32
      /\ l \in 0 .. 32 /\ W \in 0 .. 32 /\ a \in SUBSET Int
  BY Width, BitsAre
<1>1. \A b \in Int : b \in d <=> b + k \in a /\ b >= 0
  BY <1>0, DownBit
<1>2. d \in SUBSET Int
  BY <1>0, ShiftsAreSets
<1> HIDE DEF d, l
<1>3. d \in Words
  BY <1>0, <1>1, <1>2, BitsAre
<1>4. Below(d, W) = Below(d, l)
  <2>1. \A b \in l .. (W - 1) : b \notin d
    BY <1>0, <1>1, BitsAre
  <2>2. l <= W
    BY <1>0
  <2> QED BY <1>0, <2>1, <2>2, Short
<1>5. Num(d) = Below(d, l)
  BY <1>3, <1>4, NumIs
<1>6. Num(a) = Below(a, k) + p * Num(d)
  <2>1. \A j \in 0 .. (l - 1) : k + j \in a <=> j \in d
    BY <1>0, <1>1
  <2>2. Below(a, k + l) = Below(a, k) + Power(k) * Below(d, l)
    BY <1>0, <2>1, Split
  <2> QED BY <1>0, <1>5, <2>2, NumIs
<1>7. Num(a) \div p = Num(d)
  <2> DEFINE v == Below(a, k)
             q == Num(d)
             x == Num(a)
  <2>1. p \in Nat /\ p > 0 /\ v \in Nat /\ v < p /\ q \in Int /\ x \in Int
    BY <1>0, <1>3, PowerNat, Bounded, NumIs
  <2>2. x = v + p * q
    BY <1>6
  <2> HIDE DEF v, q, x, p
  <2>3. x \div p = q
    BY <2>1, <2>2, Quotients
  <2> QED BY <2>3 DEF x, q
<1> QED BY <1>3, <1>5, <1>6, <1>7 DEF d, l

\* >> of an unsigned number divides.
LEMMA ShiftDown ==
    ASSUME NEW a \in Words, NEW k \in 0 .. (W - 1)
    PROVE  Down(a, k) = WordOf(Num(a) \div Power(k))
BY Quotient2, WordOfNum

\* A word with all bits from l on set as well.
LEMMA Sign ==
    ASSUME NEW d \in Words, NEW l \in 0 .. W, \A b \in l .. (W - 1) : b \notin d
    PROVE  /\ d \cup l .. (W - 1) \in Words
           /\ d \cup l .. (W - 1) = WordOf(Num(d) - Power(l))
<1> DEFINE e == d \cup l .. (W - 1)
           k == W - l
           p == Power(l)
           y == 0 .. 31
<1>0. /\ k \in Nat /\ l \in Nat /\ l + k = W /\ k \in 0 .. 32
      /\ l \in 0 .. 32 /\ W \in 0 .. 32
  BY Width
<1>1. e \in Words
  BY <1>0, BitsAre
<1>2. /\ \A b \in 0 .. (l - 1) : b \in e <=> b \in d
      /\ \A j \in 0 .. (k - 1) : l + j \in e <=> j \in y
  BY <1>0, BitsAre
<1> HIDE DEF e, k, y
<1>3. Below(e, l + k) = Below(e, l) + p * Below(y, k)
  BY <1>0, <1>2, Split
<1>4. Below(e, l) = Below(d, l)
  BY <1>0, <1>2, SameBits
<1>5. Below(d, W) = Below(d, l)
  <2>1. l <= W
    BY <1>0
  <2> QED BY <1>0, <2>1, Short
<1>6. Below(y, k) = Power(k) - 1
  <2>1. 0 .. (k - 1) \subseteq y
    BY <1>0 DEF y
  <2> QED BY <1>0, <2>1, AllBits
<1>7. Power(W) = p * Power(k) /\ p \in Nat /\ Power(k) \in Nat
  <2>1. l + k <= 32
    BY <1>0
  <2>2. Power(l + k) = Power(l) * Power(k)
    BY <1>0, <2>1, PowerSum
  <2> QED BY <1>0, <2>2, PowerNat
<1> DEFINE q == Power(k)
           n == Num(d)
<1>8. Num(e) = n + p * (q - 1)
  <2>1. Num(e) = Below(e, l + k)
    BY <1>0, <1>1, NumIs
  <2>2. Below(e, l) = n
    BY <1>4, <1>5, NumIs
  <2> QED BY <1>3, <1>6, <2>1, <2>2
<1>9. p \in Nat /\ q \in Nat /\ n \in Nat
  BY <1>7, NumIs
<1> HIDE DEF q, n, p
<1>10. p * (q - 1) = p * q - p /\ p * q \in Int
  BY <1>9
<1>11. Power(W) = p * q
  BY <1>7 DEF q
<1>12. Num(e) = (n - p) + Power(W) * 1 /\ n - p \in Int /\ Num(e) \in Int
  BY <1>8, <1>9, <1>10, <1>11
<1>13. WordOf(Num(e)) = WordOf(n - p)
  BY <1>12, SameWord
<1> QED BY <1>1, <1>13, WordOfNum DEF e, n, p

\* >> of a signed number divides, rounding down.
LEMMA ShiftDownSigned ==
    ASSUME NEW a \in Words, NEW k \in 0 .. (W - 1)
    PROVE  DownSigned(a, k, W) = WordOf(Signed(a) \div Power(k))
<1> DEFINE d == Down(a, k)
           l == W - k
           p == Power(k)
<1>1. DownSigned(a, k, W) = d \cup (IF W - 1 \in a THEN l .. (W - 1) ELSE {})
  BY DEF DownSigned
<1>2. CASE W - 1 \notin a
  <2>1. Signed(a) = Num(a)
    BY <1>2, SignedIs
  <2> QED BY <1>1, <1>2, <2>1, ShiftDown
<1>3. CASE W - 1 \in a
  <2>0. /\ k \in Nat /\ l \in 0 .. W /\ l + k = W /\ k \in 0 .. 32 /\ l \in Nat
        /\ l \in 0 .. 32
    BY Width
  <2>1. Signed(a) = Num(a) - Power(W)
    BY <1>3, SignedIs
  <2>2. Num(a) = Below(a, k) + p * Num(d) /\ d \in Words
    BY Quotient2
  <2>3. Power(W) = p * Power(l)
    <3>1. k + l = W /\ k + l <= 32
      BY <2>0, Width
    <3>2. Power(k + l) = Power(k) * Power(l)
      BY <2>0, <3>1, PowerSum
    <3> QED BY <3>1, <3>2
  <2>4. \A b \in l .. (W - 1) : b \notin d
    <3> TAKE b \in l .. (W - 1)
    <3> HIDE DEF d
    <3>1. b \in Int /\ b + k \notin Bits /\ a \in SUBSET Int /\ k \in Nat /\ k \in Int
      BY <2>0, BitsAre, Width
    <3>2. b \in d <=> b + k \in a /\ b >= 0
      BY <3>1, DownBit DEF d
    <3> QED BY <3>1, <3>2, BitsAre
  <2> DEFINE v == Below(a, k)
             n == Num(d)
             q == Power(l)
             x == Signed(a)
  <2>5. p \in Nat /\ p > 0 /\ v \in Nat /\ v < p /\ n \in Nat /\ q \in Nat /\ x \in Int
    BY <2>0, <2>2, PowerNat, Bounded, NumIs, SignedIs
  <2>6. x = (v + p * n) - p * q
    BY <2>1, <2>2, <2>3
  <2> HIDE DEF v, n, q, x, p
  <2>7. x = v + p * (n - q) /\ n - q \in Int
    <3>1. p * (n - q) = p * n - p * q
      BY <2>5
    <3> QED BY <2>5, <2>6, <3>1
  <2>8. x \div p = n - q
    BY <2>5, <2>7, Quotients
  <2>9. d \cup l .. (W - 1) = WordOf(n - q)
    BY <2>0, <2>2, <2>4, Sign DEF n, q
  <2> QED BY <1>1, <1>3, <2>8, <2>9 DEF x, p
<1> QED BY <1>2, <1>3

\* The low bits of a shift amount are its remainder.
LEMMA Amounts ==
    ASSUME NEW b \in Words
    PROVE  Amount(b) = Num(b) % W /\ Amount(b) \in 0 .. (W - 1)
<1>1. PICK l \in 2 .. 5 : W = Power(l) /\ l < W
  <2>1. Power(2) = 4 /\ Power(3) = 8 /\ Power(4) = 16 /\ Power(5) = 32
    BY DEF Power
  <2> QED BY <2>1, Width
<1>2. \A i \in 0 .. 31 : 2 ^ i < W <=> i < l
  <2>1. \A i \in 0 .. 31 : Power(i) < W <=> i < l
    <3>1. /\ Power(0) = 1 /\ Power(1) = 2 /\ Power(2) = 4
          /\ Power(3) = 8 /\ Power(4) = 16 /\ Power(5) = 32
      BY DEF Power
    <3>2. \A i \in 5 .. 31 : Power(i) >= 32
      BY Powers
    <3> TAKE i \in 0 .. 31
    <3>0. l \in 2 .. 5
      OBVIOUS
    <3>3. CASE i >= 5
      <4>1. Power(i) >= 32 /\ Power(i) \in Nat
        BY <3>2, <3>3, Powers
      <4> QED BY <1>1, <3>3, <4>1, Width
    <3>4. CASE i < 5
      BY <1>1, <3>1, <3>4
    <3> QED BY <3>3, <3>4
  <2> QED BY <2>1, Zenon DEF Power
<1> DEFINE c == {i \in b : 2 ^ i < W}
           k == W - l
           y == {j \in 0 .. 31 : l + j \in b}
           h == Below(y, k)
<1>0. /\ l \in Nat /\ l \in 0 .. 32 /\ k \in Nat /\ k \in 0 .. 32 /\ l + k = W
      /\ W \in 0 .. 32 /\ l <= W
  BY <1>1, Width
<1>3. c \in Words /\ \A i \in 0 .. (W - 1) : i \in c <=> i \in b /\ i < l
  <2>1. b \subseteq 0 .. (W - 1) /\ 0 .. (W - 1) \subseteq 0 .. 31
    BY BitsAre, Width
  <2> QED BY <1>2, <2>1, BitsAre
<1>4. Amount(b) = Num(c)
  BY DEF Amount
<1> HIDE DEF c, k
<1>5. Num(c) = Below(b, l)
  <2>1. \A i \in l .. (W - 1) : i \notin c
    BY <1>0, <1>3
  <2>2. Below(c, W) = Below(c, l)
    BY <1>0, <2>1, Short
  <2>3. \A i \in 0 .. (l - 1) : i \in c <=> i \in b
    BY <1>0, <1>3
  <2>4. Below(c, l) = Below(b, l)
    BY <1>0, <2>3, SameBits
  <2> QED BY <1>3, <2>2, <2>4, NumIs
<1>6. Num(b) = Below(b, l) + W * h
  <2>1. \A j \in 0 .. (k - 1) : l + j \in b <=> j \in y
    BY <1>0
  <2> HIDE DEF y
  <2>2. Below(b, l + k) = Below(b, l) + Power(l) * Below(y, k)
    BY <1>0, <2>1, Split
  <2> QED BY <1>0, <1>1, <2>2, NumIs
<1>7. Below(b, l) \in Nat /\ Below(b, l) < W /\ h \in Nat /\ W \in Nat /\ W > 0
  <2> HIDE DEF y
  <2> QED BY <1>0, <1>1, Bounded, Width
<1>8. Num(b) % W = Below(b, l)
  <2> DEFINE v == Below(b, l)
             x == Num(b)
  <2>1. x = v + W * h /\ v \in Nat /\ v < W /\ x \in Int /\ h \in Int
    BY <1>6, <1>7, NumIs
  <2> HIDE DEF v, x, h
  <2>2. x % W = v
    BY <1>7, <2>1, Quotients
  <2> QED BY <2>2 DEF v, x
<1> QED BY <1>4, <1>5, <1>7, <1>8

-----------------------------------------------------------------------------
(* Division: the C operators of Instructions and the definition of Isa.    *)

\* The signs of dividend and divisor taken out of a quotient.
Same(x, y) == (x < 0) = (y < 0)
Unsigned(x, y, q) == IF Same(x, y) THEN q ELSE -q

LEMMA AbsIs ==
    ASSUME NEW x \in Int
    PROVE  /\ Abs(x) \in Nat /\ x * Signum(x) = Abs(x)
           /\ x >= 0 => Abs(x) = x
           /\ x < 0 => Abs(x) = -x
           /\ x # 0 => Abs(x) > 0
           /\ Signum(x) \in {0, 1, -1}
           /\ Signum(x) = 0 <=> x = 0
           /\ Signum(x) = 1 <=> x > 0
           /\ Signum(x) = -1 <=> x < 0
BY DEF Abs, Signum

LEMMA SignsOut ==
    ASSUME NEW x \in Int, NEW y \in Int, NEW q \in Int
    PROVE  /\ x - y * q \in Int
           /\ x >= 0 => x - y * q = Abs(x) - Abs(y) * Unsigned(x, y, q)
           /\ x < 0 => x - y * q = -(Abs(x) - Abs(y) * Unsigned(x, y, q))
           /\ Unsigned(x, y, q) \in Int
           /\ Abs(y) * Unsigned(x, y, q) \in Int
<1> DEFINE m == y * q
<1>1. m \in Int /\ (-y) * q = -m /\ y * (-q) = -m /\ (-y) * (-q) = m
  OBVIOUS
<1>2. CASE x >= 0 /\ y >= 0
  BY <1>1, <1>2 DEF Abs, Unsigned, Same
<1>3. CASE x >= 0 /\ y < 0
  BY <1>1, <1>3 DEF Abs, Unsigned, Same
<1>4. CASE x < 0 /\ y >= 0
  BY <1>1, <1>4 DEF Abs, Unsigned, Same
<1>5. CASE x < 0 /\ y < 0
  BY <1>1, <1>5 DEF Abs, Unsigned, Same
<1> QED BY <1>2, <1>3, <1>4, <1>5

\* What IsDivision says, in the quotient without the signs.
LEMMA DivisionIs ==
    ASSUME NEW x \in Int, NEW y \in Int, y # 0, NEW q \in Int
    PROVE  IsDivision(x, y, q, x - y * q) <=>
              Unsigned(x, y, q) = Abs(x) \div Abs(y)
<1> DEFINE m == Abs(x)
           n == Abs(y)
           u == Unsigned(x, y, q)
           k == n * u
           r == x - y * q
<1>1. /\ r \in Int /\ u \in Int /\ k \in Int
      /\ x >= 0 => r = m - k
      /\ x < 0 => r = -(m - k)
  BY SignsOut
<1>2. m \in Nat /\ n \in Nat /\ n > 0
  BY AbsIs
<1>3. IsDivision(x, y, q, r) <=> /\ x = y * q + r
                                 /\ Signum(r) \in {0, Signum(x)}
                                 /\ r * Signum(r) < y * Signum(y)
  BY DEF IsDivision
<1>4. x = y * q + r
  <2> DEFINE z == y * q
  <2>1. z \in Int /\ r = x - z
    OBVIOUS
  <2> HIDE DEF z, r
  <2>2. x = z + r
    BY <2>1
  <2> QED BY <2>2 DEF z
<1> HIDE DEF r
<1>5. r * Signum(r) = Abs(r) /\ y * Signum(y) = n
  BY <1>1, AbsIs
<1>6. IsDivision(x, y, q, r) <=> Signum(r) \in {0, Signum(x)} /\ Abs(r) < n
  BY <1>3, <1>4, <1>5
<1> HIDE DEF n, u
<1>7. ASSUME Signum(r) \in {0, Signum(x)}, Abs(r) < n PROVE u = m \div n
  <2>1. m = k + Abs(r) /\ Abs(r) \in Nat
    <3> HIDE DEF k
    <3> QED BY <1>1, <1>2, <1>7 DEF Signum, Abs
  <2> DEFINE v == Abs(r)
  <2>2. v \in Nat /\ v < n /\ m = v + n * u
    <3> HIDE DEF k
    <3>1. m = v + k
      BY <1>1, <2>1
    <3> QED BY <1>7, <2>1, <3>1 DEF k
  <2> HIDE DEF v, m
  <2> QED BY <1>1, <1>2, <2>2, Quotients
<1>8. ASSUME u = m \div n PROVE Signum(r) \in {0, Signum(x)} /\ Abs(r) < n
  <2> DEFINE v == m % n
  <2>1. v \in Nat /\ v < n /\ m = k + v
    <3> HIDE DEF m
    <3>1. v \in Nat /\ v < n /\ m = n * (m \div n) + v
      BY <1>2, Division
    <3> QED BY <1>8, <3>1
  <2>2. v <= m
    <3>1. k >= 0
      <4> HIDE DEF m
      <4>1. m \div n \in Nat
        BY <1>2
      <4>2. 0 \in Int /\ 0 <= u /\ n * 0 = 0
        BY <1>8, <1>2, <4>1
      <4> QED BY <1>1, <1>2, <4>2, Times
    <3> HIDE DEF k, v
    <3> QED BY <1>1, <1>2, <2>1, <3>1
  <2> HIDE DEF k, v
  <2> QED BY <1>1, <1>2, <2>1, <2>2 DEF Signum, Abs
<1> QED BY <1>6, <1>7, <1>8 DEF r, m, n, u

\* The C quotient is the quotient of the architecture.
LEMMA DivIsQuotient ==
    ASSUME NEW x \in Int, NEW y \in Int, y # 0
    PROVE  /\ Div(x, y) = Quotient(x, y) /\ Quotient(x, y) \in Int
           /\ Rem(x, y) = Remainder(x, y) /\ Remainder(x, y) \in Int
<1> DEFINE m == Abs(x)
           n == Abs(y)
           d == m \div n
           q0 == Quotient(x, y)
<1>1. m \in Nat /\ n \in Nat /\ n > 0
  BY AbsIs
<1>2. d \in Nat /\ d <= m
  <2> HIDE DEF m, n
  <2> QED BY <1>1
<1>3. q0 = IF Same(x, y) THEN d ELSE -d
  BY DEF Quotient, Same
<1> HIDE DEF m, n, d, q0
<1>4. \A q \in Int : Unsigned(x, y, q) = d <=> q = q0
  BY <1>2, <1>3 DEF Unsigned
<1>5. q0 \in Int /\ -m <= q0 /\ q0 <= m
  BY <1>1, <1>2, <1>3
<1>6. \A q \in Int : IsDivision(x, y, q, x - y * q) <=> q = q0
  BY <1>4, DivisionIs DEF m, n, d
<1>7. Around(x) = -m .. m
  <2>1. x * Signum(x) = m
    BY AbsIs DEF m
  <2> QED BY <2>1 DEF Around
<1>8. q0 \in Around(x) /\ Around(x) \subseteq Int
  BY <1>1, <1>5, <1>7
<1>9. Div(x, y) = q0
  <2>1. Div(x, y) = CHOOSE q \in Around(x) : IsDivision(x, y, q, x - y * q)
    BY DEF Div
  <2>2. \A q \in Around(x) : IsDivision(x, y, q, x - y * q) <=> q = q0
    BY <1>6, <1>8
  <2> QED BY <1>8, <2>1, <2>2
<1>10. Rem(x, y) = x - y * q0 /\ Remainder(x, y) = x - y * q0
  BY <1>9 DEF Rem, Remainder, q0
<1> QED BY <1>5, <1>9, <1>10 DEF q0

LEMMA UnsignedQuotient ==
    ASSUME NEW x \in Nat, NEW y \in Nat, y # 0
    PROVE  Div(x, y) = x \div y /\ Rem(x, y) = x % y
<1>1. Quotient(x, y) = x \div y
  <2>1. Abs(x) = x /\ Abs(y) = y /\ Same(x, y)
    BY DEF Abs, Same
  <2> QED BY <2>1 DEF Quotient, Same
<1>2. Div(x, y) = x \div y
  <2>1. x \in Int /\ y \in Int
    OBVIOUS
  <2> QED BY <1>1, <2>1, DivIsQuotient
<1>3. Rem(x, y) = x - y * (x \div y)
  BY <1>2 DEF Rem
<1>4. x - y * (x \div y) = x % y
  OBVIOUS
<1> QED BY <1>2, <1>3, <1>4

\* The two special cases of the code are what the definition gives.
LEMMA SignedDivision ==
    ASSUME NEW a \in Words, NEW b \in Words
    PROVE  /\ DivideSigned(a, b) = WordOf(Div(Signed(a), Signed(b)))
           /\ RemainderSigned(a, b) = WordOf(Rem(Signed(a), Signed(b)))
<1> DEFINE x == Signed(a)
           y == Signed(b)
<1>0. x \in Int /\ y \in Int /\ WordOf(x) = a /\ WordOf(y) = b
  BY SignedIs, SignedWord
<1>1. b = {} <=> y = 0
  <2>1. b = {} => y = 0
    <3>1. ASSUME b = {} PROVE Signed(b) = 0
      <4>1. W - 1 \notin b
        BY <3>1
      <4> QED BY <3>1, <4>1, SignedIs, SmallWords
    <3> QED BY <3>1
  <2>2. y = 0 => b = {}
    BY <1>0, SmallWords
  <2> QED BY <2>1, <2>2
<1>2. CASE b = {}
  <2>1. DivideSigned(a, b) = Bits /\ RemainderSigned(a, b) = a
    BY <1>2 DEF DivideSigned, RemainderSigned
  <2>2. Div(x, y) = -1 /\ Rem(x, y) = x
    BY <1>1, <1>2 DEF Div, Rem
  <2> QED BY <1>0, <2>1, <2>2, SmallWords
<1>3. CASE b # {} /\ a = INT_MIN /\ y = -1
  <2>1. DivideSigned(a, b) = INT_MIN /\ RemainderSigned(a, b) = {}
    BY <1>3 DEF DivideSigned, RemainderSigned
  <2>2. x < 0
    <3>1. W - 1 \in a
      BY <1>3 DEF INT_MIN
    <3> QED BY <3>1, SignedIs
  <2>3. Abs(x) = -x /\ Abs(y) = 1 /\ Same(x, y)
    <3> HIDE DEF x, y
    <3>1. y < 0 /\ -1 <= y
      BY <1>0, <1>3
    <3>2. Abs(x) = -x /\ Abs(y) = 1
      BY <1>0, <2>2, <3>1, AbsIs
    <3>3. Same(x, y)
      <4>1. (x < 0) = (y < 0)
        BY <1>0, <2>2, <3>1
      <4> QED BY <4>1 DEF Same
    <3> QED BY <3>1, <3>2, <3>3
  <2>4. Quotient(x, y) = -x
    <3>1. (-x) \div 1 = -x
      BY <1>0
    <3> QED BY <2>3, <3>1 DEF Quotient, Same
  <2>5. Remainder(x, y) = 0
    <3> HIDE DEF x, y
    <3>1. (-1) * (-x) = x
      BY <1>0
    <3> QED BY <1>0, <1>3, <2>4, <3>1 DEF Remainder
  <2>6. Div(x, y) = -x /\ Rem(x, y) = 0
    BY <1>0, <1>3, <2>4, <2>5, DivIsQuotient
  <2>7. WordOf(-x) = INT_MIN
    <3> DEFINE h == Power(W - 1)
    <3>1. Num(a) = h
      <4>1. a = {W - 1} /\ W - 1 \in 0 .. 31 /\ W - 1 \in 0 .. 32 /\ (W - 1) + 1 = W
        BY <1>3, Width DEF INT_MIN
      <4>2. Below(a, W) = Below(a, W - 1) + Power(W - 1)
        BY <4>1, BelowNext
      <4>3. \A j \in 0 .. ((W - 1) - 1) : j \in a <=> j \in {}
        BY <4>1
      <4>4. Below(a, W - 1) = Below({}, W - 1)
        BY <4>1, <4>3, SameBits
      <4> QED BY <4>1, <4>2, <4>4, NumIs, NoBits, PowerNat
    <3>2. h \in Nat /\ Power(W) = 2 * h
      BY TopBit
    <3>3. x = h - 2 * h
      <4>1. W - 1 \in a
        BY <1>3 DEF INT_MIN
      <4> QED BY <3>1, <3>2, <4>1, SignedIs
    <3>4. -x = Num(a)
      BY <3>1, <3>2, <3>3
    <3> QED BY <1>3, <3>4, WordOfNum
  <2> QED BY <2>1, <2>6, <2>7, SmallWords
<1>4. CASE b # {} /\ ~(a = INT_MIN /\ y = -1)
  <2>1. /\ DivideSigned(a, b) = WordOf(Quotient(x, y))
        /\ RemainderSigned(a, b) = WordOf(Remainder(x, y))
    BY <1>4 DEF DivideSigned, RemainderSigned
  <2>2. y # 0
    BY <1>1, <1>4
  <2> QED BY <1>0, <2>1, <2>2, DivIsQuotient
<1> QED BY <1>2, <1>3, <1>4

\* DIVU and REMU, with division by zero.
LEMMA UnsignedDivision ==
    ASSUME NEW a \in Words, NEW b \in Words
    PROVE  /\ (IF b = {} THEN Bits ELSE WordOf(Num(a) \div Num(b)))
                  = WordOf(Div(Num(a), Num(b)))
           /\ (IF b = {} THEN a ELSE WordOf(Num(a) % Num(b)))
                  = WordOf(Rem(Num(a), Num(b)))
<1>1. b = {} <=> Num(b) = 0
  BY SmallWords, WordOfNum
<1>2. CASE b = {}
  <2>1. Div(Num(a), Num(b)) = -1 /\ Rem(Num(a), Num(b)) = Num(a)
    BY <1>1, <1>2 DEF Div, Rem
  <2> QED BY <1>2, <2>1, SmallWords, WordOfNum
<1>3. CASE b # {}
  <2>1. Num(a) \in Nat /\ Num(b) \in Nat /\ Num(b) # 0
    BY <1>1, <1>3, NumIs
  <2> QED BY <1>3, <2>1, UnsignedQuotient
<1> QED BY <1>2, <1>3

-----------------------------------------------------------------------------
(* Memory.                                                                 *)

\* The width of a byte.
LEMMA ByteIs == /\ Byte \in Nat /\ 4 * Byte = W
                /\ Byte = 1 \/ Byte = 2 \/ Byte = 4 \/ Byte = 8
BY Width DEF Byte

\* The bytes that a load or store of n bytes at a accesses.
Stored(m, a, n) == /\ n = 1 \/ n = 2 \/ n = 4
                   /\ \A k \in 0 .. (n - 1) : m[a + k] \in SUBSET (0 .. (Byte - 1))

\* The bits of a value in memory.
LEMMA BytesBit ==
    ASSUME NEW m, NEW a, NEW n, Stored(m, a, n)
    PROVE  /\ Bytes(m, a, n) \in Words
           /\ \A b \in Bytes(m, a, n) : b < n * Byte
           /\ \A k \in 0 .. (n - 1) : \A j \in 0 .. (Byte - 1) :
                 k * Byte + j \in Bytes(m, a, n) <=> j \in m[a + k]
<1> DEFINE w == Bytes(m, a, n)
<1>0. n \in {1, 2, 4} /\ \A k \in 0 .. (n - 1) : m[a + k] \in SUBSET (0 .. (Byte - 1))
  BY DEF Stored
<1>1. \A b : b \in w <=> \E k \in 0 .. (n - 1) : b \in Up(m[a + k], k * Byte)
  BY DEF Bytes
<1> HIDE DEF w
<1>2. ASSUME NEW k \in 0 .. (n - 1), NEW b \in Up(m[a + k], k * Byte)
      PROVE  \E j \in m[a + k] : j \in 0 .. (Byte - 1) /\ b = k * Byte + j
  <2>1. PICK j \in m[a + k] : b = j + k * Byte
    BY <1>2 DEF Up
  <2>2. j \in 0 .. (Byte - 1)
    BY <1>0, <1>2
  <2>3. b = k * Byte + j
    <3>1. k * Byte \in Int
      BY <1>0, ByteIs
    <3> QED BY <2>1, <2>2, <3>1
  <2> QED BY <2>2, <2>3
<1>3. ASSUME NEW k \in 0 .. (n - 1), NEW j \in 0 .. (Byte - 1)
      PROVE  /\ k * Byte + j \in 0 .. (W - 1) /\ k * Byte + j < n * Byte
             /\ \A l \in 0 .. (n - 1) : \A i \in 0 .. (Byte - 1) :
                   l * Byte + i = k * Byte + j => l = k /\ i = j
  <2>1. k = 0 \/ k = 1 \/ k = 2 \/ k = 3
    BY <1>0
  <2>2. ASSUME NEW l \in 0 .. (n - 1), NEW i \in 0 .. (Byte - 1),
               l * Byte + i = k * Byte + j
        PROVE  l = k /\ i = j
    <3>1. l = 0 \/ l = 1 \/ l = 2 \/ l = 3
      BY <1>0
    <3>2. l * Byte \in Int /\ k * Byte \in Int
      BY <1>0, ByteIs
    <3> QED BY <2>1, <2>2, <3>1, <3>2, ByteIs
  <2>3. k * Byte + j \in 0 .. (W - 1) /\ k * Byte + j < n * Byte
    BY <1>0, <2>1, ByteIs
  <2> QED BY <2>2, <2>3
<1>4. ASSUME NEW b \in w PROVE b \in 0 .. (W - 1) /\ b < n * Byte
  <2>1. PICK k \in 0 .. (n - 1) : b \in Up(m[a + k], k * Byte)
    BY <1>1
  <2>2. PICK j \in 0 .. (Byte - 1) : b = k * Byte + j
    BY <1>2, <2>1
  <2> QED BY <1>3, <2>2
<1>5. ASSUME NEW k \in 0 .. (n - 1), NEW j \in 0 .. (Byte - 1)
      PROVE  k * Byte + j \in w <=> j \in m[a + k]
  <2>1. ASSUME k * Byte + j \in w PROVE j \in m[a + k]
    <3>1. PICK l \in 0 .. (n - 1) : k * Byte + j \in Up(m[a + l], l * Byte)
      BY <1>1, <2>1
    <3>2. PICK i \in m[a + l] : i \in 0 .. (Byte - 1) /\ k * Byte + j = l * Byte + i
      BY <1>2, <3>1
    <3>3. l = k /\ i = j
      BY <1>3, <3>2
    <3> QED BY <3>3
  <2>2. ASSUME j \in m[a + k] PROVE k * Byte + j \in w
    <3>1. k * Byte \in Int
      BY <1>0, ByteIs
    <3>2. k * Byte + j = j + k * Byte
      BY <3>1
    <3>3. k * Byte + j \in Up(m[a + k], k * Byte)
      BY <2>2, <3>2 DEF Up
    <3> QED BY <1>1, <3>3
  <2> QED BY <2>1, <2>2
<1>6. w \in Words
  BY <1>4, BitsAre
<1> QED BY <1>4, <1>5, <1>6 DEF w

\* What Value computes.
Valued(m, a, n, t) ==
    t = [T \in SUBSET (0 .. (n - 1)) |->
           IF T = {} THEN 0
           ELSE (Sum(m[a + (CHOOSE x \in T : TRUE)]) * 2 ^ (Byte * (CHOOSE x \in T : TRUE)))
                    + t[T \ {CHOOSE x \in T : TRUE}]]

\* The value in memory is the number of the bits loaded.
LEMMA ValueIs ==
    ASSUME NEW m, NEW a, NEW n, Stored(m, a, n)
    PROVE  Value(m, a, n) = Num(Bytes(m, a, n))
<1> DEFINE w == Bytes(m, a, n)
           g == [i \in 0 .. 31 |-> IF i < n THEN Below(m[a + i], Byte) * Power(Byte * i)
                                            ELSE 0]
           S == 0 .. (n - 1)
           t == CHOOSE t : Valued(m, a, n, t)
           u == Sums(g, S)
<1>0. /\ n = 1 \/ n = 2 \/ n = 4
      /\ \A k \in S : m[a + k] \in SUBSET (0 .. (Byte - 1))
  BY DEF Stored
<1>1. Value(m, a, n) = t[S]
  BY DEF Value, MapThenSumSet, MapThenFoldSet, Valued
<1>2. \A i \in S : /\ Sum(m[a + i]) = Below(m[a + i], Byte)
                   /\ Below(m[a + i], Byte) \in Nat
                   /\ Power(Byte * i) \in Nat
                   /\ g[i] = Below(m[a + i], Byte) * Power(Byte * i)
  <2> TAKE i \in S
  <2> DEFINE v == m[a + i]
  <2>1. v \in SUBSET (0 .. (Byte - 1))
    BY <1>0
  <2> HIDE DEF v
  <2>2. v \in SUBSET (0 .. 31) /\ Byte \in 0 .. 32
    BY <2>1, ByteIs
  <2>3. Below(v, 32) = Below(v, Byte)
    <3>1. /\ Byte \in Nat /\ 32 \in 0 .. 32 /\ Byte <= 32
          /\ \A b \in Byte .. (32 - 1) : b \notin v
      BY <2>1, ByteIs
    <3> QED BY <3>1, Short
  <2>4. Sum(v) = Below(v, Byte)
    BY <2>2, <2>3, SumOf DEF Sum
  <2>5. i = 0 \/ i = 1 \/ i = 2 \/ i = 3
    BY <1>0
  <2>6. Byte * i \in 0 .. 32
    BY <2>5, ByteIs
  <2>7. i \in 0 .. 31 /\ i < n
    BY <1>0, <2>5
  <2>8. Below(v, Byte) \in Nat /\ Power(Byte * i) \in Nat
    BY <2>2, <2>6, Bounded, PowerNat
  <2>9. g[i] = Below(v, Byte) * Power(Byte * i)
    BY <2>7 DEF v
  <2> HIDE DEF g
  <2> QED BY <2>4, <2>8, <2>9 DEF v
<1>3. g \in Weights
  <2>1. ASSUME NEW i \in 0 .. 31 PROVE g[i] \in Int
    <3>1. CASE i < n
      <4>1. i \in S
        BY <1>0, <3>1
      <4> HIDE DEF S, g
      <4> QED BY <1>2, <4>1
    <3>2. CASE ~(i < n)
      BY <3>2
    <3> QED BY <3>1, <3>2
  <2>2. g = [i \in 0 .. 31 |-> g[i]]
    OBVIOUS
  <2> HIDE DEF g
  <2> QED BY <2>1, <2>2 DEF Weights
<1>4. S \in SUBSET (0 .. 31)
  BY <1>0
<1>5. ASSUME NEW f PROVE Valued(m, a, n, f) <=> Folded(g, S, f)
  <2>1. ASSUME NEW T \in SUBSET S, T # {}
        PROVE  Sum(m[a + (CHOOSE x \in T : TRUE)]) * 2 ^ (Byte * (CHOOSE x \in T : TRUE))
                   = g[CHOOSE x \in T : TRUE]
    <3> DEFINE x == CHOOSE x \in T : TRUE
    <3>1. x \in S
      BY <2>1
    <3> HIDE DEF x, g, S
    <3>2. Sum(m[a + x]) * Power(Byte * x) = g[x]
      BY <1>2, <3>1
    <3> QED BY <3>2, Zenon DEF x, Power
  <2> HIDE DEF g
  <2> QED BY <2>1 DEF Valued, Folded
<1>6. t[S] = u[32]
  <2>1. \E f : Folded(g, S, f)
    <3> HIDE DEF g, S
    <3> QED BY <1>3, <1>4, FoldedExists
  <2>2. Folded(g, S, t)
    <3> HIDE DEF g, S
    <3>1. Valued(m, a, n, t)
      BY <1>5, <2>1
    <3> HIDE DEF t
    <3> QED BY <1>5, <3>1
  <2> HIDE DEF g, S, t
  <2>3. t[S] = Total(g, S)
    BY <1>3, <1>4, <2>2, FoldedIsTotal
  <2> QED BY <2>3 DEF Total, u
<1>7. /\ u[0] = 0
      /\ \A i \in 0 .. 31 : u[i + 1] = u[i] + Term(g, S, i)
      /\ \A i \in S : Term(g, S, i) = g[i]
      /\ \A i \in n .. 31 : Term(g, S, i) = 0
      /\ \A i \in 0 .. 32 : u[i] \in Int
  <2>1. /\ \A i \in S : Term(g, S, i) = g[i]
        /\ \A i \in n .. 31 : Term(g, S, i) = 0
    <3> HIDE DEF g
    <3> QED BY <1>0 DEF Term
  <2> HIDE DEF g, S
  <2> QED BY <1>3, <2>1, SumsStep
<1>8. /\ w \in Words /\ \A b \in w : b < n * Byte
      /\ \A k \in S : \A j \in 0 .. (Byte - 1) :
            k * Byte + j \in w <=> j \in m[a + k]
  BY BytesBit
<1> HIDE DEF w, u, t, g
<1>9. \A i \in 0 .. n : i * Byte \in 0 .. 32
  <2> TAKE i \in 0 .. n
  <2>1. i = 0 \/ i = 1 \/ i = 2 \/ i = 3 \/ i = 4
    BY <1>0
  <2> QED BY <2>1, ByteIs
<1> DEFINE X == {k \in Nat : k <= n => u[k] = Below(w, k * Byte)}
           Y == {k \in Nat : k >= n => u[k] = u[n]}
<1>10. 0 \in X
  <2>1. 0 * Byte = 0
    BY ByteIs
  <2>2. u[0] = Below(w, 0 * Byte)
    BY <1>7, <2>1, BelowNone
  <2> QED BY <2>2
<1>11. ASSUME NEW k \in Nat, k < n, k \in X PROVE k + 1 \in X
  <2>1. k \in S /\ k \in 0 .. 31 /\ k <= n
    BY <1>0, <1>11
  <2>2. u[k + 1] = u[k] + g[k] /\ u[k] = Below(w, k * Byte)
    BY <1>7, <1>11, <2>1
  <2>3. g[k] = Below(m[a + k], Byte) * Power(Byte * k)
    BY <1>2, <2>1
  <2>4. /\ k * Byte \in Nat /\ Byte \in Nat /\ k * Byte + Byte <= 32
        /\ (k + 1) * Byte = k * Byte + Byte /\ k * Byte = Byte * k
        /\ k * Byte \in 0 .. 32 /\ Byte \in 0 .. 32
    <3>1. k = 0 \/ k = 1 \/ k = 2 \/ k = 3
      BY <1>0, <1>11
    <3> QED BY <3>1, ByteIs
  <2> DEFINE s == k * Byte
             l == Byte
             z == m[a + k]
  <2>5. \A j \in 0 .. (l - 1) : s + j \in w <=> j \in z
    BY <1>8, <2>1
  <2>6. s \in Nat /\ l \in Nat /\ s + l <= 32 /\ s \in 0 .. 32 /\ l \in 0 .. 32
    BY <2>4
  <2>7. Below(w, s + l) = Below(w, s) + Power(s) * Below(z, l)
    <3> HIDE DEF s, l, z
    <3> QED BY <2>5, <2>6, Split
  <2>8. Power(s) * Below(z, l) = Below(z, l) * Power(s)
    <3> HIDE DEF s, l, z
    <3>1. Power(s) \in Nat /\ Below(z, l) \in Nat
      BY <2>6, PowerNat, Bounded
    <3> QED BY <3>1
  <2>9. u[k + 1] = Below(w, s + l)
    <3>1. g[k] = Below(z, l) * Power(s)
      BY <2>3, <2>4
    <3>2. u[k] = Below(w, s)
      BY <2>2
    <3> HIDE DEF s, l, z
    <3> QED BY <2>2, <2>7, <2>8, <3>1, <3>2
  <2>10. u[k + 1] = Below(w, (k + 1) * Byte)
    BY <2>4, <2>9
  <2> QED BY <2>10
<1>12. n \in Nat /\ n <= 32 /\ n \in 0 .. 32
  BY <1>0
<1>13. n \in X
  <2>1. \A k \in 0 .. n : k \in X
    <3> HIDE DEF X
    <3> QED BY <1>10, <1>11, <1>12, Induction
  <2> QED BY <1>12, <2>1
<1>14. 32 \in Y
  <2>1. 0 \in Y
    BY <1>12
  <2>2. ASSUME NEW k \in Nat, k < 32, k \in Y PROVE k + 1 \in Y
    <3>1. CASE k + 1 <= n
      BY <1>12, <3>1
    <3>2. CASE k + 1 > n
      <4>1. k \in n .. 31 /\ k \in 0 .. 31 /\ k >= n
        BY <1>12, <2>2, <3>2
      <4>2. u[k + 1] = u[k] + 0 /\ u[k] = u[n] /\ u[n] \in Int
        BY <1>7, <1>12, <2>2, <4>1
      <4> QED BY <4>2
    <3> QED BY <1>12, <3>1, <3>2
  <2>3. 32 \in Nat
    OBVIOUS
  <2> HIDE DEF Y
  <2>4. \A k \in 0 .. 32 : k \in Y
    BY <2>1, <2>2, <2>3, Induction
  <2> QED BY <2>4
<1>15. u[32] = Below(w, n * Byte)
  BY <1>12, <1>13, <1>14
<1>16. Below(w, W) = Below(w, n * Byte)
  <2>1. n * Byte \in Nat /\ W \in 0 .. 32 /\ n * Byte <= W
    BY <1>0, ByteIs, Width
  <2>2. \A b \in (n * Byte) .. (W - 1) : b \notin w
    BY <1>8, <2>1
  <2> QED BY <2>1, <2>2, Short
<1> QED BY <1>1, <1>6, <1>8, <1>15, <1>16, NumIs DEF w

\* The upper bits of a signed byte or half word.
LEMMA SignExtendedIs ==
    ASSUME NEW w \in Words, NEW n \in {1, 2}, \A b \in w : b < n * Byte
    PROVE  SignExtended(w, n) = WordOf(AsSigned(Num(w), n))
<1> DEFINE l == n * Byte
           k == l - 1
<1>0. /\ l \in 0 .. W /\ l \in Nat /\ k \in 0 .. 31 /\ k \in 0 .. 32 /\ k + 1 = l
      /\ W \in 0 .. 32 /\ l \in 0 .. 32
  <2>1. n = 1 \/ n = 2
    OBVIOUS
  <2> QED BY <2>1, ByteIs, Width
<1>1. SignExtended(w, n) = IF k \in w THEN w \cup l .. (W - 1) ELSE w
  BY DEF SignExtended
<1>2. AsSigned(Num(w), n) = IF Num(w) >= Power(k) THEN Num(w) - Power(l) ELSE Num(w)
  BY Zenon DEF AsSigned, Power
<1>3. \A b \in l .. (W - 1) : b \notin w
  <2>1. \A b \in w : b < l /\ b \in Int
    BY BitsAre
  <2> HIDE DEF l
  <2> QED BY <1>0, <2>1
<1> HIDE DEF l, k
<1>4. Num(w) = Below(w, l)
  <2>1. Below(w, W) = Below(w, l)
    <3>1. l <= W
      BY <1>0
    <3> QED BY <1>0, <1>3, <3>1, Short
  <2> QED BY <2>1, NumIs
<1>5. /\ k \in w => Below(w, l) = Below(w, k) + Power(k)
      /\ k \notin w => Below(w, l) = Below(w, k)
  BY <1>0, BelowNext
<1>6. /\ Below(w, k) \in Nat /\ Below(w, k) < Power(k) /\ Power(k) \in Nat
  BY <1>0, Bounded, PowerNat
<1>7. k \in w <=> Num(w) >= Power(k)
  BY <1>4, <1>5, <1>6
<1>8. w \cup l .. (W - 1) = WordOf(Num(w) - Power(l))
  BY <1>0, <1>3, Sign
<1> QED BY <1>1, <1>2, <1>7, <1>8, WordOfNum

-----------------------------------------------------------------------------
(* The function codes.                                                     *)

\* func3 and func7 put together (R_FUNC).
LEMMA FunctionCode ==
    ASSUME NEW f \in 0 .. 7, NEW g \in 0 .. 32
    PROVE  BitsOf(f) \cup Up(BitsOf(g), 4) = BitsOf(f + 16 * g)
<1> DEFINE v == BitsOf(f)
           y == BitsOf(g)
           w == v \cup Up(y, 4)
           n == f + 16 * g
           z == BitsOf(n)
<1>0. n \in 0 .. 1023
  OBVIOUS
<1>1. v \in SUBSET (0 .. 2)
  BY SmallBits
<1>2. y \in SUBSET (0 .. 6) /\ y \in SUBSET Int
  <2>1. g \in Nat /\ g < 128
    OBVIOUS
  <2>2. y \in SUBSET (0 .. 6)
    BY <2>1, SmallBits
  <2> HIDE DEF y
  <2> QED BY <2>2
<1>3. \A b \in Int : b \in Up(y, 4) <=> b - 4 \in y
  <2> HIDE DEF y
  <2> QED BY <1>2, UpBit
<1>4. Below(v, 31) = f /\ Below(y, 31) = g /\ Below(z, 31) = n
  <2>1. f \in 0 .. 1023 /\ g \in 0 .. 1023
    OBVIOUS
  <2> QED BY <1>0, <2>1, CodeNumber
<1>5. z \in SUBSET (0 .. 30)
  BY DEF BitsOf
<1> HIDE DEF v, y, n, z
<1>6. Up(y, 4) \in SUBSET (4 .. 10)
  <2>1. \A b \in Up(y, 4) : b \in Int
    BY <1>2, ShiftsAreSets
  <2> QED BY <1>2, <1>3, <2>1
<1>7. w \in SUBSET (0 .. 30)
  <2> DEFINE u == Up(y, 4)
  <2>1. \A b \in u : b \in 0 .. 30
    BY <1>6
  <2>2. \A b \in v : b \in 0 .. 30
    BY <1>1
  <2> HIDE DEF u
  <2> QED BY <2>1, <2>2 DEF u
<1>8. Below(w, 31) = n
  <2>1. \A j \in 0 .. (27 - 1) : 4 + j \in w <=> j \in y
    <3> TAKE j \in 0 .. (27 - 1)
    <3>1. 4 + j \in Int /\ (4 + j) - 4 = j /\ 4 + j \notin 0 .. 2
      OBVIOUS
    <3> QED BY <1>1, <1>3, <3>1
  <2>2. \A b \in 0 .. 3 : b \in w <=> b \in v
    BY <1>6
  <2>3. 4 \in Nat /\ 27 \in Nat /\ 4 + 27 <= 32 /\ 4 \in 0 .. 32 /\ 4 + 27 = 31
        /\ 4 \in Nat /\ 31 \in 0 .. 32 /\ 4 <= 31 /\ 27 \in Nat /\ 27 \in 0 .. 32 /\ 27 <= 31
    OBVIOUS
  <2> HIDE DEF w
  <2>4. Below(w, 4 + 27) = Below(w, 4) + Power(4) * Below(y, 27)
    BY <2>1, <2>3, Split
  <2>5. Below(w, 4) = Below(v, 4)
    <3>1. \A b \in 0 .. (4 - 1) : b \in w <=> b \in v
      BY <2>2
    <3> QED BY <2>3, <3>1, SameBits
  <2>6. Below(v, 31) = Below(v, 4)
    <3>1. \A b \in 4 .. (31 - 1) : b \notin v
      BY <1>1
    <3> QED BY <2>3, <3>1, Short
  <2>7. Below(y, 31) = Below(y, 27)
    <3>1. \A b \in 27 .. (31 - 1) : b \notin y
      BY <1>2
    <3> QED BY <2>3, <3>1, Short
  <2>8. Power(4) = 16
    BY DEF Power
  <2> QED BY <1>4, <2>3, <2>4, <2>5, <2>6, <2>7, <2>8 DEF n
<1> HIDE DEF w
<1>9. ASSUME NEW b \in 0 .. 30 PROVE b \in w <=> b \in z
  <2>1. b \in 0 .. (31 - 1) /\ 31 \in 0 .. 32
    OBVIOUS
  <2>2. b \in w <=> (Below(w, 31) \div Power(b)) % 2 = 1
    BY <2>1, BitOf
  <2>3. b \in z <=> (Below(z, 31) \div Power(b)) % 2 = 1
    BY <2>1, BitOf
  <2> QED BY <1>4, <1>8, <2>2, <2>3
<1> QED BY <1>5, <1>7, <1>9 DEF w, v, y, z, n

\* The function codes and their numbers.
LEMMA CodeIs ==
    /\ DOMAIN Code = DOMAIN Funcs
    /\ \A f \in DOMAIN Funcs : Code[f] = BitsOf(Funcs[f])
    /\ \A f \in DOMAIN Funcs : Funcs[f] \in 0 .. 1023
<1>1. \A f \in DOMAIN Funcs : Funcs[f] \in 0 .. 1023
  BY SMTT(60) DEF Funcs
<1> QED BY <1>1 DEF Code

\* No two operations have the same function code.
LEMMA CodesDiffer ==
    ASSUME NEW f \in DOMAIN Funcs, NEW g \in DOMAIN Funcs, Code[f] = Code[g]
    PROVE  f = g
<1>1. Funcs[f] = Funcs[g]
  <2> DEFINE n == Funcs[f]
             m == Funcs[g]
  <2>1. n \in 0 .. 1023 /\ m \in 0 .. 1023
    BY CodeIs
  <2>2. BitsOf(n) = BitsOf(m)
    BY CodeIs
  <2> HIDE DEF n, m
  <2>3. Below(BitsOf(n), 31) = n /\ Below(BitsOf(m), 31) = m
    BY <2>1, CodeNumber, SMTT(30)
  <2>4. n = m
    BY <2>2, <2>3
  <2> QED BY <2>4 DEF n, m
<1>2. \A h, k \in DOMAIN Funcs : Funcs[h] = Funcs[k] => h = k
  BY SMTT(60) DEF Funcs
<1> QED BY <1>1, <1>2

\* The names of the architecture and those of the code.
Operation == [add |-> "ADD", sub |-> "SUB", sll |-> "SLL", slt |-> "SLT",
              sltu |-> "SLTU", xor |-> "XOR", srl |-> "SRL", sra |-> "SRA",
              or |-> "OR", and |-> "AND", mul |-> "MUL", mulh |-> "MULH",
              mulhsu |-> "MULHSU", mulhu |-> "MULHU", div |-> "DIV",
              divu |-> "DIVU", rem |-> "REM", remu |-> "REMU"]

\* The operation of each register and immediate instruction.
LEMMA Operations ==
    /\ \A n \in Named(51) :
          /\ n \in DOMAIN Operation /\ Operation[n] \in DOMAIN Funcs
          /\ Table[n][2] \in 0 .. 7 /\ Table[n][3] \in 0 .. 32
          /\ Table[n][2] + 16 * Table[n][3] = Funcs[Operation[n]]
    /\ \A n \in Named(19) \ Shifts :
          /\ OfImmediate[n] \in DOMAIN Operation
          /\ Operation[OfImmediate[n]]
                 \in {"ADD", "XOR", "OR", "AND", "SLT", "SLTU"}
          /\ Table[n][2] = Funcs[Operation[OfImmediate[n]]]
          /\ Table[n][2] # 1 /\ Table[n][2] # 5
    /\ Named(51) = DOMAIN Operation
    /\ Named(19) \ Shifts = {"addi", "slti", "sltiu", "xori", "ori", "andi"}
<1>1. Named(51) = DOMAIN Operation
  BY SMTT(60) DEF Named, Table, Operation
<1>2. Named(19) \ Shifts = {"addi", "slti", "sltiu", "xori", "ori", "andi"}
  BY SMTT(60) DEF Named, Table, Shifts
<1>3. \A n \in DOMAIN Operation :
          /\ n \in DOMAIN Operation /\ Operation[n] \in DOMAIN Funcs
          /\ Table[n][2] \in 0 .. 7 /\ Table[n][3] \in 0 .. 32
          /\ Table[n][2] + 16 * Table[n][3] = Funcs[Operation[n]]
  BY SMTT(60) DEF Operation, Table, Funcs
<1>4. \A n \in {"addi", "slti", "sltiu", "xori", "ori", "andi"} :
          /\ OfImmediate[n] \in DOMAIN Operation
          /\ Operation[OfImmediate[n]]
                 \in {"ADD", "XOR", "OR", "AND", "SLT", "SLTU"}
          /\ Table[n][2] = Funcs[Operation[OfImmediate[n]]]
          /\ Table[n][2] # 1 /\ Table[n][2] # 5
  BY SMTT(60) DEF Operation, Table, Funcs, OfImmediate
<1> QED BY <1>1, <1>2, <1>3, <1>4

\* The sets of bits that the logical operations yield.
LEMMA Logical ==
    ASSUME NEW w \in Words PROVE WordOf(Sum(w)) = w
<1>1. w \in SUBSET (0 .. 31) /\ W \in 0 .. 32
  BY Width, BitsAre
<1>2. Sum(w) = Below(w, 32)
  BY <1>1, SumOf DEF Sum
<1>3. Below(w, 32) = Below(w, W)
  BY <1>1, BitsAre, Short
<1> QED BY <1>2, <1>3, NumIs, WordOfNum

\* The result of a comparison.
LEMMA Truth == ASSUME NEW p \in BOOLEAN
               PROVE WordOf(IF p THEN 1 ELSE 0) = Flag(p)
BY SmallWords DEF Flag

\* What the R and IR types calculate is what the architecture calls for.
LEMMA Calculates ==
    ASSUME NEW a \in Words, NEW b \in Words, NEW n \in DOMAIN Operation
    PROVE  RegisterResult(Code[Operation[n]], a, b) = WordOf(Computed(n, a, b))
<1> DEFINE Holds(m, f) == RegisterResult(Code[f], a, b) = WordOf(Computed(m, a, b))
<1>0. /\ Num(a) \in Nat /\ Num(b) \in Nat /\ Signed(a) \in Int /\ Signed(b) \in Int
      /\ Amount(b) = Num(b) % W /\ Amount(b) \in 0 .. (W - 1)
  BY NumIs, SignedIs, Amounts
<1>f. DOMAIN Funcs = {"ADD", "SUB", "XOR", "OR", "AND", "SLL", "SRL", "SRA",
                      "SLT", "SLTU", "MUL", "MULH", "MULHSU", "MULHU", "DIV",
                      "DIVU", "REM", "REMU"}
  BY SMTT(60) DEF Funcs
<1>g. \A f, g \in DOMAIN Funcs : Code[f] = Code[g] => f = g
  BY CodesDiffer
<1>1. Holds("add", "ADD")
  <2>1. RegisterResult(Code.ADD, a, b) = Plus(a, b)
    BY <1>f, <1>g DEF RegisterResult
  <2>2. Computed("add", a, b) = Signed(a) + Signed(b)
    BY DEF Computed, Power
  <2> QED BY <2>1, <2>2, PlusMinus
<1>2. Holds("sub", "SUB")
  <2>1. RegisterResult(Code.SUB, a, b) = WordOf(Num(a) - Num(b))
    BY <1>f, <1>g DEF RegisterResult
  <2>2. Computed("sub", a, b) = Signed(a) - Signed(b)
    BY DEF Computed, Power
  <2> QED BY <2>1, <2>2, PlusMinus
<1>3. Holds("and", "AND")
  <2>1. RegisterResult(Code.AND, a, b) = a \cap b
    BY <1>f, <1>g DEF RegisterResult
  <2> DEFINE w == {j \in Bits : j \in a /\ j \in b}
  <2>2. Computed("and", a, b) = Sum(w)
    BY DEF Computed, BitWise
  <2>3. w = a \cap b /\ w \in Words
    BY BitsAre
  <2> HIDE DEF w
  <2> QED BY <2>1, <2>2, <2>3, Logical
<1>4. Holds("or", "OR")
  <2>1. RegisterResult(Code.OR, a, b) = a \cup b
    BY <1>f, <1>g DEF RegisterResult
  <2> DEFINE w == {j \in Bits : j \in a \/ j \in b}
  <2>2. Computed("or", a, b) = Sum(w)
    BY DEF Computed, BitWise
  <2>3. w = a \cup b /\ w \in Words
    BY BitsAre
  <2> HIDE DEF w
  <2> QED BY <2>1, <2>2, <2>3, Logical
<1>5. Holds("xor", "XOR")
  <2>1. RegisterResult(Code.XOR, a, b) = (a \ b) \cup (b \ a)
    BY <1>f, <1>g DEF RegisterResult
  <2> DEFINE w == {j \in Bits : (j \in a) # (j \in b)}
  <2>2. Computed("xor", a, b) = Sum(w)
    BY DEF Computed, BitWise
  <2>3. w = (a \ b) \cup (b \ a) /\ w \in Words
    <3>1. \A j : j \in w <=> j \in Bits /\ (j \in a) # (j \in b)
      OBVIOUS
    <3>2. ASSUME NEW p \in BOOLEAN, NEW q \in BOOLEAN
          PROVE  (p # q) <=> (p /\ ~q) \/ (~p /\ q)
      OBVIOUS
    <3>3. \A j : (j \in a) # (j \in b) <=> (j \in a /\ j \notin b) \/ (j \notin a /\ j \in b)
      <4> TAKE j
      <4>1. (j \in a) \in BOOLEAN /\ (j \in b) \in BOOLEAN
        OBVIOUS
      <4> QED BY <3>2, <4>1
    <3> HIDE DEF w
    <3>4. \A j : j \in w <=> j \in (a \ b) \cup (b \ a)
      BY <3>1, <3>3, BitsAre
    <3> QED BY <3>1, <3>4, BitsAre
  <2> HIDE DEF w
  <2> QED BY <2>1, <2>2, <2>3, Logical
<1>6. Holds("sll", "SLL")
  <2>1. RegisterResult(Code.SLL, a, b) = Up(a, Amount(b)) \cap Bits
    BY <1>f, <1>g DEF RegisterResult
  <2>2. Computed("sll", a, b) = Num(a) * Power(Num(b) % W)
    BY DEF Computed, Power
  <2> QED BY <2>1, <2>2, <1>0, ShiftUp
<1>7. Holds("srl", "SRL")
  <2>1. RegisterResult(Code.SRL, a, b) = Down(a, Amount(b))
    BY <1>f, <1>g DEF RegisterResult
  <2>2. Computed("srl", a, b) = Num(a) \div Power(Num(b) % W)
    BY DEF Computed, Power
  <2> QED BY <2>1, <2>2, <1>0, ShiftDown
<1>8. Holds("sra", "SRA")
  <2>1. RegisterResult(Code.SRA, a, b) = DownSigned(a, Amount(b), W)
    BY <1>f, <1>g DEF RegisterResult
  <2>2. Computed("sra", a, b) = Signed(a) \div Power(Num(b) % W)
    BY DEF Computed, Power
  <2> QED BY <2>1, <2>2, <1>0, ShiftDownSigned
<1>9. Holds("slt", "SLT")
  <2>1. RegisterResult(Code.SLT, a, b) = Flag(Signed(a) < Signed(b))
    BY <1>f, <1>g DEF RegisterResult
  <2>2. Computed("slt", a, b) = (IF Signed(a) < Signed(b) THEN 1 ELSE 0)
    BY DEF Computed, Power
  <2>3. (Signed(a) < Signed(b)) \in BOOLEAN
    BY <1>0
  <2>4. WordOf(IF Signed(a) < Signed(b) THEN 1 ELSE 0) = Flag(Signed(a) < Signed(b))
    BY <2>3, Truth
  <2> QED BY <2>1, <2>2, <2>4
<1>10. Holds("sltu", "SLTU")
  <2>1. RegisterResult(Code.SLTU, a, b) = Flag(Num(a) < Num(b))
    BY <1>f, <1>g DEF RegisterResult
  <2>2. Computed("sltu", a, b) = (IF Num(a) < Num(b) THEN 1 ELSE 0)
    BY DEF Computed, Power
  <2>3. (Num(a) < Num(b)) \in BOOLEAN
    BY <1>0
  <2>4. WordOf(IF Num(a) < Num(b) THEN 1 ELSE 0) = Flag(Num(a) < Num(b))
    BY <2>3, Truth
  <2> QED BY <2>1, <2>2, <2>4
<1>11. Holds("mul", "MUL")
  <2>1. RegisterResult(Code.MUL, a, b) = WordOf(Signed(a) * Signed(b))
    BY <1>f, <1>g DEF RegisterResult
  <2>2. Computed("mul", a, b) = Signed(a) * Signed(b)
    BY DEF Computed, Power
  <2> QED BY <2>1, <2>2
<1>12. Holds("mulh", "MULH")
  <2>1. RegisterResult(Code.MULH, a, b) = HighHalf(Signed(a) * Signed(b))
    BY <1>f, <1>g DEF RegisterResult
  <2>2. Computed("mulh", a, b) = (Signed(a) * Signed(b)) \div 2 ^ W
    BY DEF Computed, Power
  <2> QED BY <2>1, <2>2 DEF HighHalf
<1>13. Holds("mulhsu", "MULHSU")
  <2>1. RegisterResult(Code.MULHSU, a, b) = HighHalf(Signed(a) * Num(b))
    BY <1>f, <1>g DEF RegisterResult
  <2>2. Computed("mulhsu", a, b) = (Signed(a) * Num(b)) \div 2 ^ W
    BY DEF Computed, Power
  <2> QED BY <2>1, <2>2 DEF HighHalf
<1>14. Holds("mulhu", "MULHU")
  <2>1. RegisterResult(Code.MULHU, a, b) = HighHalf(Num(a) * Num(b))
    BY <1>f, <1>g DEF RegisterResult
  <2>2. Computed("mulhu", a, b) = (Num(a) * Num(b)) \div 2 ^ W
    BY DEF Computed, Power
  <2> QED BY <2>1, <2>2 DEF HighHalf
<1>15. Holds("div", "DIV")
  <2>1. RegisterResult(Code.DIV, a, b) = DivideSigned(a, b)
    BY <1>f, <1>g DEF RegisterResult
  <2>2. Computed("div", a, b) = Div(Signed(a), Signed(b))
    BY DEF Computed, Power
  <2> QED BY <2>1, <2>2, SignedDivision
<1>16. Holds("divu", "DIVU")
  <2>1. RegisterResult(Code.DIVU, a, b) = (IF b = {} THEN Bits ELSE WordOf(Num(a) \div Num(b)))
    BY <1>f, <1>g DEF RegisterResult
  <2>2. Computed("divu", a, b) = Div(Num(a), Num(b))
    BY DEF Computed, Power
  <2> QED BY <2>1, <2>2, UnsignedDivision
<1>17. Holds("rem", "REM")
  <2>1. RegisterResult(Code.REM, a, b) = RemainderSigned(a, b)
    BY <1>f, <1>g DEF RegisterResult
  <2>2. Computed("rem", a, b) = Rem(Signed(a), Signed(b))
    BY DEF Computed, Power
  <2> QED BY <2>1, <2>2, SignedDivision
<1>18. Holds("remu", "REMU")
  <2>1. RegisterResult(Code.REMU, a, b) = (IF b = {} THEN a ELSE WordOf(Num(a) % Num(b)))
    BY <1>f, <1>g DEF RegisterResult
  <2>2. Computed("remu", a, b) = Rem(Num(a), Num(b))
    BY DEF Computed, Power
  <2> QED BY <2>1, <2>2, UnsignedDivision
<1> HIDE DEF Holds
<1>19. Holds(n, Operation[n])
  BY <1>1, <1>2, <1>3, <1>4, <1>5, <1>6, <1>7, <1>8, <1>9, <1>10, <1>11,
     <1>12, <1>13, <1>14, <1>15, <1>16, <1>17, <1>18, SMTT(60) DEF Operation
<1> QED BY <1>19 DEF Holds

-----------------------------------------------------------------------------
(* The instructions, one class after the other.                            *)

\* A hart as an instruction finds it.
Ready(s) == IsHart(s) /\ s.regs[0] = {}

\* The register ZERO is reset before an instruction.
LEMMA VisibleIs ==
    ASSUME NEW h, IsHart(h)
    PROVE  Visible(h) = Set(h, 0, {}) /\ Ready(Visible(h))
<1> DEFINE s == Visible(h)
<1>1. s = Set(h, 0, {})
  BY DEF Visible, Set
<1>2. /\ s = [h EXCEPT !.regs = [h.regs EXCEPT ![0] = {}]]
      /\ s.regs = [h.regs EXCEPT ![0] = {}] /\ s.pc = h.pc /\ s.mem = h.mem
      /\ s.trap = h.trap
  BY DEF Visible, IsHart
<1>3. h.regs \in [Registers -> Words] /\ 0 \in Registers /\ {} \in Words
  BY Width, SmallWords DEF IsHart
<1>4. s.regs \in [Registers -> Words] /\ s.regs[0] = {}
  BY <1>2, <1>3
<1>5. s \in [regs : [Registers -> Words], pc : Words,
             mem : [DOMAIN s.mem -> SUBSET (0 .. (Byte - 1))], trap : BOOLEAN]
  BY <1>2, <1>4 DEF IsHart
<1>6. \E n \in 0 .. (2 ^ W - 1) : DOMAIN s.mem = 0 .. n
  BY <1>2 DEF IsHart
<1> QED BY <1>1, <1>4, <1>5, <1>6 DEF Ready, IsHart

\* The parts of a hart.
LEMMA HartIs ==
    ASSUME NEW s, Ready(s)
    PROVE  /\ s.regs \in [Registers -> Words] /\ s.pc \in Words
           /\ s = [regs |-> s.regs, pc |-> s.pc, mem |-> s.mem, trap |-> s.trap]
BY DEF Ready, IsHart

\* A result in r and the next program counter.
Result(s, r, v, n) == [s EXCEPT !.regs[r] = v, !.pc = n]
Next4(s) == WordOf(Num(s.pc) + 4)

\* A result is written and the pc advanced.
LEMMA Written ==
    ASSUME NEW s, Ready(s), NEW r \in Registers, NEW v
    PROVE  Advance(Set(s, r, v)) = Result(s, r, v, Next4(s))
<1>1. s.pc \in Words
  BY HartIs
<1>2. Plus(s.pc, WordOf(4)) = WordOf(Num(s.pc) + 4)
  BY <1>1, PlusNumber
<1>3. Set(s, r, v).pc = s.pc
  BY HartIs DEF Set
<1>4. Advance(Set(s, r, v)) = [Set(s, r, v) EXCEPT !.pc = Plus(Set(s, r, v).pc, WordOf(4))]
  BY DEF Advance
<1>5. Advance(Set(s, r, v)) = [Set(s, r, v) EXCEPT !.pc = WordOf(Num(s.pc) + 4)]
  BY <1>2, <1>3, <1>4
<1> QED BY <1>5, HartIs DEF Set, Result, Next4

\* Only the pc is advanced.
LEMMA Moved ==
    ASSUME NEW s, Ready(s)
    PROVE  Advance(s) = [s EXCEPT !.pc = Next4(s)]
<1>1. s.pc \in Words
  BY HartIs
<1>2. Plus(s.pc, WordOf(4)) = WordOf(Num(s.pc) + 4)
  BY <1>1, PlusNumber
<1> QED BY <1>2 DEF Advance, Next4

\* The opcode finds its handler.
LEMMA Handlers ==
    ASSUME NEW h, IsHart(h), NEW i, Legal(i), NEW s, s = Visible(h),
           NEW ins, ins = Encode(i), NEW o, o = Table[i.name][1]
    PROVE  /\ o = 51 => Execute(h, ins) = RType(s, ins)
           /\ o = 19 => Execute(h, ins) = IRType(s, ins)
           /\ o = 3 => Execute(h, ins) = ILType(s, ins)
           /\ o = 35 => Execute(h, ins) = SType(s, ins)
           /\ o = 99 => Execute(h, ins) = BType(s, ins)
           /\ o = 111 => Execute(h, ins) = JType(s, ins)
           /\ o = 103 => Execute(h, ins) = IJType(s, ins)
           /\ o = 55 => Execute(h, ins) = LuiType(s, ins)
           /\ o = 23 => Execute(h, ins) = AuipcType(s, ins)
<1>1. OPCODE_TYPE(ins) = BitsOf(o)
  BY AllInstructionsDecode DEF FieldsDecode
<1>2. s = Set(h, 0, {})
  BY VisibleIs
<1> DEFINE codes == {51, 19, 3, 35, 99, 111, 103, 55, 23}
<1>3. ASSUME NEW n \in codes, NEW m \in codes, BitsOf(n) = BitsOf(m)
      PROVE  n = m
  <2>1. n \in 0 .. 1023 /\ m \in 0 .. 1023
    OBVIOUS
  <2>2. Below(BitsOf(n), 31) = n /\ Below(BitsOf(m), 31) = m
    BY <2>1, CodeNumber
  <2> QED BY <1>3, <2>2
<1>4. /\ R_TYPE = BitsOf(51) /\ IR_TYPE = BitsOf(19) /\ IL_TYPE = BitsOf(3)
      /\ S_TYPE = BitsOf(35) /\ B_TYPE = BitsOf(99) /\ J_TYPE = BitsOf(111)
      /\ IJ_TYPE = BitsOf(103) /\ LUI = BitsOf(55) /\ AUIPC = BitsOf(23)
  BY DEF R_TYPE, IR_TYPE, IL_TYPE, S_TYPE, B_TYPE, J_TYPE, IJ_TYPE, LUI, AUIPC
<1>5. CASE o = 51
  BY <1>1, <1>2, <1>3, <1>4, <1>5 DEF Execute
<1>6. CASE o = 19
  BY <1>1, <1>2, <1>3, <1>4, <1>6 DEF Execute
<1>7. CASE o = 3
  BY <1>1, <1>2, <1>3, <1>4, <1>7 DEF Execute
<1>8. CASE o = 35
  BY <1>1, <1>2, <1>3, <1>4, <1>8 DEF Execute
<1>9. CASE o = 99
  BY <1>1, <1>2, <1>3, <1>4, <1>9 DEF Execute
<1>10. CASE o = 111
  BY <1>1, <1>2, <1>3, <1>4, <1>10 DEF Execute
<1>11. CASE o = 103
  BY <1>1, <1>2, <1>3, <1>4, <1>11 DEF Execute
<1>12. CASE o = 55
  BY <1>1, <1>2, <1>3, <1>4, <1>12 DEF Execute
<1>13. CASE o = 23
  BY <1>1, <1>2, <1>3, <1>4, <1>13 DEF Execute
<1> QED BY <1>5, <1>6, <1>7, <1>8, <1>9, <1>10, <1>11, <1>12, <1>13

\* A hart with the instruction it executes.
Executing(h, s, i, ins) ==
    /\ IsHart(h) /\ s = Visible(h) /\ Emitted(i) /\ ins = Encode(i)

\* What is known of a hart and its instruction.
LEMMA Context ==
    ASSUME NEW h, NEW s, NEW i, NEW ins, Executing(h, s, i, ins)
    PROVE  /\ Ready(s) /\ Legal(i) /\ i.imm \in Int
           /\ i.rd \in Registers /\ i.rs1 \in Registers /\ i.rs2 \in Registers
           /\ s.regs[i.rs1] \in Words /\ s.regs[i.rs2] \in Words /\ s.pc \in Words
           /\ i.name \in DOMAIN Table
<1>1. Ready(s)
  BY VisibleIs DEF Executing
<1>2. /\ Legal(i) /\ i.rd \in Registers /\ i.rs1 \in Registers
      /\ i.rs2 \in Registers
  BY DEF Executing, Emitted
<1>3. i.imm \in Int /\ i.name \in DOMAIN Table
  BY <1>2 DEF Legal
<1>4. s.regs \in [Registers -> Words] /\ s.pc \in Words
  BY <1>1, HartIs
<1>5. s.regs[i.rs1] \in Words /\ s.regs[i.rs2] \in Words
  BY <1>2, <1>4
<1> QED BY <1>1, <1>2, <1>3, <1>4, <1>5

\* The results of the register and immediate instructions.
LEMMA RegisterInstruction ==
    ASSUME NEW h, NEW s, NEW i, NEW ins, Executing(h, s, i, ins),
           Table[i.name][1] = 51
    PROVE  Execute(h, ins) = Effect(s, i)
<1> DEFINE n == i.name
           a == s.regs[i.rs1]
           b == s.regs[i.rs2]
           f == Operation[n]
           func == R_FUNC(ins)
<1>0. /\ Ready(s) /\ Legal(i) /\ i.rd \in Registers /\ a \in Words /\ b \in Words
      /\ n \in DOMAIN Table
  BY Context
<1>1. Execute(h, ins) = RType(s, ins)
  BY <1>0, Handlers DEF Executing
<1>2. /\ RD(ins) = i.rd /\ RS1(ins) = i.rs1 /\ RS2(ins) = i.rs2
      /\ func = BitsOf(Table[n][2]) \cup Up(BitsOf(Table[n][3]), 4)
  <2>1. FieldsDecode(i)
    BY <1>0, AllInstructionsDecode
  <2> QED BY <2>1 DEF FieldsDecode, Executing
<1>3. /\ n \in DOMAIN Operation /\ f \in DOMAIN Funcs
      /\ Table[n][2] \in 0 .. 7 /\ Table[n][3] \in 0 .. 32
      /\ Table[n][2] + 16 * Table[n][3] = Funcs[f]
  <2>1. n \in Named(51)
    BY <1>0 DEF Named
  <2> QED BY <2>1, Operations
<1>4. func = Code[f] /\ func \in {Code[g] : g \in DOMAIN Code}
  <2>1. func = BitsOf(Funcs[f])
    BY <1>2, <1>3, FunctionCode, SMTT(30)
  <2> QED BY <1>3, <2>1, CodeIs
<1>5. RegisterResult(func, a, b) = WordOf(Computed(n, a, b))
  BY <1>0, <1>3, <1>4, Calculates
<1>6. RType(s, ins) = Advance(Set(s, i.rd, WordOf(Computed(n, a, b))))
  <2> HIDE DEF func, f
  <2> QED BY <1>2, <1>4, <1>5 DEF RType, func
<1>7. Effect(s, i) = Result(s, i.rd, WordOf(Computed(n, a, b)), Next4(s))
  BY DEF Effect, Result, Next4
<1> QED BY <1>0, <1>1, <1>6, <1>7, Written

\* An immediate and its word.
LEMMA Immediate ==
    ASSUME NEW i, Emitted(i), Table[i.name][1] # 51
    PROVE  Imm32(i.imm) \cap Bits = WordOf(i.imm)
<1> DEFINE n == i.imm
           o == Table[i.name][1]
           p == Power(31)
<1>0. n \in Int /\ Legal(i) /\ i.name \in DOMAIN Table
  BY DEF Emitted, Legal
<1>1. o \in {3, 19, 23, 35, 55, 99, 103, 111}
  BY <1>0, Entries
<1>2. p = 2147483648
  BY SMT DEF Power
<1>3. -p <= n /\ n < p
  <2>1. CASE o \in {3, 19, 35, 103}
    <3>1. n \in -(2 ^ 11) .. (2 ^ 11 - 1)
      BY <1>0, <2>1 DEF Legal
    <3> HIDE DEF n, p
    <3> QED BY <1>0, <1>2, <3>1, SMT
  <2>2. CASE o = 99
    <3>1. n \in -(2 ^ 12) .. (2 ^ 12 - 1)
      BY <1>0, <2>2 DEF Legal
    <3> HIDE DEF n, p
    <3> QED BY <1>0, <1>2, <3>1, SMT
  <2>3. CASE o = 111
    <3>1. n \in -(2 ^ 20) .. (2 ^ 20 - 1)
      BY <1>0, <2>3, SMT DEF Legal
    <3> HIDE DEF n, p
    <3> QED BY <1>0, <1>2, <3>1, SMT
  <2>4. CASE o \in {23, 55}
    <3>1. n % 2 ^ 12 = 0 /\ n \div 2 ^ 12 \in -(2 ^ 19) .. (2 ^ 19 - 1)
      BY <1>0, <2>4, SMT DEF Emitted, Legal
    <3> HIDE DEF n, p
    <3> QED BY <1>0, <1>2, <3>1, SMT
  <2> QED BY <1>1, <2>1, <2>2, <2>3, <2>4
<1> QED BY <1>0, <1>3, ImmediateWord

\* func3 is the lower part of a function code.
LEMMA LowCode ==
    ASSUME NEW f \in 0 .. 7, NEW g \in 0 .. 32
    PROVE  BitsOf(f + 16 * g) \cap 0 .. 2 = BitsOf(f)
<1> DEFINE v == BitsOf(f)
           y == BitsOf(g)
<1>1. BitsOf(f + 16 * g) = v \cup Up(y, 4)
  BY FunctionCode
<1>2. v \in SUBSET (0 .. 2)
  BY SmallBits
<1>3. y \in SUBSET (0 .. 30) /\ y \in SUBSET Int
  BY DEF BitsOf
<1> HIDE DEF v, y
<1>4. \A b \in Int : b \in Up(y, 4) <=> b - 4 \in y
  BY <1>3, UpBit
<1>5. \A b \in 0 .. 2 : b \notin Up(y, 4)
  BY <1>3, <1>4
<1>6. (v \cup Up(y, 4)) \cap 0 .. 2 = v
  BY <1>2, <1>5
<1> QED BY <1>1, <1>6 DEF v

\* FUNC is the lower part of R_FUNC.
LEMMA LowFunction ==
    ASSUME NEW ins PROVE R_FUNC(ins) \cap 0 .. 2 = FUNC(ins)
<1> DEFINE u == Down(ins \cap 12 .. 14, 12)
           v == Down(ins \cap 25 .. 31, 21)
<1>0. ins \cap 12 .. 14 \in SUBSET Int /\ ins \cap 25 .. 31 \in SUBSET Int
  OBVIOUS
<1>1. \A b \in Int : b \in u <=> b + 12 \in ins \cap 12 .. 14 /\ b >= 0
  BY <1>0, DownBit
<1>2. \A b \in Int : b \in v <=> b + 21 \in ins \cap 25 .. 31 /\ b >= 0
  BY <1>0, DownBit
<1>3. u \in SUBSET Int /\ v \in SUBSET Int
  BY <1>0, ShiftsAreSets
<1>4. R_FUNC(ins) = u \cup v /\ FUNC(ins) = u
  BY DEF R_FUNC, FUNC, Field
<1> HIDE DEF u, v
<1>5. \A b \in Int : b \in (u \cup v) \cap 0 .. 2 <=> b \in u
  BY <1>1, <1>2
<1> QED BY <1>3, <1>4, <1>5

\* I format without the shifts: no immediate looks like the code of a shift.
LEMMA ImmediateInstruction ==
    ASSUME NEW h, NEW s, NEW i, NEW ins, Executing(h, s, i, ins),
           Table[i.name][1] = 19, i.name \notin Shifts
    PROVE  Execute(h, ins) = Effect(s, i)
<1> DEFINE n == i.name
           a == s.regs[i.rs1]
           b == WordOf(i.imm)
           m == OfImmediate[n]
           f == Operation[m]
           func == FUNC(ins)
           t == Table[n][2]
<1>0. /\ Ready(s) /\ Legal(i) /\ i.rd \in Registers /\ a \in Words /\ b \in Words
      /\ n \in DOMAIN Table
  BY Context, WordBit
<1>1. Execute(h, ins) = IRType(s, ins)
  BY <1>0, Handlers DEF Executing
<1>2. /\ RD(ins) = i.rd /\ RS1(ins) = i.rs1 /\ func = BitsOf(t)
      /\ I_IMM(ins) = Imm32(i.imm)
  <2>1. FieldsDecode(i)
    BY <1>0, AllInstructionsDecode
  <2> QED BY <2>1 DEF FieldsDecode, Executing
<1>3. /\ m \in DOMAIN Operation /\ f \in {"ADD", "XOR", "OR", "AND", "SLT", "SLTU"}
      /\ t = Funcs[f] /\ t # 1 /\ t # 5 /\ f \in DOMAIN Funcs
  <2>1. n \in Named(19) \ Shifts
    BY <1>0 DEF Named
  <2>2. {"ADD", "XOR", "OR", "AND", "SLT", "SLTU"} \subseteq DOMAIN Funcs
    BY DEF Funcs
  <2>3. /\ m \in DOMAIN Operation /\ f \in {"ADD", "XOR", "OR", "AND", "SLT", "SLTU"}
        /\ t = Funcs[f] /\ t # 1 /\ t # 5
    BY <2>1, Operations
  <2> QED BY <2>2, <2>3
<1>4. t \in 0 .. 7
  BY <1>0, Entries
<1> HIDE DEF f, t, func, m
<1>5. func = Code[f]
  BY <1>2, <1>3, CodeIs
<1>6. ASSUME NEW k \in {1, 5}, NEW g \in 0 .. 32 PROVE R_FUNC(ins) # BitsOf(k + 16 * g)
  <2>1. SUFFICES ASSUME R_FUNC(ins) = BitsOf(k + 16 * g) PROVE FALSE
    OBVIOUS
  <2>2. func = BitsOf(k)
    <3>1. k \in 0 .. 7
      OBVIOUS
    <3>2. BitsOf(k + 16 * g) \cap 0 .. 2 = BitsOf(k)
      BY <3>1, LowCode
    <3> QED BY <2>1, <3>2, LowFunction DEF func
  <2>3. k \in 0 .. 1023 /\ t \in 0 .. 1023
    BY <1>4
  <2>4. Below(BitsOf(k), 31) = k /\ Below(BitsOf(t), 31) = t
    BY <2>3, CodeNumber
  <2> QED BY <1>2, <1>3, <2>2, <2>4
<1>7. R_FUNC(ins) # Code.SRA /\ R_FUNC(ins) # Code.SRL /\ R_FUNC(ins) # Code.SLL
  <2>1. Code.SRA = BitsOf(517) /\ Code.SRL = BitsOf(5) /\ Code.SLL = BitsOf(1)
    BY DEF Code, Funcs
  <2>2. 5 + 16 * 32 = 517 /\ 5 + 16 * 0 = 5 /\ 1 + 16 * 0 = 1
    OBVIOUS
  <2>3. 32 \in 0 .. 32 /\ 0 \in 0 .. 32 /\ 1 \in {1, 5} /\ 5 \in {1, 5}
    OBVIOUS
  <2>4. R_FUNC(ins) # BitsOf(5 + 16 * 32) /\ R_FUNC(ins) # BitsOf(5 + 16 * 0)
        /\ R_FUNC(ins) # BitsOf(1 + 16 * 0)
    BY <1>6, <2>3
  <2> QED BY <2>1, <2>2, <2>4
<1>8. RegisterResult(Code[f], a, b) = WordOf(Computed(m, a, b))
  BY <1>0, <1>3, Calculates DEF f
<1>9. I_IMM(ins) \cap Bits = b
  BY <1>2, Immediate DEF Executing
<1> HIDE DEF b
<1>10. IRType(s, ins) = Advance(Set(s, i.rd, RegisterResult(Code[f], a, b)))
  <2>1. FUNC(ins) \in {Code[g] : g \in {"ADD", "XOR", "OR", "AND", "SLT", "SLTU"}}
    BY <1>3, <1>5 DEF func
  <2> QED BY <1>2, <1>5, <1>7, <1>9, <2>1 DEF IRType, func
<1>11. Effect(s, i) = Result(s, i.rd, WordOf(Computed(m, a, b)), Next4(s))
  BY DEF Effect, Result, Next4, m, b
<1> QED BY <1>0, <1>1, <1>8, <1>10, <1>11, Written

\* SLLI, SRLI and SRAI.
LEMMA ShiftInstruction ==
    ASSUME NEW h, NEW s, NEW i, NEW ins, Executing(h, s, i, ins),
           Table[i.name][1] = 19, i.name \in Shifts
    PROVE  Execute(h, ins) = Effect(s, i)
<1> DEFINE n == i.name
           a == s.regs[i.rs1]
           b == WordOf(i.imm)
           k == i.imm
           m == OfImmediate[n]
           func == R_FUNC(ins)
<1>0. /\ Ready(s) /\ Legal(i) /\ i.rd \in Registers /\ a \in Words /\ b \in Words
      /\ n \in DOMAIN Table
  BY Context, WordBit
<1>1. Execute(h, ins) = IRType(s, ins)
  BY <1>0, Handlers DEF Executing
<1>2. /\ RD(ins) = i.rd /\ RS1(ins) = i.rs1 /\ RS2(ins) = k
      /\ func = BitsOf(Table[n][2]) \cup Up(BitsOf(Table[n][3]), 4)
  <2>1. FieldsDecode(i)
    BY <1>0, AllInstructionsDecode
  <2> QED BY <2>1 DEF FieldsDecode, Executing
<1>3. k \in 0 .. (W - 1) /\ k % W = k /\ k \in 0 .. 31
  <2>1. k \in 0 .. 31 /\ k < W
    BY <1>0 DEF Legal, Executing, Emitted
  <2> QED BY <2>1, Width
<1>4. Num(b) % W = k
  <2>1. Num(b) = k % Power(W)
    BY <1>3, NumOfWord
  <2>2. W <= Power(W) /\ Power(W) \in Nat
    <3>1. /\ Power(4) = 16 /\ Power(8) = 256 /\ Power(16) = 65536
          /\ Power(32) = 4294967296
      BY SMT DEF Power
    <3> QED BY <3>1, Width, SMT
  <2>3. k % Power(W) = k
    <3> DEFINE p == Power(W)
    <3>1. p \in Nat /\ k < p /\ k \in Nat
      BY <1>3, <2>2, Width
    <3> HIDE DEF p, k
    <3>2. k % p = k
      BY <3>1
    <3> QED BY <3>2 DEF p
  <2> QED BY <1>3, <2>1, <2>3
<1>5. \/ n = "slli" /\ Table[n][2] = 1 /\ Table[n][3] = 0
      \/ n = "srli" /\ Table[n][2] = 5 /\ Table[n][3] = 0
      \/ n = "srai" /\ Table[n][2] = 5 /\ Table[n][3] = 32
  BY SMTT(60) DEF Shifts, Table
<1>6. /\ OfImmediate["slli"] = "sll" /\ OfImmediate["srli"] = "srl"
      /\ OfImmediate["srai"] = "sra"
  BY DEF OfImmediate
<1>7. /\ Code.SRA = BitsOf(5) \cup Up(BitsOf(32), 4)
      /\ Code.SRL = BitsOf(5) \cup Up(BitsOf(0), 4)
      /\ Code.SLL = BitsOf(1) \cup Up(BitsOf(0), 4)
  <2>1. Code.SRA = BitsOf(517) /\ Code.SRL = BitsOf(5) /\ Code.SLL = BitsOf(1)
    BY DEF Code, Funcs
  <2>2. 5 + 16 * 32 = 517 /\ 5 + 16 * 0 = 5 /\ 1 + 16 * 0 = 1
    OBVIOUS
  <2>3. /\ BitsOf(5) \cup Up(BitsOf(32), 4) = BitsOf(5 + 16 * 32)
        /\ BitsOf(5) \cup Up(BitsOf(0), 4) = BitsOf(5 + 16 * 0)
        /\ BitsOf(1) \cup Up(BitsOf(0), 4) = BitsOf(1 + 16 * 0)
    <3>1. 5 \in 0 .. 7 /\ 1 \in 0 .. 7 /\ 0 \in 0 .. 32 /\ 32 \in 0 .. 32
      OBVIOUS
    <3> QED BY <3>1, FunctionCode
  <2> QED BY <2>1, <2>2, <2>3
<1>8. Code.SRA # Code.SRL /\ Code.SRA # Code.SLL /\ Code.SRL # Code.SLL
  <2>1. {"SRA", "SRL", "SLL"} \subseteq DOMAIN Funcs
    BY DEF Funcs
  <2> QED BY <2>1, CodesDiffer
<1>9. Effect(s, i) = Result(s, i.rd, WordOf(Computed(m, a, b)), Next4(s))
  BY DEF Effect, Result, Next4
<1> HIDE DEF k, b, func, m
<1>10. CASE n = "slli"
  <2>1. func = Code.SLL
    BY <1>2, <1>5, <1>7, <1>10
  <2>2. IRType(s, ins) = Advance(Set(s, i.rd, Up(a, k) \cap Bits))
    BY <1>2, <1>3, <1>8, <2>1 DEF IRType, func
  <2>3. Computed(m, a, b) = Num(a) * Power(k)
    <3>1. Computed("sll", a, b) = Num(a) * Power(Num(b) % W)
      BY DEF Computed, Power
    <3> QED BY <1>4, <1>6, <1>10, <3>1 DEF m
  <2>4. Up(a, k) \cap Bits = WordOf(Num(a) * Power(k))
    BY <1>0, <1>3, ShiftUp
  <2> QED BY <1>0, <1>1, <1>9, <2>2, <2>3, <2>4, Written
<1>11. CASE n = "srli"
  <2>1. func = Code.SRL
    BY <1>2, <1>5, <1>7, <1>11
  <2>2. IRType(s, ins) = Advance(Set(s, i.rd, Down(a, k)))
    BY <1>2, <1>3, <1>8, <2>1 DEF IRType, func
  <2>3. Computed(m, a, b) = Num(a) \div Power(k)
    <3>1. Computed("srl", a, b) = Num(a) \div Power(Num(b) % W)
      BY DEF Computed, Power
    <3> QED BY <1>4, <1>6, <1>11, <3>1 DEF m
  <2>4. Down(a, k) = WordOf(Num(a) \div Power(k))
    BY <1>0, <1>3, ShiftDown
  <2> QED BY <1>0, <1>1, <1>9, <2>2, <2>3, <2>4, Written
<1>12. CASE n = "srai"
  <2>1. func = Code.SRA
    BY <1>2, <1>5, <1>7, <1>12
  <2>2. IRType(s, ins) = Advance(Set(s, i.rd, DownSigned(a, k, W)))
    BY <1>2, <1>3, <1>8, <2>1 DEF IRType, func
  <2>3. Computed(m, a, b) = Signed(a) \div Power(k)
    <3>1. Computed("sra", a, b) = Signed(a) \div Power(Num(b) % W)
      BY DEF Computed, Power
    <3> QED BY <1>4, <1>6, <1>12, <3>1 DEF m
  <2>4. DownSigned(a, k, W) = WordOf(Signed(a) \div Power(k))
    BY <1>0, <1>3, ShiftDownSigned
  <2> QED BY <1>0, <1>1, <1>9, <2>2, <2>3, <2>4, Written
<1> QED BY <1>5, <1>10, <1>11, <1>12

\* The function codes of three bits, as the handlers name them.
LEMMA ThreeBits ==
    /\ BitsOf(0) = {} /\ BitsOf(1) = {0} /\ BitsOf(2) = {1} /\ BitsOf(3) = {0, 1}
    /\ BitsOf(4) = {2} /\ BitsOf(5) = {2, 0} /\ BitsOf(6) = {2, 1}
    /\ BitsOf(7) = {2, 1, 0}
<1>1. ASSUME NEW n \in 0 .. 7
      PROVE  /\ BitsOf(n) \in SUBSET (0 .. 2)
             /\ 0 \in BitsOf(n) <=> n % 2 = 1
             /\ 1 \in BitsOf(n) <=> (n \div 2) % 2 = 1
             /\ 2 \in BitsOf(n) <=> (n \div 4) % 2 = 1
  <2>1. BitsOf(n) \in SUBSET (0 .. 2)
    BY SmallBits
  <2>2. /\ 0 \in BitsOf(n) <=> (n \div Power(0)) % 2 = 1
        /\ 1 \in BitsOf(n) <=> (n \div Power(1)) % 2 = 1
        /\ 2 \in BitsOf(n) <=> (n \div Power(2)) % 2 = 1
    BY BitIs
  <2>3. Power(0) = 1 /\ Power(1) = 2 /\ Power(2) = 4
    BY DEF Power
  <2>4. n \div 1 = n
    OBVIOUS
  <2> QED BY <2>1, <2>2, <2>3, <2>4
<1> DEFINE Is(n, v) == BitsOf(n) = v
<1>2. ASSUME NEW n \in 0 .. 7, NEW v \in SUBSET (0 .. 2),
             0 \in v <=> n % 2 = 1,
             1 \in v <=> (n \div 2) % 2 = 1,
             2 \in v <=> (n \div 4) % 2 = 1
      PROVE  Is(n, v)
  <2> DEFINE w == BitsOf(n)
  <2>1. w \in SUBSET (0 .. 2)
    BY <1>1
  <2>2. (0 \in w <=> 0 \in v) /\ (1 \in w <=> 1 \in v) /\ (2 \in w <=> 2 \in v)
    BY <1>1, <1>2
  <2> HIDE DEF w
  <2>3. \A b \in 0 .. 2 : b = 0 \/ b = 1 \/ b = 2
    OBVIOUS
  <2>4. \A b \in 0 .. 2 : b \in w <=> b \in v
    BY <2>2, <2>3
  <2>5. w = v
    BY <2>1, <2>4
  <2> QED BY <2>5 DEF w
<1> HIDE DEF Is
<1>3. Is(0, {})
  BY <1>2
<1>4. Is(1, {0})
  BY <1>2
<1>5. Is(2, {1})
  BY <1>2
<1>6. Is(3, {0, 1})
  BY <1>2
<1>7. Is(4, {2})
  BY <1>2
<1>8. Is(5, {2, 0})
  BY <1>2
<1>9. Is(6, {2, 1})
  BY <1>2
<1>10. Is(7, {2, 1, 0})
  BY <1>2
<1> QED BY <1>3, <1>4, <1>5, <1>6, <1>7, <1>8, <1>9, <1>10 DEF Is

\* The conditions of the branches.
LEMMA Branches ==
    ASSUME NEW a \in Words, NEW b \in Words
    PROVE  /\ Branch(BitsOf(0), a, b) = Taken("beq", a, b)
           /\ Branch(BitsOf(1), a, b) = Taken("bne", a, b)
           /\ Branch(BitsOf(4), a, b) = Taken("blt", a, b)
           /\ Branch(BitsOf(5), a, b) = Taken("bge", a, b)
           /\ Branch(BitsOf(6), a, b) = Taken("bltu", a, b)
           /\ Branch(BitsOf(7), a, b) = Taken("bgeu", a, b)
<1>0. /\ Num(a) \in Int /\ Num(b) \in Int /\ Signed(a) \in Int /\ Signed(b) \in Int
      /\ (Num(a) = Num(b)) <=> a = b
      /\ (Signed(a) >= Signed(b)) <=> ~(Signed(a) < Signed(b))
      /\ (Num(a) >= Num(b)) <=> ~(Num(a) < Num(b))
  <2>1. Num(a) \in Int /\ Num(b) \in Int /\ Signed(a) \in Int /\ Signed(b) \in Int
    BY NumIs, SignedIs
  <2>2. Num(a) = Num(b) => a = b
    BY WordOfNum
  <2> QED BY <2>1, <2>2
<1>1. Branch(BitsOf(0), a, b) = Taken("beq", a, b)
  <2>1. Branch({}, a, b) = (a = b)
    BY DEF Branch
  <2>2. Taken("beq", a, b) = (Num(a) = Num(b))
    BY DEF Taken
  <2> QED BY <1>0, <2>1, <2>2, ThreeBits
<1>2. Branch(BitsOf(1), a, b) = Taken("bne", a, b)
  <2>1. Branch({0}, a, b) = (a # b)
    BY DEF Branch
  <2>2. Taken("bne", a, b) = (Num(a) # Num(b))
    BY DEF Taken
  <2> QED BY <1>0, <2>1, <2>2, ThreeBits
<1>3. Branch(BitsOf(4), a, b) = Taken("blt", a, b)
  <2>1. Branch({2}, a, b) = (Signed(a) < Signed(b))
    BY DEF Branch
  <2>2. Taken("blt", a, b) = (Signed(a) < Signed(b))
    BY DEF Taken
  <2> QED BY <2>1, <2>2, ThreeBits
<1>4. Branch(BitsOf(5), a, b) = Taken("bge", a, b)
  <2>1. Branch({2, 0}, a, b) = (Signed(a) >= Signed(b))
    BY DEF Branch
  <2>2. Taken("bge", a, b) = ~(Signed(a) < Signed(b))
    BY DEF Taken
  <2> QED BY <1>0, <2>1, <2>2, ThreeBits
<1>5. Branch(BitsOf(6), a, b) = Taken("bltu", a, b)
  <2>1. Branch({2, 1}, a, b) = (Num(a) < Num(b))
    BY DEF Branch
  <2>2. Taken("bltu", a, b) = (Num(a) < Num(b))
    BY DEF Taken
  <2> QED BY <2>1, <2>2, ThreeBits
<1>6. Branch(BitsOf(7), a, b) = Taken("bgeu", a, b)
  <2>1. Branch({2, 1, 0}, a, b) = (Num(a) >= Num(b))
    BY DEF Branch
  <2>2. Taken("bgeu", a, b) = ~(Num(a) < Num(b))
    BY DEF Taken
  <2> QED BY <1>0, <2>1, <2>2, ThreeBits
<1> QED BY <1>1, <1>2, <1>3, <1>4, <1>5, <1>6

\* The jumps, branches and upper immediates.
LEMMA BranchNames ==
    ASSUME NEW n \in DOMAIN Table, Table[n][1] = 99, NEW t, t = Table[n][2]
    PROVE  \/ (n = "beq" /\ t = 0) \/ (n = "bne" /\ t = 1) \/ (n = "blt" /\ t = 4)
           \/ (n = "bge" /\ t = 5) \/ (n = "bltu" /\ t = 6) \/ (n = "bgeu" /\ t = 7)
<1>1. n \in {"beq", "bne", "blt", "bge", "bltu", "bgeu"}
  BY SMTT(60) DEF Table
<1>2. /\ Table["beq"][2] = 0 /\ Table["bne"][2] = 1 /\ Table["blt"][2] = 4
      /\ Table["bge"][2] = 5 /\ Table["bltu"][2] = 6 /\ Table["bgeu"][2] = 7
  BY SMTT(60) DEF Table
<1>3. n = "beq" => t = 0
  BY <1>2
<1>4. n = "bne" => t = 1
  BY <1>2
<1>5. n = "blt" => t = 4
  BY <1>2
<1>6. n = "bge" => t = 5
  BY <1>2
<1>7. n = "bltu" => t = 6
  BY <1>2
<1>8. n = "bgeu" => t = 7
  BY <1>2
<1> QED BY <1>1, <1>3, <1>4, <1>5, <1>6, <1>7, <1>8

\* BEQ to BGEU.
LEMMA BranchInstruction ==
    ASSUME NEW h, NEW s, NEW i, NEW ins, Executing(h, s, i, ins),
           Table[i.name][1] = 99
    PROVE  Execute(h, ins) = Effect(s, i)
<1> DEFINE n == i.name
           a == s.regs[i.rs1]
           b == s.regs[i.rs2]
           t == Table[n][2]
           func == BitsOf(t)
           target == Num(s.pc) + i.imm
<1>0. /\ Ready(s) /\ Legal(i) /\ a \in Words /\ b \in Words /\ s.pc \in Words
      /\ n \in DOMAIN Table /\ i.imm \in Int
  BY Context
<1>1. Execute(h, ins) = BType(s, ins)
  BY <1>0, Handlers DEF Executing
<1>2. /\ RS1(ins) = i.rs1 /\ RS2(ins) = i.rs2 /\ FUNC(ins) = func
      /\ B_IMM(ins) = Imm32(i.imm)
  <2>1. FieldsDecode(i)
    BY <1>0, AllInstructionsDecode
  <2> QED BY <2>1 DEF FieldsDecode, Executing
<1>3. \/ (n = "beq" /\ t = 0) \/ (n = "bne" /\ t = 1) \/ (n = "blt" /\ t = 4)
      \/ (n = "bge" /\ t = 5) \/ (n = "bltu" /\ t = 6) \/ (n = "bgeu" /\ t = 7)
  BY <1>0, BranchNames
<1>4. Effect(s, i) = [s EXCEPT !.pc = IF Taken(n, a, b) THEN WordOf(target)
                                                        ELSE Next4(s)]
  BY DEF Effect, Next4
<1>5. Plus(s.pc, B_IMM(ins) \cap Bits) = WordOf(target)
  <2>1. Imm32(i.imm) \cap Bits = WordOf(i.imm)
    BY Immediate DEF Executing
  <2>2. Plus(s.pc, WordOf(i.imm)) = WordOf(target)
    BY <1>0, PlusNumber
  <2> QED BY <1>2, <2>1, <2>2
<1> HIDE DEF func, target, t, n
<1>6. Branch(func, a, b) = Taken(n, a, b)
  BY <1>0, <1>3, Branches DEF func
<1>7. FUNC(ins) \notin {{1}, {1, 0}}
  BY <1>2, <1>3, ThreeBits DEF func
<1>8. BType(s, ins) = [s EXCEPT !.pc = IF Taken(n, a, b) THEN WordOf(target)
                                                         ELSE Next4(s)]
  <2>1. Advance(s) = [s EXCEPT !.pc = Next4(s)]
    BY <1>0, Moved
  <2> QED BY <1>2, <1>5, <1>6, <1>7, <2>1 DEF BType
<1> QED BY <1>1, <1>4, <1>8

\* JAL.
LEMMA JumpInstruction ==
    ASSUME NEW h, NEW s, NEW i, NEW ins, Executing(h, s, i, ins),
           Table[i.name][1] = 111
    PROVE  Execute(h, ins) = Effect(s, i)
<1> DEFINE target == WordOf(Num(s.pc) + i.imm)
<1>0. /\ Ready(s) /\ Legal(i) /\ s.pc \in Words /\ i.imm \in Int
      /\ i.rd \in Registers
  BY Context
<1>1. Execute(h, ins) = JType(s, ins)
  BY <1>0, Handlers DEF Executing
<1>2. RD(ins) = i.rd /\ J_IMM(ins) = Imm32(i.imm)
  <2>1. FieldsDecode(i)
    BY <1>0, AllInstructionsDecode
  <2> QED BY <2>1 DEF FieldsDecode, Executing
<1>3. Effect(s, i) = Result(s, i.rd, Next4(s), target)
  BY DEF Effect, Result, Next4
<1>4. Plus(s.pc, J_IMM(ins) \cap Bits) = target
  <2>1. Imm32(i.imm) \cap Bits = WordOf(i.imm)
    BY Immediate DEF Executing
  <2>2. Plus(s.pc, WordOf(i.imm)) = target
    BY <1>0, PlusNumber
  <2> QED BY <1>2, <2>1, <2>2
<1>5. Plus(s.pc, WordOf(4)) = Next4(s)
  BY <1>0, PlusNumber DEF Next4
<1> HIDE DEF target
<1>6. JType(s, ins) = Result(s, i.rd, Next4(s), target)
  BY <1>0, <1>2, <1>4, <1>5, HartIs DEF JType, Result
<1> QED BY <1>1, <1>3, <1>6

\* LUI and AUIPC.
LEMMA UpperInstruction ==
    ASSUME NEW h, NEW s, NEW i, NEW ins, Executing(h, s, i, ins),
           Table[i.name][1] \in {55, 23}
    PROVE  Execute(h, ins) = Effect(s, i)
<1> DEFINE v == WordOf(i.imm)
           target == WordOf(Num(s.pc) + i.imm)
<1>0. /\ Ready(s) /\ Legal(i) /\ s.pc \in Words /\ i.imm \in Int
      /\ i.rd \in Registers
  BY Context
<1>1. RD(ins) = i.rd /\ U_IMM(ins) = Imm32(i.imm)
  <2>1. FieldsDecode(i)
    BY <1>0, AllInstructionsDecode
  <2> QED BY <2>1 DEF FieldsDecode, Executing
<1>2. U_IMM(ins) \cap Bits = v
  BY <1>1, Immediate DEF Executing
<1>3. Plus(s.pc, U_IMM(ins) \cap Bits) = target
  <2>1. Plus(s.pc, WordOf(i.imm)) = target
    BY <1>0, PlusNumber
  <2> QED BY <1>2, <2>1
<1>4. CASE Table[i.name][1] = 55
  <2>1. Execute(h, ins) = LuiType(s, ins)
    BY <1>0, <1>4, Handlers DEF Executing
  <2>2. Effect(s, i) = Result(s, i.rd, v, Next4(s))
    BY <1>4 DEF Effect, Result, Next4
  <2>3. LuiType(s, ins) = Advance(Set(s, i.rd, v))
    BY <1>1, <1>2 DEF LuiType
  <2> QED BY <1>0, <2>1, <2>2, <2>3, Written
<1>5. CASE Table[i.name][1] = 23
  <2>1. Execute(h, ins) = AuipcType(s, ins)
    BY <1>0, <1>5, Handlers DEF Executing
  <2>2. Effect(s, i) = Result(s, i.rd, target, Next4(s))
    BY <1>5 DEF Effect, Result, Next4
  <2>3. AuipcType(s, ins) = Advance(Set(s, i.rd, target))
    BY <1>1, <1>3 DEF AuipcType
  <2> QED BY <1>0, <2>1, <2>2, <2>3, Written
<1> QED BY <1>4, <1>5

\* The address of a jump, load or store.
LEMMA AddressIs ==
    ASSUME NEW s, NEW i, Ready(s), Emitted(i)
    PROVE  /\ Num(WordOf(Num(s.regs[i.rs1]) + i.imm)) = Address(s, i)
           /\ Address(s, i) \in Nat /\ Address(s, i) < Power(W)
<1> DEFINE x == Num(s.regs[i.rs1]) + i.imm
<1>1. i.rs1 \in Registers /\ i.imm \in Int
  BY DEF Emitted, Legal
<1>2. s.regs[i.rs1] \in Words
  BY <1>1, HartIs
<1>3. x \in Int
  BY <1>1, <1>2, NumIs
<1>4. Address(s, i) = x % Power(W)
  BY Zenon DEF Address, Power
<1> HIDE DEF x
<1>5. Num(WordOf(x)) = x % Power(W)
  BY <1>3, NumOfWord
<1>6. Power(W) \in Nat /\ Power(W) > 0
  BY Width, PowerNat
<1>7. x % Power(W) \in Nat /\ x % Power(W) < Power(W)
  BY <1>3, <1>6, Division
<1> QED BY <1>4, <1>5, <1>7 DEF x

\* JALR, where rd and rs1 differ and the target is even.
LEMMA LinkInstruction ==
    ASSUME NEW h, NEW s, NEW i, NEW ins, Executing(h, s, i, ins),
           Table[i.name][1] = 103, Comparable(s, i)
    PROVE  Execute(h, ins) = Effect(s, i)
<1> DEFINE a == s.regs[i.rs1]
           target == WordOf(Num(a) + i.imm)
<1>0. /\ Ready(s) /\ Legal(i) /\ s.pc \in Words /\ i.imm \in Int /\ a \in Words
      /\ i.rd \in Registers /\ i.rs1 \in Registers /\ i.name \in DOMAIN Table
  BY Context
<1>1. Execute(h, ins) = IJType(s, ins)
  BY <1>0, Handlers DEF Executing
<1>2. RD(ins) = i.rd /\ RS1(ins) = i.rs1 /\ I_IMM(ins) = Imm32(i.imm)
  <2>1. FieldsDecode(i)
    BY <1>0, AllInstructionsDecode
  <2>2. i.name \notin Shifts
    BY <1>0, Entries
  <2> QED BY <2>1, <2>2 DEF FieldsDecode, Executing
<1>3. Plus(s.pc, WordOf(4)) = Next4(s)
  BY <1>0, PlusNumber DEF Next4
<1>4. Plus(a, I_IMM(ins) \cap Bits) = target
  <2>1. Imm32(i.imm) \cap Bits = WordOf(i.imm)
    BY Immediate DEF Executing
  <2>2. Plus(a, WordOf(i.imm)) = target
    BY <1>0, PlusNumber
  <2> QED BY <1>2, <2>1, <2>2
<1>5. i.rd # i.rs1 /\ Address(s, i) % 2 = 0
  <2>1. i.name = "jalr"
    BY <1>0, SMTT(60) DEF Table
  <2> QED BY <2>1 DEF Comparable
<1>6. target \in Words /\ Num(target) = Address(s, i)
  BY <1>0, WordBit, AddressIs DEF Executing
<1> HIDE DEF target
<1>7. 0 \notin target
  <2>1. 0 \in 0 .. (W - 1) /\ W \in 0 .. 32
    BY Width
  <2>2. 0 \in target <=> (Below(target, W) \div Power(0)) % 2 = 1
    BY <2>1, BitOf
  <2>3. Below(target, W) = Address(s, i) /\ Address(s, i) \in Nat
    BY <1>6, NumIs
  <2>4. Address(s, i) \div 1 = Address(s, i)
    BY <2>3
  <2> QED BY <1>5, <2>2, <2>3, <2>4, PowerNone
<1>8. target \ {0} = target /\ WordOf(Num(target)) = target
  BY <1>6, <1>7, WordOfNum
<1>9. Effect(s, i) = Result(s, i.rd, Next4(s), target)
  <2>1. Effect(s, i) = Result(s, i.rd, Next4(s), WordOf(Num(target \ {0})))
    BY DEF Effect, Result, Next4, target
  <2> QED BY <1>8, <2>1
<1>10. Set(s, i.rd, Next4(s)).regs[i.rs1] = a
  BY <1>0, <1>5, HartIs DEF Set
<1>11. IJType(s, ins) = [Set(s, i.rd, Next4(s)) EXCEPT !.pc = target]
  BY <1>2, <1>3, <1>4, <1>10 DEF IJType
<1>12. [Set(s, i.rd, Next4(s)) EXCEPT !.pc = target] = Result(s, i.rd, Next4(s), target)
  BY <1>0, HartIs DEF Set, Result
<1> QED BY <1>1, <1>9, <1>11, <1>12

\* Loads and stores.
LEMMA LoadNames ==
    ASSUME NEW n \in DOMAIN Table, Table[n][1] = 3
    PROVE  /\ n \in {"lb", "lh", "lw", "lbu", "lhu"}
           /\ n = "lb" => Table[n][2] = 0 /\ Size(n) = 1
           /\ n = "lh" => Table[n][2] = 1 /\ Size(n) = 2
           /\ n = "lw" => Table[n][2] = 2 /\ Size(n) = 4
           /\ n = "lbu" => Table[n][2] = 4 /\ Size(n) = 1
           /\ n = "lhu" => Table[n][2] = 5 /\ Size(n) = 2
<1>1. n \in {"lb", "lh", "lw", "lbu", "lhu"}
  BY SMTT(60) DEF Table
<1>2. /\ Table["lb"][2] = 0 /\ Table["lh"][2] = 1 /\ Table["lw"][2] = 2
      /\ Table["lbu"][2] = 4 /\ Table["lhu"][2] = 5
  BY SMTT(60) DEF Table
<1>3. /\ Size("lb") = 1 /\ Size("lh") = 2 /\ Size("lw") = 4 /\ Size("lbu") = 1
      /\ Size("lhu") = 2
  BY DEF Size
<1> QED BY <1>1, <1>2, <1>3

LEMMA StoreNames ==
    ASSUME NEW n \in DOMAIN Table, Table[n][1] = 35
    PROVE  /\ n \in {"sb", "sh", "sw"}
           /\ n = "sb" => Table[n][2] = 0 /\ Size(n) = 1
           /\ n = "sh" => Table[n][2] = 1 /\ Size(n) = 2
           /\ n = "sw" => Table[n][2] = 2 /\ Size(n) = 4
<1>1. n \in {"sb", "sh", "sw"}
  BY SMTT(60) DEF Table
<1>2. Table["sb"][2] = 0 /\ Table["sh"][2] = 1 /\ Table["sw"][2] = 2
  BY SMTT(60) DEF Table
<1>3. Size("sb") = 1 /\ Size("sh") = 2 /\ Size("sw") = 4
  BY DEF Size
<1> QED BY <1>1, <1>2, <1>3

\* A load finds bytes.
LEMMA LoadedBytes ==
    ASSUME NEW s, NEW i, Ready(s), Emitted(i), Accessible(s, i),
           Size(i.name) \in {1, 2, 4}
    PROVE  Stored(s.mem, Address(s, i), Size(i.name))
<1> DEFINE a == Address(s, i)
           n == Size(i.name)
<1>1. a \in Nat /\ a + n - 1 \in DOMAIN s.mem
  BY AddressIs DEF Accessible
<1>2. PICK e \in 0 .. (2 ^ W - 1) : DOMAIN s.mem = 0 .. e
  BY DEF Ready, IsHart
<1>3. s.mem \in [DOMAIN s.mem -> SUBSET (0 .. (Byte - 1))]
  BY DEF Ready, IsHart
<1>4. e \in Int
  BY <1>2
<1> HIDE DEF a, n
<1>5. n \in Nat
  BY DEF n
<1>6. ASSUME NEW k \in 0 .. (n - 1) PROVE s.mem[a + k] \in SUBSET (0 .. (Byte - 1))
  <2>1. a + k \in DOMAIN s.mem
    BY <1>1, <1>2, <1>4, <1>5
  <2> QED BY <1>3, <2>1
<1> QED BY <1>6 DEF Stored, a, n

\* LB to LHU.
LEMMA LoadInstruction ==
    ASSUME NEW h, NEW s, NEW i, NEW ins, Executing(h, s, i, ins),
           Table[i.name][1] = 3, Comparable(s, i)
    PROVE  Execute(h, ins) = Effect(s, i)
<1> DEFINE n == i.name
           a == Address(s, i)
           l == Size(n)
           w == Bytes(s.mem, a, l)
           v == Value(s.mem, a, l)
           func == FUNC(ins)
           t == Table[n][2]
           r == IF n \in {"lb", "lh"} THEN AsSigned(v, l) ELSE v
           Loaded(u) == Advance(Set(s, i.rd, u))
<1>0. /\ Ready(s) /\ Legal(i) /\ i.imm \in Int /\ s.regs[i.rs1] \in Words
      /\ i.rd \in Registers /\ n \in DOMAIN Table /\ Emitted(i)
  BY Context DEF Executing
<1>1. Execute(h, ins) = ILType(s, ins)
  BY <1>0, Handlers DEF Executing
<1>2. /\ RD(ins) = i.rd /\ RS1(ins) = i.rs1 /\ func = BitsOf(t)
      /\ I_IMM(ins) = Imm32(i.imm)
  <2>1. FieldsDecode(i)
    BY <1>0, AllInstructionsDecode
  <2>2. n \notin Shifts
    BY <1>0, Entries
  <2> QED BY <2>1, <2>2 DEF FieldsDecode, Executing
<1>3. Num(Plus(s.regs[i.rs1], I_IMM(ins) \cap Bits)) = a
  <2>1. Imm32(i.imm) \cap Bits = WordOf(i.imm)
    BY Immediate DEF Executing
  <2>2. Plus(s.regs[i.rs1], WordOf(i.imm)) = WordOf(Num(s.regs[i.rs1]) + i.imm)
    BY <1>0, PlusNumber
  <2> QED BY <1>0, <1>2, <2>1, <2>2, AddressIs
<1>4. /\ n \in {"lb", "lh", "lw", "lbu", "lhu"}
      /\ n = "lb" => t = 0 /\ l = 1
      /\ n = "lh" => t = 1 /\ l = 2
      /\ n = "lw" => t = 2 /\ l = 4
      /\ n = "lbu" => t = 4 /\ l = 1
      /\ n = "lhu" => t = 5 /\ l = 2
  BY <1>0, LoadNames
<1>5. Stored(s.mem, a, l)
  <2>1. Accessible(s, i)
    BY <1>0 DEF Comparable, Named
  <2> QED BY <1>0, <1>4, <2>1, LoadedBytes
<1>6. Effect(s, i) = Result(s, i.rd, WordOf(r), Next4(s))
  BY DEF Effect, Result, Next4
<1> HIDE DEF n, a, l, func, t
<1>7. w \in Words /\ v = Num(w) /\ WordOf(v) = w /\ \A b \in w : b < l * Byte
  BY <1>5, BytesBit, ValueIs, WordOfNum
<1> HIDE DEF w, v
<1>8. n \in {"lb", "lh"} => SignExtended(w, l) = WordOf(r)
  <2> SUFFICES ASSUME n \in {"lb", "lh"} PROVE SignExtended(w, l) = WordOf(AsSigned(v, l))
    OBVIOUS
  <2>1. l \in {1, 2}
    BY <1>4
  <2> QED BY <1>7, <2>1, SignExtendedIs
<1>9. n \notin {"lb", "lh"} => w = WordOf(r)
  BY <1>7
<1> HIDE DEF r
<1>10. /\ func = {} => ILType(s, ins) = Loaded(SignExtended(Bytes(s.mem, a, 1), 1))
       /\ func = {0} => ILType(s, ins) = Loaded(SignExtended(Bytes(s.mem, a, 2), 2))
       /\ func = {1} => ILType(s, ins) = Loaded(Bytes(s.mem, a, 4))
       /\ func = {2} => ILType(s, ins) = Loaded(Bytes(s.mem, a, 1))
       /\ func = {2, 0} => ILType(s, ins) = Loaded(Bytes(s.mem, a, 2))
  BY <1>2, <1>3 DEF ILType, func
<1> HIDE DEF Loaded
<1>11. ILType(s, ins) = Loaded(WordOf(r))
  <2>1. CASE n = "lb"
    BY <1>2, <1>4, <1>8, <1>10, <2>1, ThreeBits DEF w
  <2>2. CASE n = "lh"
    BY <1>2, <1>4, <1>8, <1>10, <2>2, ThreeBits DEF w
  <2>3. CASE n = "lw"
    BY <1>2, <1>4, <1>9, <1>10, <2>3, ThreeBits DEF w
  <2>4. CASE n = "lbu"
    BY <1>2, <1>4, <1>9, <1>10, <2>4, ThreeBits DEF w
  <2>5. CASE n = "lhu"
    BY <1>2, <1>4, <1>9, <1>10, <2>5, ThreeBits DEF w
  <2> QED BY <1>4, <2>1, <2>2, <2>3, <2>4, <2>5
<1> QED BY <1>0, <1>1, <1>6, <1>11, Written DEF Loaded

\* The memory after a store of n bytes of b at a.
StoredMemory(m, a, n, b) ==
    [x \in DOMAIN m |->
        LET k == x - a
        IN  IF k \in 0 .. (n - 1)
            THEN {j \in 0 .. (Byte - 1) : j + k * Byte \in b}
            ELSE m[x]]

LEMMA StoredBytes ==
    ASSUME NEW m, NEW a \in Nat, NEW n \in {1, 2, 4}, NEW b \in Words,
           DOMAIN m \subseteq Nat
    PROVE  PutBytes(m, a, n, b) = StoredMemory(m, a, n, b)
<1> DEFINE Put(x) == IF x \in a .. (a + n - 1)
                     THEN Down(b, (x - a) * Byte) \cap 0 .. (Byte - 1)
                     ELSE m[x]
           Ought(x) == LET k == x - a
                       IN  IF k \in 0 .. (n - 1)
                           THEN {j \in 0 .. (Byte - 1) : j + k * Byte \in b}
                           ELSE m[x]
<1>0. Byte \in Nat /\ b \in SUBSET Int
  BY ByteIs, BitsAre
<1>1. ASSUME NEW x \in DOMAIN m PROVE Put(x) = Ought(x)
  <2>0. x \in Nat /\ n \in Nat
    BY <1>1
  <2> DEFINE k == x - a
             q == k * Byte
  <2>1. k \in Int /\ q \in Int
    BY <1>0, <2>0
  <2>2. x \in a .. (a + n - 1) <=> k \in 0 .. (n - 1)
    BY <2>0
  <2>3. ASSUME NEW j \in 0 .. (Byte - 1)
        PROVE  j \in Down(b, q) <=> j + q \in b
    <3> HIDE DEF q
    <3> QED BY <1>0, <2>1, <2>3, DownBit
  <2>4. Down(b, q) \cap 0 .. (Byte - 1) = {j \in 0 .. (Byte - 1) : j + q \in b}
    <3> HIDE DEF q
    <3> QED BY <2>3
  <2> HIDE DEF q
  <2>5. Put(x) = IF k \in 0 .. (n - 1) THEN Down(b, q) \cap 0 .. (Byte - 1) ELSE m[x]
    BY <2>2 DEF q
  <2>6. Ought(x) = IF k \in 0 .. (n - 1) THEN {j \in 0 .. (Byte - 1) : j + q \in b}
                                         ELSE m[x]
    BY DEF q
  <2> QED BY <2>4, <2>5, <2>6
<1>2. PutBytes(m, a, n, b) = [x \in DOMAIN m |-> Put(x)]
  BY DEF PutBytes
<1> HIDE DEF Put, Ought
<1>3. PutBytes(m, a, n, b) = [x \in DOMAIN m |-> Ought(x)]
  BY <1>1, <1>2
<1> QED BY <1>3 DEF Ought, StoredMemory

\* SB, SH and SW.
LEMMA StoreInstruction ==
    ASSUME NEW h, NEW s, NEW i, NEW ins, Executing(h, s, i, ins),
           Table[i.name][1] = 35, Comparable(s, i)
    PROVE  Execute(h, ins) = Effect(s, i)
<1> DEFINE n == i.name
           a == Address(s, i)
           l == Size(n)
           b == s.regs[i.rs2]
           func == FUNC(ins)
           t == Table[n][2]
           new == StoredMemory(s.mem, a, l, b)
           Put(z) == Advance([s EXCEPT !.mem = PutBytes(s.mem, a, z, b)])
<1>0. /\ Ready(s) /\ Legal(i) /\ i.imm \in Int /\ s.regs[i.rs1] \in Words
      /\ b \in Words /\ n \in DOMAIN Table /\ Emitted(i)
  BY Context DEF Executing
<1>1. Execute(h, ins) = SType(s, ins)
  BY <1>0, Handlers DEF Executing
<1>2. /\ RS1(ins) = i.rs1 /\ RS2(ins) = i.rs2 /\ func = BitsOf(t)
      /\ S_IMM(ins) = Imm32(i.imm)
  <2>1. FieldsDecode(i)
    BY <1>0, AllInstructionsDecode
  <2> QED BY <2>1 DEF FieldsDecode, Executing
<1>3. Num(Plus(s.regs[i.rs1], S_IMM(ins) \cap Bits)) = a
  <2>1. Imm32(i.imm) \cap Bits = WordOf(i.imm)
    BY Immediate DEF Executing
  <2>2. Plus(s.regs[i.rs1], WordOf(i.imm)) = WordOf(Num(s.regs[i.rs1]) + i.imm)
    BY <1>0, PlusNumber
  <2> QED BY <1>0, <1>2, <2>1, <2>2, AddressIs
<1>4. /\ n \in {"sb", "sh", "sw"}
      /\ n = "sb" => t = 0 /\ l = 1
      /\ n = "sh" => t = 1 /\ l = 2
      /\ n = "sw" => t = 2 /\ l = 4
  BY <1>0, StoreNames
<1>5. a \in Nat /\ DOMAIN s.mem \subseteq Nat
  <2>1. \E e \in 0 .. (2 ^ W - 1) : DOMAIN s.mem = 0 .. e
    BY <1>0 DEF Ready, IsHart
  <2> QED BY <1>0, <2>1, AddressIs
<1>6. Effect(s, i) = [s EXCEPT !.pc = Next4(s), !.mem = new]
  BY DEF Effect, Next4, StoredMemory
<1> HIDE DEF n, a, l, func, t
<1>7. l \in {1, 2, 4} /\ PutBytes(s.mem, a, l, b) = new
  <2>1. l \in {1, 2, 4}
    BY <1>4
  <2> QED BY <1>0, <1>5, <2>1, StoredBytes
<1> HIDE DEF new
<1>8. /\ func = {} => SType(s, ins) = Put(1)
      /\ func = {0} => SType(s, ins) = Put(2)
      /\ func = {1} => SType(s, ins) = Put(4)
  BY <1>2, <1>3 DEF SType, func
<1>9. SType(s, ins) = Put(l)
  <2> HIDE DEF Put
  <2>1. CASE n = "sb"
    BY <1>2, <1>4, <1>8, <2>1, ThreeBits
  <2>2. CASE n = "sh"
    BY <1>2, <1>4, <1>8, <2>2, ThreeBits
  <2>3. CASE n = "sw"
    BY <1>2, <1>4, <1>8, <2>3, ThreeBits
  <2> QED BY <1>4, <2>1, <2>2, <2>3
<1>10. SType(s, ins) = Advance([s EXCEPT !.mem = new])
  BY <1>7, <1>9
<1>11. Advance([s EXCEPT !.mem = new]) = [s EXCEPT !.pc = Next4(s), !.mem = new]
  <2>1. [s EXCEPT !.mem = new].pc = s.pc
    BY <1>0, HartIs
  <2>2. Plus(s.pc, WordOf(4)) = Next4(s)
    BY <1>0, Context, PlusNumber DEF Next4
  <2>3. Advance([s EXCEPT !.mem = new]) =
            [[s EXCEPT !.mem = new] EXCEPT !.pc = Next4(s)]
    BY <2>1, <2>2 DEF Advance
  <2> QED BY <1>0, <2>3, HartIs
<1> QED BY <1>1, <1>6, <1>10, <1>11

-----------------------------------------------------------------------------
(* All instructions together, and what a program does with them.           *)

\* Every handler has the effect of its instruction.
LEMMA EveryInstruction ==
    ASSUME NEW h, NEW s, NEW i, NEW ins, Executing(h, s, i, ins), Comparable(s, i)
    PROVE  Execute(h, ins) = Effect(s, i)
<1>1. Table[i.name][1] \in {3, 19, 23, 35, 51, 55, 99, 103, 111}
  BY Context, Entries
<1> QED BY <1>1, RegisterInstruction, ImmediateInstruction, ShiftInstruction,
           BranchInstruction, JumpInstruction, LinkInstruction,
           UpperInstruction, LoadInstruction, StoreInstruction

\* The effects leave a hart.
LEMMA ResultIsHart ==
    ASSUME NEW s, IsHart(s), NEW r \in Registers, NEW v \in Words, NEW n \in Words
    PROVE  IsHart(Result(s, r, v, n)) /\ IsHart([s EXCEPT !.pc = n])
<1> DEFINE t == Result(s, r, v, n)
           u == [s EXCEPT !.pc = n]
<1>1. /\ s.regs \in [Registers -> Words] /\ s.trap \in BOOLEAN
      /\ s.mem \in [DOMAIN s.mem -> SUBSET (0 .. (Byte - 1))]
      /\ s = [regs |-> s.regs, pc |-> s.pc, mem |-> s.mem, trap |-> s.trap]
      /\ \E z \in 0 .. (2 ^ W - 1) : DOMAIN s.mem = 0 .. z
  BY DEF IsHart
<1>2. t = [regs |-> [s.regs EXCEPT ![r] = v], pc |-> n, mem |-> s.mem,
           trap |-> s.trap]
  <2>1. /\ s.regs \in [Registers -> Words]
        /\ s = [regs |-> s.regs, pc |-> s.pc, mem |-> s.mem, trap |-> s.trap]
    BY <1>1
  <2> DEFINE q == [s.regs EXCEPT ![r] = v]
  <2>2. t = [[s EXCEPT !.regs = q] EXCEPT !.pc = n]
    BY <2>1 DEF Result
  <2> HIDE DEF q, t
  <2>3. [s EXCEPT !.regs = q] = [regs |-> q, pc |-> s.pc, mem |-> s.mem, trap |-> s.trap]
    BY <2>1
  <2>4. t = [regs |-> q, pc |-> n, mem |-> s.mem, trap |-> s.trap]
    BY <2>2, <2>3
  <2> QED BY <2>4 DEF q
<1>3. u = [regs |-> s.regs, pc |-> n, mem |-> s.mem, trap |-> s.trap]
  BY <1>1
<1>4. [s.regs EXCEPT ![r] = v] \in [Registers -> Words]
  BY <1>1
<1> HIDE DEF t, u
<1>5. IsHart(t)
  BY <1>1, <1>2, <1>4 DEF IsHart
<1>6. IsHart(u)
  BY <1>1, <1>3 DEF IsHart
<1> QED BY <1>5, <1>6 DEF t, u

\* The effect of an instruction leaves a hart.
LEMMA EffectIsHart ==
    ASSUME NEW s, Ready(s), NEW i, Emitted(i) PROVE IsHart(Effect(s, i))
<1> DEFINE n == i.name
           o == Table[n][1]
           e == i.imm
           next == Num(s.pc) + 4
           target == Num(s.pc) + e
           v == Value(s.mem, Address(s, i), Size(n))
           a == Address(s, i)
           new == StoredMemory(s.mem, a, Size(n), s.regs[i.rs2])
<1>0. /\ IsHart(s) /\ i.rd \in Registers /\ n \in DOMAIN Table
      /\ \A x : WordOf(x) \in Words
  BY WordBit DEF Ready, Emitted, Legal
<1>1. o \in {3, 19, 23, 35, 51, 55, 99, 103, 111}
  BY <1>0, Entries
<1>2. CASE o = 35
  <2>1. Effect(s, i) = [s EXCEPT !.pc = WordOf(next), !.mem = new]
    BY <1>2 DEF Effect, StoredMemory
  <2>2. /\ s.regs \in [Registers -> Words] /\ s.trap \in BOOLEAN
        /\ s.mem \in [DOMAIN s.mem -> SUBSET (0 .. (Byte - 1))]
        /\ s = [regs |-> s.regs, pc |-> s.pc, mem |-> s.mem, trap |-> s.trap]
        /\ \E z \in 0 .. (2 ^ W - 1) : DOMAIN s.mem = 0 .. z
    BY <1>0 DEF IsHart
  <2>3. new \in [DOMAIN s.mem -> SUBSET (0 .. (Byte - 1))] /\ DOMAIN new = DOMAIN s.mem
    <3> DEFINE New(x) == LET k == x - a
                         IN  IF k \in 0 .. (Size(n) - 1)
                             THEN {j \in 0 .. (Byte - 1) : j + k * Byte \in s.regs[i.rs2]}
                             ELSE s.mem[x]
    <3>1. new = [x \in DOMAIN s.mem |-> New(x)]
      BY DEF StoredMemory
    <3>2. ASSUME NEW x \in DOMAIN s.mem PROVE New(x) \in SUBSET (0 .. (Byte - 1))
      <4>1. s.mem[x] \in SUBSET (0 .. (Byte - 1))
        BY <2>2
      <4> QED BY <4>1
    <3> HIDE DEF New, new
    <3> QED BY <3>1, <3>2
  <2> HIDE DEF new
  <2>4. Effect(s, i) = [regs |-> s.regs, pc |-> WordOf(next), mem |-> new,
                        trap |-> s.trap]
    BY <2>1, <2>2
  <2> DEFINE t == Effect(s, i)
  <2>5. t.regs = s.regs /\ t.pc = WordOf(next) /\ t.mem = new /\ t.trap = s.trap
    BY <2>4
  <2> QED BY <1>0, <2>2, <2>3, <2>4, <2>5 DEF IsHart
<1>3. CASE o = 99
  <2>1. PICK x : Effect(s, i) = [s EXCEPT !.pc = WordOf(x)]
    BY <1>3 DEF Effect
  <2> QED BY <1>0, <2>1, ResultIsHart
<1>4. CASE o \notin {35, 99}
  <2>1. \E x, y : Effect(s, i) = Result(s, i.rd, WordOf(x), WordOf(y))
    <3>1. CASE o = 51
      <4> DEFINE x == Computed(n, s.regs[i.rs1], s.regs[i.rs2])
                 y == next
      <4>1. Effect(s, i) = Result(s, i.rd, WordOf(x), WordOf(y))
        BY <3>1 DEF Effect, Result
      <4> HIDE DEF x, y
      <4> QED BY <4>1
    <3>2. CASE o = 19
      <4> DEFINE x == Computed(OfImmediate[n], s.regs[i.rs1], WordOf(e))
                 y == next
      <4>1. Effect(s, i) = Result(s, i.rd, WordOf(x), WordOf(y))
        BY <3>2 DEF Effect, Result
      <4> HIDE DEF x, y
      <4> QED BY <4>1
    <3>3. CASE o = 3
      <4> DEFINE x == IF n \in {"lb", "lh"} THEN AsSigned(v, Size(n)) ELSE v
                 y == next
      <4>1. Effect(s, i) = Result(s, i.rd, WordOf(x), WordOf(y))
        BY <3>3 DEF Effect, Result
      <4> HIDE DEF x, y
      <4> QED BY <4>1
    <3>4. CASE o = 111
      <4> DEFINE x == next
                 y == target
      <4>1. Effect(s, i) = Result(s, i.rd, WordOf(x), WordOf(y))
        BY <3>4 DEF Effect, Result
      <4> HIDE DEF x, y
      <4> QED BY <4>1
    <3>5. CASE o = 103
      <4> DEFINE x == next
                 y == Num(WordOf(Num(s.regs[i.rs1]) + e) \ {0})
      <4>1. Effect(s, i) = Result(s, i.rd, WordOf(x), WordOf(y))
        BY <3>5 DEF Effect, Result
      <4> HIDE DEF x, y
      <4> QED BY <4>1
    <3>6. CASE o = 55
      <4> DEFINE x == e
                 y == next
      <4>1. Effect(s, i) = Result(s, i.rd, WordOf(x), WordOf(y))
        BY <3>6 DEF Effect, Result
      <4> HIDE DEF x, y
      <4> QED BY <4>1
    <3>7. CASE o = 23
      <4> DEFINE x == target
                 y == next
      <4>1. Effect(s, i) = Result(s, i.rd, WordOf(x), WordOf(y))
        BY <3>7 DEF Effect, Result
      <4> HIDE DEF x, y
      <4> QED BY <4>1
    <3> QED BY <1>1, <1>4, <3>1, <3>2, <3>3, <3>4, <3>5, <3>6, <3>7
  <2> QED BY <1>0, <2>1, ResultIsHart
<1> QED BY <1>2, <1>3, <1>4

\* The instructions of the samples are instructions of the instance.
LEMMA SamplesAreEmitted == ASSUME NEW i \in Samples PROVE Emitted(i)
<1> DEFINE n == i.name
           o == Table[n][1]
           e == i.imm
           Twice == {2 * x : x \in Immediates}
           Upper == {4096 * x : x \in Immediates}
<1>1. /\ Registers \subseteq 0 .. 31 /\ 0 \in Registers /\ 1 \in Registers
      /\ \A x \in Immediates : x \in Int /\ -2048 <= x /\ x <= 2047
      /\ W \in Nat /\ W <= 32 /\ W > 0
  <2>1. 2 ^ 11 = 2048
    OBVIOUS
  <2> QED BY <2>1, Width, IsaAssumption, SMTT(30)
<1>2. /\ Table["jal"][1] = 111 /\ Table["lui"][1] = 55 /\ Table["auipc"][1] = 23
      /\ {"jal", "lui", "auipc"} \subseteq DOMAIN Table
      /\ Shifts \subseteq DOMAIN Table
  BY SMTT(60) DEF Table, Shifts
<1>3. /\ i.rd \in Registers /\ i.rs1 \in Registers /\ i.rs2 \in Registers
      /\ \/ n \in Named(51) /\ e = 0
         \/ n \in Named(19) \ Shifts /\ e \in Immediates
         \/ n \in Shifts /\ e \in 0 .. (W - 1)
         \/ n \in Named(3) \cup Named(103) /\ e \in Immediates
         \/ n \in Named(35) /\ e \in Immediates
         \/ n \in Named(99) /\ e \in Twice
         \/ n = "jal" /\ e \in Twice
         \/ n \in {"lui", "auipc"} /\ e \in Upper
  BY <1>1 DEF Samples
<1>4. n \in DOMAIN Table /\ (n \in Shifts => o = 19)
  <2>1. n \in DOMAIN Table
    BY <1>2, <1>3 DEF Named
  <2> QED BY <2>1, Entries
<1> HIDE DEF n, e
<1>5. ASSUME n \in Shifts => e \in 0 .. (W - 1),
             o \in {3, 19, 35, 103} => -2048 <= e /\ e <= 2047,
             o \in {99, 111} => e % 2 = 0 /\ -4096 <= e /\ e <= 4095,
             o \in {23, 55} => /\ e % 4096 = 0
                               /\ -2048 <= e \div 4096 /\ e \div 4096 <= 2047,
             e \in Int
      PROVE  Emitted(i)
  <2>1. 2 ^ 11 = 2048 /\ 2 ^ 12 = 4096 /\ 2 ^ 19 = 524288 /\ 2 ^ 20 = 1048576
    BY SMT
  <2>2. n \in Shifts => e \in 0 .. 31 /\ e < W
    BY <1>1, <1>5
  <2>3. Legal(i)
    <3>1. o \in {3, 19, 35, 103} => e \in -(2 ^ 11) .. (2 ^ 11 - 1)
      BY <1>5, <2>1, SMT
    <3>2. o = 99 => e \in -(2 ^ 12) .. (2 ^ 12 - 1)
      BY <1>5, <2>1, SMT
    <3>3. o = 111 => e \in -(2 ^ 20) .. (2 ^ 20 - 1)
      BY <1>5, <2>1, SMT
    <3>4. /\ o \in {23, 55} => e % 2 ^ 12 = 0
          /\ o \in {99, 111} => e % 2 = 0
      BY <1>5, <2>1, SMT
    <3>5. i.rd \in 0 .. 31 /\ i.rs1 \in 0 .. 31 /\ i.rs2 \in 0 .. 31
      <4>1. Registers \subseteq 0 .. 31
        BY <1>1
      <4>2. i.rd \in Registers /\ i.rs1 \in Registers /\ i.rs2 \in Registers
        BY <1>3
      <4> QED BY <4>1, <4>2
    <3>6. e \in Int
      BY <1>5
    <3> HIDE DEF o
    <3>7. o = Table[i.name][1] /\ n = i.name /\ e = i.imm
      BY DEF o, n, e
    <3> QED BY <1>4, <2>2, <3>1, <3>2, <3>3, <3>4, <3>5, <3>6, <3>7 DEF Legal
  <2> QED BY <1>1, <1>3, <1>5, <2>1, <2>2, <2>3, SMT DEF Emitted, n, e
<1>6. CASE n \in Named(51) /\ e = 0
  BY <1>4, <1>5, <1>6 DEF Named
<1>7. CASE n \in Shifts /\ e \in 0 .. (W - 1)
  BY <1>1, <1>4, <1>5, <1>7
<1>8. CASE e \in Immediates /\ n \notin Shifts /\ o \in {3, 19, 35, 103}
  BY <1>1, <1>5, <1>8
<1>9. CASE o \in {99, 111} /\ e \in Twice
  <2>1. PICK x \in Immediates : e = 2 * x
    BY <1>9
  <2>2. e % 2 = 0 /\ -4096 <= e /\ e <= 4095 /\ e \in Int
    BY <1>1, <2>1
  <2> QED BY <1>4, <1>5, <1>9, <2>2
<1>10. CASE o \in {23, 55} /\ e \in Upper
  <2>1. PICK x \in Immediates : e = 4096 * x
    BY <1>10
  <2>2. e % 4096 = 0 /\ e \div 4096 = x /\ e \in Int
    BY <1>1, <2>1
  <2>3. x \in Int /\ -2048 <= x /\ x <= 2047
    BY <1>1
  <2> QED BY <1>4, <1>5, <1>10, <2>2, <2>3
<1>11. \/ n \in Named(51) /\ e = 0
       \/ n \in Shifts /\ e \in 0 .. (W - 1)
       \/ e \in Immediates /\ n \notin Shifts /\ o \in {3, 19, 35, 103}
       \/ o \in {99, 111} /\ e \in Twice
       \/ o \in {23, 55} /\ e \in Upper
  BY <1>2, <1>3, <1>4 DEF Named
<1> QED BY <1>6, <1>7, <1>8, <1>9, <1>10, <1>11

\* An instruction leaves a hart.
LEMMA Stays == ASSUME NEW h, IsHart(h), NEW i, Emitted(i), Comparable(Visible(h), i)
               PROVE  IsHart(Execute(h, Encode(i)))
<1> DEFINE s == Visible(h)
           ins == Encode(i)
<1>1. Executing(h, s, i, ins) /\ Ready(s)
  BY VisibleIs DEF Executing
<1>2. Execute(h, ins) = Effect(s, i)
  BY <1>1, EveryInstruction
<1> QED BY <1>1, <1>2, EffectIsHart

\* A program leaves a hart in a state of a hart.
LEMMA AlwaysHart == Spec => []IsHart(hart)
<1>1. Init => IsHart(hart)
  BY IsaAssumption DEF Init
<1>2. IsHart(hart) /\ [Next]_hart => IsHart(hart)'
  <2> SUFFICES ASSUME IsHart(hart), [Next]_hart PROVE IsHart(hart')
    BY DEF IsHart
  <2>1. CASE Next
    <3>1. PICK i \in Path : Turn(i)
      BY <2>1 DEF Next
    <3>2. Emitted(i)
      BY IsaAssumption
    <3> QED BY <3>1, <3>2, Stays DEF Turn
  <2>2. CASE UNCHANGED hart
    BY <2>2
  <2> QED BY <2>1, <2>2
<1> QED BY <1>1, <1>2, PTL DEF Spec

\* A turn of vcore_run (cpu.c:517-563) leaves in registers, pc and memory what
\* the architecture calls for: every base and M instruction (cpu.c:133-446), for
\* every state of a hart, all registers, and all operands of the instance.  The
\* width of a register is any that Isa allows.
THEOREM InstructionsAreRiscv == Spec => []ExecutesRiscv
<1>1. IsHart(hart) => ExecutesRiscv
  <2> SUFFICES ASSUME IsHart(hart), NEW i \in Samples, Comparable(Visible(hart), i)
               PROVE  AsRiscv(i, Encode(i))
    BY DEF ExecutesRiscv, Encoded
  <2>1. Executing(hart, Visible(hart), i, Encode(i))
    BY SamplesAreEmitted DEF Executing
  <2> QED BY <2>1, EveryInstruction DEF AsRiscv
<1> QED BY <1>1, AlwaysHart, PTL
=============================================================================
