-------------------------------- MODULE Isa --------------------------------
(***************************************************************************)
(* The RISC-V unprivileged instruction set, as the guest's compiler knows  *)
(* it: the encoding of an instruction and its effect, in numbers.  It is   *)
(* the reference Instructions is compared with.  An instruction is a       *)
(* record of its name, registers and immediate.                            *)
(***************************************************************************)
EXTENDS Instructions

CONSTANTS Registers,   \* register numbers that programs use, 0 among them
          Immediates,  \* immediates of I, S and B instructions
          Begin,       \* states of a hart that a program may begin in
          Path         \* the instructions of that program

VARIABLE hart  \* registers, pc, mem, trap: as in Instructions

\* opcode, func3 and func7 of the register and immediate instructions.
Table == [add |-> <<51, 0, 0>>,   sub |-> <<51, 0, 32>>,  sll |-> <<51, 1, 0>>,
          slt |-> <<51, 2, 0>>,   sltu |-> <<51, 3, 0>>,  xor |-> <<51, 4, 0>>,
          srl |-> <<51, 5, 0>>,   sra |-> <<51, 5, 32>>,  or |-> <<51, 6, 0>>,
          and |-> <<51, 7, 0>>,   mul |-> <<51, 0, 1>>,   mulh |-> <<51, 1, 1>>,
          mulhsu |-> <<51, 2, 1>>, mulhu |-> <<51, 3, 1>>, div |-> <<51, 4, 1>>,
          divu |-> <<51, 5, 1>>,  rem |-> <<51, 6, 1>>,   remu |-> <<51, 7, 1>>,
          addi |-> <<19, 0, 0>>,  slti |-> <<19, 2, 0>>,  sltiu |-> <<19, 3, 0>>,
          xori |-> <<19, 4, 0>>,  ori |-> <<19, 6, 0>>,   andi |-> <<19, 7, 0>>,
          slli |-> <<19, 1, 0>>,  srli |-> <<19, 5, 0>>,  srai |-> <<19, 5, 32>>,
          lb |-> <<3, 0, 0>>,     lh |-> <<3, 1, 0>>,     lw |-> <<3, 2, 0>>,
          lbu |-> <<3, 4, 0>>,    lhu |-> <<3, 5, 0>>,
          sb |-> <<35, 0, 0>>,    sh |-> <<35, 1, 0>>,    sw |-> <<35, 2, 0>>,
          beq |-> <<99, 0, 0>>,   bne |-> <<99, 1, 0>>,   blt |-> <<99, 4, 0>>,
          bge |-> <<99, 5, 0>>,   bltu |-> <<99, 6, 0>>,  bgeu |-> <<99, 7, 0>>,
          jalr |-> <<103, 0, 0>>, jal |-> <<111, 0, 0>>,
          lui |-> <<55, 0, 0>>,   auipc |-> <<23, 0, 0>>]

Named(opcode) == {n \in DOMAIN Table : Table[n][1] = opcode}
Shifts == {"slli", "srli", "srai"}

(* Where the formats put an immediate, a set of its 32 bits.               *)
EncodeI(imm) == Up(imm \cap 0 .. 11, 20)
EncodeS(imm) == Up(imm \cap 0 .. 4, 7) \cup Up(imm \cap 5 .. 11, 20)
EncodeB(imm) == Up(imm \cap 1 .. 4, 7) \cup Up(imm \cap 5 .. 10, 20)
                    \cup Down(imm \cap {11}, 4) \cup Up(imm \cap {12}, 19)
EncodeU(imm) == imm \cap 12 .. 31
EncodeJ(imm) == Up(imm \cap 1 .. 10, 20) \cup Up(imm \cap {11}, 9)
                    \cup (imm \cap 12 .. 19) \cup Up(imm \cap {20}, 11)

SignExtend(imm, n) == (imm \cap 0 .. n)
                          \cup (IF n \in imm THEN n .. 31 ELSE {})

\* The bits of an S or B instruction that hold no immediate.
NotStore == 0 .. 6 \cup 12 .. 24

\* The 32 bits of a small number.
Imm32(n) == BitsOf(n) \cup (IF n < 0 THEN {31} ELSE {})

Encode(i) ==
    LET opcode == Table[i.name][1]
        imm == Imm32(i.imm)
        rd == Up(BitsOf(i.rd), 7)
        rs1 == Up(BitsOf(i.rs1), 15)
        rs2 == Up(BitsOf(i.rs2), 20)
        head == BitsOf(opcode) \cup Up(BitsOf(Table[i.name][2]), 12)
        func7 == Up(BitsOf(Table[i.name][3]), 25)
    IN  CASE opcode = 51 -> head \cup func7 \cup rd \cup rs1 \cup rs2
          [] i.name \in Shifts -> head \cup func7 \cup rd \cup rs1 \cup EncodeI(imm)
          [] opcode \in {3, 19, 103} /\ i.name \notin Shifts ->
                 head \cup rd \cup rs1 \cup EncodeI(imm)
          [] opcode = 35 -> head \cup rs1 \cup rs2 \cup EncodeS(imm)
          [] opcode = 99 -> head \cup rs1 \cup rs2 \cup EncodeB(imm)
          [] opcode \in {23, 55} -> head \cup rd \cup EncodeU(imm)
          [] opcode = 111 -> head \cup rd \cup EncodeJ(imm)

-----------------------------------------------------------------------------
(* The effect of an instruction, in numbers.                               *)

Signum(x) == IF x < 0 THEN -1 ELSE IF x > 0 THEN 1 ELSE 0

\* The quotient and remainder of division towards zero: the remainder has the
\* sign of the dividend and is smaller than the divisor.
IsDivision(x, y, q, r) == /\ x = y * q + r
                          /\ Signum(r) \in {0, Signum(x)}
                          /\ r * Signum(r) < y * Signum(y)
Around(x) == LET m == x * Signum(x) IN -m .. m
Div(x, y) == IF y = 0 THEN -1
             ELSE CHOOSE q \in Around(x) : IsDivision(x, y, q, x - y * q)
Rem(x, y) == IF y = 0 THEN x ELSE x - y * Div(x, y)

Sum(w) == MapThenSumSet(LAMBDA i : 2 ^ i, w)
BitWise(f(_, _), a, b) == Sum({j \in Bits : f(j \in a, j \in b)})

\* The value of a byte, half word or word in memory.
Value(m, a, n) == MapThenSumSet(LAMBDA k : Sum(m[a + k]) * 2 ^ (Byte * k),
                                0 .. (n - 1))
AsSigned(v, n) == IF v >= 2 ^ (n * Byte - 1) THEN v - 2 ^ (n * Byte) ELSE v

\* What a register or immediate instruction (without its i) leaves in rd.
Computed(name, a, b) ==
    LET x == Signed(a)  y == Signed(b)  ux == Num(a)  uy == Num(b)
        k == uy % W
    IN  CASE name = "add" -> x + y
          [] name = "sub" -> x - y
          [] name = "and" -> BitWise(LAMBDA p, q : p /\ q, a, b)
          [] name = "or"  -> BitWise(LAMBDA p, q : p \/ q, a, b)
          [] name = "xor" -> BitWise(LAMBDA p, q : p # q, a, b)
          [] name = "sll" -> ux * 2 ^ k
          [] name = "srl" -> ux \div 2 ^ k
          [] name = "sra" -> x \div 2 ^ k
          [] name = "slt" -> IF x < y THEN 1 ELSE 0
          [] name = "sltu" -> IF ux < uy THEN 1 ELSE 0
          [] name = "mul" -> x * y
          [] name = "mulh" -> (x * y) \div 2 ^ W
          [] name = "mulhsu" -> (x * uy) \div 2 ^ W
          [] name = "mulhu" -> (ux * uy) \div 2 ^ W
          [] name = "div" -> Div(x, y)
          [] name = "divu" -> Div(ux, uy)
          [] name = "rem" -> Rem(x, y)
          [] name = "remu" -> Rem(ux, uy)

OfImmediate == [addi |-> "add", slti |-> "slt", sltiu |-> "sltu",
                xori |-> "xor", ori |-> "or", andi |-> "and",
                slli |-> "sll", srli |-> "srl", srai |-> "sra"]

Taken(name, a, b) ==
    CASE name = "beq"  -> Num(a) = Num(b)
      [] name = "bne"  -> Num(a) # Num(b)
      [] name = "blt"  -> Signed(a) < Signed(b)
      [] name = "bge"  -> ~(Signed(a) < Signed(b))
      [] name = "bltu" -> Num(a) < Num(b)
      [] name = "bgeu" -> ~(Num(a) < Num(b))

Size(name) == CASE name \in {"lb", "lbu", "sb"} -> 1
                [] name \in {"lh", "lhu", "sh"} -> 2
                [] name \in {"lw", "sw"} -> 4

\* Where a load or store accesses memory; programs keep it aligned and within.
Address(s, i) == (Num(s.regs[i.rs1]) + i.imm) % 2 ^ W
Accessible(s, i) == /\ Address(s, i) % Size(i.name) = 0
                    /\ Address(s, i) + Size(i.name) - 1 \in DOMAIN s.mem

Effect(s, i) ==
    LET opcode == Table[i.name][1]
        a == s.regs[i.rs1]  b == s.regs[i.rs2]
        next == Num(s.pc) + 4
        target == Num(s.pc) + i.imm
        To(rd, v, pc) == [s EXCEPT !.regs[rd] = WordOf(v), !.pc = WordOf(pc)]
    IN  CASE opcode = 51 -> To(i.rd, Computed(i.name, a, b), next)
          [] opcode = 19 ->
                 To(i.rd, Computed(OfImmediate[i.name], a, WordOf(i.imm)), next)
          [] opcode = 3 ->
                 LET v == Value(s.mem, Address(s, i), Size(i.name))
                 IN  To(i.rd, IF i.name \in {"lb", "lh"}
                              THEN AsSigned(v, Size(i.name)) ELSE v, next)
          [] opcode = 35 ->
                 [s EXCEPT !.pc = WordOf(next),
                           !.mem = [x \in DOMAIN @ |->
                               LET k == x - Address(s, i)
                               IN  IF k \in 0 .. (Size(i.name) - 1)
                                   THEN {j \in 0 .. (Byte - 1) : j + k * Byte \in b}
                                   ELSE @[x]]]
          [] opcode = 99 ->
                 [s EXCEPT !.pc = WordOf(IF Taken(i.name, a, b) THEN target
                                                                ELSE next)]
          [] opcode = 111 -> To(i.rd, next, target)
          [] opcode = 103 -> To(i.rd, next, Num(WordOf(Num(a) + i.imm) \ {0}))
          [] opcode = 55 -> To(i.rd, i.imm, next)
          [] opcode = 23 -> To(i.rd, target, next)

-----------------------------------------------------------------------------
(* Properties.                                                             *)

Samples ==
    LET All(names, rd, rs2, imms) ==
            [name : names, rd : rd, rs1 : Registers, rs2 : rs2, imm : imms]
        Any == Registers
        Twice == {2 * n : n \in Immediates}
        Upper == {4096 * n : n \in Immediates}
    IN  All(Named(51), {1}, Any, {0})
            \cup All(Named(19) \ Shifts, Any, {0}, Immediates)
            \cup All(Shifts, {1}, {0}, 0 .. (W - 1))
            \cup All(Named(3) \cup Named(103), Any, {0}, Immediates)
            \cup All(Named(35), {0}, Any, Immediates)
            \cup All(Named(99), {0}, Any, Twice)
            \cup All({"jal"}, Any, {0}, Twice)
            \cup All({"lui", "auipc"}, Any, {0}, Upper)

\* An instruction with its operands in the ranges of its format.
Legal(i) ==
    /\ i.name \in DOMAIN Table
    /\ i.rd \in 0 .. 31 /\ i.rs1 \in 0 .. 31 /\ i.rs2 \in 0 .. 31
    /\ i.imm \in Int
    /\ LET opcode == Table[i.name][1]
       IN  /\ i.name \in Shifts => i.imm \in 0 .. 31
           /\ opcode \in {3, 19, 35, 103} => i.imm \in -(2 ^ 11) .. (2 ^ 11 - 1)
           /\ opcode = 99 => i.imm \in -(2 ^ 12) .. (2 ^ 12 - 1)
           /\ opcode = 111 => i.imm \in -(2 ^ 20) .. (2 ^ 20 - 1)
           /\ opcode \in {99, 111} => i.imm % 2 = 0
           /\ opcode \in {23, 55} => i.imm % 2 ^ 12 = 0

\* An instruction on the registers of the instance, and of its width.
Emitted(i) ==
    /\ Legal(i)
    /\ i.rd \in Registers /\ i.rs1 \in Registers /\ i.rs2 \in Registers
    /\ i.name \in Shifts => i.imm < W
    /\ Table[i.name][1] \in {23, 55} => i.imm \div 2 ^ 12 \in -(2 ^ 19) .. (2 ^ 19 - 1)

\* The states of a hart: its memory begins at 0 and ends in the address space.
IsHart(s) ==
    /\ s \in [regs : [Registers -> Words], pc : Words,
              mem : [DOMAIN s.mem -> SUBSET (0 .. (Byte - 1))], trap : BOOLEAN]
    /\ \E n \in 0 .. (2 ^ W - 1) : DOMAIN s.mem = 0 .. n

Visible(s) == [s EXCEPT !.regs[0] = {}]

\* What is left out: loads and stores outside of memory, and the two things in
\* which JALR differs (see JalrIsRiscv).
Comparable(s, i) ==
    /\ i.name \in Named(3) \cup Named(35) => Accessible(s, i)
    /\ i.name = "jalr" => i.rd # i.rs1 /\ Address(s, i) % 2 = 0

ASSUME IsaAssumption ==
    /\ W \in {4, 8, 16, 32}
    /\ {0, 1} \subseteq Registers /\ Registers \subseteq 0 .. 31
    /\ Immediates \subseteq -(2 ^ 11) .. (2 ^ 11 - 1)
    /\ \A s \in Begin : IsHart(s)
    /\ \A i \in Path : Emitted(i)

Init == hart \in Begin

\* The hart executes the instruction i of its program.
Turn(i) == /\ Comparable(Visible(hart), i)
           /\ hart' = Execute(hart, Encode(i))

Next == \E i \in Path : Turn(i)

Spec == Init /\ [][Next]_hart

\* Each sample with its instruction word.
Encoded == {<<i, Encode(i)>> : i \in Samples}

AsRiscv(i, ins) ==
    Visible(Execute(hart, ins)) = Visible(Effect(Visible(hart), i))

\* Every instruction word the compiler emits is decoded to its fields and has
\* the effect the architecture gives it, whatever was left in the register
\* ZERO (cpu.c:35-60, 133-446, 517-563).
ExecutesRiscv ==
    \A s \in Encoded : Comparable(Visible(hart), s[1]) => AsRiscv(s[1], s[2])

\* JALR as well: not so, as it writes rd before it reads rs1 (cpu.c:371) and
\* keeps bit 0 of the target.
JalrIsRiscv == \A s \in Encoded : s[1].name = "jalr" => AsRiscv(s[1], s[2])

\* Each format's immediate is put together again, sign included, whatever the
\* other fields of the instruction word hold (cpu.h:69-72, cpu.c:49-58).
ImmediatesDecode(imm, rest) ==
    /\ I_IMM(EncodeI(imm) \cup (rest \cap 0 .. 19)) = SignExtend(imm, 11)
    /\ S_IMM(EncodeS(imm) \cup (rest \cap NotStore)) = SignExtend(imm, 11)
    /\ B_IMM(EncodeB(imm) \cup (rest \cap NotStore)) = SignExtend(imm, 12) \ {0}
    /\ J_IMM(EncodeJ(imm) \cup (rest \cap 0 .. 11)) = SignExtend(imm, 20) \ {0}
    /\ U_IMM(EncodeU(imm) \cup (rest \cap 0 .. 11)) = imm \cap 12 .. 31

\* The macros and shifts of the decoder take apart what the compiler put
\* together: opcode, function code, registers and immediate (cpu.h:60-72,
\* cpu.c:49-58).
FieldsDecode(i) ==
    LET ins == Encode(i)
        opcode == Table[i.name][1]
        func3 == BitsOf(Table[i.name][2])
        func7 == BitsOf(Table[i.name][3])
        imm == Imm32(i.imm)
    IN  /\ OPCODE_TYPE(ins) = BitsOf(opcode)
        /\ opcode \notin {35, 99} => RD(ins) = i.rd
        /\ opcode \notin {23, 55, 111} => RS1(ins) = i.rs1 /\ FUNC(ins) = func3
        /\ opcode \in {35, 51, 99} => RS2(ins) = i.rs2
        /\ opcode = 51 \/ i.name \in Shifts => R_FUNC(ins) = func3 \cup Up(func7, 4)
        /\ i.name \in Shifts => RS2(ins) = i.imm
        /\ opcode \in {3, 19, 103} /\ i.name \notin Shifts => I_IMM(ins) = imm
        /\ opcode = 35 => S_IMM(ins) = imm
        /\ opcode = 99 => B_IMM(ins) = imm
        /\ opcode = 111 => J_IMM(ins) = imm
        /\ opcode \in {23, 55} => U_IMM(ins) = imm
=============================================================================
