---------------------------- MODULE Instructions ----------------------------
(***************************************************************************)
(* One turn of vcore_run (cpu.c): an instruction word is decoded and       *)
(* executed on the registers and the memory of a hart.  An instruction     *)
(* word is the set of its 32 bits.  The registers have W bits, a byte has  *)
(* W / 4, so that the byte, the half word and the word of a small instance *)
(* relate as those of the code do.  The A and SYSTEM opcodes are modelled  *)
(* in Atomics and Hart.                                                    *)
(***************************************************************************)
EXTENDS BitWords

\* A constant of the code, as bits.
BitsOf(n) == {i \in 0 .. 30 : (n \div 2 ^ i) % 2 = 1}

-----------------------------------------------------------------------------
(* The fields of an instruction word.                                      *)

Field(ins, lo, hi) == Down(ins \cap lo .. hi, lo)

RD(ins)   == MapThenSumSet(LAMBDA i : 2 ^ i, Field(ins, 7, 11))
RS1(ins)  == MapThenSumSet(LAMBDA i : 2 ^ i, Field(ins, 15, 19))
RS2(ins)  == MapThenSumSet(LAMBDA i : 2 ^ i, Field(ins, 20, 24))
FUNC(ins) == Field(ins, 12, 14)
R_FUNC(ins) == Down(ins \cap 12 .. 14, 12) \cup Down(ins \cap 25 .. 31, 21)
OPCODE_TYPE(ins) == ins \cap 0 .. 6

I_IMM(ins) == DownSigned(ins \cap 20 .. 31, 20, 32)
S_IMM(ins) == Field(ins, 7, 11) \cup DownSigned(ins \cap 25 .. 31, 20, 32)
B_IMM(ins) == Down(ins \cap 8 .. 11, 7) \cup Down(ins \cap 25 .. 30, 20)
                  \cup Up(ins \cap {7}, 4) \cup DownSigned(ins \cap {31}, 19, 32)
J_IMM(ins) == Up(Down(ins, 21) \cap 0 .. 9, 1) \cup Up(Down(ins, 20) \cap {0}, 11)
                  \cup Up(Down(ins, 12) \cap 0 .. 7, 12)
                  \cup (DownSigned(ins, 11, 32) \cap 20 .. 31)
U_IMM(ins) == ins \cap 12 .. 31

R_TYPE  == BitsOf(51)    \* 0x33
IR_TYPE == BitsOf(19)    \* 0x13
IL_TYPE == BitsOf(3)
S_TYPE  == BitsOf(35)    \* 0x23
B_TYPE  == BitsOf(99)    \* 0x63
J_TYPE  == BitsOf(111)   \* 0x6F
IJ_TYPE == BitsOf(103)   \* 0x67
LUI     == BitsOf(55)    \* 0x37
AUIPC   == BitsOf(23)    \* 0x17

\* func7:func3 of the R and IR types.
Funcs == [ADD |-> 0, SUB |-> 512, XOR |-> 4, OR |-> 6, AND |-> 7, SLL |-> 1,
          SRL |-> 5, SRA |-> 517, SLT |-> 2, SLTU |-> 3,
          MUL |-> 16, MULH |-> 17, MULHSU |-> 18, MULHU |-> 19,
          DIV |-> 20, DIVU |-> 21, REM |-> 22, REMU |-> 23]
Code == [f \in DOMAIN Funcs |-> BitsOf(Funcs[f])]

-----------------------------------------------------------------------------
(* A hart between two instructions: its registers, program counter and     *)
(* memory (bytes), and whether the last instruction raised ILL_INS.        *)

Set(s, r, w) == [s EXCEPT !.regs[r] = w]
Advance(s) == [s EXCEPT !.pc = Plus(@, WordOf(4))]
IllIns(s) == [s EXCEPT !.trap = TRUE]

Flag(b) == IF b THEN {0} ELSE {}

\* Only the low bits of a shift amount take effect (& 31).
Amount(w) == Num({i \in w : 2 ^ i < W})

\* C's / and %: towards zero.
Abs(x) == IF x < 0 THEN -x ELSE x
Quotient(x, y) == LET q == Abs(x) \div Abs(y)
                  IN  IF (x < 0) = (y < 0) THEN q ELSE -q
Remainder(x, y) == x - y * Quotient(x, y)

INT_MIN == {W - 1}

\* The upper half of a 64-bit product.
HighHalf(n) == WordOf(n \div 2 ^ W)

DivideSigned(a, b) ==
    IF b = {} THEN Bits
    ELSE IF a = INT_MIN /\ Signed(b) = -1 THEN INT_MIN
    ELSE WordOf(Quotient(Signed(a), Signed(b)))

RemainderSigned(a, b) ==
    IF b = {} THEN a
    ELSE IF a = INT_MIN /\ Signed(b) = -1 THEN {}
    ELSE WordOf(Remainder(Signed(a), Signed(b)))

RegisterResult(func, a, b) ==
    CASE func = Code.ADD  -> Plus(a, b)
      [] func = Code.SUB  -> WordOf(Num(a) - Num(b))
      [] func = Code.XOR  -> (a \ b) \cup (b \ a)
      [] func = Code.OR   -> a \cup b
      [] func = Code.AND  -> a \cap b
      [] func = Code.SLL  -> Up(a, Amount(b)) \cap Bits
      [] func = Code.SRL  -> Down(a, Amount(b))
      [] func = Code.SRA  -> DownSigned(a, Amount(b), W)
      [] func = Code.SLT  -> Flag(Signed(a) < Signed(b))
      [] func = Code.SLTU -> Flag(Num(a) < Num(b))
      [] func = Code.MUL  -> WordOf(Signed(a) * Signed(b))
      [] func = Code.MULH -> HighHalf(Signed(a) * Signed(b))
      [] func = Code.MULHSU -> HighHalf(Signed(a) * Num(b))
      [] func = Code.MULHU  -> HighHalf(Num(a) * Num(b))
      [] func = Code.DIV  -> DivideSigned(a, b)
      [] func = Code.DIVU -> IF b = {} THEN Bits ELSE WordOf(Num(a) \div Num(b))
      [] func = Code.REM  -> RemainderSigned(a, b)
      [] func = Code.REMU -> IF b = {} THEN a ELSE WordOf(Num(a) % Num(b))

\* The illegal function codes advance as well, into the handler's second
\* instruction.
RType(s, ins) ==
    LET func == R_FUNC(ins)
    IN  Advance(IF func \in {Code[f] : f \in DOMAIN Code}
                THEN Set(s, RD(ins), RegisterResult(func, s.regs[RS1(ins)],
                                                    s.regs[RS2(ins)]))
                ELSE IllIns(s))

\* Shifts by the rs2 field, otherwise an operation on the immediate.
IRType(s, ins) ==
    LET a == s.regs[RS1(ins)]
        shift == RS2(ins) % W
        func == R_FUNC(ins)
    IN  Advance(
          IF func = Code.SRA THEN Set(s, RD(ins), DownSigned(a, shift, W))
          ELSE IF func = Code.SRL THEN Set(s, RD(ins), Down(a, shift))
          ELSE IF func = Code.SLL THEN Set(s, RD(ins), Up(a, shift) \cap Bits)
          ELSE IF FUNC(ins) \in {Code[f] : f \in {"ADD", "XOR", "OR", "AND",
                                                  "SLT", "SLTU"}}
          THEN Set(s, RD(ins),
                   RegisterResult(FUNC(ins), a, I_IMM(ins) \cap Bits))
          ELSE IllIns(s))

Branch(func, a, b) ==
    CASE func = {}        -> a = b                      \* BEQ
      [] func = {0}       -> a # b                      \* BNE
      [] func = {2}       -> Signed(a) < Signed(b)      \* BLT
      [] func = {2, 0}    -> Signed(a) >= Signed(b)     \* BGE
      [] func = {2, 1}    -> Num(a) < Num(b)            \* BLTU
      [] func = {2, 1, 0} -> Num(a) >= Num(b)           \* BGEU

BType(s, ins) ==
    IF FUNC(ins) \in {{1}, {1, 0}} THEN Advance(IllIns(s))
    ELSE IF Branch(FUNC(ins), s.regs[RS1(ins)], s.regs[RS2(ins)])
         THEN [s EXCEPT !.pc = Plus(@, B_IMM(ins) \cap Bits)]
         ELSE Advance(s)

JType(s, ins) ==
    [s EXCEPT !.regs[RD(ins)] = Plus(s.pc, WordOf(4)),
              !.pc = Plus(@, J_IMM(ins) \cap Bits)]

\* rd is written before rs1 is read.
IJType(s, ins) ==
    LET linked == Set(s, RD(ins), Plus(s.pc, WordOf(4)))
    IN  [linked EXCEPT !.pc = Plus(linked.regs[RS1(ins)], I_IMM(ins) \cap Bits)]

LuiType(s, ins) == Advance(Set(s, RD(ins), U_IMM(ins) \cap Bits))
AuipcType(s, ins) ==
    Advance(Set(s, RD(ins), Plus(s.pc, U_IMM(ins) \cap Bits)))

-----------------------------------------------------------------------------
(* Loads and stores of n bytes, little endian and always aligned.          *)

Byte == W \div 4

Bytes(m, a, n) == UNION {Up(m[a + k], k * Byte) : k \in 0 .. (n - 1)}

PutBytes(m, a, n, w) ==
    [x \in DOMAIN m |->
        IF x \in a .. (a + n - 1)
        THEN Down(w, (x - a) * Byte) \cap 0 .. (Byte - 1)
        ELSE m[x]]

\* The bit above the sign bit tested instead.
SignExtendedByNextBit(w, n) ==
    IF n * Byte \in w THEN w \cup (n * Byte) .. (W - 1) ELSE w

\* LB and LH set the upper bits when the sign bit is set.
SignExtended(w, n) == IF n * Byte - 1 \in w THEN w \cup (n * Byte) .. (W - 1)
                                            ELSE w

ILType(s, ins) ==
    LET a == Num(Plus(s.regs[RS1(ins)], I_IMM(ins) \cap Bits))
        Load(w) == Set(s, RD(ins), w)
        func == FUNC(ins)
    IN  Advance(
          CASE func = {}     -> Load(SignExtended(Bytes(s.mem, a, 1), 1))
            [] func = {0}    -> Load(SignExtended(Bytes(s.mem, a, 2), 2))
            [] func = {1}    -> Load(Bytes(s.mem, a, 4))
            [] func = {2}    -> Load(Bytes(s.mem, a, 1))
            [] func = {2, 0} -> Load(Bytes(s.mem, a, 2))
            [] OTHER         -> IllIns(s))

SType(s, ins) ==
    LET a == Num(Plus(s.regs[RS1(ins)], S_IMM(ins) \cap Bits))
        Put(n) == [s EXCEPT !.mem = PutBytes(@, a, n, s.regs[RS2(ins)])]
        func == FUNC(ins)
    IN  Advance(CASE func = {}  -> Put(1)
                  [] func = {0} -> Put(2)
                  [] func = {1} -> Put(4)
                  [] OTHER      -> IllIns(s))

-----------------------------------------------------------------------------
\* The register ZERO is reset before each instruction, not kept from being
\* written.
Execute(old, ins) ==
    LET s == Set(old, 0, {})
        type == OPCODE_TYPE(ins)
    IN  CASE type = R_TYPE  -> RType(s, ins)
          [] type = IR_TYPE -> IRType(s, ins)
          [] type = IL_TYPE -> ILType(s, ins)
          [] type = S_TYPE  -> SType(s, ins)
          [] type = B_TYPE  -> BType(s, ins)
          [] type = J_TYPE  -> JType(s, ins)
          [] type = IJ_TYPE -> IJType(s, ins)
          [] type = LUI     -> LuiType(s, ins)
          [] type = AUIPC   -> AuipcType(s, ins)
          [] OTHER          -> IllIns(s)
=============================================================================
