------------------------------- MODULE MCIsa -------------------------------
EXTENDS Isa

MCImmediates == {-4, -1, 0, 3}

\* All values of two registers, the third with what the last instruction left
\* in it, in a low and in the highest place of the address space.
MCBegin ==
    {[regs |-> [r \in {0, 1, 2} |-> CASE r = 0 -> {1} [] r = 1 -> a [] r = 2 -> b],
      pc |-> pc,
      mem |-> [x \in 0 .. 3 |-> IF x \in {0, 2} THEN pc \cap {0} ELSE {0}],
      trap |-> FALSE] : a \in Words, b \in Words, pc \in {{}, {2, 3}}}

\* A jump to itself, which leaves its return address in the register ZERO.
MCPath == {[name |-> "jal", rd |-> 0, rs1 |-> 0, rs2 |-> 0, imm |-> 0]}

\* Nothing, everything, alternating bits, and the borders of the formats.
MCPatterns == {{}, 0 .. 31, 0 .. 30, {31}, {12, 20}, {5, 11},
               {i \in 0 .. 31 : i % 2 = 0}, {i \in 0 .. 31 : i % 2 = 1},
               {i \in 0 .. 31 : i % 4 < 2}, {i \in 0 .. 31 : i % 8 < 4}}

ASSUME \A imm, rest \in MCPatterns : ImmediatesDecode(imm, rest)

\* The least, the greatest and alternating registers and immediates.
MCOperands ==
    LET regs == {0, 10, 31}
        imms == {-(2 ^ 20), -4096, -2730, -2048, -1, 0, 2, 21, 31, 1365, 2047,
                 4095, 4096, 2 ^ 20 - 2, -4096 * 349525}
    IN  [name : DOMAIN Table, rd : regs, rs1 : regs, rs2 : regs, imm : imms]

ASSUME \A i \in MCOperands : Legal(i) => FieldsDecode(i)
=============================================================================
