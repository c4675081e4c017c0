--------------------------- MODULE MCBreakpoints ---------------------------
EXTENDS Breakpoints

CONSTANTS a1, a2, a3, a4, i1, i2

\* Three instructions to trap, more than the table holds, and an EBREAK of the
\* guest's own.
MCAddrs   == {a1, a2, a3, a4}
MCInstrs  == {i1, i2}
MCProgram == [a \in MCAddrs |-> CASE a = a1 -> i1 [] a = a4 -> Ebreak
                                  [] OTHER -> i2]
=============================================================================
