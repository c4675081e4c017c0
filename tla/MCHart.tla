------------------------------- MODULE MCHart -------------------------------
EXTENDS Hart

\* The reset address and two handlers' bases, vectored and direct.
MCCode == {{}, {3}, {5, 9}}

\* Nothing; all enable bits, as stvec a reserved mode; a vectored stvec; and a
\* reserved mode with both bits.
MCOperands == {{}, {1, 5, 9}, {0, 3}, {0, 1, 3}}
=============================================================================
