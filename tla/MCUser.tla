------------------------------- MODULE MCUser -------------------------------
EXTENDS User

\* Outside of the table on both sides, a standard stream, the two descriptors
\* that open returns, and one that is never open.
MCGuestFds == {-4, -1, 1, 3, 4, 6}
=============================================================================
