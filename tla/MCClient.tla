------------------------------ MODULE MCClient ------------------------------
\* The client's life and its control methods, for TLC: two threads, an
\* event that exists on this system and one that does not.
EXTENDS Controls

CONSTANTS u1, u2, e1, e2

RequestsMC == {{e1, e2}}
=============================================================================
