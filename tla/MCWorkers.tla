----------------------------- MODULE MCWorkers -----------------------------
\* One caller of each kind that can be in another's way.
EXTENDS Workers

CONSTANTS v1, q1, reaper, o1, o2, a1, a2, b1, b2, w1
=============================================================================
