---------------------------- MODULE MCClientPool ----------------------------
(* Values of the parameters of ClientPool for TLC.                          *)
EXTENDS ClientPool

CONSTANTS c1, c2, ch, s1, a1, r1

\* Which processes meet in a behaviour.
PoolCasts == {{c1, c2}, {c1, s1}, {c1, a1}, {c1, r1}, {ch, a1}}

=============================================================================
