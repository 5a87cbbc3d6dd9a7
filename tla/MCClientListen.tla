--------------------------- MODULE MCClientListen ---------------------------
(* Values of the parameters of ClientListen for TLC.                        *)
EXTENDS ClientListen

CONSTANTS r1

Two == 1 .. 2

=============================================================================
