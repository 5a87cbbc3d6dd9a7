---------------------------- MODULE MCRouterMode ----------------------------
(* Values of the parameters of RouterMode for TLC.                          *)
EXTENDS RouterMode

CONSTANTS g1, g2, r1, r2

=============================================================================
