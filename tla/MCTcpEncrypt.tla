--------------------------- MODULE MCTcpEncrypt ---------------------------
(* Values of the parameters of TcpEncrypt for TLC.                          *)
EXTENDS TcpEncrypt

CONSTANTS c1, c2

=============================================================================
