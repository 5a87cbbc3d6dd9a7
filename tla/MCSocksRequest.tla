--------------------------- MODULE MCSocksRequest ---------------------------
(* Values of the parameters of SocksRequest for TLC.                        *)
EXTENDS SocksRequest

=============================================================================
