-------------------------- MODULE MCTunnelRegistry --------------------------
(* Values of the parameters of TunnelRegistry for TLC.                     *)
EXTENDS TunnelRegistry

Two == 1..2
AllKinds == {"get", "getType", "del", "err", "new", "closeAll"}

=============================================================================
