----------------------------- MODULE MCDNSCache -----------------------------
(* Values of the parameters of DNSCache for TLC.                           *)
EXTENDS DNSCache

CONSTANTS c1, c2, c3, h1, h2

ThreeCallers == {c1, c2, c3}
TwoHosts == {h1, h2}

=============================================================================
