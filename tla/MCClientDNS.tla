---------------------------- MODULE MCClientDNS ----------------------------
(* Values of the parameters of ClientDNS for TLC.                           *)
EXTENDS ClientDNS

CONSTANTS i1, i2, i3, zero, n1, n2

listed == <<"com", "a">>
below == <<"com", "a", "w">>
beside == <<"com", "b">>
wpad == <<"lan", "wpad">>

FourNames == {listed, below, beside, wpad}
Nets == [ip \in {i1, i2, i3, zero} |-> IF ip \in {i1, i2} THEN n1 ELSE n2]
LastFirst == <<<<"org">>, listed>>
OneRule == {i3}
CnAnswers == [d \in FourNames |->
                CASE d = beside -> <<i1, zero>> [] d = wpad -> <<>> [] OTHER -> <<i2>>]
RemoteAnswers == [d \in FourNames |-> IF d = beside THEN {i1, i2} ELSE {i2, zero}]

=============================================================================
