--------------------------- MODULE MCTunnelStreams ---------------------------
(* Instances of TunnelStreams for TLC: s1 and s2 arrive on t1, s3 on t2.   *)
EXTENDS TunnelStreams, TLC

CONSTANTS s1, s2, s3, t1, t2

ThreeStreams == {s1, s2, s3}
TwoTunnels == {t1, t2}
TwoOnT1 == s1 :> t1 @@ s2 :> t1 @@ s3 :> t2
\* The two streams on t1 are interchangeable.
SameTunnel == Permutations({s1, s2})

TwoStreams == {s1, s2}
OneTunnel == {t1}
BothOnT1 == s1 :> t1 @@ s2 :> t1

=============================================================================
