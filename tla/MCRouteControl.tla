--------------------------- MODULE MCRouteControl ---------------------------
(* Values of the parameters of RouteControl for TLC.                        *)
EXTENDS RouteControl

CONSTANTS h1, h2

OneGood == {{h1}}
ShortLists == {<<h1, h2>>, <<h2, h1>>}

\* The loop over the list as it is written, with both of its variables:
\* NextIndex is what it computes, also for lists that repeat a server.
NextRouteLoop(list, now) ==
    LET see(acc, no) ==
          LET ix == IF list[no] = now THEN no ELSE acc.nowix
          IN  [nowix |-> ix,
               oo |-> IF acc.oo = 0 \/ no = ix + 1 THEN no ELSE acc.oo]
    IN  FoldLeft(see, [nowix |-> 0, oo |-> 0], [i \in 1 .. Len(list) |-> i]).oo

ASSUME LoopAssumption ==
    \A n \in 1 .. 5 : \A list \in [1 .. n -> Hosts \cup {None}], now \in Hosts :
        NextIndex(list, now) = NextRouteLoop(list, now)

=============================================================================
