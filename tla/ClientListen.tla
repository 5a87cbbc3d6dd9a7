---------------------------- MODULE ClientListen ----------------------------
(***************************************************************************)
(* The listening loop of a client (Socks5Listen in clientcontroll): the    *)
(* accept loop, the goroutine that watches the health of the route, the    *)
(* goroutines that serve connections and count errors, TryClose, and the   *)
(* list of routes a client in router mode switches along.                  *)
(*                                                                         *)
(* The loop looks at its flags and counters only before it waits in        *)
(* Accept, so whoever sets a flag must also connect to wake it.  The       *)
(* counters are changed under a lock by everyone but Init, which resets    *)
(* them without: a change that is under way when Init resets a counter     *)
(* goes on from what it read before or from zero.                          *)
(***************************************************************************)
EXTENDS Integers, Sequences, FiniteSets

CONSTANTS
    Handlers,    \* goroutines that serve connections, numbered
    Routes,      \* hosts of cacheRoutes
    RouteLimit,  \* RouteErrCount that makes the client switch, 10 in the code
    ErrLimit,    \* ErrCount that makes it switch, 70 in the code
    FixLimit,    \* ErrCount that makes it replace profiles, 12 in the code
    Replaced,    \* errors of a profile that is replaced, more than 4 in the code
    AcceptBase,  \* acceptCount after a restart, 100 in the code
    MaxProbes,   \* bound: requests to restart
    MaxEvents,   \* bound: connections, questions, TryClose, tests of the routes and
                 \* failures of Accept
    None

ASSUME LimitsAssumption ==
    /\ Handlers \subseteq Nat /\ Routes # {} /\ None \notin Routes \cup Handlers
    /\ {RouteLimit, ErrLimit, FixLimit, Replaced, AcceptBase} \subseteq Nat
    /\ {MaxProbes, MaxEvents} \subseteq Nat

VARIABLES
    loop,         \* where Socks5Listen is
    inUse,        \* another process has the port
    canSwitch,    \* GetNewRoute is set: router mode
    restartState, \* a restart is wanted
    cool,         \* the last restart is more than 5 minutes ago
    recent,       \* the last error is less than 3 seconds ago
    closeFlag,
    closer,       \* goroutine of TryClose: "none", "dial" or "done"
    ticker,       \* "sleep", "asked" or "wait": the watching goroutine
    probe,        \* the handler of TestDomain's connection, or None
    backlog,      \* connections Accept has not returned yet
    todo,         \* what each handler still has to count
    cnt,          \* ErrCount, errCon and RouteErrCount
    acceptCount,
    waitlock,     \* RouteModeTest holds the lock of cacheRoutes
    next,         \* the route ChangeNextRoute is to change to, or None
    probes, events

Fields == {"ErrCount", "errCon", "RouteErrCount"}
counting == <<todo, cnt, acceptCount, recent>>
waking == <<closeFlag, closer, ticker, probe, backlog, restartState, cool>>
others == <<inUse, canSwitch, waitlock, next, probes, events>>
listenVars == <<loop, counting, waking, others>>

\* NewClientControll; RunLocal, or RunLocalRouterMode when GetNewRoute is set.
ListenInit ==
    /\ loop = "tunnels" /\ inUse \in BOOLEAN /\ canSwitch \in BOOLEAN
    /\ restartState = FALSE /\ cool = FALSE /\ recent = FALSE
    /\ closeFlag = FALSE /\ closer = "none"
    /\ ticker = "sleep" /\ probe = None /\ backlog = <<>>
    /\ todo = [h \in Handlers |-> <<>>]
    /\ cnt = [f \in Fields |-> 0] /\ acceptCount = 0
    /\ waitlock = FALSE /\ next = None /\ probes = 0 /\ events = 0

Event == events < MaxEvents /\ events' = events + 1

Listening == loop \in {"check", "close", "rebuild", "decide", "accept"}
Ended == loop \in {"broken", "ended"}

-----------------------------------------------------------------------------
(* Start.                                                                   *)

\* InitializationTunnels, whose outcome is reported to the local server.
Started ==
    /\ loop = "tunnels" /\ loop' \in {"bind", "broken"}
    /\ UNCHANGED <<counting, waking, others>>

\* The port is tried again every second while another process has it.
Listen ==
    /\ loop = "bind" /\ ~inUse
    /\ loop' = "check" /\ closeFlag' = FALSE /\ acceptCount' = 0
    /\ UNCHANGED <<todo, cnt, recent, closer, ticker, probe, backlog,
                   restartState, cool, inUse, canSwitch, waitlock, next, probes, events>>

PortFreed == inUse /\ inUse' = FALSE /\ UNCHANGED <<loop, counting, waking, canSwitch,
                 waitlock, next, probes, events>>

-----------------------------------------------------------------------------
(* The counters.                                                            *)

\* Mutant: ErrVanish counts down whatever the counter is.
VanishBlindly(v, base) == base - 1

\* Counts down a counter that was positive when it was tested.
Vanish(v, base) == IF v > 0 THEN base - 1 ELSE base

\* The counters each operation changes.
Touched(op) ==
    CASE op = "record" -> {"ErrCount", "errCon"}
      [] op = "record2" -> Fields
      [] op = "vanish" -> {"ErrCount", "RouteErrCount"}
      [] op \in {"route", "fix"} -> {"RouteErrCount"}
      [] op = "report" -> {"ErrCount"}

\* Counter f, which was v, changed from base: ErrRecord of 1 and of 2, ErrVanish,
\* the counts of RouteErrCount alone, and ReportErrorProxy, which takes away the
\* errors of the profile it replaces.
Counted(op, f, v, base) ==
    CASE op \in {"record", "route"} -> base + 1
      [] op = "record2" -> IF f = "RouteErrCount" THEN base + 1 ELSE base + 2
      [] op \in {"vanish", "fix"} -> Vanish(v, base)
      [] op = "report" -> base - Replaced

Noted(h) == recent' = (recent \/ Head(todo[h]) \in {"record", "record2"})
Done(h) == todo' = [todo EXCEPT ![h] = Tail(@)]

\* One LockArea of ErrRecord, ErrVanish or another operation.
Count(h) ==
    /\ todo[h] # <<>> /\ Head(todo[h]) # "hang"
    /\ cnt' = [f \in Fields |-> IF f \in Touched(Head(todo[h]))
                                 THEN Counted(Head(todo[h]), f, cnt[f], cnt[f]) ELSE cnt[f]]
    /\ Noted(h) /\ Done(h)
    /\ UNCHANGED <<loop, acceptCount, waking, others>>

\* Init sets the counters in F to zero, alone or while h is changing some: what
\* h tested is gone, and those in Stale keep what h makes of it.
Reset(F) ==
    \/ /\ cnt' = [f \in Fields |-> IF f \in F THEN 0 ELSE cnt[f]]
       /\ UNCHANGED <<todo, recent>>
    \/ \E h \in Handlers :
         /\ todo[h] # <<>> /\ Head(todo[h]) # "hang" /\ Noted(h) /\ Done(h)
         /\ \E Stale \in SUBSET (F \cap Touched(Head(todo[h]))) :
              LET base(f) == IF f \in F \ Stale THEN 0 ELSE cnt[f]
              IN  cnt' = [f \in Fields |-> IF f \in Touched(Head(todo[h]))
                                           THEN Counted(Head(todo[h]), f, cnt[f], base(f))
                                           ELSE base(f)]

-----------------------------------------------------------------------------
(* The accept loop.                                                         *)

Ripe == restartState /\ cool

\* Init, up to the sessions it closes ...
Restart ==
    /\ loop = "check" /\ Ripe
    /\ loop' = "close" /\ restartState' = FALSE /\ cool' = FALSE
    /\ Reset({"ErrCount", "errCon"}) /\ acceptCount' = AcceptBase
    /\ UNCHANGED <<closeFlag, closer, ticker, probe, backlog,
                   others>>

\* ... and after them.
InitRest ==
    /\ loop = "close" /\ loop' = "rebuild"
    /\ Reset({"RouteErrCount"})
    /\ UNCHANGED <<acceptCount, waking, inUse, canSwitch,
                   waitlock, next, probes, events>>

\* InitializationTunnels again; requests made meanwhile are dropped.
Rebuilt ==
    /\ loop = "rebuild" /\ loop' = "decide" /\ restartState' = FALSE
    /\ UNCHANGED <<counting, closeFlag, closer, ticker, probe, backlog, cool, others>>

Deciding == loop = "decide" \/ (loop = "check" /\ ~Ripe)
Switching == canSwitch /\ (cnt["RouteErrCount"] > RouteLimit \/ cnt["ErrCount"] > ErrLimit)

\* ChangeNextRoute asks GetNewRoute, which waits for a test of the routes; one
\* of the best routes is taken, here any.
Switch ==
    /\ Deciding /\ Switching /\ ~waitlock
    /\ next' \in Routes /\ loop' = "ended"
    /\ UNCHANGED <<counting, waking, inUse, canSwitch, waitlock, probes, events>>

Free(h) == todo[h] = <<>> /\ h # probe
FirstFree(h) == Free(h) /\ \A g \in Handlers : g < h => ~Free(g)

\* What ReportErrorProxy does to the counters: no profile is that bad, the
\* request failed, its answer was empty or not taken, or a profile was replaced.
Reports ==
    {<<>>, <<"report", "route", "route">>, <<"report", "route">>, <<"report">>,
     <<"report", "fix">>}

DecideAccept ==
    /\ Deciding /\ ~Switching
    /\ loop' = IF closeFlag THEN "ended" ELSE "accept"
    /\ IF canSwitch /\ cnt["ErrCount"] > FixLimit
         THEN \E h \in Handlers, r \in Reports :
                FirstFree(h) /\ todo' = [todo EXCEPT ![h] = r]
         ELSE UNCHANGED todo
    /\ UNCHANGED <<cnt, acceptCount, recent, waking, others>>

\* What serving a connection does to the counters: nothing (closed at once,
\* direct, or refused by the server), success, a failed write, no session or a
\* failed read, these two with and without a ReConnect that succeeds.  A handler
\* that waits for a profile for ever counts nothing, but keeps TestDomain waiting.
Outcomes ==
    {<<>>, <<"vanish">>, <<"route", "record">>, <<"record", "route">>,
     <<"record", "route", "vanish">>, <<"record">>, <<"record", "vanish">>}

Served(kind) ==
    CASE kind = "client" -> Outcomes
      [] kind = "probe" -> Outcomes \cup {<<"hang">>}
      [] kind = "close" -> {<<>>}

Accept ==
    /\ loop = "accept" /\ backlog # <<>>
    /\ loop' = "check" /\ backlog' = Tail(backlog) /\ acceptCount' = acceptCount + 1
    /\ \E h \in Handlers, o \in Served(Head(backlog)) :
         /\ FirstFree(h)
         /\ todo' = [todo EXCEPT ![h] = o]
         /\ probe' = IF Head(backlog) = "probe" THEN h ELSE probe
    /\ UNCHANGED <<cnt, recent, closeFlag, closer, ticker, restartState,
                   cool, others>>

AcceptFails ==
    /\ loop = "accept" /\ Event
    /\ loop' = "check"
    /\ UNCHANGED <<counting, waking, inUse, canSwitch, waitlock, next,
                   probes>>

\* ChangeRoute starts a process for the new route a second later.
ChangeRoute ==
    /\ next # None /\ next' = None
    /\ UNCHANGED <<loop, counting, waking, inUse, canSwitch, waitlock,
                   probes, events>>

-----------------------------------------------------------------------------
(* Who wakes the loop.                                                      *)

\* Health() < 20, where no accepted connection counts as one.
Unhealthy(accepted) == 5 * cnt["errCon"] > 4 * accepted

\* Every 2 seconds.  The other cases of the select never happen: their tickers
\* are made anew in every turn.
Tick ==
    LET accepted == IF acceptCount = 0 THEN 1 ELSE acceptCount
    IN  /\ loop # "tunnels" /\ loop # "broken" /\ ticker = "sleep" /\ recent
        /\ acceptCount' = accepted
        /\ IF Unhealthy(accepted)
             THEN /\ probes < MaxProbes /\ probes' = probes + 1
                  /\ restartState' = TRUE /\ ticker' = "asked"
             ELSE UNCHANGED <<probes, restartState, ticker>>
    /\ UNCHANGED <<loop, todo, cnt, recent, closeFlag, closer, probe,
                   backlog, cool, inUse, canSwitch, waitlock, next,
                   events>>

\* Mutant: TestDomain connects to another port.
TestOther ==
    /\ ticker = "asked" /\ ticker' = "sleep"
    /\ UNCHANGED <<loop, counting, closeFlag, closer, probe, backlog, restartState, cool,
                   others>>

\* TestDomain connects to the port, a second later, ...
TestDomain ==
    /\ ticker = "asked"
    /\ ticker' = "wait" /\ backlog' = Append(backlog, "probe")
    /\ UNCHANGED <<loop, counting, closeFlag, closer, probe, restartState, cool, others>>

\* ... and waits for an answer.
TestEnds ==
    /\ ticker = "wait" /\ probe # None /\ todo[probe] = <<>>
    /\ ticker' = "sleep" /\ probe' = None
    /\ UNCHANGED <<loop, counting, closeFlag, closer, backlog, restartState, cool, others>>

\* Mutant: TryClose does not connect.
TryCloseQuietly ==
    /\ closer = "none" /\ Event /\ closeFlag' = TRUE /\ closer' = "done"
    /\ UNCHANGED <<loop, counting, ticker, probe, backlog, restartState, cool,
                   inUse, canSwitch, waitlock, next, probes>>

TryClose ==
    /\ closer = "none" /\ Event /\ closeFlag' = TRUE /\ closer' = "dial"
    /\ UNCHANGED <<loop, counting, ticker, probe, backlog, restartState, cool,
                   inUse, canSwitch, waitlock, next, probes>>

\* The goroutine of TryClose; nobody answers it before the port is bound.
CloseDial ==
    /\ closer = "dial" /\ closer' = "done"
    /\ backlog' = IF Listening THEN Append(backlog, "close") ELSE backlog
    /\ UNCHANGED <<loop, counting, closeFlag, ticker, probe, restartState, cool, others>>

-----------------------------------------------------------------------------
(* Clients, time and the test of the routes.                                *)

Connect ==
    /\ Listening /\ Event
    /\ backlog' = Append(backlog, "client")
    /\ UNCHANGED <<loop, counting, closeFlag, closer, ticker, probe, restartState, cool,
                   inUse, canSwitch, waitlock, next, probes>>

\* DNSListen runs once the tunnels are built, whether the port is bound or not.
DNSListen == loop \notin {"tunnels", "broken", "ended"}

\* A question to the DNS server: an answer, no session or none read.
Resolve ==
    /\ DNSListen /\ Event
    /\ \E h \in Handlers, o \in {<<"vanish">>, <<"record2">>, <<"record">>} :
         FirstFree(h) /\ todo' = [todo EXCEPT ![h] = o]
    /\ UNCHANGED <<loop, cnt, acceptCount, recent, waking, inUse, canSwitch, waitlock, next,
                   probes>>

\* 5 minutes after a restart, 3 seconds after an error.
Pass ==
    /\ \/ ~cool /\ cool' = TRUE /\ UNCHANGED recent
       \/ recent /\ recent' = FALSE /\ UNCHANGED cool
    /\ UNCHANGED <<loop, todo, cnt, acceptCount, closeFlag, closer, ticker,
                   probe, backlog, restartState, others>>

\* RouteModeTest, every hour in router mode.
TestStarts ==
    /\ canSwitch /\ ~waitlock /\ Event
    /\ waitlock' = TRUE
    /\ UNCHANGED <<loop, counting, waking, inUse, canSwitch, next, probes>>

TestDone ==
    /\ waitlock /\ waitlock' = FALSE
    /\ UNCHANGED <<loop, counting, waking, inUse, canSwitch, next, probes, events>>

-----------------------------------------------------------------------------

ListenWork ==
    \/ /\ ~Ended
       /\ \/ Started \/ Listen \/ Restart \/ InitRest \/ Rebuilt
          \/ Switch \/ DecideAccept \/ Accept
          \/ \E h \in Handlers : Count(h)
          \/ TestDomain \/ TestEnds \/ CloseDial \/ TestDone
    \/ ChangeRoute

\* Once the loop has ended RunLocal and RunLocalRouterMode return: what the
\* goroutines do until the process exits is left out, ChangeRoute excepted.
ListenNext ==
    \/ ListenWork
    \/ /\ ~Ended
       /\ \/ PortFreed \/ AcceptFails \/ Tick \/ TryClose \/ Connect \/ Resolve \/ Pass
          \/ TestStarts

ListenSpec == ListenInit /\ [][ListenNext]_listenVars

\* Goroutines that can go on do, and tests and dials end.
ListenFairness == WF_listenVars(ListenWork)

ListenFairSpec == ListenSpec /\ ListenFairness

-----------------------------------------------------------------------------
(* Properties.                                                              *)

\* The unlocked reset of Init, racing with ErrVanish, costs RouteErrCount at
\* most one: a positive count is tested, Init makes it zero, and the count goes
\* down once more.  However often it happens the switch is at most one error
\* late (controll.go ErrVanish, Init).
ResetCostsOne == cnt["RouteErrCount"] >= -1

\* When the watching goroutine asks for a restart and the last one is long
\* enough ago, the restart happens although the loop waits in Accept and no
\* client ever connects again: unless the loop has ended.
AskedRestarts == (ticker = "asked" /\ Ripe /\ Listening) ~>
                   (loop \in {"close", "rebuild"} \/ Ended)

\* TryClose of a client that listens ends its loop, without any connection of
\* a client; one that comes before the port is bound is forgotten.
CloseStops == (closeFlag /\ Listening) ~> Ended

=============================================================================
