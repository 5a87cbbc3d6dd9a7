---------------------------- MODULE TunnelStreams ----------------------------
(***************************************************************************)
(* The life of a proxied stream: ProxyTunnel.HandleConnAsync with the      *)
(* global stream budget, the tunnel's HealthMetrics, the three kinds of    *)
(* request and the two copy goroutines of Pipe.  One process per stream;   *)
(* every atomic counter operation of the code is a step of its own.        *)
(*                                                                         *)
(* Time advances by Tick, only while every handler is waiting for someone  *)
(* else (a client, a resolver, a target): the running part of a handler    *)
(* takes no time worth counting against deadlines of minutes.              *)
(***************************************************************************)
EXTENDS Integers, FiniteSets

CONSTANTS Streams,           \* streams the protocols hand to HandleConnAsync
          Tunnels,           \* running tunnels
          TunnelOf,          \* the tunnel that accepts each stream
          globalStreamLimit, \* -max-streams; 0 or less is "unlimited"
          maxConn,           \* HealthMetrics.maxConn, the same for all tunnels
          HandshakeDeadline, \* ticks until the first-request read deadline
          IdleThreshold      \* ticks of IdleTunnelThreshold

ASSUME StreamsAssumption == IsFiniteSet(Streams)
ASSUME TunnelOfAssumption == TunnelOf \in [Streams -> Tunnels]
ASSUME LimitAssumption == globalStreamLimit \in Int /\ maxConn \in Int
ASSUME TimeAssumption == /\ HandshakeDeadline \in Nat
                         /\ IdleThreshold \in Nat
                         /\ HandshakeDeadline <= IdleThreshold \* 10min, 1h

VARIABLES
    pc,            \* where each stream's handler is
    cur,           \* the counter value the handler last loaded
    con,           \* the client side of the stream: "open" or "closed"
    remote,        \* the dialled target: "none", "open" or "closed"
    copying,       \* the copy goroutines of Pipe still running
    request,       \* the kind of request: the branch HandleConnAsync takes
    waited,        \* ticks spent waiting for the first request
    activeStreams, \* the global counter
    total, failed, active, \* HealthMetrics' counters, per tunnel
    isPaused,      \* HealthMetrics.isPaused, per tunnel
    alive,         \* ProxyTunnel.alive, per tunnel
    age            \* ticks since lastActive was stored, capped

local == <<cur, con, remote, copying, request, waited>>
metrics == <<total, failed, active, isPaused, alive>>
vars == <<pc, local, activeStreams, metrics, age>>

Directions == {"up", "down"}

(***************************************************************************)
(* Steps that need nothing but the CPU, and places where a handler waits   *)
(* for a client, a resolver or a target.                                   *)
(***************************************************************************)
Running == {"acquire", "compare", "undo", "refuse", "record", "pause",
            "turnaway", "count", "enter", "unpause", "hangup", "control",
            "unwind", "leave", "release"}
Waiting == {"new", "handshake", "dns", "confirm", "dial", "pipe", "done"}

Init ==
    /\ pc = [s \in Streams |-> "new"]
    /\ cur = [s \in Streams |-> 0]
    /\ con = [s \in Streams |-> "open"]
    /\ remote = [s \in Streams |-> "none"]
    /\ copying = [s \in Streams |-> {}]
    /\ request = [s \in Streams |-> "none"]
    /\ waited = [s \in Streams |-> 0]
    /\ activeStreams = 0
    /\ total = [t \in Tunnels |-> 0]
    /\ failed = [t \in Tunnels |-> 0]
    /\ active = [t \in Tunnels |-> 0]
    /\ isPaused = [t \in Tunnels |-> FALSE]
    /\ alive = [t \in Tunnels |-> 0]
    /\ age = [t \in Tunnels |-> 0]

-----------------------------------------------------------------------------
(* Building blocks.                                                        *)

Goto(s, from, to) == /\ pc[s] = from
                     /\ pc' = [pc EXCEPT ![s] = to]

\* touchLastActive
Touch(s) == age' = [age EXCEPT ![TunnelOf[s]] = 0]

\* con.Close() where the code closes it, then ProxyTunnel.DelCon, which
\* stamps lastActive and has the protocol close the connection once more.
CloseAndDelCon(s) == /\ con' = [con EXCEPT ![s] = "closed"]
                     /\ Touch(s)
                     /\ UNCHANGED <<cur, remote, copying, request, waited>>

Add(counter, s, n) == [counter EXCEPT ![TunnelOf[s]] = @ + n]

-----------------------------------------------------------------------------
(* The global budget.                                                      *)

\* Mutant of Accept: lastActive is not stamped.
AcceptUntouched(s) ==
    /\ Goto(s, "new", "acquire")
    /\ UNCHANGED <<local, activeStreams, metrics, age>>

\* The protocol hands over a stream; HandleConnAsync stamps lastActive.
Accept(s) ==
    /\ Goto(s, "new", "acquire")
    /\ Touch(s)
    /\ UNCHANGED <<local, activeStreams, metrics>>

\* TryAcquireStream without a limit returns true and counts nothing.
AcquireUnlimited(s) ==
    /\ globalStreamLimit <= 0
    /\ Goto(s, "acquire", "record")
    /\ UNCHANGED <<local, activeStreams, metrics, age>>

\* Mutant of AcquireAdd: cur is the value before the increment.
AcquireAddOld(s) ==
    /\ globalStreamLimit > 0
    /\ Goto(s, "acquire", "compare")
    /\ activeStreams' = activeStreams + 1
    /\ cur' = [cur EXCEPT ![s] = activeStreams]
    /\ UNCHANGED <<con, remote, copying, request, waited, metrics, age>>

\* cur := activeStreams.Add(1)
AcquireAdd(s) ==
    /\ globalStreamLimit > 0
    /\ Goto(s, "acquire", "compare")
    /\ activeStreams' = activeStreams + 1
    /\ cur' = [cur EXCEPT ![s] = activeStreams + 1]
    /\ UNCHANGED <<con, remote, copying, request, waited, metrics, age>>

\* Mutant of AcquireCompare: the limit is off by one.
AcquireCompareOffByOne(s) ==
    /\ Goto(s, "compare", IF cur[s] > globalStreamLimit + 1 THEN "undo"
                                                            ELSE "record")
    /\ UNCHANGED <<local, activeStreams, metrics, age>>

\* if cur > globalStreamLimit.Load()
AcquireCompare(s) ==
    /\ Goto(s, "compare", IF cur[s] > globalStreamLimit THEN "undo"
                                                        ELSE "record")
    /\ UNCHANGED <<local, activeStreams, metrics, age>>

\* activeStreams.Add(-1); return false
AcquireUndo(s) ==
    /\ Goto(s, "undo", "refuse")
    /\ activeStreams' = activeStreams - 1
    /\ UNCHANGED <<local, metrics, age>>

\* Mutant of Refuse: no return after the refusal.
RefuseFallsThrough(s) ==
    /\ Goto(s, "refuse", "record")
    /\ CloseAndDelCon(s)
    /\ UNCHANGED <<activeStreams, metrics>>

\* The global cap is reached: close, DelCon, return before the deferred
\* ReleaseStream is registered.
Refuse(s) ==
    /\ Goto(s, "refuse", "done")
    /\ CloseAndDelCon(s)
    /\ UNCHANGED <<activeStreams, metrics>>

\* The deferred ReleaseStream, the last thing an admitted handler does.
ReleaseStream(s) ==
    /\ Goto(s, "release", "done")
    /\ activeStreams' = activeStreams - 1
    /\ UNCHANGED <<local, metrics, age>>

-----------------------------------------------------------------------------
(* HealthMetrics.RecordConnection: check, then act.                        *)

RecordLoad(s) ==
    LET full == maxConn > 0 /\ active[TunnelOf[s]] >= maxConn
    IN  /\ Goto(s, "record", IF full THEN "pause" ELSE "count")
        /\ UNCHANGED <<local, activeStreams, metrics, age>>

RecordPause(s) ==
    /\ Goto(s, "pause", "turnaway")
    /\ isPaused' = [isPaused EXCEPT ![TunnelOf[s]] = TRUE]
    /\ UNCHANGED <<local, activeStreams, total, failed, active, alive, age>>

\* Mutant of TurnAway: ReleaseStream is not deferred yet.
TurnAwayKeepsSlot(s) ==
    /\ Goto(s, "turnaway", "done")
    /\ CloseAndDelCon(s)
    /\ UNCHANGED <<activeStreams, metrics>>

\* RecordConnection returned false: close, DelCon, ReleaseStream.
TurnAway(s) ==
    /\ Goto(s, "turnaway", "release")
    /\ CloseAndDelCon(s)
    /\ UNCHANGED <<activeStreams, metrics>>

RecordTotal(s) ==
    /\ Goto(s, "count", "enter")
    /\ total' = Add(total, s, 1)
    /\ UNCHANGED <<local, activeStreams, failed, active, isPaused, alive, age>>

RecordActive(s) ==
    /\ Goto(s, "enter", "unpause")
    /\ active' = Add(active, s, 1)
    /\ UNCHANGED <<local, activeStreams, total, failed, isPaused, alive, age>>

\* isPaused.Store(false), and then SetReadDeadline starts the wait for the
\* first request.
RecordUnpause(s) ==
    /\ Goto(s, "unpause", "handshake")
    /\ isPaused' = [isPaused EXCEPT ![TunnelOf[s]] = FALSE]
    /\ UNCHANGED <<local, activeStreams, total, failed, active, alive, age>>

\* ReleaseConnection (after RecordLatency, which no property looks at).
ReleaseConnection(s) ==
    /\ Goto(s, "leave", "release")
    /\ active' = Add(active, s, -1)
    /\ UNCHANGED <<local, activeStreams, total, failed, isPaused, alive, age>>

-----------------------------------------------------------------------------
(* The first request.                                                      *)

\* GetServerRequest returns an error: RecordFailure.
HandshakeFail(s) ==
    /\ Goto(s, "handshake", "hangup")
    /\ failed' = Add(failed, s, 1)
    /\ UNCHANGED <<local, activeStreams, total, active, isPaused, alive, age>>

\* Mutant of HandshakeTimeout: no read deadline is set.
HandshakeNoDeadline(s) == FALSE /\ HandshakeFail(s)

\* The read deadline is one reason for it, and one that is sure to come.
HandshakeTimeout(s) == waited[s] = HandshakeDeadline /\ HandshakeFail(s)

Hangup(s) ==
    /\ Goto(s, "hangup", "leave")
    /\ CloseAndDelCon(s)
    /\ UNCHANGED <<activeStreams, metrics>>

\* The request is parsed: alive.Add(1), then dispatch on the host's prefix.
HandshakeOk(s) ==
    /\ \E branch \in {"control", "dns", "confirm"} :
          /\ Goto(s, "handshake", branch)
          /\ request' = [request EXCEPT ![s] = branch]
    /\ alive' = Add(alive, s, 1)
    /\ UNCHANGED <<cur, con, remote, copying, waited, activeStreams, total, failed, active, isPaused, age>>

\* R:// request.  No program sets ControllFunc, so nothing is called, and
\* nothing closes the connection either.
ControlReturn(s) ==
    /\ Goto(s, "control", "unwind")
    /\ UNCHANGED <<local, activeStreams, metrics, age>>

\* DnsNormal: whether or not ReplyDNS answers, DelCon runs.
DnsNormal(s) ==
    /\ Goto(s, "dns", "unwind")
    /\ CloseAndDelCon(s)
    /\ UNCHANGED <<activeStreams, metrics>>

\* The deferred alive.Add(-1).
Unwind(s) ==
    /\ Goto(s, "unwind", "leave")
    /\ alive' = Add(alive, s, -1)
    /\ UNCHANGED <<local, activeStreams, total, failed, active, isPaused, age>>

-----------------------------------------------------------------------------
(* TcpNormal: confirm, dial, Pipe.                                         *)

\* The confirmation is written before the target is dialled.
ConfirmOk(s) ==
    /\ Goto(s, "confirm", "dial")
    /\ UNCHANGED <<local, activeStreams, metrics, age>>

ConfirmFail(s) ==
    /\ Goto(s, "confirm", "unwind")
    /\ CloseAndDelCon(s)
    /\ UNCHANGED <<activeStreams, metrics>>

DialOk(s) ==
    /\ Goto(s, "dial", "pipe")
    /\ remote' = [remote EXCEPT ![s] = "open"]
    /\ copying' = [copying EXCEPT ![s] = Directions]
    /\ UNCHANGED <<cur, con, request, waited, activeStreams, metrics, age>>

\* Mutant of DialFail: a failed dial returns without DelCon.
DialFailLeavesOpen(s) ==
    /\ Goto(s, "dial", "unwind")
    /\ UNCHANGED <<local, activeStreams, metrics, age>>

DialFail(s) ==
    /\ Goto(s, "dial", "unwind")
    /\ CloseAndDelCon(s)
    /\ UNCHANGED <<activeStreams, metrics>>

\* Mutant of CopyEnd: a copy that ends closes neither connection.
CopyEndSilent(s, d) ==
    /\ pc[s] = "pipe"
    /\ d \in copying[s]
    /\ copying' = [copying EXCEPT ![s] = @ \ {d}]
    /\ UNCHANGED <<pc, cur, con, remote, request, waited, activeStreams, metrics, age>>

\* One streamCopy returns (end of file, error or 30 idle minutes) and its
\* deferred calls close both ends.
CopyEnd(s, d) ==
    /\ pc[s] = "pipe"
    /\ d \in copying[s]
    /\ copying' = [copying EXCEPT ![s] = @ \ {d}]
    /\ con' = [con EXCEPT ![s] = "closed"]
    /\ remote' = [remote EXCEPT ![s] = "closed"]
    /\ UNCHANGED <<pc, cur, request, waited, activeStreams, metrics, age>>

\* A copy that works on closed connections cannot but end.
CopyEndClosed(s, d) ==
    /\ con[s] = "closed" \/ remote[s] = "closed"
    /\ CopyEnd(s, d)

\* wg.Wait() returns; the deferred DelCon of TcpNormal.
PipeReturn(s) ==
    /\ copying[s] = {}
    /\ Goto(s, "pipe", "unwind")
    /\ CloseAndDelCon(s)
    /\ UNCHANGED <<activeStreams, metrics>>

-----------------------------------------------------------------------------
(* Time.                                                                   *)

\* Time passes while everybody waits.  A stream whose read deadline is due
\* does not wait any longer.
Tick ==
    /\ \A s \in Streams : pc[s] \in Waiting
    /\ \A s \in Streams : pc[s] = "handshake" => waited[s] < HandshakeDeadline
    /\ age' = [t \in Tunnels |-> IF age[t] > IdleThreshold THEN age[t]
                                                           ELSE age[t] + 1]
    /\ waited' = [s \in Streams |-> IF pc[s] = "handshake" THEN waited[s] + 1
                                                           ELSE waited[s]]
    /\ UNCHANGED <<pc, cur, con, remote, copying, request, activeStreams,
                   metrics>>

-----------------------------------------------------------------------------
\* What a handler does without waiting for its client.
Step(s) ==
    \/ AcquireUnlimited(s) \/ AcquireAdd(s) \/ AcquireCompare(s)
    \/ AcquireUndo(s) \/ Refuse(s) \/ ReleaseStream(s)
    \/ RecordLoad(s) \/ RecordPause(s) \/ TurnAway(s)
    \/ RecordTotal(s) \/ RecordActive(s) \/ RecordUnpause(s)
    \/ ReleaseConnection(s) \/ Hangup(s) \/ ControlReturn(s)
    \/ DnsNormal(s) \/ Unwind(s)
    \/ ConfirmOk(s) \/ ConfirmFail(s) \/ DialOk(s) \/ DialFail(s)
    \/ PipeReturn(s)

Next ==
    \/ \E s \in Streams : \/ Accept(s) \/ Step(s)
                          \/ HandshakeOk(s) \/ HandshakeFail(s)
                          \/ \E d \in Directions : CopyEnd(s, d)
    \/ Tick

Spec == Init /\ [][Next]_vars

(***************************************************************************)
(* Goroutines that can run do run; confirmation, dial and resolver calls   *)
(* return (write deadline, dial timeout, resolver timeout); the read       *)
(* deadline of the first request expires; a copy on a closed connection    *)
(* returns.  Nothing makes a client send its request or end its transfer.  *)
(***************************************************************************)
Fairness ==
    /\ WF_vars(Tick)
    /\ \A s \in Streams : /\ WF_vars(Step(s))
                          /\ WF_vars(HandshakeTimeout(s))
                          /\ \A d \in Directions : WF_vars(CopyEndClosed(s, d))

FairSpec == Spec /\ Fairness

-----------------------------------------------------------------------------
(* Who a counter counts.                                                   *)

\* Handlers whose increment of activeStreams is not yet taken back.
Holders == {s \in Streams : pc[s] \notin {"new", "acquire", "refuse", "done"}}

\* Handlers that TryAcquireStream let through.
Admitted == {s \in Holders : pc[s] \notin {"compare", "undo"}}

\* Handlers between the two halves of RecordConnection / ReleaseConnection.
Connected == {s \in Streams : pc[s] \in {"unpause", "handshake", "hangup",
                "control", "dns", "confirm", "dial", "pipe", "unwind", "leave"}}

\* Handlers between alive.Add(1) and alive.Add(-1).
Serving == {s \in Streams : pc[s] \in {"control", "dns", "confirm", "dial",
                                       "pipe", "unwind"}}

Of(t) == {s \in Streams : TunnelOf[s] = t}

\* The test CollectIdleTunnelIDs applies to a tunnel.
IsIdle(t) == alive[t] = 0 /\ age[t] > IdleThreshold

-----------------------------------------------------------------------------
(* Properties.                                                             *)

TypeOK ==
    /\ pc \in [Streams -> Running \cup Waiting]
    /\ cur \in [Streams -> Int]
    /\ con \in [Streams -> {"open", "closed"}]
    /\ remote \in [Streams -> {"none", "open", "closed"}]
    /\ copying \in [Streams -> SUBSET Directions]
    /\ request \in [Streams -> {"none", "control", "dns", "confirm"}]
    /\ waited \in [Streams -> Nat]
    /\ activeStreams \in Int
    /\ total \in [Tunnels -> Nat]
    /\ failed \in [Tunnels -> Nat]
    /\ active \in [Tunnels -> Int]
    /\ isPaused \in [Tunnels -> BOOLEAN]
    /\ alive \in [Tunnels -> Int]
    /\ age \in [Tunnels -> Nat]

\* The primary defence against exhaustion: however the Add, the comparison
\* and the undoing of TryAcquireStream interleave, no more than
\* globalStreamLimit handlers are past it.
GlobalCap == globalStreamLimit > 0 => Cardinality(Admitted) <= globalStreamLimit

\* The per-tunnel check is racy, yet the global budget still bounds what each
\* tunnel holds: its active connections and, over all tunnels, the sockets
\* dialled to targets (HandleConnAsync: "already bounded by the global stream
\* cap").
DialledBounded ==
    globalStreamLimit > 0 =>
        /\ \A t \in Tunnels : active[t] <= globalStreamLimit
        /\ Cardinality({s \in Streams : remote[s] = "open"}) <= globalStreamLimit

\* Every exit path of HandleConnAsync gives back exactly what it took: the
\* global counter, GetActiveCount and GetClientNum equal the numbers of
\* handlers between their increments and decrements.
CountersExact ==
    /\ globalStreamLimit > 0 => activeStreams = Cardinality(Holders)
    /\ \A t \in Tunnels : /\ active[t] = Cardinality(Connected \cap Of(t))
                          /\ alive[t] = Cardinality(Serving \cap Of(t))

\* A handler that ended closed its stream, and its target if it dialled one;
\* only a request of the R:// kind, which is given to nobody, leaves the
\* stream open (it never had a target).
FinishedMeansClosed ==
    \A s \in Streams : pc[s] = "done" =>
        /\ remote[s] # "open"
        /\ request[s] # "control" => con[s] = "closed"

\* The nightly reaper never sees a tunnel as idle while one of its streams is
\* being handled, the first-request wait included: alive does not count that
\* wait, but lastActive was stamped at accept and the wait is bounded by a
\* deadline shorter than the threshold; and DelCon stamps it again before
\* alive goes back to 0.
BusyIsNotIdle ==
    \A t \in Tunnels : IsIdle(t) =>
        \A s \in Of(t) : pc[s] \in {"new", "done"}

\* A stream that is accepted ends, or carries a transfer: neither a silent
\* client nor a target that does not answer holds a slot for ever.
AcceptedResolves ==
    \A s \in Streams : pc[s] = "acquire" ~> pc[s] \in {"pipe", "done"}

\* When one direction of a transfer ends, the stream ends and gives back its
\* slot.
PipeJoins ==
    \A s \in Streams :
        pc[s] = "pipe" /\ copying[s] # Directions ~> pc[s] = "done"

\* global_limit.go: GlobalActiveStreams "returns the number of streams
\* currently being processed", which is no negative number.
ActiveStreamsNotNegative == activeStreams >= 0

\* health_metrics.go calls maxConn the "Maximum allowed connections".
TunnelCap == maxConn > 0 => \A t \in Tunnels : active[t] <= maxConn

-----------------------------------------------------------------------------
(* The counter implements the budget: a stream is admitted when its        *)
(* comparison lets it through.                                             *)

Finished == {s \in Streams : /\ pc[s] = "done"
                             /\ cur[s] <= globalStreamLimit}

Budget == INSTANCE StreamBudget WITH limit <- globalStreamLimit,
                                     admitted <- Admitted, finished <- Finished

BudgetSpec == Budget!Spec

=============================================================================
