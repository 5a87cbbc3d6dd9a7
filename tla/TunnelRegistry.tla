--------------------------- MODULE TunnelRegistry ---------------------------
(***************************************************************************)
(* The life of a tunnel: the control requests that select, create, start   *)
(* and delete tunnels (servercontroll), the Server goroutine each Start     *)
(* spawns and its protocol's AcceptHandle (connections), the pool of ports  *)
(* and the firewall rules, and the nightly reaper.                         *)
(*                                                                         *)
(* A request creates at most one tunnel and starts at most one Server, so  *)
(* tunnels, Server goroutines and requests share the names 1..N: tunnel i  *)
(* is the one request i created, server i the goroutine request i spawned. *)
(* DelProxy runs in a request, in a server's exit or in the reaper: those  *)
(* are its actors.                                                         *)
(***************************************************************************)
EXTENDS Integers, Sequences, FiniteSets, SequencesExt

CONSTANTS Requests,   \* the control requests that arrive
          Kinds,      \* what they may ask for
          Types,      \* protocols they may name, of tls, ss, quic, kcp
          Ports,      \* the range GiveAPort walks, in ascending order
          MaxTunnels, \* the cap on the number of tunnels
          Passes      \* how often the reaper wakes up

ASSUME RequestsAssumption == Requests \subseteq Nat \ {0}
ASSUME KindsAssumption ==
    Kinds \subseteq {"get", "getType", "err", "new", "del", "closeAll"}
ASSUME TypesAssumption == Types \subseteq {"tls", "ss", "quic", "kcp"}
ASSUME PortsAssumption == Ports \subseteq Nat \ {0}
ASSUME BoundsAssumption == MaxTunnels \in Nat \ {0} /\ Passes \in Nat

None == 0                  \* no tunnel, no listener, and GiveAPort's -1
Handler(r) == <<"request", r>>
Server(r) == <<"server", r>>
Reaper == <<"reaper", 0>>
Actors == {Handler(r) : r \in Requests} \cup {Server(r) : r \in Requests}
              \cup {Reaper}

VARIABLES
    Tunnels,   \* the shared list
    port, type, on, zero, \* per tunnel: config, On, the protocol's ZeroToDel
    listener,  \* per tunnel: the server whose listener the protocol stored
    busy,      \* per tunnel: a client has a stream on it
    used,      \* LISTENER_USED_PORTS
    allowed,   \* ports the firewall lets through
    pc, want, sel, \* per request: where it is, type it wants, its tunnel
    spc, bound,    \* per server: where it is, whether it holds a socket
    dpc, victim, grabbed, todo, \* per actor: DelProxy's progress and queue
    passes     \* wake-ups the reaper has had

config == <<port, type>>
lifecycle == <<on, zero, listener>>
handlers == <<pc, want, sel>>
servers == <<spc, bound>>
deletes == <<dpc, victim, grabbed, todo>>
vars == <<Tunnels, config, lifecycle, busy, used, allowed, handlers, servers,
          deletes, passes>>

Init ==
    /\ Tunnels = <<>>
    /\ port = [t \in Requests |-> None]
    /\ type = [t \in Requests |-> "none"]
    /\ on = [t \in Requests |-> FALSE]
    /\ zero = [t \in Requests |-> FALSE]
    /\ listener = [t \in Requests |-> None]
    /\ busy = [t \in Requests |-> FALSE]
    /\ used = {}
    /\ allowed = {}
    /\ pc = [r \in Requests |-> "new"]
    /\ want = [r \in Requests |-> "none"]
    /\ sel = [r \in Requests |-> None]
    /\ spc = [r \in Requests |-> "none"]
    /\ bound = [r \in Requests |-> FALSE]
    /\ dpc = [a \in Actors |-> "idle"]
    /\ victim = [a \in Actors |-> None]
    /\ grabbed = [a \in Actors |-> None]
    /\ todo = [a \in Actors |-> {}]
    /\ passes = 0

-----------------------------------------------------------------------------
(* Ports, sockets and the firewall.                                        *)

Transport(tp) == IF tp \in {"tls", "ss"} THEN "tcp" ELSE "udp"

\* A socket of this transport is bound to port p.
IsBound(transport, p) ==
    \E r \in Requests : /\ bound[r]
                        /\ port[sel[r]] = p
                        /\ Transport(type[sel[r]]) = transport

\* GiveAPort tries the ports that are not marked used in ascending order with
\* a TCP listener; the ports that fail are marked used as well.
Failing == {p \in Ports \ used : IsBound("tcp", p)}
Free == (Ports \ used) \ Failing
GiveAPort == IF Free = {} THEN None
             ELSE CHOOSE p \in Free : \A q \in Free : p <= q
MarkUsed(p) == used \cup (IF p = None THEN Failing
                          ELSE {p} \cup {q \in Failing : q < p})

\* Mutant of ReleasePort: the port stays marked.
ReleaseNoPort(p) == UNCHANGED used

ReleasePort(p) == used' = used \ {p}
\* Mutant of ClosePortUFW: the firewall rule stays.
CloseNoPortUFW(p) == UNCHANGED allowed

ClosePortUFW(p) == allowed' = allowed \ {p}

-----------------------------------------------------------------------------
(* Requests.                                                               *)

GotoH(r, from, to) == /\ pc[r] = from
                      /\ pc' = [pc EXCEPT ![r] = to]

\* Start of DelProxy in actor a, for the tunnels in T one after the other.
BeginDelete(a, T) == todo' = [todo EXCEPT ![a] = T]

Deleting(a) == todo[a] # {} \/ dpc[a] # "idle"

Listed == {Tunnels[i] : i \in DOMAIN Tunnels}

\* The tunnel whose id a client sends: one on the list, or none.
Named == {{}} \cup {{t} : t \in Listed}

\* /proxy-get without a type: LockArea counts the tunnels.  An empty list
\* means a new quic tunnel, at once.
ArriveGet(r) ==
    /\ "get" \in Kinds
    /\ GotoH(r, "new", IF Tunnels = <<>> THEN "create" ELSE "select")
    /\ want' = [want EXCEPT ![r] = IF Tunnels = <<>> THEN "quic" ELSE "any"]
    /\ UNCHANGED <<Tunnels, config, lifecycle, busy, used, allowed, sel,
                   servers, deletes, passes>>

\* /proxy-get with a type.
ArriveGetType(r) ==
    /\ "getType" \in Kinds
    /\ GotoH(r, "new", "select")
    /\ \E tp \in Types : want' = [want EXCEPT ![r] = tp]
    /\ UNCHANGED <<Tunnels, config, lifecycle, busy, used, allowed, sel,
                   servers, deletes, passes>>

\* /proxy-err: delete the tunnel the client names, then create another of
\* whatever type has the lowest error rate, cap or no cap.
ArriveErr(r) ==
    /\ "err" \in Kinds
    /\ GotoH(r, "new", "report")
    /\ \E tp \in Types : want' = [want EXCEPT ![r] = tp]
    /\ \E T \in Named : BeginDelete(Handler(r), T)
    /\ UNCHANGED <<Tunnels, config, lifecycle, busy, used, allowed, sel,
                   servers, dpc, victim, grabbed, passes>>

\* A request whose body cannot be read, and a /proxy-err about targets that
\* the server does reach, are answered without touching anything.
Decline(r) ==
    /\ GotoH(r, "new", "done")
    /\ UNCHANGED <<Tunnels, config, lifecycle, busy, used, allowed, want, sel,
                   servers, deletes, passes>>

Report(r) ==
    /\ ~Deleting(Handler(r))
    /\ GotoH(r, "report", "createErr")
    /\ UNCHANGED <<Tunnels, config, lifecycle, busy, used, allowed, want, sel,
                   servers, deletes, passes>>

\* /proxy-new: a tls tunnel that is neither listed nor started.
ArriveNew(r) ==
    /\ "new" \in Kinds
    /\ GotoH(r, "new", "createOnly")
    /\ want' = [want EXCEPT ![r] = "tls"]
    /\ UNCHANGED <<Tunnels, config, lifecycle, busy, used, allowed, sel,
                   servers, deletes, passes>>

\* /proxy-del and /__close-all (which collects the list under the lock).
ArriveDelete(r) ==
    /\ GotoH(r, "new", "deleting")
    /\ \/ "del" \in Kinds /\ \E T \in Named : BeginDelete(Handler(r), T)
       \/ "closeAll" \in Kinds /\ BeginDelete(Handler(r), Listed)
    /\ UNCHANGED <<Tunnels, config, lifecycle, busy, used, allowed, want, sel,
                   servers, dpc, victim, grabbed, passes>>

Deleted(r) ==
    /\ ~Deleting(Handler(r))
    /\ GotoH(r, "deleting", "done")
    /\ UNCHANGED <<Tunnels, config, lifecycle, busy, used, allowed, want, sel,
                   servers, deletes, passes>>

\* selectBestTunnel and selectByType, under the lock: the best scored of the
\* running tunnels that accept connections (any of them may be), or none.
Select(r) ==
    LET fit == {t \in Listed : on[t] /\ want[r] \in {"any", type[t]}}
    IN  /\ \/ \E t \in fit : /\ GotoH(r, "select", "ison")
                             /\ sel' = [sel EXCEPT ![r] = t]
           \/ GotoH(r, "select", "capcheck") /\ UNCHANGED sel
        /\ UNCHANGED <<Tunnels, config, lifecycle, busy, used, allowed, want,
                       servers, deletes, passes>>

\* Tunnels.Count() >= MaxTunnels, read without the lock.
CapCheck(r) ==
    /\ GotoH(r, "capcheck", IF Len(Tunnels) >= MaxTunnels THEN "first"
                                                          ELSE "create")
    /\ want' = [want EXCEPT ![r] = IF @ = "any" THEN "quic" ELSE @]
    /\ UNCHANGED <<Tunnels, config, lifecycle, busy, used, allowed, sel,
                   servers, deletes, passes>>

\* At the cap: the first tunnel of the list, whatever its state.
First(r) ==
    /\ IF Tunnels # <<>>
       THEN /\ GotoH(r, "first", "ison")
            /\ sel' = [sel EXCEPT ![r] = Head(Tunnels)]
       ELSE GotoH(r, "first", "create") /\ UNCHANGED sel
    /\ UNCHANGED <<Tunnels, config, lifecycle, busy, used, allowed, want,
                   servers, deletes, passes>>

\* NewProxy: RandomConfig takes a port (and OpenPortUFW opens it), then the
\* protocol's server object is built around it.
Create(r) ==
    /\ \/ GotoH(r, "create", "add")
       \/ GotoH(r, "createErr", "addErr")
       \/ GotoH(r, "createOnly", "given")
    /\ sel' = [sel EXCEPT ![r] = r]
    /\ port' = [port EXCEPT ![r] = GiveAPort]
    /\ type' = [type EXCEPT ![r] = want[r]]
    /\ used' = MarkUsed(GiveAPort)
    /\ allowed' = (allowed \cup {GiveAPort}) \ {None}
    /\ UNCHANGED <<Tunnels, lifecycle, busy, want, servers, deletes, passes>>

AddProxy(r) ==
    /\ \/ GotoH(r, "add", "ison")
       \/ GotoH(r, "addErr", "start")
    /\ Tunnels' = Append(Tunnels, sel[r])
    /\ UNCHANGED <<config, lifecycle, busy, used, allowed, want, sel,
                   servers, deletes, passes>>

\* if !tu.On, read without a lock.  /proxy-err starts its tunnel unasked.
IsOn(r) ==
    /\ GotoH(r, "ison", IF on[sel[r]] THEN "done" ELSE "start")
    /\ UNCHANGED <<Tunnels, config, lifecycle, busy, used, allowed, want, sel,
                   servers, deletes, passes>>

\* ProxyTunnel.Start: On = true and a Server goroutine; the reply follows.
Start(r) ==
    /\ GotoH(r, "start", "done")
    /\ on' = [on EXCEPT ![sel[r]] = TRUE]
    /\ spc' = [spc EXCEPT ![r] = "bind"]
    /\ UNCHANGED <<Tunnels, config, zero, listener, busy, used, allowed, want,
                   sel, bound, deletes, passes>>

-----------------------------------------------------------------------------
(* The Server goroutine and its protocol's AcceptHandle.                   *)

GotoS(r, from, to) == /\ spc[r] = from
                      /\ spc' = [spc EXCEPT ![r] = to]

\* GetListener: fails when the port is taken or is no port.
Bind(r) ==
    LET t == sel[r]
        ok == port[t] # None /\ ~IsBound(Transport(type[t]), port[t])
    IN  /\ GotoS(r, "bind", IF ok THEN "publish" ELSE "off")
        /\ bound' = [bound EXCEPT ![r] = ok]
        /\ UNCHANGED <<Tunnels, config, lifecycle, busy, used, allowed,
                       handlers, deletes, passes>>

\* Mutant of Publish: ZeroToDel is not looked at.
PublishUnchecked(r) ==
    LET t == sel[r]
    IN  /\ GotoS(r, "publish", "serve")
        /\ listener' = IF type[t] = "ss" THEN listener
                       ELSE [listener EXCEPT ![t] = r]
        /\ UNCHANGED <<Tunnels, config, on, zero, busy, used, allowed,
                       handlers, bound, deletes, passes>>

\* Under the protocol's lock: read ZeroToDel and store the listener.  The ss
\* server stores nothing; it looks at the flag once a minute.
Publish(r) ==
    LET t == sel[r]
    IN  /\ GotoS(r, "publish", IF zero[t] /\ type[t] # "ss" THEN "shut"
                                                            ELSE "serve")
        /\ listener' = IF type[t] = "ss" THEN listener
                       ELSE [listener EXCEPT ![t] = r]
        /\ UNCHANGED <<Tunnels, config, on, zero, busy, used, allowed,
                       handlers, bound, deletes, passes>>

\* Accept fails once the listener is closed; the ss ticker finds the flag.
\* A listener may also fail on its own.
MustEnd(r) ==
    \/ ~bound[r]
    \/ type[sel[r]] = "ss" /\ zero[sel[r]]

AcceptError(r) ==
    /\ GotoS(r, "serve", "shut")
    /\ UNCHANGED <<Tunnels, config, lifecycle, busy, used, allowed, handlers,
                   bound, deletes, passes>>

AcceptEnds(r) == AcceptError(r) /\ MustEnd(r)

\* listener.Close(), deferred or because the tunnel was deleted early.
Shut(r) ==
    /\ GotoS(r, "shut", "off")
    /\ bound' = [bound EXCEPT ![r] = FALSE]
    /\ UNCHANGED <<Tunnels, config, lifecycle, busy, used, allowed, handlers,
                   deletes, passes>>

\* Server's deferred function: On = false and the firewall rule, the port,
\* and after(), which is DelProxy of the tunnel's own id.
ServerOff(r) ==
    /\ GotoS(r, "off", "release")
    /\ on' = [on EXCEPT ![sel[r]] = FALSE]
    /\ ClosePortUFW(port[sel[r]])
    /\ UNCHANGED <<Tunnels, config, zero, listener, busy, used, handlers,
                   bound, deletes, passes>>

\* Mutant of ServerRelease: after() is not called.
ServerReleaseNoAfter(r) ==
    /\ GotoS(r, "release", "exit")
    /\ ReleasePort(port[sel[r]])
    /\ UNCHANGED <<Tunnels, config, lifecycle, busy, allowed, handlers, bound,
                   deletes, passes>>

ServerRelease(r) ==
    /\ GotoS(r, "release", "exit")
    /\ ReleasePort(port[sel[r]])
    /\ BeginDelete(Server(r), {sel[r]})
    /\ UNCHANGED <<Tunnels, config, lifecycle, busy, allowed, handlers, bound,
                   dpc, victim, grabbed, passes>>

-----------------------------------------------------------------------------
(* DelProxy.                                                               *)

GotoD(a, from, to) == /\ dpc[a] = from
                      /\ dpc' = [dpc EXCEPT ![a] = to]

\* Under the package lock: take the tunnel off the list, where it is once
\* (only the request that created it adds it).  A tunnel that is not on the
\* list is not torn down again.
Unlist(a) ==
    \E t \in todo[a] :
        /\ todo' = [todo EXCEPT ![a] = @ \ {t}]
        /\ victim' = [victim EXCEPT ![a] = t]
        /\ \/ \E i \in DOMAIN Tunnels : /\ Tunnels[i] = t
                                        /\ GotoD(a, "idle", "flag")
                                        /\ Tunnels' = RemoveAt(Tunnels, i)
           \/ t \notin Listed /\ GotoD(a, "idle", "idle") /\ UNCHANGED Tunnels
        /\ UNCHANGED <<config, lifecycle, busy, used, allowed, handlers,
                       servers, grabbed, passes>>

\* TryClose: set ZeroToDel and fetch the listener under the protocol's lock,
Flag(a) ==
    /\ GotoD(a, "flag", "close")
    /\ zero' = [zero EXCEPT ![victim[a]] = TRUE]
    /\ grabbed' = [grabbed EXCEPT ![a] = listener[victim[a]]]
    /\ UNCHANGED <<Tunnels, config, on, listener, busy, used, allowed,
                   handlers, servers, victim, todo, passes>>

\* Mutant of CloseListener: the listener is left to notice the flag.
CloseNothing(a) ==
    /\ GotoD(a, "close", "ufw")
    /\ UNCHANGED <<Tunnels, config, lifecycle, busy, used, allowed, handlers,
                   servers, victim, grabbed, todo, passes>>

\* then close it, if there is one.
CloseListener(a) ==
    /\ GotoD(a, "close", "ufw")
    /\ bound' = [r \in Requests |-> bound[r] /\ r # grabbed[a]]
    /\ UNCHANGED <<Tunnels, config, lifecycle, busy, used, allowed, handlers,
                   spc, victim, grabbed, todo, passes>>

CloseUFW(a) ==
    /\ GotoD(a, "ufw", "free")
    /\ ClosePortUFW(port[victim[a]])
    /\ UNCHANGED <<Tunnels, config, lifecycle, busy, used, handlers, servers,
                   victim, grabbed, todo, passes>>

FreePort(a) ==
    /\ GotoD(a, "free", "idle")
    /\ ReleasePort(port[victim[a]])
    /\ UNCHANGED <<Tunnels, config, lifecycle, busy, allowed, handlers,
                   servers, victim, grabbed, todo, passes>>

-----------------------------------------------------------------------------
(* Clients and the reaper.                                                 *)

\* A client opens its first stream on a tunnel, or closes its last.
Connect(r) ==
    /\ spc[r] = "serve" /\ bound[r] /\ ~busy[sel[r]]
    /\ busy' = [busy EXCEPT ![sel[r]] = TRUE]
    /\ UNCHANGED <<Tunnels, config, lifecycle, used, allowed, handlers,
                   servers, deletes, passes>>

Disconnect(t) ==
    /\ busy[t]
    /\ busy' = [busy EXCEPT ![t] = FALSE]
    /\ UNCHANGED <<Tunnels, config, lifecycle, used, allowed, handlers,
                   servers, deletes, passes>>

\* CollectIdleTunnelIDs under the lock: tunnels without a stream that have
\* not been used for an hour (any of the former may be).  The reaper then
\* deletes them one by one.
Collect ==
    /\ passes < Passes
    /\ ~Deleting(Reaper)
    /\ \E T \in SUBSET {t \in Listed : ~busy[t]} : BeginDelete(Reaper, T)
    /\ passes' = passes + 1
    /\ UNCHANGED <<Tunnels, config, lifecycle, busy, used, allowed, handlers,
                   servers, dpc, victim, grabbed>>

-----------------------------------------------------------------------------
HandlerStep(r) ==
    \/ Report(r) \/ Deleted(r) \/ Select(r) \/ CapCheck(r) \/ First(r)
    \/ Create(r) \/ AddProxy(r) \/ IsOn(r) \/ Start(r)

Arrive(r) == ArriveGet(r) \/ ArriveGetType(r) \/ ArriveErr(r)
                 \/ ArriveNew(r) \/ ArriveDelete(r) \/ Decline(r)

ServerStep(r) ==
    \/ Bind(r) \/ Publish(r) \/ AcceptEnds(r) \/ Shut(r)
    \/ ServerOff(r) \/ ServerRelease(r)

DeleteStep(a) == Unlist(a) \/ Flag(a) \/ CloseListener(a) \/ CloseUFW(a)
                     \/ FreePort(a)

Next ==
    \/ \E r \in Requests : \/ Arrive(r) \/ HandlerStep(r) \/ ServerStep(r)
                           \/ AcceptError(r) \/ Connect(r) \/ Disconnect(r)
    \/ \E a \in Actors : DeleteStep(a)
    \/ Collect

Spec == Init /\ [][Next]_vars

\* Goroutines that can run do run.  Nothing obliges requests to arrive, the
\* reaper to wake up, clients to come and go, or a listener to fail.
Fairness ==
    /\ \A r \in Requests : WF_vars(HandlerStep(r)) /\ WF_vars(ServerStep(r))
    /\ \A a \in Actors : WF_vars(DeleteStep(a))

FairSpec == Spec /\ Fairness

-----------------------------------------------------------------------------
(* Properties.                                                             *)

TypeOK ==
    /\ Tunnels \in Seq(Requests)
    /\ port \in [Requests -> Ports \cup {None}]
    /\ type \in [Requests -> {"none", "tls", "ss", "quic", "kcp"}]
    /\ on \in [Requests -> BOOLEAN]
    /\ zero \in [Requests -> BOOLEAN]
    /\ listener \in [Requests -> Requests \cup {None}]
    /\ busy \in [Requests -> BOOLEAN]
    /\ used \in SUBSET Ports
    /\ allowed \in SUBSET Ports
    /\ pc \in [Requests -> {"new", "select", "capcheck", "first", "report",
                 "create", "createErr", "createOnly", "add", "addErr", "ison",
                 "start", "deleting", "given", "done"}]
    /\ want \in [Requests -> {"none", "any", "tls", "ss", "quic", "kcp"}]
    /\ sel \in [Requests -> Requests \cup {None}]
    /\ spc \in [Requests -> {"none", "bind", "publish", "serve", "shut", "off",
                             "release", "exit"}]
    /\ bound \in [Requests -> BOOLEAN]
    /\ dpc \in [Actors -> {"idle", "flag", "close", "ufw", "free"}]
    /\ victim \in [Actors -> Requests \cup {None}]
    /\ grabbed \in [Actors -> Requests \cup {None}]
    /\ todo \in [Actors -> SUBSET Requests]
    /\ passes \in Nat

\* Servers of tunnel t that hold a socket.
Sockets(t) == {r \in Requests : sel[r] = t /\ bound[r]}

\* Server r is past AcceptHandle's early check, in its accept loop.
IsServing(r) == spc[r] = "serve" /\ bound[r]

\* Whichever of AcceptHandle and TryClose takes the protocol's lock first, a
\* deleted tunnel never keeps on accepting: either the listener was not yet
\* stored and the server finds ZeroToDel, or TryClose found the listener and
\* is about to close it.  (The ss server polls the flag instead.)
NoMissedClose ==
    \A r \in Requests :
        IsServing(r) /\ zero[sel[r]] /\ type[sel[r]] # "ss" =>
            \E a \in Actors : dpc[a] = "close" /\ grabbed[a] = r

\* Somebody still answers for tunnel t: it is listed, or on its way into the
\* list, or being deleted, or one of its servers has not finished, or it was
\* given away by /proxy-new.
HasOwner(t) ==
    \/ t \in Listed
    \/ pc[t] \in {"add", "addErr", "given"}
    \/ \E a \in Actors : dpc[a] # "idle" /\ victim[a] = t
    \/ \E r \in Requests : sel[r] = t /\ spc[r] \notin {"none", "exit"}

\* ReleasePort exists because "the port pool only grows upward" without it:
\* no port stays marked used, and no firewall rule stays open, when nobody is
\* left to give it back, double releases and failed probes included.
NoPortLeak ==
    \A p \in used \cup allowed : \E t \in Requests : port[t] = p /\ HasOwner(t)

\* tlsserver_test.go: deletion "makes AcceptHandle return" and "the port is
\* actually freed".  A tunnel that is deleted ends up off and without a
\* socket, however often it was started.
DeletedStops ==
    \A t \in Requests : zero[t] ~> ~on[t] /\ Sockets(t) = {}

\* A tunnel does not stay on the list without a server: the tunnel that
\* AddProxy lists before Start is accepting, or off the list, in the end.
ListedResolves ==
    \A t \in Requests :
        t \in Listed ~> t \notin Listed \/ \E r \in Sockets(t) : IsServing(r)

\* proxy_release.go: "MaxTunnels caps how many proxy tunnels may exist".
CapRespected == Len(Tunnels) <= MaxTunnels

\* base.go: ReleasePort "frees a previously allocated tunnel port so GiveAPort
\* can hand it out again": a port is handed out again after it is freed, so no
\* two listed tunnels have the same.
PortsExclusive ==
    \A i, j \in DOMAIN Tunnels :
        i # j => \/ port[Tunnels[i]] # port[Tunnels[j]]
                 \/ port[Tunnels[i]] = None

\* tlsserver_test.go calls a listener "that kept the port bound after
\* ProxyTunnel.Server had already released it in accounting" a zombie: a
\* bound port is marked used.
BoundIsAccounted == \A r \in Requests : bound[r] => port[sel[r]] \in used

\* all_servers_test.go: in a reaper pass "a tunnel with an in-flight stream
\* survives".
ReaperSparesBusy == dpc[Reaper] = "flag" => ~busy[victim[Reaper]]

=============================================================================
