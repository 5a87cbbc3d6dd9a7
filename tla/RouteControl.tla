---------------------------- MODULE RouteControl ----------------------------
(***************************************************************************)
(* Which route the client uses: the local API (deploy/httpcontroll.go)     *)
(* keeps one ClientControl, and a ClientControl runs the route as a child  *)
(* process "<self> -H <server>" that it starts, kills and finds by ps      *)
(* (clientcontroll/controll.go, cmd.go).  A child that cannot build its    *)
(* tunnels reports "connected: no" to the API and ends; one that can binds *)
(* the local port, waiting for as long as another one holds it.            *)
(*                                                                         *)
(* Requests are served by goroutines of their own and nothing serialises   *)
(* them.  Each keeps the list of the steps it has left; a step is one      *)
(* shell command or one assignment to what other goroutines see.  What ps  *)
(* tells depends on the machine: that of a router (busybox) shows the      *)
(* arguments of processes, so that the grep of CheckProcess may match      *)
(* itself, but has the process number in the first column, where           *)
(* GetProcessPID does not look; that of Linux shows no arguments unless    *)
(* asked to, as only GetProcessPID does; that of macOS shows them and has  *)
(* the number in the second column of ps aux.                              *)
(***************************************************************************)
EXTENDS Integers, Sequences, FiniteSets, SequencesExt

CONSTANTS
    Hosts,      \* servers
    Handlers,   \* goroutines that serve requests of the local API, 1 .. n
    Pids,       \* process numbers, 1 .. n
    Ctls,       \* ClientControl objects, 1 .. n
    Goods,      \* bound: the sets of servers that may work
    Lists,      \* lists of servers a login may bring
    MaxEvents,  \* bound: requests, reports and deaths of children together
    None        \* no server, an empty string or an absent field

ASSUME ListsAssumption == Lists \subseteq Seq(Hosts) \ {<<>>}
ASSUME NumbersAssumption ==
    /\ \A S \in {Handlers, Pids, Ctls} : S \subseteq Nat \ {0}
    /\ IsFiniteSet(Handlers)
ASSUME GoodsAssumption == Goods \subseteq SUBSET Hosts
ASSUME BoundsAssumption == MaxEvents \in Nat
ASSUME NoneAssumption == None \notin Hosts

VARIABLES
    machine,  \* "router", "linux" or "macos"
    good,     \* the servers on which tunnels can be built
    procs,    \* the child processes
    port,     \* the child that holds the local port, or 0
    ctls,     \* the ClientControl objects: Addr, RuningRoutePID, IsRunning
    ctl,      \* globalClient.ClientConf, or 0
    routes,   \* globalClient.Routes
    last,     \* last
    saved,    \* "last" in proxy-z.auth.conf
    todo,     \* the steps each handler has left
    cur,      \* the ClientControl whose method a handler runs
    fresh,    \* the child it has started and not yet noted
    events,
    round,    \* history: "none", or how the requests in flight or ended last met
    foreign   \* history: the last save was made by a switch of the firewall

children == <<procs, port>>
api == <<ctl, routes, last, saved>>
locals == <<cur, fresh>>
history == <<round, foreign>>
vars == <<machine, good, children, ctls, api, todo, locals, events, history>>

Machines == {"router", "linux", "macos"}

NoProc == [host |-> None, st |-> "none"]
States == {"none", "init", "bind", "up", "failed", "posted"}
Alive(p) == procs[p] # NoProc
Busy(h) == todo[h] # <<>>

NoCtl == [Addr |-> None, pid |-> 0, running |-> FALSE]

Init ==
    /\ machine \in Machines /\ good \in Goods
    /\ procs = [p \in Pids |-> NoProc] /\ port = 0
    /\ ctls = [c \in Ctls |-> NoCtl] /\ ctl = 0
    /\ routes = <<>> /\ last = None /\ saved = None
    /\ todo = [h \in Handlers |-> <<>>]
    /\ cur = [h \in Handlers |-> 0] /\ fresh = [h \in Handlers |-> 0]
    /\ events = 0 /\ round = "none" /\ foreign = FALSE

-----------------------------------------------------------------------------
(* The next server of the list, as the loops of the handlers choose it.     *)

\* The loops keep the index of the last server that was now (nowix) and take
\* every server with the index after it; the first one otherwise.
NextIndex(list, now) ==
    Max({1} \cup {no \in 2 .. Len(list) : list[no - 1] = now /\ list[no] # now})

\* Mutant: the index is compared without the + 1.
NextRouteStays(list, now) ==
    list[Max({1} \cup {no \in 1 .. Len(list) : list[no] = now})]

NextRoute(list, now) == list[NextIndex(list, now)]

-----------------------------------------------------------------------------
(* Steps of a handler.                                                      *)

Head1(h) == Head(todo[h])[1]
At(h, s) == Busy(h) /\ Head1(h) = s
Then(h, steps) == todo' = [todo EXCEPT ![h] = steps \o Tail(@)]
Do(h) == ctls[cur[h]]

TryClose == << <<"close">> >>
StartRoute == << <<"find", None>>, <<"exec">>, <<"note">>, <<"check">> >>
\* Mutant: the route in use is not closed.
ChangeWithoutClose(host) == << <<"find", host>> >> \o Tail(StartRoute)

ChangeRoute(host) ==
    << <<"closeOld">>, <<"find", host>>, <<"exec">>, <<"note">>, <<"check">> >>

\* CheckProcess: what it may answer for the server addr when ps are the
\* processes.
Answers(addr, ps) ==
    IF machine = "linux" THEN {FALSE}
    ELSE {TRUE, \E p \in Pids : ps[p].host = addr}

\* GetProcessPID finds the children.
finds == machine # "router"

\* procs and port once the processes in S are killed.
Kill(S) ==
    /\ procs' = [p \in Pids |-> IF p \in S THEN NoProc ELSE procs[p]]
    /\ port' = IF port \in S THEN 0 ELSE port

\* Mutant: the number of the child is forgotten before it is killed.
CloseForgets(h) ==
    /\ \/ At(h, "close") \/ At(h, "closeOld")
    /\ ctls' = [ctls EXCEPT ![cur[h]].pid = 0, ![cur[h]].running = FALSE]
    /\ Then(h, <<>>)
    /\ UNCHANGED <<children, api, locals, events, foreign>>

\* CloseRoute: kill -9, then CheckProcess.
Close(h) ==
    /\ \/ At(h, "close") \/ At(h, "closeOld")
    /\ Kill({Do(h).pid} \cap {p \in Pids : Alive(p)})
    /\ \E seen \in Answers(Do(h).Addr, procs') :
         ctls' = [ctls EXCEPT ![cur[h]] =
           IF @.pid = 0 \/ seen THEN @
           ELSE [Addr |-> @.Addr, running |-> FALSE,
                 pid |-> IF At(h, "closeOld") THEN 0 ELSE @.pid]]
    /\ Then(h, <<>>)
    /\ UNCHANGED <<api, locals, events, foreign>>

\* Mutant: StartRoute kills nothing.
FindNothing(h) ==
    /\ At(h, "find") /\ Then(h, <<>>)
    /\ ctls' = [ctls EXCEPT ![cur[h]].Addr = IF Head(todo[h])[2] = None THEN @
                                              ELSE Head(todo[h])[2]]
    /\ UNCHANGED <<children, api, locals, events, foreign>>

\* ChangeRoute notes the new server; StartRoute kills the first child that ps
\* lists (GetProcessPID).
Find(h) ==
    /\ At(h, "find") /\ Then(h, <<>>)
    /\ ctls' = [ctls EXCEPT ![cur[h]].Addr = IF Head(todo[h])[2] = None THEN @
                                              ELSE Head(todo[h])[2]]
    /\ Kill({p \in Pids : finds /\ Alive(p) /\ \A q \in Pids : Alive(q) => p <= q})
    /\ UNCHANGED <<api, locals, events, foreign>>

\* ExecBackgroud starts the child and sleeps for a second ...
Exec(h) ==
    /\ At(h, "exec") /\ Then(h, <<>>)
    /\ \E p \in Pids :
         /\ ~Alive(p) /\ \A c \in Ctls : ctls[c].pid # p
         /\ \A q \in Pids : q < p =>
               Alive(q) \/ (\E c \in Ctls : ctls[c].pid = q)
         /\ procs' = [procs EXCEPT ![p] = [host |-> Do(h).Addr, st |-> "init"]]
         /\ fresh' = [fresh EXCEPT ![h] = p]
    /\ UNCHANGED <<port, ctls, api, cur, events, foreign>>

\* ... before its number is known.
Note(h) ==
    /\ At(h, "note") /\ Then(h, <<>>)
    /\ ctls' = [ctls EXCEPT ![cur[h]].pid = fresh[h]]
    /\ fresh' = [fresh EXCEPT ![h] = 0]
    /\ UNCHANGED <<children, api, cur, events, foreign>>

CheckRoute(h) ==
    /\ At(h, "check") /\ Then(h, <<>>)
    /\ \E seen \in Answers(Do(h).Addr, procs) :
         ctls' = [ctls EXCEPT ![cur[h]].running = @ \/ seen]
    /\ cur' = [cur EXCEPT ![h] = 0]
    /\ UNCHANGED <<children, api, fresh, events, foreign>>

Save(h) ==
    /\ At(h, "save") /\ Then(h, <<>>)
    /\ saved' = Head(todo[h])[2] /\ foreign' = FALSE
    /\ UNCHANGED <<children, ctls, ctl, routes, last, locals, events>>

\* The method is called on the object the global variable holds by now.  A
\* request for a host sets last before it, a login changes to what last is.
Load(h) ==
    /\ At(h, "change")
    /\ last' = IF Head(todo[h])[2] = None THEN last ELSE Head(todo[h])[2]
    /\ Then(h, ChangeRoute(last')) /\ cur' = [cur EXCEPT ![h] = ctl]
    /\ UNCHANGED <<children, ctls, ctl, routes, saved, fresh, events, foreign>>

LoadNext(h) ==
    /\ At(h, "changeNext") /\ Then(h, ChangeRoute(Head(todo[h])[2]))
    /\ cur' = [cur EXCEPT ![h] = ctl]
    /\ UNCHANGED <<children, ctls, api, fresh, events, foreign>>

\* A new ClientControl for host, in place of the global one, which is
\* forgotten unless another handler still runs a method of it.
New(h, host) ==
    LET used == {cur[b] : b \in Handlers \ {h}}
    IN  \E c \in Ctls \ (used \cup {ctl}) :
          /\ \A d \in Ctls \ (used \cup {ctl}) : c <= d
          /\ ctls' = [d \in Ctls |->
                        CASE d = c -> [NoCtl EXCEPT !.Addr = host]
                          [] d # c /\ d = ctl /\ d \notin used -> NoCtl
                          [] OTHER -> ctls[d]]
          /\ ctl' = c /\ cur' = [cur EXCEPT ![h] = c]

Renew(h) ==
    /\ At(h, "renew") /\ Then(h, <<>>) /\ New(h, Head(todo[h])[2])
    /\ UNCHANGED <<children, routes, last, saved, fresh, events, foreign>>

\* Mutant: the file keeps the server that is left.
NextSavesOld(h) ==
    /\ At(h, "next")
    /\ LET now == IF Head(todo[h])[2] = None THEN ctls[ctl].Addr
                                             ELSE Head(todo[h])[2]
       IN  Then(h, << <<"save", now>>, <<"changeNext", NextRoute(routes, now)>> >>)
    /\ UNCHANGED <<children, ctls, api, locals, events, foreign>>

\* The server after the one in use, or after the one that was reported.
Next1(h) ==
    /\ At(h, "next")
    /\ LET now == IF Head(todo[h])[2] = None THEN ctls[ctl].Addr
                                             ELSE Head(todo[h])[2]
           oo == NextRoute(routes, now)
       IN  Then(h, << <<"save", oo>>, <<"changeNext", oo>> >>)
    /\ UNCHANGED <<children, ctls, api, locals, events, foreign>>

Step(h) ==
    /\ Busy(h)
    /\ \/ Close(h) \/ Find(h) \/ Exec(h) \/ Note(h) \/ CheckRoute(h)
       \/ Save(h) \/ Load(h) \/ LoadNext(h) \/ Renew(h) \/ Next1(h)

-----------------------------------------------------------------------------
(* The handlers.                                                            *)

\* Goroutines have no identity: a request takes the first free number.
Free(h) == ~Busy(h) /\ \A b \in Handlers : b < h => Busy(b)

Begin(h, steps) ==
    /\ Free(h) /\ events < MaxEvents /\ events' = events + 1
    /\ todo' = [todo EXCEPT ![h] = steps]

\* A switch is refused while the route in use is not known to run.
Switchable == routes # <<>> /\ IF ctl = 0 THEN TRUE ELSE ctls[ctl].running

\* /z-api "switch" with a host
SwitchHost(h) ==
    /\ Switchable
    /\ \E host \in ToSet(routes) :
         \/ /\ ctl = 0 /\ New(h, host) /\ last' = host /\ saved' = host
            /\ foreign' = FALSE /\ Begin(h, StartRoute) /\ UNCHANGED routes
         \/ /\ ctl # 0 /\ cur' = [cur EXCEPT ![h] = ctl]
            /\ Begin(h, TryClose \o << <<"change", host>>, <<"save", host>> >>)
            /\ UNCHANGED <<ctls, api, foreign>>
    /\ UNCHANGED <<children, fresh>>

\* /z-api "switch" without one: the next of the list.
SwitchNext(h) ==
    /\ Switchable
    /\ \/ /\ ctl = 0 /\ New(h, routes[1])
          /\ Begin(h, StartRoute \o << <<"save", routes[1]>> >>)
          /\ UNCHANGED <<routes, last, saved>>
       \/ /\ ctl # 0 /\ cur' = [cur EXCEPT ![h] = ctl]
          /\ Begin(h, TryClose \o << <<"next", None>> >>)
          /\ UNCHANGED <<ctls, api>>
    /\ UNCHANGED <<children, fresh, foreign>>

\* /z-login with a list of servers and perhaps the server used last.
LogIn(h) ==
    /\ \E list \in Lists, field \in Hosts \cup {None} :
         LET use == IF field = None THEN last ELSE field
             known == use \in ToSet(list)
         IN  /\ routes' = list /\ last' = use /\ saved' = field
             /\ foreign' = (~known \/ field = None)
             /\ CASE ~known -> Begin(h, <<>>) /\ UNCHANGED <<ctls, ctl, cur>>
                  [] known /\ ctl = 0 -> New(h, use) /\ Begin(h, StartRoute)
                  [] known /\ ctl # 0 ->
                       /\ cur' = [cur EXCEPT ![h] = ctl] /\ UNCHANGED <<ctls, ctl>>
                       /\ Begin(h, TryClose \o << <<"change", None>> >>)
    /\ UNCHANGED <<children, fresh>>

\* /local-state: a child says that it is not connected.  The report does not
\* say which one it is; without a ClientControl the handler panics.
Report(h) ==
    /\ Free(h) /\ events < MaxEvents
    /\ \E p \in Pids :
         /\ procs[p].st = "failed"
         /\ procs' = [procs EXCEPT ![p].st = "posted"]
    /\ ctl # 0
    /\ LET now == ctls[ctl].Addr
       IN  Begin(h, TryClose \o << <<"renew", now>> >> \o StartRoute
                      \o << <<"save", now>>, <<"next", now>> >>)
    /\ cur' = [cur EXCEPT ![h] = ctl]
    /\ UNCHANGED <<port, ctls, api, fresh, foreign>>

\* The save made when z-route switches the redirection (RouterMode).
FirewallSave ==
    /\ routes # <<>> /\ last # None /\ events < MaxEvents /\ events' = events + 1
    /\ saved' = last /\ foreign' = TRUE
    /\ UNCHANGED <<children, ctls, ctl, routes, last, todo, locals>>

\* /z-api "connect", and TestRoutes every ten minutes: another list, or the
\* same one in another order.
Relist ==
    /\ routes # <<>> /\ events < MaxEvents /\ events' = events + 1
    /\ routes' \in Lists
    /\ UNCHANGED <<children, ctls, ctl, last, saved, todo, locals, foreign>>

-----------------------------------------------------------------------------
(* The children (RunLocal, the start of Socks5Listen).                      *)

Move(p, from, to) ==
    /\ procs[p].st = from /\ procs' = [procs EXCEPT ![p].st = to]
    /\ UNCHANGED <<ctls, api, todo, locals, events, foreign>>

Built(p) == procs[p].host \in good /\ Move(p, "init", "bind") /\ UNCHANGED port
Fails(p) == procs[p].host \notin good /\ Move(p, "init", "failed") /\ UNCHANGED port
Bind(p) == port = 0 /\ port' = p /\ Move(p, "bind", "up")
Exit(p) ==
    /\ procs[p].st = "posted" /\ Kill({p})
    /\ UNCHANGED <<ctls, api, todo, locals, events, foreign>>

Dies(p) ==
    /\ procs[p].st = "up" /\ events < MaxEvents /\ events' = events + 1
    /\ Kill({p})
    /\ UNCHANGED <<ctls, api, todo, locals, foreign>>

-----------------------------------------------------------------------------

\* Whether two requests were ever served at a time.
Track ==
    round' = IF round = "met" \/ Cardinality({h \in Handlers : Busy(h)'}) > 1
             THEN "met" ELSE IF \E h \in Handlers : Busy(h)' THEN "alone" ELSE round

Serve(h) ==
    /\ Free(h) /\ events < MaxEvents
    /\ SwitchHost(h) \/ SwitchNext(h) \/ LogIn(h)
Child(p) == Built(p) \/ Fails(p) \/ Bind(p) \/ Exit(p)

Work == \/ \E h \in Handlers : Step(h) \/ Report(h)
        \/ \E p \in Pids : Child(p)

Next ==
    /\ \/ Work
       \/ \E h \in Handlers : Serve(h)
       \/ FirewallSave \/ Relist
       \/ \E p \in Pids : Dies(p)
    /\ Track /\ UNCHANGED <<machine, good>>

Spec == Init /\ [][Next]_vars

\* Goroutines and processes that can go on do.
Fairness == WF_vars(Work /\ Track /\ UNCHANGED <<machine, good>>)

FairSpec == Spec /\ Fairness

-----------------------------------------------------------------------------
(* Properties.                                                              *)

Quiet == \A h \in Handlers : ~Busy(h)

TypeOK ==
    /\ machine \in Machines /\ good \in Goods
    /\ procs \in [Pids -> [host : Hosts \cup {None}, st : States]]
    /\ port \in Pids \cup {0}
    /\ ctls \in [Ctls -> [Addr : Hosts \cup {None}, pid : Pids \cup {0},
                          running : BOOLEAN]]
    /\ ctl \in Ctls \cup {0} /\ routes \in Lists \cup {<<>>}
    /\ {last, saved} \subseteq Hosts \cup {None}
    /\ cur \in [Handlers -> Ctls \cup {0}] /\ fresh \in [Handlers -> Pids \cup {0}]
    /\ events \in 0 .. MaxEvents

\* While requests come one at a time, between two of them there is at most
\* one child that could serve, it is the one whose number the ClientControl
\* keeps, and it was started for the server the ClientControl names: no
\* switch, login or report leaves an old route behind, also where ps cannot
\* find it (CloseRoute, StartRoute, ChangeRoute, the local-state handler).
RouteIsCurrent ==
    Quiet /\ round # "met" =>
      \A p \in Pids : Alive(p) /\ procs[p].st # "posted" =>
        ctl # 0 /\ p = ctls[ctl].pid /\ procs[p].host = ctls[ctl].Addr

\* However requests meet, old routes do not pile up where ps finds them: each
\* start of a child comes after the death of one of those it found, so there
\* are never more than goroutines that could have started one at a time
\* (StartRoute kills a single process, the first that ps lists).
OrphansBounded ==
    finds => Cardinality({p \in Pids : Alive(p)}) <= Cardinality(Handlers)

\* Then the file also names the route in use, unless the last save was that
\* of a firewall switch, which writes the older variable last, or that of a
\* login that chose no route.
SavedAgrees ==
    Quiet /\ round # "met" /\ ~foreign /\ ctl # 0 => saved = ctls[ctl].Addr

\* Asking for the next route again and again reaches every server of the
\* list, so that a broken one never hides a good one.
NextVisitsAll ==
    routes # <<>> =>
      LET visit[n \in 0 .. Len(routes)] ==
            IF n = 0 THEN routes[1] ELSE NextRoute(routes, visit[n - 1])
      IN  \A h \in ToSet(routes) : \E n \in 0 .. Len(routes) : visit[n] = h

\* While requests come one at a time, the child started last for a server that
\* works does not wait for ever: it gets the local port (or is killed by the
\* next request), because no older child was left holding it (Socks5Listen
\* binds in a loop, CloseRoute and StartRoute kill).
Settled == Quiet /\ round # "met" /\ ctl # 0
           /\ \E p \in Pids : p = ctls[ctl].pid /\ procs[p].st \in {"init", "bind"}
                              /\ procs[p].host \in good
Served == Settled ~> ~Settled

=============================================================================
