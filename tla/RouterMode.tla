----------------------------- MODULE RouterMode -----------------------------
(***************************************************************************)
(* The transparent redirection of a router (router/r.go) and the           *)
(* goroutines that switch it: the start of the local API, its watchdog,    *)
(* the z-route handlers and a login (deploy/httpcontroll.go).              *)
(*                                                                         *)
(* StartFireWall and StopFirewall are sequences of shell commands that     *)
(* nothing serialises.  Each command is one step; every goroutine keeps    *)
(* the list of the steps it has left.  What the commands work on lives     *)
(* outside of the program and survives it: the rule file                   *)
(* /etc/firewall.user, the rules in the kernel's nat table, and the        *)
(* redsocks process.  A set of rules is the set of servers it exempts from *)
(* the redirection, and NoRules is an empty file or table.                 *)
(***************************************************************************)
EXTENDS Sequences, FiniteSets, Integers

CONSTANTS
    Hosts,       \* servers a route can lead to
    Handlers,    \* goroutines that serve requests of the local API
    Requests,    \* what a request asks for, of the kinds below
    MaxEvents,   \* bound: requests, deaths or failed starts of redsocks and
                 \* restarts of the program, together
    NoRules      \* no rule of the program

Kinds == {"login", "toggle", "start", "stop", "check"}

ASSUME HostsAssumption == \A S \in SUBSET Hosts : S # NoRules
ASSUME RequestsAssumption == Requests \subseteq Kinds
ASSUME RouterBoundsAssumption == MaxEvents \in Nat

Boot == "boot"   \* the goroutine that runs localSetupHandler
Dog == "dog"     \* the watchdog it starts
Actors == Handlers \cup {Boot, Dog}
ASSUME ActorsAssumption == Handlers \cap {Boot, Dog} = {} /\ IsFiniteSet(Handlers)

Rules == {NoRules} \cup SUBSET Hosts

VARIABLES
    router,      \* IsRouter(), a property of the machine
    file,        \* /etc/firewall.user
    nat,         \* the nat table of the kernel
    redsocks,    \* a redsocks process runs
    hostconf,    \* proxy-z.host.conf: the servers of the last login, or NoRules
    routes,      \* globalClient.Routes
    lastAddr,    \* LAST_USE_LOCAL_ADDR is set
    proxy,       \* proxy = "ok"
    ST,          \* ST
    serving,     \* the local API answers
    todo,        \* the steps each goroutine has left
    text,        \* the rules a StartFireWall has rendered and not yet written
    asked,       \* how many requests were made
    deaths, reboots,
    lastOp,      \* history: the last operation that ended
    overlap      \* history: it was not alone

system == <<file, nat, redsocks>>
program == <<routes, lastAddr, proxy, ST, serving, hostconf>>
bounds == <<asked, deaths, reboots>>
history == <<lastOp, overlap>>
routerVars == <<router, system, program, todo, text, bounds, history>>

StartFireWall == <<"launch", "render", "write", "restart", "testLoaded">>

\* Mutant: StopFirewall trusts the restart to drop the rules.
StopTrusting == <<"empty", "restart", "kill">>

StopFirewall == <<"empty", "restart", "testLeft", "kill">>

\* RestartRouterMode
Restart == IF lastAddr THEN StopFirewall \o StartFireWall ELSE <<>>

Steps == {"launch", "render", "write", "restart", "testLoaded", "load",
          "empty", "testLeft", "flush", "kill", "reap", "opened", "closed",
          "stopped", "testDead", "testRedirect", "testFile"}

\* A command of StartFireWall, StopFirewall or CheckStatus is a's next step.
Operating(a) ==
    /\ todo[a] # <<>>
    /\ Head(todo[a]) \in {"launch", "render", "write", "restart", "testLoaded",
                          "load", "empty", "testLeft", "flush", "kill", "reap"}

RouterInit ==
    /\ router \in BOOLEAN
    /\ file = NoRules /\ nat = NoRules /\ redsocks = FALSE
    /\ hostconf = NoRules /\ routes = {} /\ lastAddr = FALSE
    /\ proxy = FALSE /\ ST = FALSE /\ serving = FALSE
    /\ todo = [a \in Actors |->
                 IF a = Boot /\ router THEN StartFireWall ELSE <<>>]
    /\ text = [a \in Actors |-> NoRules]
    /\ asked = 0 /\ deaths = 0 /\ reboots = 0
    /\ lastOp = "none" /\ overlap = FALSE

\* a has done its first step and goes on with steps before the others.
Then(a, steps) == todo' = [todo EXCEPT ![a] = steps \o Tail(@)]

More == asked + deaths + reboots < MaxEvents

\* a's next step is s.
At(a, s) == todo[a] # <<>> /\ Head(todo[a]) = s

\* a goroutine decides on an operation: a new round when it is the first.
Round == lastOp' = IF \E b \in Actors : Operating(b) THEN lastOp ELSE "none"

\* Whether operations of two goroutines were in flight at a time in a round.
Track ==
    LET now == {a \in Actors : Operating(a)'}
    IN  overlap' = IF now = {} THEN overlap
                   ELSE \/ (\E a \in Actors : Operating(a)) /\ overlap
                        \/ Cardinality(now) > 1

-----------------------------------------------------------------------------
(* StartFireWall.                                                           *)

\* The configuration is written and redsocks2 started; it may fail to.
Launch(a) ==
    /\ At(a, "launch") /\ Then(a, <<>>) /\ lastAddr' = TRUE
    /\ \/ redsocks' = TRUE /\ UNCHANGED deaths
       \/ More /\ deaths' = deaths + 1 /\ UNCHANGED redsocks
    /\ UNCHANGED <<file, nat, routes, proxy, ST, serving, hostconf, text,
                   asked, reboots, lastOp>>

\* IPTahbleRouteSet: the servers come from the program's own API, or from
\* the file of the last login when that does not answer with a list.
Render(a) ==
    /\ At(a, "render") /\ Then(a, <<>>)
    /\ text' = [text EXCEPT ![a] =
                  IF serving /\ routes # {} THEN routes ELSE hostconf]
    /\ UNCHANGED <<system, program, bounds, lastOp>>

Write(a) ==
    /\ At(a, "write") /\ Then(a, <<>>)
    /\ file' = text[a] /\ text' = [text EXCEPT ![a] = NoRules]
    /\ UNCHANGED <<nat, redsocks, program, bounds, lastOp>>

\* /etc/init.d/firewall restart: both callers look at the table afterwards,
\* as it may keep the old rules, drop them, or run the rule file.
RestartFirewall(a) ==
    /\ At(a, "restart") /\ Then(a, <<>>)
    /\ nat' \in {nat, NoRules, file}
    /\ UNCHANGED <<file, redsocks, program, text, bounds, lastOp>>

TestLoaded(a) ==
    /\ At(a, "testLoaded")
    /\ IF nat = NoRules
         THEN Then(a, <<"load">>) /\ UNCHANGED lastOp
         ELSE Then(a, <<>>) /\ lastOp' = "start"
    /\ UNCHANGED <<system, program, text, bounds>>

\* The file is run by a shell: rules appended to others have no effect.
Load(a) ==
    /\ At(a, "load") /\ Then(a, <<>>) /\ lastOp' = "start"
    /\ nat' = IF nat = NoRules THEN file ELSE nat
    /\ UNCHANGED <<file, redsocks, program, text, bounds>>

-----------------------------------------------------------------------------
(* StopFirewall.                                                            *)

Empty(a) ==
    /\ At(a, "empty") /\ Then(a, <<>>) /\ file' = NoRules
    /\ UNCHANGED <<nat, redsocks, program, text, bounds, lastOp>>

TestLeft(a) ==
    /\ At(a, "testLeft")
    /\ Then(a, IF nat # NoRules THEN <<"flush", "restart">> ELSE <<>>)
    /\ UNCHANGED <<system, program, text, bounds, lastOp>>

Flush(a) ==
    /\ At(a, "flush") /\ Then(a, <<>>) /\ nat' = NoRules
    /\ UNCHANGED <<file, redsocks, program, text, bounds, lastOp>>

Kill(a) ==
    /\ At(a, "kill") /\ Then(a, <<>>)
    /\ redsocks' = FALSE /\ lastOp' = "stop"
    /\ UNCHANGED <<file, nat, program, text, bounds>>

-----------------------------------------------------------------------------
(* The watchdog and CheckStatus.                                            *)

\* Every 30 seconds, once the handler is set up.
Watch ==
    /\ todo[Boot] = <<>> /\ todo[Dog] = <<>>
    /\ nat # NoRules                                   \* IsStartRouteMode
    /\ todo' = [todo EXCEPT ![Dog] = <<"testDead", "testRedirect">>]
    /\ UNCHANGED <<system, program, text, bounds, lastOp>>

\* Mutant: the watchdog only starts redsocks where it was running.
TestDeadSwapped ==
    /\ At(Dog, "testDead") /\ Then(Dog, IF redsocks THEN Restart ELSE <<>>)
    /\ IF redsocks THEN Round ELSE UNCHANGED lastOp
    /\ UNCHANGED <<system, program, text, bounds>>

TestDead ==
    /\ At(Dog, "testDead") /\ Then(Dog, IF redsocks THEN <<>> ELSE Restart)
    /\ IF redsocks THEN UNCHANGED lastOp ELSE Round
    /\ UNCHANGED <<system, program, text, bounds>>

\* IsRouteRedirectOk, asked by the watchdog and by CheckStatus.
TestRedirect(a) ==
    /\ At(a, "testRedirect")
    /\ Then(a, IF nat = NoRules THEN Restart ELSE <<>>)
    /\ IF nat = NoRules THEN Round ELSE UNCHANGED lastOp
    /\ UNCHANGED <<system, program, text, bounds>>

\* CheckStatus kills redsocks when the rule file is empty.
TestFile(a) ==
    /\ At(a, "testFile")
    /\ IF file = NoRules
         THEN Then(a, <<"reap">>) /\ Round
         ELSE Then(a, <<"testRedirect">>) /\ UNCHANGED lastOp
    /\ UNCHANGED <<system, program, text, bounds>>

Reap(a) ==
    /\ At(a, "reap") /\ Then(a, <<>>) /\ redsocks' = FALSE
    /\ UNCHANGED <<file, nat, program, text, bounds, lastOp>>

-----------------------------------------------------------------------------
(* The handlers of the local API.                                           *)

\* localSetupHandler returns and ListenAndServe begins.
Serve ==
    /\ ~serving /\ todo[Boot] = <<>>
    /\ serving' = TRUE /\ ST' = router
    /\ UNCHANGED <<system, routes, lastAddr, proxy, hostconf, todo, text,
                   bounds, lastOp>>

Begin(h, steps) ==
    /\ serving /\ todo[h] = <<>>
    /\ More /\ asked' = asked + 1
    /\ todo' = [todo EXCEPT ![h] = steps]
    /\ UNCHANGED <<system, text, deaths, reboots>>

Enter(h, steps) ==
    /\ routes # {} /\ Begin(h, steps) /\ Round /\ UNCHANGED program

\* /z-route "open/close"
Toggle(h) ==
    /\ "toggle" \in Requests
    /\ Enter(h, IF ST THEN StopFirewall \o <<"closed">>
                      ELSE StartFireWall \o <<"opened">>)

\* /z-route "start": a machine that is no router has nothing to redirect.
AskStart(h) ==
    /\ "start" \in Requests
    /\ Enter(h, IF router THEN StartFireWall ELSE <<>>)

AskStop(h) ==
    /\ "stop" \in Requests
    /\ Enter(h, IF router THEN StopFirewall \o <<"stopped">> ELSE <<>>)

\* /z-route "check"
AskCheck(h) ==
    /\ "check" \in Requests /\ routes # {}
    /\ Begin(h, IF router THEN <<"testFile">> ELSE <<>>)
    /\ UNCHANGED <<program, lastOp>>

\* The assignments after the firewall was switched.
Switched(h) ==
    /\ \/ /\ At(h, "opened") /\ ST' = TRUE /\ UNCHANGED proxy
       \/ /\ At(h, "closed") /\ ST' = FALSE /\ proxy' = FALSE
       \/ /\ At(h, "stopped") /\ proxy' = FALSE /\ UNCHANGED ST
    /\ Then(h, <<>>)
    /\ UNCHANGED <<system, routes, lastAddr, serving, hostconf, text, bounds,
                   lastOp>>

\* /z-login: the list of servers is replaced and saved, unless there is
\* none; with proxy = "ok" a goroutine restarts the redirection.  A login
\* that says nothing of the proxy leaves the variable as it was.
LogIn(h) ==
    /\ "login" \in Requests
    /\ \E list \in SUBSET Hosts, p \in {TRUE, proxy} :
          /\ proxy' = p
          /\ Begin(h, IF p /\ list # {} THEN StopFirewall \o StartFireWall
                                        ELSE <<>>)
          /\ IF list = {} THEN UNCHANGED <<routes, hostconf>>
                          ELSE routes' = list /\ hostconf' = list
          /\ IF p /\ list # {} THEN Round ELSE UNCHANGED lastOp
    /\ UNCHANGED <<lastAddr, ST, serving>>

-----------------------------------------------------------------------------
(* Faults.                                                                  *)

RedsocksDies ==
    /\ redsocks /\ More
    /\ redsocks' = FALSE /\ deaths' = deaths + 1
    /\ UNCHANGED <<file, nat, program, todo, text, asked, reboots, lastOp>>

\* The program ends between any two commands and is started again.
Reboot ==
    /\ More /\ reboots' = reboots + 1
    /\ routes' = {} /\ lastAddr' = FALSE /\ proxy' = FALSE /\ ST' = FALSE
    /\ serving' = FALSE
    /\ todo' = [a \in Actors |->
                  IF a = Boot /\ router THEN StartFireWall ELSE <<>>]
    /\ text' = [a \in Actors |-> NoRules]
    /\ lastOp' = "none"
    /\ UNCHANGED <<system, hostconf, asked, deaths>>

Step(a) ==
    \/ Launch(a) \/ Render(a) \/ Write(a) \/ RestartFirewall(a)
    \/ TestLoaded(a) \/ Load(a) \/ Empty(a) \/ TestLeft(a) \/ Flush(a)
    \/ Kill(a) \/ TestRedirect(a) \/ TestFile(a) \/ Reap(a) \/ Switched(a)

Request(h) ==
    \/ Toggle(h) \/ AskStart(h) \/ AskStop(h) \/ AskCheck(h) \/ LogIn(h)

Work == (\E a \in Actors : Step(a)) \/ Watch \/ TestDead

RouterNext ==
    /\ \/ Work
       \/ Serve
       \/ \E h \in Handlers : Request(h)
       \/ RedsocksDies \/ Reboot
    /\ Track /\ UNCHANGED router

RouterSpec == RouterInit /\ [][RouterNext]_routerVars

\* Goroutines with commands left go on, and the watchdog's ticker ticks.
RouterFairness == WF_routerVars(Work /\ Track /\ UNCHANGED router)

RouterFairSpec == RouterSpec /\ RouterFairness

-----------------------------------------------------------------------------
(* Properties.                                                              *)

RouterTypeOK ==
    /\ router \in BOOLEAN /\ file \in Rules /\ nat \in Rules
    /\ redsocks \in BOOLEAN /\ hostconf \in Rules \ {{}} /\ routes \in SUBSET Hosts
    /\ lastAddr \in BOOLEAN /\ proxy \in BOOLEAN /\ ST \in BOOLEAN
    /\ serving \in BOOLEAN
    /\ todo \in [Actors -> Seq(Steps)] /\ text \in [Actors -> Rules]
    /\ asked \in Nat /\ deaths \in Nat /\ reboots \in Nat
    /\ asked + deaths + reboots <= MaxEvents
    /\ lastOp \in {"none", "start", "stop"} /\ overlap \in BOOLEAN

Quiet == \A a \in Actors : ~Operating(a)

\* When no shell command is left to run and the last switch of the
\* redirection met no other, the machine is what was asked for: after a stop
\* there are no rules, in the file or in the kernel, and no redsocks; after
\* a start rules are loaded if any could be written, and redsocks runs
\* unless it has died or failed.  This holds whatever the restarts of the
\* firewall did and wherever the program was killed before
\* (StartFireWall, StopFirewall, RestartRouterMode).
AloneIsDecisive ==
    Quiet /\ ~overlap =>
      /\ lastOp = "stop" => file = NoRules /\ nat = NoRules /\ ~redsocks
      /\ lastOp = "start" /\ file # NoRules =>
            nat # NoRules /\ (redsocks \/ deaths > 0)

\* Clients of the router are not left redirected to a port nobody serves:
\* when rules are loaded and redsocks is gone, killed by a status check that
\* met a start or dead by itself, the watchdog brings it back or the rules
\* go, once this run of the program has opened the redirection
\* (the watchdog of localSetupHandler).
Healed == (nat # NoRules /\ ~redsocks /\ lastAddr)
            ~> (redsocks \/ nat = NoRules \/ ~lastAddr)

=============================================================================
