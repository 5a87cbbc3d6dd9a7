----------------------------- MODULE ClientPool -----------------------------
(***************************************************************************)
(* The profiles and sessions of one client (clientcontroll/controll.go).   *)
(*                                                                         *)
(* proxyProfiles is a channel of capacity confNum; initProfiles counts the *)
(* profiles the client believes it has asked for; SmuxClients is one       *)
(* session slot per channel.  The channel is sent to and received from     *)
(* both inside and outside of the client's lock, by connection handlers,   *)
(* by the goroutines that build the tunnels, by ScanSessionAndFix, by      *)
(* AutoSwitchProfile and by ReportErrorProxy.  Nothing tells profiles      *)
(* apart here: the channel is the number of profiles in it, and whether a  *)
(* profile is the one an error report looks for is any choice.  So is      *)
(* whether a session is still open wherever the code asks, since the       *)
(* connection below it may break at any time.                              *)
(***************************************************************************)
EXTENDS Integers, FiniteSets

CONSTANTS
    ClientNum,  \* number of channels, also the capacity of the queue (confNum)
    Conns,      \* accepted connections, one handler goroutine each
    Changers,   \* those of Conns that ask for c://change/<type>
    Scanners,   \* how many ScanSessionAndFix goroutines run at a time
    Autos,      \* AutoSwitchProfile goroutines
    Reporters,  \* ReportErrorProxy goroutines
    HttpProxy,  \* the HTTP listener serves before the tunnels are built
    MaxScans,   \* bound: scans asked for and not begun
    MaxReports, \* bound: profiles one report replaces
    Casts,      \* bound: which processes other than the builders may meet
    None        \* nobody holds the lock

ASSUME ClientNumAssumption == ClientNum \in Nat \ {0}
ASSUME BoundsAssumption == MaxScans \in Nat /\ MaxReports \in Nat
ASSUME HttpProxyAssumption == HttpProxy \in BOOLEAN
ASSUME ChangersAssumption == Changers \subseteq Conns
ASSUME CastsAssumption ==
    Casts # {} /\ Casts \subseteq SUBSET (Conns \cup Scanners \cup Autos \cup Reporters)

Slots == 0 .. ClientNum - 1
Builder(i) == <<"build", i>>
Builders == {Builder(i) : i \in Slots}
Procs == Builders \cup Conns \cup Scanners \cup Autos \cup Reporters

ASSUME ProcsAssumption ==
    /\ IsFiniteSet(Procs)
    /\ None \notin Procs
    /\ Builders \cap (Conns \cup Scanners \cup Autos \cup Reporters) = {}
    /\ Conns \cap (Scanners \cup Autos \cup Reporters) = {}
    /\ Scanners \cap (Autos \cup Reporters) = {}
    /\ Autos \cap Reporters = {}

VARIABLES
    queued,        \* len(proxyProfiles)
    initProfiles,  \* initProfiles
    lock,          \* who holds the lock across a blocking operation
    fixing,        \* fixing
    slots,         \* the slots of SmuxClients that hold a session
    lastUse,       \* lastUse
    errnum,        \* the counter the builders share
    inited,        \* inited: InitializationTunnels has returned
    broken,        \* its answer was "not usable"
    scans,         \* ScanSessionAndFix goroutines that have not begun
    out,           \* processes that hold a profile they took from the queue
    pc,            \* next step of each process
    loc,           \* local variables of each process
    cast           \* the processes of this behaviour, never changed

vars == <<queued, initProfiles, lock, fixing, slots, lastUse, errnum, inited,
          broken, scans, out, pc, loc, cast>>

Labels ==
    {"idle", "done", "get", "poll", "count", "fetch",
     "check", "evict", "push", "dial", "built", "bump", "pick", "index", "load", "again", "rebuilt", "use", "stale",
     "failed", "talk", "clear", "mark", "lockClear", "drain", "take",
     "reconnect", "reconnected", "change", "discard", "waitAll", "scTest",
     "scLock", "scDrain", "scTake", "scZero", "scSlot", "scNext", "auTake",
     "auBack", "auDrop", "auPut", "rpTake", "rpBack", "rpCount", "rpPost",
     "rpLock", "rpPush", "rpFix", "rpBuilt", "rpNext", "rpClose"}

\* no: slot argument; ret, got, nil: where RebuildSmux, a profile and its
\* absence lead; res: result of RebuildSmux; qix: q_ix;
\* n: a loop counter; seen: errnum as it was read.
Locals == [no : 0 .. ClientNum, ret : Labels, got : Labels, nil : Labels,
           res : {"ok", "broken", "err"},
           qix : Slots, n : Nat, seen : Nat]

NoLocals == [no |-> 0, ret |-> "done", got |-> "check", nil |-> "done",
             res |-> "ok", qix |-> 0, n |-> 0, seen |-> 0]

Init ==
    /\ queued = 0 /\ initProfiles = 0 /\ lock = None /\ fixing = FALSE
    /\ slots = {} /\ cast \in Casts
    /\ lastUse = -1 /\ errnum = 0 /\ inited = FALSE /\ broken = FALSE
    /\ scans = 0 /\ out = {}
    /\ pc = [p \in Procs |-> IF p \in Builders THEN "get" ELSE "idle"]
    /\ loc = [p \in Procs |-> IF p \in Builders
                THEN [NoLocals EXCEPT !.no = p[2], !.ret = "built",
                                      !.nil = "built"]
                ELSE NoLocals]

Go(p, l) == pc' = [pc EXCEPT ![p] = l]
End(p, l) == Go(p, l) /\ loc' = [loc EXCEPT ![p] = NoLocals]
Free == lock = None     \* LockArea can be entered
pool == <<queued, initProfiles, out>>
client == <<fixing, slots, lastUse, errnum, inited, broken, scans>>

-----------------------------------------------------------------------------
(* GetAviableProxy: a profile from the queue once confNum are counted, else *)
(* a new one from the server.                                               *)

\* Mutant: one counted profile is enough to wait for the queue.
PollEarly(p) ==
    /\ pc[p] = "get" /\ Free
    /\ Go(p, IF initProfiles > 0 THEN "poll" ELSE "count")
    /\ UNCHANGED <<pool, lock, client, loc>>

GetRead(p) ==
    /\ pc[p] = "get" /\ Free
    /\ Go(p, IF initProfiles >= ClientNum THEN "poll" ELSE "count")
    /\ UNCHANGED <<pool, lock, client, loc>>

GetPoll(p) ==
    /\ pc[p] = "poll" /\ queued > 0
    /\ queued' = queued - 1
    /\ out' = out \cup {p}
    /\ Go(p, loc[p].got)
    /\ UNCHANGED <<initProfiles, lock, client, loc>>

GetCount(p) ==
    /\ pc[p] = "count" /\ Free
    /\ initProfiles' = initProfiles + 1
    /\ Go(p, "fetch")
    /\ UNCHANGED <<queued, out, lock, client, loc>>

\* The answer to /proxy-get is a profile.
GetFetched(p) ==
    /\ pc[p] = "fetch" /\ Free
    /\ Go(p, loc[p].got)
    /\ UNCHANGED <<pool, lock, client, loc>>

\* Mutant: the count is kept although nothing was fetched.
FailKeepsCount(p) ==
    /\ pc[p] = "fetch" /\ Free
    /\ loc' = [loc EXCEPT ![p].res = "broken"]
    /\ Go(p, loc[p].nil)
    /\ UNCHANGED <<pool, lock, client>>

\* No answer, or one that cannot be used.
GetFailed(p) ==
    /\ pc[p] = "fetch" /\ Free
    /\ initProfiles' = initProfiles - 1
    /\ loc' = [loc EXCEPT ![p].res = "broken"]
    /\ Go(p, loc[p].nil)
    /\ UNCHANGED <<queued, out, lock, client>>

-----------------------------------------------------------------------------
(* RebuildSmux(no), from the profile on.                                    *)

Call(p, no, ret) ==
    /\ loc' = [loc EXCEPT ![p].no = no, ![p].ret = ret, ![p].got = "check",
                          ![p].nil = ret]
    /\ Go(p, "get")

Return(p, res) ==
    /\ loc' = [loc EXCEPT ![p].res = res]
    /\ Go(p, loc[p].ret)

RebuildCheck(p) ==
    /\ pc[p] = "check" /\ Free
    /\ lock' = p
    /\ Go(p, IF queued = ClientNum THEN "evict" ELSE "push")
    /\ UNCHANGED <<pool, client, loc>>

RebuildEvict(p) ==
    /\ pc[p] = "evict" /\ queued > 0
    /\ queued' = queued - 1
    /\ Go(p, "push")
    /\ UNCHANGED <<initProfiles, out, lock, client, loc>>

RebuildPush(p) ==
    /\ pc[p] = "push" /\ queued < ClientNum
    /\ queued' = queued + 1
    /\ out' = out \ {p}
    /\ lock' = None
    /\ Go(p, "dial")
    /\ UNCHANGED <<initProfiles, client, loc>>

\* The session that was in the slot is closed on the way: after the dial by
\* tls, kcp and ss, before it by quic.
RebuildDialFails(p) ==
    /\ pc[p] = "dial"
    /\ Return(p, "err")
    /\ UNCHANGED <<pool, lock, client>>

RebuildStore(p) ==
    /\ pc[p] = "dial" /\ Free
    /\ slots' = slots \cup {loc[p].no}
    /\ Return(p, "ok")
    /\ UNCHANGED <<pool, lock, fixing, lastUse, errnum, inited, broken, scans>>

Rebuild(p) ==
    \/ GetRead(p) \/ GetPoll(p) \/ GetCount(p) \/ GetFetched(p)
    \/ GetFailed(p) \/ RebuildCheck(p) \/ RebuildEvict(p) \/ RebuildPush(p)
    \/ RebuildDialFails(p) \/ RebuildStore(p)

-----------------------------------------------------------------------------
(* InitializationTunnels and BuildChannel.  *errnum += 1 is a read and a    *)
(* write that builders do without a lock.                                   *)

Built(p) ==
    /\ pc[p] = "built" /\ Free
    /\ IF loc[p].res = "broken"
       THEN Go(p, "bump") /\ loc' = [loc EXCEPT ![p].seen = errnum]
       ELSE Go(p, "done") /\ UNCHANGED loc
    /\ UNCHANGED <<pool, lock, client>>

\* ShowChannelStatus takes the lock for a moment.
Bump(p) ==
    /\ pc[p] = "bump" /\ Free
    /\ errnum' = loc[p].seen + 1
    /\ loc' = [loc EXCEPT ![p].seen = 0]
    /\ Go(p, "done")
    /\ UNCHANGED <<pool, lock, fixing, slots, lastUse, inited, broken, scans>>

\* InitializationTunnels waits for the first ten builders only.
Waited == {Builder(i) : i \in {j \in Slots : j < 10}}
AllBuilt == \A b \in Waited : pc[b] = "done"

TunnelsBuilt ==
    /\ ~inited /\ AllBuilt
    /\ inited' = TRUE
    /\ broken' = (errnum > ClientNum \div 2)
    /\ UNCHANGED <<pool, lock, fixing, slots, lastUse, errnum, scans, pc, loc>>

-----------------------------------------------------------------------------
(* A connection handler: OnBodyBeforeGetRemote, ConnectRemote, GetSession,  *)
(* OnBodyDo, ReConnect.                                                     *)

Serving == HttpProxy \/ (inited /\ ~broken)

Accept(p) ==
    /\ pc[p] = "idle" /\ Serving
    /\ Go(p, IF p \in Changers THEN "change" ELSE "pick")
    /\ UNCHANGED <<pool, lock, client, loc>>

PickSession(p) ==
    /\ pc[p] = "pick" /\ Free
    /\ lastUse' = (lastUse + 1) % ClientNum
    /\ Go(p, "index")
    /\ UNCHANGED <<pool, lock, fixing, slots, errnum, inited, broken, scans, loc>>

IndexSession(p) ==
    /\ pc[p] = "index"
    /\ loc' = [loc EXCEPT ![p].qix = lastUse]
    /\ Go(p, "load")
    /\ UNCHANGED <<pool, lock, client>>

LoadSession(p) ==
    /\ pc[p] = "load"
    /\ loc' = [loc EXCEPT ![p].n = 0]
    /\ Go(p, IF lastUse \in slots THEN "use" ELSE "again")
    /\ UNCHANGED <<pool, lock, client>>

\* lastUse is read anew at every call; other handlers advance it.
TryRebuild(p) ==
    /\ pc[p] = "again"
    /\ Call(p, lastUse, "rebuilt")
    /\ UNCHANGED <<pool, lock, client>>

Rebuilt(p) ==
    /\ pc[p] = "rebuilt"
    /\ loc' = [loc EXCEPT ![p].n = @ + 1]
    /\ Go(p, IF loc[p].res = "ok"
             THEN IF lastUse \in slots THEN "use" ELSE "failed"
             ELSE IF loc[p].n = 0 THEN "again" ELSE "failed")
    /\ UNCHANGED <<pool, lock, client>>

\* The session is closed and is built again, or NewConnnect opens a stream
\* on it, or fails to.
UseSession(p) ==
    /\ pc[p] = "use"
    /\ \/ Call(p, lastUse, "stale")
       \/ \E next \in {"talk", "failed"} : Go(p, next) /\ UNCHANGED loc
    /\ UNCHANGED <<pool, lock, client>>

\* go ScanSessionAndFix(), up to the bound and if the cast has a scanner.
AskScan ==
    scans' = IF scans < MaxScans /\ cast \cap Scanners # {}
             THEN scans + 1 ELSE scans

\* The session that was closed has been replaced, but NewConnnect is called
\* on the closed one.
StaleSession(p) ==
    /\ pc[p] = "stale"
    /\ IF loc[p].res = "ok" THEN UNCHANGED scans ELSE AskScan
    /\ Go(p, "failed")
    /\ UNCHANGED <<pool, lock, fixing, slots, lastUse, errnum, inited, broken, loc>>

\* ConnectRemote asks for a scan when the last error is recent.
ConnectFailed(p) ==
    /\ pc[p] = "failed" /\ Free
    /\ AskScan \/ UNCHANGED scans
    /\ Go(p, "clear")
    /\ UNCHANGED <<pool, lock, fixing, slots, lastUse, errnum, inited, broken, loc>>

\* OnBodyDo: without an answer the handler reconnects; a failed write, a wrong
\* answer and the end of the relay end it.
Talk(p) ==
    /\ pc[p] = "talk" /\ Free
    /\ \/ Go(p, "clear") /\ UNCHANGED loc
       \/ End(p, "done")
    /\ UNCHANGED <<pool, lock, client>>

ClearTest(p) ==
    /\ pc[p] = "clear"
    /\ Go(p, IF fixing THEN "reconnect" ELSE "mark")
    /\ UNCHANGED <<pool, lock, client, loc>>

ClearMark(p) ==
    /\ pc[p] = "mark"
    /\ fixing' = TRUE
    /\ Go(p, "lockClear")
    /\ UNCHANGED <<pool, lock, slots, lastUse, errnum, inited, broken, scans, loc>>

ClearLock(p) ==
    /\ pc[p] = "lockClear" /\ Free
    /\ lock' = p
    /\ Go(p, "drain")
    /\ UNCHANGED <<pool, client, loc>>

\* Mutant: the loop receives without looking at the length first.
DrainBlindly(p) ==
    /\ pc[p] = "drain"
    /\ Go(p, "take")
    /\ UNCHANGED <<pool, lock, client, loc>>

ClearDrain(p) ==
    /\ pc[p] = "drain"
    /\ IF queued > 0
       THEN Go(p, "take") /\ UNCHANGED <<fixing, lock>>
       ELSE Go(p, "reconnect") /\ fixing' = FALSE /\ lock' = None
    /\ UNCHANGED <<pool, slots, lastUse, errnum, inited, broken, scans, loc>>

ClearTake(p) ==
    /\ pc[p] = "take" /\ queued > 0
    /\ queued' = queued - 1
    /\ initProfiles' = IF initProfiles > 0 THEN initProfiles - 1 ELSE initProfiles
    /\ Go(p, "drain")
    /\ UNCHANGED <<out, lock, client, loc>>

ReConnect(p) ==
    /\ pc[p] = "reconnect"
    /\ Call(p, loc[p].qix, "reconnected")
    /\ UNCHANGED <<pool, lock, client>>

ReConnected(p) ==
    /\ pc[p] = "reconnected" /\ (loc[p].res = "ok" => Free)
    /\ End(p, "done")
    /\ UNCHANGED <<pool, lock, client>>

-----------------------------------------------------------------------------
(* ChangeProxyType: the queue is emptied, confNum profiles are asked for    *)
(* and dropped, and the tunnels are built again.                            *)

ChangeType(p) ==
    /\ pc[p] = "change" /\ Free
    /\ queued' = 0 /\ initProfiles' = 0
    /\ loc' = [loc EXCEPT ![p].got = "discard", ![p].nil = "discard", ![p].n = 1]
    /\ Go(p, "get")
    /\ UNCHANGED <<out, lock, client>>

DiscardProfile(p) ==
    /\ pc[p] = "discard" /\ loc[p].n < ClientNum
    /\ loc' = [loc EXCEPT ![p].n = @ + 1]
    /\ out' = out \ {p}
    /\ Go(p, "get")
    /\ UNCHANGED <<queued, initProfiles, lock, client>>

\* The builders of an earlier call have ended (one InitializationTunnels at a
\* time).
BuildAgain(p) ==
    /\ pc[p] = "discard" /\ loc[p].n = ClientNum
    /\ \A b \in Builders : pc[b] = "done"
    /\ out' = out \ {p}
    /\ errnum' = 0
    /\ pc' = [q \in Procs |-> IF q \in Builders THEN "get"
                              ELSE IF q = p THEN "waitAll" ELSE pc[q]]
    /\ UNCHANGED <<queued, initProfiles, lock, fixing, slots, lastUse, inited,
                   broken, scans, loc>>

ChangeEnds(p) ==
    /\ pc[p] = "waitAll" /\ AllBuilt
    /\ End(p, "done")
    /\ UNCHANGED <<pool, lock, client>>

Handler(p) ==
    \/ Accept(p) \/ PickSession(p) \/ IndexSession(p) \/ LoadSession(p)
    \/ TryRebuild(p) \/ Rebuilt(p) \/ UseSession(p) \/ StaleSession(p)
    \/ ConnectFailed(p) \/ Talk(p) \/ ClearTest(p)
    \/ ClearMark(p) \/ ClearLock(p) \/ ClearDrain(p) \/ ClearTake(p)
    \/ ReConnect(p) \/ ReConnected(p) \/ ChangeType(p) \/ DiscardProfile(p)
    \/ BuildAgain(p) \/ ChangeEnds(p)

-----------------------------------------------------------------------------
(* ScanSessionAndFix, AutoSwitchProfile, ReportErrorProxy.                  *)

ScanStart(p) ==
    /\ pc[p] = "idle" /\ scans > 0
    /\ scans' = scans - 1
    /\ Go(p, "scTest")
    /\ UNCHANGED <<pool, lock, fixing, slots, lastUse, errnum, inited, broken, loc>>

ScanTest(p) ==
    /\ pc[p] = "scTest"
    /\ Go(p, IF fixing THEN "idle" ELSE "scLock")
    /\ UNCHANGED <<pool, lock, client, loc>>

ScanLock(p) ==
    /\ pc[p] = "scLock" /\ Free
    /\ lock' = p /\ fixing' = TRUE
    /\ Go(p, "scDrain")
    /\ UNCHANGED <<pool, slots, lastUse, errnum, inited, broken, scans, loc>>

ScanDrain(p) ==
    /\ pc[p] = "scDrain"
    /\ IF queued > 0
       THEN Go(p, "scTake") /\ UNCHANGED lock
       ELSE Go(p, "scZero") /\ lock' = None
    /\ UNCHANGED <<pool, client, loc>>

ScanTake(p) ==
    /\ pc[p] = "scTake" /\ queued > 0
    /\ queued' = queued - 1
    /\ Go(p, "scDrain")
    /\ UNCHANGED <<initProfiles, out, lock, client, loc>>

\* The count is cleared after the lock is given back.
ScanZero(p) ==
    /\ pc[p] = "scZero"
    /\ initProfiles' = 0
    /\ loc' = [loc EXCEPT ![p].no = 0]
    /\ Go(p, "scSlot")
    /\ UNCHANGED <<queued, out, lock, client>>

ScanSlot(p) ==
    /\ pc[p] = "scSlot" /\ loc[p].no < ClientNum
    /\ \/ loc[p].no \in slots /\ Call(p, loc[p].no, "scNext")
       \/ loc' = [loc EXCEPT ![p].no = @ + 1] /\ UNCHANGED pc
    /\ UNCHANGED <<pool, lock, client>>

ScanNext(p) ==
    /\ pc[p] = "scNext"
    /\ loc' = [loc EXCEPT ![p].no = @ + 1]
    /\ Go(p, "scSlot")
    /\ UNCHANGED <<pool, lock, client>>

ScanEnds(p) ==
    /\ pc[p] = "scSlot" /\ loc[p].no = ClientNum
    /\ fixing' = FALSE
    /\ End(p, "idle")
    /\ UNCHANGED <<pool, lock, slots, lastUse, errnum, inited, broken, scans>>

Scan(p) ==
    \/ ScanStart(p) \/ ScanTest(p) \/ ScanLock(p) \/ ScanDrain(p)
    \/ ScanTake(p) \/ ScanZero(p) \/ ScanSlot(p) \/ ScanNext(p) \/ ScanEnds(p)

\* A profile with errors was found; it is looked for in the queue.
AutoPick(p) ==
    /\ pc[p] = "idle" /\ inited /\ ~broken /\ Free
    /\ Go(p, "auTake")
    /\ UNCHANGED <<pool, lock, client, loc>>

AutoTake(p) ==
    /\ pc[p] = "auTake" /\ queued > 0
    /\ queued' = queued - 1
    /\ out' = out \cup {p}
    /\ \E next \in {"auBack", "auDrop"} : Go(p, next)
    /\ UNCHANGED <<initProfiles, lock, client, loc>>

\* Not the one: sent back, outside of the lock.
AutoBack(p) ==
    /\ pc[p] = "auBack" /\ queued < ClientNum
    /\ queued' = queued + 1
    /\ out' = out \ {p}
    /\ Go(p, "auTake")
    /\ UNCHANGED <<initProfiles, lock, client, loc>>

AutoDrop(p) ==
    /\ pc[p] = "auDrop" /\ Free
    /\ initProfiles' = initProfiles - 1
    /\ out' = out \ {p}
    /\ loc' = [loc EXCEPT ![p].got = "auPut", ![p].nil = "done"]
    /\ Go(p, "get")
    /\ UNCHANGED <<queued, lock, client>>

AutoPut(p) ==
    /\ pc[p] = "auPut" /\ queued < ClientNum
    /\ queued' = queued + 1
    /\ out' = out \ {p}
    /\ End(p, "done")
    /\ UNCHANGED <<initProfiles, lock, client>>

AutoSwitch(p) ==
    \/ AutoPick(p) \/ AutoTake(p) \/ AutoBack(p) \/ AutoDrop(p) \/ AutoPut(p)

\* n: how many profiles this report still has to replace.
ReportPick(p) ==
    /\ pc[p] = "idle" /\ inited /\ ~broken /\ Free
    /\ \E n \in 0 .. MaxReports :
          /\ loc' = [loc EXCEPT ![p].n = n, ![p].no = 0]
          /\ Go(p, IF n = 0 THEN "rpClose" ELSE "rpTake")
    /\ UNCHANGED <<pool, lock, client>>

ReportTake(p) ==
    /\ pc[p] = "rpTake" /\ queued > 0
    /\ queued' = queued - 1
    /\ out' = out \cup {p}
    /\ \E next \in {"rpBack", "rpCount"} : Go(p, next)
    /\ UNCHANGED <<initProfiles, lock, client, loc>>

ReportBack(p) ==
    /\ pc[p] = "rpBack" /\ queued < ClientNum
    /\ queued' = queued + 1
    /\ out' = out \ {p}
    /\ Go(p, "rpTake")
    /\ UNCHANGED <<initProfiles, lock, client, loc>>

ReportCount(p) ==
    /\ pc[p] = "rpCount" /\ Free
    /\ out' = out \ {p}
    /\ Go(p, "rpPost")
    /\ UNCHANGED <<queued, initProfiles, lock, client, loc>>

\* ErrSoGetNew: without a usable answer the profile is gone.
ReportPost(p) ==
    /\ pc[p] = "rpPost"
    /\ loc' = [loc EXCEPT ![p].no = 0]
    /\ \/ Go(p, "rpLock")
       \/ Free /\ Go(p, "rpNext")
    /\ UNCHANGED <<pool, lock, client>>

ReportLock(p) ==
    /\ pc[p] = "rpLock" /\ Free
    /\ lock' = p
    /\ Go(p, "rpPush")
    /\ UNCHANGED <<pool, client, loc>>

ReportPush(p) ==
    /\ pc[p] = "rpPush" /\ queued < ClientNum
    /\ queued' = queued + 1
    /\ lock' = None
    /\ Go(p, "rpFix")
    /\ UNCHANGED <<initProfiles, out, client, loc>>

\* FixBuildSmux: the sessions with the reported id, any of those there are.
FixBuildSmux(p) ==
    /\ pc[p] = "rpFix"
    /\ IF loc[p].no = ClientNum
       THEN Go(p, "rpNext") /\ UNCHANGED loc
       ELSE \/ loc[p].no \in slots /\ Call(p, loc[p].no, "rpBuilt")
            \/ loc' = [loc EXCEPT ![p].no = @ + 1] /\ UNCHANGED pc
    /\ UNCHANGED <<pool, lock, client>>

FixNext(p) ==
    /\ pc[p] = "rpBuilt"
    /\ loc' = [loc EXCEPT ![p].no = @ + 1]
    /\ Go(p, "rpFix")
    /\ UNCHANGED <<pool, lock, client>>

ReportNext(p) ==
    /\ pc[p] = "rpNext"
    /\ loc' = [loc EXCEPT ![p].n = @ - 1, ![p].no = 0]
    /\ Go(p, IF loc[p].n = 1 THEN "rpClose" ELSE "rpTake")
    /\ UNCHANGED <<pool, lock, client>>

ReportClose(p) ==
    /\ pc[p] = "rpClose"
    /\ IF loc[p].no = ClientNum
       THEN End(p, "done") /\ UNCHANGED slots
       ELSE /\ slots' = slots \ {loc[p].no}
            /\ loc' = [loc EXCEPT ![p].no = @ + 1]
            /\ UNCHANGED pc
    /\ UNCHANGED <<pool, lock, fixing, lastUse, errnum, inited, broken, scans>>

Report(p) ==
    \/ ReportPick(p) \/ ReportTake(p) \/ ReportBack(p) \/ ReportCount(p)
    \/ ReportPost(p) \/ ReportLock(p) \/ ReportPush(p) \/ FixBuildSmux(p)
    \/ FixNext(p) \/ ReportNext(p) \/ ReportClose(p)

Next ==
    /\ \/ \E p \in Builders \cup cast : Rebuild(p)
       \/ \E p \in Builders : Built(p) \/ Bump(p)
       \/ TunnelsBuilt
       \/ \E p \in Conns \cap cast : Handler(p)
       \/ \E p \in Scanners \cap cast : Scan(p)
       \/ \E p \in Autos \cap cast : AutoSwitch(p)
       \/ \E p \in Reporters \cap cast : Report(p)
    /\ UNCHANGED cast

Spec == Init /\ [][Next]_vars

\* A goroutine that can run does; requests to the server and dials have a
\* time limit, so they return.  Nothing is assumed of connections, scans and
\* reports.
Fairness ==
    /\ \A p \in Builders : WF_vars((Rebuild(p) \/ Built(p) \/ Bump(p)) /\ UNCHANGED cast)
    /\ WF_vars(TunnelsBuilt /\ UNCHANGED cast)

FairSpec == Spec /\ Fairness

-----------------------------------------------------------------------------
(* Properties                                                               *)

TypeOK ==
    /\ queued \in 0 .. ClientNum /\ initProfiles \in Int
    /\ lock \in Procs \cup {None} /\ fixing \in BOOLEAN
    /\ slots \subseteq Slots /\ cast \in Casts
    /\ lastUse \in Slots \cup {-1}
    /\ errnum \in 0 .. ClientNum /\ inited \in BOOLEAN /\ broken \in BOOLEAN
    /\ scans \in 0 .. MaxScans /\ out \subseteq Procs
    /\ pc \in [Procs -> Labels] /\ loc \in [Procs -> Locals]

\* Whoever waits for a profile while he holds the lock (ClearPofiles, the
\* drain of ScanSessionAndFix, the eviction of RebuildSmux) and finds the
\* queue empty lost it to a process that received outside of the lock and
\* still has the profile, or to a change of the proxy type, which throws
\* profiles away: the length was read under the lock, so nothing else can make
\* these receives block.
StuckMeansStolen ==
    (\E p \in Procs : pc[p] \in {"take", "scTake", "evict"}) /\ queued = 0 =>
        \/ out # {}
        \/ \E c \in Changers : pc[c] \notin {"idle", "change"}

\* Before the first connection every profile that is counted is in the queue
\* or with a builder that has not delivered it yet, and no builder polls.
StartupExact ==
    (\A p \in Procs \ Builders : pc[p] = "idle") =>
        /\ \A b \in Builders : pc[b] # "poll"
        /\ initProfiles = queued + Cardinality({b \in Builders :
               pc[b] \in {"fetch", "check", "evict", "push"}})

\* The client finishes building its tunnels, whatever the server answers:
\* DNSListen and Socks5Listen wait for it.
StartupCompletes == <>inited

=============================================================================
