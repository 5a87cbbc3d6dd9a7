----------------------- MODULE PoolAndRouterProofs -----------------------
(***************************************************************************)
(* Proofs about ClientPool, what holds for any number of channels,         *)
(* connections, scans and reports, however they interleave; and about      *)
(* RouterMode, for any number of servers and requests of the local API.    *)
(***************************************************************************)
EXTENDS ClientPool, RouterMode, SequenceTheorems, FiniteSetTheorems, TLAPS

-----------------------------------------------------------------------------
(* The inductive invariants.                                               *)

\* The steps a process does inside of LockArea.
Holding == {"evict", "push", "drain", "take", "scDrain", "scTake", "rpPush"}

\* Where RebuildSmux returns to.
Returns == {"built", "rebuilt", "stale", "reconnected", "scNext", "rpBuilt",
            "done"}

\* A handler that has picked a session.
Picked == {"index", "load", "again", "rebuilt", "use", "stale", "failed",
           "talk", "clear", "mark", "lockClear", "drain", "take", "reconnect",
           "reconnected"}

\* What the local variables r of process p are for when it is at l.
Fits(p, l, r) ==
    /\ r.got \in {"check", "discard", "auPut"}
    /\ r.ret \in Returns
    /\ r.nil \in Returns \cup {"discard"}
    /\ l \in {"change", "discard"} \/ "discard" \in {r.got, r.nil} => p \in Changers
    /\ l \notin {"scSlot", "rpFix", "rpNext", "rpClose"} => r.no < ClientNum
    /\ p \in Reporters /\ l \notin {"idle", "rpClose", "done"} => r.n > 0

\* Until the first session is picked nobody is past picking one.
Unpicked(l, r) == l \notin Picked /\ r.ret \notin Picked /\ r.nil \notin Picked

LocalsInv ==
    \A p \in Procs : /\ Fits(p, pc[p], loc[p])
                     /\ lastUse = -1 => Unpicked(pc[p], loc[p])

\* A process inside of LockArea has the lock.
LockInv == \A p \in Procs : pc[p] \in Holding => lock = p

\* The builders add to errnum at most once each.
Ended == {b \in Builders : pc[b] = "done"}

ErrnumInv ==
    /\ errnum <= Cardinality(Ended)
    /\ \A b \in Builders : pc[b] = "bump" => loc[b].seen <= Cardinality(Ended)

TypeInv == TypeOK /\ LocalsInv /\ ErrnumInv

\* Nothing but the builders has run.
Startup == \A p \in Procs \ Builders : pc[p] = "idle"

Carrying == {b \in Builders : pc[b] \in {"fetch", "check", "evict", "push"}}
Delivered == {b \in Builders : pc[b] \in {"dial", "built", "bump", "done"}}

\* Scans follow connections.
ScanInv ==
    scans > 0 \/ (\E p \in Scanners : pc[p] # "idle")
       => \E p \in Conns : pc[p] # "idle"

\* Every profile counted is in the queue or with one builder, and the queue
\* has no more than the builders have delivered.
Prepared ==
    /\ \A b \in Builders : /\ pc[b] \notin {"poll", "evict"}
                           /\ loc[b].got = "check"
                           /\ loc[b].ret = "built" /\ loc[b].nil = "built"
    /\ initProfiles = queued + Cardinality(Carrying)
    /\ queued <= Cardinality(Delivered)

StartupInv == ScanInv /\ (Startup => Prepared)

-----------------------------------------------------------------------------
(* Types.                                                                  *)

LEMMA Constant ==
    /\ ClientNum \in Nat /\ ClientNum > 0
    /\ Conns \cup Scanners \cup Autos \cup Reporters \cup Builders = Procs
    /\ Changers \subseteq Conns
    /\ Conns \cap Reporters = {} /\ Conns \cap Scanners = {} /\ Conns \cap Builders = {}
    /\ Reporters \cap Scanners = {} /\ Reporters \cap Builders = {}
    /\ Scanners \cap Builders = {} /\ Autos \cap Builders = {}
    /\ Autos \cap Conns = {} /\ Autos \cap Scanners = {} /\ Autos \cap Reporters = {}
    /\ None \notin Procs
    /\ MaxScans \in Nat /\ MaxReports \in Nat
    /\ \A C \in Casts : C \subseteq Procs
BY ClientNumAssumption, BoundsAssumption, ChangersAssumption,
   CastsAssumption, ProcsAssumption
   DEF Procs

\* One process goes from one place to another.
LEMMA Moves ==
    ASSUME LocalsInv, NEW p \in Procs,
           \A q \in Procs : q # p => pc'[q] = pc[q] /\ loc'[q] = loc[q],
           Fits(p, pc'[p], loc'[p]),
           lastUse' = -1 => lastUse = -1 /\ Unpicked(pc'[p], loc'[p])
    PROVE  LocalsInv'
BY DEF LocalsInv

\* The steps that move one process.
Alone(p) ==
    \/ Rebuild(p)
    \/ p \in Builders /\ (Built(p) \/ Bump(p))
    \/ p \in Conns /\ Handler(p) /\ ~BuildAgain(p)
    \/ p \in Scanners /\ Scan(p)
    \/ p \in Autos /\ AutoSwitch(p)
    \/ p \in Reporters /\ Report(p)

LEMMA NextCases ==
    ASSUME TypeOK, [Next]_vars
    PROVE  \/ UNCHANGED vars
           \/ /\ UNCHANGED cast
              /\ \/ TunnelsBuilt
                 \/ \E p \in Procs : Alone(p)
                 \/ \E p \in Conns : BuildAgain(p)
<1>1. cast \subseteq Procs
  BY Constant DEF TypeOK
<1> QED
  BY <1>1, Constant DEF Next, Alone, Handler

LEMMA OthersStay ==
    ASSUME TypeOK, NEW p \in Procs, Alone(p)
    PROVE  \A q \in Procs : q # p => pc'[q] = pc[q] /\ loc'[q] = loc[q]
<1>1. pc \in [Procs -> Labels] /\ loc \in [Procs -> Locals]
  BY DEF TypeOK
<1> HIDE DEF TypeOK
<1> USE DEF Go
<1>2. CASE Rebuild(p)
  BY <1>1, <1>2
     DEF GetRead, GetPoll, GetCount, GetFetched, GetFailed, RebuildCheck,
         RebuildEvict, RebuildPush, RebuildDialFails, RebuildStore, Rebuild,
         Return
<1>3. CASE Built(p) \/ Bump(p)
  BY <1>1, <1>3
     DEF Built, Bump
<1>4. CASE Handler(p) /\ ~BuildAgain(p)
  BY <1>1, <1>4
     DEF Accept, PickSession, IndexSession, LoadSession, TryRebuild, Rebuilt,
         UseSession, StaleSession, ConnectFailed, Talk, ClearTest, ClearMark,
         ClearLock, ClearDrain, ClearTake, ReConnect, ReConnected, ChangeType,
         DiscardProfile, ChangeEnds, Handler, Call, End
<1>5. CASE Scan(p)
  BY <1>1, <1>5
     DEF ScanStart, ScanTest, ScanLock, ScanDrain, ScanTake, ScanZero,
         ScanSlot, ScanNext, ScanEnds, Scan, Call, End
<1>6. CASE AutoSwitch(p)
  BY <1>1, <1>6
     DEF AutoPick, AutoTake, AutoBack, AutoDrop, AutoPut, AutoSwitch, End
<1>7. CASE Report(p)
  BY <1>1, <1>7
     DEF ReportPick, ReportTake, ReportBack, ReportCount, ReportPost,
         ReportLock, ReportPush, FixBuildSmux, FixNext, ReportNext,
         ReportClose, Report, Call, End
<1> QED
  BY <1>2, <1>3, <1>4, <1>5, <1>6, <1>7 DEF Alone

\* One process goes to l, with the local variables r.
LEMMA MoveTo ==
    ASSUME TypeOK, LocalsInv, NEW p \in Procs, NEW l \in Labels, NEW r \in Locals,
           pc' = [pc EXCEPT ![p] = l], loc' = [loc EXCEPT ![p] = r],
           Fits(p, l, r), lastUse' = -1 => lastUse = -1 /\ Unpicked(l, r)
    PROVE  pc' \in [Procs -> Labels] /\ loc' \in [Procs -> Locals] /\ LocalsInv'
<1>1. /\ pc' \in [Procs -> Labels] /\ loc' \in [Procs -> Locals]
      /\ pc'[p] = l /\ loc'[p] = r
      /\ \A q \in Procs : q # p => pc'[q] = pc[q] /\ loc'[q] = loc[q]
  BY DEF TypeOK
<1> QED
  BY <1>1, Moves

\* A call of RebuildSmux, its return, and the end of a process.
LEMMA Calls ==
    ASSUME TypeOK, LocalsInv, NEW p \in Procs, NEW no \in Slots,
           NEW ret \in Returns, Call(p, no, ret), UNCHANGED lastUse,
           ret \in Picked => lastUse # -1, p \in Reporters => loc[p].n > 0
    PROVE  pc' \in [Procs -> Labels] /\ loc' \in [Procs -> Locals] /\ LocalsInv'
<1>1. Fits(p, pc[p], loc[p]) /\ loc[p] \in Locals
  BY DEF LocalsInv, TypeOK
<1>2. /\ pc' = [pc EXCEPT ![p] = "get"]
      /\ loc' = [loc EXCEPT ![p] = [loc[p] EXCEPT !.no = no, !.ret = ret,
                                        !.got = "check", !.nil = ret]]
  BY DEF Call, Go, TypeOK
<1>3. "get" \in Labels /\ "check" \in Labels /\ Returns \subseteq Labels
  BY DEF Labels, Returns
<1>4. pc' \in [Procs -> Labels]
  BY <1>2, <1>3 DEF TypeOK
<1>5. loc' \in [Procs -> Locals]
  <2>1. no \in 0 .. ClientNum
    BY Constant DEF Slots
  <2>2. [loc[p] EXCEPT !.no = no, !.ret = ret, !.got = "check", !.nil = ret]
           \in Locals
    BY <1>1, <1>3, <2>1 DEF Locals
  <2> QED
    BY <1>2, <2>2 DEF TypeOK
<1>6. /\ pc'[p] = "get" /\ loc'[p].no = no /\ loc'[p].ret = ret
      /\ loc'[p].got = "check" /\ loc'[p].nil = ret
      /\ loc'[p].n = loc[p].n
      /\ \A q \in Procs : q # p => pc'[q] = pc[q] /\ loc'[q] = loc[q]
  BY <1>1, <1>2 DEF TypeOK, Locals
<1>7. Fits(p, pc'[p], loc'[p])
  BY <1>6, Constant DEF Fits, Slots, Returns
<1>8. lastUse = -1 => Unpicked(pc'[p], loc'[p])
  BY <1>6 DEF Unpicked, Picked
<1> QED
  BY <1>4, <1>5, <1>6, <1>7, <1>8, Moves

LEMMA Returned ==
    ASSUME TypeOK, LocalsInv, NEW p \in Procs, pc[p] = "dial",
           NEW res \in {"ok", "broken", "err"}, Return(p, res),
           UNCHANGED lastUse
    PROVE  pc' \in [Procs -> Labels] /\ loc' \in [Procs -> Locals] /\ LocalsInv'
<1>1. /\ Fits(p, pc[p], loc[p]) /\ loc[p] \in Locals
      /\ lastUse = -1 => Unpicked(pc[p], loc[p])
  BY DEF LocalsInv, TypeOK
<1>2. /\ pc' = [pc EXCEPT ![p] = loc[p].ret]
      /\ loc' = [loc EXCEPT ![p] = [loc[p] EXCEPT !.res = res]]
  BY DEF Return, Go, TypeOK
<1>3. loc[p].ret \in Labels /\ loc[p].ret \in Returns
  BY <1>1 DEF Locals, Fits
<1>4. pc' \in [Procs -> Labels]
  BY <1>2, <1>3 DEF TypeOK
<1>5. loc' \in [Procs -> Locals]
  BY <1>1, <1>2 DEF TypeOK, Locals
<1>6. /\ pc'[p] = loc[p].ret
      /\ loc'[p].no = loc[p].no /\ loc'[p].ret = loc[p].ret
      /\ loc'[p].got = loc[p].got /\ loc'[p].nil = loc[p].nil
      /\ loc'[p].n = loc[p].n
      /\ \A q \in Procs : q # p => pc'[q] = pc[q] /\ loc'[q] = loc[q]
  BY <1>1, <1>2 DEF TypeOK, Locals
<1>7. Fits(p, pc'[p], loc'[p])
  BY <1>1, <1>3, <1>6 DEF Fits, Returns
<1>8. lastUse = -1 => Unpicked(pc'[p], loc'[p])
  BY <1>1, <1>6 DEF Unpicked
<1> QED
  BY <1>4, <1>5, <1>6, <1>7, <1>8, Moves

LEMMA Ends ==
    ASSUME TypeOK, LocalsInv, NEW p \in Procs, NEW l \in {"done", "idle"},
           End(p, l), UNCHANGED lastUse
    PROVE  pc' \in [Procs -> Labels] /\ loc' \in [Procs -> Locals] /\ LocalsInv'
<1>1. pc' \in [Procs -> Labels]
  BY DEF End, Go, TypeOK, Labels
<1>2. NoLocals \in Locals
  BY Constant DEF NoLocals, Locals, Labels, Slots
<1>3. loc' \in [Procs -> Locals]
  BY <1>2 DEF End, TypeOK
<1>4. /\ pc'[p] = l /\ loc'[p] = NoLocals
      /\ \A q \in Procs : q # p => pc'[q] = pc[q] /\ loc'[q] = loc[q]
  BY DEF End, Go, TypeOK
<1>5. Fits(p, pc'[p], loc'[p]) /\ Unpicked(pc'[p], loc'[p])
  BY <1>4, Constant DEF Fits, NoLocals, Returns, Unpicked, Picked
<1> QED
  BY <1>1, <1>3, <1>4, <1>5, Moves

\* What RebuildSmux and the others do keeps to the values of the variables,
\* and the local variables fit the place a process goes to.
LEMMA AloneKeepsTypes ==
    ASSUME TypeOK, LocalsInv, NEW p \in Procs, Alone(p), UNCHANGED cast,
           errnum' \in 0 .. ClientNum
    PROVE  TypeOK' /\ LocalsInv'
<1>1. /\ Fits(p, pc[p], loc[p]) /\ loc[p] \in Locals
      /\ lastUse = -1 => Unpicked(pc[p], loc[p])
  BY DEF LocalsInv, TypeOK
<1>2. \A q \in Procs : q # p => pc'[q] = pc[q] /\ loc'[q] = loc[q]
  BY OthersStay
<1> USE DEF TypeOK, Go, client, pool, Slots
<1>3. CASE Rebuild(p)
  <2>1. CASE GetRead(p)
    BY <1>1, <1>2, <2>1, Constant, Moves DEF GetRead,
       Fits, Unpicked, Picked, Returns, Locals, Labels
  <2>2. CASE GetPoll(p)
    BY <1>1, <1>2, <2>2, Constant, Moves DEF GetPoll,
       Fits, Unpicked, Picked, Returns, Locals, Labels
  <2>3. CASE GetCount(p)
    BY <1>1, <1>2, <2>3, Constant, Moves DEF GetCount,
       Fits, Unpicked, Picked, Returns, Locals, Labels
  <2>4. CASE GetFetched(p)
    BY <1>1, <1>2, <2>4, Constant, Moves DEF GetFetched,
       Fits, Unpicked, Picked, Returns, Locals, Labels
  <2>5. CASE GetFailed(p)
    BY <1>1, <1>2, <2>5, Constant, Moves DEF GetFailed,
       Fits, Unpicked, Picked, Returns, Locals, Labels
  <2>6. CASE RebuildCheck(p)
    BY <1>1, <1>2, <2>6, Constant, Moves DEF RebuildCheck,
       Fits, Unpicked, Picked, Returns, Locals, Labels
  <2>7. CASE RebuildEvict(p)
    BY <1>1, <1>2, <2>7, Constant, Moves DEF RebuildEvict,
       Fits, Unpicked, Picked, Returns, Locals, Labels
  <2>8. CASE RebuildPush(p)
    BY <1>1, <1>2, <2>8, Constant, Moves DEF RebuildPush,
       Fits, Unpicked, Picked, Returns, Locals, Labels
  <2>9. CASE RebuildDialFails(p)
    <3>1. UNCHANGED lastUse /\ pc[p] = "dial" /\ Return(p, "err")
      BY <2>9 DEF RebuildDialFails
    <3> QED
      BY <2>9, <3>1, Returned DEF RebuildDialFails
  <2>10. CASE RebuildStore(p)
    <3>1. UNCHANGED lastUse /\ pc[p] = "dial" /\ Return(p, "ok")
      BY <2>10 DEF RebuildStore
    <3>2. loc[p].no \in Slots
      BY <1>1, <3>1, Constant DEF Fits, Locals
    <3> QED
      BY <2>10, <3>1, <3>2, Returned DEF RebuildStore
  <2> QED
    BY <1>3, <2>1, <2>2, <2>3, <2>4, <2>5, <2>6, <2>7, <2>8, <2>9,
       <2>10 DEF Rebuild
<1>4. CASE p \in Builders /\ (Built(p) \/ Bump(p))
  <2>1. CASE Built(p)
    BY <1>1, <1>2, <1>4, <2>1, Constant, Moves, SMTT(30) DEF Built,
       Fits, Unpicked, Picked, Returns, Locals, Labels
  <2>2. CASE Bump(p)
    BY <1>1, <1>2, <1>4, <2>2, Constant, Moves, SMTT(30) DEF Bump,
       Fits, Unpicked, Picked, Returns, Locals, Labels
  <2> QED
    BY <1>4, <2>1, <2>2
<1>5. CASE p \in Conns /\ Handler(p) /\ ~BuildAgain(p)
  <2>1. CASE Accept(p)
    BY <1>1, <1>2, <1>5, <2>1, Constant, Moves DEF Accept,
       Fits, Unpicked, Picked, Returns, Locals, Labels
  <2>2. CASE PickSession(p)
    BY <1>1, <1>2, <1>5, <2>2, Constant, Moves DEF PickSession,
       Fits, Unpicked, Picked, Returns, Locals, Labels
  <2>3. CASE IndexSession(p)
    BY <1>1, <1>2, <1>5, <2>3, Constant, Moves DEF IndexSession,
       Fits, Unpicked, Picked, Returns, Locals, Labels
  <2>4. CASE LoadSession(p)
    BY <1>1, <1>2, <1>5, <2>4, Constant, Moves DEF LoadSession,
       Fits, Unpicked, Picked, Returns, Locals, Labels
  <2>5. CASE TryRebuild(p)
    <3>1. lastUse \in Slots /\ p \notin Reporters
      BY <1>1, <1>5, <2>5, Constant DEF TryRebuild, Fits, Unpicked, Picked, Locals
    <3>2. UNCHANGED lastUse /\ Call(p, lastUse, "rebuilt")
      BY <2>5 DEF TryRebuild
    <3> QED
      BY <2>5, <3>1, <3>2, Calls DEF TryRebuild, Returns, Picked
  <2>6. CASE Rebuilt(p)
    BY <1>1, <1>2, <1>5, <2>6, Constant, Moves DEF Rebuilt,
       Fits, Unpicked, Picked, Returns, Locals, Labels
  <2>7. CASE UseSession(p)
    <3>1. lastUse \in Slots /\ p \notin Reporters
      BY <1>1, <1>5, <2>7, Constant DEF UseSession, Fits, Unpicked, Picked, Locals
    <3>2. CASE Call(p, lastUse, "stale")
      BY <2>7, <3>1, <3>2, Calls DEF UseSession, Returns, Picked
    <3>3. CASE \E next \in {"talk", "failed"} : Go(p, next) /\ UNCHANGED loc
      BY <1>1, <1>2, <2>7, <3>1, <3>3, Moves DEF UseSession,
         Fits, Unpicked, Picked, Returns, Locals, Labels
    <3> QED
      BY <2>7, <3>2, <3>3 DEF UseSession
  <2>8. CASE StaleSession(p)
    BY <1>1, <1>2, <1>5, <2>8, Constant, Moves DEF StaleSession, AskScan,
       Fits, Unpicked, Picked, Returns, Locals, Labels
  <2>9. CASE ConnectFailed(p)
    BY <1>1, <1>2, <1>5, <2>9, Constant, Moves DEF ConnectFailed, AskScan,
       Fits, Unpicked, Picked, Returns, Locals, Labels
  <2>10. CASE Talk(p)
    BY <1>1, <1>2, <1>5, <2>10, Constant, Moves DEF Talk, End, NoLocals,
       Fits, Unpicked, Picked, Returns, Locals, Labels
  <2>11. CASE ClearTest(p)
    BY <1>1, <1>2, <1>5, <2>11, Constant, Moves DEF ClearTest,
       Fits, Unpicked, Picked, Returns, Locals, Labels
  <2>12. CASE ClearMark(p)
    BY <1>1, <1>2, <1>5, <2>12, Constant, Moves DEF ClearMark,
       Fits, Unpicked, Picked, Returns, Locals, Labels
  <2>13. CASE ClearLock(p)
    BY <1>1, <1>2, <1>5, <2>13, Constant, Moves DEF ClearLock,
       Fits, Unpicked, Picked, Returns, Locals, Labels
  <2>14. CASE ClearDrain(p)
    <3>1. CASE queued > 0
      BY <1>1, <1>2, <1>5, <2>14, <3>1, Constant, Moves DEF ClearDrain,
         Fits, Unpicked, Picked, Returns, Locals, Labels
    <3>2. CASE ~(queued > 0)
      <4>1. pc' = [pc EXCEPT ![p] = "reconnect"] /\ loc' = [loc EXCEPT ![p] = loc[p]]
        BY <2>14, <3>2 DEF ClearDrain
      <4>2. Fits(p, "reconnect", loc[p]) /\ lastUse # -1 /\ "reconnect" \in Labels
        BY <1>1, <1>5, <2>14, Constant DEF ClearDrain, Fits, Unpicked, Picked, Labels
      <4>3. pc' \in [Procs -> Labels] /\ loc' \in [Procs -> Locals] /\ LocalsInv'
        BY <1>1, <2>14, <4>1, <4>2, MoveTo DEF ClearDrain
      <4> QED
        BY <2>14, <3>2, <4>3 DEF ClearDrain
    <3> QED
      BY <3>1, <3>2
  <2>15. CASE ClearTake(p)
    BY <1>1, <1>2, <1>5, <2>15, Constant, Moves DEF ClearTake,
       Fits, Unpicked, Picked, Returns, Locals, Labels
  <2>16. CASE ReConnect(p)
    <3>1. lastUse # -1 /\ p \notin Reporters /\ loc[p].qix \in Slots
      BY <1>1, <1>5, <2>16, Constant DEF ReConnect, Fits, Unpicked, Picked, Locals
    <3>2. UNCHANGED lastUse /\ Call(p, loc[p].qix, "reconnected")
      BY <2>16 DEF ReConnect
    <3> QED
      BY <2>16, <3>1, <3>2, Calls DEF ReConnect, Returns, Picked
  <2>17. CASE ReConnected(p)
    BY <2>17, Ends DEF ReConnected
  <2>18. CASE ChangeType(p)
    <3> DEFINE r == [loc[p] EXCEPT !.got = "discard", !.nil = "discard", !.n = 1]
    <3>1. pc' = [pc EXCEPT ![p] = "get"] /\ loc' = [loc EXCEPT ![p] = r]
      BY <2>18 DEF ChangeType
    <3>2. r \in Locals
      <4>1. "discard" \in Labels /\ 1 \in Nat
        BY DEF Labels
      <4> QED
        BY <1>1, <4>1 DEF Locals
    <3>3. /\ r.got = "discard" /\ r.nil = "discard" /\ r.ret = loc[p].ret
          /\ r.no = loc[p].no /\ r.n = 1
      BY <1>1 DEF Locals
    <3> HIDE DEF r
    <3>4. Fits(p, "get", r) /\ "get" \in Labels
      BY <1>1, <2>18, <3>3 DEF ChangeType, Fits, Labels
    <3>5. lastUse = -1 => Unpicked("get", r)
      BY <1>1, <3>3 DEF Unpicked, Picked
    <3>6. pc' \in [Procs -> Labels] /\ loc' \in [Procs -> Locals] /\ LocalsInv'
      BY <2>18, <3>1, <3>2, <3>4, <3>5, MoveTo DEF ChangeType
    <3> QED
      BY <2>18, <3>6, Constant DEF ChangeType
  <2>19. CASE DiscardProfile(p)
    BY <1>1, <1>2, <1>5, <2>19, Constant, Moves, SMTT(30) DEF DiscardProfile,
       Fits, Unpicked, Picked, Returns, Locals, Labels
  <2>20. CASE ChangeEnds(p)
    BY <2>20, Ends DEF ChangeEnds
  <2> QED
    BY <1>5, <2>1, <2>2, <2>3, <2>4, <2>5, <2>6, <2>7, <2>8, <2>9, <2>10,
       <2>11, <2>12, <2>13, <2>14, <2>15, <2>16, <2>17, <2>18, <2>19,
       <2>20 DEF Handler
<1>6. CASE p \in Scanners /\ Scan(p)
  <2>1. CASE ScanStart(p)
    BY <1>1, <1>2, <1>6, <2>1, Constant, Moves DEF ScanStart,
       Fits, Unpicked, Picked, Returns, Locals, Labels
  <2>2. CASE ScanTest(p)
    BY <1>1, <1>2, <1>6, <2>2, Constant, Moves DEF ScanTest,
       Fits, Unpicked, Picked, Returns, Locals, Labels
  <2>3. CASE ScanLock(p)
    BY <1>1, <1>2, <1>6, <2>3, Constant, Moves DEF ScanLock,
       Fits, Unpicked, Picked, Returns, Locals, Labels
  <2>4. CASE ScanDrain(p)
    BY <1>1, <1>2, <1>6, <2>4, Constant, Moves DEF ScanDrain,
       Fits, Unpicked, Picked, Returns, Locals, Labels
  <2>5. CASE ScanTake(p)
    BY <1>1, <1>2, <1>6, <2>5, Constant, Moves DEF ScanTake,
       Fits, Unpicked, Picked, Returns, Locals, Labels
  <2>6. CASE ScanZero(p)
    BY <1>1, <1>2, <1>6, <2>6, Constant, Moves DEF ScanZero,
       Fits, Unpicked, Picked, Returns, Locals, Labels
  <2>7. CASE ScanSlot(p)
    <3>1. loc[p].no \in Slots /\ p \notin Reporters
      BY <1>1, <1>6, <2>7, Constant DEF ScanSlot, Fits, Unpicked, Picked, Locals
    <3>2. CASE Call(p, loc[p].no, "scNext")
      BY <2>7, <3>1, <3>2, Calls DEF ScanSlot, Returns, Picked
    <3>3. CASE loc' = [loc EXCEPT ![p].no = @ + 1] /\ UNCHANGED pc
      BY <1>1, <1>2, <2>7, <3>1, <3>3, Constant, Moves, SMTT(30) DEF ScanSlot,
         Fits, Unpicked, Picked, Returns, Locals, Labels
    <3> QED
      BY <2>7, <3>2, <3>3 DEF ScanSlot
  <2>8. CASE ScanNext(p)
    BY <1>1, <1>2, <1>6, <2>8, Constant, Moves, SMTT(30) DEF ScanNext,
       Fits, Unpicked, Picked, Returns, Locals, Labels
  <2>9. CASE ScanEnds(p)
    BY <2>9, Ends DEF ScanEnds
  <2> QED
    BY <1>6, <2>1, <2>2, <2>3, <2>4, <2>5, <2>6, <2>7, <2>8, <2>9 DEF Scan
<1>7. CASE p \in Autos /\ AutoSwitch(p)
  <2>1. CASE AutoPick(p)
    BY <1>1, <1>2, <1>7, <2>1, Constant, Moves DEF AutoPick,
       Fits, Unpicked, Picked, Returns, Locals, Labels
  <2>2. CASE AutoTake(p)
    BY <1>1, <1>2, <1>7, <2>2, Constant, Moves DEF AutoTake,
       Fits, Unpicked, Picked, Returns, Locals, Labels
  <2>3. CASE AutoBack(p)
    BY <1>1, <1>2, <1>7, <2>3, Constant, Moves DEF AutoBack,
       Fits, Unpicked, Picked, Returns, Locals, Labels
  <2>4. CASE AutoDrop(p)
    <3> DEFINE r == [loc[p] EXCEPT !.got = "auPut", !.nil = "done"]
    <3>1. pc' = [pc EXCEPT ![p] = "get"] /\ loc' = [loc EXCEPT ![p] = r]
      BY <2>4 DEF AutoDrop
    <3>2. r \in Locals
      <4>1. "auPut" \in Labels /\ "done" \in Labels
        BY DEF Labels
      <4> QED
        BY <1>1, <4>1 DEF Locals
    <3>3. /\ r.got = "auPut" /\ r.nil = "done" /\ r.ret = loc[p].ret
          /\ r.no = loc[p].no /\ r.n = loc[p].n
      BY <1>1 DEF Locals
    <3> HIDE DEF r
    <3>4. Fits(p, "get", r) /\ "get" \in Labels
      BY <1>1, <1>7, <2>4, <3>3, Constant DEF AutoDrop, Fits, Labels, Returns
    <3>5. lastUse = -1 => Unpicked("get", r)
      BY <1>1, <3>3 DEF Unpicked, Picked
    <3>6. pc' \in [Procs -> Labels] /\ loc' \in [Procs -> Locals] /\ LocalsInv'
      BY <2>4, <3>1, <3>2, <3>4, <3>5, MoveTo DEF AutoDrop
    <3> QED
      BY <2>4, <3>6 DEF AutoDrop
  <2>5. CASE AutoPut(p)
    BY <2>5, Constant, Ends DEF AutoPut
  <2> QED
    BY <1>7, <2>1, <2>2, <2>3, <2>4, <2>5 DEF AutoSwitch
<1>8. CASE p \in Reporters /\ Report(p)
  <2>1. CASE ReportPick(p)
    <3>1. PICK n \in 0 .. MaxReports :
            /\ loc' = [loc EXCEPT ![p] = [loc[p] EXCEPT !.n = n, !.no = 0]]
            /\ pc' = [pc EXCEPT ![p] = IF n = 0 THEN "rpClose" ELSE "rpTake"]
      BY <2>1 DEF ReportPick
    <3> DEFINE r == [loc[p] EXCEPT !.n = n, !.no = 0]
               l == IF n = 0 THEN "rpClose" ELSE "rpTake"
    <3>2. n \in Nat /\ r \in Locals
      <4>1. n \in Nat /\ 0 \in 0 .. ClientNum
        BY Constant
      <4> QED
        BY <1>1, <4>1 DEF Locals
    <3>3. /\ r.got = loc[p].got /\ r.nil = loc[p].nil /\ r.ret = loc[p].ret
          /\ r.no = 0 /\ r.n = n /\ l \in Labels
      BY <1>1 DEF Locals, Labels
    <3> HIDE DEF r
    <3>4. Fits(p, l, r) /\ (lastUse = -1 => Unpicked(l, r))
      BY <1>1, <3>2, <3>3, Constant DEF Fits, Unpicked, Picked
    <3>5. pc' = [pc EXCEPT ![p] = l] /\ loc' = [loc EXCEPT ![p] = r]
      BY <3>1 DEF r
    <3> HIDE DEF l
    <3>6. pc' \in [Procs -> Labels] /\ loc' \in [Procs -> Locals] /\ LocalsInv'
      BY <2>1, <3>2, <3>3, <3>4, <3>5, MoveTo DEF ReportPick
    <3> QED
      BY <2>1, <3>6 DEF ReportPick
  <2>2. CASE ReportTake(p)
    BY <1>1, <1>2, <1>8, <2>2, Constant, Moves DEF ReportTake,
       Fits, Unpicked, Picked, Returns, Locals, Labels
  <2>3. CASE ReportBack(p)
    BY <1>1, <1>2, <1>8, <2>3, Constant, Moves DEF ReportBack,
       Fits, Unpicked, Picked, Returns, Locals, Labels
  <2>4. CASE ReportCount(p)
    BY <1>1, <1>2, <1>8, <2>4, Constant, Moves DEF ReportCount,
       Fits, Unpicked, Picked, Returns, Locals, Labels
  <2>5. CASE ReportPost(p)
    BY <1>1, <1>2, <1>8, <2>5, Constant, Moves, SMTT(30) DEF ReportPost,
       Fits, Unpicked, Picked, Returns, Locals, Labels
  <2>6. CASE ReportLock(p)
    BY <1>1, <1>2, <1>8, <2>6, Constant, Moves DEF ReportLock,
       Fits, Unpicked, Picked, Returns, Locals, Labels
  <2>7. CASE ReportPush(p)
    BY <1>1, <1>2, <1>8, <2>7, Constant, Moves DEF ReportPush,
       Fits, Unpicked, Picked, Returns, Locals, Labels
  <2>8. CASE FixBuildSmux(p)
    <3>1. loc[p].no # ClientNum => loc[p].no \in Slots
      BY <1>1, <2>8, Constant DEF Fits, Locals
    <3>2. CASE loc[p].no # ClientNum /\ Call(p, loc[p].no, "rpBuilt")
      BY <1>1, <2>8, <3>1, <3>2, <1>8, Calls DEF FixBuildSmux, Fits, Returns, Picked
    <3>3. CASE loc[p].no # ClientNum /\ loc' = [loc EXCEPT ![p].no = @ + 1]
                 /\ UNCHANGED pc
      BY <1>1, <1>2, <2>8, <3>1, <3>3, Constant, Moves DEF FixBuildSmux,
         Fits, Unpicked, Picked, Returns, Locals, Labels
    <3>4. CASE loc[p].no = ClientNum
      BY <1>1, <1>2, <2>8, <3>4, Constant, Moves DEF FixBuildSmux,
         Fits, Unpicked, Picked, Returns, Locals, Labels
    <3> QED
      BY <2>8, <3>2, <3>3, <3>4 DEF FixBuildSmux
  <2>9. CASE FixNext(p)
    BY <1>1, <1>2, <1>8, <2>9, Constant, Moves, SMTT(30) DEF FixNext,
       Fits, Unpicked, Picked, Returns, Locals, Labels
  <2>10. CASE ReportNext(p)
    <3> DEFINE r == [loc[p] EXCEPT !.n = loc[p].n - 1, !.no = 0]
               l == IF loc[p].n = 1 THEN "rpClose" ELSE "rpTake"
    <3>1. pc' = [pc EXCEPT ![p] = l] /\ loc' = [loc EXCEPT ![p] = r]
      BY <2>10 DEF ReportNext
    <3>2. loc[p].n > 0 /\ loc[p].n \in Nat /\ loc[p].n - 1 \in Nat
      BY <1>1, <1>8, <2>10 DEF ReportNext, Fits, Locals
    <3>3. r \in Locals
      <4>1. loc[p].n - 1 \in Nat /\ 0 \in 0 .. ClientNum
        BY <3>2, Constant
      <4> QED
        BY <1>1, <4>1 DEF Locals
    <3>4. /\ r.got = loc[p].got /\ r.nil = loc[p].nil /\ r.ret = loc[p].ret
          /\ r.no = 0 /\ r.n = loc[p].n - 1 /\ l \in Labels
      BY <1>1 DEF Locals, Labels
    <3> HIDE DEF r
    <3>5. Fits(p, l, r) /\ (lastUse = -1 => Unpicked(l, r))
      BY <1>1, <3>2, <3>4, Constant DEF Fits, Unpicked, Picked
    <3> HIDE DEF l
    <3>6. pc' \in [Procs -> Labels] /\ loc' \in [Procs -> Locals] /\ LocalsInv'
      BY <2>10, <3>1, <3>3, <3>4, <3>5, MoveTo DEF ReportNext
    <3> QED
      BY <2>10, <3>6 DEF ReportNext
  <2>11. CASE ReportClose(p)
    <3>1. CASE loc[p].no = ClientNum
      BY <2>11, <3>1, Ends DEF ReportClose
    <3>2. CASE loc[p].no # ClientNum
      <4> DEFINE r == [loc[p] EXCEPT !.no = loc[p].no + 1]
      <4>1. pc' = [pc EXCEPT ![p] = "rpClose"] /\ loc' = [loc EXCEPT ![p] = r]
        BY <2>11, <3>2 DEF ReportClose
      <4>2. loc[p].no + 1 \in 0 .. ClientNum
        BY <1>1, <3>2, Constant DEF Locals
      <4>3. r \in Locals
        BY <1>1, <4>2 DEF Locals
      <4>4. /\ r.got = loc[p].got /\ r.nil = loc[p].nil /\ r.ret = loc[p].ret
            /\ "rpClose" \in Labels
        BY <1>1 DEF Locals, Labels
      <4> HIDE DEF r
      <4>5. Fits(p, "rpClose", r) /\ (lastUse = -1 => Unpicked("rpClose", r))
        BY <1>1, <4>4 DEF Fits, Unpicked, Picked
      <4>6. pc' \in [Procs -> Labels] /\ loc' \in [Procs -> Locals] /\ LocalsInv'
        BY <2>11, <4>1, <4>3, <4>4, <4>5, MoveTo DEF ReportClose
      <4> QED
        BY <2>11, <3>2, <4>6 DEF ReportClose
    <3> QED
      BY <3>1, <3>2
  <2> QED
    BY <1>8, <2>1, <2>2, <2>3, <2>4, <2>5, <2>6, <2>7, <2>8, <2>9, <2>10,
       <2>11 DEF Report
<1> QED
  BY <1>3, <1>4, <1>5, <1>6, <1>7, <1>8 DEF Alone

-----------------------------------------------------------------------------
(* The count of errors.                                                    *)

LEMMA BuilderCount ==
    /\ IsFiniteSet(Builders)
    /\ Cardinality(Builders) \in Nat
    /\ Cardinality(Builders) <= ClientNum
<1> DEFINE f == [i \in Slots |-> Builder(i)]
<1>1. IsFiniteSet(Slots) /\ Cardinality(Slots) = ClientNum
  BY Constant, FS_Interval DEF Slots
<1>2. f \in Surjection(Slots, Builders)
  BY DEF Surjection, Builders
<1> HIDE DEF f
<1>3. IsFiniteSet(Builders) /\ Cardinality(Builders) <= ClientNum
  BY <1>1, <1>2, FS_Surjection
<1> QED
  BY <1>3, FS_CardinalityType

LEMMA EndedCount ==
    /\ IsFiniteSet(Ended) /\ Cardinality(Ended) \in Nat
    /\ Cardinality(Ended) <= ClientNum
<1>1. Ended \in SUBSET Builders
  BY DEF Ended
<1>2. IsFiniteSet(Ended) /\ Cardinality(Ended) <= Cardinality(Builders)
  BY <1>1, BuilderCount, FS_Subset
<1>3. Cardinality(Ended) \in Nat
  BY <1>2, FS_CardinalityType
<1> QED
  BY <1>2, <1>3, BuilderCount, Constant

\* Builders that are done stay done, and no other sees errnum.
LEMMA ErrnumKept ==
    ASSUME TypeOK, ErrnumInv, UNCHANGED errnum,
           \A b \in Builders :
              /\ pc[b] = "done" => pc'[b] = "done"
              /\ pc'[b] = "bump" => pc[b] = "bump" /\ loc'[b] = loc[b]
    PROVE  ErrnumInv' /\ errnum' \in 0 .. ClientNum
<1>1. Ended' \in SUBSET Builders /\ Ended \in SUBSET Ended'
  BY DEF Ended
<1>2. IsFiniteSet(Ended') /\ Cardinality(Ended') \in Nat
  BY <1>1, BuilderCount, FS_Subset, FS_CardinalityType
<1>3. Cardinality(Ended) <= Cardinality(Ended')
  BY <1>1, <1>2, FS_Subset
<1>4. Cardinality(Ended) \in Nat
  BY EndedCount
<1>5. ASSUME NEW b \in Builders, pc'[b] = "bump"
      PROVE  loc'[b].seen <= Cardinality(Ended')
  <2>1. loc[b].seen <= Cardinality(Ended) /\ loc'[b] = loc[b]
    BY <1>5 DEF ErrnumInv
  <2>2. loc[b].seen \in Nat
    BY DEF TypeOK, Procs, Locals
  <2> QED
    BY <1>2, <1>3, <1>4, <2>1, <2>2
<1>6. errnum' <= Cardinality(Ended') /\ errnum' \in 0 .. ClientNum
  BY <1>2, <1>3, <1>4, Constant DEF ErrnumInv, TypeOK
<1> QED
  BY <1>5, <1>6 DEF ErrnumInv

LEMMA ErrnumStep ==
    TypeInv /\ [Next]_vars => ErrnumInv' /\ errnum' \in 0 .. ClientNum
<1> SUFFICES ASSUME TypeInv, [Next]_vars
             PROVE  ErrnumInv' /\ errnum' \in 0 .. ClientNum
  OBVIOUS
<1>1. TypeOK /\ LocalsInv /\ ErrnumInv
  BY DEF TypeInv
<1>2. Builders \subseteq Procs
  BY DEF Procs
<1>3. CASE UNCHANGED vars \/ TunnelsBuilt
  <2>1. UNCHANGED <<pc, loc, errnum>>
    BY <1>3 DEF vars, TunnelsBuilt
  <2> QED
    BY <1>1, <2>1, ErrnumKept
<1>4. ASSUME NEW p \in Procs, Alone(p), p \notin Builders
      PROVE  ErrnumInv' /\ errnum' \in 0 .. ClientNum
  <2>1. UNCHANGED errnum
    <3>1. CASE Rebuild(p)
      BY <3>1 DEF Rebuild, GetRead, GetPoll, GetCount, GetFetched, GetFailed,
         RebuildCheck, RebuildEvict, RebuildPush, RebuildDialFails,
         RebuildStore, client
    <3>2. CASE Handler(p) /\ ~BuildAgain(p)
      BY <3>2 DEF Handler, Accept, PickSession, IndexSession, LoadSession,
         TryRebuild, Rebuilt, UseSession, StaleSession, ConnectFailed, Talk,
         ClearTest, ClearMark, ClearLock, ClearDrain, ClearTake, ReConnect,
         ReConnected, ChangeType, DiscardProfile, ChangeEnds, client
    <3>3. CASE Scan(p) \/ AutoSwitch(p)
      BY <3>3 DEF Scan, ScanStart, ScanTest, ScanLock, ScanDrain, ScanTake,
         ScanZero, ScanSlot, ScanNext, ScanEnds, AutoSwitch, AutoPick,
         AutoTake, AutoBack, AutoDrop, AutoPut, client
    <3>4. CASE Report(p)
      BY <3>4 DEF Report, ReportPick, ReportTake, ReportBack, ReportCount,
         ReportPost, ReportLock, ReportPush, FixBuildSmux, FixNext,
         ReportNext, ReportClose, client
    <3> QED
      BY <1>4, <3>1, <3>2, <3>3, <3>4 DEF Alone
  <2>2. \A b \in Builders : pc'[b] = pc[b] /\ loc'[b] = loc[b]
    BY <1>1, <1>2, <1>4, OthersStay
  <2> QED
    BY <1>1, <2>1, <2>2, ErrnumKept
<1>5. ASSUME NEW p \in Builders, Rebuild(p)
      PROVE  ErrnumInv' /\ errnum' \in 0 .. ClientNum
  <2>1. \A b \in Builders : b # p => pc'[b] = pc[b] /\ loc'[b] = loc[b]
    BY <1>1, <1>2, <1>5, OthersStay DEF Alone
  <2>2. Fits(p, pc[p], loc[p]) /\ pc \in [Procs -> Labels] /\ p \in Procs
    BY <1>1, <1>2 DEF LocalsInv, TypeOK
  <2>3. pc[p] # "done" /\ pc'[p] # "bump" /\ UNCHANGED errnum
    BY <1>5, <2>2
       DEF Rebuild, GetRead, GetPoll, GetCount, GetFetched, GetFailed,
           RebuildCheck, RebuildEvict, RebuildPush, RebuildDialFails,
           RebuildStore, Return, Go, client, Fits, Returns
  <2> QED
    BY <1>1, <2>1, <2>3, ErrnumKept
<1>6. ASSUME NEW p \in Builders, Built(p)
      PROVE  ErrnumInv' /\ errnum' \in 0 .. ClientNum
  <2>1. /\ pc \in [Procs -> Labels] /\ loc \in [Procs -> Locals] /\ p \in Procs
        /\ errnum \in 0 .. ClientNum
    BY <1>1, <1>2 DEF TypeOK
  <2>2. CASE loc[p].res = "broken"
    <3>1. /\ pc' = [pc EXCEPT ![p] = "bump"] /\ pc[p] = "built"
          /\ loc' = [loc EXCEPT ![p].seen = errnum] /\ UNCHANGED errnum
      BY <1>6, <2>2 DEF Built, Go, client
    <3>2. Ended' = Ended
      BY <1>2, <2>1, <3>1 DEF Ended
    <3>3. /\ loc'[p].seen = errnum
          /\ \A b \in Builders : b # p => pc'[b] = pc[b] /\ loc'[b] = loc[b]
      BY <1>2, <2>1, <3>1 DEF Locals
    <3> QED
      BY <1>1, <2>1, <3>1, <3>2, <3>3 DEF ErrnumInv
  <2>3. CASE loc[p].res # "broken"
    <3>1. /\ pc' = [pc EXCEPT ![p] = "done"] /\ pc[p] = "built"
          /\ UNCHANGED <<loc, errnum>>
      BY <1>6, <2>3 DEF Built, Go, client
    <3>2. \A b \in Builders : /\ pc[b] = "done" => pc'[b] = "done"
                              /\ pc'[b] = "bump" => pc[b] = "bump"
      BY <1>2, <2>1, <3>1
    <3> QED
      BY <1>1, <3>1, <3>2, ErrnumKept
  <2> QED
    BY <2>2, <2>3
<1>7. ASSUME NEW p \in Builders, Bump(p)
      PROVE  ErrnumInv' /\ errnum' \in 0 .. ClientNum
  <2>1. /\ pc \in [Procs -> Labels] /\ loc \in [Procs -> Locals] /\ p \in Procs
        /\ loc[p].seen \in Nat
    BY <1>1, <1>2 DEF TypeOK, Locals
  <2>2. /\ pc' = [pc EXCEPT ![p] = "done"] /\ pc[p] = "bump"
        /\ errnum' = loc[p].seen + 1
        /\ \A b \in Builders : b # p => pc'[b] = pc[b] /\ loc'[b] = loc[b]
    BY <1>2, <1>7, <2>1 DEF Bump, Go
  <2>3. Ended' = Ended \cup {p} /\ p \notin Ended
    BY <1>2, <2>1, <2>2 DEF Ended
  <2>4. /\ Cardinality(Ended') = Cardinality(Ended) + 1
        /\ Cardinality(Ended) \in Nat
    BY <2>3, EndedCount, FS_AddElement
  <2>5. Cardinality(Ended') <= ClientNum
    <3>1. Ended' \in SUBSET Builders
      BY DEF Ended
    <3>2. Cardinality(Ended') <= Cardinality(Builders)
      BY <3>1, BuilderCount, FS_Subset
    <3> QED
      BY <2>4, <3>2, BuilderCount, Constant
  <2>6. loc[p].seen <= Cardinality(Ended)
    BY <1>1, <2>2 DEF ErrnumInv
  <2>7. errnum' <= Cardinality(Ended') /\ errnum' \in 0 .. ClientNum
    BY <2>1, <2>2, <2>4, <2>5, <2>6, Constant
  <2>8. ASSUME NEW b \in Builders, pc'[b] = "bump"
        PROVE  loc'[b].seen <= Cardinality(Ended')
    <3>1. b # p /\ pc[b] = "bump" /\ loc'[b] = loc[b] /\ loc[b].seen \in Nat
      BY <1>1, <1>2, <2>1, <2>2, <2>8 DEF TypeOK, Locals
    <3>2. loc[b].seen <= Cardinality(Ended)
      BY <1>1, <3>1 DEF ErrnumInv
    <3> QED
      BY <2>4, <3>1, <3>2
  <2> QED
    BY <2>7, <2>8 DEF ErrnumInv
<1>8. ASSUME NEW p \in Conns, BuildAgain(p)
      PROVE  ErrnumInv' /\ errnum' \in 0 .. ClientNum
  <2>1. errnum' = 0 /\ \A b \in Builders : pc'[b] = "get"
    BY <1>2, <1>8 DEF BuildAgain
  <2>2. Ended' \in SUBSET Builders
    BY DEF Ended
  <2>3. Cardinality(Ended') \in Nat
    BY <2>2, BuilderCount, FS_Subset, FS_CardinalityType
  <2> QED
    BY <2>1, <2>3, Constant DEF ErrnumInv
<1>9. ASSUME NEW p \in Builders, Alone(p)
      PROVE  Rebuild(p) \/ Built(p) \/ Bump(p)
  BY <1>9, Constant DEF Alone
<1> QED
  BY <1>1, <1>3, <1>4, <1>5, <1>6, <1>7, <1>8, <1>9, NextCases

-----------------------------------------------------------------------------
LEMMA TypeInit == Init => TypeInv
<1> SUFFICES ASSUME Init
             PROVE  TypeInv
  OBVIOUS
<1>1. NoLocals \in Locals
  BY Constant DEF NoLocals, Locals, Labels, Slots
<1>2. ASSUME NEW b \in Builders
      PROVE  /\ b \in Procs /\ b[2] \in Slots
             /\ loc[b] = [NoLocals EXCEPT !.no = b[2], !.ret = "built",
                                          !.nil = "built"]
  <2>1. PICK i \in Slots : b = <<"build", i>>
    BY DEF Builders, Builder
  <2>2. b[2] = i /\ b \in Procs
    BY <2>1 DEF Procs
  <2> QED
    BY <2>2 DEF Init
<1>3. ASSUME NEW p \in Procs
      PROVE  /\ loc[p] \in Locals /\ pc[p] \in {"get", "idle"}
             /\ Fits(p, pc[p], loc[p]) /\ Unpicked(pc[p], loc[p])
  <2>1. CASE p \in Builders
    <3> DEFINE i == p[2]
    <3>1. i \in Slots
      BY <1>2, <2>1
    <3> HIDE DEF i
    <3>2. i \in 0 .. ClientNum /\ i < ClientNum
      BY <3>1, Constant DEF Slots
    <3>3. loc[p] = [NoLocals EXCEPT !.no = i, !.ret = "built", !.nil = "built"]
      BY <1>2, <2>1 DEF i
    <3>4. "built" \in Labels
      BY DEF Labels
    <3>5. loc[p] \in Locals
      BY <1>1, <3>2, <3>3, <3>4 DEF Locals
    <3>6. /\ loc[p].no < ClientNum /\ loc[p].ret = "built"
          /\ loc[p].nil = "built" /\ loc[p].got = "check"
          /\ pc[p] = "get" /\ p \notin Reporters
      BY <2>1, <3>2, <3>3, Constant DEF NoLocals, Init
    <3> QED
      BY <3>5, <3>6 DEF Fits, Unpicked, Picked, Returns
  <2>2. CASE p \notin Builders
    <3>1. loc[p] = NoLocals /\ pc[p] = "idle"
      BY <2>2 DEF Init
    <3> QED
      BY <1>1, <3>1, Constant DEF Fits, Unpicked, Picked, Returns, NoLocals
  <2> QED
    BY <2>1, <2>2
<1>4. LocalsInv
  BY <1>3 DEF LocalsInv
<1>5. pc \in [Procs -> Labels] /\ loc \in [Procs -> Locals]
  BY <1>3, ZenonT(30) DEF Init, Labels
<1>6. TypeOK
  <2>1. /\ 0 \in 0 .. ClientNum /\ 0 \in 0 .. MaxScans /\ 0 \in Int
        /\ {} \subseteq Slots /\ {} \subseteq Procs
    BY Constant
  <2> QED
    BY <1>5, <2>1 DEF Init, TypeOK
<1>7. ErrnumInv
  <2>1. \A b \in Builders : pc[b] # "bump"
    BY <1>2, <1>3
  <2>2. errnum <= Cardinality(Ended)
    <3>1. errnum = 0
      BY DEF Init
    <3> QED
      BY <3>1, EndedCount
  <2> QED
    BY <2>1, <2>2 DEF ErrnumInv
<1> QED
  BY <1>4, <1>6, <1>7 DEF TypeInv

LEMMA TypeStep == TypeInv /\ [Next]_vars => TypeInv'
<1> SUFFICES ASSUME TypeInv, [Next]_vars
             PROVE  TypeInv'
  OBVIOUS
<1>1. TypeOK /\ LocalsInv /\ ErrnumInv
  BY DEF TypeInv
<1>2. ErrnumInv' /\ errnum' \in 0 .. ClientNum
  BY ErrnumStep
<1>3. CASE UNCHANGED vars
  BY <1>1, <1>2, <1>3 DEF vars, TypeInv, TypeOK, LocalsInv
<1>4. CASE TunnelsBuilt /\ UNCHANGED cast
  BY <1>1, <1>2, <1>4
     DEF TunnelsBuilt, pool, TypeInv, TypeOK, LocalsInv
<1>5. ASSUME NEW p \in Procs, Alone(p), UNCHANGED cast
      PROVE  TypeInv'
  BY <1>1, <1>2, <1>5, AloneKeepsTypes DEF TypeInv
<1>6. ASSUME NEW p \in Conns, BuildAgain(p), UNCHANGED cast
      PROVE  TypeInv'
  <2>1. /\ pc' = [q \in Procs |-> IF q \in Builders THEN "get"
                                  ELSE IF q = p THEN "waitAll" ELSE pc[q]]
        /\ UNCHANGED <<queued, initProfiles, lock, fixing, slots, lastUse,
                       inited, broken, scans, loc>>
        /\ out' = out \ {p}
        /\ \A b \in Builders : pc[b] = "done"
        /\ pc[p] = "discard" /\ p \in Procs /\ p \notin Reporters
    BY <1>6, Constant DEF BuildAgain
  <2>2. TypeOK'
    BY <1>1, <1>2, <1>6, <2>1 DEF TypeOK, Labels
  <2>3. ASSUME NEW q \in Procs
        PROVE  /\ Fits(q, pc'[q], loc'[q])
               /\ lastUse' = -1 => Unpicked(pc'[q], loc'[q])
    <3>1. /\ Fits(q, pc[q], loc[q])
          /\ lastUse = -1 => Unpicked(pc[q], loc[q])
      BY <1>1 DEF LocalsInv
    <3>2. q \in Builders => q \notin Reporters
      BY Constant
    <3> QED
      BY <2>1, <3>1, <3>2 DEF Fits, Unpicked, Picked
  <2> QED
    BY <1>2, <2>2, <2>3 DEF TypeInv, LocalsInv
<1> QED
  BY <1>1, <1>3, <1>4, <1>5, <1>6, NextCases

\* Every variable keeps to its values: the queue to its capacity, the slot
\* that a session is stored in to those there are, and the count of errors to
\* the number of channels, though the builders add to it without a lock.
THEOREM TypeCorrect == Spec => []TypeOK
<1>1. TypeInv => TypeOK
  BY DEF TypeInv
<1> QED
  BY TypeInit, TypeStep, <1>1, PTL DEF Spec

-----------------------------------------------------------------------------
(* The lock and the queue.                                                 *)

\* Blocked on an empty queue, with the lock.
Receiving == {"take", "scTake", "evict"}

\* A change of the proxy type has begun.
Begun(p) == p \in Changers /\ pc[p] \notin {"idle", "change"}

\* What one step of p does to the lock, and to the queue while another has it.
LEMMA AlonePool ==
    ASSUME TypeOK, LocalsInv, NEW p \in Procs, Alone(p)
    PROVE  /\ pc'[p] \in Holding => lock' = p \/ (lock' = lock /\ pc[p] \in Holding)
           /\ lock' = lock \/ lock = None \/ pc[p] \in Holding
           /\ Begun(p) => Begun(p)'
           /\ pc'[p] \in Receiving => queued' > 0
           /\ lock # None /\ pc[p] \notin Holding =>
                 UNCHANGED <<queued, out>> \/ p \in out' \/ queued' > 0 \/ Begun(p)'
<1>1. /\ Fits(p, pc[p], loc[p]) /\ pc \in [Procs -> Labels]
      /\ queued \in 0 .. ClientNum /\ ClientNum \in Nat /\ ClientNum > 0
      /\ p \in Conns \/ p \in Builders \/ p \in Scanners \/ p \in Autos
            \/ p \in Reporters => p \in Procs
      /\ p \in Changers => p \in Conns
  BY Constant DEF LocalsInv, TypeOK
<1> USE DEF Go, Free, pool, client, Holding, Receiving, Begun
<1>2. CASE Rebuild(p)
  BY <1>1, <1>2, Constant
     DEF GetRead, GetPoll, GetCount, GetFetched, GetFailed, RebuildCheck,
         RebuildEvict, RebuildPush, RebuildDialFails, RebuildStore, Rebuild,
         Return, Fits, Returns
<1>3. CASE p \in Builders /\ (Built(p) \/ Bump(p))
  BY <1>1, <1>3, Constant
     DEF Built, Bump
<1>4. CASE p \in Conns /\ Handler(p) /\ ~BuildAgain(p)
  BY <1>1, <1>4, Constant
     DEF Accept, PickSession, IndexSession, LoadSession, TryRebuild, Rebuilt,
         UseSession, StaleSession, ConnectFailed, Talk, ClearTest, ClearMark,
         ClearLock, ClearDrain, ClearTake, ReConnect, ReConnected, ChangeType,
         DiscardProfile, ChangeEnds, Handler, Call, End, Fits
<1>5. CASE p \in Scanners /\ Scan(p)
  BY <1>1, <1>5, Constant
     DEF ScanStart, ScanTest, ScanLock, ScanDrain, ScanTake, ScanZero,
         ScanSlot, ScanNext, ScanEnds, Scan, Call, End
<1>6. CASE p \in Autos /\ AutoSwitch(p)
  BY <1>1, <1>6, Constant
     DEF AutoPick, AutoTake, AutoBack, AutoDrop, AutoPut, AutoSwitch, End
<1>7. CASE p \in Reporters /\ Report(p)
  <2>1. p \notin Changers
    BY <1>7, Constant
  <2>2. CASE ReportPick(p)
    BY <1>1, <2>1, <2>2 DEF ReportPick
  <2>3. CASE ReportTake(p)
    BY <1>1, <2>1, <2>3 DEF ReportTake
  <2>4. CASE ReportBack(p)
    BY <1>1, <2>1, <2>4 DEF ReportBack
  <2>5. CASE ReportCount(p)
    BY <1>1, <2>1, <2>5 DEF ReportCount
  <2>6. CASE ReportPost(p)
    BY <1>1, <2>1, <2>6 DEF ReportPost
  <2>7. CASE ReportLock(p)
    BY <1>1, <2>1, <2>7 DEF ReportLock
  <2>8. CASE ReportPush(p)
    BY <1>1, <2>1, <2>8 DEF ReportPush
  <2>9. CASE FixBuildSmux(p)
    BY <1>1, <2>1, <2>9 DEF FixBuildSmux, Call
  <2>10. CASE FixNext(p)
    BY <1>1, <2>1, <2>10 DEF FixNext
  <2>11. CASE ReportNext(p)
    BY <1>1, <2>1, <2>11 DEF ReportNext
  <2>12. CASE ReportClose(p)
    BY <1>1, <2>1, <2>12 DEF ReportClose, End
  <2> QED
    BY <1>7, <2>2, <2>3, <2>4, <2>5, <2>6, <2>7,
       <2>8, <2>9, <2>10, <2>11, <2>12 DEF Report
<1> QED
  BY <1>2, <1>3, <1>4, <1>5, <1>6, <1>7 DEF Alone

\* What starting the builders again does.
LEMMA Rebuilding ==
    ASSUME TypeOK, LocalsInv, NEW p \in Conns, BuildAgain(p)
    PROVE  /\ p \in Changers /\ p \in Procs /\ p \notin Builders
           /\ pc'[p] = "waitAll" /\ lock' = lock
           /\ \A q \in Builders : pc[q] = "done" /\ pc'[q] = "get"
           /\ \A q \in Procs \ Builders : q # p => pc'[q] = pc[q]
<1>1. p \in Procs /\ p \notin Builders /\ Builders \subseteq Procs
  BY Constant DEF Procs
<1>2. pc[p] = "discard" /\ Fits(p, pc[p], loc[p])
  BY <1>1 DEF BuildAgain, LocalsInv
<1> QED
  BY <1>1, <1>2 DEF BuildAgain, Fits

LEMMA LockStep == TypeInv /\ LockInv /\ [Next]_vars => LockInv'
<1> SUFFICES ASSUME TypeInv, LockInv, [Next]_vars
             PROVE  LockInv'
  OBVIOUS
<1>1. TypeOK /\ LocalsInv
  BY DEF TypeInv
<1>2. CASE UNCHANGED vars
  BY <1>2 DEF vars, LockInv
<1>3. CASE TunnelsBuilt
  BY <1>3 DEF TunnelsBuilt, LockInv
<1>4. ASSUME NEW p \in Procs, Alone(p)
      PROVE  LockInv'
  <2>1. /\ pc'[p] \in Holding => lock' = p \/ (lock' = lock /\ pc[p] \in Holding)
        /\ lock' = lock \/ lock = None \/ pc[p] \in Holding
    BY <1>1, <1>4, AlonePool
  <2>2. \A q \in Procs : q # p => pc'[q] = pc[q]
    BY <1>1, <1>4, OthersStay
  <2> QED
    BY <2>1, <2>2, Constant DEF LockInv
<1>5. ASSUME NEW p \in Conns, BuildAgain(p)
      PROVE  LockInv'
  BY <1>1, <1>5, Rebuilding DEF LockInv, Holding
<1> QED
  BY <1>1, <1>2, <1>3, <1>4, <1>5, NextCases

LEMMA StuckStep ==
    TypeInv /\ LockInv /\ StuckMeansStolen /\ [Next]_vars => StuckMeansStolen'
<1> SUFFICES ASSUME TypeInv, LockInv, StuckMeansStolen, [Next]_vars
             PROVE  StuckMeansStolen'
  OBVIOUS
<1>1. TypeOK /\ LocalsInv /\ queued \in Nat
  BY Constant DEF TypeInv, TypeOK
<1>2. CASE UNCHANGED vars
  BY <1>2 DEF vars, StuckMeansStolen
<1>3. CASE TunnelsBuilt
  BY <1>3 DEF TunnelsBuilt, pool, StuckMeansStolen
<1>4. ASSUME NEW p \in Procs, Alone(p)
      PROVE  StuckMeansStolen'
  <2> SUFFICES ASSUME NEW q \in Procs, pc'[q] \in Receiving, queued' = 0
               PROVE  out' # {} \/ \E c \in Changers : Begun(c)'
    BY DEF StuckMeansStolen, Receiving, Begun
  <2>1. \A c \in Procs : c # p => pc'[c] = pc[c]
    BY <1>1, <1>4, OthersStay
  <2>2. q # p
    BY <1>1, <1>4, AlonePool
  <2>3. pc[q] \in Receiving /\ lock = q /\ lock # None /\ pc[p] \notin Holding
    BY <2>1, <2>2, Constant DEF LockInv, Receiving, Holding
  <2>4. UNCHANGED <<queued, out>> \/ p \in out' \/ queued' > 0 \/ Begun(p)'
    BY <1>1, <1>4, <2>3, AlonePool
  <2>5. CASE Begun(p)'
    BY <2>5 DEF Begun
  <2>6. CASE UNCHANGED <<queued, out>>
    <3>1. out # {} \/ \E c \in Changers : Begun(c)
      BY <2>3, <2>6 DEF StuckMeansStolen, Receiving, Begun
    <3>2. ASSUME NEW c \in Changers, Begun(c)
          PROVE  Begun(c)'
      <4>1. c \in Procs
        BY Constant
      <4>2. CASE c = p
        BY <1>1, <1>4, <3>2, <4>2, AlonePool
      <4>3. CASE c # p
        BY <2>1, <3>2, <4>1, <4>3 DEF Begun
      <4> QED
        BY <4>2, <4>3
    <3> QED
      BY <2>6, <3>1, <3>2
  <2> QED
    BY <2>4, <2>5, <2>6
<1>5. ASSUME NEW p \in Conns, BuildAgain(p)
      PROVE  StuckMeansStolen'
  BY <1>1, <1>5, Rebuilding DEF StuckMeansStolen
<1> QED
  BY <1>1, <1>2, <1>3, <1>4, <1>5, NextCases

\* Whoever blocks on the empty queue with the lock lost the profile to a
\* process that received outside of the lock and still has it, or to a change
\* of the proxy type: with any number of handlers, scans and reports nothing
\* else makes the receives of ClearPofiles, ScanSessionAndFix and RebuildSmux
\* block, since a second process inside of LockArea is impossible.
THEOREM BlockedMeansStolen == Spec => []StuckMeansStolen
<1>1. Init => LockInv /\ StuckMeansStolen
  BY DEF Init, LockInv, Holding, StuckMeansStolen
<1> QED
  BY <1>1, TypeInit, TypeStep, LockStep, StuckStep, PTL DEF Spec

-----------------------------------------------------------------------------
(* Before the first connection.                                            *)

\* Only a scan becomes idle again, and only a connection asks for one.
LEMMA AloneIdle ==
    ASSUME TypeOK, LocalsInv, NEW p \in Procs, Alone(p)
    PROVE  /\ p \notin Scanners => pc'[p] # "idle"
           /\ p \in Scanners /\ pc[p] = "idle" => scans > 0
           /\ p \notin Conns => scans' \in {scans, scans - 1}
<1>1. /\ Fits(p, pc[p], loc[p]) /\ pc \in [Procs -> Labels] /\ scans \in Nat
      /\ loc[p].ret # "idle" /\ loc[p].nil # "idle" /\ loc[p].got # "idle"
  BY Constant DEF LocalsInv, TypeOK, Fits, Returns
<1> USE DEF Go, client
<1>2. CASE Rebuild(p)
  BY <1>1, <1>2
     DEF GetRead, GetPoll, GetCount, GetFetched, GetFailed, RebuildCheck,
         RebuildEvict, RebuildPush, RebuildDialFails, RebuildStore, Rebuild,
         Return
<1>3. CASE p \in Builders /\ (Built(p) \/ Bump(p))
  BY <1>1, <1>3, Constant DEF Built, Bump
<1>4. CASE p \in Conns /\ Handler(p) /\ ~BuildAgain(p)
  BY <1>1, <1>4, Constant
     DEF Accept, PickSession, IndexSession, LoadSession, TryRebuild, Rebuilt,
         UseSession, StaleSession, ConnectFailed, Talk, ClearTest, ClearMark,
         ClearLock, ClearDrain, ClearTake, ReConnect, ReConnected, ChangeType,
         DiscardProfile, ChangeEnds, Handler, Call, End
<1>5. CASE p \in Scanners /\ Scan(p)
  BY <1>1, <1>5
     DEF ScanStart, ScanTest, ScanLock, ScanDrain, ScanTake, ScanZero,
         ScanSlot, ScanNext, ScanEnds, Scan, Call, End
<1>6. CASE p \in Autos /\ AutoSwitch(p)
  BY <1>1, <1>6, Constant
     DEF AutoPick, AutoTake, AutoBack, AutoDrop, AutoPut, AutoSwitch, End
<1>7. CASE p \in Reporters /\ Report(p)
  <2>1. p \notin Scanners /\ p \notin Conns
    BY <1>7, Constant
  <2>2. CASE ReportPick(p)
    BY <1>1, <2>1, <2>2 DEF ReportPick
  <2>3. CASE ReportTake(p)
    BY <1>1, <2>1, <2>3 DEF ReportTake
  <2>4. CASE ReportBack(p)
    BY <1>1, <2>1, <2>4 DEF ReportBack
  <2>5. CASE ReportCount(p)
    BY <1>1, <2>1, <2>5 DEF ReportCount
  <2>6. CASE ReportPost(p)
    BY <1>1, <2>1, <2>6 DEF ReportPost
  <2>7. CASE ReportLock(p)
    BY <1>1, <2>1, <2>7 DEF ReportLock
  <2>8. CASE ReportPush(p)
    BY <1>1, <2>1, <2>8 DEF ReportPush
  <2>9. CASE FixBuildSmux(p)
    BY <1>1, <2>1, <2>9 DEF FixBuildSmux, Call
  <2>10. CASE FixNext(p)
    BY <1>1, <2>1, <2>10 DEF FixNext
  <2>11. CASE ReportNext(p)
    BY <1>1, <2>1, <2>11 DEF ReportNext
  <2>12. CASE ReportClose(p)
    BY <1>1, <2>1, <2>12 DEF ReportClose, End
  <2> QED
    BY <1>7, <2>2, <2>3, <2>4, <2>5, <2>6, <2>7,
       <2>8, <2>9, <2>10, <2>11, <2>12 DEF Report
<1> QED
  BY <1>2, <1>3, <1>4, <1>5, <1>6, <1>7 DEF Alone

\* If nobody but the builders has run after a step, a builder took it.
LEMMA ScanStep ==
    ASSUME TypeOK, LocalsInv, ScanInv, NEW p \in Procs, Alone(p)
    PROVE  ScanInv' /\ (Startup' => Startup /\ p \in Builders)
<1>1. \A q \in Procs : q # p => pc'[q] = pc[q]
  BY OthersStay
<1>2. /\ p \notin Scanners => pc'[p] # "idle"
      /\ p \in Scanners /\ pc[p] = "idle" => scans > 0
      /\ p \notin Conns => scans' \in {scans, scans - 1}
  BY AloneIdle
<1>3. scans \in Int
  BY DEF TypeOK
<1>4. Scanners \subseteq Procs /\ Conns \subseteq Procs /\ Builders \subseteq Procs
      /\ Conns \cap Scanners = {} /\ Scanners \cap Builders = {}
      /\ Conns \cap Builders = {}
  BY Constant
<1>5. CASE p \in Conns
  BY <1>2, <1>4, <1>5 DEF ScanInv, Startup
<1>6. CASE p \notin Conns
  <2>1. ScanInv'
    BY <1>1, <1>2, <1>3, <1>4, <1>6 DEF ScanInv
  <2>2. ASSUME Startup'
        PROVE  Startup /\ p \in Builders
    <3>1. \A c \in Conns : pc[c] = "idle"
      BY <1>1, <1>4, <1>6, <2>2 DEF Startup
    <3>2. p \in Builders
      <4>1. p \in Scanners => pc[p] = "idle" /\ ~(scans > 0)
        BY <3>1 DEF ScanInv
      <4> QED
        BY <1>2, <2>2, <4>1 DEF Startup
    <3> QED
      BY <1>1, <2>2, <3>2 DEF Startup
  <2> QED
    BY <2>1, <2>2
<1> QED
  BY <1>5, <1>6

\* How the numbers of builders change when one of them, p, moves.
LEMMA Counted ==
    ASSUME NEW p \in Builders, \A b \in Builders : b # p => pc'[b] = pc[b],
           NEW at,
           NEW old, old = {b \in Builders : pc[b] \in at},
           NEW new, new = {b \in Builders : pc'[b] \in at}
    PROVE  /\ Cardinality(old) \in Nat /\ Cardinality(new) \in Nat
           /\ (pc[p] \in at <=> pc'[p] \in at) => Cardinality(new) = Cardinality(old)
           /\ pc[p] \notin at /\ pc'[p] \in at => Cardinality(new) = Cardinality(old) + 1
           /\ pc[p] \in at /\ pc'[p] \notin at => Cardinality(new) = Cardinality(old) - 1
<1>1. IsFiniteSet(old) /\ IsFiniteSet(new)
  BY BuilderCount, FS_Subset
<1>2. Cardinality(old) \in Nat /\ Cardinality(new) \in Nat
  BY <1>1, FS_CardinalityType
<1>3. ASSUME pc[p] \in at <=> pc'[p] \in at
      PROVE  Cardinality(new) = Cardinality(old)
  <2>1. new = old
    BY <1>3
  <2> QED
    BY <2>1
<1>4. ASSUME pc[p] \notin at, pc'[p] \in at
      PROVE  Cardinality(new) = Cardinality(old) + 1
  <2>1. new = old \cup {p} /\ p \notin old
    BY <1>4
  <2> QED
    BY <1>1, <2>1, FS_AddElement
<1>5. ASSUME pc[p] \in at, pc'[p] \notin at
      PROVE  Cardinality(new) = Cardinality(old) - 1
  <2>1. new = old \ {p} /\ p \in old
    BY <1>5
  <2> QED
    BY <1>1, <2>1, FS_RemoveElement
<1> QED
  BY <1>2, <1>3, <1>4, <1>5

\* A builder that has not delivered leaves room in the queue; one that has not
\* asked leaves room in the count.
LEMMA Room ==
    ASSUME NEW p \in Builders
    PROVE  /\ Cardinality(Carrying) \in Nat /\ Cardinality(Delivered) \in Nat
           /\ p \notin Delivered => Cardinality(Delivered) < ClientNum
           /\ p \notin Delivered /\ p \notin Carrying =>
                 Cardinality(Carrying) + Cardinality(Delivered) < ClientNum
<1> DEFINE rest == Builders \ {p}
<1>1. /\ IsFiniteSet(Builders) /\ Cardinality(Builders) \in Nat
      /\ Cardinality(Builders) <= ClientNum /\ ClientNum \in Nat
  BY BuilderCount, Constant
<1>2. IsFiniteSet(rest) /\ Cardinality(rest) = Cardinality(Builders) - 1
  BY <1>1, FS_RemoveElement
<1>3. Carrying \subseteq Builders /\ Delivered \subseteq Builders
      /\ Carrying \cap Delivered = {}
  BY DEF Carrying, Delivered
<1>4. /\ IsFiniteSet(Carrying) /\ IsFiniteSet(Delivered)
      /\ Cardinality(Carrying) \in Nat /\ Cardinality(Delivered) \in Nat
  BY <1>1, <1>3, FS_Subset, FS_CardinalityType
<1>5. ASSUME p \notin Delivered
      PROVE  Cardinality(Delivered) < ClientNum
  <2>1. Delivered \subseteq rest
    BY <1>3, <1>5
  <2>2. Cardinality(Delivered) <= Cardinality(rest)
    BY <1>2, <2>1, FS_Subset
  <2> QED
    BY <1>1, <1>2, <1>4, <2>2
<1>6. ASSUME p \notin Delivered, p \notin Carrying
      PROVE  Cardinality(Carrying) + Cardinality(Delivered) < ClientNum
  <2> DEFINE busy == Carrying \cup Delivered
  <2>1. busy \subseteq rest
    BY <1>3, <1>6
  <2>2. IsFiniteSet(busy) /\ Cardinality(busy) <= Cardinality(rest)
    BY <1>2, <2>1, FS_Subset
  <2>3. Cardinality(busy) = Cardinality(Carrying) + Cardinality(Delivered)
                               - Cardinality(Carrying \cap Delivered)
    BY <1>4, FS_Union
  <2>4. Cardinality(Carrying \cap Delivered) = 0
    BY <1>3, FS_EmptySet
  <2> QED
    BY <1>1, <1>2, <1>4, <2>2, <2>3, <2>4
<1> QED
  BY <1>4, <1>5, <1>6

LEMMA BuilderMoves ==
    ASSUME TypeOK, Prepared, NEW p \in Builders, Alone(p)
    PROVE  /\ \/ /\ pc[p] = "get" /\ pc'[p] = "count"
                 /\ UNCHANGED <<queued, initProfiles>>
              \/ /\ pc[p] = "count" /\ pc'[p] = "fetch"
                 /\ UNCHANGED queued /\ initProfiles' = initProfiles + 1
              \/ /\ pc[p] = "fetch" /\ pc'[p] = "built"
                 /\ UNCHANGED queued /\ initProfiles' = initProfiles - 1
              \/ /\ pc[p] \in {"fetch", "check"} /\ pc'[p] \in {"check", "push"}
                 /\ UNCHANGED <<queued, initProfiles>>
              \/ /\ pc[p] = "push" /\ pc'[p] = "dial"
                 /\ queued' = queued + 1 /\ UNCHANGED initProfiles
              \/ /\ pc[p] \in {"dial", "built", "bump"}
                 /\ pc'[p] \in {"built", "bump", "done"}
                 /\ UNCHANGED <<queued, initProfiles>>
           /\ loc'[p].got = "check" /\ loc'[p].ret = "built" /\ loc'[p].nil = "built"
<1>1. /\ p \in Procs /\ p \notin Conns /\ p \notin Scanners /\ p \notin Autos
      /\ p \notin Reporters
      /\ pc \in [Procs -> Labels] /\ loc \in [Procs -> Locals]
      /\ queued \in Int /\ initProfiles \in Int /\ ClientNum \in Nat
  BY Constant DEF TypeOK
<1>2. /\ loc[p].got = "check" /\ loc[p].ret = "built" /\ loc[p].nil = "built"
      /\ pc[p] \notin {"poll", "evict"} /\ loc[p] \in Locals
  BY <1>1 DEF Prepared
<1>3. pc[p] = "get" => initProfiles < ClientNum
  <2>1. pc[p] = "get" => p \notin Carrying /\ p \notin Delivered
    BY DEF Carrying, Delivered
  <2> QED
    BY <1>1, <2>1, Room DEF Prepared
<1>4. pc[p] = "check" => queued < ClientNum
  <2>1. pc[p] = "check" => p \notin Delivered
    BY DEF Delivered
  <2> QED
    BY <1>1, <2>1, Room DEF Prepared
<1> USE DEF Go, pool, client, Locals
<1>5. CASE GetRead(p)
  BY <1>1, <1>2, <1>3, <1>5 DEF GetRead
<1>6. CASE GetPoll(p) \/ RebuildEvict(p)
  BY <1>2, <1>6 DEF GetPoll, RebuildEvict
<1>7. CASE GetCount(p)
  BY <1>1, <1>2, <1>7 DEF GetCount
<1>8. CASE GetFetched(p)
  BY <1>1, <1>2, <1>8 DEF GetFetched
<1>9. CASE GetFailed(p)
  BY <1>1, <1>2, <1>9 DEF GetFailed
<1>10. CASE RebuildCheck(p)
  BY <1>1, <1>2, <1>4, <1>10 DEF RebuildCheck
<1>11. CASE RebuildPush(p)
  BY <1>1, <1>2, <1>11 DEF RebuildPush
<1>12. CASE RebuildDialFails(p) \/ RebuildStore(p)
  BY <1>1, <1>2, <1>12 DEF RebuildDialFails, RebuildStore, Return
<1>13. CASE Built(p)
  BY <1>1, <1>2, <1>13 DEF Built
<1>14. CASE Bump(p)
  BY <1>1, <1>2, <1>14 DEF Bump
<1> QED
  BY <1>1, <1>5, <1>6, <1>7, <1>8, <1>9, <1>10, <1>11, <1>12, <1>13, <1>14
     DEF Alone, Rebuild

LEMMA PreparedStep ==
    ASSUME TypeOK, Prepared, NEW p \in Builders, Alone(p)
    PROVE  Prepared'
<1>1. Builders \subseteq Procs /\ queued \in Int /\ initProfiles \in Int
  BY Constant DEF TypeOK
<1>2. \A b \in Builders : b # p => pc'[b] = pc[b] /\ loc'[b] = loc[b]
  BY <1>1, OthersStay
<1> DEFINE C == {"fetch", "check", "evict", "push"}
           D == {"dial", "built", "bump", "done"}
           c == Cardinality(Carrying)
           d == Cardinality(Delivered)
<1>3. Carrying = {b \in Builders : pc[b] \in C} /\ Carrying' = {b \in Builders : pc'[b] \in C}
  BY DEF Carrying
<1>4. Delivered = {b \in Builders : pc[b] \in D} /\ Delivered' = {b \in Builders : pc'[b] \in D}
  BY DEF Delivered
<1>5. /\ c \in Nat /\ c' \in Nat
      /\ (pc[p] \in C <=> pc'[p] \in C) => c' = c
      /\ pc[p] \notin C /\ pc'[p] \in C => c' = c + 1
      /\ pc[p] \in C /\ pc'[p] \notin C => c' = c - 1
  <2> HIDE DEF C
  <2> QED
    BY <1>2, <1>3, Counted
<1>6. /\ d \in Nat /\ d' \in Nat
      /\ (pc[p] \in D <=> pc'[p] \in D) => d' = d
      /\ pc[p] \notin D /\ pc'[p] \in D => d' = d + 1
  <2> HIDE DEF D
  <2> QED
    BY <1>2, <1>4, Counted
<1> HIDE DEF c, d
<1>7. initProfiles = queued + c /\ queued <= d
  BY DEF Prepared, c, d
<1>8. initProfiles' = queued' + c' /\ queued' <= d'
  BY <1>1, <1>5, <1>6, <1>7, BuilderMoves
<1>9. \A b \in Builders : /\ pc'[b] \notin {"poll", "evict"}
                          /\ loc'[b].got = "check"
                          /\ loc'[b].ret = "built" /\ loc'[b].nil = "built"
  BY <1>2, BuilderMoves DEF Prepared
<1> QED
  BY <1>8, <1>9 DEF Prepared, c, d

LEMMA StartupStep == TypeInv /\ StartupInv /\ [Next]_vars => StartupInv'
<1> SUFFICES ASSUME TypeInv, StartupInv, [Next]_vars
             PROVE  StartupInv'
  OBVIOUS
<1>1. TypeOK /\ LocalsInv
  BY DEF TypeInv
<1>2. CASE UNCHANGED vars \/ TunnelsBuilt
  <2>1. UNCHANGED <<pc, loc, queued, initProfiles, scans>>
    BY <1>2 DEF vars, TunnelsBuilt, pool
  <2>2. Carrying' = Carrying /\ Delivered' = Delivered
    BY <2>1 DEF Carrying, Delivered
  <2> QED
    BY <2>1, <2>2 DEF StartupInv, ScanInv, Startup, Prepared
<1>3. ASSUME NEW p \in Procs, Alone(p)
      PROVE  StartupInv'
  <2>1. ScanInv' /\ (Startup' => Startup /\ p \in Builders)
    BY <1>1, <1>3, ScanStep DEF StartupInv
  <2> QED
    BY <1>1, <1>3, <2>1, PreparedStep DEF StartupInv
<1>4. ASSUME NEW p \in Conns, BuildAgain(p)
      PROVE  StartupInv'
  BY <1>1, <1>4, Rebuilding DEF StartupInv, ScanInv, Startup
<1> QED
  BY <1>1, <1>2, <1>3, <1>4, NextCases

LEMMA StartupStart == Init => StartupInv
<1> SUFFICES ASSUME Init
             PROVE  StartupInv
  OBVIOUS
<1>1. /\ \A b \in Builders : b \in Procs /\ b[2] \in Slots
      /\ \A p \in Scanners : p \in Procs /\ p \notin Builders
  BY Constant DEF Procs, Builders, Builder
<1>2. ScanInv
  <2>1. scans = 0 /\ \A p \in Scanners : pc[p] = "idle"
    BY <1>1 DEF Init
  <2> QED
    BY <2>1 DEF ScanInv
<1>3. \A b \in Builders : /\ pc[b] = "get" /\ loc[b].got = "check"
                          /\ loc[b].ret = "built" /\ loc[b].nil = "built"
  BY <1>1 DEF Init, NoLocals
<1>4. Carrying = {} /\ Delivered = {}
  BY <1>3 DEF Carrying, Delivered
<1>5. Cardinality(Carrying) = 0 /\ Cardinality(Delivered) = 0
  BY <1>4, FS_EmptySet
<1>6. queued = 0 /\ initProfiles = 0
  BY DEF Init
<1> QED
  BY <1>2, <1>3, <1>5, <1>6 DEF StartupInv, Prepared

\* Until the first connection is accepted the count is exact, however the
\* builders interleave and whatever the server answers them: none of them sees
\* the count full, so none waits for a queue that nobody fills.
THEOREM StartupIsExact == Spec => []StartupExact
<1>1. StartupInv => StartupExact
  BY DEF StartupInv, Startup, Prepared, Carrying, StartupExact
<1> QED
  BY <1>1, TypeInit, TypeStep, StartupStart, StartupStep, PTL DEF Spec

-----------------------------------------------------------------------------
(* RouterMode: the inductive invariants.                                    *)

Commands == {"launch", "render", "write", "restart", "testLoaded", "load",
             "empty", "testLeft", "flush", "kill", "reap"}
Tests == {"opened", "closed", "stopped", "testDead", "testRedirect", "testFile"}

\* Which step may come after which, "end" after the last one.
Leads ==
    {<<"launch", "render">>, <<"render", "write">>, <<"write", "restart">>,
     <<"empty", "restart">>, <<"flush", "restart">>, <<"restart", "testLoaded">>,
     <<"restart", "testLeft">>, <<"restart", "kill">>, <<"testLeft", "kill">>,
     <<"kill", "launch">>}
    \cup ({"testLoaded", "load", "kill", "reap"} \cup Tests) \X (Tests \cup {"end"})

\* A step with the two after it: a restart ends what came before it.
Consecutive(x, y, z) ==
    /\ <<x, y>> \in Leads
    /\ x = "write" => z = "testLoaded"
    /\ x = "empty" => z = "testLeft"
    /\ x = "flush" => z = "kill"

Nth(s, i) == IF i \in 1 .. Len(s) THEN s[i] ELSE "end"

Orderly(s) == \A i \in 1 .. Len(s) : Consecutive(s[i], Nth(s, i + 1), Nth(s, i + 2))

SwitchTypes == RouterTypeOK /\ \A a \in Actors : Orderly(todo[a])

-----------------------------------------------------------------------------
(* Sequences of commands.                                                   *)

LEMMA Joined ==
    ASSUME NEW T, NEW p \in Seq(T), NEW s \in Seq(T)
    PROVE  /\ p \o s \in Seq(T) /\ Len(p \o s) = Len(p) + Len(s)
           /\ Len(p) \in Nat /\ Len(s) \in Nat
           /\ \A i \in 1 .. Len(p) : (p \o s)[i] = p[i]
           /\ \A i \in 1 .. Len(s) : (p \o s)[Len(p) + i] = s[i]
           /\ \A i \in 1 .. Len(p \o s) :
                i \in 1 .. Len(p) \/ \E j \in 1 .. Len(s) : i = Len(p) + j
<1>1. /\ p \o s \in Seq(T) /\ Len(p \o s) = Len(p) + Len(s)
      /\ \A i \in 1 .. Len(p) + Len(s) :
            (p \o s)[i] = IF i <= Len(p) THEN p[i] ELSE s[i - Len(p)]
  BY ConcatProperties
<1>2. Len(p) \in Nat /\ Len(s) \in Nat
  BY LenProperties
<1>3. \A i \in 1 .. Len(p) : (p \o s)[i] = p[i]
  BY <1>1, <1>2
<1>4. ASSUME NEW i \in 1 .. Len(s) PROVE (p \o s)[Len(p) + i] = s[i]
  <2>1. /\ Len(p) + i \in 1 .. Len(p) + Len(s) /\ ~(Len(p) + i <= Len(p))
        /\ Len(p) + i - Len(p) = i
    BY <1>2
  <2> QED
    BY <1>1, <2>1
<1>5. ASSUME NEW i \in 1 .. Len(p) + Len(s), i \notin 1 .. Len(p)
      PROVE  \E j \in 1 .. Len(s) : i = Len(p) + j
  <2>1. i - Len(p) \in 1 .. Len(s) /\ i = Len(p) + (i - Len(p))
    BY <1>2, <1>5
  <2> QED
    BY <2>1
<1> QED
  BY <1>1, <1>2, <1>3, <1>4, <1>5

LEMMA Associated ==
    ASSUME NEW T, NEW a \in Seq(T), NEW b \in Seq(T), NEW c \in Seq(T)
    PROVE  a \o (b \o c) = (a \o b) \o c
BY ConcatAssociative, SMTT(30)

LEMMA Rest ==
    ASSUME NEW T, NEW s \in Seq(T), s # <<>>
    PROVE  /\ Tail(s) \in Seq(T) /\ Len(s) \in Nat \ {0} /\ Len(Tail(s)) = Len(s) - 1
           /\ s[1] \in T /\ Head(s) = s[1]
           /\ \A i \in 1 .. Len(Tail(s)) : i + 1 \in 1 .. Len(s) /\ Tail(s)[i] = s[i + 1]
<1>1. Len(s) \in Nat /\ Len(s) # 0
  BY EmptySeq, LenProperties
<1>2. /\ Tail(s) \in Seq(T) /\ Len(Tail(s)) = Len(s) - 1 /\ Head(s) = s[1] /\ s[1] \in T
  BY <1>1, HeadTailProperties
<1>3. \A i \in 1 .. Len(s) - 1 : i + 1 \in 1 .. Len(s) /\ Tail(s)[i] = s[i + 1]
  BY <1>1
<1> QED
  BY <1>1, <1>2, <1>3

LEMMA OrderlyTail ==
    ASSUME NEW s \in Seq(Steps), s # <<>>, Orderly(s)
    PROVE  /\ Tail(s) \in Seq(Steps) /\ Orderly(Tail(s))
           /\ s[1] = Head(s) /\ s[1] \in Steps
           /\ Consecutive(s[1], Nth(Tail(s), 1), Nth(Tail(s), 2))
           /\ Nth(s, 1) = s[1] /\ Nth(s, 2) = Nth(Tail(s), 1)
<1> DEFINE t == Tail(s)
<1>1. /\ t \in Seq(Steps) /\ Len(s) \in Nat \ {0} /\ Len(t) = Len(s) - 1
      /\ s[1] \in Steps /\ Head(s) = s[1]
      /\ \A i \in 1 .. Len(t) : i + 1 \in 1 .. Len(s) /\ t[i] = s[i + 1]
  BY Rest
<1> HIDE DEF t
<1>2. ASSUME NEW i \in Nat PROVE i > 0 => Nth(s, i + 1) = Nth(t, i)
  <2>1. i > 0 => (i + 1 \in 1 .. Len(s) <=> i \in 1 .. Len(t))
    BY <1>1
  <2> QED
    BY <1>1, <2>1 DEF Nth
<1>3. ASSUME NEW i \in 1 .. Len(t) PROVE Consecutive(t[i], Nth(t, i + 1), Nth(t, i + 2))
  <2>1. /\ i + 1 \in 1 .. Len(s) /\ t[i] = s[i + 1]
        /\ i + 1 \in Nat /\ i + 2 \in Nat /\ i + 1 > 0 /\ i + 2 > 0
        /\ i + 1 + 1 = i + 2 /\ i + 1 + 2 = i + 2 + 1
    BY <1>1
  <2>2. Nth(s, i + 1 + 1) = Nth(t, i + 1) /\ Nth(s, i + 1 + 2) = Nth(t, i + 2)
    BY <1>2, <2>1
  <2> QED
    BY <2>1, <2>2 DEF Orderly
<1>4. Consecutive(s[1], Nth(t, 1), Nth(t, 2))
  <2>1. 1 \in 1 .. Len(s) /\ 1 + 1 = 2 /\ 1 + 2 = 2 + 1
    BY <1>1
  <2>2. Nth(s, 1 + 1) = Nth(t, 1) /\ Nth(s, 1 + 2) = Nth(t, 2)
    BY <1>2, <2>1
  <2> QED
    BY <2>1, <2>2 DEF Orderly
<1>5. Nth(s, 1) = s[1] /\ Nth(s, 2) = Nth(t, 1)
  <2>1. 1 \in 1 .. Len(s) /\ 1 + 1 = 2
    BY <1>1
  <2>2. Nth(s, 1 + 1) = Nth(t, 1)
    BY <1>2
  <2> QED
    BY <2>1, <2>2 DEF Nth
<1> QED
  BY <1>1, <1>3, <1>4, <1>5 DEF Orderly, t

\* Commands put before a plan.
LEMMA OrderlyJoin ==
    ASSUME NEW p \in Seq(Steps), NEW s \in Seq(Steps), Orderly(s), p # <<>>,
           \A i \in 1 .. Len(p) - 1 :
              Consecutive(p[i], p[i + 1], IF i + 1 < Len(p) THEN p[i + 2] ELSE Nth(s, 1)),
           Consecutive(p[Len(p)], Nth(s, 1), Nth(s, 2))
    PROVE  /\ p \o s \in Seq(Steps) /\ Orderly(p \o s) /\ Nth(p \o s, 1) = p[1]
           /\ Nth(p \o s, 2) = IF Len(p) > 1 THEN p[2] ELSE Nth(s, 1)
<1> DEFINE c == p \o s
<1>1. /\ c \in Seq(Steps) /\ Len(c) = Len(p) + Len(s)
      /\ Len(p) \in Nat /\ Len(s) \in Nat
      /\ \A i \in 1 .. Len(p) : c[i] = p[i]
      /\ \A i \in 1 .. Len(s) : c[Len(p) + i] = s[i]
      /\ \A i \in 1 .. Len(c) :
           i \in 1 .. Len(p) \/ \E j \in 1 .. Len(s) : i = Len(p) + j
  BY Joined
<1>2. Len(p) # 0
  BY EmptySeq
<1> HIDE DEF c
<1>3. ASSUME NEW j \in Nat PROVE j > 0 => Nth(c, Len(p) + j) = Nth(s, j)
  <2>1. j > 0 => (Len(p) + j \in 1 .. Len(c) <=> j \in 1 .. Len(s))
    BY <1>1
  <2> QED
    BY <1>1, <2>1 DEF Nth
<1>4. ASSUME NEW i \in 1 .. Len(p) PROVE Nth(c, i) = p[i]
  <2>1. i \in 1 .. Len(c)
    BY <1>1
  <2> QED
    BY <1>1, <2>1 DEF Nth
<1>5. ASSUME NEW i \in 1 .. Len(p) PROVE Consecutive(c[i], Nth(c, i + 1), Nth(c, i + 2))
  <2>1. CASE i + 1 < Len(p)
    <3>1. i + 1 \in 1 .. Len(p) /\ i + 2 \in 1 .. Len(p) /\ i \in 1 .. Len(p) - 1
      BY <1>1, <2>1
    <3> QED
      BY <1>1, <1>4, <2>1, <3>1
  <2>2. CASE i + 1 = Len(p)
    <3>1. /\ i + 1 \in 1 .. Len(p) /\ i \in 1 .. Len(p) - 1 /\ i + 2 = Len(p) + 1
          /\ ~(i + 1 < Len(p))
      BY <1>1, <2>2
    <3>2. Nth(c, i + 2) = Nth(s, 1)
      BY <1>3, <3>1
    <3> QED
      BY <1>1, <1>4, <3>1, <3>2
  <2>3. CASE i = Len(p)
    <3>1. Nth(c, Len(p) + 1) = Nth(s, 1) /\ Nth(c, Len(p) + 2) = Nth(s, 2)
      BY <1>3
    <3> QED
      BY <1>1, <2>3, <3>1
  <2> QED
    BY <1>1, <2>1, <2>2, <2>3
<1>6. ASSUME NEW j \in 1 .. Len(s)
      PROVE  Consecutive(c[Len(p) + j], Nth(c, Len(p) + j + 1), Nth(c, Len(p) + j + 2))
  <2> DEFINE n == Len(p)
  <2>1. n \in Nat /\ j \in Nat
    BY <1>1
  <2> HIDE DEF n
  <2>2. /\ n + j + 1 = n + (j + 1) /\ n + j + 2 = n + (j + 2)
        /\ j + 1 \in Nat /\ j + 2 \in Nat /\ j + 1 > 0 /\ j + 2 > 0
    BY <2>1
  <2>3. /\ Len(p) + j + 1 = Len(p) + (j + 1) /\ Len(p) + j + 2 = Len(p) + (j + 2)
        /\ j + 1 \in Nat /\ j + 2 \in Nat /\ j + 1 > 0 /\ j + 2 > 0
    BY <2>2 DEF n
  <2>4. /\ Nth(c, Len(p) + j + 1) = Nth(s, j + 1) /\ Nth(c, Len(p) + j + 2) = Nth(s, j + 2)
    BY <1>3, <2>3
  <2> QED
    BY <1>1, <2>4 DEF Orderly
<1>7. Orderly(c)
  BY <1>1, <1>5, <1>6 DEF Orderly
<1>8. Nth(c, 1) = p[1]
  BY <1>1, <1>2, <1>4
<1>9. Nth(c, 2) = IF Len(p) > 1 THEN p[2] ELSE Nth(s, 1)
  <2>1. CASE Len(p) > 1
    BY <1>1, <1>4, <2>1
  <2>2. CASE ~(Len(p) > 1)
    <3>1. Len(p) + 1 = 2
      BY <1>1, <1>2, <2>2
    <3>2. Nth(c, Len(p) + 1) = Nth(s, 1)
      BY <1>3
    <3> QED
      BY <2>2, <3>1, <3>2
  <2> QED
    BY <2>1, <2>2
<1> QED
  BY <1>1, <1>7, <1>8, <1>9 DEF c

-----------------------------------------------------------------------------
(* The plans of the goroutines.                                             *)

LEMMA SwitchPlans ==
    ASSUME NEW s \in Seq(Steps), Orderly(s), Nth(s, 1) \in Tests \cup {"end"}
    PROVE  /\ StartFireWall \o s \in Seq(Steps) /\ Orderly(StartFireWall \o s)
           /\ Nth(StartFireWall \o s, 1) = "launch"
           /\ StopFirewall \o s \in Seq(Steps) /\ Orderly(StopFirewall \o s)
           /\ Nth(StopFirewall \o s, 1) = "empty"
<1> DEFINE p == <<"launch", "render", "write", "restart", "testLoaded">>
           q == <<"empty", "restart", "testLeft", "kill">>
<1>1. p \in Seq(Steps) /\ p # <<>> /\ Len(p) = 5
      /\ p[1] = "launch" /\ p[2] = "render" /\ p[3] = "write" /\ p[4] = "restart"
      /\ p[5] = "testLoaded"
  BY DEF Steps
<1>2. q \in Seq(Steps) /\ q # <<>> /\ Len(q) = 4
      /\ q[1] = "empty" /\ q[2] = "restart" /\ q[3] = "testLeft" /\ q[4] = "kill"
  BY DEF Steps
<1>3. StartFireWall = p /\ StopFirewall = q
  BY DEF StartFireWall, StopFirewall
<1> HIDE DEF p, q
<1>4. p \o s \in Seq(Steps) /\ Orderly(p \o s) /\ Nth(p \o s, 1) = "launch"
  <2>1. Consecutive(p[Len(p)], Nth(s, 1), Nth(s, 2))
    BY <1>1 DEF Consecutive, Leads
  <2>2. ASSUME NEW i \in 1 .. Len(p) - 1
        PROVE  Consecutive(p[i], p[i + 1], IF i + 1 < Len(p) THEN p[i + 2] ELSE Nth(s, 1))
    <3>1. i \in {1, 2, 3, 4}
      BY <1>1
    <3> QED
      BY <1>1, <3>1 DEF Consecutive, Leads
  <2> QED
    BY <1>1, <2>1, <2>2, OrderlyJoin
<1>5. q \o s \in Seq(Steps) /\ Orderly(q \o s) /\ Nth(q \o s, 1) = "empty"
  <2>1. Consecutive(q[Len(q)], Nth(s, 1), Nth(s, 2))
    BY <1>2 DEF Consecutive, Leads
  <2>2. ASSUME NEW i \in 1 .. Len(q) - 1
        PROVE  Consecutive(q[i], q[i + 1], IF i + 1 < Len(q) THEN q[i + 2] ELSE Nth(s, 1))
    <3>1. i \in {1, 2, 3}
      BY <1>2
    <3> QED
      BY <1>2, <3>1 DEF Consecutive, Leads
  <2> QED
    BY <1>2, <2>1, <2>2, OrderlyJoin
<1> QED
  BY <1>3, <1>4, <1>5

\* A stop that goes on with a start.
LEMMA RestartPlan ==
    ASSUME NEW s \in Seq(Steps), Orderly(s), Nth(s, 1) \in Tests \cup {"end"}
    PROVE  LET r == (StopFirewall \o StartFireWall) \o s
           IN  r \in Seq(Steps) /\ Orderly(r) /\ Nth(r, 1) = "empty"
<1> DEFINE q == <<"empty", "restart", "testLeft", "kill">>
           u == StartFireWall \o s
<1>1. u \in Seq(Steps) /\ Orderly(u) /\ Nth(u, 1) = "launch"
  BY SwitchPlans
<1>2. q \in Seq(Steps) /\ q # <<>> /\ Len(q) = 4
      /\ q[1] = "empty" /\ q[2] = "restart" /\ q[3] = "testLeft" /\ q[4] = "kill"
  BY DEF Steps
<1>3. StopFirewall = q
  BY DEF StopFirewall
<1>4. StartFireWall \in Seq(Steps)
  BY DEF StartFireWall, Steps
<1> HIDE DEF q, u
<1>5. q \o u \in Seq(Steps) /\ Orderly(q \o u) /\ Nth(q \o u, 1) = "empty"
  <2>1. Consecutive(q[Len(q)], Nth(u, 1), Nth(u, 2))
    BY <1>1, <1>2 DEF Consecutive, Leads
  <2>2. ASSUME NEW i \in 1 .. Len(q) - 1
        PROVE  Consecutive(q[i], q[i + 1], IF i + 1 < Len(q) THEN q[i + 2] ELSE Nth(u, 1))
    <3>1. i \in {1, 2, 3}
      BY <1>2
    <3> QED
      BY <1>2, <3>1 DEF Consecutive, Leads
  <2> QED
    BY <1>1, <1>2, <2>1, <2>2, OrderlyJoin
<1>6. q \o (StartFireWall \o s) = (q \o StartFireWall) \o s
  BY <1>2, <1>4, Associated, SMTT(30)
<1> QED
  BY <1>3, <1>5, <1>6 DEF u

LEMMA NoPlan ==
    /\ <<>> \in Seq(Steps) /\ Orderly(<<>>) /\ Nth(<<>>, 1) = "end"
    /\ \A s \in Seq(Steps) : <<>> \o s = s /\ s \o <<>> = s
<1>1. <<>> \in Seq(Steps) /\ Orderly(<<>>) /\ Nth(<<>>, 1) = "end"
  BY DEF Orderly, Nth
<1> QED
  BY <1>1, ConcatEmptySeq

\* One step before a plan.
LEMMA OneBefore ==
    ASSUME NEW x \in Tests \cup {"load", "reap"}, NEW s \in Seq(Steps), Orderly(s),
           Nth(s, 1) \in Tests \cup {"end"}
    PROVE  <<x>> \o s \in Seq(Steps) /\ Orderly(<<x>> \o s) /\ Nth(<<x>> \o s, 1) = x
<1> DEFINE p == <<x>>
<1>1. p \in Seq(Steps) /\ p # <<>> /\ Len(p) = 1 /\ p[1] = x
  BY DEF Steps, Tests
<1> HIDE DEF p
<1>2. Consecutive(p[Len(p)], Nth(s, 1), Nth(s, 2)) /\ \A i \in 1 .. Len(p) - 1 : FALSE
  BY <1>1 DEF Consecutive, Leads, Tests
<1>3. p \o s \in Seq(Steps) /\ Orderly(p \o s) /\ Nth(p \o s, 1) = x
  BY <1>1, <1>2, OrderlyJoin
<1> QED
  BY <1>3 DEF p

\* The rules are flushed and the firewall is restarted before redsocks ends.
LEMMA FlushBefore ==
    ASSUME NEW s \in Seq(Steps), Orderly(s), Nth(s, 1) = "kill"
    PROVE  LET r == <<"flush", "restart">> \o s
           IN  r \in Seq(Steps) /\ Orderly(r) /\ Nth(r, 1) = "flush"
<1> DEFINE p == <<"flush", "restart">>
<1>1. p \in Seq(Steps) /\ p # <<>> /\ Len(p) = 2 /\ p[1] = "flush" /\ p[2] = "restart"
  BY DEF Steps
<1> HIDE DEF p
<1>2. Consecutive(p[Len(p)], Nth(s, 1), Nth(s, 2))
  BY <1>1 DEF Consecutive, Leads
<1>3. \A i \in 1 .. Len(p) - 1 :
        Consecutive(p[i], p[i + 1], IF i + 1 < Len(p) THEN p[i + 2] ELSE Nth(s, 1))
  BY <1>1 DEF Consecutive, Leads
<1>4. p \o s \in Seq(Steps) /\ Orderly(p \o s) /\ Nth(p \o s, 1) = "flush"
  BY <1>1, <1>2, <1>3, OrderlyJoin
<1> QED
  BY <1>4 DEF p

-----------------------------------------------------------------------------
(* Types, and the plans stay orderly.                                       *)

\* What a goroutine has left when it has done its first step.
LEMMA StepTaken ==
    ASSUME SwitchTypes, NEW a \in Actors, NEW x, At(a, x)
    PROVE  /\ todo \in [Actors -> Seq(Steps)] /\ todo[a] \in Seq(Steps)
           /\ Tail(todo[a]) \in Seq(Steps) /\ Orderly(Tail(todo[a]))
           /\ Consecutive(x, Nth(Tail(todo[a]), 1), Nth(Tail(todo[a]), 2))
           /\ Nth(todo[a], 1) = x /\ Nth(todo[a], 2) = Nth(Tail(todo[a]), 1)
<1>1. /\ todo \in [Actors -> Seq(Steps)] /\ todo[a] \in Seq(Steps) /\ Orderly(todo[a])
      /\ todo[a] # <<>> /\ Head(todo[a]) = x
  BY DEF SwitchTypes, RouterTypeOK, At
<1> QED
  BY <1>1, OrderlyTail

\* The plan of one goroutine is replaced by an orderly one.
LEMMA PlanReplaced ==
    ASSUME SwitchTypes, NEW a \in Actors, NEW s \in Seq(Steps), Orderly(s),
           todo' = [todo EXCEPT ![a] = s]
    PROVE  /\ todo' \in [Actors -> Seq(Steps)] /\ todo'[a] = s
           /\ \A b \in Actors : Orderly(todo'[b])
           /\ \A b \in Actors \ {a} : todo'[b] = todo[b]
BY DEF SwitchTypes, RouterTypeOK

\* What a step leaves: nothing more than before.
LEMMA StepDone ==
    ASSUME SwitchTypes, NEW a \in Actors, NEW x, At(a, x), Then(a, <<>>)
    PROVE  todo' = [todo EXCEPT ![a] = Tail(todo[a])]
<1>1. Tail(todo[a]) \in Seq(Steps)
  BY StepTaken
<1>2. <<>> \o Tail(todo[a]) = Tail(todo[a])
  BY <1>1, NoPlan
<1> QED
  BY <1>2 DEF Then

\* The plan after a decision to restart the redirection.
LEMMA RestartJoins ==
    ASSUME NEW s \in Seq(Steps), Orderly(s), Nth(s, 1) \in Tests \cup {"end"}
    PROVE  /\ Restart \o s \in Seq(Steps) /\ Orderly(Restart \o s)
           /\ Nth(Restart \o s, 1) \in {"empty", Nth(s, 1)}
<1>1. CASE lastAddr
  BY <1>1, RestartPlan DEF Restart
<1>2. CASE ~lastAddr
  BY <1>2, NoPlan DEF Restart
<1> QED
  BY <1>1, <1>2
\* What the first step of a goroutine leads to.
Leaving(a) ==
    LET x == Nth(todo[a], 1)
        y == Nth(todo[a], 2)
        u == Nth(todo[a], 1)'
        v == Nth(todo[a], 2)'
    IN  /\ x \notin {"testLoaded", "testLeft", "testRedirect", "testDead", "testFile"}
             => u = y /\ Consecutive(x, u, v)
        /\ x = "testLoaded" =>
             u \in IF nat = NoRules THEN {"load"} ELSE Tests \cup {"end"}
        /\ x = "testLeft" => u = IF nat = NoRules THEN "kill" ELSE "flush"
        /\ x \in {"testRedirect", "testDead"} => u \in {"empty", "end"} \cup Tests
        /\ x = "testFile" => u \in {"reap", "testRedirect"}

Plans(a) ==
    /\ todo' \in [Actors -> Seq(Steps)]
    /\ \A b \in Actors : Orderly(todo'[b])
    /\ \A b \in Actors \ {a} : todo'[b] = todo[b]

LEMMA PlainStep ==
    ASSUME SwitchTypes, NEW a \in Actors, NEW x, At(a, x), Then(a, <<>>)
    PROVE  /\ Plans(a) /\ Nth(todo[a], 1) = x
           /\ Nth(todo'[a], 1) = Nth(todo[a], 2) /\ Consecutive(x, Nth(todo'[a], 1), Nth(todo'[a], 2))
<1>1. todo' = [todo EXCEPT ![a] = Tail(todo[a])]
  BY StepDone
<1>2. /\ Tail(todo[a]) \in Seq(Steps) /\ Orderly(Tail(todo[a]))
      /\ Consecutive(x, Nth(Tail(todo[a]), 1), Nth(Tail(todo[a]), 2))
      /\ Nth(todo[a], 1) = x /\ Nth(todo[a], 2) = Nth(Tail(todo[a]), 1)
  BY StepTaken
<1>3. Plans(a) /\ todo'[a] = Tail(todo[a])
  BY <1>1, <1>2, PlanReplaced DEF Plans
<1> QED
  BY <1>2, <1>3

LEMMA TestStep ==
    ASSUME SwitchTypes, NEW a \in Actors, NEW x, At(a, x), NEW p, Then(a, p),
           p \o Tail(todo[a]) \in Seq(Steps), Orderly(p \o Tail(todo[a]))
    PROVE  /\ Plans(a) /\ Nth(todo[a], 1) = x /\ todo'[a] = p \o Tail(todo[a])
<1>1. todo' = [todo EXCEPT ![a] = p \o Tail(todo[a])]
  BY DEF Then
<1>2. Nth(todo[a], 1) = x
  BY StepTaken
<1>3. Plans(a) /\ todo'[a] = p \o Tail(todo[a])
  BY <1>1, PlanReplaced DEF Plans
<1> QED
  BY <1>2, <1>3

\* Every step of a goroutine.
LEMMA StepPlans ==
    ASSUME SwitchTypes, NEW a \in Actors, Step(a) \/ (a = Dog /\ TestDead)
    PROVE  Plans(a) /\ Leaving(a)
<1> DEFINE t == Tail(todo[a])
<1>1. ASSUME NEW x, At(a, x), Then(a, <<>>),
             x \notin {"testLoaded", "testLeft", "testRedirect", "testDead", "testFile"}
      PROVE  Plans(a) /\ Leaving(a)
  <2>1. /\ Plans(a) /\ Nth(todo[a], 1) = x
        /\ Nth(todo'[a], 1) = Nth(todo[a], 2) /\ Consecutive(x, Nth(todo'[a], 1), Nth(todo'[a], 2))
    BY <1>1, PlainStep
  <2> QED
    BY <1>1, <2>1 DEF Leaving
<1>2. CASE TestLoaded(a)
  <2>1. At(a, "testLoaded")
    BY <1>2 DEF TestLoaded
  <2>2. CASE nat = NoRules
    <3>1. Then(a, <<"load">>)
      BY <1>2, <2>2 DEF TestLoaded
    <3>2. t \in Seq(Steps) /\ Orderly(t) /\ Consecutive("testLoaded", Nth(t, 1), Nth(t, 2))
      BY <2>1, StepTaken
    <3>3. Nth(t, 1) \in Tests \cup {"end"}
      BY <3>2 DEF Consecutive, Leads, Tests
    <3> HIDE DEF t
    <3>4. <<"load">> \o t \in Seq(Steps) /\ Orderly(<<"load">> \o t)
          /\ Nth(<<"load">> \o t, 1) = "load"
      BY <3>2, <3>3, OneBefore
    <3>5. Plans(a) /\ Nth(todo[a], 1) = "testLoaded" /\ todo'[a] = <<"load">> \o t
      BY <2>1, <3>1, <3>4, TestStep DEF t
    <3> QED
      BY <2>2, <3>4, <3>5 DEF Leaving
  <2>3. CASE nat # NoRules
    <3>1. Then(a, <<>>)
      BY <1>2, <2>3 DEF TestLoaded
    <3>2. /\ Plans(a) /\ Nth(todo[a], 1) = "testLoaded"
          /\ Consecutive("testLoaded", Nth(todo'[a], 1), Nth(todo'[a], 2))
      BY <2>1, <3>1, PlainStep
    <3>3. Nth(todo'[a], 1) \in Tests \cup {"end"}
      BY <3>2 DEF Consecutive, Leads, Tests
    <3> QED
      BY <2>3, <3>2, <3>3 DEF Leaving
  <2> QED
    BY <2>2, <2>3
<1>3. CASE TestLeft(a)
  <2>1. At(a, "testLeft")
    BY <1>3 DEF TestLeft
  <2>2. t \in Seq(Steps) /\ Orderly(t) /\ Consecutive("testLeft", Nth(t, 1), Nth(t, 2))
    BY <2>1, StepTaken
  <2>3. Nth(t, 1) = "kill"
    BY <2>2 DEF Consecutive, Leads, Tests
  <2> HIDE DEF t
  <2>4. CASE nat # NoRules
    <3>1. Then(a, <<"flush", "restart">>)
      BY <1>3, <2>4 DEF TestLeft
    <3>2. LET r == <<"flush", "restart">> \o t
          IN  r \in Seq(Steps) /\ Orderly(r) /\ Nth(r, 1) = "flush"
      BY <2>2, <2>3, FlushBefore
    <3>3. Plans(a) /\ Nth(todo[a], 1) = "testLeft" /\ todo'[a] = <<"flush", "restart">> \o t
      BY <2>1, <3>1, <3>2, TestStep DEF t
    <3> QED
      BY <2>4, <3>2, <3>3 DEF Leaving
  <2>5. CASE nat = NoRules
    <3>1. Then(a, <<>>)
      BY <1>3, <2>5 DEF TestLeft
    <3>2. /\ Plans(a) /\ Nth(todo[a], 1) = "testLeft"
          /\ Consecutive("testLeft", Nth(todo'[a], 1), Nth(todo'[a], 2))
      BY <2>1, <3>1, PlainStep
    <3>3. Nth(todo'[a], 1) = "kill"
      BY <3>2 DEF Consecutive, Leads, Tests
    <3> QED
      BY <2>5, <3>2, <3>3 DEF Leaving
  <2> QED
    BY <2>4, <2>5
<1>4. ASSUME NEW x \in {"testRedirect", "testDead"}, At(a, x),
             Then(a, <<>>) \/ Then(a, Restart)
      PROVE  Plans(a) /\ Leaving(a)
  <2>1. t \in Seq(Steps) /\ Orderly(t) /\ Consecutive(x, Nth(t, 1), Nth(t, 2))
    BY <1>4, StepTaken
  <2>2. Nth(t, 1) \in Tests \cup {"end"}
    BY <2>1 DEF Consecutive, Leads, Tests
  <2> HIDE DEF t
  <2>3. CASE Then(a, Restart)
    <3>1. /\ Restart \o t \in Seq(Steps) /\ Orderly(Restart \o t)
          /\ Nth(Restart \o t, 1) \in {"empty", Nth(t, 1)}
      BY <2>1, <2>2, RestartJoins
    <3>2. Plans(a) /\ Nth(todo[a], 1) = x /\ todo'[a] = Restart \o t
      BY <1>4, <2>3, <3>1, TestStep DEF t
    <3> QED
      BY <2>2, <3>1, <3>2 DEF Leaving
  <2>4. CASE Then(a, <<>>)
    <3>1. /\ Plans(a) /\ Nth(todo[a], 1) = x /\ Consecutive(x, Nth(todo'[a], 1), Nth(todo'[a], 2))
      BY <1>4, <2>4, PlainStep
    <3>2. Nth(todo'[a], 1) \in Tests \cup {"end"}
      BY <3>1 DEF Consecutive, Leads, Tests
    <3> QED
      BY <3>1, <3>2 DEF Leaving
  <2> QED
    BY <1>4, <2>3, <2>4
<1>5. CASE TestRedirect(a)
  <2>1. At(a, "testRedirect") /\ (Then(a, <<>>) \/ Then(a, Restart))
    BY <1>5 DEF TestRedirect
  <2> QED
    BY <1>4, <2>1
<1>6. CASE a = Dog /\ TestDead
  <2>1. At(a, "testDead") /\ (Then(a, <<>>) \/ Then(a, Restart))
    BY <1>6 DEF TestDead
  <2> QED
    BY <1>4, <2>1
<1>7. CASE TestFile(a)
  <2>1. PICK y \in {"reap", "testRedirect"} : At(a, "testFile") /\ Then(a, <<y>>)
    BY <1>7 DEF TestFile
  <2>2. t \in Seq(Steps) /\ Orderly(t) /\ Consecutive("testFile", Nth(t, 1), Nth(t, 2))
    BY <2>1, StepTaken
  <2>3. Nth(t, 1) \in Tests \cup {"end"} /\ y \in Tests \cup {"load", "reap"}
    BY <2>1, <2>2 DEF Consecutive, Leads, Tests
  <2> HIDE DEF t
  <2>4. <<y>> \o t \in Seq(Steps) /\ Orderly(<<y>> \o t) /\ Nth(<<y>> \o t, 1) = y
    BY <2>2, <2>3, OneBefore
  <2>5. Plans(a) /\ Nth(todo[a], 1) = "testFile" /\ todo'[a] = <<y>> \o t
    BY <2>1, <2>4, TestStep DEF t
  <2> QED
    BY <2>1, <2>4, <2>5 DEF Leaving
<1>8. ASSUME Launch(a) \/ Render(a) \/ Write(a) \/ RestartFirewall(a) \/ Load(a)
             \/ Empty(a) \/ Flush(a) \/ Kill(a) \/ Reap(a) \/ Switched(a)
      PROVE  \E x \in Steps \ {"testLoaded", "testLeft", "testRedirect", "testDead", "testFile"} :
                At(a, x) /\ Then(a, <<>>)
  BY <1>8 DEF Launch, Render, Write, RestartFirewall, Load, Empty, Flush, Kill, Reap,
              Switched, Steps
<1> QED
  BY <1>1, <1>2, <1>3, <1>5, <1>6, <1>7, <1>8 DEF Step
\* A request finds its goroutine idle.
LEMMA AskedPlans ==
    ASSUME SwitchTypes, NEW h \in Handlers, Request(h)
    PROVE  /\ Plans(h) /\ Nth(todo[h], 1) = "end"
           /\ \/ Nth(todo'[h], 1) \in {"launch", "empty"} /\ Round
              \/ Nth(todo'[h], 1) \in {"testFile", "end"} /\ (Round \/ UNCHANGED lastOp)
<1> h \in Actors
  BY DEF Actors
<1>1. /\ StartFireWall \in Seq(Steps) /\ StopFirewall \in Seq(Steps)
      /\ StopFirewall \o StartFireWall \in Seq(Steps)
  BY ConcatProperties DEF StartFireWall, StopFirewall, Steps
<1>2. /\ <<>> \in Seq(Steps) /\ Orderly(<<>>) /\ Nth(<<>>, 1) = "end"
      /\ \A s \in Seq(Steps) : <<>> \o s = s /\ s \o <<>> = s
  BY NoPlan
<1>3. /\ StartFireWall \o <<>> = StartFireWall /\ StopFirewall \o <<>> = StopFirewall
      /\ (StopFirewall \o StartFireWall) \o <<>> = StopFirewall \o StartFireWall
  BY <1>1, <1>2
<1>4. ASSUME NEW x \in Tests
      PROVE  <<x>> \in Seq(Steps) /\ Orderly(<<x>>) /\ Nth(<<x>>, 1) = x
  <2>1. <<x>> \o <<>> \in Seq(Steps) /\ Orderly(<<x>> \o <<>>) /\ Nth(<<x>> \o <<>>, 1) = x
    BY <1>2, OneBefore
  <2>2. <<x>> \in Seq(Steps)
    BY DEF Tests, Steps
  <2>3. <<x>> \o <<>> = <<x>>
    BY <1>2, <2>2
  <2> QED
    BY <2>1, <2>3
<1>5. ASSUME NEW x \in Tests
      PROVE  /\ StartFireWall \o <<x>> \in Seq(Steps) /\ Orderly(StartFireWall \o <<x>>)
             /\ Nth(StartFireWall \o <<x>>, 1) = "launch"
             /\ StopFirewall \o <<x>> \in Seq(Steps) /\ Orderly(StopFirewall \o <<x>>)
             /\ Nth(StopFirewall \o <<x>>, 1) = "empty"
  BY <1>4, SwitchPlans
<1>6. /\ Orderly(StartFireWall) /\ Nth(StartFireWall, 1) = "launch"
      /\ Orderly(StopFirewall) /\ Nth(StopFirewall, 1) = "empty"
  BY <1>2, <1>3, SwitchPlans
<1>7. Orderly(StopFirewall \o StartFireWall) /\ Nth(StopFirewall \o StartFireWall, 1) = "empty"
  BY <1>2, <1>3, RestartPlan
<1>8. ASSUME NEW s, s \in Seq(Steps), Orderly(s), Begin(h, s)
      PROVE  Plans(h) /\ Nth(todo[h], 1) = "end" /\ todo'[h] = s
  <2>1. todo[h] = <<>> /\ todo' = [todo EXCEPT ![h] = s]
    BY <1>8 DEF Begin
  <2>2. Plans(h) /\ todo'[h] = s
    BY <1>8, <2>1, PlanReplaced DEF Plans
  <2> QED
    BY <1>2, <2>1, <2>2
<1>9. CASE Toggle(h)
  <2>1. /\ Round
        /\ \/ Begin(h, StopFirewall \o <<"closed">>)
           \/ Begin(h, StartFireWall \o <<"opened">>)
    BY <1>9 DEF Toggle, Enter
  <2>2. "closed" \in Tests /\ "opened" \in Tests
    BY DEF Tests
  <2>3. CASE Begin(h, StopFirewall \o <<"closed">>)
    <3> DEFINE s == StopFirewall \o <<"closed">>
    <3>1. s \in Seq(Steps) /\ Orderly(s) /\ Nth(s, 1) = "empty"
      BY <1>5, <2>2
    <3>2. Begin(h, s)
      BY <2>3
    <3> HIDE DEF s
    <3>3. Plans(h) /\ Nth(todo[h], 1) = "end" /\ todo'[h] = s
      BY <1>8, <3>1, <3>2
    <3> QED
      BY <2>1, <3>1, <3>3
  <2>4. CASE Begin(h, StartFireWall \o <<"opened">>)
    <3> DEFINE s == StartFireWall \o <<"opened">>
    <3>1. s \in Seq(Steps) /\ Orderly(s) /\ Nth(s, 1) = "launch"
      BY <1>5, <2>2
    <3>2. Begin(h, s)
      BY <2>4
    <3> HIDE DEF s
    <3>3. Plans(h) /\ Nth(todo[h], 1) = "end" /\ todo'[h] = s
      BY <1>8, <3>1, <3>2
    <3> QED
      BY <2>1, <3>1, <3>3
  <2> QED
    BY <2>1, <2>3, <2>4
<1>10. CASE AskStart(h)
  <2>1. Round /\ (Begin(h, StartFireWall) \/ Begin(h, <<>>))
    BY <1>10 DEF AskStart, Enter
  <2> QED
    BY <1>1, <1>2, <1>6, <1>8, <2>1
<1>11. CASE AskStop(h)
  <2>1. Round /\ (Begin(h, StopFirewall \o <<"stopped">>) \/ Begin(h, <<>>))
    BY <1>11 DEF AskStop, Enter
  <2>2. "stopped" \in Tests
    BY DEF Tests
  <2> QED
    BY <1>2, <1>5, <1>8, <2>1, <2>2
<1>12. CASE AskCheck(h)
  <2>1. UNCHANGED lastOp /\ (Begin(h, <<"testFile">>) \/ Begin(h, <<>>))
    BY <1>12 DEF AskCheck
  <2>2. "testFile" \in Tests
    BY DEF Tests
  <2> QED
    BY <1>2, <1>4, <1>8, <2>1, <2>2
<1>13. CASE LogIn(h)
  <2>1. \/ Begin(h, StopFirewall \o StartFireWall) /\ Round
        \/ Begin(h, <<>>) /\ UNCHANGED lastOp
    BY <1>13 DEF LogIn
  <2> QED
    BY <1>1, <1>2, <1>7, <1>8, <2>1
<1> QED
  BY <1>9, <1>10, <1>11, <1>12, <1>13 DEF Request

\* All the variables but the plans.
DataOK ==
    /\ router \in BOOLEAN /\ file \in Rules /\ nat \in Rules
    /\ redsocks \in BOOLEAN /\ hostconf \in Rules \ {{}} /\ routes \in SUBSET Hosts
    /\ lastAddr \in BOOLEAN /\ proxy \in BOOLEAN /\ ST \in BOOLEAN
    /\ serving \in BOOLEAN /\ text \in [Actors -> Rules]
    /\ asked \in Nat /\ deaths \in Nat /\ reboots \in Nat
    /\ asked + deaths + reboots <= MaxEvents
    /\ lastOp \in {"none", "start", "stop"} /\ overlap \in BOOLEAN

LEMMA TypesSplit ==
    SwitchTypes <=> /\ DataOK /\ todo \in [Actors -> Seq(Steps)]
                    /\ \A a \in Actors : Orderly(todo[a])
BY DEF SwitchTypes, RouterTypeOK, DataOK

LEMMA DataKept ==
    ASSUME MaxEvents \in Nat, DataOK, RouterNext
    PROVE  DataOK'
<1>1. overlap' \in BOOLEAN /\ router' = router
  BY DEF RouterNext, Track, DataOK
<1>2. ASSUME NEW a \in Actors, Step(a) PROVE DataOK'
  <2>1. CASE Launch(a)
    <3>1. CASE redsocks' = TRUE /\ UNCHANGED deaths
      BY <1>1, <2>1, <3>1 DEF DataOK, Launch
    <3>2. CASE More /\ deaths' = deaths + 1 /\ UNCHANGED redsocks
      <4>1. asked' + deaths' + reboots' <= MaxEvents /\ deaths' \in Nat
        BY <2>1, <3>2 DEF DataOK, Launch, More
      <4> QED
        BY <1>1, <2>1, <3>2, <4>1 DEF DataOK, Launch
    <3> QED
      BY <2>1, <3>1, <3>2 DEF Launch
  <2>2. CASE Render(a)
    BY <1>1, <2>2 DEF DataOK, Render, Rules, system, program, bounds
  <2>3. CASE Write(a)
    BY <1>1, <2>3 DEF DataOK, Write, Rules, program, bounds
  <2>4. CASE RestartFirewall(a)
    BY <1>1, <2>4 DEF DataOK, RestartFirewall, Rules, program, bounds
  <2>5. CASE TestLoaded(a) \/ TestLeft(a) \/ TestRedirect(a) \/ TestFile(a)
    BY <1>1, <2>5 DEF DataOK, TestLoaded, TestLeft, TestRedirect, TestFile, Round,
                      system, program, bounds
  <2>6. CASE Load(a)
    BY <1>1, <2>6 DEF DataOK, Load, program, bounds
  <2>8. CASE Empty(a)
    BY <1>1, <2>8 DEF DataOK, Empty, Rules, program, bounds
  <2>9. CASE Flush(a)
    BY <1>1, <2>9 DEF DataOK, Flush, Rules, program, bounds
  <2>10. CASE Kill(a) \/ Reap(a)
    BY <1>1, <2>10 DEF DataOK, Kill, Reap, program, bounds
  <2>7. CASE Switched(a)
    BY <1>1, <2>7 DEF DataOK, Switched, system, bounds
  <2> QED
    BY <1>2, <2>1, <2>2, <2>3, <2>4, <2>5, <2>6, <2>7, <2>8, <2>9,
       <2>10 DEF Step
<1>3. CASE Watch \/ TestDead
  BY <1>1, <1>3 DEF DataOK, Watch, TestDead, Round, system, program, bounds
<1>4. CASE Serve
  BY <1>1, <1>4 DEF DataOK, Serve, system, bounds
<1>5. ASSUME NEW h \in Handlers, Request(h) PROVE DataOK'
  <2>1. CASE Toggle(h) \/ AskStart(h) \/ AskStop(h) \/ AskCheck(h)
    BY <1>1, <2>1 DEF DataOK, Toggle, AskStart, AskStop, AskCheck, Enter, Begin, Round, More,
                      system, program
  <2>2. CASE LogIn(h)
    <3>1. PICK list \in SUBSET Hosts :
             \/ (list = {} /\ UNCHANGED <<routes, hostconf>>)
             \/ (list # {} /\ routes' = list /\ hostconf' = list)
      BY <2>2 DEF LogIn
    <3>2. routes' \in SUBSET Hosts /\ hostconf' \in Rules \ {{}}
      BY <3>1 DEF DataOK, Rules
    <3>3. PICK steps : Begin(h, steps)
      BY <2>2 DEF LogIn
    <3>4. asked' \in Nat /\ asked' + deaths' + reboots' <= MaxEvents
      BY <3>3 DEF Begin, DataOK, More
    <3>5. proxy' \in BOOLEAN /\ lastOp' \in {"none", "start", "stop"}
      BY <2>2 DEF LogIn, Round, DataOK
    <3>6. UNCHANGED <<file, nat, redsocks, text, deaths, reboots, lastAddr, ST, serving>>
      BY <2>2, <3>3 DEF LogIn, Begin, system
    <3> QED
      BY <1>1, <3>2, <3>4, <3>5, <3>6 DEF DataOK
  <2> QED
    BY <1>5, <2>1, <2>2 DEF Request
<1>6. CASE RedsocksDies
  <2>1. deaths' \in Nat /\ asked' + deaths' + reboots' <= MaxEvents
    BY <1>6 DEF RedsocksDies, DataOK, More
  <2> QED
    BY <1>1, <1>6, <2>1 DEF DataOK, RedsocksDies, program
<1>7. CASE Reboot
  <2>1. reboots' \in Nat /\ asked' + deaths' + reboots' <= MaxEvents
    BY <1>7 DEF Reboot, DataOK, More
  <2>2. text' \in [Actors -> Rules]
    BY <1>7 DEF Reboot, Rules
  <2> QED
    BY <1>1, <1>7, <2>1, <2>2 DEF DataOK, Reboot, system
<1> QED
  BY <1>2, <1>3, <1>4, <1>5, <1>6, <1>7 DEF RouterNext, Work

\* The watchdog's round.
LEMMA WatchPlans ==
    ASSUME SwitchTypes, Watch
    PROVE  Plans(Dog) /\ Nth(todo[Dog], 1) = "end" /\ Nth(todo'[Dog], 1) = "testDead"
<1> DEFINE s == <<"testDead", "testRedirect">>
<1> Dog \in Actors
  BY DEF Actors
<1>1. s \in Seq(Steps) /\ Len(s) = 2 /\ s[1] = "testDead" /\ s[2] = "testRedirect"
  BY DEF Steps
<1>2. todo[Dog] = <<>> /\ todo' = [todo EXCEPT ![Dog] = s]
  BY DEF Watch
<1> HIDE DEF s
<1>3. Nth(s, 1) = "testDead" /\ Nth(s, 2) = "testRedirect" /\ Nth(s, 3) = "end"
  BY <1>1 DEF Nth
<1>4. ASSUME NEW i \in 1 .. Len(s) PROVE Consecutive(s[i], Nth(s, i + 1), Nth(s, i + 2))
  <2>1. CASE i = 1
    BY <1>1, <1>3, <2>1 DEF Consecutive, Leads, Tests
  <2>2. CASE i = 2
    BY <1>1, <1>3, <2>2 DEF Consecutive, Leads, Tests
  <2> QED
    BY <1>1, <2>1, <2>2
<1>5. Orderly(s)
  BY <1>4 DEF Orderly
<1>6. Plans(Dog) /\ todo'[Dog] = s
  BY <1>1, <1>2, <1>5, PlanReplaced DEF Plans
<1> QED
  BY <1>2, <1>3, <1>6, NoPlan

\* A start of the program: only the boot has something to do, on a router.
BootPlan == [a \in Actors |-> IF a = Boot /\ router THEN StartFireWall ELSE <<>>]

LEMMA BootPlans ==
    /\ BootPlan \in [Actors -> Seq(Steps)]
    /\ \A a \in Actors :
         /\ Orderly(BootPlan[a])
         /\ Nth(BootPlan[a], 1) \in {"launch", "end"}
         /\ a # Boot => Nth(BootPlan[a], 1) = "end"
<1>1. /\ <<>> \in Seq(Steps) /\ Orderly(<<>>) /\ Nth(<<>>, 1) = "end"
      /\ \A s \in Seq(Steps) : s \o <<>> = s
  BY NoPlan
<1>2. StartFireWall \in Seq(Steps)
  BY DEF StartFireWall, Steps
<1>3. StartFireWall \o <<>> = StartFireWall
  BY <1>1, <1>2
<1>4. Orderly(StartFireWall) /\ Nth(StartFireWall, 1) = "launch"
  BY <1>1, <1>3, SwitchPlans
<1>5. ASSUME NEW a \in Actors
      PROVE  /\ BootPlan[a] \in Seq(Steps) /\ Orderly(BootPlan[a])
             /\ Nth(BootPlan[a], 1) \in {"launch", "end"}
             /\ a # Boot => Nth(BootPlan[a], 1) = "end"
  <2>1. CASE a = Boot /\ router
    <3>1. BootPlan[a] = StartFireWall
      BY <2>1 DEF BootPlan
    <3> QED
      BY <1>2, <1>4, <2>1, <3>1
  <2>2. CASE ~(a = Boot /\ router)
    <3>1. BootPlan[a] = <<>>
      BY <2>2 DEF BootPlan
    <3> QED
      BY <1>1, <3>1
  <2> QED
    BY <2>1, <2>2
<1> QED
  BY <1>5 DEF BootPlan

LEMMA SwitchTypesInit ==
    ASSUME MaxEvents \in Nat, \A S \in SUBSET Hosts : S # NoRules, RouterInit
    PROVE  SwitchTypes
<1>1. NoRules \notin SUBSET Hosts
  OBVIOUS
<1>2. NoRules # {}
  BY <1>1
<1>3. DataOK
  <2>1. text \in [Actors -> Rules]
    BY DEF RouterInit, Rules
  <2>2. asked = 0 /\ deaths = 0 /\ reboots = 0 /\ 0 + 0 + 0 <= MaxEvents
    BY DEF RouterInit
  <2>3. asked \in Nat /\ deaths \in Nat /\ reboots \in Nat
    BY <2>2
  <2>4. asked + deaths + reboots <= MaxEvents
    BY <2>2
  <2>5. file \in Rules /\ nat \in Rules /\ hostconf \in Rules \ {{}} /\ routes \in SUBSET Hosts
    BY <1>2 DEF RouterInit, Rules
  <2>6. /\ router \in BOOLEAN /\ redsocks \in BOOLEAN /\ lastAddr \in BOOLEAN /\ proxy \in BOOLEAN
        /\ ST \in BOOLEAN /\ serving \in BOOLEAN /\ overlap \in BOOLEAN
        /\ lastOp \in {"none", "start", "stop"}
    BY DEF RouterInit
  <2> QED
    BY <2>1, <2>3, <2>4, <2>5, <2>6 DEF DataOK
<1>4. todo = BootPlan
  BY DEF RouterInit, BootPlan
<1> QED
  BY <1>3, <1>4, BootPlans, TypesSplit

LEMMA SwitchTypesKept ==
    ASSUME MaxEvents \in Nat, SwitchTypes, [RouterNext]_routerVars
    PROVE  SwitchTypes'
<1>1. CASE UNCHANGED routerVars
  <2>1. UNCHANGED <<router, file, nat, redsocks, routes, lastAddr, proxy, ST, serving, hostconf,
                    todo, text, asked, deaths, reboots, lastOp, overlap>>
    BY <1>1 DEF routerVars, system, program, bounds, history
  <2>2. DataOK /\ todo \in [Actors -> Seq(Steps)] /\ \A a \in Actors : Orderly(todo[a])
    BY TypesSplit
  <2>3. DataOK'
    BY <2>1, <2>2 DEF DataOK
  <2>4. todo' \in [Actors -> Seq(Steps)] /\ \A a \in Actors : Orderly(todo'[a])
    BY <2>1, <2>2
  <2> QED
    BY <2>3, <2>4 DEF SwitchTypes, RouterTypeOK, DataOK
<1>2. ASSUME RouterNext,
             todo' \in [Actors -> Seq(Steps)] /\ \A a \in Actors : Orderly(todo'[a])
      PROVE  SwitchTypes'
  <2>1. DataOK'
    BY <1>2, DataKept, TypesSplit
  <2> QED
    BY <1>2, <2>1 DEF SwitchTypes, RouterTypeOK, DataOK
<1>3. ASSUME RouterNext, NEW a \in Actors, Plans(a) PROVE SwitchTypes'
  BY <1>2, <1>3 DEF Plans
<1>4. Boot \in Actors /\ Dog \in Actors /\ Handlers \subseteq Actors
  BY DEF Actors
<1>5. CASE RouterNext
  <2>1. CASE \E a \in Actors : Step(a)
    BY <1>3, <1>5, <2>1, StepPlans
  <2>2. CASE Watch
    BY <1>3, <1>4, <1>5, <2>2, WatchPlans
  <2>3. CASE TestDead
    BY <1>3, <1>4, <1>5, <2>3, StepPlans
  <2>4. CASE Serve \/ RedsocksDies
    <3>1. todo' = todo
      BY <2>4 DEF Serve, RedsocksDies
    <3> QED
      BY <1>2, <1>5, <3>1 DEF SwitchTypes, RouterTypeOK
  <2>5. CASE \E h \in Handlers : Request(h)
    BY <1>3, <1>4, <1>5, <2>5, AskedPlans
  <2>6. CASE Reboot
    <3>1. todo' = BootPlan
      BY <2>6 DEF Reboot, BootPlan
    <3> QED
      BY <1>2, <1>5, <3>1, BootPlans
  <2> QED
    BY <1>5, <2>1, <2>2, <2>3, <2>4, <2>5, <2>6 DEF RouterNext, Work
<1> QED
  BY <1>1, <1>5

\* The types of RouterMode (TypeOK), and which step of a switch follows which
\* (StartFireWall, StopFirewall, RestartRouterMode).
THEOREM SwitchTypesCorrect == RouterSpec => [](RouterTypeOK /\ SwitchTypes)
<1>1. RouterInit => SwitchTypes
  BY SwitchTypesInit, HostsAssumption, RouterBoundsAssumption
<1>2. SwitchTypes /\ [RouterNext]_routerVars => SwitchTypes'
  BY SwitchTypesKept, RouterBoundsAssumption
<1>3. SwitchTypes => RouterTypeOK
  BY DEF SwitchTypes
<1> QED
  BY <1>1, <1>2, <1>3, PTL DEF RouterSpec

-----------------------------------------------------------------------------
(* AloneIsDecisive.                                                         *)

\* What the machine must already be when goroutine a has got where it is.
Ready(a) ==
    LET x == Nth(todo[a], 1)
        y == Nth(todo[a], 2)
    IN  /\ x = "reap" => lastOp = "none"
        /\ \/ x \in {"render", "write", "testLoaded", "load"}
           \/ x = "restart" /\ y = "testLoaded"
           => redsocks \/ deaths > 0
        /\ \/ x \in {"testLeft", "flush", "kill"}
           \/ x = "restart" /\ y \in {"testLeft", "kill"}
           => file = NoRules
        /\ x = "kill" \/ (x = "restart" /\ y = "kill") => nat = NoRules

Decided ==
    /\ lastOp = "stop" => file = NoRules /\ nat = NoRules /\ ~redsocks
    /\ lastOp = "start" /\ file # NoRules =>
          nat # NoRules /\ (redsocks \/ deaths > 0)

\* In a round without an overlap, at most one goroutine has a command left.
DecisiveInv ==
    ~overlap =>
      /\ \A a, b \in Actors : Operating(a) /\ Operating(b) => a = b
      /\ \A a \in Actors : Ready(a)
      /\ Quiet => Decided

LEMMA DecisiveEnough == DecisiveInv => AloneIsDecisive
BY DEF DecisiveInv, AloneIsDecisive, Decided

LEMMA OperatingIs ==
    ASSUME SwitchTypes, NEW a \in Actors
    PROVE  Operating(a) <=> Nth(todo[a], 1) \in Commands
<1>1. todo[a] \in Seq(Steps)
  BY DEF SwitchTypes, RouterTypeOK
<1>2. CASE todo[a] = <<>>
  <2>1. Nth(todo[a], 1) = "end"
    BY <1>2, NoPlan
  <2> QED
    BY <1>2, <2>1 DEF Operating, Commands
<1>3. CASE todo[a] # <<>>
  <2>1. Nth(todo[a], 1) = todo[a][1] /\ todo[a][1] = Head(todo[a])
    BY <1>1, <1>3, OrderlyTail DEF SwitchTypes
  <2> QED
    BY <1>3, <2>1 DEF Operating, Commands
<1> QED
  BY <1>2, <1>3

\* What Track says of a step after which there was no overlap.
LEMMA OneOperates ==
    ASSUME IsFiniteSet(Handlers), Track, ~overlap', overlap \in BOOLEAN
    PROVE  /\ \A a, b \in Actors : Operating(a)' /\ Operating(b)' => a = b
           /\ (\E a \in Actors : Operating(a)) => ~overlap
           /\ (\A a \in Actors : ~Operating(a)') => ~overlap
<1> DEFINE now == {a \in Actors : Operating(a)'}
<1>1. IsFiniteSet(Actors)
  <2>1. IsFiniteSet({Boot, Dog})
    <3>1. IsFiniteSet({} \cup {Boot})
      BY FS_EmptySet, FS_AddElement
    <3>2. IsFiniteSet(({} \cup {Boot}) \cup {Dog})
      BY <3>1, FS_AddElement
    <3>3. ({} \cup {Boot}) \cup {Dog} = {Boot, Dog}
      OBVIOUS
    <3> QED
      BY <3>2, <3>3
  <2> QED
    BY <2>1, FS_Union DEF Actors
<1>2. IsFiniteSet(now)
  BY <1>1, FS_Subset
<1>3. overlap' = IF now = {} THEN overlap
                 ELSE \/ (\E a \in Actors : Operating(a)) /\ overlap
                      \/ Cardinality(now) > 1
  BY DEF Track
<1>4. ASSUME NEW a \in now, NEW b \in now, a # b PROVE FALSE
  <2> DEFINE rest == now \ {a}
             more == rest \ {b}
  <2>1. IsFiniteSet(rest) /\ Cardinality(rest) = Cardinality(now) - 1
    BY <1>2, FS_RemoveElement
  <2>2. IsFiniteSet(more) /\ Cardinality(more) = Cardinality(rest) - 1
    <3>1. b \in rest
      BY <1>4
    <3> HIDE DEF rest
    <3> QED
      BY <2>1, <3>1, FS_RemoveElement
  <2>3. Cardinality(now) \in Nat /\ Cardinality(rest) \in Nat /\ Cardinality(more) \in Nat
    BY <1>2, <2>1, <2>2, FS_CardinalityType
  <2>4. now # {}
    OBVIOUS
  <2> HIDE DEF now, rest, more
  <2>5. Cardinality(now) > 1
    BY <2>1, <2>2, <2>3
  <2> QED
    BY <1>3, <2>4, <2>5
<1>5. now = {} <=> \A a \in Actors : ~Operating(a)'
  OBVIOUS
<1>6. \A a \in Actors : Operating(a)' => a \in now
  OBVIOUS
<1> HIDE DEF now
<1>7. \A a, b \in Actors : Operating(a)' /\ Operating(b)' => a = b
  BY <1>4, <1>6
<1> QED
  BY <1>3, <1>5, <1>7

\* A command of the only goroutine that has one.
LEMMA OwnStep ==
    ASSUME SwitchTypes, SwitchTypes', NEW a \in Actors, Operating(a), Step(a), Ready(a)
    PROVE  Ready(a)' /\ (~Operating(a)' => Decided')
<1> DEFINE x == Nth(todo[a], 1)
           y == Nth(todo[a], 2)
           u == Nth(todo'[a], 1)
           v == Nth(todo'[a], 2)
<1>1. Leaving(a)
  BY StepPlans
<1>2. /\ x \notin {"testLoaded", "testLeft", "testRedirect", "testDead", "testFile"}
             => u = y /\ Consecutive(x, u, v)
      /\ x = "testLoaded" =>
             u \in IF nat = NoRules THEN {"load"} ELSE Tests \cup {"end"}
      /\ x = "testLeft" => u = IF nat = NoRules THEN "kill" ELSE "flush"
  BY <1>1 DEF Leaving
<1>3. x \in Commands
  BY OperatingIs
<1>4. Operating(a)' <=> u \in Commands
  <2>1. todo'[a] \in Seq(Steps)
    BY DEF SwitchTypes, RouterTypeOK
  <2>2. CASE todo'[a] = <<>>
    BY <2>2, NoPlan DEF Operating, Commands
  <2>3. CASE todo'[a] # <<>>
    <3>1. Orderly(todo'[a])
      BY DEF SwitchTypes
    <3>2. Nth(todo'[a], 1) = Head(todo'[a])
      BY <2>1, <2>3, <3>1, OrderlyTail
    <3> QED
      BY <2>3, <3>2 DEF Operating, Commands
  <2> QED
    BY <2>2, <2>3
<1>5. /\ x = "reap" => lastOp = "none"
      /\ \/ x \in {"render", "write", "testLoaded", "load"}
         \/ x = "restart" /\ y = "testLoaded"
         => redsocks \/ deaths > 0
      /\ \/ x \in {"testLeft", "flush", "kill"}
         \/ x = "restart" /\ y \in {"testLeft", "kill"}
         => file = NoRules
      /\ x = "kill" \/ (x = "restart" /\ y = "kill") => nat = NoRules
  BY DEF Ready
<1>6. redsocks \in BOOLEAN /\ deaths \in Nat
  BY DEF SwitchTypes, RouterTypeOK
<1>7. \A z : At(a, z) => x = z
  BY StepTaken
<1> DEFINE Later == /\ u = "reap" => lastOp' = "none"
                    /\ \/ u \in {"render", "write", "testLoaded", "load"}
                       \/ u = "restart" /\ v = "testLoaded"
                       => redsocks' \/ deaths' > 0
                    /\ \/ u \in {"testLeft", "flush", "kill"}
                       \/ u = "restart" /\ v \in {"testLeft", "kill"}
                       => file' = NoRules
                    /\ u = "kill" \/ (u = "restart" /\ v = "kill") => nat' = NoRules
                    /\ u \notin Commands => Decided'
<1>8. SUFFICES Later
  BY <1>4, <1>8 DEF Ready
<1> HIDE DEF x, y, u, v
<1>9. CASE Launch(a)
  <2>1. x = "launch" /\ (redsocks' \/ deaths' > 0)
    BY <1>6, <1>7, <1>9 DEF Launch
  <2>2. u = "render"
    BY <1>2, <2>1 DEF Consecutive, Leads, Tests
  <2> QED
    BY <2>1, <2>2 DEF Commands
<1>10. CASE Render(a)
  <2>1. x = "render" /\ redsocks' = redsocks /\ deaths' = deaths
    BY <1>7, <1>10 DEF Render, system, bounds
  <2>2. u = "write"
    BY <1>2, <2>1 DEF Consecutive, Leads, Tests
  <2> QED
    BY <1>5, <2>1, <2>2 DEF Commands
<1>11. CASE Write(a)
  <2>1. x = "write" /\ redsocks' = redsocks /\ deaths' = deaths
    BY <1>7, <1>11 DEF Write, bounds
  <2>2. u = "restart" /\ v = "testLoaded"
    BY <1>2, <2>1 DEF Consecutive, Leads, Tests
  <2> QED
    BY <1>5, <2>1, <2>2 DEF Commands
<1>12. CASE RestartFirewall(a)
  <2>1. /\ x = "restart" /\ redsocks' = redsocks /\ deaths' = deaths /\ file' = file
        /\ nat' \in {nat, NoRules, file}
    BY <1>7, <1>12 DEF RestartFirewall, bounds
  <2>2. u = y /\ u \in {"testLoaded", "testLeft", "kill"}
    BY <1>2, <2>1 DEF Consecutive, Leads, Tests
  <2> QED
    BY <1>5, <2>1, <2>2 DEF Commands
<1>13. CASE TestLoaded(a)
  <2>1. x = "testLoaded" /\ redsocks' = redsocks /\ deaths' = deaths /\ nat' = nat
    BY <1>7, <1>13 DEF TestLoaded, system, bounds
  <2>2. CASE nat = NoRules
    BY <1>2, <1>5, <2>1, <2>2 DEF Commands
  <2>3. CASE nat # NoRules
    <3>1. lastOp' = "start" /\ u \in Tests \cup {"end"}
      BY <1>2, <1>13, <2>1, <2>3 DEF TestLoaded
    <3>2. Decided'
      BY <1>5, <2>1, <2>3, <3>1 DEF Decided
    <3> QED
      BY <3>1, <3>2 DEF Tests
  <2> QED
    BY <2>2, <2>3
<1>14. CASE Load(a)
  <2>1. /\ x = "load" /\ redsocks' = redsocks /\ deaths' = deaths /\ file' = file
        /\ lastOp' = "start" /\ nat' = IF nat = NoRules THEN file ELSE nat
    BY <1>7, <1>14 DEF Load, bounds
  <2>2. u \in Tests \cup {"end"}
    BY <1>2, <2>1 DEF Consecutive, Leads, Tests
  <2>3. Decided'
    BY <1>5, <2>1 DEF Decided
  <2> QED
    BY <2>2, <2>3 DEF Tests
<1>15. CASE Empty(a)
  <2>1. x = "empty" /\ file' = NoRules
    BY <1>7, <1>15 DEF Empty
  <2>2. u = "restart" /\ v = "testLeft"
    BY <1>2, <2>1 DEF Consecutive, Leads, Tests
  <2> QED
    BY <2>1, <2>2 DEF Commands
<1>16. CASE TestLeft(a)
  <2>1. x = "testLeft" /\ file' = file /\ nat' = nat
    BY <1>7, <1>16 DEF TestLeft, system
  <2> QED
    BY <1>2, <1>5, <2>1 DEF Commands
<1>17. CASE Flush(a)
  <2>1. x = "flush" /\ file' = file /\ nat' = NoRules
    BY <1>7, <1>17 DEF Flush
  <2>2. u = "restart" /\ v = "kill"
    BY <1>2, <2>1 DEF Consecutive, Leads, Tests
  <2> QED
    BY <1>5, <2>1, <2>2 DEF Commands
<1>18. CASE Kill(a)
  <2>1. /\ x = "kill" /\ file' = file /\ nat' = nat /\ redsocks' = FALSE /\ lastOp' = "stop"
    BY <1>7, <1>18 DEF Kill
  <2>2. u \in {"launch", "end"} \cup Tests
    BY <1>2, <2>1 DEF Consecutive, Leads, Tests
  <2>3. Decided'
    BY <1>5, <2>1 DEF Decided
  <2> QED
    BY <2>2, <2>3 DEF Tests
<1>19. CASE Reap(a)
  <2>1. x = "reap" /\ lastOp' = lastOp
    BY <1>7, <1>19 DEF Reap
  <2>2. u \in Tests \cup {"end"}
    BY <1>2, <2>1 DEF Consecutive, Leads, Tests
  <2>3. Decided'
    BY <1>5, <2>1 DEF Decided
  <2> QED
    BY <2>2, <2>3 DEF Tests
<1>20. ASSUME TestRedirect(a) \/ TestFile(a) \/ Switched(a) PROVE FALSE
  <2>1. x \in Tests
    BY <1>7, <1>20 DEF TestRedirect, TestFile, Switched, Tests
  <2> QED
    BY <1>3, <2>1 DEF Tests, Commands
<1> QED
  BY <1>9, <1>10, <1>11, <1>12, <1>13, <1>14, <1>15, <1>16, <1>17, <1>18, <1>19, <1>20
     DEF Step

\* A step of a goroutine that runs no command, which may decide on some.
Decides(a) ==
    /\ Plans(a) /\ ~Operating(a)
    /\ UNCHANGED <<file, nat, redsocks, deaths>>
    /\ Round \/ UNCHANGED lastOp
    /\ Operating(a)' => Round /\ Nth(todo[a], 1)' \in {"launch", "empty", "reap"}

LEMMA StepKinds ==
    ASSUME SwitchTypes, SwitchTypes', RouterNext
    PROVE  \/ \E a \in Actors : (Operating(a) /\ Step(a)) \/ Decides(a)
           \/ RedsocksDies \/ Reboot
<1>1. ASSUME NEW a \in Actors
      PROVE  /\ Operating(a) <=> Nth(todo[a], 1) \in Commands
             /\ Operating(a)' <=> Nth(todo'[a], 1) \in Commands
  <2>1. /\ todo'[a] \in Seq(Steps) /\ Orderly(todo'[a])
    BY DEF SwitchTypes, RouterTypeOK
  <2>2. CASE todo'[a] = <<>>
    BY <2>2, OperatingIs, NoPlan DEF Operating, Commands
  <2>3. CASE todo'[a] # <<>>
    <3>1. Nth(todo'[a], 1) = Head(todo'[a])
      BY <2>1, <2>3, OrderlyTail
    <3> QED
      BY <2>3, <3>1, OperatingIs DEF Operating, Commands
  <2> QED
    BY <2>2, <2>3
<1>2. Boot \in Actors /\ Dog \in Actors /\ Handlers \subseteq Actors
  BY DEF Actors
<1>3. ASSUME NEW a \in Actors, Step(a), ~Operating(a) PROVE Decides(a)
  <2>1. Plans(a) /\ Leaving(a)
    BY <1>3, StepPlans
  <2>2. Nth(todo[a], 1) \notin Commands
    BY <1>1, <1>3
  <2>3. \A z : At(a, z) => Nth(todo[a], 1) = z
    BY StepTaken
  <2>4. TestRedirect(a) \/ TestFile(a) \/ Switched(a)
    BY <1>3, <2>2, <2>3 DEF Step, Launch, Render, Write, RestartFirewall, TestLoaded, Load,
                            Empty, TestLeft, Flush, Kill, Reap, Commands
  <2>5. /\ UNCHANGED <<file, nat, redsocks, deaths>> /\ (Round \/ UNCHANGED lastOp)
    BY <2>4 DEF TestRedirect, TestFile, Switched, system, bounds
  <2>6. CASE TestRedirect(a)
    <3>1. /\ Nth(todo[a], 1) = "testRedirect"
          /\ Nth(todo'[a], 1) \in {"empty", "end"} \cup Tests
      BY <2>1, <2>3, <2>6 DEF TestRedirect, Leaving
    <3>2. nat # NoRules => Then(a, <<>>) /\ At(a, "testRedirect")
      BY <2>6 DEF TestRedirect
    <3>3. ASSUME nat # NoRules PROVE Nth(todo'[a], 1) \notin Commands
      <4>1. Consecutive("testRedirect", Nth(todo'[a], 1), Nth(todo'[a], 2))
        BY <3>2, <3>3, PlainStep
      <4> QED
        BY <4>1 DEF Consecutive, Leads, Tests, Commands
    <3>4. nat = NoRules => Round
      BY <2>6 DEF TestRedirect
    <3> QED
      BY <1>1, <1>3, <2>1, <2>5, <3>1, <3>3, <3>4 DEF Decides, Tests, Commands
  <2>7. CASE TestFile(a)
    <3>1. /\ Nth(todo[a], 1) = "testFile" /\ Nth(todo'[a], 1) \in {"reap", "testRedirect"}
      BY <2>1, <2>3, <2>7 DEF TestFile, Leaving
    <3>2. CASE file = NoRules
      BY <1>1, <1>3, <2>1, <2>5, <2>7, <3>1, <3>2 DEF Decides, TestFile, Commands
    <3>3. CASE file # NoRules
      <4> DEFINE t == Tail(todo[a])
      <4>1. At(a, "testFile") /\ Then(a, <<"testRedirect">>)
        BY <2>7, <3>3 DEF TestFile
      <4>2. t \in Seq(Steps) /\ Orderly(t) /\ Consecutive("testFile", Nth(t, 1), Nth(t, 2))
        BY <4>1, StepTaken
      <4>3. Nth(t, 1) \in Tests \cup {"end"} /\ "testRedirect" \in Tests \cup {"load", "reap"}
        BY <4>2 DEF Consecutive, Leads, Tests
      <4> HIDE DEF t
      <4>4. /\ <<"testRedirect">> \o t \in Seq(Steps) /\ Orderly(<<"testRedirect">> \o t)
            /\ Nth(<<"testRedirect">> \o t, 1) = "testRedirect"
        BY <4>2, <4>3, OneBefore
      <4>5. Nth(todo'[a], 1) = "testRedirect"
        BY <4>1, <4>4, TestStep DEF t
      <4> QED
        BY <1>1, <1>3, <2>1, <2>5, <4>5 DEF Decides, Commands
    <3> QED
      BY <3>2, <3>3
  <2>8. CASE Switched(a)
    <3>1. PICK z \in Tests : At(a, z) /\ Then(a, <<>>)
      BY <2>8 DEF Switched, Tests
    <3>2. Consecutive(z, Nth(todo'[a], 1), Nth(todo'[a], 2))
      BY <3>1, PlainStep
    <3>3. Nth(todo'[a], 1) \notin Commands
      BY <3>1, <3>2 DEF Consecutive, Leads, Tests, Commands
    <3> QED
      BY <1>1, <1>3, <2>1, <2>5, <3>3 DEF Decides
  <2> QED
    BY <2>4, <2>6, <2>7, <2>8
<1>4. CASE Watch
  <2>1. Plans(Dog) /\ Nth(todo[Dog], 1) = "end" /\ Nth(todo'[Dog], 1) = "testDead"
    BY <1>4, WatchPlans
  <2>2. UNCHANGED <<file, nat, redsocks, deaths, lastOp>>
    BY <1>4 DEF Watch, system, bounds
  <2>3. Decides(Dog)
    BY <1>1, <1>2, <2>1, <2>2 DEF Decides, Commands
  <2> QED
    BY <1>2, <2>3
<1>5. CASE TestDead
  <2>1. Plans(Dog) /\ Leaving(Dog)
    BY <1>2, <1>5, StepPlans
  <2>2. Nth(todo[Dog], 1) = "testDead" /\ At(Dog, "testDead")
    BY <1>2, <1>5, StepTaken DEF TestDead
  <2>3. UNCHANGED <<file, nat, redsocks, deaths>> /\ (Round \/ UNCHANGED lastOp)
    BY <1>5 DEF TestDead, system, bounds
  <2>4. Nth(todo'[Dog], 1) \in {"empty", "end"} \cup Tests
    BY <2>1, <2>2 DEF Leaving
  <2>5. redsocks => Nth(todo'[Dog], 1) \notin Commands
    <3>1. redsocks => Then(Dog, <<>>)
      BY <1>5 DEF TestDead
    <3> QED
      BY <1>2, <2>2, <3>1, PlainStep DEF Consecutive, Leads, Tests, Commands
  <2>6. ~redsocks => Round
    BY <1>5 DEF TestDead
  <2>7. Decides(Dog)
    BY <1>1, <1>2, <2>1, <2>2, <2>3, <2>4, <2>5, <2>6 DEF Decides, Commands, Tests
  <2> QED
    BY <1>2, <2>7
<1>6. CASE Serve
  <2>1. todo' = todo /\ todo[Boot] = <<>>
    BY <1>6 DEF Serve
  <2>2. UNCHANGED <<file, nat, redsocks, deaths, lastOp>>
    BY <1>6 DEF Serve, system, bounds
  <2>3. Plans(Boot)
    BY <2>1 DEF Plans, SwitchTypes, RouterTypeOK
  <2>4. ~Operating(Boot) /\ ~Operating(Boot)'
    BY <2>1 DEF Operating
  <2>5. Decides(Boot)
    BY <2>2, <2>3, <2>4 DEF Decides
  <2> QED
    BY <1>2, <2>5
<1>7. ASSUME NEW h \in Handlers, Request(h) PROVE Decides(h)
  <2>1. /\ Plans(h) /\ Nth(todo[h], 1) = "end"
        /\ \/ Nth(todo'[h], 1) \in {"launch", "empty"} /\ Round
           \/ Nth(todo'[h], 1) \in {"testFile", "end"} /\ (Round \/ UNCHANGED lastOp)
    BY <1>7, AskedPlans
  <2>2. UNCHANGED <<file, nat, redsocks, deaths>>
    BY <1>7 DEF Request, Toggle, AskStart, AskStop, AskCheck, LogIn, Enter, Begin, system
  <2> QED
    BY <1>1, <1>2, <2>1, <2>2 DEF Decides, Commands
<1> QED
  BY <1>2, <1>3, <1>4, <1>5, <1>6, <1>7 DEF RouterNext, Work

LEMMA DecisiveKept ==
    ASSUME IsFiniteSet(Handlers), SwitchTypes, SwitchTypes', DecisiveInv, [RouterNext]_routerVars
    PROVE  DecisiveInv'
<1>1. CASE UNCHANGED routerVars
  <2>1. UNCHANGED <<file, nat, redsocks, todo, deaths, lastOp, overlap>>
    BY <1>1 DEF routerVars, system, bounds, history
  <2>2. \A a \in Actors : (Operating(a)' <=> Operating(a)) /\ (Ready(a) => Ready(a)')
    BY <2>1 DEF Operating, Ready
  <2>3. Decided => Decided'
    BY <2>1 DEF Decided
  <2> QED
    BY <2>1, <2>2, <2>3 DEF DecisiveInv, Quiet
<1>2. CASE RouterNext
  <2>1. SUFFICES ASSUME ~overlap'
                 PROVE  /\ \A a \in Actors : Ready(a)'
                        /\ (\A a \in Actors : ~Operating(a)') => Decided'
    <3>1. Track /\ overlap \in BOOLEAN
      BY <1>2 DEF RouterNext, SwitchTypes, RouterTypeOK
    <3> QED
      BY <2>1, <3>1, OneOperates DEF DecisiveInv, Quiet
  <2>2. /\ \A a, b \in Actors : Operating(a)' /\ Operating(b)' => a = b
        /\ (\E a \in Actors : Operating(a)) => ~overlap
        /\ (\A a \in Actors : ~Operating(a)') => ~overlap
    <3>1. Track /\ overlap \in BOOLEAN
      BY <1>2 DEF RouterNext, SwitchTypes, RouterTypeOK
    <3> QED
      BY <2>1, <3>1, OneOperates
  <2>3. ~overlap => /\ \A a, b \in Actors : Operating(a) /\ Operating(b) => a = b
                    /\ \A a \in Actors : Ready(a)
                    /\ (\A a \in Actors : ~Operating(a)) => Decided
    BY DEF DecisiveInv, Quiet
  <2>4. ASSUME NEW b \in Actors, ~Operating(b)' PROVE Ready(b)'
    <3>1. Nth(todo'[b], 1) \notin Commands
      <4>1. todo'[b] \in Seq(Steps) /\ Orderly(todo'[b])
        BY DEF SwitchTypes, RouterTypeOK
      <4>2. CASE todo'[b] = <<>>
        BY <4>2, NoPlan DEF Commands
      <4>3. CASE todo'[b] # <<>>
        <5>1. Nth(todo'[b], 1) = Head(todo'[b])
          BY <4>1, <4>3, OrderlyTail
        <5> QED
          BY <2>4, <4>3, <5>1 DEF Operating, Commands
      <4> QED
        BY <4>2, <4>3
    <3> QED
      BY <3>1 DEF Ready, Commands
  <2>5. ASSUME NEW a \in Actors, Plans(a)
        PROVE  \A b \in Actors \ {a} : (Operating(b)' <=> Operating(b))
    BY <2>5 DEF Plans, Operating
  <2>6. ASSUME NEW a \in Actors, Operating(a), Step(a)
        PROVE  /\ \A b \in Actors : Ready(b)'
               /\ (\A b \in Actors : ~Operating(b)') => Decided'
    <3>1. Plans(a)
      BY <2>6, StepPlans
    <3>2. Ready(a) /\ \A b \in Actors \ {a} : ~Operating(b)
      BY <2>2, <2>3, <2>6
    <3>3. \A b \in Actors \ {a} : ~Operating(b)'
      BY <2>5, <3>1, <3>2
    <3>4. Ready(a)' /\ (~Operating(a)' => Decided')
      BY <2>6, <3>2, OwnStep
    <3> QED
      BY <2>4, <3>3, <3>4
  <2>7. ASSUME NEW a \in Actors, Decides(a)
        PROVE  /\ \A b \in Actors : Ready(b)'
               /\ (\A b \in Actors : ~Operating(b)') => Decided'
    <3>1. /\ Plans(a) /\ ~Operating(a) /\ UNCHANGED <<file, nat, redsocks, deaths>>
          /\ Round \/ UNCHANGED lastOp
          /\ Operating(a)' => Round /\ Nth(todo'[a], 1) \in {"launch", "empty", "reap"}
      BY <2>7 DEF Decides
    <3>2. CASE Operating(a)'
      <4>1. \A b \in Actors \ {a} : ~Operating(b)'
        BY <2>2, <3>2
      <4>2. \A b \in Actors : ~Operating(b)
        BY <2>5, <3>1, <4>1
      <4>3. lastOp' = "none"
        BY <3>1, <3>2, <4>2 DEF Round
      <4>4. Ready(a)'
        BY <3>1, <3>2, <4>3 DEF Ready
      <4> QED
        BY <2>4, <3>2, <4>1, <4>4
    <3>3. CASE ~Operating(a)'
      <4>1. \A b \in Actors : Operating(b)' <=> Operating(b)
        BY <2>5, <3>1, <3>3
      <4>2. ~overlap
        BY <2>2, <4>1
      <4>3. lastOp' \in {lastOp, "none"}
        BY <3>1 DEF Round
      <4>4. ASSUME NEW b \in Actors \ {a} PROVE Ready(b)'
        <5>1. Ready(b) /\ todo'[b] = todo[b]
          BY <2>3, <3>1, <4>2 DEF Plans
        <5> QED
          BY <3>1, <4>3, <5>1 DEF Ready
      <4>5. (\A b \in Actors : ~Operating(b)') => Decided'
        <5>1. (\A b \in Actors : ~Operating(b)') => Decided
          BY <2>3, <4>1, <4>2
        <5> QED
          BY <3>1, <4>3, <5>1 DEF Decided
      <4> QED
        BY <2>4, <3>3, <4>4, <4>5
    <3> QED
      BY <3>2, <3>3
  <2>8. CASE RedsocksDies
    <3>1. /\ UNCHANGED <<file, nat, todo, lastOp>> /\ redsocks' = FALSE /\ deaths' = deaths + 1
          /\ deaths \in Nat
      BY <2>8 DEF RedsocksDies, SwitchTypes, RouterTypeOK
    <3>2. deaths' > 0
      BY <3>1
    <3>3. \A b \in Actors : Operating(b)' <=> Operating(b)
      BY <3>1 DEF Operating
    <3>4. ~overlap
      BY <2>2, <3>3
    <3>5. ASSUME NEW b \in Actors PROVE Ready(b)'
      <4>1. Ready(b)
        BY <2>3, <3>4
      <4> QED
        BY <3>1, <3>2, <4>1 DEF Ready
    <3>6. Decided => Decided'
      BY <3>1, <3>2 DEF Decided
    <3> QED
      BY <2>3, <3>3, <3>4, <3>5, <3>6
  <2>9. CASE Reboot
    <3>1. todo' = BootPlan /\ lastOp' = "none"
      BY <2>9 DEF Reboot, BootPlan
    <3>2. ASSUME NEW b \in Actors PROVE Ready(b)'
      <4>1. Nth(todo'[b], 1) \in {"launch", "end"}
        BY <3>1, BootPlans
      <4> QED
        BY <4>1 DEF Ready
    <3>3. Decided'
      BY <3>1 DEF Decided
    <3> QED
      BY <3>2, <3>3
  <2> QED
    BY <1>2, <2>6, <2>7, <2>8, <2>9, StepKinds
<1> QED
  BY <1>1, <1>2

LEMMA DecisiveInit ==
    ASSUME MaxEvents \in Nat, \A S \in SUBSET Hosts : S # NoRules, RouterInit
    PROVE  DecisiveInv
<1>1. SwitchTypes
  BY SwitchTypesInit
<1>2. todo = BootPlan /\ lastOp = "none"
  BY DEF RouterInit, BootPlan
<1>3. ASSUME NEW a \in Actors
      PROVE  Ready(a) /\ (Operating(a) => a = Boot)
  <2>1. Nth(todo[a], 1) \in {"launch", "end"} /\ (a # Boot => Nth(todo[a], 1) = "end")
    BY <1>2, BootPlans
  <2>2. Operating(a) <=> Nth(todo[a], 1) \in Commands
    BY <1>1, OperatingIs
  <2> QED
    BY <2>1, <2>2 DEF Ready, Commands
<1>4. Decided
  BY <1>2 DEF Decided
<1> QED
  BY <1>3, <1>4 DEF DecisiveInv

\* A switch of the redirection that met no other leaves the machine as it
\* was asked for (StartFireWall, StopFirewall, CheckStatus), for any number
\* of servers, of requests at a time, of restarts and of deaths of redsocks.
THEOREM SwitchAloneDecides == RouterSpec => []AloneIsDecisive
<1> DEFINE IInv == SwitchTypes /\ DecisiveInv
<1>1. RouterInit => IInv
  BY SwitchTypesInit, DecisiveInit, HostsAssumption, RouterBoundsAssumption
<1>2. IInv /\ [RouterNext]_routerVars => IInv'
  BY SwitchTypesKept, DecisiveKept, RouterBoundsAssumption, ActorsAssumption
<1>3. IInv => AloneIsDecisive
  BY DecisiveEnough
<1> QED
  BY <1>1, <1>2, <1>3, PTL DEF RouterSpec

=============================================================================
