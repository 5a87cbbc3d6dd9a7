------------------------ MODULE TunnelRegistryProofs ------------------------
(***************************************************************************)
(* Proofs about TunnelRegistry: what holds whatever requests arrive, for   *)
(* every range of ports and every interleaving of requests, servers,       *)
(* deletions and the reaper.                                               *)
(***************************************************************************)
EXTENDS TunnelRegistry, SequenceTheorems, WellFoundedInduction, TLAPS

-----------------------------------------------------------------------------
(* The inductive invariants.                                               *)

\* Where a request, a server or a deletion is says which tunnel it has.
Steady ==
    /\ \A r \in Requests : pc[r] \in {"ison", "start"} => sel[r] \in Requests
    /\ \A r \in Requests : pc[r] \in {"add", "addErr", "given"} => sel[r] = r
    /\ \A r \in Requests :
          spc[r] # "none" => pc[r] = "done" /\ sel[r] \in Requests
    /\ \A r \in Requests :
          pc[r] \in {"first", "report", "create", "createErr", "createOnly"}
              => want[r] # "any"
    /\ \A a \in Actors : dpc[a] # "idle" => victim[a] \in Requests

TypeInv == TypeOK /\ Steady

\* Request t has not built its tunnel yet.
Fresh(t) == pc[t] \in {"new", "select", "capcheck", "first", "report",
                       "create", "createErr", "createOnly"}

\* Nobody refers to a tunnel before it is built.
Unseen ==
    \A t \in Requests : Fresh(t) =>
        /\ t \notin Listed
        /\ \A r \in Requests : sel[r] # t
        /\ \A a \in Actors : t \notin todo[a] /\ victim[a] # t

\* A tunnel is on the list at most once, and not before it is added.
ListedOnce ==
    /\ \A i, j \in DOMAIN Tunnels : Tunnels[i] = Tunnels[j] => i = j
    /\ \A t \in Requests : pc[t] \in {"add", "addErr", "given"} => t \notin Listed

\* Sockets and where their servers are; the listener that TryClose will find.
SocketInv ==
    /\ \A r \in Requests : bound[r] => spc[r] \in {"publish", "serve", "shut"}
    /\ \A r \in Requests : spc[r] = "publish" => bound[r]
    /\ \A r \in Requests : spc[r] \in {"none", "bind", "publish"} =>
          /\ \A t \in Requests : listener[t] # r
          /\ \A a \in Actors : grabbed[a] # r
    /\ \A r, s \in Requests : bound[r] /\ bound[s] /\ sel[r] = sel[s] => r = s
    /\ \A r \in Requests :
          IsServing(r) /\ type[sel[r]] # "ss" => listener[sel[r]] = r

\* Somebody will still close the firewall rule of tunnel t.
OwnsRule(t) ==
    \/ t \in Listed
    \/ pc[t] \in {"add", "addErr", "given"}
    \/ \E a \in Actors : dpc[a] \in {"flag", "close", "ufw"} /\ victim[a] = t
    \/ \E r \in Requests :
          sel[r] = t /\ spc[r] \in {"bind", "publish", "serve", "shut", "off"}

PortInv ==
    /\ \A p \in used : \E t \in Requests : port[t] = p /\ HasOwner(t)
    /\ \A p \in allowed : \E t \in Requests : port[t] = p /\ OwnsRule(t)

-----------------------------------------------------------------------------
(* Lists and ports.                                                        *)

\* A set of numbers that is not empty has a least one.
LEMMA Least ==
    ASSUME NEW S, S \subseteq Nat, S # {}
    PROVE  \E x \in S : \A y \in S : x <= y
<1> DEFINE R == {ss \in Nat \X Nat : ss[1] < ss[2]}
<1>1. IsWellFoundedOn(R, Nat)
  BY NatLessThanWellFounded DEF OpToRel
<1>2. \A x, y \in Nat : y < x => <<y, x>> \in R
  OBVIOUS
<1> HIDE DEF R
<1>3. PICK x \in S : \A y \in S : ~(<<y, x>> \in R)
  BY <1>1, WFMin
<1>4. ASSUME NEW y \in S
      PROVE  x <= y
  <2>1. x \in Nat /\ y \in Nat /\ ~(<<y, x>> \in R)
    BY <1>3
  <2>2. ~(y < x)
    BY <1>2, <2>1
  <2> QED
    BY <2>1, <2>2
<1> QED
  BY <1>4

\* GiveAPort returns a port nobody has, or none; MarkUsed adds to the used
\* ports that port and ports on which a server listens.
LEMMA GiveAPortGives ==
    /\ GiveAPort \in Ports \cup {None}
    /\ \A p \in MarkUsed(GiveAPort) :
          \/ p \in used
          \/ p = GiveAPort /\ p # None
          \/ p \in Failing
<1>1. CASE Free = {}
  BY <1>1 DEF GiveAPort, MarkUsed
<1>2. CASE Free # {}
  <2>1. Free \subseteq Nat /\ Free \subseteq Ports /\ None \notin Ports
    BY PortsAssumption DEF Free, None
  <2>2. \E x \in Free : \A y \in Free : x <= y
    BY <1>2, <2>1, Least
  <2>3. GiveAPort \in Free
    BY <1>2, <2>2 DEF GiveAPort
  <2> QED
    BY <2>1, <2>3 DEF MarkUsed
<1> QED
  BY <1>1, <1>2

\* What is left of a list when one place is taken out.
LEMMA Removed ==
    ASSUME NEW S, NEW s \in Seq(S), NEW i \in DOMAIN s
    PROVE  /\ RemoveAt(s, i) \in Seq(S)
           /\ Len(RemoveAt(s, i)) = Len(s) - 1
           /\ \A j \in 1..(Len(s) - 1) :
                 RemoveAt(s, i)[j] = IF j < i THEN s[j] ELSE s[j + 1]
<1> DEFINE a == SubSeq(s, 1, i - 1)
           b == SubSeq(s, i + 1, Len(s))
<1>1. Len(s) \in Nat /\ i \in 1..Len(s)
  OBVIOUS
<1>2. /\ a \in Seq(S) /\ Len(a) = i - 1
      /\ \A j \in 1..(i - 1) : a[j] = s[j]
  BY <1>1, SubSeqProperties
<1>3. /\ b \in Seq(S) /\ Len(b) = Len(s) - i
      /\ \A j \in 1..(Len(s) - i) : b[j] = s[i + j]
  BY <1>1, SubSeqProperties
<1> HIDE DEF a, b
<1>4. /\ a \o b \in Seq(S) /\ Len(a \o b) = Len(s) - 1
      /\ \A j \in 1..(Len(s) - 1) :
            (a \o b)[j] = IF j < i THEN s[j] ELSE s[j + 1]
  BY <1>1, <1>2, <1>3, ConcatProperties, SMTT(30)
<1>5. RemoveAt(s, i) = a \o b
  BY DEF RemoveAt, a, b
<1> QED
  BY <1>4, <1>5

\* The list when a tunnel is added.
LEMMA Added ==
    ASSUME Tunnels \in Seq(Requests), NEW t \in Requests,
           Tunnels' = Append(Tunnels, t)
    PROVE  /\ Tunnels' \in Seq(Requests)
           /\ Listed' = Listed \cup {t}
           /\ DOMAIN Tunnels' = 1..(Len(Tunnels) + 1)
           /\ DOMAIN Tunnels = 1..Len(Tunnels)
           /\ \A i \in DOMAIN Tunnels : Tunnels'[i] = Tunnels[i]
           /\ Tunnels'[Len(Tunnels) + 1] = t
<1>1. /\ Tunnels' \in Seq(Requests)
      /\ Len(Tunnels') = Len(Tunnels) + 1
      /\ Len(Tunnels) \in Nat
      /\ DOMAIN Tunnels' = 1..(Len(Tunnels) + 1)
      /\ DOMAIN Tunnels = 1..Len(Tunnels)
      /\ \A i \in DOMAIN Tunnels : Tunnels'[i] = Tunnels[i]
      /\ Tunnels'[Len(Tunnels) + 1] = t
  BY AppendProperties
<1>2. Listed' = Listed \cup {t}
  BY <1>1 DEF Listed
<1> QED
  BY <1>1, <1>2

\* The list when a tunnel that is on it once is removed.
LEMMA Taken ==
    ASSUME Tunnels \in Seq(Requests), NEW i \in DOMAIN Tunnels,
           Tunnels' = RemoveAt(Tunnels, i)
    PROVE  /\ Tunnels' \in Seq(Requests)
           /\ Listed' \subseteq Listed
           /\ Listed \subseteq Listed' \cup {Tunnels[i]}
           /\ DOMAIN Tunnels' = 1..(Len(Tunnels) - 1)
           /\ DOMAIN Tunnels = 1..Len(Tunnels)
           /\ \A j \in DOMAIN Tunnels' :
                 Tunnels'[j] = IF j < i THEN Tunnels[j] ELSE Tunnels[j + 1]
<1>1. /\ Len(Tunnels) \in Nat /\ i \in 1..Len(Tunnels)
      /\ DOMAIN Tunnels = 1..Len(Tunnels)
  OBVIOUS
<1>2. /\ Tunnels' \in Seq(Requests)
      /\ Len(Tunnels') = Len(Tunnels) - 1
      /\ \A j \in 1..(Len(Tunnels) - 1) :
            Tunnels'[j] = IF j < i THEN Tunnels[j] ELSE Tunnels[j + 1]
  BY Removed
<1>3. DOMAIN Tunnels' = 1..(Len(Tunnels) - 1)
  BY <1>2
<1>4. ASSUME NEW j \in DOMAIN Tunnels'
      PROVE  Tunnels'[j] \in Listed
  <2>1. j \in DOMAIN Tunnels /\ j + 1 \in DOMAIN Tunnels
    BY <1>1, <1>3
  <2> QED
    BY <1>2, <1>3, <2>1 DEF Listed
<1>5. ASSUME NEW j \in DOMAIN Tunnels, j # i
      PROVE  Tunnels[j] \in Listed'
  <2>1. CASE j < i
    BY <1>1, <1>2, <1>3, <1>5, <2>1 DEF Listed
  <2>2. CASE j > i
    <3>1. j - 1 \in DOMAIN Tunnels' /\ ~(j - 1 < i) /\ (j - 1) + 1 = j
      BY <1>1, <1>3, <2>2
    <3>2. Tunnels'[j - 1] = Tunnels[j]
      BY <1>2, <1>3, <3>1
    <3> QED
      BY <3>1, <3>2 DEF Listed
  <2> QED
    BY <1>1, <1>5, <2>1, <2>2
<1>6. /\ Listed' \subseteq Listed
      /\ Listed \subseteq Listed' \cup {Tunnels[i]}
  BY <1>4, <1>5 DEF Listed
<1> QED
  BY <1>1, <1>2, <1>3, <1>6

-----------------------------------------------------------------------------
(* Types.                                                                  *)

USE DEF None

LEMMA TypeInit == Init => TypeInv
  BY BoundsAssumption DEF Init, TypeInv, TypeOK, Steady

LEMMA TypeStep == TypeInv /\ [Next]_vars => TypeInv'
<1> SUFFICES ASSUME TypeInv, [Next]_vars
             PROVE  TypeInv'
  OBVIOUS
<1> USE DEF TypeInv, TypeOK, Steady, config, lifecycle, handlers, servers, deletes
<1>0. Listed \subseteq Requests
  BY DEF Listed
<1>1. ASSUME NEW r \in Requests, ArriveGet(r)
      PROVE  TypeInv'
  BY <1>1 DEF ArriveGet, GotoH
<1>2. ASSUME NEW r \in Requests, ArriveGetType(r)
      PROVE  TypeInv'
  BY <1>2, TypesAssumption DEF ArriveGetType, GotoH
<1>3. ASSUME NEW r \in Requests, ArriveErr(r)
      PROVE  TypeInv'
  <2>1. \A T \in Named : T \in SUBSET Requests
    BY <1>0 DEF Named
  <2>2. todo' \in [Actors -> SUBSET Requests]
    <3>1. PICK T \in Named : todo' = [todo EXCEPT ![Handler(r)] = T]
      BY <1>3 DEF ArriveErr, BeginDelete
    <3> QED
      BY <2>1, <3>1
  <2> QED
    BY <1>3, <2>2, TypesAssumption DEF ArriveErr, GotoH
<1>4. ASSUME NEW r \in Requests, ArriveNew(r)
      PROVE  TypeInv'
  BY <1>4 DEF ArriveNew, GotoH
<1>5. ASSUME NEW r \in Requests, ArriveDelete(r)
      PROVE  TypeInv'
  <2>1. \A T \in Named : T \in SUBSET Requests
    BY <1>0 DEF Named
  <2>2. todo' \in [Actors -> SUBSET Requests]
    BY <1>0, <1>5, <2>1 DEF ArriveDelete, BeginDelete
  <2> QED
    BY <1>5, <2>2 DEF ArriveDelete, GotoH
<1>6. ASSUME NEW r \in Requests, Decline(r)
      PROVE  TypeInv'
  BY <1>6 DEF Decline, GotoH
<1>7. ASSUME NEW r \in Requests, Report(r)
      PROVE  TypeInv'
  BY <1>7 DEF Report, GotoH
<1>8. ASSUME NEW r \in Requests, Deleted(r)
      PROVE  TypeInv'
  BY <1>8 DEF Deleted, GotoH
<1>9. ASSUME NEW r \in Requests, Select(r)
      PROVE  TypeInv'
  <2>1. CASE GotoH(r, "select", "capcheck") /\ UNCHANGED sel
    BY <1>9, <2>1 DEF Select, GotoH
  <2>2. ASSUME NEW t \in Requests, GotoH(r, "select", "ison"),
               sel' = [sel EXCEPT ![r] = t]
        PROVE  TypeInv'
    BY <1>9, <2>2 DEF Select, GotoH
  <2> QED
    BY <1>0, <1>9, <2>1, <2>2 DEF Select
<1>10. ASSUME NEW r \in Requests, CapCheck(r)
      PROVE  TypeInv'
  BY <1>10 DEF CapCheck, GotoH
<1>11. ASSUME NEW r \in Requests, First(r)
      PROVE  TypeInv'
  BY <1>11, SMTT(30) DEF First, GotoH
<1>12. ASSUME NEW r \in Requests, Create(r)
      PROVE  TypeInv'
  <2>1. MarkUsed(GiveAPort) \subseteq Ports
    BY GiveAPortGives DEF Failing
  <2> QED
    BY <1>12, <2>1, GiveAPortGives DEF Create, GotoH
<1>13. ASSUME NEW r \in Requests, AddProxy(r)
      PROVE  TypeInv'
  <2>1. sel[r] \in Requests /\ Tunnels' = Append(Tunnels, sel[r])
    BY <1>13 DEF AddProxy, GotoH
  <2>2. Tunnels' \in Seq(Requests)
    BY <2>1, Added
  <2> QED
    <3>1. CASE GotoH(r, "add", "ison")
      BY <1>13, <2>1, <2>2, <3>1 DEF AddProxy, GotoH
    <3>2. CASE GotoH(r, "addErr", "start")
      BY <1>13, <2>1, <2>2, <3>2 DEF AddProxy, GotoH
    <3> QED
      BY <1>13, <3>1, <3>2 DEF AddProxy
<1>14. ASSUME NEW r \in Requests, IsOn(r)
      PROVE  TypeInv'
  BY <1>14 DEF IsOn, GotoH
<1>15. ASSUME NEW r \in Requests, Start(r)
      PROVE  TypeInv'
  BY <1>15 DEF Start, GotoH
<1>16. ASSUME NEW r \in Requests, Bind(r)
      PROVE  TypeInv'
  BY <1>16 DEF Bind, GotoS
<1>17. ASSUME NEW r \in Requests, Publish(r)
      PROVE  TypeInv'
  BY <1>17 DEF Publish, GotoS
<1>18. ASSUME NEW r \in Requests, AcceptError(r)
      PROVE  TypeInv'
  BY <1>18 DEF AcceptError, GotoS
<1>19. ASSUME NEW r \in Requests, Shut(r)
      PROVE  TypeInv'
  BY <1>19 DEF Shut, GotoS
<1>20. ASSUME NEW r \in Requests, ServerOff(r)
      PROVE  TypeInv'
  BY <1>20 DEF ServerOff, GotoS, ClosePortUFW
<1>21. ASSUME NEW r \in Requests, ServerRelease(r)
      PROVE  TypeInv'
  BY <1>21, ZenonT(30) DEF ServerRelease, GotoS, ReleasePort, BeginDelete
<1>22. ASSUME NEW r \in Requests, Connect(r)
      PROVE  TypeInv'
  BY <1>22 DEF Connect
<1>23. ASSUME NEW r \in Requests, Disconnect(r)
      PROVE  TypeInv'
  BY <1>23 DEF Disconnect
<1>24. ASSUME NEW a \in Actors, Unlist(a)
      PROVE  TypeInv'
  <2>1. Tunnels' \in Seq(Requests)
    BY <1>24, Taken DEF Unlist
  <2> QED
    BY <1>24, <2>1 DEF Unlist, GotoD
<1>25. ASSUME NEW a \in Actors, Flag(a)
      PROVE  TypeInv'
  BY <1>25 DEF Flag, GotoD
<1>26. ASSUME NEW a \in Actors, CloseListener(a)
      PROVE  TypeInv'
  BY <1>26 DEF CloseListener, GotoD
<1>27. ASSUME NEW a \in Actors, CloseUFW(a)
      PROVE  TypeInv'
  BY <1>27 DEF CloseUFW, GotoD, ClosePortUFW
<1>28. ASSUME NEW a \in Actors, FreePort(a)
      PROVE  TypeInv'
  BY <1>28 DEF FreePort, GotoD, ReleasePort
<1>29. CASE Collect
  <2>1. todo' \in [Actors -> SUBSET Requests]
    BY <1>0, <1>29 DEF Collect, BeginDelete
  <2> QED
    BY <1>29, <2>1 DEF Collect
<1>30. CASE UNCHANGED vars
  BY <1>30 DEF vars
<1> QED
  BY <1>1, <1>2, <1>3, <1>4, <1>5, <1>6, <1>7, <1>8, <1>9, <1>10, <1>11, <1>12, <1>13, <1>14, <1>15, <1>16, <1>17, <1>18, <1>19, <1>20, <1>21, <1>22, <1>23, <1>24, <1>25, <1>26, <1>27, <1>28, <1>29, <1>30
     DEF Next, Arrive, HandlerStep, ServerStep, AcceptEnds, DeleteStep

\* Every field keeps to its values: a request that starts a server has a
\* tunnel, a deletion has a victim, and the ports that are marked or open are
\* ports of the range, whichever are taken.
THEOREM TypeCorrect == Spec => []TypeOK
<1>1. TypeInv => TypeOK
  BY DEF TypeInv
<1> QED
  BY TypeInit, TypeStep, <1>1, PTL DEF Spec

-----------------------------------------------------------------------------
(* The list.                                                               *)

ListInv == Unseen /\ ListedOnce

\* A step that leaves the list and the references to tunnels alone, and takes
\* no request back to a time before its tunnel was built.
LEMMA ListKept ==
    ASSUME ListInv, UNCHANGED <<Tunnels, sel, todo, victim>>,
           \A t \in Requests : Fresh(t)' => Fresh(t),
           \A t \in Requests : pc'[t] \in {"add", "addErr", "given"}
                                   => pc[t] \in {"add", "addErr", "given"}
    PROVE  ListInv'
<1>1. Listed' = Listed
  BY DEF Listed
<1>2. Unseen'
  BY <1>1 DEF ListInv, Unseen
<1>3. ListedOnce'
  BY <1>1 DEF ListInv, ListedOnce
<1> QED
  BY <1>2, <1>3 DEF ListInv

\* A step that only sends an actor to delete tunnels that are built.
LEMMA TodoKept ==
    ASSUME TypeInv, ListInv, UNCHANGED <<Tunnels, sel, victim>>,
           NEW b \in Actors, NEW T, \A t \in T : t \in Requests => ~Fresh(t),
           todo' = [todo EXCEPT ![b] = T],
           \A t \in Requests : Fresh(t)' => Fresh(t),
           \A t \in Requests : pc'[t] \in {"add", "addErr", "given"}
                                   => pc[t] \in {"add", "addErr", "given"}
    PROVE  ListInv'
<1>1. Listed' = Listed
  BY DEF Listed
<1>2. \A a \in Actors : todo'[a] = IF a = b THEN T ELSE todo[a]
  BY DEF TypeInv, TypeOK
<1>3. Unseen'
  BY <1>1, <1>2 DEF ListInv, Unseen
<1>4. ListedOnce'
  BY <1>1 DEF ListInv, ListedOnce
<1> QED
  BY <1>3, <1>4 DEF ListInv

LEMMA ListInit == Init => ListInv
  BY DEF Init, ListInv, Unseen, ListedOnce, Fresh, Listed

LEMMA ListStep == TypeInv /\ ListInv /\ [Next]_vars => ListInv'
<1> SUFFICES ASSUME TypeInv, ListInv, [Next]_vars
             PROVE  ListInv'
  OBVIOUS
<1> USE DEF config, lifecycle, handlers, servers, deletes
<1>1. /\ pc \in [Requests -> {"new", "select", "capcheck", "first", "report",
                 "create", "createErr", "createOnly", "add", "addErr", "ison",
                 "start", "deleting", "given", "done"}]
      /\ sel \in [Requests -> Requests \cup {None}]
      /\ victim \in [Actors -> Requests \cup {None}]
      /\ todo \in [Actors -> SUBSET Requests]
      /\ Tunnels \in Seq(Requests)
  BY DEF TypeInv, TypeOK
<1>2. Listed \subseteq Requests /\ \A t \in Listed : ~Fresh(t)
  BY <1>1 DEF Listed, ListInv, Unseen
<1>3. Reaper \in Actors /\ \A r \in Requests : Handler(r) \in Actors /\ Server(r) \in Actors
  BY DEF Actors
<1>4. ASSUME NEW r \in Requests,
             \/ ArriveGet(r) \/ ArriveGetType(r) \/ ArriveNew(r) \/ Decline(r)
             \/ Report(r) \/ Deleted(r) \/ CapCheck(r) \/ IsOn(r) \/ Start(r)
      PROVE  ListInv'
  BY <1>1, <1>4, ListKept
     DEF ArriveGet, ArriveGetType, ArriveNew, Decline, Report, Deleted,
         CapCheck, IsOn, Start, GotoH, Fresh
<1>5. ASSUME NEW r \in Requests,
             \/ Bind(r) \/ Publish(r) \/ AcceptError(r) \/ Shut(r)
             \/ ServerOff(r) \/ Connect(r) \/ Disconnect(r)
      PROVE  ListInv'
  BY <1>5, ListKept
     DEF Bind, Publish, AcceptError, Shut, ServerOff, Connect, Disconnect, Fresh
<1>6. ASSUME NEW a \in Actors,
             Flag(a) \/ CloseListener(a) \/ CloseUFW(a) \/ FreePort(a)
      PROVE  ListInv'
  BY <1>6, ListKept DEF Flag, CloseListener, CloseUFW, FreePort, Fresh
<1>7. CASE UNCHANGED vars
  BY <1>7, ListKept DEF vars, Fresh
<1>8. ASSUME NEW r \in Requests, ArriveErr(r) \/ ArriveDelete(r)
      PROVE  ListInv'
  <2>1. /\ \A t \in Requests : Fresh(t)' => Fresh(t)
        /\ \A t \in Requests : pc'[t] \in {"add", "addErr", "given"}
                                   => pc[t] \in {"add", "addErr", "given"}
        /\ UNCHANGED <<Tunnels, sel, victim>>
    BY <1>1, <1>8 DEF ArriveErr, ArriveDelete, GotoH, Fresh
  <2>2. \A T \in Named : \A t \in T : ~Fresh(t)
    BY <1>2 DEF Named
  <2>3. PICK T : /\ T \in Named \/ T = Listed
                 /\ todo' = [todo EXCEPT ![Handler(r)] = T]
    BY <1>8 DEF ArriveErr, ArriveDelete, BeginDelete
  <2>4. \A t \in T : ~Fresh(t)
    BY <1>2, <2>2, <2>3
  <2> QED
    BY <1>3, <2>1, <2>3, <2>4, TodoKept
<1>9. ASSUME NEW r \in Requests, ServerRelease(r)
      PROVE  ListInv'
  <2>1. /\ UNCHANGED <<Tunnels, sel, victim, pc>>
        /\ todo' = [todo EXCEPT ![Server(r)] = {sel[r]}]
    BY <1>9 DEF ServerRelease, BeginDelete
  <2>2. \A t \in {sel[r]} : t \in Requests => ~Fresh(t)
    BY DEF ListInv, Unseen
  <2> QED
    BY <1>3, <2>1, <2>2, TodoKept DEF Fresh
<1>10. CASE Collect
  <2>1. UNCHANGED <<Tunnels, sel, victim, pc>>
    BY <1>10 DEF Collect
  <2>2. PICK T \in SUBSET Listed : todo' = [todo EXCEPT ![Reaper] = T]
    BY <1>10 DEF Collect, BeginDelete
  <2> QED
    BY <1>2, <1>3, <2>1, <2>2, TodoKept DEF Fresh
<1>11. ASSUME NEW r \in Requests, Select(r) \/ First(r)
      PROVE  ListInv'
  <2>1. /\ UNCHANGED <<Tunnels, todo, victim>>
        /\ \A t \in Requests : Fresh(t)' => Fresh(t)
        /\ \A t \in Requests : pc'[t] \in {"add", "addErr", "given"}
                                   => pc[t] \in {"add", "addErr", "given"}
    BY <1>1, <1>11 DEF Select, First, GotoH, Fresh
  <2>2. Tunnels # <<>> => Head(Tunnels) \in Listed
    BY <1>1 DEF Listed
  <2>3. \/ UNCHANGED sel
        \/ \E t \in Listed : sel' = [sel EXCEPT ![r] = t]
    BY <1>11, <2>2 DEF Select, First
  <2>4. CASE UNCHANGED sel
    BY <2>1, <2>4, ListKept
  <2>5. ASSUME NEW t \in Listed, sel' = [sel EXCEPT ![r] = t]
        PROVE  ListInv'
    <3>1. Listed' = Listed
      BY <2>1 DEF Listed
    <3>2. \A x \in Requests : sel'[x] = IF x = r THEN t ELSE sel[x]
      BY <1>1, <2>5
    <3>3. Unseen'
      BY <1>2, <2>1, <3>1, <3>2 DEF ListInv, Unseen
    <3>4. ListedOnce'
      BY <2>1, <3>1 DEF ListInv, ListedOnce
    <3> QED
      BY <3>3, <3>4 DEF ListInv
  <2> QED
    BY <2>3, <2>4, <2>5
<1>12. ASSUME NEW r \in Requests, Create(r)
      PROVE  ListInv'
  <2>1. /\ UNCHANGED <<Tunnels, todo, victim>>
        /\ \A t \in Requests : Fresh(t)' => Fresh(t) /\ t # r
        /\ \A t \in Requests : pc'[t] \in {"add", "addErr", "given"} =>
              t = r \/ pc[t] \in {"add", "addErr", "given"}
        /\ \A x \in Requests : sel'[x] = IF x = r THEN r ELSE sel[x]
        /\ Fresh(r)
    BY <1>1, <1>12 DEF Create, GotoH, Fresh
  <2>2. Listed' = Listed
    BY <2>1 DEF Listed
  <2>3. Unseen'
    BY <2>1, <2>2 DEF ListInv, Unseen
  <2>4. ListedOnce'
    BY <2>1, <2>2 DEF ListInv, ListedOnce, Unseen
  <2> QED
    BY <2>3, <2>4 DEF ListInv
<1>13. ASSUME NEW r \in Requests, AddProxy(r)
      PROVE  ListInv'
  <2>1. /\ UNCHANGED <<sel, todo, victim>>
        /\ \A t \in Requests : Fresh(t)' => Fresh(t) /\ t # r
        /\ \A t \in Requests : pc'[t] \in {"add", "addErr", "given"} =>
              t # r /\ pc[t] \in {"add", "addErr", "given"}
        /\ pc[r] \in {"add", "addErr"}
        /\ sel[r] = r
        /\ Tunnels' = Append(Tunnels, r)
    BY <1>1, <1>13 DEF AddProxy, GotoH, Fresh, TypeInv, Steady
  <2>2. /\ Listed' = Listed \cup {r}
        /\ DOMAIN Tunnels' = 1..(Len(Tunnels) + 1)
        /\ DOMAIN Tunnels = 1..Len(Tunnels)
        /\ \A i \in DOMAIN Tunnels : Tunnels'[i] = Tunnels[i]
        /\ Tunnels'[Len(Tunnels) + 1] = r
    BY <1>1, <2>1, Added
  <2>3. Unseen'
    BY <2>1, <2>2 DEF ListInv, Unseen
  <2>4. r \notin Listed
    BY <2>1 DEF ListInv, ListedOnce
  <2>5. ASSUME NEW i \in DOMAIN Tunnels', NEW j \in DOMAIN Tunnels',
               Tunnels'[i] = Tunnels'[j]
        PROVE  i = j
    <3>1. Len(Tunnels) \in Nat
      BY <1>1
    <3>2. \A k \in DOMAIN Tunnels : Tunnels[k] # r
      BY <2>4 DEF Listed
    <3> QED
      BY <2>2, <2>5, <3>1, <3>2 DEF ListInv, ListedOnce
  <2>6. ListedOnce'
    BY <2>1, <2>2, <2>5 DEF ListInv, ListedOnce
  <2> QED
    BY <2>3, <2>6 DEF ListInv
<1>14. ASSUME NEW a \in Actors, Unlist(a)
      PROVE  ListInv'
  <2>1. PICK t \in todo[a] :
          /\ todo' = [todo EXCEPT ![a] = @ \ {t}]
          /\ victim' = [victim EXCEPT ![a] = t]
          /\ \/ UNCHANGED Tunnels
             \/ \E i \in DOMAIN Tunnels : Tunnels' = RemoveAt(Tunnels, i)
    BY <1>14 DEF Unlist
  <2>2. t \in Requests /\ ~Fresh(t) /\ UNCHANGED <<pc, sel>>
    BY <1>1, <1>14 DEF ListInv, Unseen, Unlist
  <2>3. /\ \A b \in Actors : todo'[b] \subseteq todo[b]
        /\ \A b \in Actors : victim'[b] \in {t, victim[b]}
    BY <1>1, <2>1
  <2>4. Listed' \subseteq Listed
    BY <1>1, <2>1, Taken DEF Listed
  <2>5. Unseen'
    BY <2>2, <2>3, <2>4 DEF ListInv, Unseen, Fresh
  <2>6. ASSUME NEW i \in DOMAIN Tunnels, Tunnels' = RemoveAt(Tunnels, i),
               NEW j \in DOMAIN Tunnels', NEW k \in DOMAIN Tunnels',
               Tunnels'[j] = Tunnels'[k]
        PROVE  j = k
    <3>1. /\ DOMAIN Tunnels' = 1..(Len(Tunnels) - 1)
          /\ DOMAIN Tunnels = 1..Len(Tunnels)
          /\ \A l \in DOMAIN Tunnels' :
                Tunnels'[l] = IF l < i THEN Tunnels[l] ELSE Tunnels[l + 1]
          /\ Len(Tunnels) \in Nat
      BY <1>1, <2>6, Taken
    <3>2. /\ j \in DOMAIN Tunnels /\ j + 1 \in DOMAIN Tunnels
          /\ k \in DOMAIN Tunnels /\ k + 1 \in DOMAIN Tunnels
      BY <3>1
    <3> QED
      BY <2>6, <3>1, <3>2 DEF ListInv, ListedOnce
  <2>7. ListedOnce'
    BY <2>1, <2>2, <2>4, <2>6 DEF ListInv, ListedOnce
  <2> QED
    BY <2>5, <2>7 DEF ListInv
<1> QED
  BY <1>4, <1>5, <1>6, <1>7, <1>8, <1>9, <1>10, <1>11, <1>12, <1>13, <1>14
     DEF Next, Arrive, HandlerStep, ServerStep, AcceptEnds, DeleteStep

\* DelProxy takes out every tunnel with the id it is given; there is never
\* more than one, and never one that its request has not finished building.
THEOREM TunnelsListedOnce == Spec => []ListedOnce
<1>1. ListInv => ListedOnce
  BY DEF ListInv
<1> QED
  BY TypeInit, TypeStep, ListInit, ListStep, <1>1, PTL DEF Spec

-----------------------------------------------------------------------------
(* Closing a listener.                                                     *)

CloseInv == SocketInv /\ NoMissedClose

\* A step that leaves servers, listeners and closing deletions alone.
LEMMA SocketsKept ==
    ASSUME CloseInv, UNCHANGED <<spc, bound, listener, grabbed, zero>>,
           \A r \in Requests : spc[r] # "none" =>
              sel'[r] = sel[r] /\ type'[sel[r]] = type[sel[r]],
           \A a \in Actors : dpc[a] = "close" => dpc'[a] = "close"
    PROVE  CloseInv'
<1>1. \A r \in Requests :
        bound[r] => sel'[r] = sel[r] /\ type'[sel[r]] = type[sel[r]]
  BY DEF CloseInv, SocketInv
<1>2. \A r \in Requests : IsServing(r)' <=> IsServing(r)
  BY DEF IsServing
<1>3. SocketInv'
  BY <1>1, <1>2 DEF CloseInv, SocketInv, IsServing
<1>4. NoMissedClose'
  BY <1>1, <1>2 DEF CloseInv, NoMissedClose, IsServing
<1> QED
  BY <1>3, <1>4 DEF CloseInv

\* A step of server r that closes its socket or leaves it as it is.
LEMMA ServerEnds ==
    ASSUME TypeInv, CloseInv, NEW r \in Requests, NEW to,
           spc[r] \notin {"none", "bind"},
           to \notin {"none", "bind", "publish", "serve"},
           spc' = [spc EXCEPT ![r] = to],
           bound[r] => bound' = [bound EXCEPT ![r] = FALSE] \/ to = "shut",
           bound' = bound \/ bound' = [bound EXCEPT ![r] = FALSE],
           spc[r] # "publish",
           UNCHANGED <<listener, grabbed, zero, sel, type, dpc>>
    PROVE  CloseInv'
<1>1. \A x \in Requests : /\ spc'[x] = IF x = r THEN to ELSE spc[x]
                          /\ bound'[x] => bound[x]
                          /\ x # r => bound'[x] = bound[x]
                          /\ x = r /\ bound'[r] => to = "shut"
  BY DEF TypeInv, TypeOK
<1>2. \A x \in Requests : IsServing(x)' => IsServing(x)
  BY <1>1 DEF IsServing
<1>3. SocketInv'
  BY <1>1, <1>2 DEF CloseInv, SocketInv
<1>4. NoMissedClose'
  BY <1>1, <1>2 DEF CloseInv, NoMissedClose
<1> QED
  BY <1>3, <1>4 DEF CloseInv

LEMMA CloseInit == Init => CloseInv
  BY RequestsAssumption
     DEF Init, CloseInv, SocketInv, NoMissedClose, IsServing

LEMMA CloseStep == TypeInv /\ ListInv /\ CloseInv /\ [Next]_vars => CloseInv'
<1> SUFFICES ASSUME TypeInv, ListInv, CloseInv, [Next]_vars
             PROVE  CloseInv'
  OBVIOUS
<1> USE DEF config, lifecycle, handlers, servers, deletes
<1>1. /\ sel \in [Requests -> Requests \cup {None}]
      /\ type \in [Requests -> {"none", "tls", "ss", "quic", "kcp"}]
      /\ spc \in [Requests -> {"none", "bind", "publish", "serve", "shut",
                               "off", "release", "exit"}]
      /\ bound \in [Requests -> BOOLEAN]
      /\ zero \in [Requests -> BOOLEAN]
      /\ listener \in [Requests -> Requests \cup {None}]
      /\ dpc \in [Actors -> {"idle", "flag", "close", "ufw", "free"}]
      /\ grabbed \in [Actors -> Requests \cup {None}]
      /\ None \notin Requests
  BY RequestsAssumption DEF TypeInv, TypeOK
<1>2. \A r \in Requests :
        spc[r] # "none" => pc[r] = "done" /\ sel[r] \in Requests
  BY DEF TypeInv, Steady
<1>3. ASSUME NEW r \in Requests,
             \/ ArriveGet(r) \/ ArriveGetType(r) \/ ArriveErr(r)
             \/ ArriveNew(r) \/ ArriveDelete(r) \/ Decline(r) \/ Report(r)
             \/ Deleted(r) \/ CapCheck(r) \/ AddProxy(r) \/ IsOn(r)
             \/ Connect(r) \/ Disconnect(r)
      PROVE  CloseInv'
  BY <1>3, SocketsKept
     DEF ArriveGet, ArriveGetType, ArriveErr, ArriveNew, ArriveDelete,
         Decline, Report, Deleted, CapCheck, AddProxy, IsOn, Connect,
         Disconnect
<1>4. ASSUME NEW r \in Requests, Select(r) \/ First(r) \/ Create(r)
      PROVE  CloseInv'
  <2>1. /\ UNCHANGED <<spc, bound, listener, grabbed, zero, dpc>>
        /\ pc[r] # "done" /\ Fresh(r)
        /\ \A x \in Requests : x # r =>
              sel'[x] = sel[x] /\ type'[x] = type[x]
    BY <1>1, <1>4 DEF Select, First, Create, GotoH, Fresh
  <2>2. \A x \in Requests : sel[x] # r
    BY <2>1 DEF ListInv, Unseen
  <2>3. \A x \in Requests : spc[x] # "none" =>
           sel'[x] = sel[x] /\ type'[sel[x]] = type[sel[x]]
    BY <1>2, <2>1, <2>2
  <2> QED
    BY <2>1, <2>3, SocketsKept
<1>5. ASSUME NEW r \in Requests, Start(r)
      PROVE  CloseInv'
  <2>1. /\ UNCHANGED <<sel, type, bound, listener, grabbed, zero, dpc>>
        /\ spc[r] = "none"
        /\ \A x \in Requests : spc'[x] = IF x = r THEN "bind" ELSE spc[x]
    BY <1>1, <1>2, <1>5 DEF Start, GotoH
  <2>2. SocketInv'
    BY <2>1 DEF CloseInv, SocketInv, IsServing
  <2>3. NoMissedClose'
    BY <2>1 DEF CloseInv, NoMissedClose, IsServing
  <2> QED
    BY <2>2, <2>3 DEF CloseInv
<1>6. ASSUME NEW r \in Requests, Bind(r)
      PROVE  CloseInv'
  <2>1. /\ UNCHANGED <<sel, type, port, listener, grabbed, zero, dpc>>
        /\ spc[r] = "bind" /\ ~bound[r]
        /\ \A x \in Requests : x # r => spc'[x] = spc[x] /\ bound'[x] = bound[x]
        /\ bound'[r] => /\ spc'[r] = "publish"
                        /\ ~IsBound(Transport(type[sel[r]]), port[sel[r]])
        /\ ~bound'[r] => spc'[r] = "off"
    BY <1>1, <1>6 DEF Bind, GotoS, CloseInv, SocketInv
  <2>2. \A x \in Requests : bound'[r] /\ bound[x] => sel[x] # sel[r]
    BY <2>1 DEF IsBound
  <2>3. \A x \in Requests : IsServing(x)' <=> IsServing(x)
    BY <2>1 DEF IsServing
  <2>4. SocketInv'
    BY <2>1, <2>2, <2>3 DEF CloseInv, SocketInv
  <2>5. NoMissedClose'
    BY <2>1, <2>3 DEF CloseInv, NoMissedClose
  <2> QED
    BY <2>4, <2>5 DEF CloseInv
<1>7. ASSUME NEW r \in Requests, Publish(r)
      PROVE  CloseInv'
  <2>1. /\ UNCHANGED <<sel, type, bound, grabbed, zero, dpc>>
        /\ spc[r] = "publish" /\ bound[r] /\ sel[r] \in Requests
        /\ \A x \in Requests : x # r => spc'[x] = spc[x]
        /\ spc'[r] \in {"serve", "shut"}
        /\ spc'[r] = "serve" => ~zero[sel[r]] \/ type[sel[r]] = "ss"
    BY <1>1, <1>2, <1>7 DEF Publish, GotoS, CloseInv, SocketInv
  <2>2. /\ \A t \in Requests : listener'[t] \in {listener[t], r}
        /\ \A t \in Requests : t # sel[r] => listener'[t] = listener[t]
        /\ type[sel[r]] # "ss" => listener'[sel[r]] = r
    BY <1>1, <1>7, <2>1 DEF Publish
  <2>3. /\ \A x \in Requests : bound[x] /\ sel[x] = sel[r] => x = r
        /\ \A x \in Requests : x # r => (IsServing(x)' <=> IsServing(x))
    BY <2>1 DEF CloseInv, SocketInv, IsServing
  <2>4. \A x \in Requests : IsServing(x)' /\ type[sel[x]] # "ss"
                               => listener'[sel[x]] = x
    <3> TAKE x \in Requests
    <3>1. CASE x = r
      BY <2>2, <3>1
    <3>2. CASE x # r
      <4> SUFFICES ASSUME IsServing(x), type[sel[x]] # "ss"
                   PROVE  listener'[sel[x]] = x
        BY <2>3, <3>2
      <4>1. bound[x] /\ spc[x] = "serve" /\ listener[sel[x]] = x
        BY DEF CloseInv, SocketInv, IsServing
      <4>2. sel[x] \in Requests /\ sel[x] # sel[r]
        BY <1>2, <2>3, <3>2, <4>1
      <4> QED
        BY <2>2, <4>1, <4>2
    <3> QED
      BY <3>1, <3>2
  <2>5. SocketInv'
    BY <2>1, <2>2, <2>4 DEF CloseInv, SocketInv
  <2>6. NoMissedClose'
    BY <2>1, <2>3 DEF CloseInv, NoMissedClose, IsServing
  <2> QED
    BY <2>5, <2>6 DEF CloseInv
<1>8. ASSUME NEW r \in Requests, AcceptError(r)
      PROVE  CloseInv'
  <2>1. /\ UNCHANGED <<sel, type, bound, listener, grabbed, zero, dpc>>
        /\ spc[r] = "serve" /\ spc' = [spc EXCEPT ![r] = "shut"]
    BY <1>8 DEF AcceptError, GotoS
  <2> QED
    BY <2>1, ServerEnds
<1>9. ASSUME NEW r \in Requests, Shut(r)
      PROVE  CloseInv'
  <2>1. /\ UNCHANGED <<sel, type, listener, grabbed, zero, dpc>>
        /\ spc[r] = "shut" /\ spc' = [spc EXCEPT ![r] = "off"]
        /\ bound' = [bound EXCEPT ![r] = FALSE]
    BY <1>9 DEF Shut, GotoS
  <2> QED
    BY <2>1, ServerEnds
<1>10. ASSUME NEW r \in Requests, NEW from \in {"off", "release"},
              NEW to \in {"release", "exit"}, GotoS(r, from, to),
              UNCHANGED <<sel, type, bound, listener, grabbed, zero, dpc>>
       PROVE  CloseInv'
  <2>1. ~bound[r] /\ spc' = [spc EXCEPT ![r] = to] /\ spc[r] = from
    BY <1>10 DEF GotoS, CloseInv, SocketInv
  <2> QED
    BY <1>10, <2>1, ServerEnds
<1>11. ASSUME NEW r \in Requests, ServerOff(r) \/ ServerRelease(r)
       PROVE  CloseInv'
  BY <1>10, <1>11 DEF ServerOff, ServerRelease
<1>12. ASSUME NEW a \in Actors, Unlist(a) \/ CloseUFW(a) \/ FreePort(a)
       PROVE  CloseInv'
  BY <1>1, <1>12, SocketsKept DEF Unlist, CloseUFW, FreePort, GotoD
<1>13. ASSUME NEW a \in Actors, Flag(a)
       PROVE  CloseInv'
  <2>1. /\ UNCHANGED <<sel, type, bound, listener, spc>>
        /\ dpc[a] = "flag" /\ dpc'[a] = "close"
        /\ victim[a] \in Requests
        /\ \A b \in Actors : b # a => dpc'[b] = dpc[b] /\ grabbed'[b] = grabbed[b]
        /\ grabbed'[a] = listener[victim[a]]
        /\ \A t \in Requests : t # victim[a] => zero'[t] = zero[t]
    BY <1>1, <1>13 DEF Flag, GotoD, TypeInv, Steady
  <2>2. SocketInv'
    BY <2>1 DEF CloseInv, SocketInv, IsServing
  <2>3. ASSUME NEW r \in Requests, IsServing(r), zero'[sel[r]],
               type[sel[r]] # "ss"
        PROVE  \E b \in Actors : dpc'[b] = "close" /\ grabbed'[b] = r
    <3>1. sel[r] \in Requests /\ listener[sel[r]] = r
      BY <1>2, <2>3 DEF CloseInv, SocketInv, IsServing
    <3>2. CASE sel[r] = victim[a]
      BY <2>1, <3>1, <3>2
    <3>3. CASE sel[r] # victim[a]
      BY <2>1, <2>3, <3>1, <3>3 DEF CloseInv, NoMissedClose
    <3> QED
      BY <3>2, <3>3
  <2>4. NoMissedClose'
    BY <2>1, <2>3 DEF NoMissedClose, IsServing
  <2> QED
    BY <2>2, <2>4 DEF CloseInv
<1>14. ASSUME NEW a \in Actors, CloseListener(a)
       PROVE  CloseInv'
  <2>1. /\ UNCHANGED <<sel, type, listener, spc, grabbed, zero>>
        /\ dpc[a] = "close"
        /\ \A b \in Actors : b # a => dpc'[b] = dpc[b]
        /\ \A r \in Requests : bound'[r] <=> bound[r] /\ r # grabbed[a]
    BY <1>1, <1>14 DEF CloseListener, GotoD
  <2>2. \A r \in Requests : spc[r] = "publish" => r # grabbed[a]
    BY DEF CloseInv, SocketInv
  <2>3. SocketInv'
    BY <2>1, <2>2 DEF CloseInv, SocketInv, IsServing
  <2>4. NoMissedClose'
    BY <2>1 DEF CloseInv, NoMissedClose, IsServing
  <2> QED
    BY <2>3, <2>4 DEF CloseInv
<1>15. CASE Collect \/ UNCHANGED vars
  BY <1>15, SocketsKept DEF Collect, vars
<1> QED
  BY <1>3, <1>4, <1>5, <1>6, <1>7, <1>8, <1>9, <1>11, <1>12, <1>13, <1>14,
     <1>15
     DEF Next, Arrive, HandlerStep, ServerStep, AcceptEnds, DeleteStep

\* The race of AcceptHandle and TryClose, for any number of tunnels, starts
\* and deletions: a server of a deleted tunnel that is in its accept loop has
\* a deletion that holds its listener and closes it next.
THEOREM CloseIsNotMissed == Spec => []NoMissedClose
<1>1. CloseInv => NoMissedClose
  BY DEF CloseInv
<1> QED
  BY TypeInit, TypeStep, ListInit, ListStep, CloseInit, CloseStep, <1>1, PTL
     DEF Spec

-----------------------------------------------------------------------------
(* Ports and firewall rules.                                               *)

\* A step that leaves everybody at least where he answers for what he did
\* answer for.
LEMMA OwnersKept ==
    ASSUME UNCHANGED Tunnels,
           \A t \in Requests : pc[t] \in {"add", "addErr", "given"}
                                   => pc'[t] \in {"add", "addErr", "given"},
           \A a \in Actors :
              /\ dpc[a] # "idle" => dpc'[a] # "idle" /\ victim'[a] = victim[a]
              /\ dpc[a] \in {"flag", "close", "ufw"}
                    => dpc'[a] \in {"flag", "close", "ufw"},
           \A r \in Requests :
              /\ spc[r] # "none" => sel'[r] = sel[r]
              /\ spc[r] \notin {"none", "exit"} => spc'[r] \notin {"none", "exit"}
              /\ spc[r] \in {"bind", "publish", "serve", "shut", "off"}
                    => spc'[r] \in {"bind", "publish", "serve", "shut", "off"}
    PROVE  \A t \in Requests : /\ HasOwner(t) => HasOwner(t)'
                               /\ OwnsRule(t) => OwnsRule(t)'
<1>1. Listed' = Listed
  BY DEF Listed
<1> TAKE t \in Requests
<1>2. HasOwner(t) => HasOwner(t)'
  BY <1>1 DEF HasOwner
<1>3. OwnsRule(t) => OwnsRule(t)'
  BY <1>1 DEF OwnsRule
<1> QED
  BY <1>2, <1>3

\* Then ports are answered for if none is taken.
LEMMA PortsKept ==
    ASSUME PortInv, UNCHANGED port, used' \subseteq used, allowed' \subseteq allowed,
           \A t \in Requests : /\ HasOwner(t) /\ port[t] \in used' => HasOwner(t)'
                               /\ OwnsRule(t) /\ port[t] \in allowed' => OwnsRule(t)'
    PROVE  PortInv'
<1>1. ASSUME NEW p \in used'
      PROVE  \E t \in Requests : port'[t] = p /\ HasOwner(t)'
  BY <1>1 DEF PortInv
<1>2. ASSUME NEW p \in allowed'
      PROVE  \E t \in Requests : port'[t] = p /\ OwnsRule(t)'
  BY <1>2 DEF PortInv
<1> QED
  BY <1>1, <1>2 DEF PortInv

LEMMA PortInit == Init => PortInv
  BY DEF Init, PortInv

LEMMA PortStep ==
    TypeInv /\ ListInv /\ CloseInv /\ PortInv /\ [Next]_vars => PortInv'
<1> SUFFICES ASSUME TypeInv, ListInv, CloseInv, PortInv, [Next]_vars
             PROVE  PortInv'
  OBVIOUS
<1> USE DEF config, lifecycle, handlers, servers, deletes
<1>1. /\ Tunnels \in Seq(Requests)
      /\ pc \in [Requests -> {"new", "select", "capcheck", "first", "report",
                 "create", "createErr", "createOnly", "add", "addErr", "ison",
                 "start", "deleting", "given", "done"}]
      /\ port \in [Requests -> Ports \cup {None}]
      /\ sel \in [Requests -> Requests \cup {None}]
      /\ spc \in [Requests -> {"none", "bind", "publish", "serve", "shut",
                               "off", "release", "exit"}]
      /\ dpc \in [Actors -> {"idle", "flag", "close", "ufw", "free"}]
      /\ victim \in [Actors -> Requests \cup {None}]
  BY DEF TypeInv, TypeOK
<1>2. \A r \in Requests :
        spc[r] # "none" => pc[r] = "done" /\ sel[r] \in Requests
  BY DEF TypeInv, Steady
<1>3. ASSUME NEW r \in Requests,
             \/ ArriveGet(r) \/ ArriveGetType(r) \/ ArriveErr(r)
             \/ ArriveNew(r) \/ ArriveDelete(r) \/ Decline(r) \/ Report(r)
             \/ Deleted(r) \/ Select(r) \/ CapCheck(r) \/ First(r)
             \/ IsOn(r) \/ Connect(r) \/ Disconnect(r)
      PROVE  PortInv'
  <2>1. UNCHANGED <<port, used, allowed, Tunnels, spc, dpc, victim>>
    BY <1>3
       DEF ArriveGet, ArriveGetType, ArriveErr, ArriveNew, ArriveDelete,
           Decline, Report, Deleted, Select, CapCheck, First, IsOn, Connect,
           Disconnect
  <2>2. \A t \in Requests : pc[t] \in {"add", "addErr", "given"}
                                => pc'[t] \in {"add", "addErr", "given"}
    BY <1>1, <1>3
       DEF ArriveGet, ArriveGetType, ArriveErr, ArriveNew, ArriveDelete,
           Decline, Report, Deleted, Select, CapCheck, First, IsOn, Connect,
           Disconnect, GotoH
  <2>3. \A x \in Requests : spc[x] # "none" => sel'[x] = sel[x]
    BY <1>1, <1>2, <1>3
       DEF ArriveGet, ArriveGetType, ArriveErr, ArriveNew, ArriveDelete,
           Decline, Report, Deleted, Select, CapCheck, First, IsOn, Connect,
           Disconnect, GotoH
  <2> QED
    BY <2>1, <2>2, <2>3, OwnersKept, PortsKept
<1>4. ASSUME NEW r \in Requests,
             \/ Start(r) \/ Bind(r) \/ Publish(r) \/ AcceptError(r) \/ Shut(r)
      PROVE  PortInv'
  <2>1. UNCHANGED <<port, used, allowed, Tunnels, sel, dpc, victim>>
    BY <1>4 DEF Start, Bind, Publish, AcceptError, Shut
  <2>2. \A t \in Requests : pc[t] \in {"add", "addErr", "given"}
                                => pc'[t] \in {"add", "addErr", "given"}
    BY <1>1, <1>4 DEF Start, Bind, Publish, AcceptError, Shut, GotoH
  <2>3. \A x \in Requests : spc[x] \notin {"none", "exit"} =>
           /\ spc'[x] \notin {"none", "exit"}
           /\ spc[x] \in {"bind", "publish", "serve", "shut", "off"}
                 => spc'[x] \in {"bind", "publish", "serve", "shut", "off"}
    BY <1>1, <1>2, <1>4 DEF Start, Bind, Publish, AcceptError, Shut, GotoS
  <2> QED
    BY <2>1, <2>2, <2>3, OwnersKept, PortsKept
<1>5. ASSUME NEW a \in Actors, Flag(a) \/ CloseListener(a)
      PROVE  PortInv'
  <2>1. UNCHANGED <<port, used, allowed, Tunnels, pc, sel, spc, victim>>
    BY <1>5 DEF Flag, CloseListener
  <2>2. \A b \in Actors :
           /\ dpc[b] # "idle" => dpc'[b] # "idle"
           /\ dpc[b] \in {"flag", "close", "ufw"}
                 => dpc'[b] \in {"flag", "close", "ufw"}
    BY <1>1, <1>5 DEF Flag, CloseListener, GotoD
  <2> QED
    BY <2>1, <2>2, OwnersKept, PortsKept
<1>6. CASE Collect \/ UNCHANGED vars
  <2>1. UNCHANGED <<port, used, allowed, Tunnels, pc, sel, spc, victim, dpc>>
    BY <1>6 DEF Collect, vars
  <2> QED
    BY <2>1, OwnersKept, PortsKept
<1>7. ASSUME NEW r \in Requests, Create(r)
      PROVE  PortInv'
  <2>1. /\ UNCHANGED <<Tunnels, spc, dpc, victim>>
        /\ Fresh(r) /\ pc[r] # "done"
        /\ pc'[r] \in {"add", "addErr", "given"}
        /\ port'[r] = GiveAPort
        /\ \A t \in Requests : t # r => /\ port'[t] = port[t]
                                        /\ pc'[t] = pc[t]
                                        /\ sel'[t] = sel[t]
        /\ used' = MarkUsed(GiveAPort)
        /\ allowed' = (allowed \cup {GiveAPort}) \ {None}
    BY <1>1, <1>7 DEF Create, GotoH, Fresh
  <2>2. spc[r] = "none"
    BY <1>2, <2>1
  <2>3. \A t \in Requests : /\ HasOwner(t) => HasOwner(t)'
                            /\ OwnsRule(t) => OwnsRule(t)'
    BY <2>1, <2>2, OwnersKept
  <2>4. ~HasOwner(r) /\ ~OwnsRule(r)
    BY <2>1 DEF ListInv, Unseen, HasOwner, OwnsRule, Fresh
  <2>5. HasOwner(r)' /\ OwnsRule(r)'
    BY <2>1 DEF HasOwner, OwnsRule
  <2>6. \A p \in Failing : \E t \in Requests : port[t] = p /\ HasOwner(t)
    <3> TAKE p \in Failing
    <3>1. PICK x \in Requests : bound[x] /\ port[sel[x]] = p
      BY DEF Failing, IsBound
    <3>2. spc[x] \in {"publish", "serve", "shut"} /\ sel[x] \in Requests
      BY <1>2, <3>1 DEF CloseInv, SocketInv
    <3> QED
      BY <3>1, <3>2 DEF HasOwner
  <2>7. ASSUME NEW p \in used'
        PROVE  \E t \in Requests : port'[t] = p /\ HasOwner(t)'
    <3>1. CASE p = GiveAPort
      BY <2>1, <2>5, <3>1
    <3>2. CASE p # GiveAPort
      <4>1. p \in used \/ p \in Failing
        BY <2>1, <3>2, GiveAPortGives
      <4>2. PICK t \in Requests : port[t] = p /\ HasOwner(t)
        BY <2>6, <4>1 DEF PortInv
      <4> QED
        BY <2>1, <2>3, <2>4, <4>2
    <3> QED
      BY <3>1, <3>2
  <2>8. ASSUME NEW p \in allowed'
        PROVE  \E t \in Requests : port'[t] = p /\ OwnsRule(t)'
    <3>1. CASE p = GiveAPort
      BY <2>1, <2>5, <3>1
    <3>2. CASE p # GiveAPort
      <4>1. PICK t \in Requests : port[t] = p /\ OwnsRule(t)
        BY <2>1, <3>2 DEF PortInv
      <4> QED
        BY <2>1, <2>3, <2>4, <4>1
    <3> QED
      BY <3>1, <3>2
  <2> QED
    BY <2>7, <2>8 DEF PortInv
<1>8. ASSUME NEW r \in Requests, AddProxy(r)
      PROVE  PortInv'
  <2>1. /\ UNCHANGED <<port, used, allowed, sel, spc, dpc, victim>>
        /\ Tunnels' = Append(Tunnels, r)
        /\ \A t \in Requests : t # r => pc'[t] = pc[t]
    BY <1>1, <1>8 DEF AddProxy, GotoH, TypeInv, Steady
  <2>2. Listed' = Listed \cup {r}
    BY <1>1, <2>1, Added
  <2>3. \A t \in Requests : /\ HasOwner(t) => HasOwner(t)'
                            /\ OwnsRule(t) => OwnsRule(t)'
    BY <2>1, <2>2 DEF HasOwner, OwnsRule
  <2> QED
    BY <2>1, <2>3, PortsKept
<1>9. ASSUME NEW r \in Requests, ServerOff(r)
      PROVE  PortInv'
  <2>1. /\ UNCHANGED <<port, used, Tunnels, pc, sel, dpc, victim>>
        /\ spc'[r] = "release"
        /\ \A x \in Requests : x # r => spc'[x] = spc[x]
        /\ allowed' = allowed \ {port[sel[r]]}
    BY <1>1, <1>9 DEF ServerOff, GotoS, ClosePortUFW
  <2>2. Listed' = Listed
    BY <2>1 DEF Listed
  <2>3. \A t \in Requests : HasOwner(t) => HasOwner(t)'
    BY <2>1, <2>2 DEF HasOwner
  <2>4. \A t \in Requests : OwnsRule(t) /\ t # sel[r] => OwnsRule(t)'
    BY <2>1, <2>2 DEF OwnsRule
  <2> QED
    BY <2>1, <2>3, <2>4, PortsKept
<1>10. ASSUME NEW r \in Requests, ServerRelease(r)
      PROVE  PortInv'
  <2>1. /\ UNCHANGED <<port, allowed, Tunnels, pc, sel, dpc, victim>>
        /\ spc[r] = "release" /\ spc'[r] = "exit"
        /\ \A x \in Requests : x # r => spc'[x] = spc[x]
        /\ used' = used \ {port[sel[r]]}
    BY <1>1, <1>10 DEF ServerRelease, GotoS, ReleasePort
  <2>2. Listed' = Listed
    BY <2>1 DEF Listed
  <2>3. \A t \in Requests : OwnsRule(t) => OwnsRule(t)'
    BY <2>1, <2>2 DEF OwnsRule
  <2>4. \A t \in Requests : HasOwner(t) /\ t # sel[r] => HasOwner(t)'
    BY <2>1, <2>2 DEF HasOwner
  <2> QED
    BY <2>1, <2>3, <2>4, PortsKept
<1>11. ASSUME NEW a \in Actors, Unlist(a)
      PROVE  PortInv'
  <2>1. /\ UNCHANGED <<port, used, allowed, pc, sel, spc>>
        /\ dpc[a] = "idle"
        /\ \A b \in Actors : b # a => dpc'[b] = dpc[b] /\ victim'[b] = victim[b]
    BY <1>1, <1>11 DEF Unlist, GotoD
  <2>2. \/ UNCHANGED Tunnels
        \/ \E i \in DOMAIN Tunnels : /\ Tunnels' = RemoveAt(Tunnels, i)
                                     /\ victim'[a] = Tunnels[i]
                                     /\ dpc'[a] = "flag"
    BY <1>1, <1>11 DEF Unlist, GotoD
  <2>3. \A t \in Listed : \/ t \in Listed'
                          \/ dpc'[a] = "flag" /\ victim'[a] = t
    <3>1. CASE UNCHANGED Tunnels
      BY <3>1 DEF Listed
    <3>2. ASSUME NEW i \in DOMAIN Tunnels, Tunnels' = RemoveAt(Tunnels, i),
                 victim'[a] = Tunnels[i], dpc'[a] = "flag"
          PROVE  \A t \in Listed : \/ t \in Listed'
                                   \/ dpc'[a] = "flag" /\ victim'[a] = t
      <4>1. Listed \subseteq Listed' \cup {Tunnels[i]}
        BY <1>1, <3>2, Taken
      <4> QED
        BY <3>2, <4>1
    <3> QED
      BY <2>2, <3>1, <3>2
  <2>4. \A t \in Requests : HasOwner(t) => HasOwner(t)'
    BY <2>1, <2>3 DEF HasOwner
  <2>5. \A t \in Requests : OwnsRule(t) => OwnsRule(t)'
    BY <2>1, <2>3 DEF OwnsRule
  <2> QED
    BY <2>1, <2>4, <2>5, PortsKept
<1>12. ASSUME NEW a \in Actors, CloseUFW(a)
      PROVE  PortInv'
  <2>1. /\ UNCHANGED <<port, used, Tunnels, pc, sel, spc, victim>>
        /\ dpc[a] = "ufw" /\ dpc'[a] = "free"
        /\ \A b \in Actors : b # a => dpc'[b] = dpc[b]
        /\ allowed' = allowed \ {port[victim[a]]}
    BY <1>1, <1>12 DEF CloseUFW, GotoD, ClosePortUFW
  <2>2. Listed' = Listed
    BY <2>1 DEF Listed
  <2>3. \A t \in Requests : HasOwner(t) => HasOwner(t)'
    BY <2>1, <2>2 DEF HasOwner
  <2>4. \A t \in Requests : OwnsRule(t) /\ t # victim[a] => OwnsRule(t)'
    BY <2>1, <2>2 DEF OwnsRule
  <2> QED
    BY <2>1, <2>3, <2>4, PortsKept
<1>13. ASSUME NEW a \in Actors, FreePort(a)
      PROVE  PortInv'
  <2>1. /\ UNCHANGED <<port, allowed, Tunnels, pc, sel, spc, victim>>
        /\ dpc[a] = "free" /\ dpc'[a] = "idle"
        /\ \A b \in Actors : b # a => dpc'[b] = dpc[b]
        /\ used' = used \ {port[victim[a]]}
    BY <1>1, <1>13 DEF FreePort, GotoD, ReleasePort
  <2>2. Listed' = Listed
    BY <2>1 DEF Listed
  <2>3. \A t \in Requests : OwnsRule(t) => OwnsRule(t)'
    BY <2>1, <2>2 DEF OwnsRule
  <2>4. \A t \in Requests : HasOwner(t) /\ t # victim[a] => HasOwner(t)'
    BY <2>1, <2>2 DEF HasOwner
  <2> QED
    BY <2>1, <2>3, <2>4, PortsKept
<1> QED
  BY <1>3, <1>4, <1>5, <1>6, <1>7, <1>8, <1>9, <1>10, <1>11, <1>12, <1>13
     DEF Next, Arrive, HandlerStep, ServerStep, AcceptEnds, DeleteStep

\* Whatever is opened and marked by NewProxy, GiveAPort's failed probes
\* included, has somebody left who closes the rule and gives the port back.
THEOREM PortsDoNotLeak == Spec => []NoPortLeak
<1>1. PortInv => NoPortLeak
  BY DEF PortInv, NoPortLeak, OwnsRule, HasOwner
<1> QED
  BY TypeInit, TypeStep, ListInit, ListStep, CloseInit, CloseStep, PortInit,
     PortStep, <1>1, PTL DEF Spec

=============================================================================
