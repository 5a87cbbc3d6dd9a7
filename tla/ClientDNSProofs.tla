-------------------------- MODULE ClientDNSProofs --------------------------
(***************************************************************************)
(* Theorems about ClientDNS, for any names, addresses, PAC file, answers   *)
(* of the resolvers and number of goroutines.                              *)
(***************************************************************************)
EXTENDS ClientDNS, SequenceTheorems, FiniteSetTheorems, TLAPS

-----------------------------------------------------------------------------
(* Types.                                                                   *)

Steps == {"idle", "cache", "delete", "test", "remote", "cn", "cnStore", "remoteStore",
          "write"}
Answers == Seq(Ips \cup {Zero})
Queries == [pc : Steps, dom : Names \cup {<<>>}, ips : Answers, match : BOOLEAN,
            early : BOOLEAN]
Records == [ips : SUBSET Ips, dead : BOOLEAN]

\* A goroutine that serves a question knows the name it is for.
TypeInv ==
    /\ machine \in Machines /\ mode \in {"smart", "global"}
    /\ lines \in 0 .. Len(PacFile) /\ local \subseteq Names \cup Ips \cup {Zero}
    /\ want \subseteq Names /\ events \in 0 .. MaxEvents
    /\ cache \in [Names -> Records]
    /\ h \in [Handlers -> Queries]
    /\ \A i \in Handlers : Busy(i) => h[i].dom \in Names

\* The orders in which a set of addresses may be given are answers.
LEMMA OrdersAreAnswers ==
    ASSUME NEW S \in SUBSET Ips, NEW s \in SetToSeqs(S)
    PROVE  s \in Answers
<1>1. Cardinality(S) \in Nat
  BY IpsAssumption, FS_Subset, FS_CardinalityType
<1>2. s \in [1 .. Cardinality(S) -> S]
  BY DEF SetToSeqs
<1>3. s \in Seq(Ips \cup {Zero})
  BY <1>1, <1>2
<1>4. QED
  BY <1>3 DEF Answers

LEMMA AddressesOf ==
    ASSUME NEW s \in Answers
    PROVE  /\ NonZero(s) \in SUBSET Ips
           /\ NonZero(s) # {} => Last(s) \in Ips \cup {Zero}
<1>1. DOMAIN s = 1 .. Len(s) /\ Len(s) \in Nat /\ \A i \in 1 .. Len(s) : s[i] \in Ips \cup {Zero}
  BY LenProperties DEF Answers
<1>2. ToSet(s) \subseteq Ips \cup {Zero} /\ (ToSet(s) # {} => Len(s) \in 1 .. Len(s))
  BY <1>1 DEF ToSet
<1>3. QED
  BY <1>1, <1>2 DEF NonZero, Last

\* One goroutine g takes the place of h[i].
Becomes(i, g) ==
    /\ h' = [h EXCEPT ![i] = g] /\ g \in Queries
    /\ g.pc # "idle" => g.dom \in Names

LEMMA HandlersKept ==
    ASSUME TypeInv, NEW i \in Handlers, NEW g, Becomes(i, g)
    PROVE  /\ h' \in [Handlers -> Queries] /\ h'[i] = g
           /\ \A j \in Handlers : j # i => h'[j] = h[j]
           /\ \A j \in Handlers : h'[j].pc # "idle" => h'[j].dom \in Names
BY DEF TypeInv, Becomes, Busy

\* The two ways the code changes a goroutine.
LEMMA GoBecomes ==
    ASSUME TypeInv, NEW i \in Handlers, Busy(i), NEW p \in Steps, Go(i, p)
    PROVE  Becomes(i, [h[i] EXCEPT !.pc = p])
<1>1. h[i] \in Queries /\ h[i].dom \in Names
  BY DEF TypeInv
<1>2. [h[i] EXCEPT !.pc = p] \in Queries /\ [h[i] EXCEPT !.pc = p].dom = h[i].dom
  BY <1>1 DEF Queries
<1>3. QED
  BY <1>1, <1>2 DEF Becomes, Go

LEMMA ReplyBecomes ==
    ASSUME TypeInv, NEW i \in Handlers, Busy(i), NEW s \in Answers, NEW m \in BOOLEAN,
           Reply(i, s, m)
    PROVE  Becomes(i, [h[i] EXCEPT !.pc = "write", !.ips = s, !.match = m])
<1> DEFINE g == [h[i] EXCEPT !.pc = "write", !.ips = s, !.match = m]
<1>1. h[i] \in Queries /\ h[i].dom \in Names
  BY DEF TypeInv
<1>2. g \in Queries /\ g.dom = h[i].dom
  BY <1>1 DEF Queries, Steps
<1>3. h' = [h EXCEPT ![i] = g]
  BY DEF Reply
<1>4. QED
  BY <1>1, <1>2, <1>3 DEF Becomes

\* Nearby: the goroutine g resolves a name by a resolver nearby, because IsPac
\* has just said no or because h[i] did so.
Nearby(i, g) ==
    g.pc \in {"cn", "cnStore"} =>
      /\ g.dom = h[i].dom
      /\ \/ h[i].pc = "cn" /\ g.early = h[i].early
         \/ h[i].pc = "test" /\ ~IsPac(h[i].dom) /\ g.early = Loading

\* What a step of ServeDNS does to its goroutine.
LEMMA ServeBecomes ==
    ASSUME TypeInv, NEW i \in Handlers, Serve(i)
    PROVE  \E g : Becomes(i, g) /\ Nearby(i, g)
<1>1. Busy(i)
  BY DEF Serve, ResolveCache, Delete, Test, ResolveProxy, CnStore, ResolveRemoteOld,
         RemoteStore, WriteMsg, At, Busy
<1>2. h[i] \in Queries /\ h[i].dom \in Names /\ h[i].ips \in Answers
  BY <1>1 DEF TypeInv, Queries
<1>3. ASSUME NEW p \in Steps \ {"cn", "cnStore"}, Go(i, p)
      PROVE  \E g : Becomes(i, g) /\ Nearby(i, g)
  <2> DEFINE g == [h[i] EXCEPT !.pc = p]
  <2>1. Becomes(i, g)
    BY <1>1, <1>3, GoBecomes
  <2>2. g.pc = p
    BY <1>2 DEF Queries
  <2>3. Nearby(i, g)
    BY <2>2 DEF Nearby
  <2>4. QED
    BY <2>1, <2>3
<1>4. ASSUME NEW s \in Answers, NEW m \in BOOLEAN, Reply(i, s, m)
      PROVE  \E g : Becomes(i, g) /\ Nearby(i, g)
  <2> DEFINE g == [h[i] EXCEPT !.pc = "write", !.ips = s, !.match = m]
  <2>1. Becomes(i, g)
    BY <1>1, <1>4, ReplyBecomes
  <2>2. g.pc = "write"
    BY <1>2 DEF Queries
  <2>3. Nearby(i, g)
    BY <2>2 DEF Nearby
  <2>4. QED
    BY <2>1, <2>3
<1>5. <<>> \in Answers /\ <<Zero>> \in Answers
  BY DEF Answers
<1>6. CASE ResolveCache(i)
  <2>1. \A s \in SetToSeqs(cache[h[i].dom].ips) : s \in Answers
    BY <1>2, OrdersAreAnswers DEF TypeInv, Records
  <2>2. QED
    BY <1>3, <1>4, <1>6, <2>1 DEF ResolveCache, Steps
<1>7. CASE Delete(i)
  BY <1>3, <1>7 DEF Delete, Steps
<1>8. CASE Test(i)
  <2>1. CASE ~router
    BY <1>4, <1>5, <1>8, <2>1 DEF Test
  <2>2. CASE router
    <3> DEFINE g == [h[i] EXCEPT !.pc = IF IsPac(h[i].dom) THEN "remote" ELSE "cn",
                                 !.early = Loading]
    <3>1. h' = [h EXCEPT ![i] = g]
      BY <1>8, <2>2 DEF Test
    <3>2. /\ g \in Queries /\ g.dom = h[i].dom /\ g.early = Loading
          /\ g.pc = IF IsPac(h[i].dom) THEN "remote" ELSE "cn"
      <4>1. Loading \in BOOLEAN
        BY DEF Loading
      <4>2. QED
        BY <1>2, <4>1 DEF Queries, Steps
    <3>3. h[i].pc = "test"
      BY <1>8 DEF Test, At
    <3> HIDE DEF g
    <3>4. Becomes(i, g) /\ Nearby(i, g)
      BY <1>2, <3>1, <3>2, <3>3 DEF Becomes, Nearby
    <3>5. QED
      BY <3>4
  <2>3. QED
    BY <2>1, <2>2
<1>9. CASE ResolveProxy(i)
  <2>1. CASE h' = [h EXCEPT ![i].pc = "cnStore", ![i].ips = CnOf[h[i].dom]]
    <3> DEFINE g == [h[i] EXCEPT !.pc = "cnStore", !.ips = CnOf[h[i].dom]]
    <3>1. h' = [h EXCEPT ![i] = g]
      BY <2>1
    <3>2. CnOf[h[i].dom] \in Answers
      BY <1>2, AnswersAssumption DEF Answers
    <3>3. g \in Queries /\ g.dom = h[i].dom /\ g.early = h[i].early
      BY <1>2, <3>2 DEF Queries, Steps
    <3>4. h[i].pc = "cn"
      BY <1>9 DEF ResolveProxy, At
    <3> HIDE DEF g
    <3>5. Becomes(i, g) /\ Nearby(i, g)
      BY <1>2, <3>1, <3>3, <3>4 DEF Becomes, Nearby
    <3>6. QED
      BY <3>5
  <2>2. CASE Go(i, "remote")
    BY <1>3, <2>2 DEF Steps
  <2>3. QED
    BY <1>9, <2>1, <2>2 DEF ResolveProxy
<1>10. CASE CnStore(i) \/ RemoteStore(i)
  BY <1>2, <1>4, <1>10 DEF CnStore, RemoteStore
<1>11. CASE ResolveRemoteOld(i)
  <2>1. ASSUME NEW s \in ReplyDNS(h[i].dom),
               h' = [h EXCEPT ![i].pc = "remoteStore", ![i].ips = s]
        PROVE  \E g : Becomes(i, g) /\ Nearby(i, g)
    <3> DEFINE g == [h[i] EXCEPT !.pc = "remoteStore", !.ips = s]
    <3>1. h' = [h EXCEPT ![i] = g]
      BY <2>1
    <3>2. s \in Answers
      <4>1. RemoteOf[h[i].dom] \ {Zero} \in SUBSET Ips
        BY <1>2, AnswersAssumption
      <4>2. QED
        BY <2>1, <4>1, OrdersAreAnswers DEF ReplyDNS
    <3>3. g \in Queries /\ g.dom = h[i].dom /\ g.pc = "remoteStore"
      BY <1>2, <3>2 DEF Queries, Steps
    <3> HIDE DEF g
    <3>4. Becomes(i, g) /\ Nearby(i, g)
      BY <1>2, <3>1, <3>3 DEF Becomes, Nearby
    <3>5. QED
      BY <3>4
  <2>2. QED
    BY <1>4, <1>5, <1>11, <2>1 DEF ResolveRemoteOld
<1>12. CASE WriteMsg(i)
  <2>1. Idle \in Queries /\ Idle.pc = "idle"
    BY <1>5 DEF Idle, Queries, Steps
  <2>2. Becomes(i, Idle) /\ Nearby(i, Idle)
    BY <1>12, <2>1 DEF WriteMsg, Becomes, Nearby
  <2>3. QED
    BY <2>2
<1>13. QED
  BY <1>6, <1>7, <1>8, <1>9, <1>10, <1>11, <1>12 DEF Serve

LEMMA SpawnBecomes ==
    ASSUME TypeInv, NEW i \in Handlers, NEW d \in Names, Spawn(i, d)
    PROVE  \E g : Becomes(i, g) /\ g.pc = "cache"
<1> DEFINE g == [Idle EXCEPT !.pc = "cache", !.dom = d]
<1>1. <<>> \in Answers
  BY DEF Answers
<1>2. g \in Queries /\ g.dom = d /\ g.pc = "cache"
  BY <1>1 DEF Idle, Queries, Steps
<1>3. h' = [h EXCEPT ![i] = g]
  BY DEF Spawn
<1> HIDE DEF g
<1>4. Becomes(i, g)
  BY <1>2, <1>3 DEF Becomes
<1>5. QED
  BY <1>2, <1>4

\* What a step of ServeDNS does to the records.
LEMMA ServeStores ==
    ASSUME TypeInv, NEW i \in Handlers, Serve(i)
    PROVE  \/ cache' = cache
           \/ \E d \in Names : cache' = [cache EXCEPT ![d] = NoRecord]
           \/ \E d \in Names, S \in SUBSET Ips : /\ S # {}
                                                /\ cache' = [cache EXCEPT ![d] = [ips |-> S, dead |-> FALSE]]
<1>1. h[i] \in Queries /\ (Busy(i) => h[i].dom \in Names) /\ h[i].ips \in Answers
  BY DEF TypeInv, Queries
<1>2. CASE Delete(i)
  BY <1>1, <1>2 DEF Delete, At, Busy
<1>3. CASE CnStore(i) \/ RemoteStore(i)
  <2>1. Busy(i) /\ Store(i, h[i].ips)
    BY <1>3 DEF CnStore, RemoteStore, At, Busy
  <2>2. NonZero(h[i].ips) \in SUBSET Ips
    BY <1>1, AddressesOf
  <2>3. QED
    BY <1>1, <2>1, <2>2 DEF Store
<1>4. CASE ResolveCache(i) \/ Test(i) \/ ResolveProxy(i) \/ ResolveRemoteOld(i) \/ WriteMsg(i)
  BY <1>4 DEF ResolveCache, Test, ResolveProxy, ResolveRemoteOld, WriteMsg
<1>5. QED
  BY <1>2, <1>3, <1>4 DEF Serve

LEMMA TypesInitially == Init => TypeInv
<1> SUFFICES ASSUME Init PROVE TypeInv
  OBVIOUS
<1>1. Idle \in Queries /\ Idle.pc = "idle"
  <2>1. <<>> \in Answers
    BY DEF Answers
  <2>2. QED
    BY <2>1 DEF Idle, Queries, Steps
<1>2. NoRecord \in Records
  BY DEF NoRecord, Records
<1>3. 0 \in 0 .. Len(PacFile)
  BY FilesAssumption, LenProperties
<1>4. 0 \in 0 .. MaxEvents
  BY BoundsAssumption
<1>5. QED
  BY <1>1, <1>2, <1>3, <1>4 DEF Init, TypeInv, Busy

LEMMA TypesPreserved == TypeInv /\ [Next]_vars => TypeInv'
<1> SUFFICES ASSUME TypeInv, [Next]_vars PROVE TypeInv'
  OBVIOUS
<1>1. /\ machine \in Machines /\ mode \in {"smart", "global"}
      /\ lines \in 0 .. Len(PacFile) /\ local \subseteq Names \cup Ips \cup {Zero}
      /\ want \subseteq Names /\ events \in 0 .. MaxEvents
      /\ cache \in [Names -> Records] /\ h \in [Handlers -> Queries]
      /\ \A i \in Handlers : h[i].pc # "idle" => h[i].dom \in Names
  BY DEF TypeInv, Busy
<1>2. Event => events' \in 0 .. MaxEvents
  BY <1>1, BoundsAssumption DEF Event
<1>3. ASSUME NEW i \in Handlers, NEW g, Becomes(i, g)
      PROVE  /\ h' \in [Handlers -> Queries]
             /\ \A j \in Handlers : h'[j].pc # "idle" => h'[j].dom \in Names
  BY <1>3, HandlersKept
<1>4. ASSUME NEW i \in Handlers, Serve(i)
      PROVE  TypeInv'
  <2>1. /\ h' \in [Handlers -> Queries]
        /\ \A j \in Handlers : h'[j].pc # "idle" => h'[j].dom \in Names
    BY <1>3, <1>4, ServeBecomes
  <2>2. cache' \in [Names -> Records]
    <3>1. NoRecord \in Records /\ \A S \in SUBSET Ips : [ips |-> S, dead |-> FALSE] \in Records
      BY DEF NoRecord, Records
    <3>2. QED
      BY <1>1, <1>4, <3>1, ServeStores
  <2>3. local' \subseteq Names \cup Ips \cup {Zero}
    <3>1. CASE CnStore(i)
      <4>1. h[i].ips \in Answers
        BY <1>1 DEF Queries
      <4>2. QED
        BY <1>1, <3>1, <4>1, AddressesOf DEF CnStore
    <3>2. CASE ~CnStore(i)
      <4>1. local' = local
        BY <1>4, <3>2 DEF Serve, ResolveCache, Delete, Test, ResolveProxy, ResolveRemoteOld,
                          RemoteStore, WriteMsg
      <4>2. QED
        BY <1>1, <4>1
    <3>3. QED
      BY <3>1, <3>2
  <2>4. machine' = machine /\ mode' = mode /\ lines' = lines /\ want' \subseteq want
    BY <1>4 DEF Serve, ResolveCache, Delete, Test, ResolveProxy, CnStore, ResolveRemoteOld,
                RemoteStore, WriteMsg
  <2>5. events' = events \/ Event
    BY <1>4 DEF Serve, ResolveCache, Delete, Test, ResolveProxy, CnStore, ResolveRemoteOld,
                RemoteStore, WriteMsg
  <2>6. events' \in 0 .. MaxEvents
    BY <1>1, <1>2, <2>5
  <2>7. QED
    BY <1>1, <2>1, <2>2, <2>3, <2>4, <2>6 DEF TypeInv, Busy
<1>5. ASSUME NEW i \in Handlers, NEW d \in Names, Spawn(i, d), events' = events \/ Event
      PROVE  TypeInv'
  <2>1. /\ h' \in [Handlers -> Queries]
        /\ \A j \in Handlers : h'[j].pc # "idle" => h'[j].dom \in Names
    BY <1>3, <1>5, SpawnBecomes
  <2>2. events' \in 0 .. MaxEvents
    BY <1>1, <1>2, <1>5
  <2>3. QED
    BY <1>1, <1>5, <2>1, <2>2 DEF Spawn, TypeInv, Busy
<1>6. CASE \E i \in Handlers : Ask(i) \/ AskAgain(i)
  BY <1>1, <1>5, <1>6 DEF Ask, AskAgain
<1>7. CASE LoadLocalPac
  <2>1. lines' \in 0 .. Len(PacFile)
    <3>1. Len(PacFile) \in Nat
      BY FilesAssumption, LenProperties
    <3>2. QED
      BY <1>1, <1>7, <3>1 DEF LoadLocalPac
  <2>2. QED
    BY <1>1, <1>7, <2>1 DEF LoadLocalPac, TypeInv, Busy
<1>8. CASE LoadLocalRule
  <2>1. local' \subseteq Names \cup Ips \cup {Zero}
    BY <1>1, <1>8, FilesAssumption DEF LoadLocalRule
  <2>2. QED
    BY <1>1, <1>8, <2>1 DEF LoadLocalRule, TypeInv, Busy
<1>9. ASSUME NEW d \in Names, Expire(d)
      PROVE  TypeInv'
  <2>1. cache' \in [Names -> Records]
    BY <1>1, <1>9 DEF Expire, Records
  <2>2. QED
    BY <1>1, <1>2, <1>9, <2>1 DEF Expire, TypeInv, Busy
<1>10. ASSUME NEW d \in Names, ConnectName(d)
       PROVE  TypeInv'
  BY <1>1, <1>2, <1>10 DEF ConnectName, TypeInv, Busy
<1>11. ASSUME NEW ip \in Ips, ConnectIp(ip)
       PROVE  TypeInv'
  <2>1. mode' \in {"smart", "global"}
    BY <1>1, <1>11 DEF ConnectIp, Configure, SetMode
  <2>2. QED
    BY <1>1, <1>2, <1>11, <2>1 DEF ConnectIp, TypeInv, Busy
<1>12. CASE UNCHANGED vars
  BY <1>1, <1>12 DEF vars, TypeInv, Busy
<1>13. QED
  BY <1>4, <1>6, <1>7, <1>8, <1>9, <1>10, <1>11, <1>12 DEF Next, Work

\* Records hold addresses only, answers are sequences of addresses and of
\* 0.0.0.0, and only names and addresses are ever marked local.
THEOREM TypeCorrect == Spec => []TypeOK
<1>1. TypeInv => TypeOK
  BY DEF TypeInv, TypeOK, Records, Queries, Answers
<1>2. QED
  BY <1>1, TypesInitially, TypesPreserved, PTL DEF Spec

-----------------------------------------------------------------------------
(* A hit in the cache answers.                                              *)

LEMMA HitsPreserved == TypeInv /\ HitsAnswer /\ [Next]_vars => HitsAnswer'
<1> SUFFICES ASSUME TypeInv, HitsAnswer, [Next]_vars PROVE HitsAnswer'
  OBVIOUS
<1>1. cache \in [Names -> Records] /\ Zero \notin Ips
  BY IpsAssumption DEF TypeInv
<1>2. ASSUME NEW i \in Handlers, Serve(i)
      PROVE  HitsAnswer'
  <2>1. CASE cache' = cache
    BY <2>1 DEF HitsAnswer
  <2>2. ASSUME NEW d \in Names, cache' = [cache EXCEPT ![d] = NoRecord]
        PROVE  HitsAnswer'
    BY <1>1, <2>2 DEF HitsAnswer
  <2>3. ASSUME NEW d \in Names, NEW S \in SUBSET Ips, S # {},
               cache' = [cache EXCEPT ![d] = [ips |-> S, dead |-> FALSE]]
        PROVE  HitsAnswer'
    BY <1>1, <2>3 DEF HitsAnswer
  <2>4. QED
    BY <1>2, <2>1, <2>2, <2>3, ServeStores
<1>3. ASSUME NEW d \in Names, Expire(d)
      PROVE  HitsAnswer'
  <2>1. \A e \in Names : cache'[e].ips = cache[e].ips /\ (e # d => cache'[e] = cache[e])
    BY <1>1, <1>3 DEF Expire, Records
  <2>2. cache[d] # NoRecord
    BY <1>3 DEF Expire
  <2>3. QED
    BY <2>1, <2>2 DEF HitsAnswer
<1>4. CASE cache' = cache
  BY <1>4 DEF HitsAnswer
<1>5. \/ cache' = cache \/ \E i \in Handlers : Serve(i)
      \/ \E d \in Names : Expire(d)
  BY DEF Next, Work, Ask, AskAgain, Spawn, LoadLocalPac, LoadLocalRule, ConnectName,
         ConnectIp, vars
<1>6. QED
  BY <1>2, <1>3, <1>4, <1>5

\* A hit in the cache always answers: no record is without an address to give
\* and none has 0.0.0.0, whatever the two resolvers say and however storing,
\* expiring and deleting interleave (ResolveCache, ResolveProxy,
\* ResolveRemoteOld).
THEOREM HitsAlwaysAnswer == Spec => []HitsAnswer
<1>1. Init => HitsAnswer
  BY DEF Init, HitsAnswer
<1>2. QED
  BY <1>1, TypesInitially, TypesPreserved, HitsPreserved, PTL DEF Spec

-----------------------------------------------------------------------------
(* The list that IsPac changes while it reads it.                           *)

Labels == Seq(STRING) \ {<<>>}

\* A name belongs to itself, and to what the domains above it belong to.
LEMMA AboveSelf == ASSUME NEW d \in Labels PROVE d \in Above(d)
<1>1. Len(d) \in Nat /\ Len(d) # 0 /\ \A i \in 1 .. Len(d) : d[i] \in STRING
  BY LenProperties, EmptySeq DEF Labels
<1>2. SubSeq(d, 1, Len(d)) = d
  <2>1. /\ SubSeq(d, 1, Len(d)) \in Seq(STRING) /\ Len(SubSeq(d, 1, Len(d))) = Len(d)
        /\ \A i \in 1 .. Len(d) : SubSeq(d, 1, Len(d))[i] = d[i]
    BY <1>1, SubSeqProperties
  <2>2. QED
    BY <2>1, SeqEqual DEF Labels
<1>3. Len(d) \in 1 .. Len(d)
  BY <1>1
<1>4. QED
  BY <1>2, <1>3 DEF Above

LEMMA AboveAbove ==
    ASSUME NEW d \in Labels, NEW p \in Above(d)
    PROVE  Above(p) \subseteq Above(d)
<1>1. Len(d) \in Nat /\ \A i \in 1 .. Len(d) : d[i] \in STRING
  BY LenProperties DEF Labels
<1>2. PICK j \in 1 .. Len(d) : p = SubSeq(d, 1, j)
  BY DEF Above
<1>3. /\ p \in Seq(STRING) /\ Len(p) = j /\ \A i \in 1 .. j : p[i] = d[i]
  <2>1. \A i \in 1 .. j : d[i] \in STRING
    BY <1>1
  <2>2. /\ SubSeq(d, 1, j) \in Seq(STRING)
        /\ Len(SubSeq(d, 1, j)) = IF 1 <= j THEN j - 1 + 1 ELSE 0
        /\ \A i \in 1 .. j - 1 + 1 : SubSeq(d, 1, j)[i] = d[1 + i - 1]
    BY <1>1, <2>1, SubSeqProperties
  <2>3. QED
    BY <1>1, <1>2, <2>2
<1>4. ASSUME NEW k \in 1 .. Len(p) PROVE SubSeq(p, 1, k) \in Above(d)
  <2>1. k \in 1 .. j /\ k \in 1 .. Len(d) /\ k \in Nat
    BY <1>1, <1>3
  <2>2. /\ SubSeq(p, 1, k) \in Seq(STRING) /\ Len(SubSeq(p, 1, k)) = k
        /\ \A i \in 1 .. k : SubSeq(p, 1, k)[i] = p[i]
    <3>1. \A i \in 1 .. k : p[i] \in STRING
      BY <1>3, LenProperties, <2>1
    <3>2. /\ SubSeq(p, 1, k) \in Seq(STRING)
          /\ Len(SubSeq(p, 1, k)) = IF 1 <= k THEN k - 1 + 1 ELSE 0
          /\ \A i \in 1 .. k - 1 + 1 : SubSeq(p, 1, k)[i] = p[1 + i - 1]
      BY <2>1, <3>1, SubSeqProperties
    <3>3. QED
      BY <2>1, <3>2
  <2>3. /\ SubSeq(d, 1, k) \in Seq(STRING) /\ Len(SubSeq(d, 1, k)) = k
        /\ \A i \in 1 .. k : SubSeq(d, 1, k)[i] = d[i]
    <3>1. \A i \in 1 .. k : d[i] \in STRING
      BY <1>1, <2>1
    <3>2. /\ SubSeq(d, 1, k) \in Seq(STRING)
          /\ Len(SubSeq(d, 1, k)) = IF 1 <= k THEN k - 1 + 1 ELSE 0
          /\ \A i \in 1 .. k - 1 + 1 : SubSeq(d, 1, k)[i] = d[1 + i - 1]
      BY <2>1, <3>1, SubSeqProperties
    <3>3. QED
      BY <2>1, <3>2
  <2>4. \A i \in 1 .. k : SubSeq(p, 1, k)[i] = SubSeq(d, 1, k)[i]
    BY <1>1, <1>3, <2>1, <2>2, <2>3
  <2>5. SubSeq(p, 1, k) = SubSeq(d, 1, k)
    BY <2>2, <2>3, <2>4, SeqEqual
  <2>6. QED
    BY <2>1, <2>5 DEF Above
<1>5. QED
  BY <1>4 DEF Above

\* The list holds the lines loaded, and besides them only names one of the
\* lines covers.
PacInv ==
    /\ \A k \in 1 .. lines : PacFile[k] \in pac
    /\ \A p \in pac : \E k \in 1 .. lines : PacFile[k] \in Above(p)

\* What IsPac finds, the lines loaded cover.
LEMMA HitIsCovered ==
    ASSUME PacInv, NEW d \in Names
    PROVE  Hit(d) <=> \E k \in 1 .. lines : PacFile[k] \in Above(d)
<1>1. d \in Labels
  BY NamesAssumption DEF Labels
<1>2. ASSUME Hit(d) PROVE \E k \in 1 .. lines : PacFile[k] \in Above(d)
  <2>1. PICK p \in pac : p \in Above(d)
    BY <1>2 DEF Hit
  <2>2. PICK k \in 1 .. lines : PacFile[k] \in Above(p)
    BY <2>1 DEF PacInv
  <2>3. QED
    BY <1>1, <2>1, <2>2, AboveAbove
<1>3. ASSUME NEW k \in 1 .. lines, PacFile[k] \in Above(d) PROVE Hit(d)
  BY <1>3 DEF PacInv, Hit
<1>4. QED
  BY <1>2, <1>3

LEMMA RememberKeeps ==
    ASSUME PacInv, NEW d \in Names, Remember(d), lines' = lines
    PROVE  PacInv'
<1>1. CASE ~Hit(d)
  BY <1>1 DEF Remember, PacInv
<1>2. CASE Hit(d)
  <2>1. pac' = pac \cup {d}
    BY <1>2 DEF Remember
  <2>2. \E k \in 1 .. lines : PacFile[k] \in Above(d)
    BY <1>2, HitIsCovered
  <2>3. QED
    BY <2>1, <2>2 DEF PacInv
<1>3. QED
  BY <1>1, <1>2

LEMMA PacPreserved == TypeInv /\ PacInv /\ [Next]_vars => PacInv'
<1> SUFFICES ASSUME TypeInv, PacInv, [Next]_vars PROVE PacInv'
  OBVIOUS
<1>1. CASE LoadLocalPac
  <2>1. Len(PacFile) \in Nat /\ lines \in Nat /\ lines + 1 \in 1 .. Len(PacFile)
    BY <1>1, FilesAssumption, LenProperties DEF TypeInv, LoadLocalPac
  <2>2. PacFile[lines + 1] \in Labels
    BY <2>1, FilesAssumption, LenProperties DEF Labels
  <2>3. lines' = lines + 1 /\ pac' = pac \cup {PacFile[lines + 1]}
    BY <1>1 DEF LoadLocalPac
  <2>4. \A k \in 1 .. lines' : k \in 1 .. lines \/ k = lines + 1
    BY <2>1, <2>3
  <2>5. 1 .. lines \subseteq 1 .. lines' /\ lines + 1 \in 1 .. lines'
    BY <2>1, <2>3
  <2>6. \A k \in 1 .. lines' : PacFile[k] \in pac'
    BY <2>3, <2>4 DEF PacInv
  <2>7. \A p \in pac' : \E k \in 1 .. lines' : PacFile[k] \in Above(p)
    BY <2>2, <2>3, <2>5, AboveSelf DEF PacInv
  <2>8. QED
    BY <2>6, <2>7 DEF PacInv
<1>2. ASSUME NEW i \in Handlers, Test(i)
      PROVE  PacInv'
  <2>1. h[i].dom \in Names /\ lines' = lines
    BY <1>2 DEF TypeInv, Test, At, Busy
  <2>2. CASE pac' = pac
    BY <2>1, <2>2 DEF PacInv
  <2>3. CASE Remember(h[i].dom)
    BY <2>1, <2>3, RememberKeeps
  <2>4. QED
    BY <1>2, <2>2, <2>3 DEF Test
<1>3. ASSUME NEW d \in Names, ConnectName(d)
      PROVE  PacInv'
  <2>1. lines' = lines /\ (pac' = pac \/ Remember(d))
    BY <1>3 DEF ConnectName
  <2>2. CASE pac' = pac
    BY <2>1, <2>2 DEF PacInv
  <2>3. QED
    BY <2>1, <2>2, RememberKeeps
<1>4. CASE pac' = pac /\ lines' = lines
  BY <1>4 DEF PacInv
<1>5. \/ pac' = pac /\ lines' = lines
      \/ LoadLocalPac \/ \E i \in Handlers : Test(i)
      \/ \E d \in Names : ConnectName(d)
  <2>1. ASSUME NEW i \in Handlers, Serve(i)
        PROVE  Test(i) \/ (pac' = pac /\ lines' = lines)
    BY <2>1 DEF Serve, ResolveCache, Delete, ResolveProxy, CnStore, ResolveRemoteOld,
                RemoteStore, WriteMsg
  <2>2. ASSUME NEW i \in Handlers, Ask(i) \/ AskAgain(i)
        PROVE  pac' = pac /\ lines' = lines
    BY <2>2 DEF Ask, AskAgain, Spawn
  <2>3. CASE LoadLocalRule \/ (\E d \in Names : Expire(d)) \/ \E ip \in Ips : ConnectIp(ip)
    BY <2>3 DEF LoadLocalRule, Expire, ConnectIp
  <2>4. CASE UNCHANGED vars
    BY <2>4 DEF vars
  <2>5. QED
    BY <2>1, <2>2, <2>3, <2>4 DEF Next, Work
<1>6. QED
  BY <1>1, <1>2, <1>3, <1>4, <1>5

LEMMA PacInitially == Init => PacInv
BY DEF Init, PacInv

\* The names IsPac has added to the list as a memory never change its answer:
\* it is that of the lines loaded so far, for every name and in whatever order
\* names are asked and lines loaded (IsPac, LoadLocalPac).
THEOREM MemoIsHarmless == Spec => []MemoHarmless
<1>1. TypeInv /\ PacInv => MemoHarmless
  BY HitIsCovered DEF MemoHarmless, IsPac
<1>2. QED
  BY <1>1, TypesInitially, TypesPreserved, PacInitially, PacPreserved, PTL DEF Spec

-----------------------------------------------------------------------------
(* Covered names go through the tunnel.                                     *)

\* IsPac says no to a covered name only while the file is being loaded.
LEMMA NoMeansLoading ==
    ASSUME TypeInv, PacInv, NEW d \in Names, Covered(d), ~IsPac(d)
    PROVE  Loading
<1>1. Len(PacFile) \in Nat /\ lines \in 0 .. Len(PacFile)
  BY FilesAssumption, LenProperties DEF TypeInv
<1>2. lines # 0
  <2>1. PICK p : p \in pac
    BY DEF IsPac
  <2>2. PICK k \in 1 .. lines : TRUE
    BY <2>1 DEF PacInv
  <2>3. QED
    BY <2>2
<1>3. lines # Len(PacFile)
  BY HitIsCovered DEF Covered, IsPac
<1>4. QED
  BY <1>1, <1>2, <1>3 DEF Loading

LEMMA CoveredPreserved == TypeInv /\ PacInv /\ CoveredIsProxied /\ [Next]_vars => CoveredIsProxied'
<1> SUFFICES ASSUME TypeInv, PacInv, CoveredIsProxied, [Next]_vars PROVE CoveredIsProxied'
  OBVIOUS
<1> DEFINE Asked(i) == h[i].pc \in {"cn", "cnStore"} /\ Covered(h[i].dom) => h[i].early
           Reached == conn.path = "direct" /\ conn.to \in Names \ local /\ Covered(conn.to) =>
                        conn.early
<1>1. (\A i \in Handlers : Asked(i)) /\ Reached
  BY DEF CoveredIsProxied
<1> SUFFICES (\A i \in Handlers : Asked(i)') /\ Reached'
  BY DEF CoveredIsProxied, Covered
<1>2. local \subseteq local'
  <2>1. ASSUME NEW i \in Handlers, Serve(i) PROVE local \subseteq local'
    BY <2>1 DEF Serve, ResolveCache, Delete, Test, ResolveProxy, CnStore, ResolveRemoteOld,
                RemoteStore, WriteMsg
  <2>2. QED
    BY <2>1 DEF Next, Work, LoadLocalPac, LoadLocalRule, Ask, AskAgain, Spawn, Expire,
                ConnectName, ConnectIp, vars
<1>3. conn' = conn => Reached'
  BY <1>1, <1>2 DEF Covered
<1>4. h' = h => \A i \in Handlers : Asked(i)'
  BY <1>1 DEF Covered
<1>5. ASSUME NEW i \in Handlers, Serve(i)
      PROVE  (\A j \in Handlers : Asked(j)') /\ Reached'
  <2>1. PICK g : Becomes(i, g) /\ Nearby(i, g)
    BY <1>5, ServeBecomes
  <2>2. h'[i] = g /\ \A j \in Handlers : j # i => h'[j] = h[j]
    BY <2>1, HandlersKept
  <2>3. ASSUME g.pc \in {"cn", "cnStore"}, Covered(g.dom) PROVE g.early
    <3>1. CASE h[i].pc = "cn" /\ g.early = h[i].early
      BY <1>1, <2>1, <2>3, <3>1 DEF Nearby
    <3>2. CASE h[i].pc = "test" /\ ~IsPac(h[i].dom) /\ g.early = Loading
      <4>1. h[i].dom \in Names /\ g.dom = h[i].dom
        BY <2>1, <2>3, <3>2 DEF TypeInv, Busy, Nearby
      <4>2. QED
        BY <2>3, <3>2, <4>1, NoMeansLoading
    <3>3. QED
      BY <2>1, <2>3, <3>1, <3>2 DEF Nearby
  <2>4. conn' = conn
    BY <1>5 DEF Serve, ResolveCache, Delete, Test, ResolveProxy, CnStore, ResolveRemoteOld,
                RemoteStore, WriteMsg
  <2>5. \A j \in Handlers : Asked(j)'
    BY <1>1, <2>2, <2>3 DEF Covered
  <2>6. QED
    BY <1>3, <2>4, <2>5
<1>6. ASSUME NEW i \in Handlers, NEW d \in Names, Spawn(i, d)
      PROVE  (\A j \in Handlers : Asked(j)') /\ Reached'
  <2>1. PICK g : Becomes(i, g) /\ g.pc = "cache"
    BY <1>6, SpawnBecomes
  <2>2. h'[i] = g /\ \A j \in Handlers : j # i => h'[j] = h[j]
    BY <2>1, HandlersKept
  <2>3. QED
    BY <1>1, <1>3, <1>6, <2>1, <2>2 DEF Covered, Spawn
<1>7. ASSUME NEW d \in Names, ConnectName(d)
      PROVE  (\A j \in Handlers : Asked(j)') /\ Reached'
  <2>1. h' = h /\ local' = local /\ conn'.to = d /\ conn'.early = Loading
    BY <1>7 DEF ConnectName, Choose
  <2>2. d \in local \/ conn'.path = "proxy" \/ ~IsPac(d)
    BY <1>7 DEF ConnectName, Choose, IsLocal
  <2>3. Reached'
    BY <2>1, <2>2, NoMeansLoading DEF Covered
  <2>4. QED
    BY <1>4, <2>1, <2>3
<1>8. ASSUME NEW ip \in Ips, ConnectIp(ip)
      PROVE  (\A j \in Handlers : Asked(j)') /\ Reached'
  <2>1. h' = h /\ conn'.to = ip
    BY <1>8 DEF ConnectIp, Choose, Configure
  <2>2. ip \notin Names
    BY IpsAssumption
  <2>3. QED
    BY <1>4, <2>1, <2>2
<1>9. CASE LoadLocalPac \/ LoadLocalRule \/ (\E d \in Names : Expire(d)) \/ UNCHANGED vars
  BY <1>3, <1>4, <1>9 DEF LoadLocalPac, LoadLocalRule, Expire, vars
<1>10. CASE \E i \in Handlers : Ask(i) \/ AskAgain(i)
  <2>1. want \subseteq Names
    BY DEF TypeInv
  <2>2. QED
    BY <1>6, <1>10, <2>1 DEF Ask, AskAgain
<1>11. QED
  BY <1>5, <1>7, <1>8, <1>9, <1>10 DEF Next, Work

\* A name the PAC file covers is asked nearby, or reached directly without a
\* local rule, only when the test fell into the time in which the file was
\* half loaded: neither the empty list of the start nor a name remembered
\* lets one slip, whatever the file and the order of its lines (IsPac,
\* ServeDNS, Socks5Listen).
THEOREM CoveredNamesAreProxied == Spec => []CoveredIsProxied
<1>1. Init => CoveredIsProxied
  BY DEF Init, CoveredIsProxied, Idle, NoConn
<1>2. QED
  BY <1>1, TypesInitially, TypesPreserved, PacInitially, PacPreserved, CoveredPreserved, PTL
     DEF Spec

=============================================================================
