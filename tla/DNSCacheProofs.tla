--------------------------- MODULE DNSCacheProofs ---------------------------
(***************************************************************************)
(* Proofs about DNSCache, for any finite set of calls and hosts, any       *)
(* time-to-live and any size.                                              *)
(***************************************************************************)
EXTENDS DNSCache, FiniteSetTheorems, WellFoundedInduction, TLAPS

\* Where the call that leads a flight is while the flight is registered.
Leading == {"resolve", "store"}

\* The calls that have an answer.
Answered == {"store", "close", "returned", "direct", "connected", "failed"}

(***************************************************************************)
(* SingleFlight is not inductive: that a call which finds no flight is     *)
(* alone needs the map and the calls to agree, in both directions.         *)
(***************************************************************************)
FlightInv ==
    /\ \A c \in Callers : pc[c] \in Leading => inflight[host[c]] = c
    /\ \A h \in Hosts : inflight[h] # Nobody =>
          /\ pc[inflight[h]] \in Leading
          /\ host[inflight[h]] = h

\* A waiting call waits for a call that led a flight for the same host; an
\* answer is about the host that was asked for.
AnswerInv ==
    /\ \A c \in Callers :
          /\ pc[c] = "wait" => /\ flight[c] \in Callers
                               /\ host[flight[c]] = host[c]
                               /\ pc[flight[c]] \in Leading \cup Answered
          /\ pc[c] \in Answered => answer[c].host = host[c]
          /\ done[c] => pc[c] \in Answered
          /\ pc[c] = "wait" /\ ~done[flight[c]] =>
                pc[flight[c]] \in {"resolve", "store", "close"}
    /\ \A h \in Hosts : seq[h] > 0 => entries[h].host = h

Inv == TypeOK /\ FlightInv /\ AnswerInv

\* Evicting keeps stamps natural and gives none to a host that had none.
LEMMA EvictType ==
    ASSUME NEW stamp \in [Hosts -> Nat]
    PROVE  /\ Evict(stamp) \in [Hosts -> Nat]
           /\ \A h \in Hosts : Evict(stamp)[h] > 0 => stamp[h] > 0
           /\ \A h \in Hosts : Evict(stamp)[h] \in {0, stamp[h]}
  BY DEF Evict

LEMMA InvInit == Init => Inv
  BY CallersAssumption, BoundsAssumption, NobodyAssumption
  DEF Init, Inv, TypeOK, FlightInv, AnswerInv, Leading, Answered, NoAnswer

LEMMA InvNext == Inv /\ [Next]_vars => Inv'
  <1> SUFFICES ASSUME Inv, [Next]_vars PROVE Inv'
    OBVIOUS
  <1> USE BoundsAssumption, NobodyAssumption
          DEF Inv, cache, calls, Goto, Leading, Answered
  <1>1. ASSUME NEW c \in Callers, Hit(c) PROVE Inv'
    <2>1. TypeOK'     BY <1>1 DEF TypeOK, Hit
    <2>2. FlightInv'  BY <1>1 DEF TypeOK, FlightInv, Hit
    <2>3. AnswerInv'  BY <1>1 DEF TypeOK, AnswerInv, Hit, IsFresh, Cached
    <2> QED  BY <2>1, <2>2, <2>3
  <1>2. ASSUME NEW c \in Callers, Join(c) PROVE Inv'
    <2>1. TypeOK'     BY <1>2 DEF TypeOK, Join
    <2>2. FlightInv'  BY <1>2 DEF TypeOK, FlightInv, Join
    <2>3. AnswerInv'  BY <1>2 DEF TypeOK, FlightInv, AnswerInv, Join
    <2> QED  BY <2>1, <2>2, <2>3
  <1>3. ASSUME NEW c \in Callers, Lead(c) PROVE Inv'
    <2>1. TypeOK'     BY <1>3 DEF TypeOK, Lead
    <2>2. FlightInv'  BY <1>3 DEF TypeOK, FlightInv, Lead
    <2>3. AnswerInv'  BY <1>3 DEF TypeOK, AnswerInv, Lead
    <2> QED  BY <2>1, <2>2, <2>3
  <1>4. ASSUME NEW c \in Callers, Resolve(c) PROVE Inv'
    <2>1. TypeOK'     BY <1>4 DEF TypeOK, Resolve, Answers
    <2>2. FlightInv'  BY <1>4 DEF TypeOK, FlightInv, Resolve
    <2>3. AnswerInv'  BY <1>4 DEF TypeOK, AnswerInv, Resolve
    <2> QED  BY <2>1, <2>2, <2>3
  <1>5. ASSUME NEW c \in Callers, Store(c) PROVE Inv'
    <2> DEFINE stamp == [seq EXCEPT ![host[c]] = nextSeq + 1]
    <2>1. stamp \in [Hosts -> Nat]
      BY DEF TypeOK
    <2>2. TypeOK'
      <3>1. CASE answer[c].status = "some"
        <4>1. seq' = Evict(stamp) /\ nextSeq' = nextSeq + 1
          BY <1>5, <3>1 DEF Store
        <4>2. seq' \in [Hosts -> Nat] /\ nextSeq' \in Nat
          BY <2>1, <4>1, EvictType DEF TypeOK
        <4>3. exp' \in [Hosts -> Nat]
          BY <1>5, <3>1 DEF Store, TypeOK
        <4>4. entries' \in [Hosts -> Answers \cup {NoAnswer}]
          BY <1>5, <3>1 DEF Store, TypeOK
        <4> QED  BY <1>5, <4>2, <4>3, <4>4 DEF Store, TypeOK
      <3>2. CASE answer[c].status # "some"
        BY <1>5, <3>2 DEF Store, TypeOK
      <3> QED  BY <3>1, <3>2
    <2>3. FlightInv'  BY <1>5 DEF TypeOK, FlightInv, Store
    <2>5. ASSUME NEW h \in Hosts, seq'[h] > 0 PROVE entries'[h].host = h
      <3>1. CASE answer[c].status = "some"
        <4>1. stamp[h] > 0
          BY <1>5, <2>1, <2>5, <3>1, EvictType DEF Store
        <4> QED  BY <1>5, <3>1, <4>1 DEF Store, TypeOK, AnswerInv
      <3>2. CASE answer[c].status # "some"
        BY <1>5, <2>5, <3>2 DEF Store, TypeOK, AnswerInv
      <3> QED  BY <3>1, <3>2
    <2>6. AnswerInv'  BY <1>5, <2>5 DEF TypeOK, AnswerInv, Store
    <2> QED  BY <2>2, <2>3, <2>6
  <1>6. ASSUME NEW c \in Callers, Close(c) PROVE Inv'
    <2>1. TypeOK'     BY <1>6 DEF TypeOK, Close
    <2>2. FlightInv'  BY <1>6 DEF TypeOK, FlightInv, Close
    <2>3. AnswerInv'  BY <1>6 DEF TypeOK, AnswerInv, Close
    <2> QED  BY <2>1, <2>2, <2>3
  <1>7. ASSUME NEW c \in Callers, Wake(c) PROVE Inv'
    <2>1. TypeOK'     BY <1>7 DEF TypeOK, AnswerInv, Wake
    <2>2. FlightInv'  BY <1>7 DEF TypeOK, FlightInv, Wake
    <2>3. AnswerInv'  BY <1>7 DEF TypeOK, AnswerInv, Wake
    <2> QED  BY <2>1, <2>2, <2>3
  <1>8. ASSUME NEW c \in Callers,
               DialAddress(c) \/ DialDirect(c) \/ DialHost(c)
        PROVE  Inv'
    <2>1. TypeOK'
      BY <1>8 DEF TypeOK, DialAddress, DialDirect, DialHost
    <2>2. FlightInv'
      BY <1>8 DEF TypeOK, FlightInv, DialAddress, DialDirect, DialHost
    <2>3. AnswerInv'
      BY <1>8 DEF TypeOK, AnswerInv, DialAddress, DialDirect, DialHost
    <2> QED  BY <2>1, <2>2, <2>3
  <1>9. CASE Tick
    <2>1. TypeOK'     BY <1>9 DEF TypeOK, Tick
    <2>2. FlightInv'  BY <1>9 DEF TypeOK, FlightInv, Tick
    <2>3. AnswerInv'  BY <1>9 DEF TypeOK, AnswerInv, Tick
    <2> QED  BY <2>1, <2>2, <2>3
  <1>10. CASE UNCHANGED vars
    <2>1. TypeOK'     BY <1>10 DEF TypeOK, vars
    <2>2. FlightInv'  BY <1>10 DEF TypeOK, FlightInv, vars
    <2>3. AnswerInv'  BY <1>10 DEF TypeOK, AnswerInv, vars
    <2> QED  BY <2>1, <2>2, <2>3
  <1> QED
    BY <1>1, <1>2, <1>3, <1>4, <1>5, <1>6, <1>7, <1>8, <1>9, <1>10
    DEF Next, Enter, Proceed

LEMMA Invariance == Spec => []Inv
  BY InvInit, InvNext, PTL DEF Spec

\* Lookup keeps every field of the cache and of its calls in its type.
THEOREM TypeCorrect == Spec => []TypeOK
  <1>1. Inv => TypeOK
    BY DEF Inv
  <1> QED
    BY <1>1, Invariance, PTL

\* However calls for a host interleave with flights that start and land, no
\* two of them are in c.resolve for it at a time.
THEOREM OneFlightPerHost == Spec => []SingleFlight
  <1>1. Inv => SingleFlight
    BY DEF Inv, TypeOK, FlightInv, Leading, SingleFlight
  <1> QED
    BY <1>1, Invariance, PTL

\* A call that blocks on fl.done has somebody who will close it.
THEOREM WaitersHaveALeader == Spec => []WaitsForSomebody
  <1>1. Inv => WaitsForSomebody
    BY DEF Inv, AnswerInv, WaitsForSomebody
  <1> QED
    BY <1>1, Invariance, PTL

\* A call returns an answer about the host it asked for, whether it comes from
\* the cache, from its own flight or from another call's.
THEOREM AnswersMatchHosts == Spec => []AnswerIsForHost
  <1>1. Inv => AnswerIsForHost
    BY DEF Inv, AnswerInv, AnswerIsForHost, Answered
  <1> QED
    BY <1>1, Invariance, PTL

-----------------------------------------------------------------------------
(* Freshness, eviction order and size.                                     *)

\* An answer that is about to be stored has just arrived; one that is cached
\* is positive and expires ttl after it arrived.
FreshInv ==
    /\ \A c \in Callers : pc[c] = "store" => answer[c].at = now
    /\ \A h \in Hosts : seq[h] > 0 =>
          /\ entries[h].status = "some"
          /\ exp[h] = entries[h].at + ttl

LEMMA FreshInit == Init => FreshInv
  BY DEF Init, FreshInv

LEMMA FreshNext == TypeOK /\ FreshInv /\ [Next]_vars => FreshInv'
  <1> SUFFICES ASSUME TypeOK, FreshInv, [Next]_vars PROVE FreshInv'
    OBVIOUS
  <1> USE BoundsAssumption DEF TypeOK, FreshInv, cache, calls, Goto
  <1>1. ASSUME NEW c \in Callers, Enter(c) PROVE FreshInv'
    BY <1>1 DEF Enter, Hit, Join, Lead
  <1>2. ASSUME NEW c \in Callers, Resolve(c) PROVE FreshInv'
    BY <1>2 DEF Resolve
  <1>3. ASSUME NEW c \in Callers, Store(c) PROVE FreshInv'
    <2> DEFINE stamp == [seq EXCEPT ![host[c]] = nextSeq + 1]
    <2>1. ASSUME NEW h \in Hosts, seq'[h] > 0
          PROVE  entries'[h].status = "some" /\ exp'[h] = entries'[h].at + ttl
      <3>1. CASE answer[c].status = "some"
        <4>1. stamp \in [Hosts -> Nat] /\ seq' = Evict(stamp)
          BY <1>3, <3>1 DEF Store
        <4>2. stamp[h] > 0
          BY <2>1, <4>1, EvictType
        <4>3. CASE h = host[c]
          BY <1>3, <3>1, <4>3 DEF Store
        <4>4. CASE h # host[c]
          BY <1>3, <3>1, <4>2, <4>4 DEF Store
        <4> QED  BY <4>3, <4>4
      <3>2. CASE answer[c].status # "some"
        BY <1>3, <2>1, <3>2 DEF Store
      <3> QED  BY <3>1, <3>2
    <2> QED  BY <1>3, <2>1 DEF Store
  <1>4. ASSUME NEW c \in Callers, Close(c) \/ Wake(c) PROVE FreshInv'
    BY <1>4 DEF Close, Wake
  <1>5. ASSUME NEW c \in Callers,
               DialAddress(c) \/ DialDirect(c) \/ DialHost(c)
        PROVE  FreshInv'
    BY <1>5 DEF DialAddress, DialDirect, DialHost
  <1>6. CASE Tick
    BY <1>6 DEF Tick
  <1>7. CASE UNCHANGED vars
    BY <1>7 DEF vars
  <1> QED
    BY <1>1, <1>2, <1>3, <1>4, <1>5, <1>6, <1>7 DEF Next, Proceed

\* Lookup serves from the cache only addresses that arrived less than ttl ago.
THEOREM HitsAreFresh == Spec => []ServedIsFreshAndPositive
  <1>1. TypeOK /\ FreshInv => ServedIsFreshAndPositive
    BY DEF TypeOK, FreshInv, ServedIsFreshAndPositive, IsFresh, Cached
  <1> QED
    BY <1>1, FreshInit, FreshNext, TypeCorrect, PTL DEF Spec

\* No stamp is given twice, and none was given beyond nextSeq.
StampInv ==
    /\ \A h \in Hosts : seq[h] <= nextSeq
    /\ \A h, g \in Hosts : seq[h] > 0 /\ seq[h] = seq[g] => h = g

LEMMA StampInit == Init => StampInv
  BY DEF Init, StampInv

\* Any step but a Store of addresses leaves the stamps alone.
LEMMA StampsChange ==
    ASSUME TypeOK, [Next]_vars
    PROVE  \/ /\ seq' = seq
              /\ nextSeq' = nextSeq
           \/ \E c \in Callers :
                 /\ nextSeq' = nextSeq + 1
                 /\ seq' = Evict([seq EXCEPT ![host[c]] = nextSeq + 1])
  BY DEF Next, Enter, Proceed, Hit, Join, Lead, Resolve, Store, Close, Wake,
         DialAddress, DialDirect, DialHost, Tick, vars, cache

LEMMA StampNext == TypeOK /\ StampInv /\ [Next]_vars => StampInv'
  <1> SUFFICES ASSUME TypeOK, StampInv, [Next]_vars PROVE StampInv'
    OBVIOUS
  <1>1. CASE seq' = seq /\ nextSeq' = nextSeq
    BY <1>1 DEF StampInv
  <1>2. ASSUME NEW c \in Callers, nextSeq' = nextSeq + 1,
               seq' = Evict([seq EXCEPT ![host[c]] = nextSeq + 1])
        PROVE  StampInv'
    <2> DEFINE stamp == [seq EXCEPT ![host[c]] = nextSeq + 1]
    <2>1. stamp \in [Hosts -> Nat]
      BY DEF TypeOK
    <2>2. \A h \in Hosts : stamp[h] <= nextSeq + 1
      BY DEF TypeOK, StampInv
    <2>3. \A h, g \in Hosts : stamp[h] > 0 /\ stamp[h] = stamp[g] => h = g
      BY DEF TypeOK, StampInv
    <2>4. \A h \in Hosts : seq'[h] \in {0, stamp[h]}
      BY <1>2, <2>1, EvictType
    <2>5. nextSeq \in Nat /\ nextSeq' = nextSeq + 1
      BY <1>2 DEF TypeOK
    <2> HIDE DEF stamp
    <2>6. \A h \in Hosts : seq'[h] <= nextSeq'
      BY <2>1, <2>2, <2>4, <2>5
    <2>7. \A h, g \in Hosts : seq'[h] > 0 /\ seq'[h] = seq'[g] => h = g
      BY <2>1, <2>3, <2>4
    <2> QED
      BY <2>6, <2>7 DEF StampInv
  <1> QED
    BY <1>1, <1>2, StampsChange

\* What evictLocked drops was inserted before everything it keeps, whatever
\* was inserted, expired and inserted again before; and what Lookup has just
\* inserted is kept.
THEOREM OldestIsEvicted == Spec => EvictsOldest
  <1> DEFINE Drops == \A h \in Cached \ Cached' :
                          \A g \in Cached' : seq[h] < seq'[g]
             Keeps == nextSeq' # nextSeq /\ max > 0 =>
                          \E g \in Cached' : seq'[g] = nextSeq'
  <1>1. TypeOK /\ StampInv /\ [Next]_vars => [Drops]_vars
    <2> SUFFICES ASSUME TypeOK, StampInv, [Next]_vars,
                        NEW h \in Cached \ Cached', NEW g \in Cached'
                 PROVE  seq[h] < seq'[g]
      OBVIOUS
    <2>1. PICK c \in Callers :
             /\ nextSeq' = nextSeq + 1
             /\ seq' = Evict([seq EXCEPT ![host[c]] = nextSeq + 1])
      BY StampsChange DEF Cached
    <2> DEFINE stamp == [seq EXCEPT ![host[c]] = nextSeq + 1]
    <2>2. /\ stamp \in [Hosts -> Nat] /\ h \in Hosts /\ g \in Hosts
          /\ seq[h] > 0 /\ seq'[g] > 0
      BY DEF TypeOK, Cached
    <2>3. \A f \in Hosts : seq'[f] \in Nat /\ seq'[f] \in {0, stamp[f]}
      <3>1. Evict(stamp) \in [Hosts -> Nat]
        BY <2>2, EvictType
      <3>2. \A f \in Hosts : Evict(stamp)[f] \in {0, stamp[f]}
        BY <2>2, EvictType
      <3> QED  BY <2>1, <3>1, <3>2
    <2>4. seq'[h] = 0
      BY <2>2, <2>3 DEF Cached
    <2>5. stamp[h] > 0 /\ seq[h] <= stamp[h]
      BY <2>2 DEF TypeOK, StampInv
    <2>6. \A f \in Hosts : stamp[f] > 0 => stamp[h] <= stamp[f]
      BY <2>1, <2>2, <2>4, <2>5 DEF Evict
    <2>7. seq'[g] = stamp[g] /\ h # g
      BY <2>2, <2>4, <2>3
    <2>8. stamp[h] # stamp[g]
      BY <2>2, <2>7 DEF TypeOK, StampInv
    <2> HIDE DEF stamp
    <2> QED
      BY <2>2, <2>5, <2>6, <2>7, <2>8 DEF TypeOK
  <1>2. TypeOK /\ StampInv /\ [Next]_vars => [Keeps]_vars
    <2> SUFFICES ASSUME TypeOK, StampInv, [Next]_vars,
                        nextSeq' # nextSeq, max > 0
                 PROVE  \E g \in Cached' : seq'[g] = nextSeq'
      OBVIOUS
    <2> USE BoundsAssumption
    <2>1. PICK c \in Callers :
             /\ nextSeq' = nextSeq + 1
             /\ seq' = Evict([seq EXCEPT ![host[c]] = nextSeq + 1])
      BY StampsChange
    <2> DEFINE h == host[c]
               stamp == [seq EXCEPT ![h] = nextSeq + 1]
               live == {g \in Hosts : stamp[g] > 0}
    <2>2. /\ stamp \in [Hosts -> Nat] /\ nextSeq \in Nat
          /\ h \in Hosts /\ stamp[h] = nextSeq + 1
      BY DEF TypeOK
    <2>3. \A g \in Hosts : g # h => stamp[g] <= nextSeq
      BY DEF TypeOK, StampInv
    <2>4. Evict(stamp)[h] = stamp[h]
      <3>1. CASE Cardinality(live) > max
        <4>1. live # {h}
          <5>1. Cardinality({h}) = 1
            BY FS_Singleton
          <5>2. ASSUME live = {h} PROVE FALSE
            <6>1. Cardinality(live) = 1
              BY <5>1, <5>2
            <6> HIDE DEF live
            <6> QED
              BY <3>1, <6>1
          <5> QED
            BY <5>2
        <4>2. PICK g \in live : g # h
          BY <2>2, <4>1
        <4>3. ~(stamp[h] <= stamp[g])
          BY <2>2, <2>3, <4>2
        <4> QED
          BY <2>2, <3>1, <4>2, <4>3 DEF Evict
      <3>2. CASE ~(Cardinality(live) > max)
        BY <3>2 DEF Evict
      <3> QED
        BY <3>1, <3>2
    <2>5. seq'[h] = nextSeq'
      BY <2>1, <2>2, <2>4
    <2>6. seq'[h] > 0
      BY <2>1, <2>2, <2>5
    <2>7. h \in Cached'
      BY <2>2, <2>6 DEF Cached
    <2> QED
      BY <2>5, <2>7
  <1> QED
    BY <1>1, <1>2, StampInit, StampNext, TypeCorrect, PTL DEF Spec, EvictsOldest

\* A set of stamped hosts that is not empty has an oldest.
LEMMA OldestExists ==
    ASSUME NEW stamp \in [Hosts -> Nat], NEW live \in SUBSET Hosts, live # {}
    PROVE  \E h \in live : \A g \in live : stamp[h] <= stamp[g]
  <1> DEFINE R == {ss \in Nat \X Nat : ss[1] < ss[2]}
             T == {stamp[h] : h \in live}
  <1>1. T \subseteq Nat /\ T # {}
    OBVIOUS
  <1>2. IsWellFoundedOn(R, Nat)
    BY NatLessThanWellFounded DEF OpToRel
  <1> HIDE DEF R
  <1>3. PICK x \in T : \A y \in T : ~(<<y, x>> \in R)
    BY <1>1, <1>2, WFMin
  <1>4. \A y \in T : y < x => <<y, x>> \in R
    BY <1>1 DEF R
  <1>5. PICK h \in live : x = stamp[h]
    OBVIOUS
  <1>6. \A g \in live : stamp[g] \in T /\ stamp[g] \in Nat
    OBVIOUS
  <1> HIDE DEF T
  <1>7. ASSUME NEW g \in live PROVE stamp[h] <= stamp[g]
    <2>1. ~(stamp[g] < x)
      BY <1>3, <1>4, <1>6
    <2> QED
      BY <1>5, <1>6, <2>1
  <1> QED
    BY <1>7

\* evictLocked brings a cache that one insertion made too large back to its
\* size.
LEMMA EvictBounds ==
    ASSUME NEW stamp \in [Hosts -> Nat],
           Cardinality({h \in Hosts : stamp[h] > 0}) <= max + 1
    PROVE  Cardinality({h \in Hosts : Evict(stamp)[h] > 0}) <= max
  <1> DEFINE live == {h \in Hosts : stamp[h] > 0}
             left == {h \in Hosts : Evict(stamp)[h] > 0}
  <1> USE BoundsAssumption
  <1>1. live \in SUBSET Hosts /\ IsFiniteSet(live)
    BY CallersAssumption, FS_Subset
  <1>2. Cardinality(live) \in Nat
    BY <1>1, FS_CardinalityType
  <1>3. CASE Cardinality(live) > max
    <2>1. live # {}
      BY <1>3, FS_EmptySet
    <2>2. PICK old \in live : \A g \in live : stamp[old] <= stamp[g]
      BY <1>1, <2>1, OldestExists
    <2>3. left \in SUBSET (live \ {old})
      BY <1>3, <2>2 DEF Evict
    <2>4. /\ IsFiniteSet(live \ {old})
          /\ Cardinality(live \ {old}) = Cardinality(live) - 1
      BY <1>1, FS_RemoveElement
    <2>5. Cardinality(left) <= Cardinality(live \ {old})
      BY <2>3, <2>4, FS_Subset
    <2>6. Cardinality(left) \in Nat
      BY <2>3, <2>4, FS_Subset, FS_CardinalityType
    <2> QED
      BY <1>2, <2>4, <2>5, <2>6
  <1>4. CASE ~(Cardinality(live) > max)
    <2>1. Evict(stamp) = stamp
      BY <1>4 DEF Evict
    <2> QED
      BY <1>2, <1>4, <2>1
  <1> QED
    BY <1>3, <1>4

\* The cache keeps to its size: an insertion adds one entry at most, so one
\* eviction is enough, and there is always an oldest entry to evict.
THEOREM SizeIsBounded == Spec => []CacheBounded
  <1> USE BoundsAssumption
  <1>1. Init => CacheBounded
    <2> SUFFICES ASSUME Init PROVE CacheBounded
      OBVIOUS
    <2>1. Cached = {}
      BY DEF Init, Cached
    <2> QED
      BY <2>1, FS_EmptySet DEF CacheBounded
  <1>2. TypeOK /\ CacheBounded /\ [Next]_vars => CacheBounded'
    <2> SUFFICES ASSUME TypeOK, CacheBounded, [Next]_vars PROVE CacheBounded'
      OBVIOUS
    <2>1. CASE seq' = seq
      BY <2>1 DEF CacheBounded, Cached
    <2>2. ASSUME NEW c \in Callers,
                 seq' = Evict([seq EXCEPT ![host[c]] = nextSeq + 1])
          PROVE  CacheBounded'
      <3> DEFINE stamp == [seq EXCEPT ![host[c]] = nextSeq + 1]
                 live == {h \in Hosts : stamp[h] > 0}
      <3>1. stamp \in [Hosts -> Nat]
        BY DEF TypeOK
      <3>2. live \in SUBSET (Cached \cup {host[c]})
        BY DEF TypeOK, Cached
      <3>3. IsFiniteSet(Cached) /\ Cardinality(Cached) \in Nat
        BY CallersAssumption, FS_Subset, FS_CardinalityType DEF Cached
      <3>4. /\ IsFiniteSet(Cached \cup {host[c]})
            /\ Cardinality(Cached \cup {host[c]}) \in Nat
            /\ Cardinality(Cached \cup {host[c]}) <= Cardinality(Cached) + 1
        BY <3>3, FS_AddElement
      <3>5. Cardinality(live) <= max + 1
        <4>1. /\ Cardinality(live) \in Nat
              /\ Cardinality(live) <= Cardinality(Cached \cup {host[c]})
          BY <3>2, <3>4, FS_Subset, FS_CardinalityType
        <4> QED
          BY <3>3, <3>4, <4>1 DEF CacheBounded
      <3> QED
        BY <2>2, <3>1, <3>5, EvictBounds DEF CacheBounded, Cached
    <2> QED
      BY <2>1, <2>2, StampsChange
  <1> QED
    BY <1>1, <1>2, TypeCorrect, PTL DEF Spec

=============================================================================
