------------------------------ MODULE DNSCache ------------------------------
(***************************************************************************)
(* The resolver cache in front of every upstream dial and every proxied    *)
(* DNS answer (connections/base/dnscache.go): a time-to-live, single       *)
(* flight, first-in-first-out eviction, and the dial that falls back to    *)
(* the plain host name.  One process per call of dialCached.               *)
(***************************************************************************)
EXTENDS Integers, FiniteSets

CONSTANTS Callers, \* calls of dialCached
          Hosts,   \* host names
          ttl, max, \* the fields of DNSCache
          MaxTime  \* bound: how far the clock goes

ASSUME CallersAssumption == IsFiniteSet(Callers) /\ IsFiniteSet(Hosts)
ASSUME BoundsAssumption == ttl \in Nat /\ max \in Nat /\ MaxTime \in Nat

Nobody == "nobody"
ASSUME NobodyAssumption == Nobody \notin Callers

(***************************************************************************)
(* What a resolution yields: how it ended, for which host, and when.       *)
(* "some" stands for a non-empty list of addresses, "nothing" for an error *)
(* or an empty list, which the code treats alike.                          *)
(***************************************************************************)
Answers == [status : {"some", "nothing"}, host : Hosts, at : Nat]

VARIABLES
    entries,  \* the answers that are cached, by host
    exp, seq, \* when each expires; its insertion stamp, 0 when not cached
    inflight, \* host -> the call that resolves it, or Nobody
    nextSeq,  \* the last stamp given
    now,      \* the clock
    pc, host, \* per call: where it is and what it looks up
    flight,   \* per call: the flight it leads or waits for, by its leader
    done,     \* per call: whether the flight it leads is closed
    answer    \* per call: fl.ips and fl.err of the flight it leads, or the
              \* answer it returns

cache == <<entries, exp, seq, inflight, nextSeq>>
calls == <<host, flight, done, answer>>
vars == <<cache, now, pc, calls>>

NoAnswer == [status |-> "none", host |-> Nobody, at |-> 0]

Init ==
    /\ entries = [h \in Hosts |-> NoAnswer]
    /\ exp = [h \in Hosts |-> 0]
    /\ seq = [h \in Hosts |-> 0]
    /\ inflight = [h \in Hosts |-> Nobody]
    /\ nextSeq = 0
    /\ now = 0
    /\ pc = [c \in Callers |-> "new"]
    /\ host \in [Callers -> Hosts]
    /\ flight = [c \in Callers |-> Nobody]
    /\ done = [c \in Callers |-> FALSE]
    /\ answer = [c \in Callers |-> NoAnswer]

Goto(c, from, to) == /\ pc[c] = from
                     /\ pc' = [pc EXCEPT ![c] = to]

Cached == {h \in Hosts : seq[h] > 0}

IsFresh(h) == h \in Cached /\ now < exp[h]

-----------------------------------------------------------------------------
(* Lookup.  The first three actions are the first critical section.        *)

Hit(c) ==
    /\ IsFresh(host[c])
    /\ Goto(c, "new", "returned")
    /\ answer' = [answer EXCEPT ![c] = entries[host[c]]]
    /\ UNCHANGED <<cache, now, host, flight, done>>

Join(c) ==
    /\ ~IsFresh(host[c])
    /\ inflight[host[c]] # Nobody
    /\ Goto(c, "new", "wait")
    /\ flight' = [flight EXCEPT ![c] = inflight[host[c]]]
    /\ UNCHANGED <<cache, now, host, done, answer>>

\* Mutant of Lead: the flight is not registered.
LeadUnregistered(c) ==
    /\ ~IsFresh(host[c])
    /\ inflight[host[c]] = Nobody
    /\ Goto(c, "new", "resolve")
    /\ flight' = [flight EXCEPT ![c] = c]
    /\ UNCHANGED <<cache, now, host, done, answer>>

Lead(c) ==
    /\ ~IsFresh(host[c])
    /\ inflight[host[c]] = Nobody
    /\ Goto(c, "new", "resolve")
    /\ inflight' = [inflight EXCEPT ![host[c]] = c]
    /\ flight' = [flight EXCEPT ![c] = c]
    /\ UNCHANGED <<entries, exp, seq, nextSeq, now, host, done, answer>>

\* fl.ips, fl.err = c.resolve(host), without the lock.
Resolve(c) ==
    /\ Goto(c, "resolve", "store")
    /\ \E status \in {"some", "nothing"} :
          answer' = [answer EXCEPT ![c] =
                        [status |-> status, host |-> host[c], at |-> now]]
    /\ UNCHANGED <<cache, now, host, flight, done>>

\* Mutant of Evict: the newest entry goes.
EvictNewest(stamp) ==
    LET live == {h \in Hosts : stamp[h] > 0}
        newest == {h \in live : \A g \in live : stamp[h] >= stamp[g]}
    IN  IF Cardinality(live) > max
        THEN [h \in Hosts |-> IF h \in newest THEN 0 ELSE stamp[h]]
        ELSE stamp

\* evictLocked, with the stamps `stamp': the oldest entry goes when there are
\* too many.  One insertion cannot make the loop run twice.
Evict(stamp) ==
    LET live == {h \in Hosts : stamp[h] > 0}
        oldest == {h \in live : \A g \in live : stamp[h] <= stamp[g]}
    IN  IF Cardinality(live) > max
        THEN [h \in Hosts |-> IF h \in oldest THEN 0 ELSE stamp[h]]
        ELSE stamp

\* Mutant of Store: errors are cached too.
StoreAnything(c) ==
    LET h == host[c]
    IN  /\ Goto(c, "store", "close")
        /\ inflight' = [inflight EXCEPT ![h] = Nobody]
        /\ nextSeq' = nextSeq + 1
        /\ entries' = [entries EXCEPT ![h] = answer[c]]
        /\ exp' = [exp EXCEPT ![h] = now + ttl]
        /\ seq' = Evict([seq EXCEPT ![h] = nextSeq + 1])
        /\ UNCHANGED <<now, calls>>

\* The second critical section: delete(c.inflight, host), and a positive
\* answer goes into the cache.
Store(c) ==
    LET h == host[c]
    IN  /\ Goto(c, "store", "close")
        /\ inflight' = [inflight EXCEPT ![h] = Nobody]
        /\ IF answer[c].status = "some"
           THEN /\ nextSeq' = nextSeq + 1
                /\ entries' = [entries EXCEPT ![h] = answer[c]]
                /\ exp' = [exp EXCEPT ![h] = now + ttl]
                /\ seq' = Evict([seq EXCEPT ![h] = nextSeq + 1])
           ELSE UNCHANGED <<entries, exp, seq, nextSeq>>
        /\ UNCHANGED <<now, calls>>

\* Mutant of Close: the flight is closed on success only.
CloseOnSuccess(c) ==
    /\ Goto(c, "close", "returned")
    /\ done' = [done EXCEPT ![c] = answer[c].status = "some"]
    /\ UNCHANGED <<cache, now, host, flight, answer>>

\* close(fl.done)
Close(c) ==
    /\ Goto(c, "close", "returned")
    /\ done' = [done EXCEPT ![c] = TRUE]
    /\ UNCHANGED <<cache, now, host, flight, answer>>

\* <-fl.done; return fl.ips, fl.err
Wake(c) ==
    /\ Goto(c, "wait", "returned")
    /\ done[flight[c]]
    /\ answer' = [answer EXCEPT ![c] = answer[flight[c]]]
    /\ UNCHANGED <<cache, now, host, flight, done>>

-----------------------------------------------------------------------------
(* dialCached after Lookup: the addresses in turn, then the host name.     *)

DialAddress(c) ==
    /\ Goto(c, "returned", "connected") \/ Goto(c, "returned", "direct")
    /\ answer[c].status = "some"
    /\ UNCHANGED <<cache, now, calls>>

DialDirect(c) ==
    /\ Goto(c, "returned", "direct")
    /\ answer[c].status # "some"
    /\ UNCHANGED <<cache, now, calls>>

DialHost(c) ==
    /\ Goto(c, "direct", "connected") \/ Goto(c, "direct", "failed")
    /\ UNCHANGED <<cache, now, calls>>

\* The clock advances while calls wait for a resolver or a target;
\* a result that has arrived is stored without delay.
Tick ==
    /\ now < MaxTime
    /\ \A c \in Callers : pc[c] # "store"
    /\ now' = now + 1
    /\ UNCHANGED <<cache, pc, calls>>

-----------------------------------------------------------------------------
Enter(c) == Hit(c) \/ Join(c) \/ Lead(c)

Proceed(c) == \/ Resolve(c) \/ Store(c) \/ Close(c) \/ Wake(c)
              \/ DialAddress(c) \/ DialDirect(c) \/ DialHost(c)

Next == \/ \E c \in Callers : Enter(c) \/ Proceed(c)
        \/ Tick

Spec == Init /\ [][Next]_vars

\* The system resolver and the dialer return (both time out); a goroutine
\* that can run does.
FairSpec == Spec /\ \A c \in Callers : WF_vars(Proceed(c))

-----------------------------------------------------------------------------
(* Properties.                                                             *)

TypeOK ==
    /\ entries \in [Hosts -> Answers \cup {NoAnswer}]
    /\ exp \in [Hosts -> Nat]
    /\ seq \in [Hosts -> Nat]
    /\ inflight \in [Hosts -> Callers \cup {Nobody}]
    /\ nextSeq \in Nat
    /\ now \in Nat
    /\ pc \in [Callers -> {"new", "resolve", "store", "close", "wait",
                           "returned", "direct", "connected", "failed"}]
    /\ host \in [Callers -> Hosts]
    /\ flight \in [Callers -> Callers \cup {Nobody}]
    /\ done \in [Callers -> BOOLEAN]
    /\ answer \in [Callers -> Answers \cup {NoAnswer}]

\* "Concurrent misses for the same host share one resolution": a host is never
\* being resolved twice at a time.
SingleFlight ==
    \A c, d \in Callers :
        pc[c] = "resolve" /\ pc[d] = "resolve" /\ host[c] = host[d] => c = d

\* The cache keeps to its size after every insertion.
CacheBounded == Cardinality(Cached) <= max

\* "Positive results are cached for ttl; errors and empty results are never
\* cached": what Lookup would serve from the cache now is a list of addresses
\* that the resolver returned less than ttl ago, through any sequence of
\* expiry, eviction and resolving again.
ServedIsFreshAndPositive ==
    \A h \in Hosts : IsFresh(h) =>
        /\ entries[h].status = "some"
        /\ now < entries[h].at + ttl

\* What a call returns, from the cache, its own flight or another's, is about
\* the host it asked for.
AnswerIsForHost ==
    \A c \in Callers :
        pc[c] \in {"returned", "direct", "connected", "failed"} =>
            answer[c].host = host[c]

\* "Insertions beyond max evict the oldest entry", and a host that was
\* resolved again counts as new: whatever a step drops is older than all that
\* it keeps, and an insertion does not evict itself.
EvictsOldest ==
    [][/\ \A h \in Cached \ Cached' : \A g \in Cached' : seq[h] < seq'[g]
       /\ nextSeq' # nextSeq /\ max > 0 =>
             \E g \in Cached' : seq'[g] = nextSeq']_vars

\* A caller that waits is waiting for a flight that somebody will land.
WaitsForSomebody ==
    \A c \in Callers : pc[c] = "wait" =>
        \/ done[flight[c]]
        \/ pc[flight[c]] \in {"resolve", "store", "close"}

\* Every call that got past the first critical section returns.
LookupReturns ==
    \A c \in Callers :
        pc[c] \in {"wait", "resolve"} ~> pc[c] \in {"connected", "failed"}

=============================================================================
