----------------------------- MODULE ClientDNS -----------------------------
(***************************************************************************)
(* Split resolution and split routing of the client: the local DNS server  *)
(* (connections/prodns) and the choice Socks5Listen makes for each         *)
(* connection (clientcontroll/controll.go).  A name of the PAC list is     *)
(* resolved through the tunnel, any other one by a resolver nearby; a      *)
(* connection goes through the tunnel, or directly when its address or     *)
(* name is known to be local.                                              *)
(*                                                                         *)
(* A name is the sequence of its labels, the last one first.  Queries are  *)
(* served by goroutines; the lines of the list are loaded one at a time    *)
(* while they run.  What is only counted or logged (queryWait, ip2host) is *)
(* left out.  The stub resolvers that ask take an answer only when it      *)
(* carries the number of their question, and ask again otherwise: the      *)
(* replies built from a new message, those of ResolveProxy and the one for *)
(* wpad.lan, carry the number 0.                                           *)
(***************************************************************************)
EXTENDS Integers, Sequences, FiniteSets, SequencesExt

CONSTANTS
    Names,      \* names asked for
    Wpad,       \* wpad.lan
    Ips,        \* addresses
    Zero,       \* 0.0.0.0
    ConfigIp,   \* 99.254.254.254
    China,      \* the addresses geo.CountryCode places in China
    Net,        \* the /24 network of an address
    PacFile,    \* the names of the PAC file, in its order
    RuleFile,   \* the names and addresses of local.conf, patterns expanded
    CnOf,       \* what the resolver nearby answers for a name
    RemoteOf,   \* what the lookup of the server finds for a name
    Handlers,   \* goroutines that serve queries
    MaxEvents   \* bound: questions, failures and expired records together

ASSUME NamesAssumption == Wpad \in Names /\ Names \subseteq Seq(STRING) \ {<<>>}
ASSUME IpsAssumption ==
    /\ Zero \notin Ips /\ ConfigIp \in Ips /\ China \subseteq Ips
    /\ IsFiniteSet(Ips) /\ Ips \cap Names = {}
ASSUME FilesAssumption ==
    /\ PacFile \in Seq(Seq(STRING) \ {<<>>}) /\ RuleFile \subseteq Names \cup Ips
ASSUME AnswersAssumption ==
    /\ CnOf \in [Names -> Seq(Ips \cup {Zero})]
    /\ RemoteOf \in [Names -> SUBSET (Ips \cup {Zero})]
ASSUME BoundsAssumption == Handlers \subseteq Nat /\ MaxEvents \in Nat

VARIABLES
    machine,  \* "router", "linux" or "other"
    mode,     \* c.Mode: "smart" or "global"
    pac,      \* PAC_HOSTS
    lines,    \* how many lines of the PAC file are loaded
    local,    \* the keys of local2host, and what fuzzyHost matches
    direct,   \* DYNAMIC_DIRECT, the networks put into the ipset
    cache,    \* domainsToAddresses
    want,     \* names a stub resolver waits for
    h,        \* the goroutines that serve queries
    conn,     \* the connection decided last
    events

vars == <<machine, mode, pac, lines, local, direct, cache, want, h, conn, events>>

Machines == {"router", "linux", "other"}
router == machine = "router"              \* IsRouter()
smart == machine # "other" /\ mode = "smart"

NoRecord == [ips |-> {}, dead |-> TRUE]
Idle == [pc |-> "idle", dom |-> <<>>, ips |-> <<>>, match |-> TRUE, early |-> FALSE]
NoConn == [to |-> Zero, path |-> "none", early |-> FALSE]

Init ==
    /\ machine \in Machines /\ mode = "smart"
    /\ pac = {} /\ lines = 0 /\ local = {} /\ direct = {}
    /\ cache = [d \in Names |-> NoRecord] /\ want = {}
    /\ h = [i \in Handlers |-> Idle] /\ conn = NoConn /\ events = 0

Event == events < MaxEvents /\ events' = events + 1

-----------------------------------------------------------------------------
(* The PAC list and the local rules.                                        *)

\* The domains a name belongs to, itself included.
Above(d) == {SubSeq(d, 1, k) : k \in 1 .. Len(d)}

Hit(d) == Above(d) \cap pac # {}

\* Mutant: only the whole name is looked up.
IsPacWhole(d) == pac = {} \/ d \in pac

IsPac(d) == pac = {} \/ Hit(d)

\* Mutant: the parent of the name is remembered.
RememberParent(d) ==
    pac' = IF Hit(d) THEN pac \cup {SubSeq(d, 1, Len(d) - 1)} ELSE pac

\* IsPac remembers a name one of whose suffixes it has found.
Remember(d) == pac' = IF Hit(d) THEN pac \cup {d} ELSE pac

\* AutoLoadPac, LoadLocalPac: one line.
LoadLocalPac ==
    /\ lines < Len(PacFile) /\ lines' = lines + 1
    /\ pac' = pac \cup {PacFile[lines']}
    /\ UNCHANGED <<machine, mode, local, direct, cache, want, h, conn, events>>

Loading == lines \in 1 .. Len(PacFile) - 1

LoadLocalRule ==
    /\ ~(RuleFile \subseteq local) /\ local' = local \cup RuleFile
    /\ UNCHANGED <<machine, mode, pac, lines, direct, cache, want, h, conn, events>>

IsLocal(x) == x \in local

\* AddLocalIP: the kernel exempts the networks of the addresses.
AddLocalIP(ips) == direct' = direct \cup {Net[ip] : ip \in ips}

-----------------------------------------------------------------------------
(* ServeDNS for a question of type A.                                       *)

NonZero(ips) == ToSet(ips) \ {Zero}
Answerable == {d \in Names \ {Wpad} : NonZero(CnOf[d]) # {}}

Busy(i) == h[i].pc # "idle"

\* Goroutines have no identity: a question takes the first free number.
Free(i) == ~Busy(i) /\ \A j \in Handlers : j < i => Busy(j)

Spawn(i, d) ==
    /\ Free(i) /\ h' = [h EXCEPT ![i] = [Idle EXCEPT !.pc = "cache", !.dom = d]]
    /\ want' = want \cup {d}
    /\ UNCHANGED <<machine, mode, pac, lines, local, direct, cache, conn>>

\* A stub resolver asks, or asks again because it waited long enough ...
Ask(i) == Event /\ \E d \in Names : Spawn(i, d)

\* ... or because the answer that came was not one to its question; it gives
\* up on a name for which no attempt can end in another way.
AskAgain(i) ==
    /\ \E d \in want \cap Answerable : /\ \A j \in Handlers : Busy(j) => h[j].dom # d
                       /\ Spawn(i, d)
    /\ UNCHANGED events

At(i, p) == h[i].pc = p
Go(i, p) == h' = [h EXCEPT ![i].pc = p]
Reply(i, ips, match) ==
    h' = [h EXCEPT ![i].pc = "write", ![i].ips = ips, ![i].match = match]

\* ResolveCache: the addresses of a live record, one drawn at random first.
ResolveCache(i) ==
    /\ At(i, "cache")
    /\ LET r == cache[h[i].dom]
       IN  IF r = NoRecord THEN Go(i, "test")
           ELSE IF r.dead THEN Go(i, "delete")
           ELSE \E s \in SetToSeqs(r.ips) : Reply(i, s, TRUE)
    /\ UNCHANGED <<machine, mode, pac, lines, local, direct, cache, want, conn, events>>

\* The expired record is deleted, or the one that has replaced it.
Delete(i) ==
    /\ At(i, "delete") /\ Go(i, "test")
    /\ cache' = [cache EXCEPT ![h[i].dom] = NoRecord]
    /\ UNCHANGED <<machine, mode, pac, lines, local, direct, want, conn, events>>

\* The mode of the DNS handler is never set: it stays smart.
Test(i) ==
    /\ At(i, "test")
    /\ IF ~router THEN Reply(i, <<>>, TRUE) /\ UNCHANGED pac
       ELSE /\ h' = [h EXCEPT ![i].pc = IF IsPac(h[i].dom) THEN "remote" ELSE "cn",
                              ![i].early = Loading]
            /\ Remember(h[i].dom)
    /\ UNCHANGED <<machine, mode, lines, local, direct, cache, want, conn, events>>

\* Mutant: a record without addresses is stored too.
StoreAlways(i, ips) ==
    cache' = [cache EXCEPT ![h[i].dom] = [ips |-> NonZero(ips), dead |-> FALSE]]

Store(i, ips) ==
    cache' = IF NonZero(ips) = {} THEN cache
             ELSE [cache EXCEPT ![h[i].dom] = [ips |-> NonZero(ips), dead |-> FALSE]]

\* ResolveProxy: the exchange, which may fail; the networks of the addresses
\* are exempted in the kernel (AddLocalIP) ...
ResolveProxy(i) ==
    /\ At(i, "cn")
    /\ \/ /\ h' = [h EXCEPT ![i].pc = "cnStore", ![i].ips = CnOf[h[i].dom]]
          /\ AddLocalIP(ToSet(CnOf[h[i].dom]))
          /\ UNCHANGED events
       \/ Go(i, "remote") /\ Event /\ UNCHANGED direct
    /\ UNCHANGED <<machine, mode, pac, lines, local, cache, want, conn>>

\* Mutant: the reply is not kept.
CnForget(i) ==
    /\ At(i, "cnStore") /\ Reply(i, h[i].ips, FALSE)
    /\ UNCHANGED <<machine, mode, pac, lines, local, direct, cache, want, conn, events>>

\* ... and the record is stored, with the last address marked local.
CnStore(i) ==
    /\ At(i, "cnStore") /\ Store(i, h[i].ips) /\ Reply(i, h[i].ips, FALSE)
    /\ local' = IF NonZero(h[i].ips) = {} THEN local ELSE local \cup {Last(h[i].ips)}
    /\ UNCHANGED <<machine, mode, pac, lines, direct, want, conn, events>>

\* The answers ReplyDNS of the server may give, in the order of its lookup; a
\* lookup that failed gives none.
ReplyDNS(d) == SetToSeqs(RemoteOf[d] \ {Zero})

\* ResolveRemoteOld: through the tunnel.  Without a connection, an answer or
\* one that can be read the question gets an empty answer.
ResolveRemoteOld(i) ==
    /\ At(i, "remote")
    /\ \/ h[i].dom = Wpad /\ Reply(i, <<Zero>>, FALSE) /\ UNCHANGED events
       \/ /\ h[i].dom # Wpad /\ UNCHANGED events
          /\ \E s \in ReplyDNS(h[i].dom) :
               h' = [h EXCEPT ![i].pc = "remoteStore", ![i].ips = s]
       \/ h[i].dom # Wpad /\ Reply(i, <<>>, TRUE) /\ Event
    /\ UNCHANGED <<machine, mode, pac, lines, local, direct, cache, want, conn>>

RemoteStore(i) ==
    /\ At(i, "remoteStore") /\ Store(i, h[i].ips) /\ Reply(i, h[i].ips, TRUE)
    /\ UNCHANGED <<machine, mode, pac, lines, local, direct, want, conn, events>>

WriteMsg(i) ==
    /\ At(i, "write") /\ h' = [h EXCEPT ![i] = Idle]
    /\ want' = IF h[i].match THEN want \ {h[i].dom} ELSE want
    /\ UNCHANGED <<machine, mode, pac, lines, local, direct, cache, conn, events>>

Expire(d) ==
    /\ cache[d] # NoRecord /\ ~cache[d].dead /\ Event
    /\ cache' = [cache EXCEPT ![d].dead = TRUE]
    /\ UNCHANGED <<machine, mode, pac, lines, local, direct, want, h, conn>>

-----------------------------------------------------------------------------
(* The goroutine of a connection, up to the pipe it chooses.                *)

Choose(to, path) == conn' = [to |-> to, path |-> path, early |-> Loading]

\* Reply of a SocksControl: other requests leave the mode as it is.
SetMode == mode' \in {"smart", "global"}

\* RedirectConfig.
Configure(to) == Choose(to, "config") /\ SetMode

\* A connection to an address.
ConnectIp(ip) ==
    /\ \/ ~smart /\ Choose(ip, "proxy") /\ UNCHANGED <<mode, direct>>
       \/ smart /\ IsLocal(ip) /\ Choose(ip, "direct") /\ UNCHANGED <<mode, direct>>
       \/ smart /\ ip \in {ConfigIp} \ local /\ Configure(ip) /\ UNCHANGED direct
       \/ /\ smart /\ ip \in China \ (local \cup {ConfigIp})
          /\ Choose(ip, "direct") /\ AddLocalIP({ip})
          /\ UNCHANGED mode
       \/ /\ smart /\ ip \notin China \cup local \cup {ConfigIp}
          /\ Choose(ip, "proxy") /\ UNCHANGED <<mode, direct>>
    /\ Event /\ UNCHANGED <<machine, pac, lines, local, cache, want, h>>

\* A connection to a name.
ConnectName(d) ==
    /\ \/ IsLocal(d) /\ Choose(d, "direct") /\ UNCHANGED pac
       \/ /\ ~IsLocal(d) /\ Choose(d, IF IsPac(d) THEN "proxy" ELSE "direct")
          /\ Remember(d)
    /\ Event /\ UNCHANGED <<machine, mode, lines, local, direct, cache, want, h>>

-----------------------------------------------------------------------------

Serve(i) ==
    \/ ResolveCache(i) \/ Delete(i) \/ Test(i) \/ ResolveProxy(i) \/ CnStore(i)
    \/ ResolveRemoteOld(i) \/ RemoteStore(i) \/ WriteMsg(i)

Work == LoadLocalPac \/ \E i \in Handlers : Serve(i) \/ AskAgain(i)

Next ==
    \/ Work
    \/ LoadLocalRule
    \/ \E i \in Handlers : Ask(i)
    \/ \E d \in Names : Expire(d) \/ ConnectName(d)
    \/ \E ip \in Ips : ConnectIp(ip)

Spec == Init /\ [][Next]_vars

\* Goroutines that can go on do, the list is loaded, resolvers ask again.
Fairness == WF_vars(Work)

FairSpec == Spec /\ Fairness

-----------------------------------------------------------------------------
(* Properties.                                                              *)

TypeOK ==
    /\ machine \in Machines /\ mode \in {"smart", "global"}
    /\ lines \in 0 .. Len(PacFile) /\ local \subseteq Names \cup Ips \cup {Zero}
    /\ \A d \in Names : cache[d].ips \subseteq Ips
    /\ want \subseteq Names /\ events \in 0 .. MaxEvents
    /\ \A i \in Handlers : h[i].ips \in Seq(Ips \cup {Zero})

\* A name the PAC file covers.
Covered(d) == \E k \in 1 .. Len(PacFile) : PacFile[k] \in Above(d)

\* The names that IsPac has added to the list as a memory never change its
\* answer: it is that of the lines loaded from the file, for every name.
MemoHarmless ==
    pac # {} => \A d \in Names :
      IsPac(d) <=> \E k \in 1 .. lines : PacFile[k] \in Above(d)

\* A name that the file covers is asked nearby, or reached directly without a
\* local rule, only when the test fell into the time in which the file was
\* half loaded: neither the empty list of the start nor a name remembered
\* lets one slip (IsPac, ServeDNS, Socks5Listen).
CoveredIsProxied ==
    /\ \A i \in Handlers :
         h[i].pc \in {"cn", "cnStore"} /\ Covered(h[i].dom) => h[i].early
    /\ conn.path = "direct" /\ conn.to \in Names \ local /\ Covered(conn.to) =>
         conn.early

\* A hit in the cache always answers: no record is stored without an address
\* to give, and none with 0.0.0.0, whatever the resolvers say.
HitsAnswer ==
    \A d \in Names : cache[d] # NoRecord => cache[d].ips # {} /\ Zero \notin cache[d].ips

\* A resolver that asks for a name with addresses gets an answer with the
\* number of its question.  For a name resolved nearby the first reply never
\* has it: it is the record kept in the cache that answers the next attempt.
Resolved == \A d \in Answerable : d \in want ~> d \notin want

=============================================================================
