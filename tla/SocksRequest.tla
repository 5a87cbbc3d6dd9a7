---------------------------- MODULE SocksRequest ----------------------------
(***************************************************************************)
(* One connection of an application through a client and a server: the     *)
(* SOCKS5 greeting and request (connections/prosocks5), the HTTP proxy in  *)
(* front of the same path, the request forwarded over a stream, what the   *)
(* server makes of it, and the bytes that reach the target afterwards.     *)
(*                                                                         *)
(* Bytes are labels: -1 of the greeting, 0 of the request, and payload     *)
(* numbered from 1.  TCP may join and split what an application writes, so *)
(* a read returns any number of the bytes that are there; applications may *)
(* or may not wait for the answers.  Sizes keep the layout of the code     *)
(* with a smaller byte: Radix values, 256 in the code.                     *)
(***************************************************************************)
EXTENDS Integers, Sequences

CONSTANTS
    Radix,      \* values of a byte, 256 in the code
    IPv4len,    \* 4 in the code
    IPv6len,    \* 16 in the code
    Lens,       \* lengths of names
    Payload,    \* bytes an application sends after its request
    MaxFaults   \* bound: sessions and targets that fail, streams that break

ASSUME SizesAssumption ==
    /\ Radix \in Nat /\ Radix > 5 /\ Lens \subseteq Nat \ {0}
    /\ {IPv4len, IPv6len} \subseteq 1 .. Radix - 1
    /\ Payload \in Nat /\ MaxFaults \in Nat

VARIABLES
    req,      \* what the application asks for, and how
    sent,     \* "nothing", "greeting", "request" or "payload"
    here,     \* the application has not closed its connection
    in,       \* bytes from the application the client has not read
    replies,  \* what the application was answered
    cli,      \* where the goroutine of the client is
    want,     \* bytes the client still reads with ReadFull
    host,     \* the host GetLocalRequest returns: "none", "whole" or "partial"
    via,      \* how the target was connected: "none", "tunnel" or "direct"
    lost,     \* net/http has thrown away bytes of the application
    up,       \* bytes of the stream the server has not read
    open,     \* the stream is open
    srv,      \* where the handler of the server is
    need,     \* bytes the server reads with ReadFull
    tgt,      \* bytes that reached the target
    stalled,  \* the client waited 30 seconds for the confirmation
    faults

application == <<req, sent, here>>
client == <<replies, cli, want, host, via, lost, stalled>>
server == <<srv, need>>
vars == <<application, in, client, up, open, server, tgt, faults>>

Fill(label, n) == [i \in 1 .. n |-> label]
Drop(s, n) == SubSeq(s, n + 1, Len(s))
Least(a, b) == IF a < b THEN a ELSE b
Fault == faults < MaxFaults /\ faults' = faults + 1

\* What an application of the SOCKS5 port or of the HTTP proxy may ask for: an
\* address, a name, a name of the type only the client knows ("change"), or a
\* version, command or type nobody knows ("bad").  pac tells whether a name is
\* one that goes through the tunnel.
Requests ==
    {r \in [front : {"socks", "http", "plain"}, methods : 0 .. 1, len : Lens, pac : BOOLEAN,
            type : {"ip4", "ip6", "name", "change", "bad"}] :
       /\ r.front = "socks" => r.len < Radix
       /\ r.front # "socks" => r.type = "name" /\ r.methods = 0
       /\ r.type \in {"ip4", "ip6", "bad"} => ~r.pac /\ \A k \in Lens : r.len <= k}

Init ==
    /\ req \in Requests /\ sent = "nothing" /\ here = TRUE
    /\ in = <<>> /\ replies = <<>> /\ want = 0 /\ host = "none" /\ via = "none"
    /\ cli = CASE req.front = "socks" -> "greet"
               [] req.front = "http" -> "connect"
               [] req.front = "plain" -> "plain"
    /\ up = <<>> /\ open = FALSE /\ srv = "none" /\ need = 0 /\ tgt = <<>>
    /\ lost = FALSE /\ stalled = FALSE /\ faults = 0

-----------------------------------------------------------------------------
(* The application.  A program that waits for each answer is one of its     *)
(* behaviours.                                                              *)

\* The bytes of a SOCKS5 request.
Size(r) ==
    CASE r.type = "ip4" -> 6 + IPv4len
      [] r.type = "ip6" -> 6 + IPv6len
      [] r.type \in {"name", "bad"} -> 7 + r.len
      [] r.type = "change" -> 5 + r.len

Send(from, to, bytes) ==
    /\ here /\ sent = from /\ sent' = to /\ in' = in \o bytes
    /\ UNCHANGED <<req, here, client, up, open, server, tgt, faults>>

Greet == req.front = "socks" /\ Send("nothing", "greeting", Fill(-1, 2 + req.methods))

\* A request of the HTTP proxy is one piece here: net/http reads it.
Ask ==
    \/ req.front = "socks" /\ Send("greeting", "request", Fill(0, Size(req)))
    \/ req.front # "socks" /\ Send("nothing", "request", <<0>>)

Pay == Send("request", "payload", [i \in 1 .. Payload |-> i])

Leave ==
    /\ here /\ here' = FALSE
    /\ UNCHANGED <<req, sent, in, client, up, open, server, tgt, faults>>

-----------------------------------------------------------------------------
(* The goroutine of the client, up to the stream.                           *)

lenIPv4 == 3 + 1 + IPv4len + 2
lenIPv6 == 3 + 1 + IPv6len + 2
lenDmBase == 3 + 1 + 1 + 2

Quiet == UNCHANGED <<application, up, open, server, tgt, faults>>

\* The connection of the application is closed, with or without an answer.
Close(answer) ==
    cli' = "done" /\ replies' = replies \o answer

\* Socks5HandShake: as much as there is, but not more than the greeting.
HandShake ==
    LET msgLen == 2 + req.methods
    IN  /\ cli = "greet"
        /\ \E n \in 2 .. Least(Len(in), Radix + 2) :
             /\ in' = Drop(in, n)
             /\ IF n > msgLen THEN Close(<<>>) /\ UNCHANGED want
                ELSE want' = msgLen - n /\ cli' = "greetRest" /\ UNCHANGED replies
        /\ UNCHANGED <<host, via, lost, stalled>> /\ Quiet

Confirmed ==
    /\ cli = "greetRest" /\ Len(in) >= want
    /\ in' = Drop(in, want) /\ want' = 0
    /\ \/ replies' = Append(replies, "method") /\ cli' = "ask"
       \/ ~here /\ Close(<<>>)
    /\ UNCHANGED <<host, via, lost, stalled>> /\ Quiet

\* Mutant: one byte more is expected.
ReqLenMore(r) ==
    CASE r.type = "ip4" -> lenIPv4
      [] r.type = "ip6" -> lenIPv6
      [] r.type = "name" -> lenDmBase + r.len + 1
      [] r.type = "change" -> lenDmBase + r.len - 2

ReqLen(r) ==
    CASE r.type = "ip4" -> lenIPv4
      [] r.type = "ip6" -> lenIPv6
      [] r.type = "name" -> lenDmBase + r.len
      [] r.type = "change" -> lenDmBase + r.len - 2

\* The end of the name is computed as a byte; a slice that ends before it
\* begins is a panic.
Named(r) == r.type \in {"name", "change"}
Panics(r) == Named(r) /\ (5 + r.len) % Radix < 5

\* The name is taken out of what the first read returned.
Host(r, n) ==
    IF ~Named(r) THEN "none" ELSE IF n >= 5 + r.len THEN "whole" ELSE "partial"

\* GetLocalRequest
GetLocalRequest ==
    /\ cli = "ask"
    /\ \E n \in 5 .. Least(Len(in), Radix + 7) :
         /\ in' = Drop(in, n)
         /\ IF req.type = "bad" \/ (~Panics(req) /\ n > ReqLen(req))
              THEN Close(<<>>) /\ UNCHANGED <<want, host>>
              ELSE /\ cli' = IF Panics(req) THEN "panic" ELSE "askRest"
                   /\ want' = ReqLen(req) - n /\ host' = Host(req, n)
                   /\ UNCHANGED replies
    /\ UNCHANGED <<via, lost, stalled>> /\ Quiet

\* The rest of the request; then a name is looked up in the lists by host, an
\* address by the request itself (either way, see ClientDNS).
Decide ==
    /\ cli = "askRest" /\ Len(in) >= want
    /\ in' = Drop(in, want) /\ want' = 0
    /\ \/ (host = "whole" => req.pac) /\ cli' = "forward"
       \/ (host = "whole" => ~req.pac) /\ cli' = "dial"
    /\ UNCHANGED <<replies, host, via, lost, stalled>> /\ Quiet

\* The application has gone before it sent what the client waits for.
EndOfRequest ==
    /\ ~here /\ cli \in {"greet", "greetRest", "ask", "askRest", "connect", "plain"}
    /\ Len(in) < CASE cli = "greet" -> 2 [] cli = "ask" -> 5
                   [] cli \in {"greetRest", "askRest"} -> want [] OTHER -> 1
    /\ Close(<<>>)
    /\ UNCHANGED <<in, want, host, via, lost, stalled>> /\ Quiet

\* Mutant: the name is dialled as it stands in the request.
DialRaw ==
    /\ cli = "dial"
    /\ \/ /\ via' = "direct" /\ cli' = "pipe"
          /\ replies' = Append(replies, "confirm")
       \/ Close(<<>>) /\ UNCHANGED via
    /\ UNCHANGED <<in, want, host, lost, stalled>> /\ Quiet

\* tcppipe: a name that came in parts cannot be dialled.
Dial ==
    /\ cli = "dial"
    /\ \/ /\ host # "partial" /\ via' = "direct" /\ cli' = "pipe"
          /\ replies' = Append(replies, "confirm")
       \/ Close(<<>>) /\ UNCHANGED via
    /\ UNCHANGED <<in, want, host, lost, stalled>> /\ Quiet

\* handleTunneling: the answer comes first ...
HandleTunneling ==
    /\ cli = "connect" /\ in # <<>>
    /\ in' = Drop(in, 1) /\ replies' = <<"ok">> /\ cli' = "hijack"
    /\ UNCHANGED <<want, host, via, lost, stalled>> /\ Quiet

\* ... and the reader of net/http is thrown away, with what it has read.
Hijack ==
    /\ cli = "hijack" /\ cli' = "forward"
    /\ \E k \in 0 .. Len(in) : in' = Drop(in, k) /\ lost' = (k > 0)
    /\ UNCHANGED <<replies, want, host, via, stalled>> /\ Quiet

\* ServeHTTP: no password, a host to avoid, or another method than CONNECT.
Reject ==
    /\ cli \in {"connect", "plain"} /\ in # <<>>
    /\ in' = Drop(in, 1) /\ Close(<<"refused">>)
    /\ UNCHANGED <<want, host, via, lost, stalled>> /\ Quiet

\* handleHTTP: net/http connects to the target itself.
HandleHTTP ==
    /\ cli = "plain" /\ in # <<>>
    /\ in' = Drop(in, 1) /\ via' = "direct" /\ Close(<<"ok">>)
    /\ UNCHANGED <<want, host, lost, stalled>> /\ Quiet

-----------------------------------------------------------------------------
(* The stream.                                                              *)

\* HostToRaw makes the request for the HTTP proxy: its length byte is cut, the
\* name is not.
LenByte(r) == r.len % Radix

\* ConnectRemote: a stream on one of the sessions (the choice of the session
\* and its repair are in ClientPool).
NewConnnect ==
    /\ cli = "forward"
    /\ \/ /\ cli' = "write" /\ via' = "tunnel" /\ open' = TRUE /\ srv' = "new"
          /\ UNCHANGED <<replies, faults>>
       \/ Fault /\ Close(<<>>) /\ UNCHANGED <<via, open, srv>>
    /\ UNCHANGED <<application, in, want, host, lost, stalled, up, need, tgt>>

\* OnBodyDo: the request is written as it came, on a stream that may have gone.
Forward ==
    /\ cli = "write"
    /\ IF open THEN cli' = "await" /\ up' = Fill(0, Size(req)) /\ UNCHANGED replies
       ELSE Close(<<>>) /\ UNCHANGED up
    /\ UNCHANGED <<application, in, want, host, via, lost, stalled, open, server, tgt, faults>>

\* OnBodyDo: the confirmation, handed on when the application speaks SOCKS5.
GetConfirm ==
    /\ cli = "await" /\ srv \notin {"new", "head", "len", "rest", "confirm", "refused"}
    /\ \/ /\ cli' = "pipe" /\ UNCHANGED open
          /\ replies' = IF req.front = "socks" THEN Append(replies, "confirm") ELSE replies
       \/ req.front = "socks" /\ ~here /\ Close(<<>>) /\ open' = FALSE
    /\ UNCHANGED <<application, in, want, host, via, lost, stalled, up, server, tgt, faults>>

\* The server waits for bytes nobody will send.
Starving == srv \in {"head", "len", "rest"} /\ Len(up) < need

\* No confirmation within 30 seconds, or the end of the stream: computing
\* takes no time next to that.
ConfirmFails ==
    /\ cli = "await" /\ (Starving \/ srv = "refused")
    /\ stalled' = (stalled \/ (Starving /\ open))
    /\ Close(<<"failed">>) /\ open' = FALSE
    /\ UNCHANGED <<application, in, want, host, via, lost, up, server, tgt, faults>>

\* OldPipe, copyBuffer: from the application on.
Copy ==
    /\ cli = "pipe" /\ in # <<>>
    /\ in' = Tail(in)
    /\ IF via = "tunnel" THEN open /\ up' = Append(up, Head(in)) /\ UNCHANGED tgt
       ELSE tgt' = Append(tgt, Head(in)) /\ UNCHANGED up
    /\ UNCHANGED <<application, client, open, server, faults>>

\* The end of one copy closes both connections; a direct target may close.
CopyEnds ==
    /\ cli = "pipe"
    /\ \/ ~here /\ in = <<>> /\ UNCHANGED faults
       \/ via = "tunnel" /\ ~open /\ UNCHANGED faults
       \/ via = "direct" /\ Fault
    /\ Close(<<>>) /\ open' = FALSE
    /\ UNCHANGED <<application, in, want, host, via, lost, stalled, up, server, tgt>>

-----------------------------------------------------------------------------
(* The handler of the server: GetServerRequest and what follows it.         *)

Serves == UNCHANGED <<application, in, client, tgt, faults>>

\* Mutant: the second byte of the port stays in the stream.
RestLess(r) ==
    CASE r.type = "ip4" -> lenIPv4 - 4
      [] r.type = "ip6" -> 4 + lenIPv6 - 4
      [] r.type = "name" -> LenByte(r) + lenDmBase - 6

\* Mutant: a name's request is read to one byte beyond its port.
RestMore(r) ==
    CASE r.type = "ip4" -> lenIPv4 - 4
      [] r.type = "ip6" -> 4 + lenIPv6 - 4
      [] r.type = "name" -> LenByte(r) + lenDmBase - 4

\* reqEnd less reqStart.  For IPv6 reqEnd counts the first four bytes twice.
Rest(r) ==
    CASE r.type = "ip4" -> lenIPv4 - 4
      [] r.type = "ip6" -> 4 + lenIPv6 - 4
      [] r.type = "name" -> LenByte(r) + lenDmBase - 5

\* AccpetStream: a handler for every stream of a session.
AcceptStream ==
    /\ srv = "new" /\ srv' = "head" /\ need' = 4
    /\ UNCHANGED <<up, open>> /\ Serves

ReadHead ==
    /\ srv = "head" /\ Len(up) >= need /\ up' = Drop(up, need)
    /\ CASE req.type = "name" -> srv' = "len" /\ need' = 1 /\ UNCHANGED open
         [] req.type \in {"ip4", "ip6"} -> srv' = "rest" /\ need' = Rest(req) /\ UNCHANGED open
         [] req.type = "change" -> srv' = "refused" /\ need' = 0 /\ open' = FALSE
    /\ Serves

ReadLen ==
    /\ srv = "len" /\ Len(up) >= need /\ up' = Drop(up, need)
    /\ srv' = "rest" /\ need' = Rest(req)
    /\ UNCHANGED open /\ Serves

ReadRest ==
    /\ srv = "rest" /\ Len(up) >= need /\ up' = Drop(up, need)
    /\ srv' = "confirm" /\ need' = 0
    /\ UNCHANGED open /\ Serves

\* The stream ended before the request was complete.
RequestEnds ==
    /\ Starving /\ ~open /\ srv' = "refused"
    /\ UNCHANGED <<need, up, open>> /\ Serves

\* TcpNormal confirms before it dials.
Confirm ==
    /\ srv = "confirm" /\ srv' = IF open THEN "dial" ELSE "refused"
    /\ UNCHANGED <<need, up, open>> /\ Serves

ServerDial ==
    /\ srv = "dial"
    /\ \/ srv' = "pipe" /\ UNCHANGED <<open, faults>>
       \/ Fault /\ srv' = "ended" /\ open' = FALSE
    /\ UNCHANGED <<application, in, client, tgt, need, up>>

Pipe ==
    /\ srv = "pipe" /\ up # <<>>
    /\ up' = Tail(up) /\ tgt' = Append(tgt, Head(up))
    /\ UNCHANGED <<application, in, client, open, server, faults>>

\* The target closes, or the client has closed and everything is forwarded.
PipeEnds ==
    /\ srv = "pipe" /\ srv' = "ended" /\ open' = FALSE
    /\ \/ Fault
       \/ ~open /\ up = <<>> /\ UNCHANGED faults
    /\ UNCHANGED <<application, in, client, tgt, need, up>>

\* The session below the stream breaks; a confirmation on its way may be lost.
Break ==
    /\ open /\ Fault /\ open' = FALSE /\ up' = <<>>
    /\ srv' \in {srv, "refused"}
    /\ UNCHANGED <<application, in, client, need, tgt>>

-----------------------------------------------------------------------------

Work ==
    \/ HandShake \/ Confirmed \/ GetLocalRequest \/ Decide \/ EndOfRequest \/ Dial
    \/ HandleTunneling \/ Hijack \/ HandleHTTP \/ Reject
    \/ NewConnnect \/ Forward \/ GetConfirm \/ ConfirmFails \/ Copy \/ CopyEnds
    \/ AcceptStream \/ ReadHead \/ ReadLen \/ ReadRest \/ RequestEnds \/ Confirm \/ ServerDial \/ Pipe
    \/ PipeEnds

Next == Work \/ Greet \/ Ask \/ Pay \/ Leave \/ Break

Spec == Init /\ [][Next]_vars

\* Goroutines that can go on do; dials end, and so does the wait for a
\* confirmation.
Fairness == WF_vars(Work)

FairSpec == Spec /\ Fairness

-----------------------------------------------------------------------------
(* Properties.                                                              *)

\* The target gets the payload from its first byte on, in order, without any
\* byte of the request, however TCP cut the greeting, the request and a payload
\* that did not wait.  Two exceptions, both of the HTTP proxy: bytes net/http
\* had read when the connection was taken over, and names longer than a length
\* byte can say (Socks5HandShake, GetLocalRequest, GetServerRequest).
Aligned ==
    \/ lost \/ req.len >= Radix
    \/ \A i \in DOMAIN tgt : tgt[i] = i

\* A name of the PAC list asked for over SOCKS5 is never connected directly,
\* although a request that came in parts is looked up under a mutilated name:
\* that one cannot be dialled (GetLocalRequest, tcppipe).
StaysInTunnel == req.front = "socks" /\ req.pac => via # "direct"

\* Only a request for an IPv6 address ever runs into the deadline of the
\* confirmation: for every other one the server reads exactly what the client
\* forwards (GetServerRequest; the size of an IPv6 request is four too large).
OnlyIPv6Stalls == stalled => req.type = "ip6"

\* An application that has sent a whole request gets an answer or its
\* connection is closed, whoever waits for whom; a name so long that its end
\* does not fit a byte ends the client.
Answered ==
    sent = "request" ~> \/ cli = "done" \/ ~here
                        \/ \E k \in DOMAIN replies : replies[k] \in {"confirm", "ok"}
                        \/ cli = "panic" /\ req.len >= Radix - 5

=============================================================================
