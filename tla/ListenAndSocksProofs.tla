----------------------- MODULE ListenAndSocksProofs -----------------------
(***************************************************************************)
(* Theorems about the client's port: SocksRequest, for any sizes of bytes, *)
(* addresses and names and any number of faults; and ClientListen, for any *)
(* limits and any number of goroutines that serve connections.             *)
(***************************************************************************)
EXTENDS SocksRequest, ClientListen, SequenceTheorems, TLAPS

-----------------------------------------------------------------------------
(* Listed names stay in the tunnel.                                         *)

\* Where the client is tells what it knows of the host.
HostInv ==
    /\ req \in Requests /\ host \in {"none", "whole", "partial"}
    /\ cli = "askRest" /\ Named(req) => host # "none"
    /\ cli = "dial" /\ Named(req) /\ req.pac => host = "partial"
    /\ cli = "plain" => req.front = "plain"
    /\ StaysInTunnel

\* Only names are listed.
LEMMA ListedIsNamed ==
    ASSUME NEW r \in Requests, r.pac
    PROVE  Named(r)
BY DEF Requests, Named

LEMMA HostInitially == Init => HostInv
<1> SUFFICES ASSUME Init PROVE HostInv
  OBVIOUS
<1>1. req.front \in {"socks", "http", "plain"}
  BY DEF Init, Requests
<1>2. cli \in {"greet", "connect", "plain"} /\ (cli = "plain" => req.front = "plain")
  BY <1>1 DEF Init
<1>3. QED
  BY <1>2 DEF Init, HostInv, StaysInTunnel

LEMMA HostPreserved == HostInv /\ [Next]_vars => HostInv'
<1> SUFFICES ASSUME HostInv, [Next]_vars PROVE HostInv'
  OBVIOUS
<1> USE DEF HostInv, StaysInTunnel, Named, application, client, server, Quiet, Serves, Fault
<1>1. CASE Greet \/ Ask \/ Pay \/ Leave \/ Break
  BY <1>1 DEF Greet, Ask, Pay, Leave, Break, Send
<1>2. CASE HandShake
  BY <1>2 DEF HandShake, Close
<1>3. CASE Confirmed
  BY <1>3 DEF Confirmed, Close
<1>4. CASE GetLocalRequest
  <2>1. req' = req /\ via' = via
    BY <1>4 DEF GetLocalRequest
  <2>2. PICK n \in Nat :
          \/ cli' = "done" /\ host' = host
          \/ cli' \in {"panic", "askRest"} /\ host' = Host(req, n)
    <3>1. PICK n \in 5 .. Least(Len(in), Radix + 7) :
            IF req.type = "bad" \/ (~Panics(req) /\ n > ReqLen(req))
              THEN Close(<<>>) /\ UNCHANGED host
              ELSE /\ cli' = IF Panics(req) THEN "panic" ELSE "askRest"
                   /\ host' = Host(req, n)
      BY <1>4 DEF GetLocalRequest
    <3>2. n \in Nat
      OBVIOUS
    <3>3. QED
      BY <3>1, <3>2 DEF Close
  <2>3. Host(req, n) \in {"none", "whole", "partial"} /\ (Named(req) => Host(req, n) # "none")
    BY DEF Host
  <2>4. QED
    BY <2>1, <2>2, <2>3
<1>5. CASE Decide
  BY <1>5 DEF Decide
<1>6. CASE EndOfRequest
  BY <1>6 DEF EndOfRequest, Close
<1>7. CASE Dial
  BY <1>7, ListedIsNamed DEF Dial, Close
<1>8. CASE HandleTunneling \/ Hijack \/ Reject
  BY <1>8 DEF HandleTunneling, Hijack, Reject, Close
<1>9. CASE HandleHTTP
  BY <1>9 DEF HandleHTTP, Close
<1>10. CASE NewConnnect
  BY <1>10 DEF NewConnnect, Close
<1>11. CASE Forward \/ GetConfirm \/ ConfirmFails
  BY <1>11 DEF Forward, GetConfirm, ConfirmFails, Close
<1>12. CASE Copy \/ CopyEnds
  BY <1>12 DEF Copy, CopyEnds, Close
<1>13. CASE \/ AcceptStream \/ ReadHead \/ ReadLen \/ ReadRest \/ RequestEnds
            \/ Confirm \/ ServerDial \/ Pipe \/ PipeEnds
  BY <1>13 DEF AcceptStream, ReadHead, ReadLen, ReadRest, RequestEnds, Confirm,
               ServerDial, Pipe, PipeEnds
<1>14. CASE UNCHANGED vars
  BY <1>14 DEF vars
<1>15. QED
  BY <1>1, <1>2, <1>3, <1>4, <1>5, <1>6, <1>7, <1>8, <1>9, <1>10, <1>11, <1>12,
     <1>13, <1>14 DEF Next, Work

\* A listed name asked for over SOCKS5 is never connected directly, however
\* its request was cut: a name looked up under its mutilated form cannot be
\* dialled (GetLocalRequest, Socks5Listen, tcppipe).
THEOREM ListedStaysInTunnel == Spec => []StaysInTunnel
<1>1. HostInv => StaysInTunnel
  BY DEF HostInv
<1>2. QED
  BY <1>1, HostInitially, HostPreserved, PTL DEF Spec

-----------------------------------------------------------------------------
(* Only requests for IPv6 addresses stall.                                  *)

\* Steps of the client before there is a stream, and before the type is known.
Early == {"greet", "greetRest", "ask", "askRest", "connect", "plain", "hijack", "dial",
          "forward"}
Unread == {"greet", "greetRest", "ask", "plain", "done"}
Reading == {"new", "head", "len", "rest"}

\* What is still in the stream when the server reads a request.
Left(r, at) ==
    CASE at \in {"new", "head"} -> Size(r)
      [] at = "len" -> Size(r) - 4
      [] at = "rest" -> IF r.type = "name" THEN Size(r) - 5 ELSE Size(r) - 4

\* Where the server is in its reading, what it expects there and what is left.
ReadInv ==
    /\ req \in Requests
    /\ cli \notin Unread \/ srv # "none" => req.type # "bad"
    /\ open => srv # "none"
    /\ cli \in Early => up = <<>> /\ ~open /\ srv = "none"
    /\ cli = "write" /\ open => up = <<>> /\ srv \in {"new", "head", "refused"}
    /\ cli = "await" /\ open /\ srv \in Reading =>
         up \in Seq(Int) /\ Len(up) = Left(req, srv)
    /\ srv = "head" => need = 4
    /\ srv = "len" => need = 1 /\ req.type = "name"
    /\ srv = "rest" => need = Rest(req) /\ req.type \in {"name", "ip4", "ip6"}
    /\ OnlyIPv6Stalls

\* Nobody loses by the cut of a length byte: the server reads less, not more.
LEMMA CutIsShorter ==
    ASSUME NEW r \in Requests
    PROVE  LenByte(r) \in Nat /\ LenByte(r) <= r.len /\ r.len \in Nat \ {0}
<1>0. r.len \in Lens
  BY DEF Requests
<1>1. r.len \in Nat \ {0} /\ Radix \in Nat /\ Radix > 0
  <2>1. r.len \in Nat \ {0}
    BY <1>0, SizesAssumption, Zenon
  <2>2. Radix \in Nat /\ Radix > 5
    BY SizesAssumption, Zenon
  <2>3. QED
    BY <2>1, <2>2
<1>2. r.len % Radix \in 0 .. Radix - 1
  BY <1>1
<1>3. CASE r.len < Radix
  <2>1. r.len % Radix = r.len
    BY <1>1, <1>3
  <2>2. QED
    BY <2>1, <1>1 DEF LenByte
<1>4. CASE r.len >= Radix
  BY <1>1, <1>2, <1>4 DEF LenByte
<1>5. QED
  BY <1>1, <1>3, <1>4

LEMMA DropLength ==
    ASSUME NEW s \in Seq(Int), NEW n \in Nat, n <= Len(s)
    PROVE  Drop(s, n) \in Seq(Int) /\ Len(Drop(s, n)) = Len(s) - n
BY DEF Drop

LEMMA FillLength ==
    ASSUME NEW n \in Nat
    PROVE  Fill(0, n) \in Seq(Int) /\ Len(Fill(0, n)) = n
BY DEF Fill

\* The parts of a request, for every type that gets as far as the server.
LEMMA Parts ==
    ASSUME NEW r \in Requests, r.type # "bad"
    PROVE  /\ Size(r) \in Nat /\ Size(r) >= 6
           /\ r.type = "name" => /\ Size(r) = 7 + r.len
                                 /\ Rest(r) \in Nat /\ Rest(r) <= Size(r) - 5
           /\ r.type = "ip4" => Rest(r) = Size(r) - 4
           /\ r.type = "ip6" => Rest(r) \in Nat
<1>1. r.type \in {"ip4", "ip6", "name", "change"}
  BY DEF Requests
<1>2. LenByte(r) \in Nat /\ LenByte(r) <= r.len /\ r.len \in Nat \ {0}
  BY CutIsShorter
<1>3. IPv4len \in Nat /\ IPv4len >= 1 /\ IPv6len \in Nat /\ IPv6len >= 1
  <2>1. IPv4len \in 1 .. Radix - 1 /\ IPv6len \in 1 .. Radix - 1 /\ Radix \in Nat
    BY SizesAssumption, Zenon
  <2>2. QED
    BY <2>1
<1>4. QED
  BY <1>1, <1>2, <1>3 DEF Size, Rest, lenIPv4, lenIPv6, lenDmBase

LEMMA ReadInitially == Init => ReadInv
<1> SUFFICES ASSUME Init PROVE ReadInv
  OBVIOUS
<1>1. /\ req.front \in {"socks", "http", "plain"}
      /\ req.front # "socks" => req.type = "name"
  BY DEF Init, Requests
<1>2. /\ cli \in {"greet", "connect", "plain"}
      /\ cli = "connect" => req.type = "name"
  BY <1>1 DEF Init
<1>3. QED
  BY <1>2 DEF Init, ReadInv, OnlyIPv6Stalls, Early, Unread, Reading

\* Only an IPv6 request leaves the server waiting on an open stream.
LEMMA StarvingIsIPv6 ==
    ASSUME ReadInv, cli = "await", open, Starving
    PROVE  req.type = "ip6"
<1>1. req \in Requests /\ req.type # "bad"
  BY DEF ReadInv, Unread
<1>2. req.type \in {"ip4", "ip6", "name", "change"}
  BY <1>1 DEF Requests
<1>3. CASE srv = "head"
  BY <1>1, <1>3, Parts DEF ReadInv, Starving, Left, Reading
<1>4. CASE srv = "len"
  BY <1>1, <1>4, Parts DEF ReadInv, Starving, Left, Reading
<1>5. CASE srv = "rest"
  BY <1>1, <1>5, Parts DEF ReadInv, Starving, Left, Reading
<1>6. QED
  BY <1>3, <1>4, <1>5 DEF Starving

LEMMA ReadPreserved == ReadInv /\ [Next]_vars => ReadInv'
<1> SUFFICES ASSUME ReadInv, [Next]_vars PROVE ReadInv'
  OBVIOUS
<1> USE DEF ReadInv, OnlyIPv6Stalls, Early, Unread, Reading, application, client,
            server, Quiet, Serves, Fault
<1>1. CASE Greet \/ Ask \/ Pay \/ Leave
  BY <1>1 DEF Greet, Ask, Pay, Leave, Send
<1>2. CASE Break
  BY <1>2 DEF Break
<1>3. CASE HandShake \/ Confirmed \/ EndOfRequest
  BY <1>3 DEF HandShake, Confirmed, EndOfRequest, Close
<1>4. CASE GetLocalRequest
  <2>1. /\ cli = "ask" /\ UNCHANGED <<req, stalled, up, open, srv, need>>
        /\ cli' = "done" \/ (cli' \in {"panic", "askRest"} /\ req.type # "bad")
    BY <1>4 DEF GetLocalRequest, Close
  <2>2. QED
    BY <2>1
<1>5. CASE Decide \/ Dial
  BY <1>5 DEF Decide, Dial, Close
<1>6. CASE HandleTunneling \/ Hijack \/ Reject \/ HandleHTTP
  BY <1>6 DEF HandleTunneling, Hijack, Reject, HandleHTTP, Close
<1>7. CASE NewConnnect
  BY <1>7 DEF NewConnnect, Close
<1>8. CASE Forward
  <2>1. Size(req) \in Nat
    BY <1>8, Parts DEF Forward
  <2>2. Fill(0, Size(req)) \in Seq(Int) /\ Len(Fill(0, Size(req))) = Size(req)
    BY <2>1, FillLength
  <2>3. QED
    BY <1>8, <2>1, <2>2 DEF Forward, Close, Left
<1>9. CASE GetConfirm
  BY <1>9 DEF GetConfirm, Close
<1>10. CASE ConfirmFails
  BY <1>10, StarvingIsIPv6 DEF ConfirmFails, Close
<1>11. CASE Copy \/ CopyEnds
  BY <1>11 DEF Copy, CopyEnds, Close
<1>12. CASE AcceptStream
  BY <1>12 DEF AcceptStream, Left
<1>13. CASE ReadHead
  <2>1. /\ srv = "head" /\ need = 4 /\ Len(up) >= 4 /\ up' = Drop(up, 4)
        /\ req' = req /\ cli' = cli /\ stalled' = stalled
        /\ cli \notin Early /\ ~(cli = "write" /\ open)
    BY <1>13 DEF ReadHead
  <2>2. CASE req.type = "name"
    <3>1. srv' = "len" /\ need' = 1 /\ open' = open
      BY <1>13, <2>2 DEF ReadHead
    <3>2. cli = "await" /\ open => up' \in Seq(Int) /\ Len(up') = Size(req) - 4
      BY <2>1, DropLength DEF Left
    <3>3. QED
      BY <2>1, <2>2, <3>1, <3>2 DEF Left
  <2>3. CASE req.type \in {"ip4", "ip6"}
    <3>1. srv' = "rest" /\ need' = Rest(req) /\ open' = open
      BY <1>13, <2>3 DEF ReadHead
    <3>2. cli = "await" /\ open => up' \in Seq(Int) /\ Len(up') = Size(req) - 4
      BY <2>1, DropLength DEF Left
    <3>3. Rest(req)' = Rest(req) /\ Left(req, "rest")' = Size(req) - 4
      BY <2>1, <2>3 DEF Rest, LenByte, Left, Size
    <3>4. QED
      BY <2>1, <2>3, <3>1, <3>2, <3>3
  <2>4. CASE req.type = "change"
    BY <1>13, <2>1, <2>4 DEF ReadHead
  <2>5. CASE req.type = "bad"
    BY <2>1, <2>5, <1>13 DEF ReadHead
  <2>6. req.type \in {"ip4", "ip6", "name", "change", "bad"}
    BY DEF Requests
  <2>7. QED
    BY <2>2, <2>3, <2>4, <2>5, <2>6
<1>14. CASE ReadLen
  <2>1. /\ srv = "len" /\ need = 1 /\ Len(up) >= 1 /\ up' = Drop(up, 1)
        /\ srv' = "rest" /\ need' = Rest(req) /\ req.type = "name"
        /\ req' = req /\ cli' = cli /\ stalled' = stalled /\ open' = open
        /\ cli \notin Early /\ ~(cli = "write" /\ open)
    BY <1>14 DEF ReadLen
  <2>2. cli = "await" /\ open => up' \in Seq(Int) /\ Len(up') = (Size(req) - 4) - 1
    BY <2>1, DropLength DEF Left
  <2>3. Rest(req)' = Rest(req) /\ Left(req, "rest")' = Size(req) - 5
    BY <2>1 DEF Rest, LenByte, Left, Size
  <2>4. cli = "await" => Size(req) \in Nat
    BY Parts
  <2>5. QED
    BY <2>1, <2>2, <2>3, <2>4
<1>15. CASE ReadRest \/ RequestEnds \/ Confirm \/ ServerDial \/ Pipe \/ PipeEnds
  BY <1>15 DEF ReadRest, RequestEnds, Confirm, ServerDial, Pipe, PipeEnds, Starving
<1>16. CASE UNCHANGED vars
  BY <1>16 DEF vars
<1>17. QED
  BY <1>1, <1>2, <1>3, <1>4, <1>5, <1>6, <1>7, <1>8, <1>9, <1>10, <1>11, <1>12,
     <1>13, <1>14, <1>15, <1>16 DEF Next, Work

\* For every request but one for an IPv6 address the server reads no more than
\* the client has forwarded, so the wait for its confirmation never runs into
\* the deadline (OnBodyDo, GetServerRequest).
THEOREM OnlyIPv6RequestsStall == Spec => []OnlyIPv6Stalls
<1>1. ReadInv => OnlyIPv6Stalls
  BY DEF ReadInv
<1>2. QED
  BY <1>1, ReadInitially, ReadPreserved, PTL DEF Spec

-----------------------------------------------------------------------------
(* The payload arrives aligned.                                             *)

\* What the application writes, byte by byte: a greeting, a request, payload.
Greeting == IF req.front = "socks" THEN 2 + req.methods ELSE 0
Asked == Greeting + (IF req.front = "socks" THEN Size(req) ELSE 1)
Label(j) == IF j <= Greeting THEN -1 ELSE IF j <= Asked THEN 0 ELSE j - Asked

Written ==
    CASE sent = "nothing" -> 0
      [] sent = "greeting" -> Greeting
      [] sent = "request" -> Asked
      [] sent = "payload" -> Asked + Payload

\* How many of these bytes the client has taken.
Taken == Written - Len(in)

\* What the client has not taken is the rest of what was written.
InInv ==
    /\ req \in Requests /\ in \in Seq(Int)
    /\ sent \in {"nothing", "greeting", "request", "payload"}
    /\ Taken >= 0
    /\ \A i \in 1 .. Len(in) : in[i] = Label(Taken + i)

\* Where the client is tells how far it has read: it takes the greeting and
\* the request, not a byte more, however they came.
PosInv ==
    /\ cli \in {"greet", "greetRest", "ask", "askRest", "dial"} => req.front = "socks"
    /\ cli \in {"connect", "plain", "hijack"} => req.front # "socks"
    /\ cli \in {"connect", "hijack"} => ~lost
    /\ cli \in {"greet", "connect", "plain"} => Taken = 0
    /\ cli = "greetRest" => want \in Nat /\ Taken + want = Greeting
    /\ cli = "ask" => Taken = Greeting
    /\ cli = "askRest" => want \in Nat /\ Taken + want = Asked
    /\ cli = "hijack" => Taken = Asked
    /\ cli \in {"dial", "forward", "write", "await"} /\ ~lost => Taken = Asked

\* The request has been read to its end.
Behind == {"confirm", "dial", "pipe"}

\* The exceptions of Aligned.
Regular == ~lost /\ req.len < Radix

\* What is in the stream and at the target is the payload from its start.
PathInv ==
    /\ up \in Seq(Int) /\ tgt \in Seq(Int)
    /\ srv = "none" => up = <<>>
    /\ open => srv \in Reading \cup Behind
    /\ cli \in {"write", "await"} => via = "tunnel"
    /\ cli = "pipe" => srv \notin Reading /\ (via # "tunnel" => srv = "none")
    /\ srv \in Reading => Len(up) = 0 \/ Len(up) = Left(req, srv)
    /\ Regular =>
         /\ \A i \in 1 .. Len(tgt) : tgt[i] = i
         /\ cli \notin {"pipe", "done"} => tgt = <<>>
         /\ srv \in Behind => \A i \in 1 .. Len(up) : up[i] = Len(tgt) + i
         /\ srv \in Behind /\ cli \notin {"pipe", "done"} => up = <<>>
         /\ cli = "pipe" /\ (via = "tunnel" => open) =>
              Len(tgt) + Len(up) = Taken - Asked

AlignInv == InInv /\ PosInv /\ PathInv

LEMMA Layout ==
    ASSUME req \in Requests
    PROVE  /\ Greeting \in Nat /\ Asked \in Nat /\ Greeting <= Asked
           /\ Size(req) \in Nat /\ Payload \in Nat /\ Radix \in Nat
           /\ req.methods \in Nat
           /\ req.front = "socks" => Greeting = 2 + req.methods
                                     /\ Asked = Greeting + Size(req)
           /\ req.front # "socks" => Greeting = 0 /\ Asked = 1
           /\ req.type # "bad" => ReqLen(req) = Size(req)
           /\ sent \in {"nothing", "greeting", "request", "payload"} => Written \in Nat
<1>1. /\ req.methods \in 0 .. 1
      /\ req.type \in {"ip4", "ip6", "name", "change", "bad"}
  BY DEF Requests
<1>2. req.len \in Nat
  BY CutIsShorter
<1>3. /\ IPv4len \in Nat /\ IPv6len \in Nat /\ Payload \in Nat /\ Radix \in Nat
  <2>1. /\ IPv4len \in 1 .. Radix - 1 /\ IPv6len \in 1 .. Radix - 1
        /\ Radix \in Nat /\ Payload \in Nat
    BY SizesAssumption, Zenon
  <2> QED
    BY <2>1
<1>4. Size(req) \in Nat /\ (req.type # "bad" => ReqLen(req) = Size(req))
  BY <1>1, <1>2, <1>3 DEF Size, ReqLen, lenIPv4, lenIPv6, lenDmBase
<1>5. /\ Greeting \in Nat /\ Asked \in Nat /\ Greeting <= Asked
      /\ req.front = "socks" => Greeting = 2 + req.methods /\ Asked = Greeting + Size(req)
      /\ req.front # "socks" => Greeting = 0 /\ Asked = 1
  BY <1>1, <1>4 DEF Greeting, Asked
<1>6. sent \in {"nothing", "greeting", "request", "payload"} => Written \in Nat
  BY <1>3, <1>5 DEF Written
<1> QED
  BY <1>1, <1>3, <1>4, <1>5, <1>6

LEMMA SameLayout ==
    ASSUME req' = req
    PROVE  /\ Greeting' = Greeting /\ Asked' = Asked
           /\ \A j \in Int : Label(j)' = Label(j)
           /\ sent' = sent => Written' = Written
<1>1. Size(req)' = Size(req)
  BY DEF Size
<1>2. Greeting' = Greeting /\ Asked' = Asked
  BY <1>1 DEF Greeting, Asked
<1> QED
  BY <1>2 DEF Label, Written

\* The client takes the first n bytes.
LEMMA TakesBytes ==
    ASSUME InInv, NEW n \in Nat, n <= Len(in), in' = Drop(in, n),
           UNCHANGED <<req, sent>>
    PROVE  InInv' /\ Taken' = Taken + n
<1>1. /\ in \in Seq(Int) /\ req \in Requests /\ Len(in) \in Nat
      /\ sent \in {"nothing", "greeting", "request", "payload"}
  BY DEF InInv
<1>2. Written \in Nat /\ Written' = Written
  BY <1>1, Layout, SameLayout
<1>3. in' \in Seq(Int) /\ Len(in') = Len(in) - n
  BY <1>1, DropLength
<1>4. Taken' = Taken + n /\ Taken \in Int
  BY <1>1, <1>2, <1>3 DEF Taken
<1>5. ASSUME NEW i \in 1 .. Len(in')
      PROVE  in'[i] = Label(Taken + n + i)
  <2>1. i + n \in 1 .. Len(in) /\ in'[i] = in[i + n]
    <3>1. i \in Nat /\ i >= 1 /\ i <= Len(in) - n
      BY <1>1, <1>3
    <3>2. in'[i] = in[(n + 1) + i - 1]
      BY <1>1, <3>1 DEF Drop
    <3>3. i + n \in 1 .. Len(in) /\ (n + 1) + i - 1 = i + n
      BY <1>1, <3>1
    <3> QED
      BY <3>2, <3>3, Zenon
  <2>2. in[i + n] = Label(Taken + (i + n))
    BY <2>1 DEF InInv
  <2>3. Taken + (i + n) = Taken + n + i
    BY <1>4, <1>1, <1>3
  <2> QED
    BY <2>1, <2>2, <2>3
<1>6. \A i \in 1 .. Len(in') : in'[i] = Label(Taken + i)'
  <2> TAKE i \in 1 .. Len(in')
  <2>1. Taken' + i \in Int /\ Taken' + i = Taken + n + i
    BY <1>3, <1>4
  <2> QED
    BY <1>5, <2>1, SameLayout DEF Label
<1>7. Taken' >= 0
  BY <1>4 DEF InInv
<1> QED
  BY <1>1, <1>3, <1>4, <1>6, <1>7 DEF InInv

\* The application writes bytes.
LEMMA WritesBytes ==
    ASSUME InInv, NEW bytes \in Seq(Int), in' = in \o bytes, req' = req,
           sent' \in {"nothing", "greeting", "request", "payload"},
           Written' = Written + Len(bytes),
           \A i \in 1 .. Len(bytes) : bytes[i] = Label(Written + i)
    PROVE  InInv' /\ Taken' = Taken
<1>1. /\ in \in Seq(Int) /\ req \in Requests /\ Len(in) \in Nat
      /\ sent \in {"nothing", "greeting", "request", "payload"}
      /\ Len(bytes) \in Nat
  BY DEF InInv
<1>2. Written \in Nat
  BY <1>1, Layout
<1>3. in' \in Seq(Int) /\ Len(in') = Len(in) + Len(bytes)
  BY <1>1
<1>4. Taken' = Taken /\ Taken \in Int /\ Taken = Written - Len(in)
  BY <1>1, <1>2, <1>3 DEF Taken
<1>5. ASSUME NEW i \in 1 .. Len(in')
      PROVE  in'[i] = Label(Taken + i)
  <2>1. CASE i <= Len(in)
    BY <1>1, <2>1 DEF InInv
  <2>2. CASE i > Len(in)
    <3>1. in'[i] = bytes[i - Len(in)] /\ i - Len(in) \in 1 .. Len(bytes)
      BY <1>1, <1>3, <2>2
    <3>2. Written + (i - Len(in)) = Taken + i
      BY <1>1, <1>2, <1>4
    <3> QED
      BY <3>1, <3>2
  <2> QED
    BY <1>1, <2>1, <2>2
<1>6. \A i \in 1 .. Len(in') : in'[i] = Label(Taken + i)'
  <2> TAKE i \in 1 .. Len(in')
  <2>1. Taken' + i \in Int /\ Taken' + i = Taken + i
    BY <1>3, <1>4
  <2> QED
    BY <1>5, <2>1, SameLayout DEF Label
<1> QED
  BY <1>1, <1>3, <1>4, <1>6 DEF InInv

\* Nothing is written and nothing taken.
LEMMA BytesStay ==
    ASSUME InInv, UNCHANGED <<req, sent, in>>
    PROVE  InInv' /\ Taken' = Taken
<1>1. /\ Greeting' = Greeting /\ Asked' = Asked /\ Written' = Written
      /\ Taken' = Taken
  BY SameLayout DEF Taken
<1> QED
  BY <1>1 DEF InInv, Label

LEMMA WriteStep ==
    ASSUME InInv, Greet \/ Ask \/ Pay
    PROVE  InInv' /\ Taken' = Taken
<1> DEFINE all == {"nothing", "greeting", "request", "payload"}
<1>1. req \in Requests /\ req' = req /\ sent \in all
  BY DEF InInv, Greet, Ask, Pay, Send
<1>2. /\ Greeting \in Nat /\ Asked \in Nat /\ Greeting <= Asked
      /\ Size(req) \in Nat /\ Payload \in Nat
      /\ req.front = "socks" => Greeting = 2 + req.methods
                                /\ Asked = Greeting + Size(req)
      /\ req.front # "socks" => Greeting = 0 /\ Asked = 1
  BY <1>1, Layout
<1>3. Greeting' = Greeting /\ Asked' = Asked
  BY <1>1, SameLayout
<1>4. ASSUME NEW from \in all, NEW to \in all, NEW bytes \in Seq(Int),
             Send(from, to, bytes), Written' = Written + Len(bytes),
             \A i \in 1 .. Len(bytes) : bytes[i] = Label(Written + i)
      PROVE  InInv' /\ Taken' = Taken
  BY <1>1, <1>4, WritesBytes DEF Send
<1>5. CASE Greet
  <2> DEFINE bytes == Fill(-1, Greeting)
  <2>1. Send("nothing", "greeting", bytes) /\ Written = 0 /\ Written' = Greeting
    BY <1>2, <1>3, <1>5 DEF Greet, Send, Written
  <2>2. bytes \in Seq(Int) /\ Len(bytes) = Greeting
    BY <1>2 DEF Fill
  <2>3. \A i \in 1 .. Len(bytes) : bytes[i] = Label(Written + i)
    BY <1>2, <2>1, <2>2 DEF Fill, Label
  <2> HIDE DEF bytes
  <2> QED
    BY <1>2, <1>4, <2>1, <2>2, <2>3
<1>6. CASE Ask /\ req.front = "socks"
  <2> DEFINE bytes == Fill(0, Size(req))
  <2>1. Send("greeting", "request", bytes) /\ Written = Greeting /\ Written' = Asked
    BY <1>2, <1>3, <1>6 DEF Ask, Send, Written
  <2>2. bytes \in Seq(Int) /\ Len(bytes) = Size(req)
    BY <1>2, FillLength
  <2>3. \A i \in 1 .. Len(bytes) : bytes[i] = Label(Written + i)
    BY <1>2, <1>6, <2>1, <2>2 DEF Fill, Label
  <2> HIDE DEF bytes
  <2> QED
    BY <1>2, <1>4, <1>6, <2>1, <2>2, <2>3
<1>7. CASE Ask /\ req.front # "socks"
  <2>1. Send("nothing", "request", <<0>>) /\ Written = 0 /\ Written' = 1
    BY <1>2, <1>3, <1>7 DEF Ask, Send, Written
  <2>2. <<0>> \in Seq(Int) /\ Len(<<0>>) = 1
    OBVIOUS
  <2>3. \A i \in 1 .. Len(<<0>>) : <<0>>[i] = Label(Written + i)
    BY <1>2, <1>7, <2>1 DEF Label
  <2>4. Written' = Written + Len(<<0>>)
    BY <2>1, <2>2
  <2>5. Send("nothing", "request", <<0>>)
    BY <2>1
  <2> QED
    BY ONLY <1>4, <2>2, <2>3, <2>4, <2>5
<1>8. CASE Pay
  <2> DEFINE bytes == [i \in 1 .. Payload |-> i]
  <2>1. Send("request", "payload", bytes) /\ Written = Asked /\ Written' = Asked + Payload
    BY <1>2, <1>3, <1>8 DEF Pay, Send, Written
  <2>2. bytes \in Seq(Int) /\ Len(bytes) = Payload
    BY <1>2
  <2>3. \A i \in 1 .. Len(bytes) : bytes[i] = Label(Written + i)
    BY <1>2, <2>1, <2>2 DEF Label
  <2> HIDE DEF bytes
  <2> QED
    BY <1>2, <1>4, <2>1, <2>2, <2>3
<1> QED
  BY <1>5, <1>6, <1>7, <1>8

\* What is still to be read, and what has been read, after each step.
LEMMA PosPreserved ==
    ASSUME ReadInv, InInv, PosInv, [Next]_vars
    PROVE  InInv' /\ PosInv'
<1>1. req' = req
  BY DEF Next, Work, vars, application, client, server, Quiet, Serves, Greet, Ask,
         Pay, Leave, Send, Break, HandShake, Confirmed, GetLocalRequest, Decide,
         EndOfRequest, Dial, HandleTunneling, Hijack, HandleHTTP, Reject,
         NewConnnect, Forward, GetConfirm, ConfirmFails, Copy, CopyEnds,
         AcceptStream, ReadHead, ReadLen, ReadRest, RequestEnds, Confirm,
         ServerDial, Pipe, PipeEnds
<1>2. /\ req \in Requests /\ in \in Seq(Int) /\ Len(in) \in Nat
      /\ Taken \in Int /\ Taken >= 0
  BY Layout DEF InInv, Taken
<1>3. /\ Greeting \in Nat /\ Asked \in Nat /\ Greeting <= Asked
      /\ Size(req) \in Nat /\ req.methods \in Nat /\ Radix \in Nat
      /\ req.front = "socks" => Greeting = 2 + req.methods
                                /\ Asked = Greeting + Size(req)
      /\ req.front # "socks" => Greeting = 0 /\ Asked = 1
      /\ req.type # "bad" => ReqLen(req) = Size(req)
  BY <1>2, Layout
<1>4. Greeting' = Greeting /\ Asked' = Asked
  BY <1>1, SameLayout
<1> USE DEF PosInv, application, client, server, Quiet, Serves, Fault
<1>5. CASE Greet \/ Ask \/ Pay
  <2>1. InInv' /\ Taken' = Taken
    BY <1>5, WriteStep
  <2>2. UNCHANGED <<cli, lost, want>>
    BY <1>5 DEF Greet, Ask, Pay, Send
  <2> QED
    BY <1>1, <1>4, <2>1, <2>2
<1>6. ASSUME UNCHANGED <<sent, in>>
      PROVE  InInv' /\ Taken' = Taken
  BY <1>1, <1>6, BytesStay
<1>7. ASSUME NEW n \in Nat, n <= Len(in), in' = Drop(in, n), UNCHANGED sent
      PROVE  InInv' /\ Taken' = Taken + n
  BY <1>1, <1>7, TakesBytes
<1>8. CASE Leave \/ Break \/ UNCHANGED vars
  <2>1. UNCHANGED <<sent, in, cli, lost, want>>
    BY <1>8 DEF Leave, Break, vars
  <2> QED
    BY <1>1, <1>4, <1>6, <2>1
<1>9. CASE EndOfRequest \/ Dial \/ NewConnnect \/ Forward \/ GetConfirm
           \/ ConfirmFails \/ CopyEnds
  <2>1. /\ UNCHANGED <<sent, in, lost, want>>
        /\ \/ cli' \in {"done", "pipe"}
           \/ cli = "forward" /\ cli' = "write"
           \/ cli = "write" /\ cli' = "await"
    BY <1>9 DEF EndOfRequest, Dial, NewConnnect, Forward, GetConfirm,
       ConfirmFails, CopyEnds, Close
  <2> QED
    BY <1>1, <1>4, <1>6, <2>1
<1>10. CASE \/ AcceptStream \/ ReadHead \/ ReadLen \/ ReadRest \/ RequestEnds
            \/ Confirm \/ ServerDial \/ Pipe \/ PipeEnds
  <2>1. UNCHANGED <<sent, in, cli, lost, want>>
    BY <1>10 DEF AcceptStream, ReadHead, ReadLen, ReadRest, RequestEnds,
       Confirm, ServerDial, Pipe, PipeEnds
  <2> QED
    BY <1>1, <1>4, <1>6, <2>1
<1>11. CASE HandShake
  <2> DEFINE msgLen == 2 + req.methods
  <2>1. PICK n \in 2 .. Least(Len(in), Radix + 2) :
          /\ in' = Drop(in, n)
          /\ IF n > msgLen THEN Close(<<>>) /\ UNCHANGED want
             ELSE want' = msgLen - n /\ cli' = "greetRest" /\ UNCHANGED replies
    BY ONLY <1>11, Zenon DEF HandShake
  <2>2. n \in Nat /\ n <= Len(in)
    BY <1>2, <1>3 DEF Least
  <2>5. \/ cli' = "done"
        \/ cli' = "greetRest" /\ n <= msgLen /\ want' = msgLen - n
    BY <1>3, <2>1, <2>2 DEF Close
  <2>3. UNCHANGED <<sent, lost>> /\ cli = "greet"
    BY <1>11 DEF HandShake
  <2>4. InInv' /\ Taken' = Taken + n
    BY <1>7, <2>1, <2>2, <2>3
  <2>6. Taken = 0 /\ msgLen = Greeting
    BY <1>3, <2>3
  <2>7. (want' \in Nat /\ Taken' + want' = Greeting) \/ cli' = "done"
    BY <1>3, <2>2, <2>4, <2>5, <2>6
  <2> QED
    BY <1>1, <1>4, <2>3, <2>4, <2>5, <2>7
<1>12. CASE Confirmed \/ Decide
  <2>1. /\ UNCHANGED <<sent, lost>> /\ Len(in) >= want /\ in' = Drop(in, want)
        /\ \/ cli = "greetRest" /\ cli' \in {"ask", "done"}
           \/ cli = "askRest" /\ cli' \in {"forward", "dial"}
    BY <1>12 DEF Confirmed, Decide, Close
  <2>2. want \in Nat
    BY <2>1
  <2>3. InInv' /\ Taken' = Taken + want
    BY <1>2, <1>7, <2>1, <2>2
  <2> QED
    BY <1>1, <1>2, <1>3, <1>4, <2>1, <2>2, <2>3
<1>13. CASE GetLocalRequest
  <2>1. PICK n \in 5 .. Least(Len(in), Radix + 7) :
          /\ in' = Drop(in, n)
          /\ IF req.type = "bad" \/ (~Panics(req) /\ n > ReqLen(req))
               THEN cli' = "done"
               ELSE /\ cli' = IF Panics(req) THEN "panic" ELSE "askRest"
                    /\ want' = ReqLen(req) - n
    BY <1>13 DEF GetLocalRequest, Close
  <2>2. n \in Nat /\ n <= Len(in)
    BY <1>2, <1>3 DEF Least
  <2>3. UNCHANGED <<sent, lost>> /\ cli = "ask"
    BY <1>13 DEF GetLocalRequest
  <2>4. InInv' /\ Taken' = Taken + n
    BY <1>7, <2>1, <2>2, <2>3
  <2>5. \/ cli' \in {"done", "panic"}
        \/ cli' = "askRest" /\ n <= Size(req) /\ want' = Size(req) - n
    BY <1>3, <2>1, <2>2
  <2>6. (want' \in Nat /\ Taken' + want' = Asked) \/ cli' \in {"done", "panic"}
    BY <1>2, <1>3, <2>2, <2>3, <2>4, <2>5, SMTT(30)
  <2> QED
    BY <1>1, <1>4, <2>3, <2>4, <2>5, <2>6
<1>14. CASE HandleTunneling \/ HandleHTTP \/ Reject
  <2>1. /\ UNCHANGED <<sent, lost>> /\ in # <<>> /\ in' = Drop(in, 1)
        /\ (cli = "connect" /\ cli' = "hijack") \/ cli' = "done"
    BY <1>14 DEF HandleTunneling, HandleHTTP, Reject, Close
  <2>2. Len(in) >= 1
    BY <1>2, <2>1
  <2>3. InInv' /\ Taken' = Taken + 1
    BY <1>7, <2>1, <2>2
  <2>4. cli = "connect" => Taken' = Asked
    BY <1>3, <2>3
  <2>5. CASE cli' = "done"
    BY <2>3, <2>5
  <2>6. CASE cli = "connect" /\ cli' = "hijack"
    BY <1>1, <1>4, <2>1, <2>3, <2>4, <2>6
  <2> QED
    BY <2>1, <2>5, <2>6
<1>15. CASE Hijack
  <2>1. PICK k \in 0 .. Len(in) : in' = Drop(in, k) /\ lost' = (k > 0)
    BY <1>15 DEF Hijack
  <2>2. UNCHANGED sent /\ cli = "hijack" /\ cli' = "forward"
    BY <1>15 DEF Hijack
  <2>3. InInv' /\ Taken' = Taken + k
    BY <1>2, <1>7, <2>1, <2>2
  <2>4. ~lost' => ~(k > 0)
    BY ONLY <2>1, Zenon
  <2>5. ~lost' => Taken' = Asked
    BY <1>2, <1>3, <2>2, <2>3, <2>4
  <2> QED
    BY <1>4, <2>2, <2>3, <2>5
<1>16. CASE Copy
  <2>1. UNCHANGED <<sent, lost, cli>> /\ cli = "pipe" /\ in # <<>> /\ in' = Tail(in)
    BY <1>16 DEF Copy
  <2>2. Len(in) >= 1 /\ in' = Drop(in, 1)
    BY <1>2, <2>1 DEF Drop
  <2>3. InInv'
    BY <1>7, <2>1, <2>2
  <2> QED
    BY <2>1, <2>3
<1> QED
  BY <1>5, <1>8, <1>9, <1>10, <1>11, <1>12, <1>13, <1>14, <1>15, <1>16
     DEF Next, Work

\* The server expects what is left of the request, or more of an IPv6 one.
LEMMA RestIsLeft ==
    ASSUME NEW r \in Requests, r.type \in {"name", "ip4", "ip6"}, r.len < Radix
    PROVE  /\ Rest(r) \in Nat \ {0}
           /\ r.type # "ip6" => Rest(r) = Left(r, "rest")
           /\ r.type = "ip6" => Rest(r) > Left(r, "rest")
<1>1. r.len \in Nat /\ LenByte(r) = r.len
  <2>1. r.len \in Nat /\ Radix \in Nat /\ Radix > 5
    BY CutIsShorter, SizesAssumption
  <2> QED
    BY <2>1 DEF LenByte
<1>2. IPv4len \in Nat /\ IPv6len \in Nat
  <2>1. IPv4len \in 1 .. Radix - 1 /\ IPv6len \in 1 .. Radix - 1 /\ Radix \in Nat
    BY SizesAssumption, Zenon
  <2> QED
    BY <2>1
<1> QED
  BY <1>1, <1>2 DEF Rest, Left, Size, lenIPv4, lenIPv6, lenDmBase

LEMMA PathPreserved ==
    ASSUME ReadInv, InInv, PosInv, PathInv, [Next]_vars
    PROVE  PathInv'
<1>1. /\ req \in Requests /\ up \in Seq(Int) /\ tgt \in Seq(Int)
      /\ Len(up) \in Nat /\ Len(tgt) \in Nat /\ in \in Seq(Int)
      /\ Taken \in Int /\ Asked \in Nat
  BY Layout DEF InInv, PathInv, Taken
<1>2. ASSUME UNCHANGED <<req, sent, in>>
      PROVE  Taken' = Taken /\ Asked' = Asked
  BY <1>2, BytesStay, SameLayout
<1>3. CASE Greet \/ Ask \/ Pay
  <2>1. UNCHANGED <<req, up, open, srv, via, cli, lost, tgt>>
    BY <1>3 DEF Greet, Ask, Pay, Send, client, server
  <2>2. Taken' = Taken /\ Asked' = Asked
    BY <1>3, <2>1, WriteStep, SameLayout
  <2> QED
    BY <2>1, <2>2 DEF PathInv, Regular, Left
<1>4. CASE Leave \/ UNCHANGED vars
  <2>1. UNCHANGED <<req, sent, in, up, open, srv, via, cli, lost, tgt>>
    BY <1>4 DEF Leave, vars, application, client, server
  <2> QED
    BY <1>2, <2>1 DEF PathInv, Regular, Left
<1>5. CASE \/ HandShake \/ Confirmed \/ GetLocalRequest \/ Decide \/ EndOfRequest
           \/ HandleTunneling \/ Hijack \/ HandleHTTP \/ Reject
  <2>1. /\ UNCHANGED <<req, up, open, srv, tgt>>
        /\ cli' \notin {"pipe", "write", "await"}
        /\ cli \in Early
    BY <1>5 DEF HandShake, Confirmed, GetLocalRequest, Decide, EndOfRequest,
       HandleTunneling, Hijack, HandleHTTP, Reject, Quiet, Close, Early,
       application, server
  <2>2. lost' = lost \/ cli = "hijack"
    BY <1>5 DEF HandShake, Confirmed, GetLocalRequest, Decide, EndOfRequest,
       HandleTunneling, Hijack, HandleHTTP, Reject
  <2>3. Regular' => Regular
    BY <2>1, <2>2 DEF Regular, PosInv
  <2>4. up = <<>> /\ ~open /\ srv = "none"
    BY <2>1 DEF ReadInv
  <2>5. Regular => tgt = <<>>
    BY <2>1 DEF PathInv, Early
  <2> QED
    BY <1>1, <2>1, <2>3, <2>4, <2>5 DEF PathInv, Reading, Behind
<1>6. CASE Dial
  <2>1. /\ cli = "dial" /\ UNCHANGED <<req, sent, in, up, open, srv, tgt, lost>>
        /\ \/ cli' = "pipe" /\ via' = "direct"
           \/ cli' = "done" /\ via' = via
    BY <1>6 DEF Dial, Quiet, Close, application, server
  <2>2. up = <<>> /\ ~open /\ srv = "none"
    BY <2>1 DEF ReadInv, Early
  <2>3. Regular => tgt = <<>> /\ Taken' - Asked' = 0
    BY <1>1, <1>2, <2>1 DEF PathInv, PosInv, Regular
  <2>4. Regular' = Regular
    BY <2>1 DEF Regular
  <2> QED
    BY <1>1, <2>1, <2>2, <2>3, <2>4 DEF PathInv, Reading, Behind
<1>7. CASE NewConnnect
  <2>1. /\ cli = "forward" /\ UNCHANGED <<req, up, tgt, lost>>
        /\ \/ cli' = "write" /\ via' = "tunnel" /\ srv' = "new"
           \/ cli' = "done" /\ UNCHANGED <<open, srv>>
    BY <1>7 DEF NewConnnect, Close, application
  <2>2. up = <<>> /\ ~open /\ srv = "none"
    BY <2>1 DEF ReadInv, Early
  <2>3. Regular' = Regular /\ (Regular => tgt = <<>>)
    BY <2>1 DEF PathInv, Regular
  <2> QED
    BY <1>1, <2>1, <2>2, <2>3 DEF PathInv, Reading, Behind
<1>8. CASE Forward
  <2>1. /\ cli = "write" /\ UNCHANGED <<req, srv, open, via, tgt, lost>>
        /\ \/ open /\ cli' = "await" /\ up' = Fill(0, Size(req))
           \/ cli' = "done" /\ UNCHANGED up
    BY <1>8 DEF Forward, Close, application, server
  <2>2. Size(req) \in Nat
    BY <1>1, Layout
  <2>3. Fill(0, Size(req)) \in Seq(Int) /\ Len(Fill(0, Size(req))) = Size(req)
    BY <2>2, FillLength
  <2>4. open => srv \in {"new", "head"}
    BY <2>1 DEF ReadInv, PathInv, Reading, Behind
  <2>5. Regular' = Regular
    BY <2>1 DEF Regular
  <2> QED
    BY <2>1, <2>3, <2>4, <2>5 DEF PathInv, Reading, Behind, Left
<1>9. CASE GetConfirm
  <2>1. /\ cli = "await" /\ UNCHANGED <<req, sent, in, srv, via, up, tgt, lost>>
        /\ srv \notin Reading
        /\ \/ cli' = "pipe" /\ UNCHANGED open
           \/ cli' = "done" /\ open' = FALSE
    BY <1>9 DEF GetConfirm, Close, application, server, Reading
  <2>2. Regular => Taken' - Asked' = 0
    BY <1>1, <1>2, <2>1 DEF PosInv, Regular
  <2>3. via = "tunnel"
    BY <2>1 DEF PathInv
  <2>4. Regular /\ open => Len(up) = 0 /\ Len(tgt) = 0
    BY <2>1 DEF PathInv
  <2>5. Regular' = Regular
    BY <2>1 DEF Regular
  <2> QED
    BY <2>1, <2>2, <2>3, <2>4, <2>5 DEF PathInv, Left
<1>10. CASE ConfirmFails \/ CopyEnds
  <2>1. /\ UNCHANGED <<req, srv, via, up, tgt, lost>>
        /\ cli' = "done" /\ open' = FALSE
    BY <1>10 DEF ConfirmFails, CopyEnds, Close, application, server
  <2> QED
    BY <2>1 DEF PathInv, Left, Regular
<1>11. CASE Copy
  <2>1. /\ cli = "pipe" /\ UNCHANGED <<req, sent, cli, srv, via, open, lost>>
        /\ in # <<>> /\ in' = Tail(in)
    BY <1>11 DEF Copy, application, client, server
  <2>2. /\ Len(in) \in Nat /\ Len(in) >= 1 /\ in' = Drop(in, 1)
        /\ Head(in) = in[1]
    BY <1>1, <2>1 DEF Drop
  <2>3. Taken' = Taken + 1 /\ Asked' = Asked
    BY <2>1, <2>2, TakesBytes, SameLayout
  <2>4. Head(in) \in Int
    BY <1>1, <2>2
  <2>5. Taken >= Asked => Head(in) = Taken - Asked + 1
    <3>1. in[1] = Label(Taken + 1)
      BY <2>2 DEF InInv
    <3>2. Greeting \in Nat /\ Greeting <= Asked
      BY <1>1, Layout
    <3> QED
      BY <1>1, <2>2, <3>1, <3>2 DEF Label
  <2>6. Regular' = Regular
    BY <2>1 DEF Regular
  <2>7. CASE via = "tunnel"
    <3>1. open /\ up' = Append(up, Head(in)) /\ tgt' = tgt
      BY <1>11, <2>7 DEF Copy
    <3>2. /\ up' \in Seq(Int) /\ Len(up') = Len(up) + 1
          /\ \A i \in 1 .. Len(up) : up'[i] = up[i]
          /\ up'[Len(up) + 1] = Head(in)
      BY <1>1, <2>4, <3>1
    <3>3. srv \notin Reading /\ srv \in Behind
      BY <2>1, <3>1 DEF PathInv
    <3>4. Regular => Len(tgt) + Len(up) = Taken - Asked
      BY <2>1, <3>1 DEF PathInv
    <3>5. ASSUME Regular
          PROVE  Head(in) = Len(tgt) + Len(up) + 1
      <4>1. Len(tgt) + Len(up) = Taken - Asked
        BY <3>4, <3>5
      <4>2. Taken >= Asked
        BY <1>1, <4>1
      <4> QED
        BY <2>5, <4>1, <4>2
    <3>6. Regular => \A i \in 1 .. Len(up') : up'[i] = Len(tgt) + i
      <4> SUFFICES ASSUME Regular, NEW i \in 1 .. Len(up')
                   PROVE  up'[i] = Len(tgt) + i
        OBVIOUS
      <4>1. CASE i \in 1 .. Len(up)
        BY <3>2, <3>3, <4>1 DEF PathInv
      <4>2. CASE i = Len(up) + 1
        BY <1>1, <3>2, <3>5, <4>2
      <4> QED
        BY <1>1, <3>2, <4>1, <4>2
    <3>7. Regular => Len(tgt) + Len(up') = Taken' - Asked'
      BY <1>1, <2>3, <3>2, <3>4
    <3>8. srv # "none"
      BY <3>3 DEF Behind
    <3> QED
      BY <2>1, <2>6, <2>7, <3>1, <3>2, <3>3, <3>6, <3>7, <3>8 DEF PathInv
  <2>8. CASE via # "tunnel"
    <3>1. tgt' = Append(tgt, Head(in)) /\ up' = up
      BY <1>11, <2>8 DEF Copy
    <3>2. /\ tgt' \in Seq(Int) /\ Len(tgt') = Len(tgt) + 1
          /\ \A i \in 1 .. Len(tgt) : tgt'[i] = tgt[i]
          /\ tgt'[Len(tgt) + 1] = Head(in)
      BY <1>1, <2>4, <3>1
    <3>3. srv = "none" /\ up = <<>> /\ Len(up) = 0
      BY <2>1, <2>8 DEF PathInv
    <3>4. Regular => Len(tgt) = Taken - Asked
      BY <1>1, <2>1, <2>8, <3>3 DEF PathInv
    <3>5. Regular => Head(in) = Len(tgt) + 1
      BY <1>1, <2>5, <3>4
    <3>6. Regular => \A i \in 1 .. Len(tgt') : tgt'[i] = i
      <4> SUFFICES ASSUME Regular, NEW i \in 1 .. Len(tgt')
                   PROVE  tgt'[i] = i
        OBVIOUS
      <4>1. CASE i \in 1 .. Len(tgt)
        BY <3>2, <4>1 DEF PathInv
      <4>2. CASE i = Len(tgt) + 1
        BY <1>1, <3>2, <3>5, <4>2
      <4> QED
        BY <1>1, <3>2, <4>1, <4>2
    <3>7. Regular => Len(tgt') + Len(up') = Taken' - Asked'
      BY <1>1, <2>3, <3>1, <3>2, <3>3, <3>4
    <3> QED
      BY <2>1, <2>6, <2>8, <3>1, <3>2, <3>3, <3>6, <3>7
         DEF PathInv, Reading, Behind
  <2> QED
    BY <2>7, <2>8
<1>12. CASE AcceptStream
  <2>1. /\ srv = "new" /\ srv' = "head"
        /\ UNCHANGED <<req, sent, in, cli, via, open, lost, up, tgt>>
    BY <1>12 DEF AcceptStream, Serves, application, client
  <2> QED
    BY <2>1 DEF PathInv, Regular, Left, Reading, Behind
<1>13. CASE ReadHead
  <2>1. /\ srv = "head" /\ need = 4 /\ Len(up) >= 4 /\ up' = Drop(up, 4)
        /\ UNCHANGED <<req, cli, via, lost, tgt>> /\ req.type # "bad"
    BY <1>13 DEF ReadHead, Serves, application, client, ReadInv
  <2>2. cli # "pipe" /\ Len(up) = Size(req)
    BY <2>1 DEF PathInv, Reading, Left
  <2>3. up' \in Seq(Int) /\ Len(up') = Size(req) - 4
    BY <1>1, <2>1, <2>2, DropLength
  <2>4. \/ req.type = "name" /\ srv' = "len" /\ open' = open
        \/ req.type \in {"ip4", "ip6"} /\ srv' = "rest" /\ open' = open
        \/ srv' = "refused" /\ open' = FALSE
    <3>1. req.type \in {"ip4", "ip6", "name", "change"}
      BY <1>1, <2>1 DEF Requests
    <3> QED
      BY <1>13, <3>1 DEF ReadHead
  <2>5. Size(req)' = Size(req) /\ Regular' = Regular
    BY <2>1 DEF Size, Regular
  <2> QED
    BY <2>1, <2>2, <2>3, <2>4, <2>5 DEF PathInv, Left, Reading, Behind
<1>14. CASE ReadLen
  <2>1. /\ srv = "len" /\ need = 1 /\ req.type = "name" /\ Len(up) >= 1
        /\ up' = Drop(up, 1) /\ srv' = "rest"
        /\ UNCHANGED <<req, cli, via, lost, open, tgt>>
    BY <1>14 DEF ReadLen, Serves, application, client, ReadInv
  <2>2. cli # "pipe" /\ Len(up) = Size(req) - 4
    BY <2>1 DEF PathInv, Reading, Left
  <2>3. up' \in Seq(Int) /\ Len(up') = Size(req) - 5
    <3>1. Size(req) \in Nat
      BY <1>1, Layout
    <3>2. up' \in Seq(Int) /\ Len(up') = Len(up) - 1
      BY <1>1, <2>1, DropLength
    <3> QED
      BY <2>2, <3>1, <3>2
  <2>4. Size(req)' = Size(req) /\ Regular' = Regular
    BY <2>1 DEF Size, Regular
  <2> QED
    BY <2>1, <2>2, <2>3, <2>4 DEF PathInv, Left, Reading, Behind
<1>15. CASE ReadRest
  <2>1. /\ srv = "rest" /\ need = Rest(req) /\ Len(up) >= need
        /\ up' = Drop(up, need) /\ srv' = "confirm"
        /\ req.type \in {"name", "ip4", "ip6"}
        /\ UNCHANGED <<req, cli, via, lost, open, tgt>>
    BY <1>15 DEF ReadRest, Serves, application, client, ReadInv
  <2>2. cli # "pipe" /\ (Len(up) = 0 \/ Len(up) = Left(req, "rest"))
    BY <2>1 DEF PathInv, Reading
  <2>3. up' \in Seq(Int)
    <3>1. Rest(req) \in Nat
      <4>1. /\ Size(req) \in Nat /\ Size(req) >= 6
            /\ req.type = "name" => Rest(req) \in Nat
            /\ req.type = "ip4" => Rest(req) = Size(req) - 4
            /\ req.type = "ip6" => Rest(req) \in Nat
        BY <1>1, <2>1, Parts
      <4> QED
        BY <2>1, <4>1
    <3> QED
      BY <1>1, <2>1, <3>1, DropLength
  <2>4. ASSUME Regular
        PROVE  up' = <<>>
    <3>1. /\ Rest(req) \in Nat \ {0}
          /\ req.type # "ip6" => Rest(req) = Left(req, "rest")
          /\ req.type = "ip6" => Rest(req) > Left(req, "rest")
      BY <1>1, <2>1, <2>4, RestIsLeft DEF Regular
    <3>2. need = Len(up)
      BY <1>1, <2>1, <2>2, <3>1
    <3>3. up' = Drop(up, Len(up))
      BY <2>1, <3>2
    <3> QED
      BY <1>1, <3>3 DEF Drop
  <2>5. Regular' = Regular
    BY <2>1 DEF Regular
  <2> QED
    BY <1>1, <2>1, <2>2, <2>3, <2>4, <2>5 DEF PathInv, Reading, Behind
<1>16. CASE RequestEnds \/ Confirm
  <2>1. /\ srv \in {"head", "len", "rest", "confirm"}
        /\ \/ srv' = "refused" /\ ~open
           \/ srv = "confirm" /\ srv' = "dial" /\ open
        /\ UNCHANGED <<req, sent, in, cli, via, lost, open, up, tgt>>
    BY <1>16 DEF RequestEnds, Confirm, Starving, Serves, application, client
  <2> QED
    BY <1>2, <2>1 DEF PathInv, Regular, Reading, Behind
<1>17. CASE ServerDial \/ PipeEnds
  <2>1. /\ srv \in {"dial", "pipe"}
        /\ UNCHANGED <<req, sent, in, cli, via, lost, up, tgt>>
        /\ \/ srv' = "pipe" /\ open' = open
           \/ srv' = "ended" /\ open' = FALSE
    BY <1>17 DEF ServerDial, PipeEnds, application, client
  <2> QED
    BY <1>2, <2>1 DEF PathInv, Regular, Reading, Behind
<1>18. CASE Pipe
  <2>1. /\ srv = "pipe" /\ up # <<>>
        /\ up' = Tail(up) /\ tgt' = Append(tgt, Head(up))
        /\ UNCHANGED <<req, sent, in, cli, via, lost, open, srv>>
    BY <1>18 DEF Pipe, application, client, server
  <2>2. /\ Len(up) >= 1 /\ Head(up) = up[1] /\ up[1] \in Int
        /\ up' \in Seq(Int) /\ Len(up') = Len(up) - 1
        /\ \A i \in 1 .. Len(up') : up'[i] = up[i + 1]
    BY <1>1, <2>1
  <2>3. /\ tgt' \in Seq(Int) /\ Len(tgt') = Len(tgt) + 1
        /\ \A i \in 1 .. Len(tgt) : tgt'[i] = tgt[i]
        /\ tgt'[Len(tgt) + 1] = up[1]
    BY <1>1, <2>1, <2>2
  <2>4. Regular' = Regular /\ Taken' = Taken /\ Asked' = Asked
    BY <1>2, <2>1 DEF Regular
  <2>5. ASSUME Regular
        PROVE  /\ \A i \in 1 .. Len(tgt') : tgt'[i] = i
               /\ \A i \in 1 .. Len(up') : up'[i] = Len(tgt') + i
               /\ cli \in {"pipe", "done"}
    <3>1. /\ \A i \in 1 .. Len(up) : up[i] = Len(tgt) + i
          /\ \A i \in 1 .. Len(tgt) : tgt[i] = i
          /\ cli \in {"pipe", "done"}
      BY <2>1, <2>5 DEF PathInv, Behind
    <3>2. up[1] = Len(tgt) + 1
      BY <1>1, <2>2, <3>1
    <3>3. ASSUME NEW i \in 1 .. Len(tgt')
          PROVE  tgt'[i] = i
      <4>1. i \in 1 .. Len(tgt) \/ i = Len(tgt) + 1
        BY <1>1, <2>3
      <4> QED
        BY <2>3, <3>1, <3>2, <4>1
    <3>4. ASSUME NEW i \in 1 .. Len(up')
          PROVE  up'[i] = Len(tgt') + i
      <4>1. i + 1 \in 1 .. Len(up) /\ up'[i] = up[i + 1]
        BY <1>1, <2>2
      <4>2. up[i + 1] = Len(tgt) + (i + 1)
        BY <3>1, <4>1
      <4> QED
        BY <1>1, <2>3, <4>1, <4>2
    <3> QED
      BY <3>1, <3>3, <3>4
  <2>6. Len(tgt') + Len(up') = Len(tgt) + Len(up)
    BY <1>1, <2>2, <2>3
  <2> QED
    BY <2>1, <2>2, <2>3, <2>4, <2>5, <2>6 DEF PathInv, Reading, Behind
<1>19. CASE Break
  <2>1. /\ open /\ open' = FALSE /\ up' = <<>> /\ srv' \in {srv, "refused"}
        /\ UNCHANGED <<req, cli, via, lost, tgt>>
    BY <1>19 DEF Break, application, client
  <2>2. srv \in Reading \cup Behind /\ srv # "none"
    BY <2>1 DEF PathInv, Reading, Behind
  <2>3. up' \in Seq(Int) /\ Len(up') = 0
    BY <2>1
  <2> QED
    BY <2>1, <2>2, <2>3 DEF PathInv, Regular, Reading, Behind
<1> QED
  BY <1>3, <1>4, <1>5, <1>6, <1>7, <1>8, <1>9, <1>10, <1>11, <1>12, <1>13,
     <1>14, <1>15, <1>16, <1>17, <1>18, <1>19 DEF Next, Work

LEMMA AlignInitially == Init => AlignInv
<1> SUFFICES ASSUME Init
             PROVE  AlignInv
  OBVIOUS
<1>1. /\ req \in Requests /\ sent = "nothing" /\ in = <<>> /\ lost = FALSE
      /\ up = <<>> /\ tgt = <<>> /\ srv = "none" /\ open = FALSE
  BY DEF Init
<1>2. /\ cli \in {"greet", "connect", "plain"}
      /\ cli = "greet" => req.front = "socks"
      /\ cli \in {"connect", "plain"} => req.front # "socks"
  <2>1. req.front \in {"socks", "http", "plain"}
    BY <1>1 DEF Requests
  <2> QED
    BY <2>1 DEF Init
<1>3. Taken = 0 /\ Len(in) = 0
  BY <1>1 DEF Taken, Written
<1>4. InInv
  BY <1>1, <1>3 DEF InInv
<1>5. PosInv
  BY <1>1, <1>2, <1>3 DEF PosInv
<1>6. PathInv
  BY <1>1, <1>2 DEF PathInv, Reading, Behind
<1> QED
  BY <1>4, <1>5, <1>6 DEF AlignInv

\* The target gets the payload from its first byte on and in order, for any
\* lengths of the parts and however TCP cut them: neither the client nor the
\* server reads beyond the request it was to read, and the one that reads too
\* much of an IPv6 request never gets it (Socks5HandShake, GetLocalRequest,
\* GetServerRequest, OldPipe, Pipe).
THEOREM PayloadIsAligned == Spec => []Aligned
<1>1. ReadInv /\ AlignInv /\ [Next]_vars => AlignInv'
  BY PosPreserved, PathPreserved DEF AlignInv
<1>2. AlignInv => Aligned
  <2> SUFFICES ASSUME AlignInv, Regular
               PROVE  \A i \in DOMAIN tgt : tgt[i] = i
    <3>1. req \in Requests => req.len \in Int /\ Radix \in Int
      BY CutIsShorter, Layout
    <3>2. AlignInv => req \in Requests
      BY DEF AlignInv, InInv
    <3> QED
      BY <3>1, <3>2 DEF Aligned, Regular
  <2>1. tgt \in Seq(Int) /\ \A i \in 1 .. Len(tgt) : tgt[i] = i
    BY DEF AlignInv, PathInv
  <2> QED
    BY <2>1
<1> QED
  BY <1>1, <1>2, ReadInitially, ReadPreserved, AlignInitially, PTL DEF Spec

-----------------------------------------------------------------------------
(* ClientListen: a reset that races with a count costs one.                 *)

Ops == {"record", "record2", "vanish", "route", "fix", "report"}
Kinds == {"client", "probe", "close"}

\* What the handlers have to count are operations ErrRecord and the others
\* implement, and the counters stay integers.
CountInv ==
    /\ todo \in [Handlers -> Seq(Ops \cup {"hang"})]
    /\ backlog \in Seq(Kinds)
    /\ cnt \in [Fields -> Int]
    /\ ResetCostsOne

\* What is left to a handler is part of what it had.
LEMMA LeftToDo ==
    ASSUME todo \in [Handlers -> Seq(Ops \cup {"hang"})],
           NEW h \in Handlers, todo[h] # <<>>, Done(h)
    PROVE  /\ todo' \in [Handlers -> Seq(Ops \cup {"hang"})]
           /\ Head(todo[h]) \in Ops \cup {"hang"}
<1>1. Tail(todo[h]) \in Seq(Ops \cup {"hang"}) /\ Head(todo[h]) \in Ops \cup {"hang"}
  BY HeadTailProperties
<1>2. QED
  BY <1>1 DEF Done

\* A count that goes on from what it read, or from the zero of a reset, ends
\* at -1 or above; it never leaves the integers.
LEMMA CountedBounds ==
    ASSUME Replaced \in Nat,
           NEW op \in Ops, NEW f \in Touched(op), NEW v \in Int, NEW base \in {0, v}
    PROVE  /\ Counted(op, f, v, base) \in Int
           /\ f = "RouteErrCount" /\ v >= -1 => Counted(op, f, v, base) >= -1
<1>1. base \in Int
  OBVIOUS
<1>2. CASE op = "report"
  BY <1>1, <1>2 DEF Touched, Counted
<1>3. CASE op \in {"vanish", "fix"}
  BY <1>1, <1>3 DEF Counted, Vanish
<1>4. CASE op \in {"record", "route"}
  BY <1>1, <1>4 DEF Counted
<1>5. CASE op = "record2"
  BY <1>1, <1>5 DEF Counted
<1>6. QED
  BY <1>2, <1>3, <1>4, <1>5 DEF Ops

\* Init's unlocked reset, alone or in the middle of a count.
LEMMA ResetKeeps ==
    ASSUME Replaced \in Nat, CountInv, NEW F, Reset(F)
    PROVE  /\ todo' \in [Handlers -> Seq(Ops \cup {"hang"})]
           /\ cnt' \in [Fields -> Int] /\ cnt'["RouteErrCount"] >= -1
<1> USE DEF CountInv, ResetCostsOne
<1>1. "RouteErrCount" \in Fields
  BY DEF Fields
<1>2. CASE /\ cnt' = [f \in Fields |-> IF f \in F THEN 0 ELSE cnt[f]]
           /\ UNCHANGED <<todo, recent>>
  BY <1>1, <1>2
<1>3. ASSUME NEW h \in Handlers, todo[h] # <<>>, Head(todo[h]) # "hang", Done(h),
             NEW Stale \in SUBSET (F \cap Touched(Head(todo[h]))),
             cnt' = [f \in Fields |->
                       IF f \in Touched(Head(todo[h]))
                         THEN Counted(Head(todo[h]), f, cnt[f],
                                      IF f \in F \ Stale THEN 0 ELSE cnt[f])
                         ELSE IF f \in F \ Stale THEN 0 ELSE cnt[f]]
      PROVE  /\ todo' \in [Handlers -> Seq(Ops \cup {"hang"})]
             /\ cnt' \in [Fields -> Int] /\ cnt'["RouteErrCount"] >= -1
  <2> DEFINE base(f) == IF f \in F \ Stale THEN 0 ELSE cnt[f]
  <2>1. todo' \in [Handlers -> Seq(Ops \cup {"hang"})] /\ Head(todo[h]) \in Ops
    BY <1>3, LeftToDo
  <2>2. ASSUME NEW f \in Fields
        PROVE  /\ cnt'[f] \in Int
               /\ f = "RouteErrCount" => cnt'[f] >= -1
    <3>1. cnt[f] \in Int /\ base(f) \in {0, cnt[f]}
      OBVIOUS
    <3>2. cnt'[f] = IF f \in Touched(Head(todo[h]))
                      THEN Counted(Head(todo[h]), f, cnt[f], base(f)) ELSE base(f)
      BY <1>3
    <3>3. f = "RouteErrCount" => cnt[f] >= -1
      OBVIOUS
    <3> HIDE DEF base
    <3>4. CASE f \in Touched(Head(todo[h]))
      <4>1. /\ Counted(Head(todo[h]), f, cnt[f], base(f)) \in Int
            /\ f = "RouteErrCount" /\ cnt[f] >= -1 =>
                 Counted(Head(todo[h]), f, cnt[f], base(f)) >= -1
        BY <2>1, <3>1, <3>4, CountedBounds
      <4>2. QED
        BY <3>2, <3>3, <3>4, <4>1
    <3>5. CASE f \notin Touched(Head(todo[h]))
      BY <3>1, <3>2, <3>3, <3>5
    <3>6. QED
      BY <3>4, <3>5
  <2>3. QED
    BY <1>1, <1>3, <2>1, <2>2
<1>4. QED
  BY <1>2, <1>3 DEF Reset

LEMMA CountInitially == ListenInit => CountInv
<1>1. ASSUME ListenInit PROVE CountInv
  BY <1>1, EmptySeq DEF ListenInit, CountInv, ResetCostsOne, Fields
<1>2. QED
  BY <1>1

\* The sequences handlers are given hold operations.
LEMMA GivenOps ==
    /\ Reports \subseteq Seq(Ops \cup {"hang"})
    /\ \A kind \in Kinds : Served(kind) \subseteq Seq(Ops \cup {"hang"})
    /\ {<<"vanish">>, <<"record2">>, <<"record">>} \subseteq Seq(Ops \cup {"hang"})
<1>1. /\ <<>> \in Seq(Ops \cup {"hang"})
      /\ \A a \in Ops \cup {"hang"} : <<a>> \in Seq(Ops \cup {"hang"})
      /\ \A a, b \in Ops : <<a, b>> \in Seq(Ops \cup {"hang"})
      /\ \A a, b, c \in Ops : <<a, b, c>> \in Seq(Ops \cup {"hang"})
  OBVIOUS
<1>2. Reports \subseteq Seq(Ops \cup {"hang"})
  BY <1>1 DEF Reports, Ops
<1>3. Outcomes \cup {<<"hang">>, <<>>} \subseteq Seq(Ops \cup {"hang"})
  BY <1>1 DEF Outcomes, Ops
<1>4. \A kind \in Kinds : Served(kind) \subseteq Outcomes \cup {<<"hang">>, <<>>}
  BY DEF Kinds, Served
<1>5. {<<"vanish">>, <<"record2">>, <<"record">>} \subseteq Seq(Ops \cup {"hang"})
  BY <1>1 DEF Ops
<1>6. QED
  BY <1>2, <1>3, <1>4, <1>5

LEMMA CountPreserved ==
    ASSUME Replaced \in Nat, CountInv, [ListenNext]_listenVars
    PROVE  CountInv'
<1> USE DEF CountInv, ResetCostsOne, counting, waking, others, Event
<1>1. CASE Started \/ Listen \/ Rebuilt \/ Switch \/ ChangeRoute \/ PortFreed
  BY <1>1 DEF Started, Listen, Rebuilt, Switch, ChangeRoute, PortFreed
<1>2. CASE Restart \/ InitRest
  <2>1. PICK F : Reset(F)
    BY <1>2 DEF Restart, InitRest
  <2>2. backlog' = backlog
    BY <1>2 DEF Restart, InitRest
  <2>3. QED
    BY <2>1, <2>2, ResetKeeps
<1>3. CASE DecideAccept
  <2>1. todo' \in [Handlers -> Seq(Ops \cup {"hang"})]
    BY <1>3, GivenOps DEF DecideAccept
  <2>2. QED
    BY <1>3, <2>1 DEF DecideAccept
<1>4. CASE Accept
  <2>1. Head(backlog) \in Kinds /\ Tail(backlog) \in Seq(Kinds)
    BY <1>4, HeadTailProperties DEF Accept
  <2>2. PICK h \in Handlers, o \in Served(Head(backlog)) : todo' = [todo EXCEPT ![h] = o]
    BY <1>4 DEF Accept
  <2>3. o \in Seq(Ops \cup {"hang"})
    BY <2>1, <2>2, GivenOps
  <2>4. QED
    BY <1>4, <2>1, <2>2, <2>3 DEF Accept
<1>5. ASSUME NEW h \in Handlers, Count(h) PROVE CountInv'
  <2>1. Head(todo[h]) \in Ops /\ todo' \in [Handlers -> Seq(Ops \cup {"hang"})]
    BY <1>5, LeftToDo DEF Count
  <2>2. ASSUME NEW f \in Fields
        PROVE  /\ cnt'[f] \in Int
               /\ f = "RouteErrCount" => cnt'[f] >= -1
    <3>1. cnt'[f] = IF f \in Touched(Head(todo[h]))
                      THEN Counted(Head(todo[h]), f, cnt[f], cnt[f]) ELSE cnt[f]
      BY <1>5 DEF Count
    <3>2. cnt[f] \in Int /\ (f = "RouteErrCount" => cnt[f] >= -1)
      OBVIOUS
    <3>3. CASE f \in Touched(Head(todo[h]))
      <4>1. /\ Counted(Head(todo[h]), f, cnt[f], cnt[f]) \in Int
            /\ f = "RouteErrCount" /\ cnt[f] >= -1 =>
                 Counted(Head(todo[h]), f, cnt[f], cnt[f]) >= -1
        BY <2>1, <3>2, <3>3, CountedBounds
      <4>2. QED
        BY <3>1, <3>2, <3>3, <4>1
    <3>4. QED
      BY <3>1, <3>2, <3>3
  <2>3. cnt' \in [Fields -> Int] /\ backlog' = backlog
    BY <1>5, <2>2 DEF Count
  <2>4. QED
    BY <2>1, <2>2, <2>3 DEF Fields
<1>6. CASE TestDomain \/ CloseDial \/ Connect
  <2>1. PICK kind \in Kinds : backlog' \in {backlog, Append(backlog, kind)}
    BY <1>6 DEF TestDomain, CloseDial, Connect, Kinds
  <2>2. backlog' \in Seq(Kinds)
    <3>1. backlog \in Seq(Kinds)
      OBVIOUS
    <3>2. Append(backlog, kind) \in Seq(Kinds)
      BY <3>1, AppendProperties
    <3>3. QED
      BY <2>1, <3>1, <3>2
  <2>3. QED
    BY <1>6, <2>2 DEF TestDomain, CloseDial, Connect
<1>7. CASE TestEnds \/ TestDone \/ AcceptFails \/ Tick \/ TryClose \/ Pass \/ TestStarts
  BY <1>7 DEF TestEnds, TestDone, AcceptFails, Tick, TryClose, Pass, TestStarts
<1>8. CASE Resolve
  <2>1. todo' \in [Handlers -> Seq(Ops \cup {"hang"})]
    BY <1>8, GivenOps DEF Resolve
  <2>2. QED
    BY <1>8, <2>1 DEF Resolve
<1>9. CASE UNCHANGED listenVars
  BY <1>9 DEF listenVars
<1>10. QED
  BY <1>1, <1>2, <1>3, <1>4, <1>5, <1>6, <1>7, <1>8, <1>9 DEF ListenNext, ListenWork

\* However the unlocked reset of Init and the counts of the goroutines
\* interleave, RouteErrCount never falls below -1: the switch to another
\* route is at most one error late (controll.go Init, ErrRecord, ErrVanish).
THEOREM ResetCostsAtMostOne == ListenSpec => []ResetCostsOne
<1>1. CountInv => ResetCostsOne
  BY DEF CountInv
<1>2. CountInv /\ [ListenNext]_listenVars => CountInv'
  BY CountPreserved, LimitsAssumption
<1>3. QED
  BY <1>1, <1>2, CountInitially, PTL DEF ListenSpec

=============================================================================
