----------------------------- MODULE TcpEncrypt -----------------------------
(***************************************************************************)
(* The tcp-encrypt transport (connections/prosss): a server that queues    *)
(* the connections it accepts, and the two directions of each connection,  *)
(* cut into packets of a two-byte length, a nonce and sealed data.         *)
(*                                                                         *)
(* A byte is its position in its direction.  Each direction has one writer *)
(* and one reader (the smux session above it), but a cipher keeps one      *)
(* buffer for the nonce, and the server seals for all of its connections   *)
(* with one cipher: Encrypt fills the buffer, and Seal reads it twice, for *)
(* the head of the packet and for the sealing, each as a step of its own.  *)
(***************************************************************************)
EXTENDS Integers, Sequences, FiniteSets, SequencesExt

CONSTANTS
    Conns,      \* connections clients make
    Sizes,      \* bytes a Write is given
    Rooms,      \* bytes a Read has room for
    NonceSize,
    Overhead,   \* the nonce and the tag of a packet
    Radix,      \* values of a byte of the length, 256 in the code
    QueueCap,   \* the capacity of acceptChan, 128 in the code
    MaxBytes,   \* bound: bytes written, over all directions
    None        \* no nonce

maxPacketSize == Radix * Radix

\* The largest write of the smux session fits with room to spare.
ASSUME SizesAssumption ==
    /\ Sizes \subseteq Nat \ {0} /\ Rooms \subseteq Nat \ {0}
    /\ Overhead \in Nat /\ NonceSize \in 1 .. Overhead /\ Radix \in Nat \ {0}
    /\ QueueCap \in Nat \ {0} /\ MaxBytes \in Nat
    /\ \A k \in Sizes : k + Overhead < maxPacketSize

Links == Conns \X {"up", "down"}       \* from the client, to the client
cipher(l) == IF l[2] = "down" THEN "server" ELSE l[1]
Ciphers == Conns \cup {"server"}
ASSUME CiphersAssumption == "server" \notin Conns /\ None \notin Links

VARIABLES
    backlog,    \* connections the kernel holds for Accept
    holding,    \* the connection the accept goroutine has not queued yet, or {}
    queue,      \* acceptChan
    handled,    \* connections given to handle
    loop,       \* the loop of AcceptHandle: "on" or "off"
    ZeroToDel,
    broken,     \* connections that broke
    nonce,      \* nonceBytes of each cipher: who filled it, and for which byte
    w,          \* the writer of each direction
    wire,       \* packets sent and not read
    rest,       \* the part of c.buf that is not read yet
    got,        \* bytes given to the reader
    failed,     \* a Read ended in an error of the framing or of the cipher
    overlapped, \* history: two Encrypts of one cipher were at work at a time
    written     \* bytes written so far

accepting == <<backlog, holding, queue, handled, loop, ZeroToDel>>
streams == <<nonce, w, wire, rest, got, failed>>
rare == <<broken, overlapped, written>>
vars == <<accepting, streams, rare>>

Idle == [pc |-> "idle", size |-> 0, sent |-> 0, head |-> None]

Init ==
    /\ backlog = {} /\ holding = {} /\ queue = <<>> /\ handled = {}
    /\ loop = "on" /\ ZeroToDel = FALSE /\ broken = {}
    /\ nonce = [c \in Ciphers |-> None]
    /\ w = [l \in Links |-> Idle] /\ wire = [l \in Links |-> <<>>]
    /\ rest = [l \in Links |-> <<>>] /\ got = [l \in Links |-> <<>>]
    /\ failed = [l \in Links |-> FALSE] /\ overlapped = FALSE /\ written = 0

-----------------------------------------------------------------------------
(* AcceptHandle.                                                            *)

Known == backlog \cup holding \cup ToSet(queue) \cup handled \cup broken

\* NewSSClient
Dial(c) ==
    /\ loop = "on" /\ c \notin Known /\ backlog' = backlog \cup {c}
    /\ UNCHANGED <<holding, queue, handled, loop, ZeroToDel, streams, rare>>

Accept ==
    /\ loop = "on" /\ holding = {}
    /\ \E c \in backlog : holding' = {c} /\ backlog' = backlog \ {c}
    /\ UNCHANGED <<queue, handled, loop, ZeroToDel, streams, rare>>

\* The send on acceptChan blocks while it is full.
Enqueue ==
    /\ holding # {} /\ Len(queue) < QueueCap
    /\ \E c \in holding : queue' = Append(queue, c)
    /\ holding' = {}
    /\ UNCHANGED <<backlog, handled, loop, ZeroToDel, streams, rare>>

Handle ==
    /\ loop = "on" /\ queue # <<>>
    /\ handled' = handled \cup {Head(queue)} /\ queue' = Tail(queue)
    /\ UNCHANGED <<backlog, holding, loop, ZeroToDel, streams, rare>>

TryClose ==
    /\ ~ZeroToDel /\ ZeroToDel' = TRUE
    /\ UNCHANGED <<backlog, holding, queue, handled, loop, streams, rare>>

\* The ticker finds ZeroToDel, or Accept has failed: the listener is closed;
\* what waits in acceptChan is left there.
Return ==
    /\ loop = "on" /\ (ZeroToDel \/ holding = {})
    /\ loop' = "off"
    /\ UNCHANGED <<backlog, holding, queue, handled, ZeroToDel, streams, rare>>

-----------------------------------------------------------------------------
(* Write.                                                                   *)

\* The client writes once it is connected, the server once handle runs.
Open(l) ==
    /\ l[1] \notin broken
    /\ IF l[2] = "up" THEN l[1] \in Known ELSE l[1] \in handled

\* Encrypt draws a nonce for the next k bytes ...
Write(l, k) ==
    /\ Open(l) /\ w[l].pc = "idle" /\ written + k <= MaxBytes
    /\ written' = written + k
    /\ nonce' = [nonce EXCEPT ![cipher(l)] = <<l, w[l].sent + k>>]
    /\ w' = [w EXCEPT ![l].pc = "filled", ![l].size = k]
    /\ overlapped' = (overlapped \/ \E m \in Links : /\ cipher(m) = cipher(l)
                                                    /\ w[m].pc # "idle")
    /\ UNCHANGED <<accepting, wire, rest, got, failed, broken>>

\* ... Seal copies it to the head of the packet ...
Prefix(l) ==
    /\ w[l].pc = "filled"
    /\ w' = [w EXCEPT ![l].pc = "copied", ![l].head = nonce[cipher(l)]]
    /\ UNCHANGED <<accepting, nonce, wire, rest, got, failed, rare>>

Length(n) == <<n \div Radix, n % Radix>>

Packet(l) ==
    [len |-> Length(w[l].size + Overhead), head |-> w[l].head,
     used |-> nonce[cipher(l)],
     data |-> [i \in 1 .. w[l].size |-> w[l].sent + i]]

\* ... and seals with it; the packet is written whole.
Seal(l) ==
    /\ w[l].pc = "copied"
    /\ wire' = IF Open(l) THEN [wire EXCEPT ![l] = Append(@, Packet(l))] ELSE wire
    /\ w' = [w EXCEPT ![l] = [Idle EXCEPT !.sent = w[l].sent + w[l].size]]
    /\ UNCHANGED <<accepting, nonce, rest, got, failed, rare>>

-----------------------------------------------------------------------------
(* Read.                                                                    *)

\* Mutant: the two bytes of the length are swapped.
DecodeSwapped(len) == len[2] * Radix + len[1]

Decode(len) == len[1] * Radix + len[2]

\* Length, then nonce and tag, must be right.
Sound(p) ==
    /\ Decode(p.len) \in NonceSize .. maxPacketSize
    /\ Decode(p.len) = Len(p.data) + Overhead
    /\ p.head = p.used

\* Mutant: what did not fit is kept whole.
KeepWhole(l, data, room) ==
    LET n == IF Len(data) <= room THEN Len(data) ELSE room
    IN  /\ got' = [got EXCEPT ![l] = @ \o SubSeq(data, 1, n)]
        /\ rest' = [rest EXCEPT ![l] = IF n = Len(data) THEN <<>> ELSE data]

\* As much of data as there is room for; c.buf and c.bufSize keep the others.
Copy(l, data, room) ==
    LET n == IF Len(data) <= room THEN Len(data) ELSE room
    IN  /\ got' = [got EXCEPT ![l] = @ \o SubSeq(data, 1, n)]
        /\ rest' = [rest EXCEPT ![l] = SubSeq(data, n + 1, Len(data))]

\* Mutant: buffered data is only given to a reader with room for all of it.
ReadAllOrNone(l, room) ==
    /\ l[1] \notin broken /\ ~failed[l]
    /\ \/ /\ rest[l] # <<>> /\ Len(rest[l]) <= room /\ Copy(l, rest[l], room)
          /\ UNCHANGED <<wire, failed>>
       \/ /\ rest[l] = <<>> /\ wire[l] # <<>>
          /\ wire' = [wire EXCEPT ![l] = Tail(@)]
          /\ Sound(Head(wire[l])) /\ Copy(l, Head(wire[l]).data, room)
          /\ UNCHANGED failed
    /\ UNCHANGED <<accepting, nonce, w, rare>>

Read(l, room) ==
    /\ l[1] \notin broken /\ ~failed[l]
    /\ \/ rest[l] # <<>> /\ Copy(l, rest[l], room) /\ UNCHANGED <<wire, failed>>
       \/ /\ rest[l] = <<>> /\ wire[l] # <<>>
          /\ wire' = [wire EXCEPT ![l] = Tail(@)]
          /\ IF Sound(Head(wire[l]))
               THEN Copy(l, Head(wire[l]).data, room) /\ UNCHANGED failed
               ELSE failed' = [failed EXCEPT ![l] = TRUE] /\ UNCHANGED <<rest, got>>
    /\ UNCHANGED <<accepting, nonce, w, rare>>

\* The same code on both sides.
ServerWrite(c) == \E k \in Sizes : Write(<<c, "down">>, k)
ClientWrite(c) == \E k \in Sizes : Write(<<c, "up">>, k)
ServerRead(c) == c \in handled /\ \E r \in Rooms : Read(<<c, "up">>, r)
ClientRead(c) == \E r \in Rooms : Read(<<c, "down">>, r)

\* The connection breaks; what was not read is lost.
Break(c) ==
    /\ c \in Known \ broken /\ broken' = broken \cup {c}
    /\ wire' = [l \in Links |-> IF l[1] = c THEN <<>> ELSE wire[l]]
    /\ rest' = [l \in Links |-> IF l[1] = c THEN <<>> ELSE rest[l]]
    /\ UNCHANGED <<accepting, nonce, w, got, failed, overlapped, written>>

-----------------------------------------------------------------------------

Work ==
    \/ Accept \/ Enqueue \/ Handle
    \/ \E l \in Links : Prefix(l) \/ Seal(l)
    \/ \E c \in Conns : ServerRead(c) \/ ClientRead(c)

Next ==
    \/ Work
    \/ \E c \in Conns : Dial(c) \/ ServerWrite(c) \/ ClientWrite(c) \/ Break(c)
    \/ TryClose \/ Return

Spec == Init /\ [][Next]_vars

\* Goroutines that can go on do.
Fairness == WF_vars(Work)

FairSpec == Spec /\ Fairness

-----------------------------------------------------------------------------
(* Properties.                                                              *)

TypeOK ==
    /\ holding \subseteq Conns /\ Cardinality(holding) <= 1
    /\ queue \in Seq(Conns) /\ Len(queue) <= QueueCap
    /\ nonce \in [Ciphers -> {None} \cup (Links \X Nat)]
    /\ \A l \in Links : w[l].sent \in 0 .. MaxBytes

\* What a reader was given is a beginning of what was written, in order and
\* without a gap, however the packets met the room of its Reads, and also
\* when a packet cannot be opened (SSConn.Read, SSClientConn.Read).
InOrder ==
    \A l \in Links : /\ got[l] = [i \in 1 .. Len(got[l]) |-> i]
                     /\ Len(got[l]) <= w[l].sent

\* A Read fails only where two connections of the server were sealing at the
\* same time, and never at the server, which opens what clients sealed with
\* ciphers of their own.
FailureIsShared ==
    \A l \in Links : failed[l] => l[2] = "down" /\ overlapped

\* Every byte written arrives, unless the connection breaks or a Read fails,
\* or the loop returned before the server took the connection up.
Arrives ==
    \A l \in Links : w[l].sent > Len(got[l]) ~>
      w[l].sent = Len(got[l]) \/ failed[l] \/ l[1] \in broken
        \/ (loop = "off" /\ l[1] \notin handled)

\* The connections of a server do not disturb each other: none of them ever
\* reads a packet it cannot open (TestConcurrentConnections).
ConnectionsIndependent == \A l \in Links : ~failed[l]

=============================================================================
