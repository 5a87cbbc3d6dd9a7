-------------------------- MODULE TcpEncryptProofs --------------------------
(***************************************************************************)
(* Theorems about TcpEncrypt, for any connections, any sizes of writes and *)
(* reads, any radix of the length and any number of bytes.                 *)
(***************************************************************************)
EXTENDS TcpEncrypt, SequenceTheorems, FiniteSetTheorems, TLAPS

-----------------------------------------------------------------------------
(* Types.                                                                   *)

Nonces == {None} \cup (Links \X Nat)
Writers == [pc : {"idle", "filled", "copied"}, size : Nat, sent : Nat, head : Nonces]
Packets == [len : Nat \X Nat, head : Nonces, used : Nonces, data : Seq(Nat)]

Pending(l) == IF w[l].pc = "idle" THEN 0 ELSE w[l].size

AcceptTypes ==
    /\ holding = {} \/ \E c \in Conns : holding = {c}
    /\ queue \in Seq(Conns) /\ Len(queue) <= QueueCap /\ backlog \subseteq Conns

StreamTypes ==
    /\ nonce \in [Ciphers -> Nonces]
    /\ w \in [Links -> Writers] /\ wire \in [Links -> Seq(Packets)]
    /\ rest \in [Links -> Seq(Nat)] /\ got \in [Links -> Seq(Nat)]
    /\ failed \in [Links -> BOOLEAN] /\ overlapped \in BOOLEAN
    /\ \A l \in Links : w[l].pc # "idle" => w[l].size \in Sizes

\* The bound on the bytes written bounds what each writer has sent and is
\* about to send.
Bounded ==
    /\ written \in 0 .. MaxBytes
    /\ \A l \in Links : w[l].sent + Pending(l) <= written

TypeInv == AcceptTypes /\ StreamTypes /\ Bounded

LEMMA Constant ==
    /\ Sizes \subseteq Nat \ {0} /\ Rooms \subseteq Nat \ {0}
    /\ Overhead \in Nat /\ NonceSize \in 1 .. Overhead /\ Radix \in Nat \ {0}
    /\ QueueCap \in Nat \ {0} /\ MaxBytes \in Nat
    /\ \A k \in Sizes : k + Overhead < maxPacketSize
BY SizesAssumption

\* The cipher of a link: a client has its own, the server one for all.
LEMMA CipherOf ==
    ASSUME NEW l \in Links
    PROVE  /\ cipher(l) \in Ciphers
           /\ l[1] \in Conns /\ l[2] \in {"up", "down"}
           /\ \A m \in Links : cipher(m) = cipher(l) => m = l \/ l[2] = "down"
BY CiphersAssumption DEF Links, cipher, Ciphers

\* Where the elements of a sequence are after one is added or taken away.
LEMMA AppendedAt ==
    ASSUME NEW S, NEW s \in Seq(S), NEW e \in S
    PROVE  \A k \in 1 .. Len(Append(s, e)) :
             \/ Append(s, e)[k] = e
             \/ k \in 1 .. Len(s) /\ Append(s, e)[k] = s[k]
<1>1. Len(s) \in Nat /\ Len(Append(s, e)) = Len(s) + 1
  BY AppendProperties, LenProperties
<1>2. Append(s, e)[Len(s) + 1] = e /\ \A k \in 1 .. Len(s) : Append(s, e)[k] = s[k]
  BY AppendProperties
<1>3. QED
  BY <1>1, <1>2

LEMMA TailAt ==
    ASSUME NEW S, NEW s \in Seq(S), s # <<>>
    PROVE  /\ Tail(s) \in Seq(S) /\ Len(s) \in Nat \ {0} /\ Len(Tail(s)) = Len(s) - 1
           /\ \A k \in 1 .. Len(Tail(s)) :
                k + 1 \in 1 .. Len(s) /\ Tail(s)[k] = s[k + 1]
<1>1. Len(s) \in Nat /\ Len(s) # 0
  BY LenProperties, EmptySeq
<1>2. /\ Tail(s) \in Seq(S) /\ Len(Tail(s)) = Len(s) - 1
      /\ \A k \in 1 .. Len(Tail(s)) : Tail(s)[k] = s[k + 1]
  BY HeadTailProperties
<1>3. QED
  BY <1>1, <1>2

\* Every step leaves the streams alone or is a step of one of them.
LEMMA StreamSteps ==
    ASSUME Next
    PROVE  \/ UNCHANGED <<streams, rare>>
           \/ \E l \in Links, k \in Sizes : Write(l, k)
           \/ \E l \in Links : Prefix(l) \/ Seal(l)
           \/ \E l \in Links, r \in Rooms : Read(l, r)
           \/ \E c \in Conns : Break(c)
<1>1. \A c \in Conns : <<c, "up">> \in Links /\ <<c, "down">> \in Links
  BY DEF Links
<1>2. CASE Accept \/ Enqueue \/ Handle \/ TryClose \/ Return \/ \E c \in Conns : Dial(c)
  BY <1>2 DEF Accept, Enqueue, Handle, TryClose, Return, Dial
<1>3. CASE \E c \in Conns : ServerRead(c) \/ ClientRead(c)
  BY <1>1, <1>3 DEF ServerRead, ClientRead
<1>4. CASE \E c \in Conns : ServerWrite(c) \/ ClientWrite(c)
  BY <1>1, <1>4 DEF ServerWrite, ClientWrite
<1>5. QED
  BY <1>2, <1>3, <1>4 DEF Next, Work

LEMMA TypesInitially == Init => TypeInv
<1> SUFFICES ASSUME Init PROVE TypeInv
  OBVIOUS
<1>1. AcceptTypes
  BY Constant DEF Init, AcceptTypes
<1>2. Idle \in Writers
  BY DEF Idle, Writers, Nonces
<1>3. StreamTypes
  <2>1. nonce \in [Ciphers -> Nonces] /\ failed \in [Links -> BOOLEAN] /\ overlapped \in BOOLEAN
    BY DEF Init, Nonces
  <2>2. w \in [Links -> Writers] /\ \A l \in Links : w[l].pc = "idle"
    BY <1>2 DEF Init, Idle
  <2>3. wire \in [Links -> Seq(Packets)] /\ rest \in [Links -> Seq(Nat)]
    BY DEF Init
  <2>4. got \in [Links -> Seq(Nat)]
    BY DEF Init
  <2>5. QED
    BY <2>1, <2>2, <2>3, <2>4 DEF StreamTypes
<1>4. Bounded
  BY Constant DEF Init, Bounded, Pending, Idle
<1>5. QED
  BY <1>1, <1>3, <1>4 DEF TypeInv

LEMMA AcceptTypesPreserved == AcceptTypes /\ [Next]_vars => AcceptTypes'
<1> SUFFICES ASSUME AcceptTypes, [Next]_vars PROVE AcceptTypes'
  OBVIOUS
<1> USE DEF AcceptTypes
<1>1. CASE Accept
  BY <1>1 DEF Accept
<1>2. CASE Enqueue
  <2>1. PICK c \in Conns : queue' = Append(queue, c)
    BY <1>2 DEF Enqueue
  <2>2. queue' \in Seq(Conns) /\ Len(queue') = Len(queue) + 1
    BY <2>1, AppendProperties
  <2>3. Len(queue') <= QueueCap
    BY <1>2, <2>2, Constant, LenProperties DEF Enqueue
  <2>4. QED
    BY <1>2, <2>2, <2>3 DEF Enqueue
<1>3. CASE Handle
  <2>1. Tail(queue) \in Seq(Conns) /\ Len(Tail(queue)) = Len(queue) - 1
    BY <1>3, HeadTailProperties DEF Handle
  <2>2. QED
    BY <1>3, <2>1, LenProperties, Constant DEF Handle
<1>4. CASE TryClose \/ Return \/ \E c \in Conns : Dial(c)
  BY <1>4 DEF TryClose, Return, Dial
<1>5. CASE \E l \in Links : Prefix(l) \/ Seal(l)
  BY <1>5 DEF Prefix, Seal, accepting
<1>6. CASE \E c \in Conns : ServerRead(c) \/ ClientRead(c)
  BY <1>6 DEF ServerRead, ClientRead, Read, accepting
<1>7. CASE \E c \in Conns : ServerWrite(c) \/ ClientWrite(c) \/ Break(c)
  BY <1>7 DEF ServerWrite, ClientWrite, Write, Break, accepting
<1>8. CASE UNCHANGED vars
  BY <1>8 DEF vars, accepting
<1>9. QED
  BY <1>1, <1>2, <1>3, <1>4, <1>5, <1>6, <1>7, <1>8 DEF Next, Work

\* The packet a writer seals is one of the sizes it is given, well formed.
LEMMA PacketType ==
    ASSUME StreamTypes, NEW l \in Links, w[l].pc = "copied"
    PROVE  /\ Packet(l) \in Packets
           /\ Packet(l).data \in Seq(Nat) /\ Len(Packet(l).data) = w[l].size
           /\ w[l].size \in Sizes /\ w[l].size \in Nat \ {0}
           /\ \A i \in 1 .. w[l].size : Packet(l).data[i] = w[l].sent + i
<1>1. w[l] \in Writers /\ w[l].size \in Sizes /\ nonce[cipher(l)] \in Nonces
  BY CipherOf DEF StreamTypes
<1>2. w[l].sent \in Nat /\ w[l].head \in Nonces /\ w[l].size \in Nat \ {0}
  BY <1>1, Constant DEF Writers
<1>3. Length(w[l].size + Overhead) \in Nat \X Nat
  <2>1. \A n, r \in Nat : r # 0 => n \div r \in Nat /\ n % r \in Nat
    OBVIOUS
  <2>2. w[l].size + Overhead \in Nat /\ Radix \in Nat /\ Radix # 0
    BY <1>2, Constant
  <2>3. QED
    BY <2>1, <2>2 DEF Length
<1>4. DEFINE data == [i \in 1 .. w[l].size |-> w[l].sent + i]
<1>5. data \in Seq(Nat) /\ Len(data) = w[l].size
  BY <1>2
<1>6. Packet(l) = [len |-> Length(w[l].size + Overhead), head |-> w[l].head,
                   used |-> nonce[cipher(l)], data |-> data]
  BY DEF Packet
<1>7. \A i \in 1 .. w[l].size : data[i] = w[l].sent + i
  OBVIOUS
<1> HIDE DEF data
<1>8. Packet(l) \in Packets
  BY <1>1, <1>2, <1>3, <1>5, <1>6 DEF Packets
<1>9. QED
  BY <1>1, <1>2, <1>5, <1>6, <1>7, <1>8

LEMMA ReadTypes ==
    ASSUME StreamTypes, Bounded, NEW l \in Links, NEW r \in Rooms, Read(l, r)
    PROVE  StreamTypes' /\ Bounded'
<1> USE DEF rare
<1>1. /\ UNCHANGED <<nonce, w, overlapped, written>>
      /\ wire' \in [Links -> Seq(Packets)]
      /\ failed' \in [Links -> BOOLEAN]
  <2>1. wire[l] # <<>> => Tail(wire[l]) \in Seq(Packets)
    BY HeadTailProperties DEF StreamTypes
  <2>2. QED
    BY <2>1 DEF StreamTypes, Read
<1>2. rest' \in [Links -> Seq(Nat)] /\ got' \in [Links -> Seq(Nat)]
  <2>1. CASE UNCHANGED <<rest, got>>
    BY <2>1 DEF StreamTypes
  <2>2. ASSUME NEW data \in Seq(Nat), Copy(l, data, r)
        PROVE  rest' \in [Links -> Seq(Nat)] /\ got' \in [Links -> Seq(Nat)]
    <3>1. PICK n \in 0 .. Len(data) :
            /\ got' = [got EXCEPT ![l] = @ \o SubSeq(data, 1, n)]
            /\ rest' = [rest EXCEPT ![l] = SubSeq(data, n + 1, Len(data))]
      <4> DEFINE n == IF Len(data) <= r THEN Len(data) ELSE r
      <4>1. n \in 0 .. Len(data)
        BY Constant, LenProperties
      <4>2. /\ got' = [got EXCEPT ![l] = @ \o SubSeq(data, 1, n)]
            /\ rest' = [rest EXCEPT ![l] = SubSeq(data, n + 1, Len(data))]
        BY <2>2 DEF Copy
      <4> HIDE DEF n
      <4>3. QED
        BY <4>1, <4>2
    <3>2. SubSeq(data, 1, n) \in Seq(Nat) /\ SubSeq(data, n + 1, Len(data)) \in Seq(Nat)
      BY <3>1, SubSeqProperties, LenProperties
    <3>3. got[l] \o SubSeq(data, 1, n) \in Seq(Nat)
      BY <3>2, ConcatProperties DEF StreamTypes
    <3>4. QED
      BY <3>1, <3>2, <3>3 DEF StreamTypes
  <2>3. rest[l] \in Seq(Nat)
    BY DEF StreamTypes
  <2>4. wire[l] # <<>> => Head(wire[l]).data \in Seq(Nat)
    <3>1. wire[l] # <<>> => Head(wire[l]) \in Packets
      BY HeadTailProperties DEF StreamTypes
    <3>2. QED
      BY <3>1 DEF Packets
  <2>5. QED
    BY <2>1, <2>2, <2>3, <2>4 DEF Read
<1>3. QED
  BY <1>1, <1>2 DEF StreamTypes, Bounded, Pending

LEMMA TypesPreserved == TypeInv /\ [Next]_vars => TypeInv'
<1> SUFFICES ASSUME TypeInv, [Next]_vars PROVE TypeInv'
  OBVIOUS
<1> USE DEF streams, rare
<1>1. AcceptTypes'
  BY AcceptTypesPreserved DEF TypeInv
<1> SUFFICES StreamTypes' /\ Bounded'
  BY <1>1 DEF TypeInv
<1>2. /\ StreamTypes /\ Bounded
      /\ \A l \in Links : /\ w[l] \in Writers
                          /\ w[l].pc \in {"idle", "filled", "copied"}
                          /\ w[l].size \in Nat /\ w[l].sent \in Nat
                          /\ w[l].head \in Nonces
  <2>1. StreamTypes /\ Bounded
    BY DEF TypeInv
  <2>2. w \in [Links -> Writers]
    BY <2>1 DEF StreamTypes
  <2>3. QED
    BY <2>1, <2>2 DEF Writers
<1>3. ASSUME NEW l \in Links, NEW k \in Sizes, Write(l, k)
      PROVE  StreamTypes' /\ Bounded'
  <2>1. k \in Nat /\ w[l].sent + k \in Nat
    BY <1>2, Constant
  <2>2. nonce' \in [Ciphers -> Nonces]
    BY <1>2, <1>3, <2>1 DEF StreamTypes, Write, Nonces
  <2>3. /\ w' \in [Links -> Writers]
        /\ w'[l].pc = "filled" /\ w'[l].size = k /\ w'[l].sent = w[l].sent
        /\ \A m \in Links : m # l => w'[m] = w[m]
    <3>1. w' = [w EXCEPT ![l] = [w[l] EXCEPT !.pc = "filled", !.size = k]]
      BY <1>2, <1>3 DEF Write, StreamTypes
    <3>2. [w[l] EXCEPT !.pc = "filled", !.size = k] \in Writers
      BY <1>2, <2>1 DEF Writers
    <3>3. /\ [w[l] EXCEPT !.pc = "filled", !.size = k].pc = "filled"
          /\ [w[l] EXCEPT !.pc = "filled", !.size = k].size = k
          /\ [w[l] EXCEPT !.pc = "filled", !.size = k].sent = w[l].sent
      BY <1>2 DEF Writers
    <3>4. QED
      BY <1>2, <3>1, <3>2, <3>3 DEF StreamTypes
  <2>4. StreamTypes'
    BY <1>2, <1>3, <2>2, <2>3 DEF StreamTypes, Write
  <2>5. Bounded'
    BY <1>2, <1>3, <2>1, <2>3 DEF Bounded, Pending, Write
  <2>6. QED
    BY <2>4, <2>5
<1>4. ASSUME NEW l \in Links, Prefix(l)
      PROVE  StreamTypes' /\ Bounded'
  <2>1. nonce[cipher(l)] \in Nonces
    BY <1>2, CipherOf DEF StreamTypes
  <2>2. /\ w' \in [Links -> Writers]
        /\ w'[l].pc = "copied" /\ w'[l].size = w[l].size /\ w'[l].sent = w[l].sent
        /\ \A m \in Links : m # l => w'[m] = w[m]
    BY <1>2, <1>4, <2>1 DEF StreamTypes, Prefix, Writers
  <2>3. StreamTypes'
    BY <1>2, <1>4, <2>2 DEF StreamTypes, Prefix
  <2>4. Bounded'
    BY <1>2, <1>4, <2>2 DEF Bounded, Pending, Prefix
  <2>5. QED
    BY <2>3, <2>4
<1>5. ASSUME NEW l \in Links, Seal(l)
      PROVE  StreamTypes' /\ Bounded'
  <2>1. w[l].pc = "copied" /\ w[l].size \in Nat
    BY <1>2, <1>5 DEF Seal
  <2>2. /\ w' \in [Links -> Writers]
        /\ w'[l].pc = "idle" /\ w'[l].sent = w[l].sent + w[l].size
        /\ \A m \in Links : m # l => w'[m] = w[m]
    BY <1>2, <1>5, <2>1, SMTT(30) DEF StreamTypes, Seal, Writers, Idle, Nonces
  <2>3. wire' \in [Links -> Seq(Packets)]
    <3>1. Packet(l) \in Packets
      BY <1>2, <2>1, PacketType
    <3>2. Append(wire[l], Packet(l)) \in Seq(Packets)
      BY <1>2, <3>1, AppendProperties DEF StreamTypes
    <3>3. QED
      BY <1>2, <1>5, <3>2 DEF StreamTypes, Seal
  <2>4. StreamTypes'
    BY <1>2, <1>5, <2>2, <2>3 DEF StreamTypes, Seal
  <2>5. Bounded'
    BY <1>2, <1>5, <2>1, <2>2 DEF Bounded, Pending, Seal
  <2>6. QED
    BY <2>4, <2>5
<1>6. ASSUME NEW l \in Links, NEW r \in Rooms, Read(l, r)
      PROVE  StreamTypes' /\ Bounded'
  BY <1>2, <1>6, ReadTypes
<1>7. ASSUME NEW c \in Conns, Break(c)
      PROVE  StreamTypes' /\ Bounded'
  <2>1. wire' \in [Links -> Seq(Packets)] /\ rest' \in [Links -> Seq(Nat)]
    <3>1. <<>> \in Seq(Packets) /\ <<>> \in Seq(Nat)
      OBVIOUS
    <3>2. QED
      BY <1>2, <1>7, <3>1 DEF StreamTypes, Break
  <2>2. QED
    BY <1>2, <1>7, <2>1 DEF StreamTypes, Bounded, Pending, Break
<1>8. CASE UNCHANGED <<streams, rare>>
  BY <1>2, <1>8 DEF StreamTypes, Bounded, Pending
<1>9. CASE UNCHANGED vars
  BY <1>8, <1>9 DEF vars
<1>10. QED
  BY <1>3, <1>4, <1>5, <1>6, <1>7, <1>8, <1>9, StreamSteps

\* The accept queue never holds more than acceptChan has room for, the accept
\* goroutine at most one connection besides, and no direction sends more than
\* was written (SSServer.AcceptHandle, Write).
THEOREM TypeCorrect == Spec => []TypeOK
<1>1. TypeInv => TypeOK
  <2> SUFFICES ASSUME TypeInv PROVE TypeOK
    OBVIOUS
  <2>1. \A l \in Links : w[l].sent \in 0 .. MaxBytes
    <3>1. \A l \in Links : w[l].sent \in Nat /\ w[l].size \in Nat
      <4>1. w \in [Links -> Writers]
        BY DEF TypeInv, StreamTypes
      <4>2. QED
        BY <4>1 DEF Writers
    <3>2. QED
      BY <3>1, Constant DEF TypeInv, Bounded, Pending
  <2>2. holding \subseteq Conns /\ Cardinality(holding) <= 1
    <3>1. CASE holding = {}
      <4>1. Cardinality(holding) = 0
        BY <3>1, FS_EmptySet
      <4>2. QED
        BY <3>1, <4>1
    <3>2. CASE holding # {}
      <4>1. PICK c \in Conns : holding = {c}
        BY <3>2 DEF TypeInv, AcceptTypes
      <4>2. Cardinality(holding) = 1
        BY <4>1, FS_Singleton
      <4>3. QED
        BY <4>1, <4>2
    <3>3. QED
      BY <3>1, <3>2
  <2>3. QED
    BY <2>1, <2>2 DEF TypeInv, AcceptTypes, StreamTypes, TypeOK, Nonces
<1>2. QED
  BY <1>1, TypesInitially, TypesPreserved, PTL DEF Spec

-----------------------------------------------------------------------------
(* Only packets sealed at the same time as others are broken.               *)

\* The link is one whose nonce another writer of the server may have changed.
Shared(l) == l[2] = "down" /\ overlapped

\* A packet carries the length of its data, and the nonce it was sealed with.
Sealed(l, p) ==
    /\ Len(p.data) \in Sizes /\ p.len = Length(Len(p.data) + Overhead)
    /\ p.head = p.used \/ Shared(l)

SealInv ==
    \A l \in Links :
      /\ w[l].pc = "copied" => w[l].head = nonce[cipher(l)] \/ Shared(l)
      /\ \A k \in 1 .. Len(wire[l]) : Sealed(l, wire[l][k])
      /\ failed[l] => Shared(l)

\* The two bytes of the length give back every length that fits into them.
LEMMA DecodeLength == ASSUME NEW n \in Nat PROVE Decode(Length(n)) = n
<1>1. Radix \in Nat /\ Radix > 0
  BY Constant
<1>2. \A r \in Nat : r > 0 => n = (n \div r) * r + (n % r)
  OBVIOUS
<1>3. QED
  BY <1>1, <1>2 DEF Decode, Length

\* A packet sealed with one nonce can be opened.
LEMMA SealedIsSound ==
    ASSUME NEW l \in Links, NEW p \in Packets, Sealed(l, p), ~Shared(l)
    PROVE  Sound(p)
<1>1. Len(p.data) + Overhead \in Nat
  BY Constant DEF Sealed
<1>2. Decode(p.len) = Len(p.data) + Overhead
  BY <1>1, DecodeLength DEF Sealed
<1>3. maxPacketSize \in Nat
  BY Constant DEF maxPacketSize
<1>4. Len(p.data) + Overhead \in NonceSize .. maxPacketSize
  BY <1>1, <1>3, Constant DEF Sealed
<1>5. QED
  BY <1>2, <1>4 DEF Sealed, Sound

LEMMA SealsInitially == Init => SealInv
BY DEF Init, SealInv, Idle

LEMMA SealsPreserved == TypeInv /\ SealInv /\ [Next]_vars => SealInv'
<1> SUFFICES ASSUME TypeInv, SealInv, [Next]_vars PROVE SealInv'
  OBVIOUS
<1> USE DEF streams, rare
<1>1. /\ StreamTypes
      /\ \A l \in Links : w[l] \in Writers /\ wire[l] \in Seq(Packets)
  BY DEF TypeInv, StreamTypes
<1>2. ASSUME NEW l \in Links, NEW k \in Sizes, Write(l, k)
      PROVE  SealInv'
  <2>1. /\ w'[l].pc = "filled"
        /\ \A m \in Links : m # l => w'[m] = w[m]
    BY <1>1, <1>2 DEF Write, StreamTypes, Writers
  <2>2. \A m \in Links : Shared(m) => Shared(m)'
    BY <1>2 DEF Write, Shared
  <2>3. ASSUME NEW m \in Links, w'[m].pc = "copied"
        PROVE  w'[m].head = nonce'[cipher(m)] \/ Shared(m)'
    <3>1. m # l /\ w'[m] = w[m]
      BY <2>1, <2>3
    <3>2. w[m].pc = "copied" /\ (w[m].head = nonce[cipher(m)] \/ Shared(m))
      BY <2>3, <3>1 DEF SealInv
    <3>3. CASE cipher(m) = cipher(l)
      <4>1. m[2] = "down"
        BY <3>1, <3>3, CipherOf
      <4>2. overlapped'
        BY <1>2, <3>2, <3>3 DEF Write
      <4>3. QED
        BY <4>1, <4>2 DEF Shared
    <3>4. CASE cipher(m) # cipher(l)
      <4>1. nonce'[cipher(m)] = nonce[cipher(m)]
        BY <1>1, <1>2, <3>4, CipherOf DEF Write, StreamTypes
      <4>2. QED
        BY <2>2, <3>1, <3>2, <4>1
    <3>5. QED
      BY <3>3, <3>4
  <2>4. wire' = wire /\ failed' = failed
    BY <1>2 DEF Write
  <2>5. QED
    BY <2>2, <2>3, <2>4 DEF SealInv, Sealed
<1>3. ASSUME NEW l \in Links, Prefix(l)
      PROVE  SealInv'
  <2>1. /\ w'[l].head = nonce[cipher(l)]
        /\ \A m \in Links : m # l => w'[m] = w[m]
    BY <1>1, <1>3 DEF Prefix, StreamTypes, Writers
  <2>2. QED
    BY <1>3, <2>1 DEF Prefix, SealInv, Sealed, Shared
<1>4. ASSUME NEW l \in Links, Seal(l)
      PROVE  SealInv'
  <2>1. /\ w'[l].pc = "idle"
        /\ \A m \in Links : m # l => w'[m] = w[m]
    BY <1>1, <1>4 DEF Seal, StreamTypes, Idle
  <2>2. Sealed(l, Packet(l))
    <3>1. w[l].pc = "copied"
      BY <1>4 DEF Seal
    <3>2. Len(Packet(l).data) = w[l].size /\ w[l].size \in Sizes
      BY <1>1, <3>1, PacketType
    <3>3. /\ Packet(l).len = Length(w[l].size + Overhead)
          /\ Packet(l).head = w[l].head /\ Packet(l).used = nonce[cipher(l)]
      BY DEF Packet
    <3>4. QED
      BY <3>1, <3>2, <3>3 DEF SealInv, Sealed
  <2>3. \A m \in Links : \A k \in 1 .. Len(wire'[m]) : Sealed(m, wire'[m][k])
    <3>1. CASE wire' = wire
      BY <3>1 DEF SealInv
    <3>2. CASE wire' = [wire EXCEPT ![l] = Append(@, Packet(l))]
      <4>1. \A m \in Links : m # l => wire'[m] = wire[m]
        BY <1>1, <3>2 DEF StreamTypes
      <4>2. wire'[l] = Append(wire[l], Packet(l))
        BY <1>1, <3>2 DEF StreamTypes
      <4>3. \A k \in 1 .. Len(wire'[l]) : 
               \/ wire'[l][k] = Packet(l)
               \/ k \in 1 .. Len(wire[l]) /\ wire'[l][k] = wire[l][k]
        <5>1. Packet(l) \in Packets
          BY <1>1, <1>4, PacketType DEF Seal
        <5>2. QED
          BY <1>1, <4>2, <5>1, AppendedAt
      <4>4. QED
        BY <2>2, <4>1, <4>3 DEF SealInv
    <3>3. QED
      BY <1>4, <3>1, <3>2 DEF Seal
  <2>4. UNCHANGED <<nonce, failed, overlapped>>
    BY <1>4 DEF Seal
  <2>5. QED
    BY <2>1, <2>3, <2>4 DEF SealInv, Sealed, Shared
<1>5. ASSUME NEW l \in Links, NEW r \in Rooms, Read(l, r)
      PROVE  SealInv'
  <2>1. UNCHANGED <<nonce, w, overlapped>>
    BY <1>5 DEF Read
  <2>2. \A m \in Links : \A k \in 1 .. Len(wire'[m]) : Sealed(m, wire'[m][k])
    <3>1. CASE wire' = wire
      BY <3>1 DEF SealInv
    <3>2. CASE wire[l] # <<>> /\ wire' = [wire EXCEPT ![l] = Tail(@)]
      <4>1. \A m \in Links : m # l => wire'[m] = wire[m]
        BY <1>1, <3>2 DEF StreamTypes
      <4>2. wire'[l] = Tail(wire[l])
        BY <1>1, <3>2 DEF StreamTypes
      <4>3. \A k \in 1 .. Len(wire'[l]) :
               k + 1 \in 1 .. Len(wire[l]) /\ wire'[l][k] = wire[l][k + 1]
        BY <1>1, <3>2, <4>2, TailAt
      <4>4. QED
        BY <4>1, <4>3 DEF SealInv
    <3>3. QED
      BY <1>5, <3>1, <3>2 DEF Read
  <2>3. \A m \in Links : failed'[m] => Shared(m)
    <3>1. CASE failed' = failed
      BY <3>1 DEF SealInv
    <3>2. CASE /\ wire[l] # <<>> /\ ~Sound(Head(wire[l]))
               /\ failed' = [failed EXCEPT ![l] = TRUE]
      <4>1. /\ Head(wire[l]) \in Packets /\ Head(wire[l]) = wire[l][1]
            /\ 1 \in 1 .. Len(wire[l])
        BY <1>1, <3>2, HeadTailProperties, LenProperties, EmptySeq
      <4>2. Sealed(l, Head(wire[l]))
        BY <4>1 DEF SealInv
      <4>3. Shared(l)
        BY <3>2, <4>1, <4>2, SealedIsSound
      <4>4. QED
        BY <1>1, <3>2, <4>3 DEF SealInv, StreamTypes
    <3>3. QED
      BY <1>5, <3>1, <3>2 DEF Read
  <2>4. QED
    BY <2>1, <2>2, <2>3 DEF SealInv, Sealed, Shared
<1>6. ASSUME NEW c \in Conns, Break(c)
      PROVE  SealInv'
  <2>1. \A m \in Links : wire'[m] = <<>> \/ wire'[m] = wire[m]
    BY <1>6 DEF Break
  <2>2. \A m \in Links : \A k \in 1 .. Len(wire'[m]) : Sealed(m, wire'[m][k])
    BY <2>1 DEF SealInv
  <2>3. UNCHANGED <<nonce, w, failed, overlapped>>
    BY <1>6 DEF Break
  <2>4. QED
    BY <2>2, <2>3 DEF SealInv, Sealed, Shared
<1>7. CASE UNCHANGED <<streams, rare>>
  BY <1>7 DEF SealInv, Sealed, Shared
<1>8. CASE UNCHANGED vars
  BY <1>7, <1>8 DEF vars
<1>9. QED
  BY <1>2, <1>3, <1>4, <1>5, <1>6, <1>7, <1>8, StreamSteps

\* A Read fails only where two connections of the server sealed at the same
\* time with its one nonce buffer, and never at the server, which opens what
\* clients sealed with ciphers of their own; the length of a packet is never
\* misread (Crypto.Encrypt, SSConn.Read, SSClientConn.Read).
THEOREM OnlySharingFails == Spec => []FailureIsShared
<1>1. SealInv => FailureIsShared
  BY DEF SealInv, FailureIsShared, Shared
<1>2. QED
  BY <1>1, TypesInitially, TypesPreserved, SealsInitially, SealsPreserved, PTL DEF Spec

-----------------------------------------------------------------------------
(* What is read is what was written, in order.                              *)

\* The bytes of s are those that follow the first a.
From(s, a) == \A i \in 1 .. Len(s) : s[i] = a + i

\* Where the k-th packet of a link ends; 0 is what has been read of it, with
\* what is kept for the next Read.
End(l, k) ==
    IF k = 0 THEN Len(got[l]) + Len(rest[l])
    ELSE wire[l][k].data[Len(wire[l][k].data)]

\* What was read, what is kept and the packets follow one on another, and the
\* last of them ends where the writer is.
Flowing(l) ==
    /\ From(rest[l], Len(got[l]))
    /\ \A k \in 1 .. Len(wire[l]) : From(wire[l][k].data, End(l, k - 1))
    /\ \A k \in 0 .. Len(wire[l]) : End(l, k) \in 0 .. w[l].sent
    /\ End(l, Len(wire[l])) = w[l].sent

\* A link whose reader failed or whose connection broke gives nothing more to
\* its reader; on the others the packets flow.  Writers have an open link.
FlowInv ==
    \A l \in Links :
      /\ From(got[l], 0) /\ Len(got[l]) <= w[l].sent
      /\ failed[l] \/ l[1] \in broken \/ Flowing(l)
      /\ w[l].pc # "idle" => Open(l) \/ l[1] \in broken

LEMMA FromConcat ==
    ASSUME NEW s \in Seq(Nat), NEW t \in Seq(Nat), NEW a \in Nat,
           From(s, a), From(t, a + Len(s))
    PROVE  From(s \o t, a) /\ Len(s \o t) = Len(s) + Len(t)
<1>1. /\ Len(s) \in Nat /\ Len(t) \in Nat /\ Len(s \o t) = Len(s) + Len(t)
      /\ \A i \in 1 .. Len(s) + Len(t) : (s \o t)[i] =
            IF i <= Len(s) THEN s[i] ELSE t[i - Len(s)]
  BY ConcatProperties, LenProperties
<1>2. ASSUME NEW i \in 1 .. Len(s) + Len(t) PROVE (s \o t)[i] = a + i
  <2>1. CASE i <= Len(s)
    BY <1>1, <2>1 DEF From
  <2>2. CASE i > Len(s)
    <3>1. i - Len(s) \in 1 .. Len(t)
      BY <1>1, <2>2
    <3>2. t[i - Len(s)] = a + Len(s) + (i - Len(s))
      BY <3>1 DEF From
    <3>3. QED
      BY <1>1, <2>2, <3>1, <3>2
  <2>3. QED
    BY <1>1, <2>1, <2>2
<1>3. QED
  BY <1>1, <1>2 DEF From

LEMMA FromCut ==
    ASSUME NEW s \in Seq(Nat), NEW a \in Nat, From(s, a), NEW n \in 0 .. Len(s)
    PROVE  /\ SubSeq(s, 1, n) \in Seq(Nat) /\ SubSeq(s, n + 1, Len(s)) \in Seq(Nat)
           /\ Len(SubSeq(s, 1, n)) = n /\ Len(SubSeq(s, n + 1, Len(s))) = Len(s) - n
           /\ From(SubSeq(s, 1, n), a) /\ From(SubSeq(s, n + 1, Len(s)), a + n)
<1>1. Len(s) \in Nat /\ n \in Nat /\ n <= Len(s) /\ \A i \in 1 .. Len(s) : s[i] \in Nat
  BY LenProperties
<1>2. /\ SubSeq(s, 1, n) \in Seq(Nat)
      /\ Len(SubSeq(s, 1, n)) = (IF 1 <= n THEN n - 1 + 1 ELSE 0)
      /\ \A i \in 1 .. n - 1 + 1 : SubSeq(s, 1, n)[i] = s[1 + i - 1]
  <2>1. \A i \in 1 .. n : s[i] \in Nat
    BY <1>1
  <2>2. QED
    BY <1>1, <2>1, SubSeqProperties
<1>3. /\ SubSeq(s, n + 1, Len(s)) \in Seq(Nat)
      /\ Len(SubSeq(s, n + 1, Len(s))) = (IF n + 1 <= Len(s) THEN Len(s) - (n + 1) + 1 ELSE 0)
      /\ \A i \in 1 .. Len(s) - (n + 1) + 1 :
            SubSeq(s, n + 1, Len(s))[i] = s[n + 1 + i - 1]
  <2>1. \A i \in n + 1 .. Len(s) : s[i] \in Nat
    BY <1>1
  <2>2. n + 1 \in Int /\ Len(s) \in Int
    BY <1>1
  <2>3. QED
    BY <2>1, <2>2, SubSeqProperties, SMTT(30)
<1>4. Len(SubSeq(s, 1, n)) = n /\ Len(SubSeq(s, n + 1, Len(s))) = Len(s) - n
  BY <1>1, <1>2, <1>3
<1>5. From(SubSeq(s, 1, n), a)
  BY <1>1, <1>2, <1>4 DEF From
<1>6. From(SubSeq(s, n + 1, Len(s)), a + n)
  <2> SUFFICES ASSUME NEW i \in 1 .. Len(s) - n
               PROVE  SubSeq(s, n + 1, Len(s))[i] = a + n + i
    BY <1>4 DEF From
  <2>1. n + i \in 1 .. Len(s) /\ i \in 1 .. Len(s) - (n + 1) + 1 /\ n + 1 + i - 1 = n + i
    BY <1>1
  <2>2. s[n + i] = a + (n + i)
    BY <2>1 DEF From
  <2>3. QED
    BY <1>1, <1>3, <2>1, <2>2
<1>7. QED
  BY <1>2, <1>3, <1>4, <1>5, <1>6

\* No step of AcceptHandle or of a stream loses a connection.
LEMMA NoneLost ==
    ASSUME AcceptTypes, [Next]_vars
    PROVE  Known \subseteq Known' /\ handled \subseteq handled' /\ broken \subseteq broken'
<1> USE DEF AcceptTypes, streams, rare
<1>1. CASE Accept
  BY <1>1 DEF Accept, Known
<1>2. CASE Enqueue
  <2>1. PICK c \in Conns : queue' = Append(queue, c) /\ holding = {c}
    BY <1>2 DEF Enqueue
  <2>2. ToSet(queue) \cup {c} \subseteq ToSet(queue')
    <3>1. Len(queue) \in Nat /\ Len(queue') = Len(queue) + 1 /\ queue' \in Seq(Conns)
      BY <2>1, AppendProperties, LenProperties
    <3>2. DOMAIN queue = 1 .. Len(queue) /\ DOMAIN queue' = 1 .. Len(queue) + 1
      BY <3>1, LenProperties
    <3>3. queue'[Len(queue) + 1] = c /\ \A i \in 1 .. Len(queue) : queue'[i] = queue[i]
      BY <2>1, AppendProperties
    <3>4. Len(queue) + 1 \in DOMAIN queue' /\ DOMAIN queue \subseteq DOMAIN queue'
      BY <3>1, <3>2
    <3>5. QED
      BY <3>2, <3>3, <3>4 DEF ToSet
  <2>3. QED
    BY <1>2, <2>1, <2>2 DEF Enqueue, Known
<1>3. CASE Handle
  <2>1. ToSet(queue) \subseteq ToSet(queue') \cup {Head(queue)}
    <3>1. queue' = Tail(queue) /\ queue # <<>>
      BY <1>3 DEF Handle
    <3>2. /\ Len(queue) \in Nat /\ DOMAIN queue = 1 .. Len(queue)
          /\ DOMAIN queue' = 1 .. Len(queue) - 1
          /\ \A i \in 1 .. Len(queue) - 1 : queue'[i] = queue[i + 1]
          /\ Head(queue) = queue[1]
      BY <3>1, TailAt, LenProperties
    <3>3. ASSUME NEW i \in DOMAIN queue
          PROVE  queue[i] \in ToSet(queue') \cup {Head(queue)}
      <4>1. CASE i = 1
        BY <3>2, <4>1
      <4>2. CASE i # 1
        <5>1. i - 1 \in DOMAIN queue' /\ queue'[i - 1] = queue[i]
          BY <3>2, <4>2
        <5>2. QED
          BY <5>1 DEF ToSet
      <4>3. QED
        BY <4>1, <4>2
    <3>4. QED
      BY <3>3 DEF ToSet
  <2>2. QED
    BY <1>3, <2>1 DEF Handle, Known
<1>4. CASE TryClose \/ Return \/ \E c \in Conns : Dial(c)
  BY <1>4 DEF TryClose, Return, Dial, Known
<1>5. CASE \E l \in Links : Prefix(l) \/ Seal(l)
  BY <1>5 DEF Prefix, Seal, accepting, Known
<1>6. CASE \E c \in Conns : ServerRead(c) \/ ClientRead(c)
  BY <1>6 DEF ServerRead, ClientRead, Read, accepting, Known
<1>7. CASE \E c \in Conns : ServerWrite(c) \/ ClientWrite(c) \/ Break(c)
  BY <1>7 DEF ServerWrite, ClientWrite, Write, Break, accepting, Known
<1>8. CASE UNCHANGED vars
  BY <1>8 DEF vars, accepting, Known
<1>9. QED
  BY <1>1, <1>2, <1>3, <1>4, <1>5, <1>6, <1>7, <1>8 DEF Next, Work

LEMMA OpenStays ==
    ASSUME AcceptTypes, [Next]_vars, NEW l \in Links, Open(l) \/ l[1] \in broken
    PROVE  Open(l)' \/ l[1] \in broken'
BY NoneLost DEF Open

\* Copy gives the reader the beginning of data, and keeps the end of it.
LEMMA CopyFlows ==
    ASSUME StreamTypes, NEW l \in Links, NEW r \in Rooms, NEW data \in Seq(Nat),
           From(got[l], 0), From(data, Len(got[l])), Copy(l, data, r)
    PROVE  /\ From(got'[l], 0) /\ From(rest'[l], Len(got'[l]))
           /\ Len(got'[l]) + Len(rest'[l]) = Len(got[l]) + Len(data)
           /\ Len(got'[l]) <= Len(got[l]) + Len(data)
           /\ \A m \in Links : m # l => got'[m] = got[m] /\ rest'[m] = rest[m]
<1> DEFINE n == IF Len(data) <= r THEN Len(data) ELSE r
<1>1. n \in 0 .. Len(data) /\ n \in Nat /\ Len(data) \in Nat
  BY Constant, LenProperties
<1>2. /\ got' = [got EXCEPT ![l] = @ \o SubSeq(data, 1, n)]
      /\ rest' = [rest EXCEPT ![l] = SubSeq(data, n + 1, Len(data))]
  BY DEF Copy
<1> HIDE DEF n
<1>3. /\ got'[l] = got[l] \o SubSeq(data, 1, n)
      /\ rest'[l] = SubSeq(data, n + 1, Len(data))
      /\ \A m \in Links : m # l => got'[m] = got[m] /\ rest'[m] = rest[m]
      /\ got[l] \in Seq(Nat)
  BY <1>2 DEF StreamTypes
<1>4. Len(got[l]) \in Nat
  BY <1>3, LenProperties
<1>5. /\ SubSeq(data, 1, n) \in Seq(Nat)
      /\ Len(SubSeq(data, 1, n)) = n /\ Len(SubSeq(data, n + 1, Len(data))) = Len(data) - n
      /\ From(SubSeq(data, 1, n), Len(got[l]))
      /\ From(SubSeq(data, n + 1, Len(data)), Len(got[l]) + n)
  BY <1>1, <1>4, FromCut
<1>6. From(got'[l], 0) /\ Len(got'[l]) = Len(got[l]) + n
  <2>1. From(SubSeq(data, 1, n), 0 + Len(got[l]))
    BY <1>4, <1>5
  <2>2. QED
    BY <1>3, <1>5, <2>1, FromConcat
<1>7. From(rest'[l], Len(got'[l])) /\ Len(rest'[l]) = Len(data) - n
  BY <1>3, <1>5, <1>6
<1>8. /\ Len(got'[l]) + Len(rest'[l]) = Len(got[l]) + Len(data)
      /\ Len(got'[l]) <= Len(got[l]) + Len(data)
  <2>1. \A a, b, c \in Nat : b <= c => a + b + (c - b) = a + c /\ a + b <= a + c
    OBVIOUS
  <2>2. n <= Len(data)
    BY <1>1
  <2>3. QED
    BY <1>1, <1>4, <1>6, <1>7, <2>1, <2>2
<1>9. QED
  BY <1>3, <1>6, <1>7, <1>8

\* The part of FlowInv that is about what a link carries.
LinkFlows(l) ==
    /\ From(got[l], 0) /\ Len(got[l]) <= w[l].sent
    /\ failed[l] \/ l[1] \in broken \/ Flowing(l)

LEMMA FlowsInitially == Init => FlowInv
<1> SUFFICES ASSUME Init, NEW l \in Links PROVE LinkFlows(l) /\ w[l].pc = "idle"
  BY DEF FlowInv, LinkFlows
<1>1. /\ got[l] = <<>> /\ rest[l] = <<>> /\ wire[l] = <<>>
      /\ w[l].pc = "idle" /\ w[l].sent = 0
  BY DEF Init, Idle
<1>2. QED
  BY <1>1 DEF LinkFlows, From, Flowing, End

LEMMA FlowStays ==
    ASSUME NEW l \in Links, LinkFlows(l), broken \subseteq broken', w'[l].sent = w[l].sent,
           UNCHANGED <<got[l], rest[l], wire[l], failed[l]>>
    PROVE  LinkFlows(l)'
<1>1. /\ got'[l] = got[l] /\ rest'[l] = rest[l] /\ wire'[l] = wire[l]
      /\ failed'[l] = failed[l]
  OBVIOUS
<1>2. \A k : End(l, k)' = End(l, k)
  BY <1>1 DEF End
<1>3. Flowing(l) => Flowing(l)'
  BY <1>1, <1>2 DEF Flowing, From
<1>4. QED
  BY <1>1, <1>3 DEF LinkFlows, From

\* A packet sealed on an open link goes on where the last one ended.
LEMMA SealFlows ==
    ASSUME TypeInv, NEW l \in Links, LinkFlows(l), Seal(l),
           Open(l) \/ l[1] \in broken
    PROVE  LinkFlows(l)'
<1>1. StreamTypes /\ w[l] \in Writers /\ wire[l] \in Seq(Packets)
  BY DEF TypeInv, StreamTypes
<1>2. /\ w[l].pc = "copied" /\ w[l].sent \in Nat /\ w[l].size \in Nat \ {0}
      /\ Packet(l) \in Packets /\ Packet(l).data \in Seq(Nat)
      /\ Len(Packet(l).data) = w[l].size
      /\ \A i \in 1 .. w[l].size : Packet(l).data[i] = w[l].sent + i
  <2>1. w[l].pc = "copied"
    BY DEF Seal
  <2>2. QED
    BY <1>1, <2>1, PacketType DEF Writers
<1>3. w'[l].sent = w[l].sent + w[l].size
  BY <1>1, <1>2 DEF Seal, StreamTypes, Idle
<1>4. UNCHANGED <<got, rest, failed, broken>>
  BY DEF Seal, rare
<1>5. From(got'[l], 0) /\ Len(got'[l]) <= w'[l].sent
  <2>1. Len(got[l]) \in Nat
    BY <1>1, LenProperties DEF StreamTypes
  <2>2. QED
    BY <1>2, <1>3, <1>4, <2>1 DEF LinkFlows
<1>6. CASE ~failed[l] /\ l[1] \notin broken
  <2>1. Flowing(l) /\ Open(l)
    BY <1>6 DEF LinkFlows
  <2>2. wire'[l] = Append(wire[l], Packet(l))
    BY <1>1, <2>1 DEF Seal, StreamTypes
  <2>3. PICK n \in Nat : n = Len(wire[l])
    BY <1>1, LenProperties
  <2>4. /\ n \in Nat /\ Len(wire'[l]) = n + 1
        /\ \A k \in 1 .. n : wire'[l][k] = wire[l][k]
        /\ wire'[l][n + 1] = Packet(l)
    BY <1>1, <1>2, <2>2, <2>3, AppendProperties, LenProperties
  <2>5. /\ \A k \in 0 .. n : End(l, k)' = End(l, k)
        /\ End(l, n + 1)' = w[l].sent + w[l].size
    <3>1. ASSUME NEW k \in 0 .. n PROVE End(l, k)' = End(l, k)
      <4>1. k = 0 \/ k \in 1 .. n
        OBVIOUS
      <4>2. QED
        BY <1>4, <2>4, <4>1 DEF End
    <3>2. End(l, n + 1)' = w[l].sent + w[l].size
      <4>1. Packet(l).data[w[l].size] = w[l].sent + w[l].size
        BY <1>2
      <4>2. n + 1 # 0
        OBVIOUS
      <4>3. QED
        BY <1>2, <2>4, <4>1, <4>2 DEF End
    <3>3. QED
      BY <3>1, <3>2
  <2>6. From(rest'[l], Len(got'[l]))
    BY <1>4, <2>1 DEF Flowing
  <2>7. \A k \in 1 .. n + 1 : From(wire'[l][k].data, End(l, k - 1)')
    <3>1. ASSUME NEW k \in 1 .. n PROVE From(wire'[l][k].data, End(l, k - 1)')
      <4>1. k - 1 \in 0 .. n
        BY <2>4
      <4>2. QED
        BY <2>1, <2>4, <2>5, <2>3, <3>1, <4>1 DEF Flowing
    <3>2. From(wire'[l][n + 1].data, End(l, n)')
      <4>1. End(l, n)' = w[l].sent
        <5>1. n \in 0 .. n
          OBVIOUS
        <5>2. QED
          BY <2>1, <2>5, <2>3, <5>1 DEF Flowing
      <4>2. QED
        BY <1>2, <2>4, <4>1 DEF From
    <3>3. \A k \in 1 .. n + 1 : k \in 1 .. n \/ (k = n + 1 /\ k - 1 = n)
      BY <2>4
    <3>4. QED
      BY <3>1, <3>2, <3>3
  <2>8. \A k \in 0 .. n + 1 : End(l, k)' \in 0 .. w'[l].sent
    <3>1. ASSUME NEW k \in 0 .. n PROVE End(l, k)' \in 0 .. w'[l].sent
      <4>1. End(l, k) \in 0 .. w[l].sent
        BY <2>1, <2>3 DEF Flowing
      <4>2. QED
        BY <1>2, <1>3, <2>5, <4>1
    <3>2. \A k \in 0 .. n + 1 : k \in 0 .. n \/ k = n + 1
      BY <2>4
    <3>3. End(l, n + 1)' \in 0 .. w'[l].sent
      BY <1>2, <1>3, <2>5
    <3>4. QED
      BY <3>1, <3>2, <3>3
  <2>9. QED
    BY <1>3, <1>5, <2>4, <2>5, <2>6, <2>7, <2>8 DEF LinkFlows, Flowing
<1>7. QED
  BY <1>4, <1>5, <1>6 DEF LinkFlows

\* A Read goes on where the last one ended.
LEMMA ReadFlows ==
    ASSUME TypeInv, SealInv, NEW l \in Links, NEW r \in Rooms, LinkFlows(l), Read(l, r)
    PROVE  LinkFlows(l)'
<1>1. /\ StreamTypes /\ wire[l] \in Seq(Packets) /\ rest[l] \in Seq(Nat)
      /\ got[l] \in Seq(Nat) /\ w[l].sent \in Nat
  <2>1. StreamTypes
    BY DEF TypeInv
  <2>2. QED
    BY <2>1 DEF StreamTypes, Writers
<1>2. Flowing(l) /\ UNCHANGED <<w, broken>>
  BY DEF LinkFlows, Read, rare
<1>3. /\ Len(got[l]) \in Nat /\ Len(rest[l]) \in Nat /\ Len(wire[l]) \in Nat
      /\ 0 \in 0 .. Len(wire[l])
  BY <1>1, LenProperties
<1>4. CASE rest[l] # <<>> /\ Copy(l, rest[l], r) /\ UNCHANGED <<wire, failed>>
  <2>1. /\ From(got'[l], 0) /\ From(rest'[l], Len(got'[l]))
        /\ Len(got'[l]) + Len(rest'[l]) = Len(got[l]) + Len(rest[l])
        /\ Len(got'[l]) <= Len(got[l]) + Len(rest[l])
    BY <1>1, <1>2, <1>4, CopyFlows DEF Flowing, LinkFlows
  <2>2. \A k : End(l, k)' = End(l, k)
    BY <1>4, <2>1 DEF End
  <2>3. Len(got[l]) + Len(rest[l]) <= w[l].sent
    <3>1. End(l, 0) \in 0 .. w[l].sent /\ End(l, 0) = Len(got[l]) + Len(rest[l])
      BY <1>2, <1>3 DEF Flowing, End
    <3>2. \A a, b \in Nat : a \in 0 .. b => a <= b
      OBVIOUS
    <3>3. \A a, b \in Nat : a + b \in Nat
      OBVIOUS
    <3>4. QED
      BY <1>1, <1>3, <3>1, <3>2, <3>3
  <2>4. Flowing(l)'
    BY <1>2, <1>4, <2>1, <2>2 DEF Flowing
  <2>5. Len(got'[l]) <= w'[l].sent
    <3>1. Len(got'[l]) \in Nat
      <4>1. got' \in [Links -> Seq(Nat)]
        BY ReadTypes DEF TypeInv, StreamTypes
      <4>2. QED
        BY <4>1, LenProperties
    <3>2. \A a, b, c \in Nat : a <= b /\ b <= c => a <= c
      OBVIOUS
    <3>3. Len(got[l]) + Len(rest[l]) \in Nat
      <4>1. \A a, b \in Nat : a + b \in Nat
        OBVIOUS
      <4>2. QED
        BY <1>3, <4>1
    <3>4. QED
      BY <1>1, <1>2, <2>1, <2>3, <3>1, <3>2, <3>3
  <2>6. QED
    BY <2>1, <2>4, <2>5 DEF LinkFlows
<1>5. CASE /\ rest[l] = <<>> /\ wire[l] # <<>>
           /\ wire' = [wire EXCEPT ![l] = Tail(@)]
           /\ Copy(l, Head(wire[l]).data, r) /\ UNCHANGED failed
  <2>1. PICK data : data = Head(wire[l]).data
    OBVIOUS
  <2>2. /\ Len(wire[l]) \in Nat \ {0} /\ wire'[l] = Tail(wire[l])
        /\ Len(wire'[l]) = Len(wire[l]) - 1
        /\ \A k \in 1 .. Len(wire'[l]) : wire'[l][k] = wire[l][k + 1]
        /\ Head(wire[l]) = wire[l][1] /\ wire[l][1] \in Packets
    BY <1>1, <1>5, TailAt, HeadTailProperties DEF StreamTypes
  <2>3. 1 \in 1 .. Len(wire[l]) /\ 1 \in 0 .. Len(wire[l])
    BY <2>2
  <2>4. data \in Seq(Nat) /\ Len(data) \in Nat \ {0}
    <3>1. data \in Seq(Nat)
      BY <2>2, <2>1 DEF Packets
    <3>2. Len(data) \in Sizes
      BY <2>2, <2>3, <2>1 DEF SealInv, Sealed
    <3>3. QED
      BY <3>1, <3>2, Constant
  <2>5. From(data, Len(got[l]))
    <3>1. From(data, End(l, 0))
      <4>1. 1 - 1 = 0
        OBVIOUS
      <4>2. QED
        BY <1>2, <2>2, <2>3, <2>1, <4>1 DEF Flowing
    <3>2. End(l, 0) = Len(got[l])
      BY <1>3, <1>5 DEF End
    <3>3. QED
      BY <3>1, <3>2
  <2>6. End(l, 1) = Len(got[l]) + Len(data)
    <3>1. data[Len(data)] = Len(got[l]) + Len(data)
      <4>1. Len(data) \in 1 .. Len(data)
        BY <2>4
      <4>2. QED
        BY <2>5, <4>1 DEF From
    <3>2. End(l, 1) = wire[l][1].data[Len(wire[l][1].data)]
      BY DEF End
    <3>3. QED
      BY <2>1, <2>2, <3>1, <3>2
  <2>7. /\ From(got'[l], 0) /\ From(rest'[l], Len(got'[l]))
        /\ Len(got'[l]) + Len(rest'[l]) = Len(got[l]) + Len(data)
        /\ Len(got'[l]) <= Len(got[l]) + Len(data)
    BY <1>1, <1>5, <2>4, <2>5, <2>1, CopyFlows DEF LinkFlows
  <2>8. PICK n \in Nat : Len(wire[l]) = n + 1 /\ Len(wire'[l]) = n
    <3>1. Len(wire[l]) - 1 \in Nat /\ Len(wire[l]) = (Len(wire[l]) - 1) + 1
      BY <2>2
    <3>2. QED
      BY <2>2, <3>1
  <2>9. \A k \in 0 .. n : End(l, k)' = End(l, k + 1)
    <3>1. End(l, 0)' = End(l, 1)
      BY <2>6, <2>7 DEF End
    <3>2. ASSUME NEW k \in 1 .. n PROVE End(l, k)' = End(l, k + 1)
      <4>1. k # 0 /\ k + 1 # 0
        OBVIOUS
      <4>2. wire'[l][k] = wire[l][k + 1]
        BY <2>2, <2>8, Zenon
      <4>3. QED
        BY <4>1, <4>2 DEF End
    <3>3. \A k \in 0 .. n : k = 0 \/ k \in 1 .. n
      OBVIOUS
    <3>4. 0 + 1 = 1
      OBVIOUS
    <3>5. QED
      BY <3>1, <3>2, <3>3, <3>4
  <2>10. \A k \in 1 .. n : From(wire'[l][k].data, End(l, k - 1)')
    <3> SUFFICES ASSUME NEW k \in 1 .. n PROVE From(wire'[l][k].data, End(l, k - 1)')
      OBVIOUS
    <3>1. k - 1 \in 0 .. n /\ (k - 1) + 1 = k /\ k + 1 \in 1 .. n + 1 /\ (k + 1) - 1 = k
      OBVIOUS
    <3>2. End(l, k - 1)' = End(l, k)
      BY <2>9, <3>1
    <3>3. From(wire[l][k + 1].data, End(l, (k + 1) - 1))
      BY <1>2, <2>8, <3>1 DEF Flowing
    <3>4. QED
      BY <2>2, <2>8, <3>1, <3>2, <3>3
  <2>11. \A k \in 0 .. n : End(l, k)' \in 0 .. w'[l].sent
    <3>1. \A k \in 0 .. n : k + 1 \in 0 .. n + 1
      OBVIOUS
    <3>2. QED
      BY <1>2, <2>8, <2>9, <3>1 DEF Flowing
  <2>12. End(l, n)' = w'[l].sent
    <3>1. n \in 0 .. n
      OBVIOUS
    <3>2. QED
      BY <1>2, <2>8, <2>9, <3>1 DEF Flowing
  <2>13. Flowing(l)'
    BY <2>7, <2>8, <2>10, <2>11, <2>12 DEF Flowing
  <2>14. Len(got'[l]) <= w'[l].sent
    <3>1. Len(got[l]) + Len(data) <= w[l].sent
      <4>1. End(l, 1) \in 0 .. w[l].sent
        BY <1>2, <2>3 DEF Flowing
      <4>2. QED
        BY <1>1, <2>6, <4>1
    <3>2. Len(got'[l]) \in Nat
      <4>1. got' \in [Links -> Seq(Nat)]
        BY ReadTypes DEF TypeInv, StreamTypes
      <4>2. QED
        BY <4>1, LenProperties
    <3>3. \A a, b, c \in Nat : a <= b /\ b <= c => a <= c
      OBVIOUS
    <3>4. Len(got[l]) + Len(data) \in Nat
      BY <1>3, <2>4
    <3>5. QED
      BY <1>1, <1>2, <2>7, <3>1, <3>2, <3>3, <3>4
  <2>15. QED
    BY <2>7, <2>13, <2>14 DEF LinkFlows
<1>6. CASE failed' = [failed EXCEPT ![l] = TRUE] /\ UNCHANGED <<rest, got>>
  BY <1>1, <1>2, <1>6 DEF LinkFlows, StreamTypes
<1>7. QED
  BY <1>4, <1>5, <1>6 DEF Read

LEMMA FlowsPreserved == TypeInv /\ SealInv /\ FlowInv /\ [Next]_vars => FlowInv'
<1> SUFFICES ASSUME TypeInv, SealInv, FlowInv, [Next]_vars PROVE FlowInv'
  OBVIOUS
<1> USE DEF streams, rare
<1>1. StreamTypes /\ \A l \in Links : w[l] \in Writers
  BY DEF TypeInv, StreamTypes
<1>2. \A l \in Links : LinkFlows(l) /\ (w[l].pc # "idle" => Open(l) \/ l[1] \in broken)
  BY DEF FlowInv, LinkFlows
<1>3. \A l \in Links : w[l].pc # "idle" => Open(l)' \/ l[1] \in broken'
  BY <1>2, OpenStays DEF TypeInv
<1>4. broken \subseteq broken'
  BY NoneLost DEF TypeInv
<1> SUFFICES \A l \in Links : /\ LinkFlows(l)'
                              /\ w'[l].pc # "idle" => Open(l)' \/ l[1] \in broken'
  BY DEF FlowInv, LinkFlows
<1>5. ASSUME NEW l \in Links, NEW k \in Sizes, Write(l, k), NEW m \in Links
      PROVE  LinkFlows(m)' /\ (w'[m].pc # "idle" => Open(m)' \/ m[1] \in broken')
  <2>1. w'[m].sent = w[m].sent /\ (m # l => w'[m] = w[m])
    BY <1>1, <1>5 DEF Write, StreamTypes, Writers
  <2>2. UNCHANGED <<got[m], rest[m], wire[m], failed[m]>>
    BY <1>5 DEF Write
  <2>3. Open(l)' \/ l[1] \in broken'
    BY <1>5, OpenStays DEF TypeInv, Write
  <2>4. QED
    BY <1>2, <1>3, <1>4, <2>1, <2>2, <2>3, FlowStays
<1>6. ASSUME NEW l \in Links, Prefix(l), NEW m \in Links
      PROVE  LinkFlows(m)' /\ (w'[m].pc # "idle" => Open(m)' \/ m[1] \in broken')
  <2>1. w'[m].sent = w[m].sent /\ (m # l => w'[m] = w[m]) /\ w[l].pc # "idle"
    BY <1>1, <1>6 DEF Prefix, StreamTypes, Writers
  <2>2. UNCHANGED <<got[m], rest[m], wire[m], failed[m]>>
    BY <1>6 DEF Prefix
  <2>3. QED
    BY <1>2, <1>3, <1>4, <2>1, <2>2, FlowStays
<1>7. ASSUME NEW l \in Links, Seal(l), NEW m \in Links
      PROVE  LinkFlows(m)' /\ (w'[m].pc # "idle" => Open(m)' \/ m[1] \in broken')
  <2>1. (m # l => w'[m] = w[m]) /\ w'[l].pc = "idle" /\ w[l].pc # "idle"
    BY <1>1, <1>7 DEF Seal, StreamTypes, Idle
  <2>2. CASE m = l
    BY <1>2, <1>7, <2>1, <2>2, SealFlows
  <2>3. CASE m # l
    <3>1. UNCHANGED <<got[m], rest[m], wire[m], failed[m]>>
      BY <1>1, <1>7, <2>3 DEF Seal, StreamTypes
    <3>2. QED
      BY <1>2, <1>3, <1>4, <2>1, <2>3, <3>1, FlowStays
  <2>4. QED
    BY <2>2, <2>3
<1>8. ASSUME NEW l \in Links, NEW r \in Rooms, Read(l, r), NEW m \in Links
      PROVE  LinkFlows(m)' /\ (w'[m].pc # "idle" => Open(m)' \/ m[1] \in broken')
  <2>1. w' = w
    BY <1>8 DEF Read
  <2>2. CASE m = l
    BY <1>2, <1>3, <1>8, <2>1, <2>2, ReadFlows
  <2>3. CASE m # l
    <3>1. UNCHANGED <<got[m], rest[m], wire[m], failed[m]>>
      BY <1>1, <1>8, <2>3 DEF Read, Copy, StreamTypes
    <3>2. QED
      BY <1>2, <1>3, <1>4, <2>1, <2>3, <3>1, FlowStays
  <2>4. QED
    BY <2>2, <2>3
<1>9. ASSUME NEW c \in Conns, Break(c), NEW m \in Links
      PROVE  LinkFlows(m)' /\ (w'[m].pc # "idle" => Open(m)' \/ m[1] \in broken')
  <2>1. w' = w /\ got' = got /\ failed' = failed /\ c \in broken'
    BY <1>9 DEF Break
  <2>2. CASE m[1] = c
    BY <1>2, <2>1, <2>2 DEF LinkFlows
  <2>3. CASE m[1] # c
    <3>1. UNCHANGED <<rest[m], wire[m]>>
      BY <1>9, <2>3 DEF Break
    <3>2. QED
      BY <1>2, <1>3, <1>4, <2>1, <3>1, FlowStays
  <2>4. QED
    BY <2>2, <2>3
<1>10. ASSUME UNCHANGED <<streams, rare>>, NEW m \in Links
       PROVE  LinkFlows(m)' /\ (w'[m].pc # "idle" => Open(m)' \/ m[1] \in broken')
  BY <1>2, <1>3, <1>4, <1>10, FlowStays
<1>11. CASE UNCHANGED vars
  BY <1>10, <1>11 DEF vars
<1>12. QED
  BY <1>5, <1>6, <1>7, <1>8, <1>9, <1>10, <1>11, StreamSteps

\* What a reader was given is a beginning of what was written, in order and
\* without a gap: whatever rooms its Reads have, however the packets are cut,
\* through the part of a packet kept in c.buf, up to a packet that cannot be
\* opened and after a break (SSConn.Read, SSClientConn.Read).
THEOREM ReadsInOrder == Spec => []InOrder
<1>1. TypeInv /\ FlowInv => InOrder
  <2> SUFFICES ASSUME TypeInv, FlowInv, NEW l \in Links
               PROVE  got[l] = [i \in 1 .. Len(got[l]) |-> i] /\ Len(got[l]) <= w[l].sent
    BY DEF InOrder
  <2>1. got[l] \in Seq(Nat)
    BY DEF TypeInv, StreamTypes
  <2>2. got[l] \in [1 .. Len(got[l]) -> Nat]
    BY <2>1, LenProperties
  <2>3. \A i \in 1 .. Len(got[l]) : got[l][i] = i
    <3>1. Len(got[l]) \in Nat
      BY <2>1, LenProperties
    <3>2. QED
      BY <3>1 DEF FlowInv, From
  <2>4. QED
    BY <2>2, <2>3 DEF FlowInv
<1>2. QED
  BY <1>1, TypesInitially, TypesPreserved, SealsInitially, SealsPreserved, FlowsInitially,
     FlowsPreserved, PTL DEF Spec

=============================================================================
