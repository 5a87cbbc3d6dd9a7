------------------------- MODULE RouteControlProofs -------------------------
(***************************************************************************)
(* Proofs about RouteControl: which route the client uses, for any number  *)
(* of servers, processes, ClientControls and requests of the local API.    *)
(***************************************************************************)
EXTENDS RouteControl, SequenceTheorems, FiniteSetTheorems, WellFoundedInduction, TLAPS

-----------------------------------------------------------------------------
(* RouteControl: the inductive invariants.                                  *)

Servers == Hosts \cup {None}
Methods == {"close", "closeOld", "find", "exec", "note", "check"}
Steps == {<<s>> : s \in {"close", "closeOld", "exec", "note", "check"}}
         \cup ({"find", "change", "changeNext", "save", "next", "renew"} \X Servers)

\* Which step may follow which, "end" after the last one.
Follow ==
    {<<"close", "change">>, <<"close", "next">>, <<"close", "renew">>,
     <<"closeOld", "find">>, <<"renew", "find">>, <<"find", "exec">>,
     <<"exec", "note">>, <<"note", "check">>, <<"check", "save">>,
     <<"check", "end">>, <<"save", "next">>, <<"save", "changeNext">>,
     <<"save", "end">>, <<"change", "save">>, <<"change", "end">>,
     <<"changeNext", "end">>, <<"next", "end">>}

First(s) == IF s = <<>> THEN "end" ELSE s[1][1]

Legal(s) ==
    \A i \in 1 .. Len(s) :
        <<s[i][1], IF i < Len(s) THEN s[i + 1][1] ELSE "end">> \in Follow

\* The steps that are left follow one on another, and whoever has any works
\* on a ClientControl.
PlanInv ==
    /\ todo \in [Handlers -> Seq(Steps)]
    /\ \A h \in Handlers :
         /\ Legal(todo[h])
         /\ Busy(h) => ctl \in Ctls
         /\ First(todo[h]) \in Methods => cur[h] \in Ctls
    /\ ctl \in Ctls => routes # <<>>
    /\ \A p \in Pids : Alive(p) <=> procs[p].st # "none"

TypeInv == TypeOK /\ PlanInv

-----------------------------------------------------------------------------
(* Sequences of steps.                                                      *)

LEMMA Joined ==
    ASSUME NEW T, NEW p \in Seq(T), NEW s \in Seq(T)
    PROVE  /\ p \o s \in Seq(T) /\ Len(p \o s) = Len(p) + Len(s)
           /\ Len(p) \in Nat /\ Len(s) \in Nat
           /\ \A i \in 1 .. Len(p) : (p \o s)[i] = p[i]
           /\ \A i \in 1 .. Len(s) : (p \o s)[Len(p) + i] = s[i]
           /\ \A i \in 1 .. Len(p \o s) :
                i \in 1 .. Len(p) \/ \E j \in 1 .. Len(s) : i = Len(p) + j
<1>1. /\ p \o s \in Seq(T) /\ Len(p \o s) = Len(p) + Len(s)
      /\ \A i \in 1 .. Len(p) + Len(s) :
            (p \o s)[i] = IF i <= Len(p) THEN p[i] ELSE s[i - Len(p)]
  BY ConcatProperties
<1>2. Len(p) \in Nat /\ Len(s) \in Nat
  BY LenProperties
<1>3. \A i \in 1 .. Len(p) : (p \o s)[i] = p[i]
  BY <1>1, <1>2
<1>4. ASSUME NEW i \in 1 .. Len(s) PROVE (p \o s)[Len(p) + i] = s[i]
  <2>1. /\ Len(p) + i \in 1 .. Len(p) + Len(s) /\ ~(Len(p) + i <= Len(p))
        /\ Len(p) + i - Len(p) = i
    BY <1>2
  <2> QED
    BY <1>1, <2>1
<1>5. ASSUME NEW i \in 1 .. Len(p) + Len(s), i \notin 1 .. Len(p)
      PROVE  \E j \in 1 .. Len(s) : i = Len(p) + j
  <2>1. i - Len(p) \in 1 .. Len(s) /\ i = Len(p) + (i - Len(p))
    BY <1>2, <1>5
  <2> QED
    BY <2>1
<1> QED
  BY <1>1, <1>2, <1>3, <1>4, <1>5

LEMMA Associated ==
    ASSUME NEW T, NEW a \in Seq(T), NEW b \in Seq(T), NEW c \in Seq(T)
    PROVE  a \o (b \o c) = (a \o b) \o c
BY ConcatAssociative, SMTT(30)

LEMMA Rest ==
    ASSUME NEW T, NEW s \in Seq(T), s # <<>>
    PROVE  /\ Tail(s) \in Seq(T) /\ Len(s) \in Nat \ {0} /\ Len(Tail(s)) = Len(s) - 1
           /\ s[1] \in T /\ Head(s) = s[1]
           /\ \A i \in 1 .. Len(Tail(s)) : i + 1 \in 1 .. Len(s) /\ Tail(s)[i] = s[i + 1]
<1>1. Len(s) \in Nat /\ Len(s) # 0
  BY EmptySeq, LenProperties
<1>2. /\ Tail(s) \in Seq(T) /\ Len(Tail(s)) = Len(s) - 1 /\ Head(s) = s[1] /\ s[1] \in T
  BY <1>1, HeadTailProperties
<1>3. \A i \in 1 .. Len(s) - 1 : i + 1 \in 1 .. Len(s) /\ Tail(s)[i] = s[i + 1]
  BY <1>1
<1> QED
  BY <1>1, <1>2, <1>3

\* A plan without its first step.
LEMMA LegalTail ==
    ASSUME NEW s \in Seq(Steps), s # <<>>, Legal(s)
    PROVE  /\ Legal(Tail(s)) /\ <<s[1][1], First(Tail(s))>> \in Follow
<1>1. /\ Tail(s) \in Seq(Steps) /\ Len(s) \in Nat \ {0} /\ Len(Tail(s)) = Len(s) - 1
      /\ \A i \in 1 .. Len(Tail(s)) : i + 1 \in 1 .. Len(s) /\ Tail(s)[i] = s[i + 1]
  BY Rest
<1>2. ASSUME NEW i \in 1 .. Len(Tail(s))
      PROVE  <<Tail(s)[i][1], IF i < Len(Tail(s)) THEN Tail(s)[i + 1][1] ELSE "end">>
               \in Follow
  <2>1. <<s[i + 1][1], IF i + 1 < Len(s) THEN s[i + 1 + 1][1] ELSE "end">> \in Follow
    BY <1>1 DEF Legal
  <2>2. CASE i < Len(Tail(s))
    BY <1>1, <2>1, <2>2
  <2>3. CASE ~(i < Len(Tail(s)))
    BY <1>1, <2>1, <2>3
  <2> QED
    BY <2>2, <2>3
<1>3. <<s[1][1], IF 1 < Len(s) THEN s[2][1] ELSE "end">> \in Follow
  BY <1>1 DEF Legal
<1>4. Legal(Tail(s))
  BY <1>2 DEF Legal
<1>5. CASE Tail(s) = <<>>
  <2>1. ~(1 < Len(s))
    BY <1>1, <1>5, EmptySeq
  <2> QED
    BY <1>3, <1>4, <1>5, <2>1 DEF First
<1>6. CASE Tail(s) # <<>>
  <2>1. 1 < Len(s) /\ Tail(s)[1] = s[2]
    BY <1>1, <1>6, EmptySeq
  <2> QED
    BY <1>3, <1>4, <1>6, <2>1 DEF First
<1> QED
  BY <1>5, <1>6

\* Steps put before a plan.
LEMMA LegalJoin ==
    ASSUME NEW p \in Seq(Steps), NEW s \in Seq(Steps), Legal(s), p # <<>>,
           \A i \in 1 .. Len(p) - 1 : <<p[i][1], p[i + 1][1]>> \in Follow,
           <<p[Len(p)][1], First(s)>> \in Follow
    PROVE  Legal(p \o s) /\ First(p \o s) = p[1][1]
<1>1. /\ p \o s \in Seq(Steps) /\ Len(p \o s) = Len(p) + Len(s)
      /\ Len(p) \in Nat /\ Len(s) \in Nat
      /\ \A i \in 1 .. Len(p) : (p \o s)[i] = p[i]
      /\ \A i \in 1 .. Len(s) : (p \o s)[Len(p) + i] = s[i]
      /\ \A i \in 1 .. Len(p \o s) :
           i \in 1 .. Len(p) \/ \E j \in 1 .. Len(s) : i = Len(p) + j
  BY Joined
<1>2. Len(p) # 0
  BY EmptySeq
<1> DEFINE c == p \o s
<1>3. ASSUME NEW i \in 1 .. Len(p)
      PROVE  <<c[i][1], IF i < Len(c) THEN c[i + 1][1] ELSE "end">> \in Follow
  <2>1. CASE i < Len(p)
    <3>1. i \in 1 .. Len(p) - 1 /\ i + 1 \in 1 .. Len(p) /\ i < Len(c)
      BY <1>1, <2>1
    <3> QED
      BY <1>1, <3>1
  <2>2. CASE i = Len(p) /\ s = <<>>
    <3>1. ~(i < Len(c)) /\ c[i] = p[i]
      BY <1>1, <2>2
    <3> QED
      BY <2>2, <3>1 DEF First
  <2>3. CASE i = Len(p) /\ s # <<>>
    <3>1. 1 \in 1 .. Len(s) /\ i < Len(c) /\ c[i] = p[i]
      BY <1>1, <2>3, EmptySeq
    <3> QED
      BY <1>1, <2>3, <3>1 DEF First
  <2> QED
    BY <1>1, <2>1, <2>2, <2>3, SMTT(30)
<1>4. ASSUME NEW j \in 1 .. Len(s)
      PROVE  <<c[Len(p) + j][1],
               IF Len(p) + j < Len(c) THEN c[Len(p) + j + 1][1] ELSE "end">> \in Follow
  <2>1. <<s[j][1], IF j < Len(s) THEN s[j + 1][1] ELSE "end">> \in Follow
    BY DEF Legal
  <2>2. c[Len(p) + j] = s[j] /\ (Len(p) + j < Len(c) <=> j < Len(s))
    BY <1>1
  <2>3. CASE j < Len(s)
    <3> DEFINE m == Len(p)
               n == Len(s)
    <3>1. m \in Nat /\ n \in Nat /\ j \in 1 .. n /\ j < n
      BY <1>1, <2>3
    <3> HIDE DEF m, n
    <3>2. j + 1 \in 1 .. n /\ m + j + 1 = m + (j + 1)
      BY <3>1
    <3>3. j + 1 \in 1 .. Len(s) /\ Len(p) + j + 1 = Len(p) + (j + 1)
      BY <3>2 DEF m, n
    <3>4. c[Len(p) + j + 1] = s[j + 1]
      BY <1>1, <3>3
    <3> QED
      BY <2>1, <2>2, <2>3, <3>4
  <2>4. CASE ~(j < Len(s))
    BY <2>1, <2>2, <2>4
  <2> QED
    BY <2>3, <2>4
<1>5. Legal(c)
  BY <1>1, <1>3, <1>4 DEF Legal
<1>6. c # <<>> /\ c[1] = p[1]
  <2>1. 1 \in 1 .. Len(p) /\ Len(c) # 0
    BY <1>1, <1>2
  <2> QED
    BY <1>1, <2>1, EmptySeq
<1> QED
  BY <1>5, <1>6 DEF First

-----------------------------------------------------------------------------
(* The plans of the handlers.                                               *)

LEMMA StepsAre ==
    /\ \A s \in {"close", "closeOld", "exec", "note", "check"} : <<s>> \in Steps
    /\ \A s \in {"find", "change", "changeNext", "save", "next", "renew"}, x \in Servers :
         <<s, x>> \in Steps
BY DEF Steps

LEMMA RoutePlans ==
    /\ TryClose \in Seq(Steps) /\ StartRoute \in Seq(Steps)
    /\ \A x \in Servers : ChangeRoute(x) \in Seq(Steps)
<1>1. << <<"close">> >> \in Seq(Steps)
  BY StepsAre
<1>2. << <<"find", None>>, <<"exec">>, <<"note">>, <<"check">> >> \in Seq(Steps)
  BY StepsAre DEF Servers
<1>3. ASSUME NEW x \in Servers
      PROVE  << <<"closeOld">>, <<"find", x>>, <<"exec">>, <<"note">>, <<"check">> >>
               \in Seq(Steps)
  <2>1. <<"find", x>> \in Steps
    BY StepsAre
  <2> QED
    BY <2>1, StepsAre
<1> QED
  BY <1>1, <1>2, <1>3 DEF TryClose, StartRoute, ChangeRoute

\* A whole plan, or one that goes on with a plan that may follow a check.
LEMMA RoutesLegal ==
    ASSUME NEW s \in Seq(Steps), Legal(s), <<"check", First(s)>> \in Follow
    PROVE  /\ StartRoute \o s \in Seq(Steps)
           /\ Legal(StartRoute \o s) /\ First(StartRoute \o s) = "find"
           /\ \A x \in Servers : /\ ChangeRoute(x) \o s \in Seq(Steps)
                                 /\ Legal(ChangeRoute(x) \o s)
                                 /\ First(ChangeRoute(x) \o s) = "closeOld"
<1>1. Legal(StartRoute \o s) /\ First(StartRoute \o s) = "find"
  <2> DEFINE p == << <<"find", None>>, <<"exec">>, <<"note">>, <<"check">> >>
  <2>1. p \in Seq(Steps) /\ p = StartRoute /\ p # <<>>
    BY RoutePlans DEF StartRoute
  <2>2. /\ \A i \in 1 .. Len(p) - 1 : <<p[i][1], p[i + 1][1]>> \in Follow
        /\ p[Len(p)][1] = "check" /\ p[1][1] = "find"
    BY DEF Follow
  <2> HIDE DEF p
  <2> QED
    BY <2>1, <2>2, LegalJoin
<1>2. ASSUME NEW x \in Servers
      PROVE  Legal(ChangeRoute(x) \o s) /\ First(ChangeRoute(x) \o s) = "closeOld"
  <2> DEFINE p == << <<"closeOld">>, <<"find", x>>, <<"exec">>, <<"note">>, <<"check">> >>
  <2>1. p \in Seq(Steps) /\ p = ChangeRoute(x) /\ p # <<>>
    BY RoutePlans DEF ChangeRoute
  <2>2. /\ \A i \in 1 .. Len(p) - 1 : <<p[i][1], p[i + 1][1]>> \in Follow
        /\ p[Len(p)][1] = "check" /\ p[1][1] = "closeOld"
    BY DEF Follow
  <2> HIDE DEF p
  <2> QED
    BY <2>1, <2>2, LegalJoin
<1>3. /\ StartRoute \o s \in Seq(Steps)
      /\ \A x \in Servers : ChangeRoute(x) \o s \in Seq(Steps)
  BY RoutePlans, Joined
<1> QED
  BY <1>1, <1>2, <1>3

LEMMA ClosesLegal ==
    ASSUME NEW s \in Seq(Steps), Legal(s), First(s) \in {"change", "next", "renew"}
    PROVE  /\ TryClose \o s \in Seq(Steps)
           /\ Legal(TryClose \o s) /\ First(TryClose \o s) = "close"
<1> DEFINE p == << <<"close">> >>
<1>1. p \in Seq(Steps) /\ p = TryClose /\ p # <<>>
  BY RoutePlans DEF TryClose
<1>2. Len(p) = 1 /\ p[1][1] = "close"
  OBVIOUS
<1> HIDE DEF p
<1>3. <<p[Len(p)][1], First(s)>> \in Follow /\ \A i \in 1 .. Len(p) - 1 : FALSE
  BY <1>2 DEF Follow
<1>4. Legal(p \o s) /\ First(p \o s) = p[1][1]
  BY <1>1, <1>3, LegalJoin
<1>5. p \o s \in Seq(Steps)
  BY <1>1, Joined
<1> QED
  BY <1>1, <1>2, <1>4, <1>5

\* What requests end with.
LEMMA EndsLegal ==
    /\ <<>> \in Seq(Steps) /\ Legal(<<>>) /\ First(<<>>) = "end"
    /\ \A s \in {"save", "change", "next"}, x \in Servers :
         /\ << <<s, x>> >> \in Seq(Steps) /\ Legal(<< <<s, x>> >>)
         /\ First(<< <<s, x>> >>) = s
    /\ \A x, y \in Servers : \A r \in {"next", "changeNext"} :
         /\ << <<"save", x>>, <<r, y>> >> \in Seq(Steps)
         /\ Legal(<< <<"save", x>>, <<r, y>> >>)
         /\ First(<< <<"save", x>>, <<r, y>> >>) = "save"
         /\ << <<"change", x>>, <<"save", y>> >> \in Seq(Steps)
         /\ Legal(<< <<"change", x>>, <<"save", y>> >>)
         /\ First(<< <<"change", x>>, <<"save", y>> >>) = "change"
<1>1. <<>> \in Seq(Steps) /\ Legal(<<>>) /\ First(<<>>) = "end"
  BY DEF Legal, First
<1>2. ASSUME NEW s \in {"save", "change", "next"}, NEW x \in Servers
      PROVE  /\ << <<s, x>> >> \in Seq(Steps) /\ Legal(<< <<s, x>> >>)
             /\ First(<< <<s, x>> >>) = s
  <2>1. <<s, x>> \in Steps
    BY StepsAre
  <2> QED
    BY <2>1 DEF Legal, First, Follow
<1>3. ASSUME NEW x \in Servers, NEW y \in Servers, NEW r \in {"next", "changeNext"}
      PROVE  /\ << <<"save", x>>, <<r, y>> >> \in Seq(Steps)
             /\ Legal(<< <<"save", x>>, <<r, y>> >>)
             /\ First(<< <<"save", x>>, <<r, y>> >>) = "save"
             /\ << <<"change", x>>, <<"save", y>> >> \in Seq(Steps)
             /\ Legal(<< <<"change", x>>, <<"save", y>> >>)
             /\ First(<< <<"change", x>>, <<"save", y>> >>) = "change"
  <2>1. /\ <<"save", x>> \in Steps /\ <<r, y>> \in Steps
        /\ <<"change", x>> \in Steps /\ <<"save", y>> \in Steps
    BY StepsAre
  <2>2. /\ << <<"save", x>>, <<r, y>> >> \in Seq(Steps)
        /\ << <<"change", x>>, <<"save", y>> >> \in Seq(Steps)
    BY <2>1
  <2>3. /\ Legal(<< <<"save", x>>, <<r, y>> >>)
        /\ First(<< <<"save", x>>, <<r, y>> >>) = "save"
    BY DEF Legal, First, Follow
  <2>4. /\ Legal(<< <<"change", x>>, <<"save", y>> >>)
        /\ First(<< <<"change", x>>, <<"save", y>> >>) = "change"
    BY DEF Legal, First, Follow
  <2> QED
    BY <2>2, <2>3, <2>4
<1> QED
  BY <1>1, <1>2, <1>3

\* The steps of a report.
LEMMA ReportLegal ==
    ASSUME NEW x \in Servers
    PROVE  LET s == TryClose \o << <<"renew", x>> >> \o StartRoute
                      \o << <<"save", x>>, <<"next", x>> >>
           IN  s \in Seq(Steps) /\ Legal(s) /\ First(s) = "close"
<1> DEFINE e == << <<"save", x>>, <<"next", x>> >>
           r == << <<"renew", x>> >>
<1>1. e \in Seq(Steps) /\ Legal(e) /\ First(e) = "save"
  BY EndsLegal
<1>2. r \in Seq(Steps) /\ r # <<>> /\ Len(r) = 1 /\ r[1][1] = "renew"
  BY StepsAre
<1> HIDE DEF e, r
<1>3. /\ StartRoute \o e \in Seq(Steps) /\ Legal(StartRoute \o e)
      /\ First(StartRoute \o e) = "find"
  BY <1>1, RoutesLegal DEF Follow
<1>4. /\ r \o (StartRoute \o e) \in Seq(Steps) /\ Legal(r \o (StartRoute \o e))
      /\ First(r \o (StartRoute \o e)) = "renew"
  <2>1. <<r[Len(r)][1], First(StartRoute \o e)>> \in Follow /\ \A i \in 1 .. Len(r) - 1 : FALSE
    BY <1>2, <1>3 DEF Follow
  <2> QED
    BY <1>2, <1>3, <2>1, LegalJoin, Joined
<1>5. /\ TryClose \o (r \o (StartRoute \o e)) \in Seq(Steps)
      /\ Legal(TryClose \o (r \o (StartRoute \o e)))
      /\ First(TryClose \o (r \o (StartRoute \o e))) = "close"
  BY <1>4, ClosesLegal
<1>6. TryClose \o (r \o (StartRoute \o e)) = TryClose \o r \o StartRoute \o e
  <2>1. TryClose \in Seq(Steps) /\ StartRoute \in Seq(Steps) /\ StartRoute \o e \in Seq(Steps)
        /\ TryClose \o r \in Seq(Steps)
    BY <1>2, <1>3, RoutePlans, Joined
  <2>2. TryClose \o (r \o (StartRoute \o e)) = (TryClose \o r) \o (StartRoute \o e)
    <3> DEFINE k == StartRoute \o e
    <3>1. k \in Seq(Steps)
      BY <2>1
    <3> HIDE DEF k
    <3>2. TryClose \o (r \o k) = (TryClose \o r) \o k
      BY <1>2, <2>1, <3>1, Associated, SMTT(30)
    <3> QED
      BY <3>2 DEF k
  <2>3. (TryClose \o r) \o (StartRoute \o e) = ((TryClose \o r) \o StartRoute) \o e
    BY <1>1, <2>1, Associated, SMTT(30)
  <2> QED
    BY <2>2, <2>3
<1> QED
  BY <1>5, <1>6 DEF e, r

-----------------------------------------------------------------------------
(* The list of servers.                                                     *)

\* A set of numbers that is not empty has a least one ...
LEMMA Least ==
    ASSUME NEW S, S \subseteq Nat, S # {}
    PROVE  \E x \in S : \A y \in S : x <= y
<1> DEFINE R == {ss \in Nat \X Nat : ss[1] < ss[2]}
<1>1. IsWellFoundedOn(R, Nat)
  BY NatLessThanWellFounded DEF OpToRel
<1>2. \A x, y \in Nat : y < x => <<y, x>> \in R
  OBVIOUS
<1> HIDE DEF R
<1>3. PICK x \in S : \A y \in S : ~(<<y, x>> \in R)
  BY <1>1, WFMin
<1>4. ASSUME NEW y \in S
      PROVE  x <= y
  <2>1. x \in Nat /\ y \in Nat /\ ~(<<y, x>> \in R)
    BY <1>3
  <2>2. ~(y < x)
    BY <1>2, <2>1
  <2> QED
    BY <2>1, <2>2
<1> QED
  BY <1>4

\* ... and a bounded one has a greatest.
LEMMA Greatest ==
    ASSUME NEW n \in Nat, NEW S \in SUBSET (1 .. n), S # {}
    PROVE  Max(S) \in S /\ \A y \in S : Max(S) >= y
<1> DEFINE D == {n - y : y \in S}
<1>1. D \subseteq Nat /\ D # {}
  <2>1. \A y \in S : n - y \in Nat
    OBVIOUS
  <2> QED
    BY <2>1, Zenon
<1>2. PICK d \in D : \A e \in D : d <= e
  BY <1>1, Least, Zenon
<1>3. PICK x \in S : d = n - x
  OBVIOUS
<1>4. ASSUME NEW y \in S PROVE x >= y
  <2>1. n - x <= n - y
    BY <1>2, <1>3
  <2> QED
    BY <2>1
<1> QED
  BY <1>4 DEF Max

\* The next server is one of the list.
LEMMA NextIsListed ==
    ASSUME NEW list \in Seq(Hosts), list # <<>>, NEW now
    PROVE  NextRoute(list, now) \in Hosts
<1> DEFINE S == {1} \cup {no \in 2 .. Len(list) : list[no - 1] = now /\ list[no] # now}
<1>1. Len(list) \in Nat \ {0}
  BY EmptySeq, LenProperties
<1>2. S \in SUBSET (1 .. Len(list)) /\ S # {}
  BY <1>1
<1> HIDE DEF S
<1>3. Max(S) \in 1 .. Len(list)
  BY <1>1, <1>2, Greatest
<1>4. list[Max(S)] \in Hosts
  BY <1>3, ElementOfSeq
<1> QED
  BY <1>4 DEF S, NextRoute, NextIndex

\* In a list that names no server twice it is the one after now, and the
\* first one after the last.
LEMMA NextFollows ==
    ASSUME NEW list \in Seq(Hosts), IsInjective(list), NEW i \in 1 .. Len(list)
    PROVE  NextRoute(list, list[i]) = list[IF i < Len(list) THEN i + 1 ELSE 1]
<1> DEFINE now == list[i]
           S == {1} \cup {no \in 2 .. Len(list) : list[no - 1] = now /\ list[no] # now}
           k == IF i < Len(list) THEN i + 1 ELSE 1
<1>1. Len(list) \in Nat /\ DOMAIN list = 1 .. Len(list)
  BY LenProperties
<1>2. \A a, b \in 1 .. Len(list) : list[a] = list[b] => a = b
  BY <1>1 DEF IsInjective
<1>3. \A no \in 2 .. Len(list) : list[no - 1] = now <=> no = i + 1
  <2> SUFFICES ASSUME NEW no \in 2 .. Len(list) PROVE list[no - 1] = now <=> no = i + 1
    OBVIOUS
  <2>1. no - 1 \in 1 .. Len(list) /\ (no = i + 1 <=> no - 1 = i)
    BY <1>1
  <2> QED
    BY <1>2, <2>1
<1>4. k \in S /\ \A no \in S : no <= k
  <2>1. CASE i < Len(list)
    <3>1. i + 1 \in 2 .. Len(list) /\ i + 1 # i /\ i + 1 \in 1 .. Len(list)
      BY <1>1, <2>1
    <3>2. list[i + 1] # now
      BY <1>2, <3>1
    <3> QED
      BY <1>1, <1>3, <2>1, <3>1, <3>2
  <2>2. CASE ~(i < Len(list))
    <3>1. \A no \in 2 .. Len(list) : no # i + 1
      BY <1>1, <2>2
    <3> QED
      BY <1>3, <2>2, <3>1
  <2> QED
    BY <2>1, <2>2
<1>5. S \in SUBSET (1 .. Len(list)) /\ S # {}
  BY <1>1
<1>6. k \in Int /\ S \subseteq Int
  BY <1>1
<1> HIDE DEF S, k
<1>7. Max(S) = k
  <2>1. Max(S) \in S /\ Max(S) >= k
    BY <1>1, <1>4, <1>5, Greatest
  <2>2. Max(S) <= k /\ Max(S) \in Int
    BY <1>4, <1>6, <2>1
  <2> QED
    BY <1>6, <2>1, <2>2
<1> QED
  BY <1>7 DEF S, k, NextRoute, NextIndex

-----------------------------------------------------------------------------
(* Steps of a handler.                                                      *)

LEMMA StepParts ==
    ASSUME NEW s \in Steps
    PROVE  /\ s[1] \in Methods \cup {"change", "changeNext", "save", "next", "renew"}
           /\ s[1] \in {"find", "change", "changeNext", "save", "next", "renew"} =>
                s[2] \in Servers
BY DEF Steps, Methods

\* What a handler that is at work does now.
LEMMA AtWork ==
    ASSUME TypeInv, NEW h \in Handlers, Busy(h)
    PROVE  /\ todo[h] \in Seq(Steps) /\ todo[h] # <<>> /\ Legal(todo[h])
           /\ Head(todo[h]) = todo[h][1] /\ Head(todo[h]) \in Steps
           /\ First(todo[h]) = Head1(h) /\ Head1(h) = todo[h][1][1]
           /\ ctl \in Ctls /\ (Head1(h) \in Methods => cur[h] \in Ctls)
<1>1. todo[h] \in Seq(Steps) /\ todo[h] # <<>> /\ Legal(todo[h])
  BY DEF TypeInv, PlanInv, Busy
<1>2. Head(todo[h]) = todo[h][1] /\ todo[h][1] \in Steps
  BY <1>1, Rest
<1>3. First(todo[h]) = Head1(h) /\ Head1(h) = todo[h][1][1]
  BY <1>1, <1>2 DEF First, Head1
<1> QED
  BY <1>1, <1>2, <1>3 DEF TypeInv, PlanInv

\* A step that puts others in its place, or none.
LEMMA Goes ==
    ASSUME TypeInv, NEW h \in Handlers, Busy(h), NEW steps \in Seq(Steps), Then(h, steps),
           Legal(steps \o Tail(todo[h]))
    PROVE  /\ todo' \in [Handlers -> Seq(Steps)] /\ todo'[h] = steps \o Tail(todo[h])
           /\ Legal(todo'[h]) /\ \A g \in Handlers \ {h} : todo'[g] = todo[g]
<1>1. /\ Tail(todo[h]) \in Seq(Steps) /\ steps \o Tail(todo[h]) \in Seq(Steps)
  BY AtWork, Rest, Joined
<1> QED
  BY <1>1 DEF TypeInv, PlanInv, Then

LEMMA Goes1 ==
    ASSUME TypeInv, NEW h \in Handlers, Busy(h), Then(h, <<>>)
    PROVE  /\ todo' \in [Handlers -> Seq(Steps)] /\ todo'[h] = Tail(todo[h])
           /\ Legal(todo'[h]) /\ \A g \in Handlers \ {h} : todo'[g] = todo[g]
           /\ <<Head1(h), First(todo'[h])>> \in Follow
<1>1. /\ Tail(todo[h]) \in Seq(Steps) /\ Legal(Tail(todo[h]))
      /\ <<Head1(h), First(Tail(todo[h]))>> \in Follow
  BY AtWork, Rest, LegalTail
<1>2. <<>> \in Seq(Steps) /\ <<>> \o Tail(todo[h]) = Tail(todo[h])
  BY <1>1, EndsLegal, ConcatEmptySeq
<1> QED
  BY <1>1, <1>2, Goes

-----------------------------------------------------------------------------
(* The type invariant.                                                      *)

ProcType == [host : Servers, st : States]
CtlType == [Addr : Servers, pid : Pids \cup {0}, running : BOOLEAN]

\* What a step of h, or a request it takes, leaves of PlanInv.
LEMMA PlansKept ==
    ASSUME TypeInv, NEW h \in Handlers,
           todo' \in [Handlers -> Seq(Steps)], Legal(todo'[h]),
           \A g \in Handlers \ {h} : todo'[g] = todo[g] /\ cur'[g] = cur[g],
           ctl \in Ctls => ctl' \in Ctls, todo'[h] # <<>> => ctl' \in Ctls,
           First(todo'[h]) \in Methods => cur'[h] \in Ctls,
           ctl' \in Ctls => routes' # <<>>,
           \A p \in Pids : procs'[p] # NoProc <=> procs'[p].st # "none"
    PROVE  PlanInv'
<1>1. ASSUME NEW g \in Handlers
      PROVE  /\ Legal(todo'[g]) /\ (todo'[g] # <<>> => ctl' \in Ctls)
             /\ First(todo'[g]) \in Methods => cur'[g] \in Ctls
  BY DEF TypeInv, PlanInv, Busy
<1> QED
  BY <1>1 DEF PlanInv, Busy, Alive

LEMMA KillKeeps ==
    ASSUME TypeInv, NEW S, Kill(S)
    PROVE  /\ procs' \in [Pids -> ProcType] /\ port' \in Pids \cup {0}
           /\ \A p \in Pids : procs'[p] # NoProc <=> procs'[p].st # "none"
           /\ \A p \in Pids : IF p \in S THEN procs'[p] = NoProc ELSE procs'[p] = procs[p]
<1>1. NoProc \in ProcType /\ NoProc.st = "none"
  BY DEF NoProc, ProcType, Servers, States
<1>2. procs \in [Pids -> ProcType] /\ port \in Pids \cup {0}
  BY DEF TypeInv, TypeOK, ProcType, Servers
<1>3. \A p \in Pids : procs[p] # NoProc <=> procs[p].st # "none"
  BY DEF TypeInv, PlanInv, Alive
<1>4. procs' = [p \in Pids |-> IF p \in S THEN NoProc ELSE procs[p]]
      /\ port' = IF port \in S THEN 0 ELSE port
  BY DEF Kill
<1>5. \A p \in Pids : procs'[p] = IF p \in S THEN NoProc ELSE procs[p]
  BY <1>4
<1>6. procs' \in [Pids -> ProcType] /\ port' \in Pids \cup {0}
  BY <1>1, <1>2, <1>4
<1> QED
  BY <1>1, <1>3, <1>5, <1>6

\* The types, with the shapes named.
LEMMA Types ==
    ASSUME TypeInv
    PROVE  /\ procs \in [Pids -> ProcType] /\ ctls \in [Ctls -> CtlType]
           /\ port \in Pids \cup {0} /\ ctl \in Ctls \cup {0}
           /\ cur \in [Handlers -> Ctls \cup {0}] /\ fresh \in [Handlers -> Pids \cup {0}]
           /\ routes \in Lists \cup {<<>>} /\ last \in Servers /\ saved \in Servers
           /\ 0 \notin Ctls /\ 0 \notin Pids
           /\ \A p \in Pids : procs[p] # NoProc <=> procs[p].st # "none"
BY NumbersAssumption DEF TypeInv, TypeOK, ProcType, CtlType, Servers, PlanInv, Alive

\* A type invariant from its parts.
LEMMA TypesMade ==
    ASSUME TypeInv, machine' = machine, good' = good, events' \in 0 .. MaxEvents,
           procs' \in [Pids -> ProcType], ctls' \in [Ctls -> CtlType],
           port' \in Pids \cup {0}, ctl' \in Ctls \cup {0},
           cur' \in [Handlers -> Ctls \cup {0}], fresh' \in [Handlers -> Pids \cup {0}],
           routes' \in Lists \cup {<<>>}, last' \in Servers, saved' \in Servers,
           PlanInv'
    PROVE  TypeInv'
BY DEF TypeInv, TypeOK, ProcType, CtlType, Servers

LEMMA CloseTypes ==
    ASSUME TypeInv, NEW h \in Handlers, Busy(h), Close(h), machine' = machine, good' = good
    PROVE  TypeInv'
<1> DEFINE S == {Do(h).pid} \cap {p \in Pids : Alive(p)}
<1>1. Kill(S) /\ Then(h, <<>>) /\ UNCHANGED <<api, locals, events>>
      /\ Head1(h) \in {"close", "closeOld"}
  BY DEF Close, At
<1> HIDE DEF S
<1>2. /\ procs' \in [Pids -> ProcType] /\ port' \in Pids \cup {0}
      /\ \A p \in Pids : procs'[p] # NoProc <=> procs'[p].st # "none"
  BY <1>1, KillKeeps
<1>3. /\ todo' \in [Handlers -> Seq(Steps)] /\ Legal(todo'[h])
      /\ \A g \in Handlers \ {h} : todo'[g] = todo[g]
      /\ <<Head1(h), First(todo'[h])>> \in Follow
  BY <1>1, Goes1
<1>4. cur[h] \in Ctls /\ ctl \in Ctls
  BY <1>1, AtWork DEF Methods
<1>5. ctls' \in [Ctls -> CtlType]
  <2>1. PICK seen \in Answers(Do(h).Addr, procs') :
         ctls' = [ctls EXCEPT ![cur[h]] =
           IF @.pid = 0 \/ seen THEN @
           ELSE [Addr |-> @.Addr, running |-> FALSE,
                 pid |-> IF At(h, "closeOld") THEN 0 ELSE @.pid]]
    BY DEF Close
  <2>2. ctls \in [Ctls -> CtlType]
    BY Types
  <2> QED
    BY <2>1, <2>2 DEF CtlType
<1>6. PlanInv'
  BY <1>1, <1>2, <1>3, <1>4, PlansKept DEF api, locals, TypeInv, PlanInv
<1> QED
  BY <1>1, <1>2, <1>5, <1>6, Types, TypesMade DEF api, locals, TypeInv, TypeOK

LEMMA FindTypes ==
    ASSUME TypeInv, NEW h \in Handlers, Busy(h), Find(h), machine' = machine, good' = good
    PROVE  TypeInv'
<1> DEFINE S == {p \in Pids : finds /\ Alive(p) /\ \A q \in Pids : Alive(q) => p <= q}
<1>1. Kill(S) /\ Then(h, <<>>) /\ UNCHANGED <<api, locals, events>> /\ Head1(h) = "find"
  BY DEF Find, At
<1> HIDE DEF S
<1>2. /\ procs' \in [Pids -> ProcType] /\ port' \in Pids \cup {0}
      /\ \A p \in Pids : procs'[p] # NoProc <=> procs'[p].st # "none"
  BY <1>1, KillKeeps
<1>3. /\ todo' \in [Handlers -> Seq(Steps)] /\ Legal(todo'[h])
      /\ \A g \in Handlers \ {h} : todo'[g] = todo[g]
      /\ <<Head1(h), First(todo'[h])>> \in Follow
  BY <1>1, Goes1
<1>4. cur[h] \in Ctls /\ ctl \in Ctls /\ Head(todo[h]) \in Steps /\ Head(todo[h])[1] = "find"
  BY <1>1, AtWork DEF Methods, Head1
<1>5. ctls' \in [Ctls -> CtlType]
  <2>1. Head(todo[h])[2] \in Servers
    BY <1>4, StepParts
  <2>2. ctls' = [ctls EXCEPT ![cur[h]].Addr = IF Head(todo[h])[2] = None THEN @
                                              ELSE Head(todo[h])[2]]
    BY DEF Find
  <2>3. ctls \in [Ctls -> CtlType]
    BY Types
  <2> QED
    BY <2>1, <2>2, <2>3 DEF CtlType
<1>6. PlanInv'
  BY <1>1, <1>2, <1>3, <1>4, PlansKept DEF api, locals, TypeInv, PlanInv
<1> QED
  BY <1>1, <1>2, <1>5, <1>6, Types, TypesMade DEF api, locals, TypeInv, TypeOK

LEMMA ExecTypes ==
    ASSUME TypeInv, NEW h \in Handlers, Busy(h), Exec(h), machine' = machine, good' = good
    PROVE  TypeInv'
<1>1. Then(h, <<>>) /\ UNCHANGED <<port, ctls, api, cur, events>> /\ Head1(h) = "exec"
  BY DEF Exec, At
<1>2. cur[h] \in Ctls /\ ctl \in Ctls
  BY <1>1, AtWork DEF Methods
<1>3. /\ todo' \in [Handlers -> Seq(Steps)] /\ Legal(todo'[h])
      /\ \A g \in Handlers \ {h} : todo'[g] = todo[g]
      /\ <<Head1(h), First(todo'[h])>> \in Follow
  BY <1>1, Goes1
<1>4. PICK p \in Pids : /\ procs' = [procs EXCEPT ![p] = [host |-> Do(h).Addr, st |-> "init"]]
                        /\ fresh' = [fresh EXCEPT ![h] = p]
  BY DEF Exec
<1>5. /\ procs' \in [Pids -> ProcType] /\ fresh' \in [Handlers -> Pids \cup {0}]
      /\ \A q \in Pids : procs'[q] # NoProc <=> procs'[q].st # "none"
  <2>1. Do(h).Addr \in Servers
    BY <1>2, Types DEF Do, CtlType
  <2> DEFINE r == [host |-> Do(h).Addr, st |-> "init"]
  <2>2. r \in ProcType /\ r.st = "init" /\ r # NoProc
    BY <2>1 DEF ProcType, States, NoProc
  <2> HIDE DEF r
  <2>3. procs' = [procs EXCEPT ![p] = r]
    BY <1>4 DEF r
  <2> QED
    BY <1>4, <2>2, <2>3, Types
<1>6. PlanInv'
  BY <1>1, <1>2, <1>3, <1>5, PlansKept DEF api, TypeInv, PlanInv
<1> QED
  BY <1>1, <1>5, <1>6, Types, TypesMade DEF api, TypeInv, TypeOK

LEMMA NoteTypes ==
    ASSUME TypeInv, NEW h \in Handlers, Busy(h), Note(h), machine' = machine, good' = good
    PROVE  TypeInv'
<1>1. Then(h, <<>>) /\ UNCHANGED <<children, api, cur, events>> /\ Head1(h) = "note"
  BY DEF Note, At
<1>2. cur[h] \in Ctls /\ ctl \in Ctls
  BY <1>1, AtWork DEF Methods
<1>3. /\ todo' \in [Handlers -> Seq(Steps)] /\ Legal(todo'[h])
      /\ \A g \in Handlers \ {h} : todo'[g] = todo[g]
      /\ <<Head1(h), First(todo'[h])>> \in Follow
  BY <1>1, Goes1
<1>4. ctls' \in [Ctls -> CtlType] /\ fresh' \in [Handlers -> Pids \cup {0}]
  BY Types DEF Note, CtlType
<1>5. PlanInv'
  BY <1>1, <1>2, <1>3, Types, PlansKept DEF children, api, TypeInv, PlanInv
<1> QED
  BY <1>1, <1>4, <1>5, Types, TypesMade DEF children, api, TypeInv, TypeOK

LEMMA CheckTypes ==
    ASSUME TypeInv, NEW h \in Handlers, Busy(h), CheckRoute(h), machine' = machine, good' = good
    PROVE  TypeInv'
<1>1. Then(h, <<>>) /\ UNCHANGED <<children, api, fresh, events>> /\ Head1(h) = "check"
  BY DEF CheckRoute, At
<1>2. cur[h] \in Ctls /\ ctl \in Ctls
  BY <1>1, AtWork DEF Methods
<1>3. /\ todo' \in [Handlers -> Seq(Steps)] /\ Legal(todo'[h])
      /\ \A g \in Handlers \ {h} : todo'[g] = todo[g]
      /\ <<Head1(h), First(todo'[h])>> \in Follow
  BY <1>1, Goes1
<1>4. /\ cur' = [cur EXCEPT ![h] = 0] /\ cur' \in [Handlers -> Ctls \cup {0}]
      /\ \A g \in Handlers \ {h} : cur'[g] = cur[g]
  BY Types DEF CheckRoute
<1>5. ctls' \in [Ctls -> CtlType]
  <2>1. PICK seen \in Answers(Do(h).Addr, procs) :
          ctls' = [ctls EXCEPT ![cur[h]].running = @ \/ seen]
    BY DEF CheckRoute
  <2>2. (ctls[cur[h]].running \/ seen) \in BOOLEAN /\ ctls \in [Ctls -> CtlType]
    BY Types
  <2> QED
    BY <2>1, <2>2 DEF CtlType
<1>6. First(todo'[h]) \notin Methods
  BY <1>1, <1>3 DEF Follow, Methods
<1>7. PlanInv'
  BY <1>1, <1>2, <1>3, <1>4, <1>6, Types, PlansKept DEF children, api, TypeInv, PlanInv
<1> QED
  BY <1>1, <1>4, <1>5, <1>7, Types, TypesMade DEF children, api, TypeInv, TypeOK

LEMMA SaveTypes ==
    ASSUME TypeInv, NEW h \in Handlers, Busy(h), Save(h), machine' = machine, good' = good
    PROVE  TypeInv'
<1>1. Then(h, <<>>) /\ UNCHANGED <<children, ctls, ctl, routes, last, locals, events>>
      /\ Head1(h) = "save"
  BY DEF Save, At
<1>2. ctl \in Ctls /\ Head(todo[h]) \in Steps /\ Head(todo[h])[1] = "save"
  BY <1>1, AtWork DEF Head1
<1>3. /\ todo' \in [Handlers -> Seq(Steps)] /\ Legal(todo'[h])
      /\ \A g \in Handlers \ {h} : todo'[g] = todo[g]
      /\ <<Head1(h), First(todo'[h])>> \in Follow
  BY <1>1, Goes1
<1>4. saved' \in Servers
  BY <1>2, StepParts DEF Save
<1>5. First(todo'[h]) \notin Methods
  BY <1>1, <1>3 DEF Follow, Methods
<1>6. PlanInv'
  BY <1>1, <1>2, <1>3, <1>5, Types, PlansKept DEF children, locals, TypeInv, PlanInv
<1> QED
  BY <1>1, <1>4, <1>6, Types, TypesMade DEF children, locals, TypeInv, TypeOK

LEMMA OnlyEndIsEmpty ==
    ASSUME NEW s \in Seq(Steps), First(s) = "end" PROVE s = <<>>
<1>1. CASE s # <<>>
  <2>1. s[1] \in Steps
    BY <1>1, Rest
  <2> QED
    BY <1>1, <2>1, StepParts DEF First, Methods
<1> QED
  BY <1>1

\* The servers of the list.
LEMMA ListedAre ==
    ASSUME TypeInv
    PROVE  /\ routes # <<>> => routes \in Seq(Hosts) /\ routes[1] \in Hosts
           /\ \A x \in ToSet(routes) : x \in Hosts
           /\ \A list \in Lists : list # <<>> /\ \A x \in ToSet(list) : x \in Hosts
           /\ Hosts \subseteq Servers /\ None \in Servers
<1>1. ASSUME NEW list \in Seq(Hosts), NEW x \in ToSet(list) PROVE x \in Hosts
  <2>1. PICK i \in DOMAIN list : x = list[i]
    BY DEF ToSet
  <2>2. i \in 1 .. Len(list)
    BY <2>1, LenProperties
  <2> QED
    BY <2>1, <2>2, ElementOfSeq
<1>2. routes \in Seq(Hosts) /\ \A list \in Lists : list \in Seq(Hosts) /\ list # <<>>
  <2>1. Lists \subseteq Seq(Hosts) \ {<<>>}
    BY ListsAssumption
  <2>2. <<>> \in Seq(Hosts)
    OBVIOUS
  <2> QED
    BY <2>1, <2>2, Types, Zenon
<1>3. routes # <<>> => routes[1] \in Hosts
  BY <1>2, Rest
<1> QED
  BY <1>1, <1>2, <1>3 DEF Servers

\* A new plan in place of the first step.
LEMMA ChangePlanned ==
    ASSUME TypeInv, NEW h \in Handlers, Busy(h), Head1(h) \in {"change", "changeNext"},
           NEW x \in Servers, Then(h, ChangeRoute(x))
    PROVE  /\ todo' \in [Handlers -> Seq(Steps)]
           /\ todo'[h] = ChangeRoute(x) \o Tail(todo[h])
           /\ Legal(todo'[h]) /\ First(todo'[h]) = "closeOld"
           /\ \A g \in Handlers \ {h} : todo'[g] = todo[g]
<1>1. /\ Tail(todo[h]) \in Seq(Steps) /\ Legal(Tail(todo[h]))
      /\ <<Head1(h), First(Tail(todo[h]))>> \in Follow
  BY AtWork, Rest, LegalTail
<1>2. <<"check", First(Tail(todo[h]))>> \in Follow
  BY <1>1 DEF Follow
<1>3. /\ ChangeRoute(x) \in Seq(Steps) /\ Legal(ChangeRoute(x) \o Tail(todo[h]))
      /\ First(ChangeRoute(x) \o Tail(todo[h])) = "closeOld"
  BY <1>1, <1>2, RoutesLegal, RoutePlans
<1> HIDE DEF Then
<1>4. /\ todo' \in [Handlers -> Seq(Steps)]
      /\ todo'[h] = ChangeRoute(x) \o Tail(todo[h])
      /\ Legal(todo'[h]) /\ \A g \in Handlers \ {h} : todo'[g] = todo[g]
  BY <1>3, Goes
<1> QED
  BY <1>3, <1>4

LEMMA LoadTypes ==
    ASSUME TypeInv, NEW h \in Handlers, Busy(h), Load(h), machine' = machine, good' = good
    PROVE  TypeInv'
<1>1. /\ UNCHANGED <<children, ctls, ctl, routes, saved, fresh, events>>
      /\ Head1(h) = "change" /\ cur' = [cur EXCEPT ![h] = ctl]
      /\ Then(h, ChangeRoute(last'))
  BY DEF Load, At
<1>2. last' \in Servers
  <2>1. Head(todo[h])[2] \in Servers
    BY <1>1, AtWork, StepParts DEF Head1
  <2> QED
    BY <2>1, Types DEF Load
<1>3. /\ todo' \in [Handlers -> Seq(Steps)] /\ Legal(todo'[h])
      /\ \A g \in Handlers \ {h} : todo'[g] = todo[g]
  BY <1>1, <1>2, ChangePlanned
<1>4. ctl \in Ctls /\ cur' \in [Handlers -> Ctls \cup {0}] /\ cur'[h] = ctl
      /\ \A g \in Handlers \ {h} : cur'[g] = cur[g]
  BY <1>1, AtWork, Types
<1>5. PlanInv'
  BY <1>1, <1>3, <1>4, Types, PlansKept DEF children, TypeInv, PlanInv
<1> QED
  BY <1>1, <1>2, <1>4, <1>5, Types, TypesMade DEF children, TypeInv, TypeOK

LEMMA LoadNextTypes ==
    ASSUME TypeInv, NEW h \in Handlers, Busy(h), LoadNext(h), machine' = machine, good' = good
    PROVE  TypeInv'
<1>1. /\ UNCHANGED <<children, ctls, api, fresh, events>>
      /\ Head1(h) = "changeNext" /\ cur' = [cur EXCEPT ![h] = ctl]
      /\ Then(h, ChangeRoute(Head(todo[h])[2]))
  BY DEF LoadNext, At
<1>2. Head(todo[h])[2] \in Servers
  BY <1>1, AtWork, StepParts DEF Head1
<1>3. /\ todo' \in [Handlers -> Seq(Steps)] /\ Legal(todo'[h])
      /\ \A g \in Handlers \ {h} : todo'[g] = todo[g]
  BY <1>1, <1>2, ChangePlanned
<1>4. ctl \in Ctls /\ cur' \in [Handlers -> Ctls \cup {0}] /\ cur'[h] = ctl
      /\ \A g \in Handlers \ {h} : cur'[g] = cur[g]
  BY <1>1, AtWork, Types
<1>5. PlanInv'
  BY <1>1, <1>3, <1>4, Types, PlansKept DEF children, api, TypeInv, PlanInv
<1> QED
  BY <1>1, <1>2, <1>4, <1>5, Types, TypesMade DEF children, api, TypeInv, TypeOK

\* The plan that asks for the next route becomes one that saves and changes.
LEMMA NextPlanned ==
    ASSUME TypeInv, NEW h \in Handlers, Busy(h), Next1(h)
    PROVE  /\ todo' \in [Handlers -> Seq(Steps)] /\ Legal(todo'[h])
           /\ \E x \in Hosts : todo'[h] = << <<"save", x>>, <<"changeNext", x>> >>
           /\ First(todo'[h]) = "save"
           /\ \A g \in Handlers \ {h} : todo'[g] = todo[g]
<1>1. Head1(h) = "next"
  BY DEF Next1, At
<1> DEFINE now == IF Head(todo[h])[2] = None THEN ctls[ctl].Addr ELSE Head(todo[h])[2]
           oo == NextRoute(routes, now)
           p == << <<"save", oo>>, <<"changeNext", oo>> >>
<1>2. Then(h, p)
  BY DEF Next1
<1>3. oo \in Hosts /\ oo \in Servers
  <2>1. routes # <<>>
    BY AtWork DEF TypeInv, PlanInv
  <2> QED
    BY <2>1, ListedAre, NextIsListed
<1>4. Tail(todo[h]) = <<>>
  <2>1. /\ Tail(todo[h]) \in Seq(Steps) /\ <<Head1(h), First(Tail(todo[h]))>> \in Follow
    BY AtWork, Rest, LegalTail
  <2>2. First(Tail(todo[h])) = "end"
    BY <1>1, <2>1 DEF Follow
  <2> QED
    BY <2>1, <2>2, OnlyEndIsEmpty
<1>5. p \in Seq(Steps) /\ Legal(p) /\ First(p) = "save"
  BY <1>3, EndsLegal
<1>6. p \o Tail(todo[h]) = p
  BY <1>4, <1>5, ConcatEmptySeq
<1>7. p = << <<"save", oo>>, <<"changeNext", oo>> >>
  OBVIOUS
<1> HIDE DEF p, oo
<1>8. /\ todo' \in [Handlers -> Seq(Steps)] /\ todo'[h] = p /\ Legal(todo'[h])
      /\ \A g \in Handlers \ {h} : todo'[g] = todo[g]
  BY <1>2, <1>5, <1>6, Goes
<1> QED
  BY <1>3, <1>5, <1>7, <1>8

LEMMA NextTypes ==
    ASSUME TypeInv, NEW h \in Handlers, Busy(h), Next1(h), machine' = machine, good' = good
    PROVE  TypeInv'
<1>1. UNCHANGED <<children, ctls, api, locals, events>>
  BY DEF Next1
<1>2. /\ todo' \in [Handlers -> Seq(Steps)] /\ Legal(todo'[h]) /\ First(todo'[h]) = "save"
      /\ \A g \in Handlers \ {h} : todo'[g] = todo[g]
  BY NextPlanned
<1>3. ctl \in Ctls
  BY AtWork
<1>4. PlanInv'
  BY <1>1, <1>2, <1>3, Types, PlansKept DEF children, api, locals, TypeInv, PlanInv, Methods
<1> QED
  BY <1>1, <1>4, Types, TypesMade DEF children, api, locals, TypeInv, TypeOK

\* A new ClientControl.
LEMMA NewMakes ==
    ASSUME TypeInv, NEW h \in Handlers, NEW host \in Servers, New(h, host)
    PROVE  /\ ctls' \in [Ctls -> CtlType] /\ ctl' \in Ctls
           /\ ctls'[ctl'].Addr = host
           /\ cur' \in [Handlers -> Ctls \cup {0}] /\ cur'[h] = ctl'
           /\ \A g \in Handlers \ {h} : cur'[g] = cur[g]
<1> DEFINE used == {cur[b] : b \in Handlers \ {h}}
<1>1. PICK c \in Ctls :
        /\ ctls' = [d \in Ctls |->
                      CASE d = c -> [NoCtl EXCEPT !.Addr = host]
                        [] d # c /\ d = ctl /\ d \notin used -> NoCtl
                        [] OTHER -> ctls[d]]
        /\ ctl' = c /\ cur' = [cur EXCEPT ![h] = c]
  BY DEF New
<1>2. NoCtl \in CtlType /\ [NoCtl EXCEPT !.Addr = host] \in CtlType
      /\ [NoCtl EXCEPT !.Addr = host].Addr = host
  BY DEF NoCtl, CtlType, Servers
<1> HIDE DEF used
<1>3. ctls' \in [Ctls -> CtlType] /\ ctls'[c] = [NoCtl EXCEPT !.Addr = host]
  BY <1>1, <1>2, Types
<1>4. cur' \in [Handlers -> Ctls \cup {0}] /\ cur'[h] = c
      /\ \A g \in Handlers \ {h} : cur'[g] = cur[g]
  BY <1>1, Types
<1> QED
  BY <1>1, <1>2, <1>3, <1>4

LEMMA RenewTypes ==
    ASSUME TypeInv, NEW h \in Handlers, Busy(h), Renew(h), machine' = machine, good' = good
    PROVE  TypeInv'
<1>1. /\ Then(h, <<>>) /\ New(h, Head(todo[h])[2]) /\ Head1(h) = "renew"
      /\ UNCHANGED <<children, routes, last, saved, fresh, events>>
  BY DEF Renew, At
<1>2. Head(todo[h])[2] \in Servers /\ ctl \in Ctls
  BY <1>1, AtWork, StepParts DEF Head1
<1>3. /\ ctls' \in [Ctls -> CtlType] /\ ctl' \in Ctls
      /\ cur' \in [Handlers -> Ctls \cup {0}] /\ cur'[h] = ctl'
      /\ \A g \in Handlers \ {h} : cur'[g] = cur[g]
  BY <1>1, <1>2, NewMakes
<1>4. /\ todo' \in [Handlers -> Seq(Steps)] /\ Legal(todo'[h])
      /\ \A g \in Handlers \ {h} : todo'[g] = todo[g]
  BY <1>1, Goes1
<1>5. PlanInv'
  BY <1>1, <1>2, <1>3, <1>4, Types, PlansKept DEF children, TypeInv, PlanInv
<1> QED
  BY <1>1, <1>3, <1>5, Types, TypesMade DEF children, TypeInv, TypeOK

-----------------------------------------------------------------------------
(* The plans with which requests begin.                                     *)

LEMMA RequestPlans ==
    /\ StartRoute \in Seq(Steps) /\ Legal(StartRoute) /\ First(StartRoute) = "find"
    /\ \A x \in Servers :
         LET s == StartRoute \o << <<"save", x>> >>
         IN  s \in Seq(Steps) /\ Legal(s) /\ First(s) = "find"
    /\ \A x, y \in Servers :
         LET s == TryClose \o << <<"change", x>>, <<"save", y>> >>
         IN  s \in Seq(Steps) /\ Legal(s) /\ First(s) = "close"
    /\ \A k \in {"change", "next"}, x \in Servers :
         LET s == TryClose \o << <<k, x>> >>
         IN  s \in Seq(Steps) /\ Legal(s) /\ First(s) = "close"
<1>1. StartRoute \in Seq(Steps) /\ Legal(StartRoute) /\ First(StartRoute) = "find"
  <2>1. /\ Legal(StartRoute \o <<>>) /\ First(StartRoute \o <<>>) = "find"
    BY EndsLegal, RoutesLegal DEF Follow
  <2>2. StartRoute \in Seq(Steps) /\ StartRoute \o <<>> = StartRoute
    BY RoutePlans, ConcatEmptySeq
  <2> QED
    BY <2>1, <2>2
<1>2. ASSUME NEW x \in Servers
      PROVE  LET s == StartRoute \o << <<"save", x>> >>
             IN  s \in Seq(Steps) /\ Legal(s) /\ First(s) = "find"
  <2> DEFINE e == << <<"save", x>> >>
  <2>1. e \in Seq(Steps) /\ Legal(e) /\ First(e) = "save"
    BY EndsLegal
  <2> HIDE DEF e
  <2>2. <<"check", First(e)>> \in Follow
    BY <2>1 DEF Follow
  <2>3. StartRoute \o e \in Seq(Steps) /\ Legal(StartRoute \o e)
        /\ First(StartRoute \o e) = "find"
    BY <2>1, <2>2, RoutesLegal
  <2> QED
    BY <2>3 DEF e
<1>3. ASSUME NEW x \in Servers, NEW y \in Servers
      PROVE  LET s == TryClose \o << <<"change", x>>, <<"save", y>> >>
             IN  s \in Seq(Steps) /\ Legal(s) /\ First(s) = "close"
  <2> DEFINE e == << <<"change", x>>, <<"save", y>> >>
  <2>1. e \in Seq(Steps) /\ Legal(e) /\ First(e) = "change"
    BY EndsLegal
  <2> HIDE DEF e
  <2>2. TryClose \o e \in Seq(Steps) /\ Legal(TryClose \o e) /\ First(TryClose \o e) = "close"
    BY <2>1, ClosesLegal
  <2> QED
    BY <2>2 DEF e
<1>4. ASSUME NEW k \in {"change", "next"}, NEW x \in Servers
      PROVE  LET s == TryClose \o << <<k, x>> >>
             IN  s \in Seq(Steps) /\ Legal(s) /\ First(s) = "close"
  <2> DEFINE e == << <<k, x>> >>
  <2>1. e \in Seq(Steps) /\ Legal(e) /\ First(e) = k
    BY EndsLegal
  <2> HIDE DEF e
  <2>2. TryClose \o e \in Seq(Steps) /\ Legal(TryClose \o e) /\ First(TryClose \o e) = "close"
    BY <2>1, ClosesLegal
  <2> QED
    BY <2>2 DEF e
<1> QED
  BY <1>1, <1>2, <1>3, <1>4

LEMMA Begins ==
    ASSUME TypeInv, NEW h \in Handlers, NEW s \in Seq(Steps), Begin(h, s)
    PROVE  /\ todo' \in [Handlers -> Seq(Steps)] /\ todo'[h] = s /\ ~Busy(h)
           /\ \A g \in Handlers \ {h} : todo'[g] = todo[g]
           /\ events' \in 0 .. MaxEvents
BY BoundsAssumption DEF TypeInv, TypeOK, PlanInv, Begin, Free

\* A request for a server starts or changes the route.
LEMMA SwitchHostTypes ==
    ASSUME TypeInv, NEW h \in Handlers, SwitchHost(h), machine' = machine, good' = good
    PROVE  /\ TypeInv' /\ ~Busy(h) /\ ctl' \in Ctls /\ cur'[h] = ctl'
           /\ todo'[h] # <<>> /\ \A g \in Handlers \ {h} : todo'[g] = todo[g]
           /\ \/ First(todo'[h]) = "find" /\ ctl = 0
              \/ First(todo'[h]) = "close" /\ ctl' = ctl /\ ctls' = ctls
<1>1. PICK host \in ToSet(routes) :
        \/ /\ ctl = 0 /\ New(h, host) /\ last' = host /\ saved' = host
           /\ Begin(h, StartRoute) /\ UNCHANGED routes
        \/ /\ ctl # 0 /\ cur' = [cur EXCEPT ![h] = ctl]
           /\ Begin(h, TryClose \o << <<"change", host>>, <<"save", host>> >>)
           /\ UNCHANGED <<ctls, api>>
  BY DEF SwitchHost
<1>2. routes # <<>> /\ UNCHANGED <<children, fresh>>
  BY DEF SwitchHost, Switchable
<1>3. host \in Servers
  BY ListedAre
<1>4. CASE /\ ctl = 0 /\ New(h, host) /\ last' = host /\ saved' = host
           /\ Begin(h, StartRoute) /\ UNCHANGED routes
  <2>1. /\ todo' \in [Handlers -> Seq(Steps)] /\ todo'[h] = StartRoute /\ ~Busy(h)
        /\ \A g \in Handlers \ {h} : todo'[g] = todo[g]
        /\ events' \in 0 .. MaxEvents /\ Legal(todo'[h]) /\ First(todo'[h]) = "find"
    BY <1>4, RequestPlans, Begins
  <2>2. /\ ctls' \in [Ctls -> CtlType] /\ ctl' \in Ctls
        /\ cur' \in [Handlers -> Ctls \cup {0}] /\ cur'[h] = ctl'
        /\ \A g \in Handlers \ {h} : cur'[g] = cur[g]
    BY <1>3, <1>4, NewMakes
  <2>3. PlanInv'
    BY <1>2, <1>4, <2>1, <2>2, Types, PlansKept DEF children
  <2>4. TypeInv'
    BY <1>2, <1>3, <1>4, <2>1, <2>2, <2>3, Types, TypesMade DEF children
  <2> QED
    BY <1>4, <2>1, <2>2, <2>4 DEF First
<1>5. CASE /\ ctl # 0 /\ cur' = [cur EXCEPT ![h] = ctl]
           /\ Begin(h, TryClose \o << <<"change", host>>, <<"save", host>> >>)
           /\ UNCHANGED <<ctls, api>>
  <2> DEFINE s == TryClose \o << <<"change", host>>, <<"save", host>> >>
  <2>1. s \in Seq(Steps) /\ Legal(s) /\ First(s) = "close" /\ Begin(h, s)
    BY <1>3, <1>5, RequestPlans
  <2> HIDE DEF s
  <2>2. /\ todo' \in [Handlers -> Seq(Steps)] /\ todo'[h] = s /\ ~Busy(h)
        /\ \A g \in Handlers \ {h} : todo'[g] = todo[g]
        /\ events' \in 0 .. MaxEvents
    BY <2>1, Begins
  <2>3. /\ cur' \in [Handlers -> Ctls \cup {0}] /\ cur'[h] = ctl /\ ctl \in Ctls
        /\ \A g \in Handlers \ {h} : cur'[g] = cur[g]
    BY <1>5, Types
  <2>4. PlanInv'
    BY <1>2, <1>5, <2>1, <2>2, <2>3, Types, PlansKept DEF children, api
  <2>5. TypeInv'
    BY <1>2, <1>5, <2>2, <2>3, <2>4, Types, TypesMade DEF children, api
  <2> QED
    BY <1>5, <2>1, <2>2, <2>3, <2>5 DEF First, api
<1> QED
  BY <1>1, <1>4, <1>5

LEMMA SwitchNextTypes ==
    ASSUME TypeInv, NEW h \in Handlers, SwitchNext(h), machine' = machine, good' = good
    PROVE  /\ TypeInv' /\ ~Busy(h) /\ ctl' \in Ctls /\ cur'[h] = ctl'
           /\ todo'[h] # <<>> /\ \A g \in Handlers \ {h} : todo'[g] = todo[g]
           /\ \/ First(todo'[h]) = "find" /\ ctl = 0
              \/ First(todo'[h]) = "close" /\ ctl' = ctl /\ ctls' = ctls
<1>1. routes # <<>> /\ UNCHANGED <<children, fresh>>
  BY DEF SwitchNext, Switchable
<1>2. routes[1] \in Servers /\ None \in Servers
  BY <1>1, ListedAre
<1>3. CASE /\ ctl = 0 /\ New(h, routes[1])
           /\ Begin(h, StartRoute \o << <<"save", routes[1]>> >>)
           /\ UNCHANGED <<routes, last, saved>>
  <2> DEFINE s == StartRoute \o << <<"save", routes[1]>> >>
  <2>1. s \in Seq(Steps) /\ Legal(s) /\ First(s) = "find" /\ Begin(h, s)
    BY <1>2, <1>3, RequestPlans
  <2> HIDE DEF s
  <2>2. /\ todo' \in [Handlers -> Seq(Steps)] /\ todo'[h] = s /\ ~Busy(h)
        /\ \A g \in Handlers \ {h} : todo'[g] = todo[g]
        /\ events' \in 0 .. MaxEvents
    BY <2>1, Begins
  <2>3. /\ ctls' \in [Ctls -> CtlType] /\ ctl' \in Ctls
        /\ cur' \in [Handlers -> Ctls \cup {0}] /\ cur'[h] = ctl'
        /\ \A g \in Handlers \ {h} : cur'[g] = cur[g]
    BY <1>2, <1>3, NewMakes
  <2>4. PlanInv'
    BY <1>1, <1>3, <2>1, <2>2, <2>3, Types, PlansKept DEF children
  <2>5. TypeInv'
    BY <1>1, <1>3, <2>2, <2>3, <2>4, Types, TypesMade DEF children
  <2> QED
    BY <1>3, <2>1, <2>2, <2>3, <2>5 DEF First
<1>4. CASE /\ ctl # 0 /\ cur' = [cur EXCEPT ![h] = ctl]
           /\ Begin(h, TryClose \o << <<"next", None>> >>)
           /\ UNCHANGED <<ctls, api>>
  <2> DEFINE s == TryClose \o << <<"next", None>> >>
  <2>1. s \in Seq(Steps) /\ Legal(s) /\ First(s) = "close" /\ Begin(h, s)
    BY <1>2, <1>4, RequestPlans
  <2> HIDE DEF s
  <2>2. /\ todo' \in [Handlers -> Seq(Steps)] /\ todo'[h] = s /\ ~Busy(h)
        /\ \A g \in Handlers \ {h} : todo'[g] = todo[g]
        /\ events' \in 0 .. MaxEvents
    BY <2>1, Begins
  <2>3. /\ cur' \in [Handlers -> Ctls \cup {0}] /\ cur'[h] = ctl /\ ctl \in Ctls
        /\ \A g \in Handlers \ {h} : cur'[g] = cur[g]
    BY <1>4, Types
  <2>4. PlanInv'
    BY <1>1, <1>4, <2>1, <2>2, <2>3, Types, PlansKept DEF children, api
  <2>5. TypeInv'
    BY <1>1, <1>4, <2>2, <2>3, <2>4, Types, TypesMade DEF children, api
  <2> QED
    BY <1>4, <2>1, <2>2, <2>3, <2>5 DEF First, api
<1> QED
  BY <1>3, <1>4 DEF SwitchNext

\* A login that knows its server starts or changes the route; another one only
\* replaces the list.
LEMMA LogInTypes ==
    ASSUME TypeInv, NEW h \in Handlers, LogIn(h), machine' = machine, good' = good
    PROVE  /\ TypeInv' /\ ~Busy(h)
           /\ \A g \in Handlers \ {h} : todo'[g] = todo[g]
           /\ \/ todo'[h] = <<>> /\ ctl' = ctl /\ ctls' = ctls /\ cur' = cur
              \/ /\ todo'[h] # <<>> /\ ctl' \in Ctls /\ cur'[h] = ctl'
                 /\ \/ First(todo'[h]) = "find" /\ ctl = 0
                    \/ First(todo'[h]) = "close" /\ ctl' = ctl /\ ctls' = ctls
<1>1. UNCHANGED <<children, fresh>>
  BY DEF LogIn
<1>2. PICK list \in Lists, field \in Hosts \cup {None} :
         LET use == IF field = None THEN last ELSE field
             known == use \in ToSet(list)
         IN  /\ routes' = list /\ last' = use /\ saved' = field
             /\ CASE ~known -> Begin(h, <<>>) /\ UNCHANGED <<ctls, ctl, cur>>
                  [] known /\ ctl = 0 -> New(h, use) /\ Begin(h, StartRoute)
                  [] known /\ ctl # 0 ->
                       /\ cur' = [cur EXCEPT ![h] = ctl] /\ UNCHANGED <<ctls, ctl>>
                       /\ Begin(h, TryClose \o << <<"change", None>> >>)
  BY DEF LogIn
<1> DEFINE use == IF field = None THEN last ELSE field
           known == use \in ToSet(list)
<1>3. list # <<>> /\ use \in Servers /\ field \in Servers /\ None \in Servers
  BY Types, ListedAre DEF Servers
<1>4. routes' \in Lists \cup {<<>>} /\ routes' # <<>> /\ last' \in Servers /\ saved' \in Servers
  BY <1>2, <1>3
<1>5. CASE ~known
  <2>1. Begin(h, <<>>) /\ UNCHANGED <<ctls, ctl, cur>>
    BY <1>2, <1>5
  <2>2. /\ todo' \in [Handlers -> Seq(Steps)] /\ todo'[h] = <<>> /\ ~Busy(h)
        /\ \A g \in Handlers \ {h} : todo'[g] = todo[g]
        /\ events' \in 0 .. MaxEvents
    BY <2>1, EndsLegal, Begins
  <2>3. PlanInv'
    BY <1>1, <1>4, <2>1, <2>2, EndsLegal, Types, PlansKept, SMTT(30) DEF children, Methods
  <2>4. TypeInv'
    BY <1>1, <1>4, <2>1, <2>2, <2>3, Types, TypesMade DEF children
  <2> QED
    BY <2>1, <2>2, <2>4
<1>6. CASE known /\ ctl = 0
  <2>1. New(h, use) /\ Begin(h, StartRoute)
    BY <1>2, <1>6
  <2>2. /\ todo' \in [Handlers -> Seq(Steps)] /\ todo'[h] = StartRoute /\ ~Busy(h)
        /\ \A g \in Handlers \ {h} : todo'[g] = todo[g]
        /\ events' \in 0 .. MaxEvents /\ Legal(todo'[h]) /\ First(todo'[h]) = "find"
    BY <2>1, RequestPlans, Begins
  <2>3. /\ ctls' \in [Ctls -> CtlType] /\ ctl' \in Ctls
        /\ cur' \in [Handlers -> Ctls \cup {0}] /\ cur'[h] = ctl'
        /\ \A g \in Handlers \ {h} : cur'[g] = cur[g]
    BY <1>3, <2>1, NewMakes
  <2>4. PlanInv'
    BY <1>1, <1>4, <2>2, <2>3, Types, PlansKept DEF children
  <2>5. TypeInv'
    BY <1>1, <1>4, <2>2, <2>3, <2>4, Types, TypesMade DEF children
  <2> QED
    BY <1>6, <2>2, <2>3, <2>5 DEF First
<1>7. CASE known /\ ctl # 0
  <2> DEFINE s == TryClose \o << <<"change", None>> >>
  <2>1. /\ cur' = [cur EXCEPT ![h] = ctl] /\ UNCHANGED <<ctls, ctl>> /\ Begin(h, s)
    BY <1>2, <1>7
  <2>2. s \in Seq(Steps) /\ Legal(s) /\ First(s) = "close"
    BY <1>3, RequestPlans
  <2> HIDE DEF s
  <2>3. /\ todo' \in [Handlers -> Seq(Steps)] /\ todo'[h] = s /\ ~Busy(h)
        /\ \A g \in Handlers \ {h} : todo'[g] = todo[g]
        /\ events' \in 0 .. MaxEvents
    BY <2>1, <2>2, Begins
  <2>4. /\ cur' \in [Handlers -> Ctls \cup {0}] /\ cur'[h] = ctl /\ ctl \in Ctls
        /\ \A g \in Handlers \ {h} : cur'[g] = cur[g]
    BY <1>7, <2>1, Types
  <2>5. PlanInv'
    BY <1>1, <1>4, <2>1, <2>2, <2>3, <2>4, Types, PlansKept DEF children
  <2>6. TypeInv'
    BY <1>1, <1>4, <2>1, <2>3, <2>4, <2>5, Types, TypesMade DEF children
  <2> QED
    BY <2>1, <2>2, <2>3, <2>4, <2>6 DEF First
<1> QED
  BY <1>5, <1>6, <1>7

LEMMA ReportTypes ==
    ASSUME TypeInv, NEW h \in Handlers, Report(h), machine' = machine, good' = good
    PROVE  /\ TypeInv' /\ ~Busy(h) /\ ctl' \in Ctls /\ cur'[h] = ctl'
           /\ todo'[h] # <<>> /\ \A g \in Handlers \ {h} : todo'[g] = todo[g]
           /\ First(todo'[h]) = "close" /\ ctl' = ctl /\ ctls' = ctls
           /\ \E p \in Pids : procs[p].st = "failed" /\ procs' = [procs EXCEPT ![p].st = "posted"]
<1>1. /\ ctl # 0 /\ cur' = [cur EXCEPT ![h] = ctl]
      /\ UNCHANGED <<port, ctls, api, fresh>>
  BY DEF Report
<1>2. PICK p \in Pids : procs[p].st = "failed" /\ procs' = [procs EXCEPT ![p].st = "posted"]
  BY DEF Report
<1> DEFINE now == ctls[ctl].Addr
           s == TryClose \o << <<"renew", now>> >> \o StartRoute
                  \o << <<"save", now>>, <<"next", now>> >>
<1>3. ctl \in Ctls /\ now \in Servers
  BY <1>1, Types DEF CtlType
<1>4. s \in Seq(Steps) /\ Legal(s) /\ First(s) = "close"
  BY <1>3, ReportLegal
<1>5. Begin(h, s)
  BY DEF Report
<1> HIDE DEF s
<1>6. /\ todo' \in [Handlers -> Seq(Steps)] /\ todo'[h] = s /\ ~Busy(h)
      /\ \A g \in Handlers \ {h} : todo'[g] = todo[g]
      /\ events' \in 0 .. MaxEvents
  BY <1>4, <1>5, Begins
<1>7. /\ cur' \in [Handlers -> Ctls \cup {0}] /\ cur'[h] = ctl
      /\ \A g \in Handlers \ {h} : cur'[g] = cur[g]
  BY <1>1, <1>3, Types
<1>8. /\ procs' \in [Pids -> ProcType]
      /\ \A q \in Pids : procs'[q] # NoProc <=> procs'[q].st # "none"
  <2>1. procs \in [Pids -> ProcType]
    BY Types
  <2>2. procs' \in [Pids -> ProcType]
    BY <1>2, <2>1 DEF ProcType, States
  <2>3. ASSUME NEW q \in Pids PROVE procs'[q] # NoProc <=> procs'[q].st # "none"
    BY <1>2, <2>1, Types DEF NoProc
  <2> QED
    BY <2>2, <2>3
<1>9. PlanInv'
  BY <1>1, <1>3, <1>4, <1>6, <1>7, <1>8, PlansKept DEF api, TypeInv, PlanInv
<1>10. TypeInv'
  BY <1>1, <1>3, <1>6, <1>7, <1>8, <1>9, Types, TypesMade DEF api
<1> QED
  BY <1>1, <1>2, <1>3, <1>4, <1>6, <1>7, <1>10 DEF First, api

\* A child that goes on, or ends.
LEMMA MoveTypes ==
    ASSUME TypeInv, NEW p \in Pids, NEW from \in States \ {"none"}, NEW to \in States \ {"none"},
           Move(p, from, to), port' \in Pids \cup {0}, machine' = machine, good' = good
    PROVE  /\ TypeInv'
           /\ \A q \in Pids : procs'[q].host = procs[q].host
           /\ \A q \in Pids : (procs'[q] # NoProc) <=> (procs[q] # NoProc)
           /\ procs'[p].st = to /\ procs[p].st = from
           /\ \A q \in Pids \ {p} : procs'[q] = procs[q]
<1>1. /\ procs[p].st = from /\ procs' = [procs EXCEPT ![p].st = to]
      /\ UNCHANGED <<ctls, api, todo, locals, events>>
  BY DEF Move
<1>2. procs \in [Pids -> ProcType]
  BY Types
<1>3. procs' \in [Pids -> ProcType]
  BY <1>1, <1>2 DEF ProcType
<1>4. /\ \A q \in Pids \ {p} : procs'[q] = procs[q]
      /\ procs'[p].st = to /\ procs'[p].host = procs[p].host
  BY <1>1, <1>2 DEF ProcType
<1>5. procs'[p] # NoProc /\ procs[p] # NoProc
  BY <1>1, <1>4 DEF NoProc
<1>6. \A q \in Pids : procs'[q] # NoProc <=> procs'[q].st # "none"
  BY <1>4, <1>5, Types
<1>7. PlanInv'
  BY <1>1, <1>6 DEF TypeInv, PlanInv, api, locals, Busy, Alive
<1>8. TypeInv'
  BY <1>1, <1>3, <1>7, Types, TypesMade DEF api, locals, TypeInv, TypeOK
<1> QED
  BY <1>1, <1>4, <1>5, <1>8

LEMMA KilledTypes ==
    ASSUME TypeInv, NEW p \in Pids, Exit(p) \/ Dies(p), machine' = machine, good' = good
    PROVE  /\ TypeInv' /\ Kill({p}) /\ UNCHANGED <<ctls, api, todo, locals>>
<1>1. /\ Kill({p}) /\ UNCHANGED <<ctls, api, todo, locals>> /\ events' \in 0 .. MaxEvents
  BY BoundsAssumption DEF Exit, Dies, TypeInv, TypeOK
<1>2. /\ procs' \in [Pids -> ProcType] /\ port' \in Pids \cup {0}
      /\ \A q \in Pids : procs'[q] # NoProc <=> procs'[q].st # "none"
  BY <1>1, KillKeeps
<1>3. PlanInv'
  BY <1>1, <1>2 DEF TypeInv, PlanInv, api, locals, Busy, Alive
<1> QED
  BY <1>1, <1>2, <1>3, Types, TypesMade DEF api, locals

LEMMA ListTypes ==
    ASSUME TypeInv, FirewallSave \/ Relist, machine' = machine, good' = good
    PROVE  /\ TypeInv' /\ UNCHANGED <<children, ctls, ctl, last, todo, locals>>
<1>1. /\ UNCHANGED <<children, ctls, ctl, last, todo, locals>>
      /\ events' \in 0 .. MaxEvents
  BY BoundsAssumption DEF FirewallSave, Relist, TypeInv, TypeOK
<1>2. routes' \in Lists \cup {<<>>} /\ saved' \in Servers /\ routes' # <<>>
  BY Types, ListedAre DEF FirewallSave, Relist
<1>3. PlanInv'
  BY <1>1, <1>2 DEF TypeInv, PlanInv, children, locals, Busy, Alive
<1> QED
  BY <1>1, <1>2, <1>3, Types, TypesMade DEF children, locals

\* What a child that does not end does.
LEMMA ChildTypes ==
    ASSUME TypeInv, NEW p \in Pids, Built(p) \/ Fails(p) \/ Bind(p),
           machine' = machine, good' = good
    PROVE  /\ TypeInv' /\ UNCHANGED <<ctls, api, todo, locals>>
           /\ \A q \in Pids : procs'[q].host = procs[q].host
           /\ \A q \in Pids : (procs'[q] # NoProc) <=> (procs[q] # NoProc)
           /\ procs'[p].st # "posted" /\ procs[p].st # "posted"
           /\ \A q \in Pids \ {p} : procs'[q] = procs[q]
<1>1. /\ "init" \in States \ {"none"} /\ "bind" \in States \ {"none"}
      /\ "up" \in States \ {"none"} /\ "failed" \in States \ {"none"}
  BY DEF States
<1>2. CASE Built(p)
  <2>1. Move(p, "init", "bind") /\ port' = port
    BY <1>2 DEF Built
  <2>2. port' \in Pids \cup {0}
    BY <2>1, Types
  <2>3. UNCHANGED <<ctls, api, todo, locals>>
    BY <2>1 DEF Move
  <2>4. /\ TypeInv'
        /\ \A q \in Pids : procs'[q].host = procs[q].host
        /\ \A q \in Pids : (procs'[q] # NoProc) <=> (procs[q] # NoProc)
        /\ procs'[p].st = "bind" /\ procs[p].st = "init"
        /\ \A q \in Pids \ {p} : procs'[q] = procs[q]
    BY <1>1, <2>1, <2>2, MoveTypes
  <2> QED
    BY <2>3, <2>4
<1>3. CASE Fails(p)
  <2>1. Move(p, "init", "failed") /\ port' = port
    BY <1>3 DEF Fails
  <2>2. port' \in Pids \cup {0}
    BY <2>1, Types
  <2>3. UNCHANGED <<ctls, api, todo, locals>>
    BY <2>1 DEF Move
  <2>4. /\ TypeInv'
        /\ \A q \in Pids : procs'[q].host = procs[q].host
        /\ \A q \in Pids : (procs'[q] # NoProc) <=> (procs[q] # NoProc)
        /\ procs'[p].st = "failed" /\ procs[p].st = "init"
        /\ \A q \in Pids \ {p} : procs'[q] = procs[q]
    BY <1>1, <2>1, <2>2, MoveTypes
  <2> QED
    BY <2>3, <2>4
<1>4. CASE Bind(p)
  <2>1. Move(p, "bind", "up") /\ port' \in Pids \cup {0}
    BY <1>4 DEF Bind
  <2>2. UNCHANGED <<ctls, api, todo, locals>>
    BY <2>1 DEF Move
  <2>3. /\ TypeInv'
        /\ \A q \in Pids : procs'[q].host = procs[q].host
        /\ \A q \in Pids : (procs'[q] # NoProc) <=> (procs[q] # NoProc)
        /\ procs'[p].st = "up" /\ procs[p].st = "bind"
        /\ \A q \in Pids \ {p} : procs'[q] = procs[q]
    BY <1>1, <2>1, MoveTypes
  <2> QED
    BY <2>2, <2>3
<1> QED
  BY <1>2, <1>3, <1>4

LEMMA TypesKept ==
    ASSUME TypeInv, [Next]_vars
    PROVE  TypeInv'
<1>1. CASE UNCHANGED vars
  BY <1>1 DEF TypeInv, TypeOK, PlanInv, Busy, Alive, vars, children, api, locals, history
<1>2. CASE Next
  <2>1. machine' = machine /\ good' = good
    BY <1>2 DEF Next
  <2>2. ASSUME NEW h \in Handlers, Step(h) PROVE TypeInv'
    BY <2>1, <2>2, CloseTypes, FindTypes, ExecTypes, NoteTypes, CheckTypes, SaveTypes,
       LoadTypes, LoadNextTypes, RenewTypes, NextTypes DEF Step
  <2>3. ASSUME NEW h \in Handlers, Report(h) PROVE TypeInv'
    BY <2>1, <2>3, ReportTypes
  <2>4. ASSUME NEW p \in Pids, Child(p) \/ Dies(p) PROVE TypeInv'
    BY <2>1, <2>4, ChildTypes, KilledTypes DEF Child
  <2>5. ASSUME NEW h \in Handlers, Serve(h) PROVE TypeInv'
    BY <2>1, <2>5, SwitchHostTypes, SwitchNextTypes, LogInTypes DEF Serve
  <2>6. CASE FirewallSave \/ Relist
    BY <2>1, <2>6, ListTypes
  <2> QED
    BY <1>2, <2>2, <2>3, <2>4, <2>5, <2>6 DEF Next, Work
<1> QED
  BY <1>1, <1>2

LEMMA TypesBegin ==
    ASSUME Init PROVE TypeInv
<1>1. 0 \notin Ctls
  BY NumbersAssumption
<1>2. TypeOK
  BY BoundsAssumption DEF Init, TypeOK, NoProc, NoCtl, States
<1>3. PlanInv
  <2>1. \A h \in Handlers : todo[h] = <<>>
    BY DEF Init
  <2>2. todo \in [Handlers -> Seq(Steps)]
    BY EndsLegal DEF Init
  <2>3. \A h \in Handlers : Legal(todo[h]) /\ ~Busy(h) /\ First(todo[h]) \notin Methods
    BY <2>1, EndsLegal DEF Busy, Methods
  <2>4. \A p \in Pids : Alive(p) <=> procs[p].st # "none"
    BY DEF Init, Alive, NoProc
  <2> QED
    BY <1>1, <2>2, <2>3, <2>4 DEF PlanInv, Init
<1> QED
  BY <1>2, <1>3 DEF TypeInv

\* The types are right, the steps a handler has left follow one on another as
\* in the code of the handlers, and a handler that runs a method of a
\* ClientControl has one (nothing dereferences a nil globalClient.ClientConf
\* once a request has begun).
THEOREM RouteTypesCorrect == Spec => [](TypeOK /\ PlanInv)
<1>1. Init => TypeInv
  BY TypesBegin
<1>2. TypeInv /\ [Next]_vars => TypeInv'
  BY TypesKept
<1> QED
  BY <1>1, <1>2, PTL DEF Spec, TypeInv

-----------------------------------------------------------------------------
(* How many children there are.                                             *)

Children == {p \in Pids : Alive(p)}
Waiting == {h \in Handlers : First(todo[h]) = "exec"}

\* A handler that has killed a child and not yet started the next counts too.
OrphanInv ==
    /\ IsFiniteSet(Children)
    /\ finds => Cardinality(Children) + Cardinality(Waiting) <= Cardinality(Handlers)

LEMMA Counted ==
    ASSUME OrphanInv
    PROVE  /\ IsFiniteSet(Waiting) /\ IsFiniteSet(Handlers) /\ IsFiniteSet(Children)
           /\ Cardinality(Waiting) \in Nat /\ Cardinality(Children) \in Nat
           /\ Cardinality(Handlers) \in Nat
           /\ Cardinality(Waiting) <= Cardinality(Handlers)
<1>1. IsFiniteSet(Handlers) /\ Waiting \subseteq Handlers
  BY NumbersAssumption DEF Waiting
<1>2. IsFiniteSet(Waiting) /\ Cardinality(Waiting) <= Cardinality(Handlers)
  BY <1>1, FS_Subset
<1> QED
  BY <1>1, <1>2, FS_CardinalityType DEF OrphanInv

LEMMA OrphansKept ==
    ASSUME OrphanInv, machine' = machine, Children' \subseteq Children, Waiting' \subseteq Waiting
    PROVE  OrphanInv'
<1>1. IsFiniteSet(Children') /\ Cardinality(Children') <= Cardinality(Children)
  BY Counted, FS_Subset
<1>2. IsFiniteSet(Waiting') /\ Cardinality(Waiting') <= Cardinality(Waiting)
  BY Counted, FS_Subset
<1>3. Cardinality(Children') \in Nat /\ Cardinality(Waiting') \in Nat
  BY <1>1, <1>2, FS_CardinalityType
<1> QED
  BY <1>1, <1>2, <1>3, Counted DEF OrphanInv, finds

\* What the steps that are neither find nor exec do to the children.
LEMMA StepsKill ==
    ASSUME TypeInv, NEW h \in Handlers, Busy(h), machine' = machine,
           \/ Close(h) \/ Note(h) \/ CheckRoute(h) \/ Save(h) \/ Load(h) \/ LoadNext(h)
           \/ Renew(h) \/ Next1(h)
    PROVE  Children' \subseteq Children /\ Waiting' \subseteq Waiting
<1>1. CASE Close(h)
  <2> DEFINE S == {Do(h).pid} \cap {p \in Pids : Alive(p)}
  <2>1. Kill(S) /\ Then(h, <<>>) /\ Head1(h) \in {"close", "closeOld"}
    BY <1>1 DEF Close, At
  <2> HIDE DEF S
  <2>2. Children' \subseteq Children
    BY <2>1, KillKeeps DEF Children, Alive
  <2>3. /\ \A g \in Handlers \ {h} : todo'[g] = todo[g]
        /\ <<Head1(h), First(todo'[h])>> \in Follow
    BY <2>1, Goes1
  <2>4. First(todo'[h]) # "exec"
    BY <2>1, <2>3 DEF Follow
  <2> QED
    BY <2>2, <2>3, <2>4 DEF Waiting
<1>2. CASE Note(h) \/ CheckRoute(h) \/ Save(h) \/ Renew(h)
  <2>1. procs' = procs /\ Then(h, <<>>) /\ Head1(h) \in {"note", "check", "save", "renew"}
    BY <1>2 DEF Note, CheckRoute, Save, Renew, At, children
  <2>2. /\ \A g \in Handlers \ {h} : todo'[g] = todo[g]
        /\ <<Head1(h), First(todo'[h])>> \in Follow
    BY <2>1, Goes1
  <2>3. First(todo'[h]) # "exec"
    BY <2>1, <2>2 DEF Follow
  <2> QED
    BY <2>1, <2>2, <2>3 DEF Waiting, Children, Alive
<1>3. CASE Load(h) \/ LoadNext(h)
  <2>1. /\ procs' = procs /\ Head1(h) \in {"change", "changeNext"}
        /\ \E x \in Servers : Then(h, ChangeRoute(x))
    <3>1. Head(todo[h]) \in Steps /\ Head1(h) \in {"change", "changeNext"} /\ procs' = procs
      BY <1>3, AtWork DEF Load, LoadNext, At, children
    <3>2. Head(todo[h])[2] \in Servers
      BY <3>1, StepParts DEF Head1
    <3> QED
      BY <1>3, <3>1, <3>2, Types DEF Load, LoadNext
  <2>2. /\ \A g \in Handlers \ {h} : todo'[g] = todo[g]
        /\ First(todo'[h]) = "closeOld"
    BY <2>1, ChangePlanned
  <2> QED
    BY <2>1, <2>2 DEF Waiting, Children, Alive
<1>4. CASE Next1(h)
  <2>1. procs' = procs
    BY <1>4 DEF Next1, children
  <2>2. /\ \A g \in Handlers \ {h} : todo'[g] = todo[g]
        /\ First(todo'[h]) = "save"
    BY <1>4, NextPlanned
  <2> QED
    BY <2>1, <2>2 DEF Waiting, Children, Alive
<1> QED
  BY <1>1, <1>2, <1>3, <1>4

\* StartRoute kills one of the children there are.
LEMMA FindOrphans ==
    ASSUME TypeInv, OrphanInv, NEW h \in Handlers, Busy(h), Find(h), machine' = machine
    PROVE  OrphanInv'
<1> DEFINE S == {p \in Pids : finds /\ Alive(p) /\ \A q \in Pids : Alive(q) => p <= q}
<1>1. Kill(S) /\ Then(h, <<>>) /\ Head1(h) = "find"
  BY DEF Find, At
<1>2. /\ \A g \in Handlers \ {h} : todo'[g] = todo[g]
      /\ <<Head1(h), First(todo'[h])>> \in Follow
  BY <1>1, Goes1
<1>3. /\ First(todo[h]) = "find" /\ First(todo'[h]) = "exec"
  BY <1>1, <1>2, AtWork DEF Follow
<1>4. h \notin Waiting /\ Waiting' = Waiting \cup {h}
  BY <1>2, <1>3 DEF Waiting
<1>5. Children' \subseteq Children /\ \A p \in S : p \notin Children'
  <2> HIDE DEF S
  <2>1. \A p \in Pids : IF p \in S THEN procs'[p] = NoProc ELSE procs'[p] = procs[p]
    BY <1>1, KillKeeps
  <2> QED
    BY <2>1 DEF Children, Alive
<1>6. IsFiniteSet(Children') /\ Cardinality(Children') \in Nat
  BY <1>5, Counted, FS_Subset, FS_CardinalityType
<1>7. /\ IsFiniteSet(Waiting') /\ Cardinality(Waiting') = Cardinality(Waiting) + 1
      /\ Cardinality(Waiting') <= Cardinality(Handlers)
  <2>1. Waiting' \subseteq Handlers
    BY DEF Waiting
  <2>2. Cardinality(Waiting') <= Cardinality(Handlers)
    BY <2>1, Counted, FS_Subset
  <2> QED
    BY <1>4, <2>2, Counted, FS_AddElement
<1>8. CASE finds /\ Children # {}
  <2>1. PICK p \in Children : \A q \in Children : p <= q
    <3>1. Children \subseteq Nat
      BY NumbersAssumption DEF Children
    <3> QED
      BY <1>8, <3>1, Least
  <2>2. p \in S
    BY <1>8, <2>1 DEF Children
  <2>3. Children' \subseteq Children \ {p}
    BY <1>5, <2>2
  <2>4. /\ IsFiniteSet(Children \ {p})
        /\ Cardinality(Children \ {p}) = Cardinality(Children) - 1
    BY <2>1, Counted, FS_RemoveElement
  <2>5. Cardinality(Children') <= Cardinality(Children) - 1
    BY <2>3, <2>4, FS_Subset
  <2> QED
    BY <1>6, <1>7, <1>8, <2>5, Counted DEF OrphanInv, finds
<1>9. CASE finds /\ Children = {}
  <2>1. Children' = {}
    BY <1>5, <1>9
  <2>2. Cardinality(Children') = 0
    BY <2>1, FS_EmptySet
  <2> QED
    BY <1>6, <1>7, <2>2, Counted DEF OrphanInv
<1>10. CASE ~finds
  BY <1>6, <1>10 DEF OrphanInv, finds
<1> QED
  BY <1>8, <1>9, <1>10

LEMMA ExecOrphans ==
    ASSUME TypeInv, OrphanInv, NEW h \in Handlers, Busy(h), Exec(h), machine' = machine
    PROVE  OrphanInv'
<1>1. Then(h, <<>>) /\ Head1(h) = "exec"
  BY DEF Exec, At
<1>2. /\ \A g \in Handlers \ {h} : todo'[g] = todo[g]
      /\ <<Head1(h), First(todo'[h])>> \in Follow
  BY <1>1, Goes1
<1>3. First(todo[h]) = "exec" /\ First(todo'[h]) = "note"
  BY <1>1, <1>2, AtWork DEF Follow
<1>4. h \in Waiting /\ Waiting' = Waiting \ {h}
  BY <1>2, <1>3 DEF Waiting
<1>5. PICK p \in Pids :
        ~Alive(p) /\ procs' = [procs EXCEPT ![p] = [host |-> Do(h).Addr, st |-> "init"]]
  BY DEF Exec
<1>6. Children' \subseteq Children \cup {p} /\ p \notin Children
  BY <1>5, Types DEF Children, Alive
<1>7. /\ IsFiniteSet(Children \cup {p})
      /\ Cardinality(Children \cup {p}) = Cardinality(Children) + 1
  BY <1>6, Counted, FS_AddElement
<1>8. /\ IsFiniteSet(Children') /\ Cardinality(Children') \in Nat
      /\ Cardinality(Children') <= Cardinality(Children) + 1
  BY <1>6, <1>7, FS_Subset, FS_CardinalityType
<1>9. Cardinality(Waiting') = Cardinality(Waiting) - 1
  BY <1>4, Counted, FS_RemoveElement
<1> QED
  BY <1>8, <1>9, Counted DEF OrphanInv, finds

LEMMA OrphansStep ==
    ASSUME TypeInv, OrphanInv, [Next]_vars
    PROVE  OrphanInv'
<1>1. CASE UNCHANGED vars
  <2>1. machine' = machine /\ Children' = Children /\ Waiting' = Waiting
    BY <1>1 DEF vars, children, Children, Waiting, Alive
  <2> QED
    BY <2>1, OrphansKept
<1>2. CASE Next
  <2>1. machine' = machine /\ good' = good
    BY <1>2 DEF Next
  <2>2. ASSUME NEW h \in Handlers, Step(h) PROVE OrphanInv'
    BY <2>1, <2>2, StepsKill, OrphansKept, FindOrphans, ExecOrphans DEF Step
  <2>3. ASSUME NEW h \in Handlers, Report(h) PROVE OrphanInv'
    <3>1. /\ \A g \in Handlers \ {h} : todo'[g] = todo[g]
          /\ First(todo'[h]) = "close"
          /\ \E p \in Pids : procs[p].st = "failed" /\ procs' = [procs EXCEPT ![p].st = "posted"]
      BY <2>1, <2>3, ReportTypes
    <3>2. Waiting' \subseteq Waiting
      BY <3>1 DEF Waiting
    <3>3. PICK p \in Pids : procs[p].st = "failed" /\ procs' = [procs EXCEPT ![p].st = "posted"]
      BY <3>1
    <3>4. procs[p] # NoProc
      BY <3>3 DEF NoProc
    <3>5. Children' \subseteq Children
      BY <3>3, <3>4, Types DEF Children, Alive
    <3> QED
      BY <2>1, <3>2, <3>5, OrphansKept
  <2>4. ASSUME NEW p \in Pids, Built(p) \/ Fails(p) \/ Bind(p) PROVE OrphanInv'
    <3>1. /\ todo' = todo /\ \A q \in Pids : (procs'[q] # NoProc) <=> (procs[q] # NoProc)
      BY <2>1, <2>4, ChildTypes
    <3>2. Children' = Children /\ Waiting' = Waiting
      BY <3>1 DEF Children, Waiting, Alive
    <3> QED
      BY <2>1, <3>2, OrphansKept
  <2>5. ASSUME NEW p \in Pids, Exit(p) \/ Dies(p) PROVE OrphanInv'
    <3>1. Kill({p}) /\ todo' = todo
      BY <2>1, <2>5, KilledTypes
    <3>2. Children' \subseteq Children /\ Waiting' = Waiting
      BY <3>1, KillKeeps DEF Children, Waiting, Alive
    <3> QED
      BY <2>1, <3>2, OrphansKept
  <2>6. ASSUME NEW h \in Handlers, Serve(h) PROVE OrphanInv'
    <3>1. procs' = procs
      BY <2>6 DEF Serve, SwitchHost, SwitchNext, LogIn, children
    <3>2. /\ \A g \in Handlers \ {h} : todo'[g] = todo[g]
          /\ First(todo'[h]) # "exec"
      BY <2>1, <2>6, SwitchHostTypes, SwitchNextTypes, LogInTypes, EndsLegal DEF Serve
    <3>3. Children' = Children /\ Waiting' \subseteq Waiting
      BY <3>1, <3>2 DEF Children, Waiting, Alive
    <3> QED
      BY <2>1, <3>3, OrphansKept
  <2>7. CASE FirewallSave \/ Relist
    <3>1. procs' = procs /\ todo' = todo
      BY <2>7 DEF FirewallSave, Relist, children
    <3>2. Children' = Children /\ Waiting' = Waiting
      BY <3>1 DEF Children, Waiting, Alive
    <3> QED
      BY <2>1, <3>2, OrphansKept
  <2> QED
    BY <1>2, <2>2, <2>3, <2>4, <2>5, <2>6, <2>7 DEF Next, Work, Child
<1> QED
  BY <1>1, <1>2

\* However many switches, logins and reports run at a time, and however their
\* commands interleave, there are never more children than goroutines that
\* serve requests, where ps shows them: StartRoute kills a child, if there is
\* one, before it starts the next.
THEOREM OrphansAreBounded == Spec => []OrphansBounded
<1>1. Init => OrphanInv
  <2> SUFFICES ASSUME Init PROVE OrphanInv
    OBVIOUS
  <2>1. Children = {} /\ Waiting = {}
    BY EndsLegal DEF Init, Children, Waiting, Alive, First
  <2>2. /\ IsFiniteSet(Children) /\ Cardinality(Children) = 0 /\ Cardinality(Waiting) = 0
        /\ Cardinality(Handlers) \in Nat
    BY <2>1, NumbersAssumption, FS_EmptySet, FS_CardinalityType
  <2> QED
    BY <2>2 DEF OrphanInv
<1>2. OrphanInv => OrphansBounded
  BY Counted DEF OrphanInv, OrphansBounded, Children
<1>3. Init => TypeInv
  BY TypesBegin
<1>4. TypeInv /\ OrphanInv /\ [Next]_vars => TypeInv' /\ OrphanInv'
  BY TypesKept, OrphansStep
<1> QED
  BY <1>1, <1>2, <1>3, <1>4, PTL DEF Spec

-----------------------------------------------------------------------------
(* Requests that come one at a time.                                        *)

\* The children that serve or will, if nothing kills them.
Rivals == {p \in Pids : Alive(p) /\ procs[p].st # "posted"}

Current ==
    \A p \in Rivals :
        ctl # 0 /\ p = ctls[ctl].pid /\ procs[p].host = ctls[ctl].Addr

\* The rivals while h is at work, alone: none from the close of the old route
\* to the start of the new one, whose number is in fresh until it is noted.
Stage(h) ==
    /\ First(todo[h]) \in {"find", "exec", "renew"} => Rivals = {}
    /\ First(todo[h]) = "note" =>
         \A p \in Rivals : p = fresh[h] /\ procs[p].host = ctls[ctl].Addr
    /\ First(todo[h]) # "note" => Current
    /\ First(todo[h]) \in Methods => cur[h] = ctl

AloneInv ==
    round # "met" =>
      /\ \A g, h \in Handlers : Busy(g) /\ Busy(h) => g = h
      /\ \A h \in Handlers : Busy(h) => Stage(h)
      /\ Quiet => Current

LEMMA OneAtATime ==
    ASSUME Track, round' # "met"
    PROVE  /\ round # "met"
           /\ \A g, h \in Handlers : todo'[g] # <<>> /\ todo'[h] # <<>> => g = h
<1> DEFINE B == {h \in Handlers : todo'[h] # <<>>}
<1>1. round # "met" /\ ~(Cardinality(B) > 1)
  BY DEF Track, Busy
<1>2. IsFiniteSet(B) /\ Cardinality(B) \in Nat
  BY NumbersAssumption, FS_Subset, FS_CardinalityType
<1>3. ASSUME NEW g \in B, NEW h \in B PROVE g = h
  <2> HIDE DEF B
  <2>1. IsFiniteSet(B \ {g}) /\ Cardinality(B \ {g}) = Cardinality(B) - 1
    BY <1>2, <1>3, FS_RemoveElement
  <2>2. Cardinality(B \ {g}) = 0
    BY <1>1, <1>2, <2>1, FS_CardinalityType
  <2>3. B \ {g} = {}
    BY <2>1, <2>2, FS_EmptySet
  <2> QED
    BY <1>3, <2>3
<1> QED
  BY <1>1, <1>3

\* Nothing that matters here changes but that rivals may be gone.
LEMMA StagesKept ==
    ASSUME AloneInv, Track, UNCHANGED <<ctls, ctl, cur, fresh>>,
           \A h \in Handlers : todo'[h] = todo[h],
           Rivals' \subseteq Rivals, \A p \in Rivals' : procs'[p].host = procs[p].host
    PROVE  AloneInv'
<1> SUFFICES ASSUME round' # "met" PROVE AloneInv'
  BY DEF AloneInv
<1>1. round # "met"
  BY OneAtATime
<1>2. Current => Current'
  BY DEF Current
<1>3. ASSUME NEW h \in Handlers, Stage(h) PROVE Stage(h)'
  BY <1>2, <1>3 DEF Stage
<1> QED
  BY <1>1, <1>2, <1>3 DEF AloneInv, Busy, Quiet

\* A handler that was alone, or the only one there is now, is at a stage.
LEMMA StageMade ==
    ASSUME AloneInv, Track, NEW h \in Handlers, Busy(h) \/ todo'[h] # <<>>,
           \A g \in Handlers \ {h} : todo'[g] = todo[g],
           round' # "met" => Stage(h)'
    PROVE  AloneInv'
<1> SUFFICES ASSUME round' # "met" PROVE AloneInv'
  BY DEF AloneInv
<1>1. /\ round # "met"
      /\ \A f, g \in Handlers : todo'[f] # <<>> /\ todo'[g] # <<>> => f = g
  BY OneAtATime
<1>2. \A g \in Handlers \ {h} : todo'[g] = <<>>
  BY <1>1 DEF AloneInv, Busy
<1>3. todo'[h] = <<>> => Current'
  BY <1>1 DEF Stage, First
<1> QED
  BY <1>1, <1>2, <1>3 DEF AloneInv, Busy, Quiet

\* The route in use is closed: nothing is left.
LEMMA CloseStage ==
    ASSUME TypeInv, NEW h \in Handlers, Busy(h), Close(h), Stage(h)
    PROVE  Stage(h)' /\ \A g \in Handlers \ {h} : todo'[g] = todo[g]
<1> DEFINE S == {Do(h).pid} \cap {p \in Pids : Alive(p)}
<1>1. /\ Kill(S) /\ Then(h, <<>>) /\ UNCHANGED <<api, locals>>
      /\ Head1(h) \in {"close", "closeOld"}
  BY DEF Close, At
<1>2. /\ \A g \in Handlers \ {h} : todo'[g] = todo[g]
      /\ <<Head1(h), First(todo'[h])>> \in Follow
  BY <1>1, Goes1
<1>3. First(todo[h]) = Head1(h)
  BY AtWork
<1>4. cur[h] = ctl /\ Current
  BY <1>1, <1>3 DEF Stage, Methods
<1>5. Rivals' = {}
  <2>1. \A p \in Rivals : p = Do(h).pid /\ p \in S
    BY <1>4 DEF Current, Do, Rivals
  <2> HIDE DEF S
  <2>2. \A p \in Pids : IF p \in S THEN procs'[p] = NoProc ELSE procs'[p] = procs[p]
    BY <1>1, KillKeeps
  <2> QED
    BY <2>1, <2>2 DEF Rivals, Alive
<1>6. Current'
  BY <1>5 DEF Current
<1>7. First(todo'[h]) \in {"change", "next", "renew", "find"}
  BY <1>1, <1>2 DEF Follow
<1>8. cur'[h] = ctl'
  BY <1>1, <1>4 DEF api, locals
<1> QED
  BY <1>2, <1>5, <1>6, <1>7, <1>8 DEF Stage

LEMMA FindStage ==
    ASSUME TypeInv, NEW h \in Handlers, Busy(h), Find(h), Stage(h)
    PROVE  Stage(h)' /\ \A g \in Handlers \ {h} : todo'[g] = todo[g]
<1> DEFINE S == {p \in Pids : finds /\ Alive(p) /\ \A q \in Pids : Alive(q) => p <= q}
<1>1. Kill(S) /\ Then(h, <<>>) /\ UNCHANGED <<api, locals>> /\ Head1(h) = "find"
  BY DEF Find, At
<1>2. /\ \A g \in Handlers \ {h} : todo'[g] = todo[g]
      /\ <<Head1(h), First(todo'[h])>> \in Follow
  BY <1>1, Goes1
<1>3. First(todo[h]) = "find"
  BY <1>1, AtWork
<1>4. Rivals = {} /\ cur[h] = ctl
  BY <1>3 DEF Stage, Methods
<1>5. Rivals' = {}
  <2> HIDE DEF S
  <2>1. \A p \in Pids : IF p \in S THEN procs'[p] = NoProc ELSE procs'[p] = procs[p]
    BY <1>1, KillKeeps
  <2> QED
    BY <1>4, <2>1 DEF Rivals, Alive
<1>6. First(todo'[h]) = "exec"
  BY <1>1, <1>2 DEF Follow
<1> QED
  BY <1>1, <1>2, <1>4, <1>5, <1>6 DEF Stage, Current, api, locals

LEMMA ExecStage ==
    ASSUME TypeInv, NEW h \in Handlers, Busy(h), Exec(h), Stage(h)
    PROVE  Stage(h)' /\ \A g \in Handlers \ {h} : todo'[g] = todo[g]
<1>1. Then(h, <<>>) /\ UNCHANGED <<ctls, api, cur>> /\ Head1(h) = "exec"
  BY DEF Exec, At
<1>2. /\ \A g \in Handlers \ {h} : todo'[g] = todo[g]
      /\ <<Head1(h), First(todo'[h])>> \in Follow
  BY <1>1, Goes1
<1>3. First(todo[h]) = "exec"
  BY <1>1, AtWork
<1>4. Rivals = {} /\ cur[h] = ctl
  BY <1>3 DEF Stage, Methods
<1>5. PICK p \in Pids : /\ procs' = [procs EXCEPT ![p] = [host |-> Do(h).Addr, st |-> "init"]]
                        /\ fresh' = [fresh EXCEPT ![h] = p]
  BY DEF Exec
<1>6. \A q \in Pids \ {p} : procs'[q] = procs[q]
  BY <1>5, Types
<1>7. Rivals' \subseteq {p}
  BY <1>4, <1>6 DEF Rivals, Alive
<1>8. fresh'[h] = p /\ procs'[p].host = ctls'[ctl'].Addr
  BY <1>1, <1>4, <1>5, Types DEF Do, api
<1>9. First(todo'[h]) = "note"
  BY <1>1, <1>2 DEF Follow
<1> QED
  BY <1>1, <1>2, <1>4, <1>7, <1>8, <1>9 DEF Stage, api

LEMMA NoteStage ==
    ASSUME TypeInv, NEW h \in Handlers, Busy(h), Note(h), Stage(h)
    PROVE  Stage(h)' /\ \A g \in Handlers \ {h} : todo'[g] = todo[g]
<1>1. /\ Then(h, <<>>) /\ UNCHANGED <<children, api, cur>> /\ Head1(h) = "note"
      /\ ctls' = [ctls EXCEPT ![cur[h]].pid = fresh[h]]
  BY DEF Note, At
<1>2. /\ \A g \in Handlers \ {h} : todo'[g] = todo[g]
      /\ <<Head1(h), First(todo'[h])>> \in Follow
  BY <1>1, Goes1
<1>3. First(todo[h]) = "note"
  BY <1>1, AtWork
<1>4. /\ cur[h] = ctl /\ ctl \in Ctls
      /\ \A p \in Rivals : p = fresh[h] /\ procs[p].host = ctls[ctl].Addr
  BY <1>3, AtWork DEF Stage, Methods
<1>5. ctls'[ctl].pid = fresh[h] /\ ctls'[ctl].Addr = ctls[ctl].Addr
  BY <1>1, <1>4, Types DEF CtlType
<1>6. Rivals' = Rivals /\ procs' = procs /\ ctl' = ctl /\ ctl # 0 /\ cur' = cur
  BY <1>1, <1>4, Types DEF Rivals, Alive, children, api
<1>7. Current'
  BY <1>4, <1>5, <1>6 DEF Current
<1>8. First(todo'[h]) = "check"
  BY <1>1, <1>2 DEF Follow
<1> QED
  BY <1>2, <1>4, <1>6, <1>7, <1>8 DEF Stage

LEMMA CheckStage ==
    ASSUME TypeInv, NEW h \in Handlers, Busy(h), CheckRoute(h), Stage(h)
    PROVE  Stage(h)' /\ \A g \in Handlers \ {h} : todo'[g] = todo[g]
<1>1. Then(h, <<>>) /\ UNCHANGED <<children, api>> /\ Head1(h) = "check"
  BY DEF CheckRoute, At
<1>2. /\ \A g \in Handlers \ {h} : todo'[g] = todo[g]
      /\ <<Head1(h), First(todo'[h])>> \in Follow
  BY <1>1, Goes1
<1>3. First(todo[h]) = "check"
  BY <1>1, AtWork
<1>4. cur[h] = ctl /\ ctl \in Ctls /\ Current
  BY <1>3, AtWork DEF Stage, Methods
<1>5. ctls'[ctl].pid = ctls[ctl].pid /\ ctls'[ctl].Addr = ctls[ctl].Addr
  BY <1>4, Types DEF CtlType, CheckRoute
<1>6. Rivals' = Rivals /\ procs' = procs /\ ctl' = ctl
  BY <1>1 DEF Rivals, Alive, children, api
<1>7. Current'
  BY <1>4, <1>5, <1>6 DEF Current
<1>8. First(todo'[h]) \in {"save", "end"}
  BY <1>1, <1>2 DEF Follow
<1> QED
  BY <1>2, <1>7, <1>8 DEF Stage, Methods

\* Steps that leave the children and the ClientControl alone.
LEMMA PlainStage ==
    ASSUME TypeInv, NEW h \in Handlers, Busy(h), Save(h) \/ Load(h) \/ LoadNext(h) \/ Next1(h),
           Stage(h)
    PROVE  Stage(h)' /\ \A g \in Handlers \ {h} : todo'[g] = todo[g]
<1>1. UNCHANGED <<procs, ctls, ctl>> /\ Head1(h) \in {"save", "change", "changeNext", "next"}
  BY DEF Save, Load, LoadNext, Next1, At, children, api
<1>2. Current
  BY <1>1, AtWork DEF Stage
<1>3. Current'
  BY <1>1, <1>2 DEF Current, Rivals, Alive
<1>4. CASE Save(h)
  <2>1. Then(h, <<>>) /\ Head1(h) = "save"
    BY <1>4 DEF Save, At
  <2>2. /\ \A g \in Handlers \ {h} : todo'[g] = todo[g]
        /\ <<Head1(h), First(todo'[h])>> \in Follow
    BY <2>1, Goes1
  <2>3. First(todo'[h]) \in {"next", "changeNext", "end"}
    BY <2>1, <2>2 DEF Follow
  <2> QED
    BY <1>3, <2>2, <2>3 DEF Stage, Methods
<1>5. CASE Load(h) \/ LoadNext(h)
  <2>1. cur'[h] = ctl'
    BY <1>5, Types DEF Load, LoadNext, api
  <2>2. /\ Head1(h) \in {"change", "changeNext"} /\ \E x \in Servers : Then(h, ChangeRoute(x))
    <3>1. Head(todo[h]) \in Steps /\ Head1(h) \in {"change", "changeNext"}
      BY <1>5, AtWork DEF Load, LoadNext, At
    <3>2. Head(todo[h])[2] \in Servers
      BY <3>1, StepParts DEF Head1
    <3> QED
      BY <1>5, <3>1, <3>2, Types DEF Load, LoadNext
  <2>3. /\ \A g \in Handlers \ {h} : todo'[g] = todo[g]
        /\ First(todo'[h]) = "closeOld"
    BY <2>2, ChangePlanned
  <2> QED
    BY <1>3, <2>1, <2>3 DEF Stage
<1>6. CASE Next1(h)
  <2>1. /\ \A g \in Handlers \ {h} : todo'[g] = todo[g]
        /\ First(todo'[h]) = "save"
    BY <1>6, NextPlanned
  <2> QED
    BY <1>3, <2>1 DEF Stage, Methods
<1> QED
  BY <1>4, <1>5, <1>6

LEMMA RenewStage ==
    ASSUME TypeInv, NEW h \in Handlers, Busy(h), Renew(h), Stage(h)
    PROVE  Stage(h)' /\ \A g \in Handlers \ {h} : todo'[g] = todo[g]
<1>1. /\ Then(h, <<>>) /\ New(h, Head(todo[h])[2]) /\ Head1(h) = "renew" /\ procs' = procs
  BY DEF Renew, At, children
<1>2. /\ \A g \in Handlers \ {h} : todo'[g] = todo[g]
      /\ <<Head1(h), First(todo'[h])>> \in Follow
  BY <1>1, Goes1
<1>3. First(todo[h]) = "renew"
  BY <1>1, AtWork
<1>4. Rivals' = {}
  BY <1>1, <1>3 DEF Stage, Rivals, Alive
<1>5. Head(todo[h])[2] \in Servers
  BY <1>1, AtWork, StepParts DEF Head1
<1>6. cur'[h] = ctl'
  BY <1>1, <1>5, NewMakes
<1>7. First(todo'[h]) = "find"
  BY <1>1, <1>2 DEF Follow
<1> QED
  BY <1>2, <1>4, <1>6, <1>7 DEF Stage, Current

\* A request that is the only one finds the route current.
LEMMA AloneFinds ==
    ASSUME AloneInv, Track, round' # "met", NEW h \in Handlers, ~Busy(h), todo'[h] # <<>>,
           \A g \in Handlers \ {h} : todo'[g] = todo[g]
    PROVE  round # "met" /\ Quiet /\ Current
<1>1. round # "met" /\ \A f, g \in Handlers : todo'[f] # <<>> /\ todo'[g] # <<>> => f = g
  BY OneAtATime
<1>2. Quiet
  BY <1>1 DEF Quiet, Busy
<1> QED
  BY <1>1, <1>2 DEF AloneInv

LEMMA RequestStage ==
    ASSUME TypeInv, AloneInv, Track, NEW h \in Handlers, ~Busy(h), todo'[h] # <<>>,
           \A g \in Handlers \ {h} : todo'[g] = todo[g], cur'[h] = ctl',
           Rivals' \subseteq Rivals, \A p \in Rivals' : procs'[p].host = procs[p].host,
           \/ First(todo'[h]) = "find" /\ ctl = 0
           \/ First(todo'[h]) = "close" /\ ctl' = ctl /\ ctls' = ctls
    PROVE  AloneInv'
<1>1. ASSUME round' # "met" PROVE Stage(h)'
  <2>1. Current
    BY <1>1, AloneFinds
  <2>2. CASE First(todo'[h]) = "find" /\ ctl = 0
    <3>1. Rivals' = {}
      BY <2>1, <2>2 DEF Current
    <3> QED
      BY <2>2, <3>1 DEF Stage, Current
  <2>3. CASE First(todo'[h]) = "close" /\ ctl' = ctl /\ ctls' = ctls
    <3>1. Current'
      BY <2>1, <2>3 DEF Current
    <3> QED
      BY <2>3, <3>1 DEF Stage
  <2> QED
    BY <2>2, <2>3
<1> QED
  BY <1>1, StageMade

LEMMA AloneStep ==
    ASSUME TypeInv, AloneInv, [Next]_vars
    PROVE  AloneInv'
<1>1. CASE UNCHANGED vars
  BY <1>1 DEF AloneInv, Stage, Current, Rivals, Quiet, Busy, Alive, vars, children, api, locals,
              history
<1>2. CASE Next
  <2>1. machine' = machine /\ good' = good /\ Track
    BY <1>2 DEF Next
  <2>2. ASSUME NEW h \in Handlers, Step(h) PROVE AloneInv'
    <3>1. Busy(h)
      BY <2>2 DEF Step
    <3>2. ASSUME round' # "met" PROVE Stage(h)
      BY <2>1, <3>1, <3>2, OneAtATime DEF AloneInv
    <3>3. ASSUME Stage(h) PROVE Stage(h)' /\ \A g \in Handlers \ {h} : todo'[g] = todo[g]
      BY <2>2, <3>1, <3>3, CloseStage, FindStage, ExecStage, NoteStage, CheckStage, PlainStage,
         RenewStage DEF Step
    <3>4. CASE round' = "met"
      BY <3>4 DEF AloneInv
    <3>5. CASE round' # "met"
      BY <2>1, <3>1, <3>2, <3>3, <3>5, StageMade
    <3> QED
      BY <3>4, <3>5
  <2>3. ASSUME NEW h \in Handlers, Report(h) PROVE AloneInv'
    <3>1. /\ ~Busy(h) /\ cur'[h] = ctl' /\ todo'[h] # <<>>
          /\ \A g \in Handlers \ {h} : todo'[g] = todo[g]
          /\ First(todo'[h]) = "close" /\ ctl' = ctl /\ ctls' = ctls
          /\ \E p \in Pids : procs[p].st = "failed" /\ procs' = [procs EXCEPT ![p].st = "posted"]
      BY <2>1, <2>3, ReportTypes
    <3>2. PICK p \in Pids : procs[p].st = "failed" /\ procs' = [procs EXCEPT ![p].st = "posted"]
      BY <3>1
    <3>3. /\ procs[p] # NoProc /\ procs'[p].st = "posted"
          /\ \A q \in Pids \ {p} : procs'[q] = procs[q]
      BY <3>2, Types DEF NoProc, ProcType
    <3>4. Rivals' \subseteq Rivals /\ \A q \in Rivals' : procs'[q].host = procs[q].host
      BY <3>3 DEF Rivals, Alive
    <3> QED
      BY <2>1, <3>1, <3>4, RequestStage
  <2>4. ASSUME NEW p \in Pids, Built(p) \/ Fails(p) \/ Bind(p) PROVE AloneInv'
    <3>1. /\ UNCHANGED <<ctls, api, todo, locals>>
          /\ \A q \in Pids : procs'[q].host = procs[q].host
          /\ \A q \in Pids : (procs'[q] # NoProc) <=> (procs[q] # NoProc)
          /\ procs'[p].st # "posted" /\ procs[p].st # "posted"
          /\ \A q \in Pids \ {p} : procs'[q] = procs[q]
      BY <2>1, <2>4, ChildTypes
    <3>2. Rivals' \subseteq Rivals /\ \A q \in Rivals' : procs'[q].host = procs[q].host
      BY <3>1 DEF Rivals, Alive
    <3> QED
      BY <2>1, <3>1, <3>2, StagesKept DEF api, locals
  <2>5. ASSUME NEW p \in Pids, Exit(p) \/ Dies(p) PROVE AloneInv'
    <3>1. Kill({p}) /\ UNCHANGED <<ctls, api, todo, locals>>
      BY <2>1, <2>5, KilledTypes
    <3>2. Rivals' \subseteq Rivals /\ \A q \in Rivals' : procs'[q].host = procs[q].host
      BY <3>1, KillKeeps DEF Rivals, Alive
    <3> QED
      BY <2>1, <3>1, <3>2, StagesKept DEF api, locals
  <2>6. ASSUME NEW h \in Handlers, Serve(h) PROVE AloneInv'
    <3>1. procs' = procs /\ fresh' = fresh
      BY <2>6 DEF Serve, SwitchHost, SwitchNext, LogIn, children
    <3>2. Rivals' \subseteq Rivals /\ \A q \in Rivals' : procs'[q].host = procs[q].host
      BY <3>1 DEF Rivals, Alive
    <3>3. /\ ~Busy(h) /\ \A g \in Handlers \ {h} : todo'[g] = todo[g]
          /\ \/ todo'[h] = <<>> /\ ctl' = ctl /\ ctls' = ctls /\ cur' = cur
             \/ /\ todo'[h] # <<>> /\ cur'[h] = ctl'
                /\ \/ First(todo'[h]) = "find" /\ ctl = 0
                   \/ First(todo'[h]) = "close" /\ ctl' = ctl /\ ctls' = ctls
      BY <2>1, <2>6, SwitchHostTypes, SwitchNextTypes, LogInTypes DEF Serve
    <3>4. CASE todo'[h] = <<>> /\ ctl' = ctl /\ ctls' = ctls /\ cur' = cur
      <4>1. \A g \in Handlers : todo'[g] = todo[g]
        BY <3>3, <3>4 DEF Busy
      <4> QED
        BY <2>1, <3>1, <3>2, <3>4, <4>1, StagesKept
    <3>5. CASE /\ todo'[h] # <<>> /\ cur'[h] = ctl'
               /\ \/ First(todo'[h]) = "find" /\ ctl = 0
                  \/ First(todo'[h]) = "close" /\ ctl' = ctl /\ ctls' = ctls
      BY <2>1, <3>2, <3>3, <3>5, RequestStage
    <3> QED
      BY <3>3, <3>4, <3>5
  <2>7. CASE FirewallSave \/ Relist
    <3>1. UNCHANGED <<children, ctls, ctl, todo, locals>>
      BY <2>1, <2>7, ListTypes
    <3>2. Rivals' \subseteq Rivals /\ \A q \in Rivals' : procs'[q].host = procs[q].host
      BY <3>1 DEF Rivals, Alive, children
    <3> QED
      BY <2>1, <3>1, <3>2, StagesKept DEF locals
  <2> QED
    BY <1>2, <2>2, <2>3, <2>4, <2>5, <2>6, <2>7 DEF Next, Work, Child
<1> QED
  BY <1>1, <1>2

\* While requests come one at a time, no switch, login or report leaves an old
\* route behind: between two of them the only child that can serve is the one
\* whose number the ClientControl keeps, started for the server it names.
THEOREM RouteStaysCurrent == Spec => []RouteIsCurrent
<1>1. Init => AloneInv
  <2> SUFFICES ASSUME Init PROVE AloneInv
    OBVIOUS
  <2>1. Rivals = {} /\ \A h \in Handlers : ~Busy(h)
    BY DEF Init, Rivals, Alive, Busy
  <2> QED
    BY <2>1 DEF AloneInv, Current
<1>2. AloneInv => RouteIsCurrent
  BY DEF AloneInv, RouteIsCurrent, Current, Rivals
<1>3. Init => TypeInv
  BY TypesBegin
<1>4. TypeInv /\ AloneInv /\ [Next]_vars => TypeInv' /\ AloneInv'
  BY TypesKept, AloneStep
<1> QED
  BY <1>1, <1>2, <1>3, <1>4, PTL DEF Spec

-----------------------------------------------------------------------------
(* What the file names.                                                     *)

\* The steps of a plan; whether they leave the server of the ClientControl.
Parts(s) == {s[i] : i \in 1 .. Len(s)}
Unmoved(E) == \A e \in E : e[1] # "change" /\ (e[1] = "find" => e[2] = None)

\* The servers that the file may name now: any one after a foreign save.
Agreeing == {x \in Servers : ~foreign => saved = x}

\* What holds of a plan with the steps E, the last of which is z, while the
\* ClientControl names addr, last is l and A are the servers that agree with
\* the file: once it is carried out, they agree with that of the ClientControl.
Aims(E, z, addr, l, A) ==
    /\ \A e \in E : e[1] = "renew" => z[1] = "next"
    /\ \A e \in E : e[1] = "change" => z[1] \in {"change", "save"}
    /\ z[1] = "changeNext" =>
         /\ z[2] \in Hosts /\ E \subseteq {<<"save", z[2]>>, <<"changeNext", z[2]>>}
         /\ <<"save", z[2]>> \in E \/ z[2] \in A
    /\ z[1] = "save" =>
         /\ z[2] \in Hosts
         /\ \A e \in E : /\ e[1] = "change" => e[2] = z[2]
                         /\ e[1] = "find" => e[2] \in {z[2], None}
         /\ Unmoved(E) => addr = z[2]
    /\ z[1] = "change" => z[2] = None /\ l \in Hosts /\ l \in A
    /\ z[1] = "check" =>
         /\ \A e \in E : e[1] = "find" /\ e[2] # None => e[2] \in A
         /\ Unmoved(E) => addr \in A

\* The end of a plan.
Ended(s, addr, l, A) ==
    IF s = <<>> THEN addr \in A ELSE Aims(Parts(s), Last(s), addr, l, A)

Aim(h) == Ended(todo[h], ctls[ctl].Addr, last, Agreeing)

SavedInv ==
    round # "met" =>
      /\ \A h \in Handlers : Busy(h) => Aim(h)
      /\ Quiet /\ ctl # 0 => ctls[ctl].Addr \in Agreeing

LEMMA SplitPlan ==
    ASSUME NEW s \in Seq(Steps), s # <<>>
    PROVE  /\ Parts(s) = {s[1]} \cup Parts(Tail(s)) /\ Last(s) \in Parts(s)
           /\ Tail(s) # <<>> => Last(s) = Last(Tail(s))
           /\ Tail(s) = <<>> => Last(s) = s[1] /\ Parts(s) = {s[1]}
<1>1. /\ Tail(s) \in Seq(Steps) /\ Len(s) \in Nat \ {0} /\ Len(Tail(s)) = Len(s) - 1
      /\ \A i \in 1 .. Len(Tail(s)) : i + 1 \in 1 .. Len(s) /\ Tail(s)[i] = s[i + 1]
  BY Rest
<1>2. ASSUME NEW i \in 1 .. Len(s), i # 1 PROVE s[i] \in Parts(Tail(s))
  <2>1. i - 1 \in 1 .. Len(Tail(s)) /\ i - 1 + 1 = i
    BY <1>1, <1>2
  <2>2. Tail(s)[i - 1] = s[i]
    BY <1>1, <2>1
  <2> QED
    BY <2>1, <2>2 DEF Parts
<1>3. Parts(Tail(s)) \subseteq Parts(s) /\ 1 \in 1 .. Len(s)
  BY <1>1 DEF Parts
<1>4. Parts(s) = {s[1]} \cup Parts(Tail(s)) /\ Last(s) \in Parts(s)
  BY <1>1, <1>2, <1>3 DEF Parts, Last
<1>5. CASE Tail(s) # <<>>
  <2>1. Len(Tail(s)) \in 1 .. Len(Tail(s)) /\ Len(Tail(s)) + 1 = Len(s)
    BY <1>1, <1>5, EmptySeq
  <2>2. Tail(s)[Len(Tail(s))] = s[Len(s)]
    BY <1>1, <2>1
  <2> QED
    BY <1>4, <1>5, <2>2 DEF Last
<1>6. CASE Tail(s) = <<>>
  <2>1. Len(s) = 1 /\ 1 .. Len(s) = {1}
    BY <1>1, <1>6, EmptySeq
  <2> QED
    BY <1>6, <1>4, <2>1 DEF Last, Parts
<1> QED
  BY <1>4, <1>5, <1>6

LEMMA JoinPlan ==
    ASSUME NEW p \in Seq(Steps), NEW e \in Seq(Steps), e # <<>>
    PROVE  Parts(p \o e) = Parts(p) \cup Parts(e) /\ Last(p \o e) = Last(e)
<1>1. /\ p \o e \in Seq(Steps) /\ Len(p \o e) = Len(p) + Len(e)
      /\ Len(p) \in Nat /\ Len(e) \in Nat
      /\ \A i \in 1 .. Len(p) : (p \o e)[i] = p[i]
      /\ \A i \in 1 .. Len(e) : (p \o e)[Len(p) + i] = e[i]
      /\ \A i \in 1 .. Len(p \o e) :
           i \in 1 .. Len(p) \/ \E j \in 1 .. Len(e) : i = Len(p) + j
  BY Joined
<1>2. Len(e) # 0
  BY EmptySeq
<1> DEFINE c == p \o e
<1> HIDE DEF c
<1>3. ASSUME NEW i \in 1 .. Len(c) PROVE c[i] \in Parts(p) \cup Parts(e)
  BY <1>1, <1>3 DEF c, Parts
<1>4. ASSUME NEW i \in 1 .. Len(p) PROVE p[i] \in Parts(c)
  <2>1. i \in 1 .. Len(c) /\ c[i] = p[i]
    BY <1>1 DEF c
  <2> QED
    BY <2>1 DEF Parts
<1>5. ASSUME NEW i \in 1 .. Len(e) PROVE e[i] \in Parts(c)
  <2>1. Len(p) + i \in 1 .. Len(c) /\ c[Len(p) + i] = e[i]
    BY <1>1 DEF c
  <2> QED
    BY <2>1 DEF Parts
<1>6. Parts(c) = Parts(p) \cup Parts(e)
  BY <1>3, <1>4, <1>5 DEF Parts
<1>7. Last(c) = Last(e)
  BY <1>1, <1>2 DEF c, Last
<1> QED
  BY <1>6, <1>7 DEF c

LEMMA PlanParts ==
    /\ Parts(<<>>) = {}
    /\ \A e : Parts(<<e>>) = {e} /\ Last(<<e>>) = e
    /\ \A d, e : Parts(<<d, e>>) = {d, e} /\ Last(<<d, e>>) = e
    /\ Parts(TryClose) = {<<"close">>}
    /\ /\ Parts(StartRoute) = {<<"find", None>>, <<"exec">>, <<"note">>, <<"check">>}
       /\ Last(StartRoute) = <<"check">>
    /\ \A x : /\ Parts(ChangeRoute(x)) =
                   {<<"closeOld">>, <<"find", x>>, <<"exec">>, <<"note">>, <<"check">>}
              /\ Last(ChangeRoute(x)) = <<"check">>
<1>1. /\ 1 .. 0 = {} /\ 1 .. 1 = {1} /\ 1 .. 2 = {1, 2} /\ 1 .. 4 = {1, 2, 3, 4}
      /\ 1 .. 5 = {1, 2, 3, 4, 5}
  OBVIOUS
<1>2. Parts(<<>>) = {}
  BY <1>1 DEF Parts
<1>3. \A e : Parts(<<e>>) = {e} /\ Last(<<e>>) = e
  BY <1>1 DEF Parts, Last
<1>4. \A d, e : Parts(<<d, e>>) = {d, e} /\ Last(<<d, e>>) = e
  BY <1>1 DEF Parts, Last
<1>5. \A a, b, c, d : /\ Parts(<<a, b, c, d>>) = {a, b, c, d} /\ Last(<<a, b, c, d>>) = d
  BY <1>1 DEF Parts, Last
<1>6. \A a, b, c, d, e : /\ Parts(<<a, b, c, d, e>>) = {a, b, c, d, e}
                         /\ Last(<<a, b, c, d, e>>) = e
  BY <1>1 DEF Parts, Last
<1> QED
  BY <1>2, <1>3, <1>4, <1>5, <1>6 DEF TryClose, StartRoute, ChangeRoute

\* The plans with which requests begin, and those that a step puts in its place.
LEMMA AimsOfPlans ==
    ASSUME NEW x \in Servers, NEW y \in Servers, NEW addr, NEW l, NEW A
    PROVE  /\ addr \in A => Aims(Parts(StartRoute), Last(StartRoute), addr, l, A)
           /\ x \in Hosts =>
                /\ addr = x =>
                     LET s == StartRoute \o << <<"save", x>> >>
                     IN  Aims(Parts(s), Last(s), addr, l, A)
                /\ LET s == TryClose \o << <<"change", x>>, <<"save", x>> >>
                   IN  Aims(Parts(s), Last(s), addr, l, A)
                /\ LET s == ChangeRoute(x) \o << <<"save", x>> >>
                   IN  Aims(Parts(s), Last(s), addr, l, A)
                /\ LET s == << <<"save", x>>, <<"changeNext", x>> >>
                   IN  Aims(Parts(s), Last(s), addr, l, A)
                /\ x \in A => Aims(Parts(ChangeRoute(x)), Last(ChangeRoute(x)), addr, l, A)
           /\ LET s == TryClose \o << <<"next", x>> >>
              IN  Aims(Parts(s), Last(s), addr, l, A)
           /\ l \in Hosts /\ l \in A =>
                LET s == TryClose \o << <<"change", None>> >>
                IN  Aims(Parts(s), Last(s), addr, l, A)
           /\ LET s == TryClose \o << <<"renew", x>> >> \o StartRoute
                         \o << <<"save", y>>, <<"next", y>> >>
              IN  Aims(Parts(s), Last(s), addr, l, A)
<1>1. None \notin Hosts /\ None \in Servers
  BY NoneAssumption DEF Servers
<1>2. /\ TryClose \in Seq(Steps) /\ StartRoute \in Seq(Steps) /\ ChangeRoute(x) \in Seq(Steps)
  BY RoutePlans
<1>3. ASSUME addr \in A PROVE Aims(Parts(StartRoute), Last(StartRoute), addr, l, A)
  BY <1>3, PlanParts DEF Aims
<1>4. ASSUME x \in Hosts, addr = x
      PROVE  LET s == StartRoute \o << <<"save", x>> >>
             IN  Aims(Parts(s), Last(s), addr, l, A)
  <2> DEFINE e == << <<"save", x>> >>
  <2>1. e \in Seq(Steps) /\ e # <<>> /\ Parts(e) = {<<"save", x>>} /\ Last(e) = <<"save", x>>
    BY EndsLegal, PlanParts
  <2> HIDE DEF e
  <2>2. /\ Parts(StartRoute \o e) = Parts(StartRoute) \cup Parts(e)
        /\ Last(StartRoute \o e) = Last(e)
    BY <1>2, <2>1, JoinPlan
  <2>3. Aims(Parts(StartRoute \o e), Last(StartRoute \o e), addr, l, A)
    BY <1>4, <2>1, <2>2, PlanParts DEF Aims
  <2> QED
    BY <2>3 DEF e
<1>5. ASSUME x \in Hosts
      PROVE  LET s == TryClose \o << <<"change", x>>, <<"save", x>> >>
             IN  Aims(Parts(s), Last(s), addr, l, A)
  <2> DEFINE e == << <<"change", x>>, <<"save", x>> >>
  <2>1. e \in Seq(Steps) /\ e # <<>> /\ Last(e) = <<"save", x>>
        /\ Parts(e) = {<<"change", x>>, <<"save", x>>}
    <3>1. e \in Seq(Steps)
      BY EndsLegal
    <3>2. e # <<>>
      OBVIOUS
    <3> QED
      BY <3>1, <3>2, PlanParts
  <2> HIDE DEF e
  <2>2. /\ Parts(TryClose \o e) = Parts(TryClose) \cup Parts(e)
        /\ Last(TryClose \o e) = Last(e)
    BY <1>2, <2>1, JoinPlan
  <2>3. Aims(Parts(TryClose \o e), Last(TryClose \o e), addr, l, A)
    BY <1>5, <2>1, <2>2, PlanParts DEF Aims, Unmoved
  <2> QED
    BY <2>3 DEF e
<1>6. ASSUME x \in Hosts
      PROVE  LET s == ChangeRoute(x) \o << <<"save", x>> >>
             IN  Aims(Parts(s), Last(s), addr, l, A)
  <2> DEFINE e == << <<"save", x>> >>
  <2>1. e \in Seq(Steps) /\ e # <<>> /\ Parts(e) = {<<"save", x>>} /\ Last(e) = <<"save", x>>
    BY EndsLegal, PlanParts
  <2> HIDE DEF e
  <2>2. /\ Parts(ChangeRoute(x) \o e) = Parts(ChangeRoute(x)) \cup Parts(e)
        /\ Last(ChangeRoute(x) \o e) = Last(e)
    BY <1>2, <2>1, JoinPlan
  <2>3. Aims(Parts(ChangeRoute(x) \o e), Last(ChangeRoute(x) \o e), addr, l, A)
    <3> DEFINE E == Parts(ChangeRoute(x) \o e)
               z == Last(ChangeRoute(x) \o e)
    <3>1. /\ E = {<<"closeOld">>, <<"find", x>>, <<"exec">>, <<"note">>, <<"check">>,
                  <<"save", x>>}
          /\ z = <<"save", x>>
      BY <2>1, <2>2, PlanParts
    <3> HIDE DEF E, z
    <3>2. ~Unmoved(E)
      BY <1>1, <1>6, <3>1 DEF Unmoved
    <3>3. Aims(E, z, addr, l, A)
      BY <1>6, <3>1, <3>2 DEF Aims
    <3> QED
      BY <3>3 DEF E, z
  <2> QED
    BY <2>3 DEF e
<1>7. ASSUME x \in Hosts
      PROVE  LET s == << <<"save", x>>, <<"changeNext", x>> >>
             IN  Aims(Parts(s), Last(s), addr, l, A)
  BY <1>7, PlanParts DEF Aims
<1>8. ASSUME x \in Hosts, x \in A
      PROVE  Aims(Parts(ChangeRoute(x)), Last(ChangeRoute(x)), addr, l, A)
  <2> DEFINE E == Parts(ChangeRoute(x))
             z == Last(ChangeRoute(x))
  <2>1. /\ E = {<<"closeOld">>, <<"find", x>>, <<"exec">>, <<"note">>, <<"check">>}
        /\ z = <<"check">>
    BY PlanParts
  <2> HIDE DEF E, z
  <2>2. ~Unmoved(E)
    BY <1>1, <1>8, <2>1 DEF Unmoved
  <2>3. Aims(E, z, addr, l, A)
    BY <1>8, <2>1, <2>2 DEF Aims
  <2> QED
    BY <2>3 DEF E, z
<1>9. LET s == TryClose \o << <<"next", x>> >>
      IN  Aims(Parts(s), Last(s), addr, l, A)
  <2> DEFINE e == << <<"next", x>> >>
  <2>1. e \in Seq(Steps) /\ e # <<>> /\ Parts(e) = {<<"next", x>>} /\ Last(e) = <<"next", x>>
    BY EndsLegal, PlanParts
  <2> HIDE DEF e
  <2>2. /\ Parts(TryClose \o e) = Parts(TryClose) \cup Parts(e)
        /\ Last(TryClose \o e) = Last(e)
    BY <1>2, <2>1, JoinPlan
  <2>3. Aims(Parts(TryClose \o e), Last(TryClose \o e), addr, l, A)
    BY <2>1, <2>2, PlanParts DEF Aims
  <2> QED
    BY <2>3 DEF e
<1>10. ASSUME l \in Hosts, l \in A
       PROVE  LET s == TryClose \o << <<"change", None>> >>
              IN  Aims(Parts(s), Last(s), addr, l, A)
  <2> DEFINE e == << <<"change", None>> >>
  <2>1. e \in Seq(Steps) /\ e # <<>> /\ Parts(e) = {<<"change", None>>}
        /\ Last(e) = <<"change", None>>
    BY <1>1, EndsLegal, PlanParts
  <2> HIDE DEF e
  <2>2. /\ Parts(TryClose \o e) = Parts(TryClose) \cup Parts(e)
        /\ Last(TryClose \o e) = Last(e)
    BY <1>2, <2>1, JoinPlan
  <2>3. Aims(Parts(TryClose \o e), Last(TryClose \o e), addr, l, A)
    BY <1>10, <2>1, <2>2, PlanParts DEF Aims
  <2> QED
    BY <2>3 DEF e
<1>11. LET s == TryClose \o << <<"renew", x>> >> \o StartRoute
                  \o << <<"save", y>>, <<"next", y>> >>
       IN  Aims(Parts(s), Last(s), addr, l, A)
  <2> DEFINE e == << <<"save", y>>, <<"next", y>> >>
             r == << <<"renew", x>> >>
             p == TryClose \o r \o StartRoute
  <2>1. e \in Seq(Steps) /\ e # <<>> /\ Parts(e) = {<<"save", y>>, <<"next", y>>}
        /\ Last(e) = <<"next", y>>
    <3>1. e \in Seq(Steps)
      BY EndsLegal
    <3>2. e # <<>>
      OBVIOUS
    <3> QED
      BY <3>1, <3>2, PlanParts
  <2>2. /\ r \in Seq(Steps) /\ r # <<>> /\ Parts(r) = {<<"renew", x>>}
    <3>1. r \in Seq(Steps)
      BY StepsAre
    <3>2. r # <<>>
      OBVIOUS
    <3> QED
      BY <3>1, <3>2, PlanParts
  <2> HIDE DEF e, r
  <2>3. /\ TryClose \o r \in Seq(Steps)
        /\ Parts(TryClose \o r) = {<<"close">>, <<"renew", x>>}
    <3>1. Parts(TryClose \o r) = Parts(TryClose) \cup Parts(r)
      BY <1>2, <2>2, JoinPlan
    <3> QED
      BY <1>2, <2>2, <3>1, Joined, PlanParts
  <2>4. p \in Seq(Steps)
        /\ Parts(p) = {<<"close">>, <<"renew", x>>} \cup Parts(StartRoute)
    <3>1. StartRoute # <<>>
      BY DEF StartRoute
    <3>2. Parts(p) = Parts(TryClose \o r) \cup Parts(StartRoute)
      BY <1>2, <2>3, <3>1, JoinPlan
    <3> QED
      BY <1>2, <2>3, <3>2, Joined
  <2> HIDE DEF p
  <2>5. Parts(p \o e) = Parts(p) \cup Parts(e) /\ Last(p \o e) = Last(e)
    BY <2>1, <2>4, JoinPlan
  <2>6. Aims(Parts(p \o e), Last(p \o e), addr, l, A)
    BY <2>1, <2>4, <2>5, PlanParts DEF Aims
  <2> QED
    BY <2>6 DEF p, e, r
<1> QED
  BY <1>3, <1>4, <1>5, <1>6, <1>7, <1>8, <1>9, <1>10, <1>11

\* A save is the last step, or the last but one before the next route.
LEMMA SaveEnds ==
    ASSUME NEW s \in Seq(Steps), Legal(s), s # <<>>, s[1][1] = "save"
    PROVE  \/ Tail(s) = <<>>
           \/ /\ Tail(s) # <<>> /\ Last(s) = Tail(s)[1] /\ Last(Tail(s)) = Last(s)
              /\ Parts(Tail(s)) = {Last(s)} /\ Last(s)[1] \in {"next", "changeNext"}
<1> DEFINE t == Tail(s)
<1>1. t \in Seq(Steps) /\ Legal(t) /\ <<"save", First(t)>> \in Follow
  BY Rest, LegalTail
<1>2. First(t) \in {"next", "changeNext", "end"}
  BY <1>1 DEF Follow
<1>3. CASE t # <<>>
  <2>1. t[1] \in Steps /\ t[1][1] \in {"next", "changeNext"}
    BY <1>1, <1>2, <1>3, Rest, StepParts DEF First, Methods
  <2>2. Tail(t) \in Seq(Steps) /\ <<t[1][1], First(Tail(t))>> \in Follow
    BY <1>1, <1>3, Rest, LegalTail
  <2>3. First(Tail(t)) = "end"
    BY <2>1, <2>2 DEF Follow
  <2>4. Tail(t) = <<>>
    BY <2>2, <2>3, OnlyEndIsEmpty
  <2>5. Last(t) = t[1] /\ Parts(t) = {t[1]}
    BY <1>1, <1>3, <2>4, SplitPlan
  <2>6. Last(s) = Last(t)
    BY <1>3, SplitPlan
  <2> QED
    BY <1>3, <2>1, <2>5, <2>6
<1> QED
  BY <1>3

LEMMA AimsRest ==
    ASSUME NEW s \in Seq(Steps), Legal(s), s # <<>>, NEW addr, NEW l, NEW A,
           Aims(Parts(s), Last(s), addr, l, A),
           s[1][1] \in {"close", "closeOld", "exec", "note", "check"}
    PROVE  Ended(Tail(s), addr, l, A)
<1> DEFINE t == Tail(s)
<1>1. <<s[1][1], First(t)>> \in Follow /\ s[1] \in Steps
  BY Rest, LegalTail
<1>2. Parts(s) = {s[1]} \cup Parts(t)
  BY SplitPlan
<1>3. CASE t = <<>>
  <2>1. s[1][1] = "check"
    BY <1>1, <1>3 DEF First, Follow
  <2>2. Last(s) = s[1] /\ Parts(s) = {s[1]}
    BY <1>3, SplitPlan
  <2>3. Unmoved(Parts(s))
    BY <2>1, <2>2 DEF Unmoved
  <2> QED
    BY <1>3, <2>1, <2>2, <2>3 DEF Aims, Ended
<1>4. CASE t # <<>>
  <2>1. Last(t) = Last(s)
    BY <1>4, SplitPlan
  <2>2. Unmoved(Parts(t)) => Unmoved(Parts(s))
    BY <1>2 DEF Unmoved
  <2>3. Last(s)[1] # "changeNext"
    BY <1>2 DEF Aims
  <2> HIDE DEF t
  <2>4. Aims(Parts(t), Last(t), addr, l, A)
    BY <1>2, <2>1, <2>2, <2>3 DEF Aims
  <2> QED
    BY <1>4, <2>4 DEF Ended, t
<1> QED
  BY <1>3, <1>4

LEMMA AimsFind ==
    ASSUME NEW s \in Seq(Steps), Legal(s), s # <<>>, NEW addr, NEW l, NEW A,
           Aims(Parts(s), Last(s), addr, l, A), s[1][1] = "find"
    PROVE  Ended(Tail(s), IF s[1][2] = None THEN addr ELSE s[1][2], l, A)
<1> DEFINE t == Tail(s)
           x == s[1][2]
           addr2 == IF x = None THEN addr ELSE x
<1>1. <<s[1][1], First(t)>> \in Follow
  BY Rest, LegalTail
<1>2. t # <<>>
  BY <1>1 DEF First, Follow
<1>3. Parts(s) = {s[1]} \cup Parts(t) /\ Last(t) = Last(s)
  BY <1>2, SplitPlan
<1>4. Unmoved(Parts(t)) /\ x = None => Unmoved(Parts(s))
  BY <1>3 DEF Unmoved
<1>5. Last(s)[1] # "changeNext"
  BY <1>3 DEF Aims
<1>6. /\ Last(s)[1] = "save" => x \in {Last(s)[2], None}
      /\ Last(s)[1] = "check" => x = None \/ x \in A
  BY <1>3 DEF Aims
<1>7. Parts(t) \subseteq Parts(s)
  BY <1>3
<1>8. Last(s)[1] = "save" /\ Unmoved(Parts(t)) => addr2 = Last(s)[2]
  BY <1>4, <1>6 DEF Aims
<1>9. Last(s)[1] = "check" /\ Unmoved(Parts(t)) => addr2 \in A
  BY <1>4, <1>6 DEF Aims
<1> HIDE DEF t, x, addr2
<1>10. Aims(Parts(t), Last(t), addr2, l, A)
  BY <1>3, <1>5, <1>7, <1>8, <1>9 DEF Aims
<1> QED
  BY <1>2, <1>10 DEF t, x, addr2, Ended

LEMMA AimsRenew ==
    ASSUME NEW s \in Seq(Steps), Legal(s), s # <<>>, NEW addr, NEW l, NEW A, NEW addr2,
           Aims(Parts(s), Last(s), addr, l, A), s[1][1] = "renew"
    PROVE  Ended(Tail(s), addr2, l, A)
<1> DEFINE t == Tail(s)
<1>1. <<s[1][1], First(t)>> \in Follow
  BY Rest, LegalTail
<1>2. t # <<>>
  BY <1>1 DEF First, Follow
<1>3. Parts(s) = {s[1]} \cup Parts(t) /\ Last(t) = Last(s)
  BY <1>2, SplitPlan
<1>4. Last(s)[1] = "next"
  BY <1>3 DEF Aims
<1> HIDE DEF t
<1>5. Aims(Parts(t), Last(t), addr2, l, A)
  BY <1>3, <1>4 DEF Aims
<1> QED
  BY <1>2, <1>5 DEF t, Ended

LEMMA AimsSave ==
    ASSUME NEW s \in Seq(Steps), Legal(s), s # <<>>, NEW addr, NEW l, NEW A, NEW A2,
           Aims(Parts(s), Last(s), addr, l, A), s[1][1] = "save", s[1][2] \in A2
    PROVE  Ended(Tail(s), addr, l, A2)
<1> DEFINE t == Tail(s)
<1>1. Parts(s) = {s[1]} \cup Parts(t) /\ s[1] \in Steps
  BY SplitPlan, Rest
<1>2. CASE t = <<>>
  <2>1. Last(s) = s[1] /\ Parts(s) = {s[1]}
    BY <1>2, SplitPlan
  <2>2. Unmoved(Parts(s))
    BY <2>1 DEF Unmoved
  <2>3. addr = s[1][2]
    BY <2>1, <2>2 DEF Aims
  <2> QED
    BY <1>2, <2>3 DEF Ended
<1>3. CASE t # <<>>
  <2>1. /\ Last(t) = Last(s) /\ Parts(t) = {Last(s)}
        /\ Last(s)[1] \in {"next", "changeNext"}
    BY <1>3, SaveEnds
  <2>2. CASE Last(s)[1] = "next"
    <3> HIDE DEF t
    <3>1. Aims(Parts(t), Last(t), addr, l, A2)
      BY <2>1, <2>2 DEF Aims
    <3> QED
      BY <1>3, <3>1 DEF t, Ended
  <2>3. CASE Last(s)[1] = "changeNext"
    <3>1. /\ Last(s)[2] \in Hosts
          /\ Parts(s) \subseteq {<<"save", Last(s)[2]>>, <<"changeNext", Last(s)[2]>>}
      BY <2>3 DEF Aims
    <3>2. s[1] = <<"save", Last(s)[2]>>
      BY <1>1, <3>1
    <3>3. Last(s) \in Parts(s)
      BY SplitPlan
    <3>4. Last(s) = <<"changeNext", Last(s)[2]>> /\ Last(s)[2] \in A2
      BY <2>3, <3>1, <3>2, <3>3
    <3> HIDE DEF t
    <3>5. Aims(Parts(t), Last(t), addr, l, A2)
      BY <2>1, <2>3, <3>1, <3>4 DEF Aims
    <3> QED
      BY <1>3, <3>5 DEF t, Ended
  <2> QED
    BY <2>1, <2>2, <2>3
<1> QED
  BY <1>2, <1>3

\* A change to the server of the request, or to that of the login.
LEMMA AimsLoad ==
    ASSUME NEW s \in Seq(Steps), Legal(s), s # <<>>, NEW addr, NEW l \in Servers, NEW A,
           Aims(Parts(s), Last(s), addr, l, A), s[1][1] = "change"
    PROVE  LET l2 == IF s[1][2] = None THEN l ELSE s[1][2]
               c == ChangeRoute(l2) \o Tail(s)
           IN  Aims(Parts(c), Last(c), addr, l2, A)
<1> DEFINE t == Tail(s)
           x == s[1][2]
           l2 == IF x = None THEN l ELSE x
           c == ChangeRoute(l2) \o t
<1>1. /\ t \in Seq(Steps) /\ Legal(t) /\ <<s[1][1], First(t)>> \in Follow /\ s[1] \in Steps
      /\ None \notin Hosts /\ Hosts \subseteq Servers
  BY Rest, LegalTail, NoneAssumption DEF Servers
<1>2. Parts(s) = {s[1]} \cup Parts(t)
  BY SplitPlan
<1>3. CASE t = <<>>
  <2>1. Last(s) = s[1]
    BY <1>3, SplitPlan
  <2>2. l2 = l /\ l \in Hosts /\ l \in A
    BY <2>1 DEF Aims
  <2>3. ChangeRoute(l2) \in Seq(Steps)
    BY <2>2, RoutePlans
  <2>4. c = ChangeRoute(l2)
    BY <1>3, <2>3, ConcatEmptySeq
  <2> HIDE DEF c
  <2>5. Aims(Parts(ChangeRoute(l)), Last(ChangeRoute(l)), addr, l, A)
    BY <1>1, <2>2, AimsOfPlans
  <2>6. Aims(Parts(c), Last(c), addr, l2, A)
    BY <2>2, <2>4, <2>5
  <2> QED
    BY <2>6 DEF c
<1>4. CASE t # <<>>
  <2>1. t[1][1] = "save"
    <3>1. t[1] \in Steps /\ t[1][1] # "end"
      BY <1>1, <1>4, Rest, StepParts DEF Methods
    <3> QED
      BY <1>1, <1>4, <3>1 DEF First, Follow
  <2>2. Last(t) = Last(s) /\ Last(s)[1] \in {"change", "save"}
    BY <1>2, <1>4, SplitPlan DEF Aims
  <2>3. Tail(t) = <<>>
    BY <1>1, <1>4, <2>1, <2>2, SaveEnds
  <2>4. Last(t) = t[1] /\ t[1] \in Steps /\ Len(t) = 1
    <3>1. Last(t) = t[1]
      BY <1>1, <1>4, <2>3, SplitPlan
    <3>2. t[1] \in Steps /\ Len(t) \in Nat /\ Len(Tail(t)) = Len(t) - 1
      BY <1>1, <1>4, Rest
    <3>3. Len(Tail(t)) = 0
      BY <2>3, EmptySeq
    <3> QED
      BY <3>1, <3>2, <3>3, SMTT(30)
  <2>5. /\ Last(s)[1] = "save" /\ Last(s)[2] \in Hosts /\ x = Last(s)[2]
    BY <1>2, <2>1, <2>2, <2>4 DEF Aims
  <2>6. t[1] = <<"save", x>> /\ l2 = x /\ x \in Hosts /\ x \in Servers
    BY <1>1, <2>1, <2>2, <2>4, <2>5 DEF Steps
  <2>7. t = << <<"save", x>> >>
    <3> DEFINE e == << <<"save", x>> >>
    <3>1. <<"save", x>> \in Steps
      BY <2>6, StepsAre
    <3>2. e \in Seq(Steps) /\ Len(e) = 1 /\ e[1] = <<"save", x>>
      BY <3>1
    <3>3. t \in Seq(Steps) /\ Len(t) = 1 /\ t[1] = <<"save", x>>
      BY <1>1, <2>4, <2>6
    <3> HIDE DEF e, t
    <3>4. \A i \in 1 .. Len(t) : i = 1
      BY <3>3
    <3>5. \A i \in 1 .. Len(t) : t[i] = e[i]
      BY <3>2, <3>3, <3>4
    <3>6. t = e
      BY <3>2, <3>3, <3>5, SeqEqual
    <3> QED
      BY <3>6 DEF e
  <2>8. LET d == ChangeRoute(x) \o << <<"save", x>> >>
        IN  Aims(Parts(d), Last(d), addr, x, A)
    BY <2>6, AimsOfPlans
  <2>9. c = ChangeRoute(x) \o << <<"save", x>> >>
    BY <2>6, <2>7
  <2>10. Aims(Parts(c), Last(c), addr, l2, A)
    BY <2>6, <2>8, <2>9
  <2> QED
    BY <2>10
<1> QED
  BY <1>3, <1>4

LEMMA AimsLoadNext ==
    ASSUME NEW s \in Seq(Steps), Legal(s), s # <<>>, NEW addr, NEW l, NEW A,
           Aims(Parts(s), Last(s), addr, l, A), s[1][1] = "changeNext"
    PROVE  LET c == ChangeRoute(s[1][2]) \o Tail(s)
           IN  Aims(Parts(c), Last(c), addr, l, A)
<1> DEFINE t == Tail(s)
           x == s[1][2]
<1>1. /\ t \in Seq(Steps) /\ <<s[1][1], First(t)>> \in Follow
  BY Rest, LegalTail
<1>2. t = <<>>
  <2>1. First(t) = "end"
    BY <1>1 DEF Follow
  <2> QED
    BY <1>1, <2>1, OnlyEndIsEmpty
<1>3. Last(s) = s[1] /\ Parts(s) = {s[1]}
  BY <1>2, SplitPlan
<1>4. x \in Hosts /\ x \in A
  <2>1. x \in Hosts /\ (<<"save", x>> \in Parts(s) \/ x \in A)
    BY <1>3 DEF Aims
  <2>2. <<"save", x>> \notin Parts(s)
    BY <1>3
  <2> QED
    BY <2>1, <2>2
<1>5. x \in Servers
  BY <1>4 DEF Servers
<1>6. ChangeRoute(x) \o t = ChangeRoute(x)
  BY <1>2, <1>5, RoutePlans, ConcatEmptySeq
<1>7. Aims(Parts(ChangeRoute(x)), Last(ChangeRoute(x)), addr, l, A)
  BY <1>4, <1>5, AimsOfPlans
<1> QED
  BY <1>6, <1>7

\* A foreign save makes every server agree.
LEMMA AimsMore ==
    ASSUME NEW s, NEW addr, NEW l, NEW A, NEW l2, NEW A2, Ended(s, addr, l, A),
           A \subseteq A2, l \in Hosts /\ l \in A => l2 \in Hosts /\ l2 \in A2
    PROVE  Ended(s, addr, l2, A2)
<1>1. Aims(Parts(s), Last(s), addr, l, A) => Aims(Parts(s), Last(s), addr, l2, A2)
  BY DEF Aims
<1> QED
  BY <1>1 DEF Ended

LEMMA AimsKept ==
    ASSUME SavedInv, Track, ctl' = ctl, ctls'[ctl'].Addr = ctls[ctl].Addr,
           \A h \in Handlers : todo'[h] = todo[h],
           Agreeing \subseteq Agreeing',
           last \in Hosts /\ last \in Agreeing => last' \in Hosts /\ last' \in Agreeing'
    PROVE  SavedInv'
<1> SUFFICES ASSUME round' # "met" PROVE SavedInv'
  BY DEF SavedInv
<1>1. round # "met"
  BY OneAtATime
<1>2. ASSUME NEW h \in Handlers, Aim(h) PROVE Aim(h)'
  <2>1. Ended(todo[h], ctls[ctl].Addr, last', Agreeing')
    BY <1>2, AimsMore DEF Aim
  <2> QED
    BY <2>1 DEF Aim
<1>3. Quiet' <=> Quiet
  BY DEF Quiet, Busy
<1>4. \A h \in Handlers : Busy(h)' <=> Busy(h)
  BY DEF Busy
<1>5. Quiet' /\ ctl' # 0 => ctls'[ctl'].Addr \in Agreeing'
  BY <1>1, <1>3 DEF SavedInv
<1>6. \A h \in Handlers : Busy(h)' => Aim(h)'
  BY <1>1, <1>2, <1>4 DEF SavedInv
<1> QED
  BY <1>5, <1>6 DEF SavedInv

LEMMA AimMade ==
    ASSUME AloneInv, SavedInv, Track, NEW h \in Handlers, Busy(h) \/ todo'[h] # <<>>,
           \A g \in Handlers \ {h} : todo'[g] = todo[g],
           round' # "met" => Aim(h)'
    PROVE  SavedInv'
<1> SUFFICES ASSUME round' # "met" PROVE SavedInv'
  BY DEF SavedInv
<1>1. /\ round # "met"
      /\ \A f, g \in Handlers : todo'[f] # <<>> /\ todo'[g] # <<>> => f = g
  BY OneAtATime
<1>2. \A g \in Handlers \ {h} : todo'[g] = <<>>
  BY <1>1 DEF AloneInv, Busy
<1>3. Aim(h)'
  OBVIOUS
<1>4. todo'[h] = <<>> => ctls'[ctl'].Addr \in Agreeing'
  BY <1>3 DEF Aim, Ended
<1>5. Quiet' => todo'[h] = <<>>
  BY DEF Quiet, Busy
<1>6. \A g \in Handlers : Busy(g)' => g = h
  BY <1>2 DEF Busy
<1>7. \A g \in Handlers : Busy(g)' => Aim(g)'
  BY <1>3, <1>6
<1> QED
  BY <1>4, <1>5, <1>7 DEF SavedInv

LEMMA MethodAim ==
    ASSUME TypeInv, NEW h \in Handlers, Busy(h), Stage(h), Aim(h),
           Close(h) \/ Exec(h) \/ Note(h) \/ CheckRoute(h)
    PROVE  Aim(h)'
<1>1. /\ Then(h, <<>>) /\ UNCHANGED <<api, foreign>>
      /\ Head1(h) \in {"close", "closeOld", "exec", "note", "check"}
  BY DEF Close, Exec, Note, CheckRoute, At
<1>2. ctls'[ctl].Addr = ctls[ctl].Addr
  <2>1. cur[h] = ctl /\ ctl \in Ctls /\ ctls \in [Ctls -> CtlType]
    BY <1>1, AtWork, Types DEF Stage, Methods
  <2> QED
    BY <2>1 DEF Close, Exec, Note, CheckRoute, CtlType
<1>3. /\ todo[h] \in Seq(Steps) /\ todo[h] # <<>> /\ Legal(todo[h])
      /\ Head1(h) = todo[h][1][1] /\ todo'[h] = Tail(todo[h])
  BY <1>1, AtWork, Goes1
<1>4. Ended(Tail(todo[h]), ctls[ctl].Addr, last, Agreeing)
  BY <1>1, <1>3, AimsRest DEF Aim, Ended
<1>5. Agreeing' = Agreeing /\ ctl' = ctl /\ last' = last
  BY <1>1 DEF Agreeing, api
<1> QED
  BY <1>2, <1>3, <1>4, <1>5 DEF Aim

LEMMA FindAim ==
    ASSUME TypeInv, NEW h \in Handlers, Busy(h), Stage(h), Aim(h), Find(h)
    PROVE  Aim(h)'
<1>1. Then(h, <<>>) /\ UNCHANGED <<api, foreign>> /\ Head1(h) = "find"
  BY DEF Find, At
<1>2. /\ todo[h] \in Seq(Steps) /\ todo[h] # <<>> /\ Legal(todo[h])
      /\ Head1(h) = todo[h][1][1] /\ todo'[h] = Tail(todo[h]) /\ Head(todo[h]) = todo[h][1]
  BY <1>1, AtWork, Goes1
<1> DEFINE x == todo[h][1][2]
<1>3. ctls'[ctl].Addr = IF x = None THEN ctls[ctl].Addr ELSE x
  <2>1. cur[h] = ctl /\ ctl \in Ctls /\ ctls \in [Ctls -> CtlType]
    BY <1>1, AtWork, Types DEF Stage, Methods
  <2> QED
    BY <1>2, <2>1 DEF Find, CtlType
<1>4. Ended(Tail(todo[h]), IF x = None THEN ctls[ctl].Addr ELSE x, last, Agreeing)
  BY <1>1, <1>2, AimsFind DEF Aim, Ended
<1>5. Agreeing' = Agreeing /\ ctl' = ctl /\ last' = last
  BY <1>1 DEF Agreeing, api
<1> QED
  BY <1>2, <1>3, <1>4, <1>5 DEF Aim

LEMMA RenewAim ==
    ASSUME TypeInv, NEW h \in Handlers, Busy(h), Aim(h), Renew(h)
    PROVE  Aim(h)'
<1>1. Then(h, <<>>) /\ UNCHANGED <<last, saved, foreign>> /\ Head1(h) = "renew"
  BY DEF Renew, At
<1>2. /\ todo[h] \in Seq(Steps) /\ todo[h] # <<>> /\ Legal(todo[h])
      /\ Head1(h) = todo[h][1][1] /\ todo'[h] = Tail(todo[h])
  BY <1>1, AtWork, Goes1
<1>3. Ended(Tail(todo[h]), ctls'[ctl'].Addr, last, Agreeing)
  BY <1>1, <1>2, AimsRenew DEF Aim, Ended
<1>4. Agreeing' = Agreeing /\ last' = last
  BY <1>1 DEF Agreeing
<1> QED
  BY <1>2, <1>3, <1>4 DEF Aim

LEMMA SaveAim ==
    ASSUME TypeInv, NEW h \in Handlers, Busy(h), Aim(h), Save(h)
    PROVE  Aim(h)'
<1>1. /\ Then(h, <<>>) /\ UNCHANGED <<ctls, ctl, last>> /\ Head1(h) = "save"
      /\ saved' = Head(todo[h])[2]
  BY DEF Save, At
<1>2. /\ todo[h] \in Seq(Steps) /\ todo[h] # <<>> /\ Legal(todo[h])
      /\ Head1(h) = todo[h][1][1] /\ todo'[h] = Tail(todo[h]) /\ Head(todo[h]) = todo[h][1]
      /\ todo[h][1] \in Steps
  BY <1>1, AtWork, Goes1
<1>3. todo[h][1][2] \in Agreeing'
  <2>1. todo[h][1][2] \in Servers
    BY <1>1, <1>2, StepParts
  <2> QED
    BY <1>1, <1>2, <2>1 DEF Agreeing
<1>4. Ended(Tail(todo[h]), ctls[ctl].Addr, last, Agreeing')
  BY <1>1, <1>2, <1>3, AimsSave DEF Aim, Ended
<1> QED
  BY <1>1, <1>2, <1>4 DEF Aim

LEMMA LoadAim ==
    ASSUME TypeInv, NEW h \in Handlers, Busy(h), Aim(h), Load(h)
    PROVE  Aim(h)'
<1>1. /\ UNCHANGED <<ctls, ctl, saved, foreign>> /\ Head1(h) = "change"
      /\ last' = IF Head(todo[h])[2] = None THEN last ELSE Head(todo[h])[2]
      /\ Then(h, ChangeRoute(last'))
  BY DEF Load, At
<1>2. /\ todo[h] \in Seq(Steps) /\ todo[h] # <<>> /\ Legal(todo[h])
      /\ Head1(h) = todo[h][1][1] /\ Head(todo[h]) = todo[h][1] /\ todo[h][1] \in Steps
  BY AtWork
<1> DEFINE l2 == IF todo[h][1][2] = None THEN last ELSE todo[h][1][2]
           c == ChangeRoute(l2) \o Tail(todo[h])
<1>3. last' = l2 /\ last \in Servers /\ l2 \in Servers
  BY <1>1, <1>2, StepParts, Types
<1>4. todo'[h] = c /\ c # <<>>
  <2>1. todo'[h] = c /\ First(todo'[h]) = "closeOld"
    BY <1>1, <1>3, ChangePlanned
  <2> QED
    BY <2>1 DEF First
<1>5. Aims(Parts(c), Last(c), ctls[ctl].Addr, l2, Agreeing)
  BY <1>1, <1>2, <1>3, AimsLoad DEF Aim, Ended
<1>6. Agreeing' = Agreeing
  BY <1>1 DEF Agreeing
<1> HIDE DEF c, l2
<1> QED
  BY <1>1, <1>3, <1>4, <1>5, <1>6 DEF Aim, Ended

LEMMA LoadNextAim ==
    ASSUME TypeInv, NEW h \in Handlers, Busy(h), Aim(h), LoadNext(h)
    PROVE  Aim(h)'
<1>1. /\ UNCHANGED <<ctls, api, foreign>> /\ Head1(h) = "changeNext"
      /\ Then(h, ChangeRoute(Head(todo[h])[2]))
  BY DEF LoadNext, At
<1>2. /\ todo[h] \in Seq(Steps) /\ todo[h] # <<>> /\ Legal(todo[h])
      /\ Head1(h) = todo[h][1][1] /\ Head(todo[h]) = todo[h][1] /\ todo[h][1] \in Steps
  BY AtWork
<1> DEFINE c == ChangeRoute(todo[h][1][2]) \o Tail(todo[h])
<1>3. todo[h][1][2] \in Servers
  BY <1>1, <1>2, StepParts
<1>4. todo'[h] = c /\ c # <<>>
  <2>1. todo'[h] = c /\ First(todo'[h]) = "closeOld"
    BY <1>1, <1>2, <1>3, ChangePlanned
  <2> QED
    BY <2>1 DEF First
<1>5. Aims(Parts(c), Last(c), ctls[ctl].Addr, last, Agreeing)
  BY <1>1, <1>2, AimsLoadNext DEF Aim, Ended
<1>6. Agreeing' = Agreeing /\ ctls' = ctls /\ ctl' = ctl /\ last' = last
  BY <1>1 DEF Agreeing, api
<1> HIDE DEF c
<1> QED
  BY <1>4, <1>5, <1>6 DEF Aim, Ended

LEMMA NextAim ==
    ASSUME TypeInv, NEW h \in Handlers, Busy(h), Next1(h)
    PROVE  Aim(h)'
<1>1. PICK x \in Hosts : todo'[h] = << <<"save", x>>, <<"changeNext", x>> >>
  BY NextPlanned
<1> DEFINE c == << <<"save", x>>, <<"changeNext", x>> >>
<1>2. x \in Servers
  BY DEF Servers
<1>3. ASSUME NEW addr, NEW l, NEW A PROVE Aims(Parts(c), Last(c), addr, l, A)
  BY <1>2, AimsOfPlans
<1>4. c # <<>>
  OBVIOUS
<1> HIDE DEF c
<1>5. Aims(Parts(c), Last(c), ctls'[ctl'].Addr, last', Agreeing')
  BY <1>3
<1> QED
  BY <1>1, <1>4, <1>5 DEF Aim, Ended, c

\* What a request begins ends with the file and the ClientControl agreeing.
LEMMA SwitchHostAim ==
    ASSUME TypeInv, NEW h \in Handlers, SwitchHost(h)
    PROVE  Aim(h)'
<1>1. PICK host \in ToSet(routes) :
        \/ /\ ctl = 0 /\ New(h, host) /\ last' = host /\ saved' = host
           /\ foreign' = FALSE /\ Begin(h, StartRoute) /\ UNCHANGED routes
        \/ /\ ctl # 0 /\ cur' = [cur EXCEPT ![h] = ctl]
           /\ Begin(h, TryClose \o << <<"change", host>>, <<"save", host>> >>)
           /\ UNCHANGED <<ctls, api, foreign>>
  BY DEF SwitchHost
<1>2. host \in Hosts /\ host \in Servers
  BY ListedAre
<1>3. CASE ctl = 0 /\ New(h, host) /\ saved' = host /\ Begin(h, StartRoute)
  <2>1. todo'[h] = StartRoute /\ StartRoute # <<>>
    BY <1>3, RequestPlans, Begins DEF StartRoute
  <2>2. ctls'[ctl'].Addr = host /\ host \in Agreeing'
    BY <1>2, <1>3, NewMakes DEF Agreeing
  <2>3. Aims(Parts(StartRoute), Last(StartRoute), ctls'[ctl'].Addr, last', Agreeing')
    BY <1>2, <2>2, AimsOfPlans
  <2> QED
    BY <2>1, <2>3 DEF Aim, Ended
<1>4. CASE Begin(h, TryClose \o << <<"change", host>>, <<"save", host>> >>)
  <2> DEFINE s == TryClose \o << <<"change", host>>, <<"save", host>> >>
  <2>1. s \in Seq(Steps) /\ First(s) = "close"
    BY <1>2, RequestPlans
  <2>2. ASSUME NEW addr, NEW l, NEW A PROVE Aims(Parts(s), Last(s), addr, l, A)
    BY <1>2, AimsOfPlans
  <2> HIDE DEF s
  <2>3. todo'[h] = s /\ s # <<>>
    <3>1. Begin(h, s)
      BY <1>4 DEF s
    <3> QED
      BY <2>1, <3>1, Begins DEF First
  <2>4. Aims(Parts(s), Last(s), ctls'[ctl'].Addr, last', Agreeing')
    BY <2>2
  <2> QED
    BY <2>3, <2>4 DEF Aim, Ended
<1> QED
  BY <1>1, <1>3, <1>4

LEMMA SwitchNextAim ==
    ASSUME TypeInv, NEW h \in Handlers, SwitchNext(h)
    PROVE  Aim(h)'
<1>1. routes[1] \in Hosts /\ routes[1] \in Servers /\ None \in Servers
  BY ListedAre DEF SwitchNext, Switchable
<1>2. CASE New(h, routes[1]) /\ Begin(h, StartRoute \o << <<"save", routes[1]>> >>)
  <2> DEFINE x == routes[1]
             s == StartRoute \o << <<"save", x>> >>
  <2>1. s \in Seq(Steps) /\ First(s) = "find"
    BY <1>1, RequestPlans
  <2>2. ASSUME NEW l, NEW A PROVE Aims(Parts(s), Last(s), x, l, A)
    BY <1>1, AimsOfPlans
  <2>3. ctls'[ctl'].Addr = x /\ Begin(h, s)
    BY <1>1, <1>2, NewMakes
  <2> HIDE DEF s
  <2>4. todo'[h] = s /\ s # <<>>
    BY <2>1, <2>3, Begins DEF First
  <2>5. Aims(Parts(s), Last(s), ctls'[ctl'].Addr, last', Agreeing')
    BY <2>2, <2>3
  <2> QED
    BY <2>4, <2>5 DEF Aim, Ended
<1>3. CASE Begin(h, TryClose \o << <<"next", None>> >>)
  <2> DEFINE s == TryClose \o << <<"next", None>> >>
  <2>1. s \in Seq(Steps) /\ First(s) = "close" /\ Begin(h, s)
    BY <1>1, <1>3, RequestPlans
  <2>2. ASSUME NEW addr, NEW l, NEW A PROVE Aims(Parts(s), Last(s), addr, l, A)
    BY <1>1, AimsOfPlans
  <2> HIDE DEF s
  <2>3. todo'[h] = s /\ s # <<>>
    BY <2>1, Begins DEF First
  <2>4. Aims(Parts(s), Last(s), ctls'[ctl'].Addr, last', Agreeing')
    BY <2>2
  <2> QED
    BY <2>3, <2>4 DEF Aim, Ended
<1> QED
  BY <1>2, <1>3 DEF SwitchNext

LEMMA ReportAim ==
    ASSUME TypeInv, NEW h \in Handlers, Report(h)
    PROVE  Aim(h)'
<1> DEFINE now == ctls[ctl].Addr
           s == TryClose \o << <<"renew", now>> >> \o StartRoute
                  \o << <<"save", now>>, <<"next", now>> >>
<1>1. now \in Servers
  <2>1. ctl \in Ctls
    BY Types DEF Report
  <2> QED
    BY <2>1, Types DEF CtlType
<1>2. s \in Seq(Steps) /\ First(s) = "close"
  BY <1>1, ReportLegal
<1>3. Begin(h, s)
  BY DEF Report
<1>4. ASSUME NEW addr, NEW l, NEW A PROVE Aims(Parts(s), Last(s), addr, l, A)
  BY <1>1, AimsOfPlans
<1> HIDE DEF s
<1>5. todo'[h] = s /\ s # <<>>
  BY <1>2, <1>3, Begins DEF First
<1>6. Aims(Parts(s), Last(s), ctls'[ctl'].Addr, last', Agreeing')
  BY <1>4
<1> QED
  BY <1>5, <1>6 DEF Aim, Ended

\* A login that chooses no server is a foreign save.
LEMMA LogInAim ==
    ASSUME TypeInv, NEW h \in Handlers, LogIn(h)
    PROVE  /\ todo'[h] # <<>> => Aim(h)'
           /\ todo'[h] = <<>> => /\ foreign' = TRUE /\ last' \in Servers
                                 /\ last \in Hosts => last' \in Hosts
<1>1. PICK list \in Lists, field \in Hosts \cup {None} :
         LET use == IF field = None THEN last ELSE field
             known == use \in ToSet(list)
         IN  /\ last' = use /\ saved' = field
             /\ foreign' = (~known \/ field = None)
             /\ CASE ~known -> Begin(h, <<>>) /\ UNCHANGED <<ctls, ctl, cur>>
                  [] known /\ ctl = 0 -> New(h, use) /\ Begin(h, StartRoute)
                  [] known /\ ctl # 0 ->
                       /\ cur' = [cur EXCEPT ![h] = ctl] /\ UNCHANGED <<ctls, ctl>>
                       /\ Begin(h, TryClose \o << <<"change", None>> >>)
  BY DEF LogIn
<1> DEFINE use == IF field = None THEN last ELSE field
           known == use \in ToSet(list)
<1>2. use \in Servers /\ last' = use /\ None \in Servers /\ (last \in Hosts => use \in Hosts)
  BY <1>1, Types DEF Servers
<1>3. known => use \in Hosts /\ use \in Agreeing'
  <2>1. known => use \in Hosts
    BY ListedAre
  <2>2. known /\ ~foreign' => saved' = use
    BY <1>1
  <2> QED
    BY <1>2, <2>1, <2>2 DEF Agreeing
<1>4. CASE ~known
  <2>1. Begin(h, <<>>) /\ foreign' = TRUE
    BY <1>1, <1>4
  <2>2. todo'[h] = <<>>
    BY <2>1, EndsLegal, Begins
  <2> QED
    BY <1>2, <2>1, <2>2
<1>5. CASE known /\ ctl = 0
  <2>1. New(h, use) /\ Begin(h, StartRoute)
    BY <1>1, <1>5
  <2>2. todo'[h] = StartRoute /\ StartRoute # <<>>
    BY <2>1, RequestPlans, Begins DEF StartRoute
  <2>3. ctls'[ctl'].Addr = use
    BY <1>2, <2>1, NewMakes
  <2>4. Aims(Parts(StartRoute), Last(StartRoute), ctls'[ctl'].Addr, last', Agreeing')
    BY <1>2, <1>3, <1>5, <2>3, AimsOfPlans
  <2> QED
    BY <2>2, <2>4 DEF Aim, Ended
<1>6. CASE known /\ ctl # 0
  <2> DEFINE s == TryClose \o << <<"change", None>> >>
  <2>1. s \in Seq(Steps) /\ First(s) = "close" /\ Begin(h, s)
    BY <1>1, <1>2, <1>6, RequestPlans
  <2>2. last' \in Hosts /\ last' \in Agreeing'
    BY <1>2, <1>3, <1>6
  <2>3. Aims(Parts(s), Last(s), ctls'[ctl'].Addr, last', Agreeing')
    BY <1>2, <2>2, AimsOfPlans
  <2> HIDE DEF s
  <2>4. todo'[h] = s /\ s # <<>>
    BY <2>1, Begins DEF First
  <2> QED
    BY <2>3, <2>4 DEF Aim, Ended
<1> QED
  BY <1>4, <1>5, <1>6

LEMMA SavedStep ==
    ASSUME TypeInv, AloneInv, SavedInv, [Next]_vars
    PROVE  SavedInv'
<1>1. CASE UNCHANGED vars
  BY <1>1 DEF SavedInv, Aim, Agreeing, Quiet, Busy, vars, api, history
<1>2. CASE Next
  <2>1. machine' = machine /\ good' = good /\ Track
    BY <1>2 DEF Next
  <2> SUFFICES ASSUME round' # "met" PROVE SavedInv'
    BY DEF SavedInv
  <2>2. ASSUME NEW h \in Handlers, Step(h) PROVE SavedInv'
    <3>1. Busy(h) /\ round # "met"
      BY <2>1, <2>2, OneAtATime DEF Step
    <3>2. Stage(h) /\ Aim(h)
      BY <3>1 DEF AloneInv, SavedInv
    <3>3. \A g \in Handlers \ {h} : todo'[g] = todo[g]
      BY <2>2, <3>1, <3>2, CloseStage, FindStage, ExecStage, NoteStage, CheckStage, PlainStage,
         RenewStage DEF Step
    <3>4. Aim(h)'
      BY <2>2, <3>1, <3>2, MethodAim, FindAim, RenewAim, SaveAim, LoadAim, LoadNextAim, NextAim
      DEF Step
    <3> QED
      BY <2>1, <3>1, <3>3, <3>4, AimMade
  <2>3. ASSUME NEW h \in Handlers, Report(h) PROVE SavedInv'
    <3>1. todo'[h] # <<>> /\ \A g \in Handlers \ {h} : todo'[g] = todo[g]
      BY <2>1, <2>3, ReportTypes
    <3> QED
      BY <2>1, <2>3, <3>1, ReportAim, AimMade
  <2>4. ASSUME NEW p \in Pids, Child(p) \/ Dies(p) PROVE SavedInv'
    <3>1. UNCHANGED <<ctls, api, todo>> /\ foreign' = foreign
      BY <2>4 DEF Child, Built, Fails, Bind, Exit, Dies, Move
    <3>2. Agreeing' = Agreeing
      BY <3>1 DEF Agreeing, api
    <3> QED
      BY <2>1, <3>1, <3>2, AimsKept DEF api
  <2>5. ASSUME NEW h \in Handlers, Serve(h) PROVE SavedInv'
    <3>1. CASE SwitchHost(h)
      <4>1. todo'[h] # <<>> /\ \A g \in Handlers \ {h} : todo'[g] = todo[g]
        BY <2>1, <3>1, SwitchHostTypes
      <4> QED
        BY <2>1, <3>1, <4>1, SwitchHostAim, AimMade
    <3>2. CASE SwitchNext(h)
      <4>1. todo'[h] # <<>> /\ \A g \in Handlers \ {h} : todo'[g] = todo[g]
        BY <2>1, <3>2, SwitchNextTypes
      <4> QED
        BY <2>1, <3>2, <4>1, SwitchNextAim, AimMade
    <3>3. CASE LogIn(h) /\ todo'[h] # <<>>
      <4>1. \A g \in Handlers \ {h} : todo'[g] = todo[g]
        BY <2>1, <3>3, LogInTypes
      <4> QED
        BY <2>1, <3>3, <4>1, LogInAim, AimMade
    <3>4. CASE LogIn(h) /\ todo'[h] = <<>>
      <4>1. /\ ~Busy(h) /\ \A g \in Handlers \ {h} : todo'[g] = todo[g]
            /\ ctl' = ctl /\ ctls' = ctls
        BY <2>1, <3>4, LogInTypes
      <4>2. \A g \in Handlers : todo'[g] = todo[g]
        BY <3>4, <4>1 DEF Busy
      <4>3. Agreeing \subseteq Agreeing' /\ last' \in Agreeing'
        BY <3>4, LogInAim DEF Agreeing
      <4>4. last \in Hosts => last' \in Hosts
        BY <3>4, LogInAim
      <4> QED
        BY <2>1, <4>1, <4>2, <4>3, <4>4, AimsKept
    <3> QED
      BY <2>5, <3>1, <3>2, <3>3, <3>4 DEF Serve
  <2>6. CASE FirewallSave
    <3>1. UNCHANGED <<ctls, ctl, last, todo>> /\ foreign' = TRUE
      BY <2>6 DEF FirewallSave
    <3>2. Agreeing \subseteq Agreeing'
      BY <3>1 DEF Agreeing
    <3> QED
      BY <2>1, <3>1, <3>2, AimsKept
  <2>7. CASE Relist
    <3>1. UNCHANGED <<ctls, ctl, last, todo, saved, foreign>>
      BY <2>7 DEF Relist
    <3>2. Agreeing' = Agreeing
      BY <3>1 DEF Agreeing
    <3> QED
      BY <2>1, <3>1, <3>2, AimsKept
  <2> QED
    BY <1>2, <2>2, <2>3, <2>4, <2>5, <2>6, <2>7 DEF Next, Work
<1> QED
  BY <1>1, <1>2

\* While requests come one at a time, the file names the server of the route in
\* use after each of them, unless the last save was that of a firewall switch or
\* of a login that chose no route.
THEOREM SavedRouteAgrees == Spec => []SavedAgrees
<1>1. Init => AloneInv /\ SavedInv
  <2> SUFFICES ASSUME Init PROVE AloneInv /\ SavedInv
    OBVIOUS
  <2>1. Rivals = {} /\ ctl = 0 /\ \A h \in Handlers : ~Busy(h)
    BY DEF Init, Rivals, Alive, Busy
  <2> QED
    BY <2>1 DEF AloneInv, Current, SavedInv
<1>2. SavedInv => SavedAgrees
  BY DEF SavedInv, SavedAgrees, Agreeing
<1>3. Init => TypeInv
  BY TypesBegin
<1>4. TypeInv /\ AloneInv /\ SavedInv /\ [Next]_vars => TypeInv' /\ AloneInv' /\ SavedInv'
  BY TypesKept, AloneStep, SavedStep
<1> QED
  BY <1>1, <1>2, <1>3, <1>4, PTL DEF Spec

-----------------------------------------------------------------------------
(* Asking for the next route.                                               *)

\* The n-th server that is visited is the n-th of the list.
LEMMA VisitsInOrder ==
    ASSUME NEW list \in Seq(Hosts), list # <<>>, IsInjective(list), NEW visit,
           visit = [n \in 0 .. Len(list) |->
                      IF n = 0 THEN list[1] ELSE NextRoute(list, visit[n - 1])]
    PROVE  \A n \in 0 .. Len(list) : visit[n] = list[IF n < Len(list) THEN n + 1 ELSE 1]
<1>1. Len(list) \in Nat \ {0}
  BY EmptySeq
<1> DEFINE to(n) == list[IF n < Len(list) THEN n + 1 ELSE 1]
           D == {n \in 0 .. Len(list) : visit[n] # to(n)}
<1>2. SUFFICES ASSUME D # {} PROVE FALSE
  OBVIOUS
<1>3. D \subseteq Nat
  BY <1>1
<1>4. PICK n \in D : \A m \in D : n <= m
  <2> HIDE DEF D
  <2> QED
    BY <1>2, <1>3, Least
<1>5. n \in 0 .. Len(list) /\ n \in Nat
  BY <1>3
<1>6. visit[n] = IF n = 0 THEN list[1] ELSE NextRoute(list, visit[n - 1])
  <2>1. \A m \in 0 .. Len(list) :
          [k \in 0 .. Len(list) |->
             IF k = 0 THEN list[1] ELSE NextRoute(list, visit[k - 1])][m]
          = IF m = 0 THEN list[1] ELSE NextRoute(list, visit[m - 1])
    OBVIOUS
  <2> QED
    BY <1>5, <2>1, Zenon
<1>7. CASE n = 0
  BY <1>1, <1>6, <1>7
<1>8. CASE n # 0
  <2>1. n - 1 \in 0 .. Len(list) /\ n - 1 < Len(list) /\ n \in 1 .. Len(list) /\ ~(n <= n - 1)
        /\ n - 1 + 1 = n
    BY <1>1, <1>5, <1>8
  <2>2. n - 1 \notin D
    BY <1>4, <2>1
  <2>3. visit[n - 1] = list[n]
    BY <2>1, <2>2
  <2>4. visit[n] = NextRoute(list, list[n])
    BY <1>6, <1>8, <2>3
  <2> QED
    BY <2>1, <2>4, NextFollows
<1> QED
  BY <1>7, <1>8

\* There is such a function.
LEMMA VisitExists ==
    ASSUME NEW list \in Seq(Hosts), list # <<>>, IsInjective(list)
    PROVE  \E visit : visit = [n \in 0 .. Len(list) |->
                        IF n = 0 THEN list[1] ELSE NextRoute(list, visit[n - 1])]
<1>1. Len(list) \in Nat \ {0}
  BY EmptySeq
<1> DEFINE to(n) == list[IF n < Len(list) THEN n + 1 ELSE 1]
           f == [n \in 0 .. Len(list) |-> to(n)]
<1>2. ASSUME NEW n \in 0 .. Len(list)
      PROVE  to(n) = IF n = 0 THEN list[1] ELSE NextRoute(list, f[n - 1])
  <2>1. CASE n = 0
    BY <1>1, <2>1
  <2>2. CASE n # 0
    <3>1. n - 1 \in 0 .. Len(list) /\ n - 1 < Len(list) /\ n \in 1 .. Len(list)
          /\ n - 1 + 1 = n
      BY <1>1, <2>2
    <3>2. f[n - 1] = list[n]
      BY <3>1
    <3> HIDE DEF f
    <3> QED
      BY <2>2, <3>1, <3>2, NextFollows
  <2> QED
    BY <2>1, <2>2
<1>3. f = [n \in 0 .. Len(list) |->
             IF n = 0 THEN list[1] ELSE NextRoute(list, f[n - 1])]
  BY <1>2
<1> HIDE DEF f
<1> QED
  BY <1>3

\* If no login brings a list that names a server twice, asking for the next
\* route again and again reaches every server of the list.
THEOREM NextReachesAll ==
    ASSUME \A list \in Lists : IsInjective(list)
    PROVE  Spec => []NextVisitsAll
<1>1. TypeInv => NextVisitsAll
  <2> SUFFICES ASSUME TypeInv, routes # <<>> PROVE NextVisitsAll
    BY DEF NextVisitsAll
  <2>1. routes \in Seq(Hosts) /\ IsInjective(routes)
    BY ListedAre, Types
  <2> DEFINE visit[n \in 0 .. Len(routes)] ==
               IF n = 0 THEN routes[1] ELSE NextRoute(routes, visit[n - 1])
  <2>2. visit = [n \in 0 .. Len(routes) |->
                   IF n = 0 THEN routes[1] ELSE NextRoute(routes, visit[n - 1])]
    <3>1. \E v : v = [n \in 0 .. Len(routes) |->
                        IF n = 0 THEN routes[1] ELSE NextRoute(routes, v[n - 1])]
      BY <2>1, VisitExists
    <3> QED
      BY <3>1
  <2> HIDE DEF visit
  <2>3. \A n \in 0 .. Len(routes) :
          visit[n] = routes[IF n < Len(routes) THEN n + 1 ELSE 1]
    BY <2>1, <2>2, VisitsInOrder
  <2>4. ASSUME NEW h \in ToSet(routes) PROVE \E n \in 0 .. Len(routes) : visit[n] = h
    <3>1. PICK i \in 1 .. Len(routes) : h = routes[i]
      BY <2>1, LenProperties DEF ToSet
    <3>2. /\ i - 1 \in 0 .. Len(routes) /\ i - 1 < Len(routes) /\ i - 1 + 1 = i
      BY <2>1, LenProperties
    <3>3. visit[i - 1] = h
      BY <2>3, <3>1, <3>2
    <3> QED
      BY <3>2, <3>3
  <2> QED
    BY <2>4 DEF NextVisitsAll, visit
<1>2. Init => TypeInv
  BY TypesBegin
<1>3. TypeInv /\ [Next]_vars => TypeInv'
  BY TypesKept
<1> QED
  BY <1>1, <1>2, <1>3, PTL DEF Spec

=============================================================================
