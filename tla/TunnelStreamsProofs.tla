------------------------ MODULE TunnelStreamsProofs ------------------------
(***************************************************************************)
(* Proofs about TunnelStreams, for every finite set of streams, every set  *)
(* of tunnels and every limit.                                             *)
(***************************************************************************)
EXTENDS TunnelStreams, FiniteSetTheorems, TLAPS

-----------------------------------------------------------------------------
(* Type correctness.                                                       *)

LEMMA TypeInit == Init => TypeOK
  BY DEF Init, TypeOK, Running, Waiting, Directions

LEMMA TypeNext == TypeOK /\ [Next]_vars => TypeOK'
  <1> SUFFICES ASSUME TypeOK, [Next]_vars PROVE TypeOK'
    OBVIOUS
  <1> USE TunnelOfAssumption, LimitAssumption, TimeAssumption
          DEF TypeOK, Running, Waiting, Directions, local, metrics,
              Goto, Touch, CloseAndDelCon, Add
  <1>1. ASSUME NEW s \in Streams, Accept(s) PROVE TypeOK'
    BY <1>1 DEF Accept
  <1>2. ASSUME NEW s \in Streams, Step(s) PROVE TypeOK'
    <2>1. CASE AcquireUnlimited(s)  BY <2>1 DEF AcquireUnlimited
    <2>2. CASE AcquireAdd(s)        BY <2>2 DEF AcquireAdd
    <2>3. CASE AcquireCompare(s)    BY <2>3 DEF AcquireCompare
    <2>4. CASE AcquireUndo(s)       BY <2>4 DEF AcquireUndo
    <2>5. CASE Refuse(s)            BY <2>5 DEF Refuse
    <2>6. CASE ReleaseStream(s)     BY <2>6 DEF ReleaseStream
    <2>7. CASE RecordLoad(s)        BY <2>7 DEF RecordLoad
    <2>8. CASE RecordPause(s)       BY <2>8 DEF RecordPause
    <2>9. CASE TurnAway(s)          BY <2>9 DEF TurnAway
    <2>10. CASE RecordTotal(s)      BY <2>10 DEF RecordTotal
    <2>11. CASE RecordActive(s)     BY <2>11 DEF RecordActive
    <2>12. CASE RecordUnpause(s)    BY <2>12 DEF RecordUnpause
    <2>13. CASE ReleaseConnection(s) BY <2>13 DEF ReleaseConnection
    <2>14. CASE Hangup(s)           BY <2>14 DEF Hangup
    <2>15. CASE ControlReturn(s)    BY <2>15 DEF ControlReturn
    <2>16. CASE DnsNormal(s)        BY <2>16 DEF DnsNormal
    <2>17. CASE Unwind(s)           BY <2>17 DEF Unwind
    <2>18. CASE ConfirmOk(s)        BY <2>18 DEF ConfirmOk
    <2>19. CASE ConfirmFail(s)      BY <2>19 DEF ConfirmFail
    <2>20. CASE DialOk(s)           BY <2>20 DEF DialOk
    <2>21. CASE DialFail(s)         BY <2>21 DEF DialFail
    <2>22. CASE PipeReturn(s)       BY <2>22 DEF PipeReturn
    <2> QED  BY <1>2, <2>1, <2>2, <2>3, <2>4, <2>5, <2>6, <2>7, <2>8, <2>9,
                <2>10, <2>11, <2>12, <2>13, <2>14, <2>15, <2>16, <2>17, <2>18,
                <2>19, <2>20, <2>21, <2>22 DEF Step
  <1>3. ASSUME NEW s \in Streams, HandshakeOk(s) PROVE TypeOK'
    BY <1>3 DEF HandshakeOk
  <1>4. ASSUME NEW s \in Streams, HandshakeFail(s) PROVE TypeOK'
    BY <1>4 DEF HandshakeFail
  <1>5. ASSUME NEW s \in Streams, NEW d \in Directions, CopyEnd(s, d)
        PROVE  TypeOK'
    BY <1>5 DEF CopyEnd
  <1>6. CASE Tick
    BY <1>6 DEF Tick
  <1>7. CASE UNCHANGED vars
    BY <1>7 DEF vars
  <1> QED
    BY <1>1, <1>2, <1>3, <1>4, <1>5, <1>6, <1>7 DEF Next

\* HandleConnAsync keeps every counter and every per-stream state in its
\* type, for any number of streams and tunnels.
THEOREM TypeCorrect == Spec => []TypeOK
  <1>1. Init => TypeOK
    BY TypeInit
  <1>2. TypeOK /\ [Next]_vars => TypeOK'
    BY TypeNext
  <1> QED
    BY <1>1, <1>2, PTL DEF Spec

-----------------------------------------------------------------------------
(* The global budget.                                                      *)

\* Where a handler is, seen from the budget.
Before == {"new", "acquire"}
Inside == (Running \cup Waiting)
              \ {"new", "acquire", "compare", "undo", "refuse", "done"}

\* Handlers whose Add(1) returned a value within the limit.  They alone will
\* be admitted, and the comparison they have still to make cannot fail.
Granted == {s \in Holders : cur[s] <= globalStreamLimit}

\* Admitted alone is not inductive: a handler between its Add and its
\* comparison already owns the slot it will be admitted to.
BudgetInv ==
    globalStreamLimit > 0 =>
        /\ activeStreams = Cardinality(Holders)
        /\ Cardinality(Granted) <= globalStreamLimit
        /\ \A s \in Streams :
              /\ pc[s] \in Inside => cur[s] <= globalStreamLimit
              /\ pc[s] \in {"undo", "refuse"} => cur[s] > globalStreamLimit

\* A step that the budget does not notice.
Quiet ==
    /\ activeStreams' = activeStreams
    /\ cur' = cur
    /\ \A s \in Streams : \/ pc'[s] = pc[s]
                          \/ pc[s] \in Before /\ pc'[s] \in Before
                          \/ pc[s] \in Inside /\ pc'[s] \in Inside

\* Every step of the system is one of the five budget operations or Quiet.
LEMMA StepShape ==
    ASSUME TypeOK, [Next]_vars, globalStreamLimit > 0
    PROVE  \/ Quiet
           \/ \E s \in Streams : \/ AcquireAdd(s) \/ AcquireCompare(s)
                                 \/ AcquireUndo(s) \/ Refuse(s)
                                 \/ ReleaseStream(s)
  <1> USE LimitAssumption
      DEF TypeOK, Running, Waiting, Before, Inside, local, metrics,
          Goto, CloseAndDelCon
  <1>1. ASSUME NEW s \in Streams, Accept(s) PROVE Quiet
    BY <1>1 DEF Accept, Quiet
  <1>2. ASSUME NEW s \in Streams, Step(s)
        PROVE  \/ Quiet \/ AcquireAdd(s) \/ AcquireCompare(s)
               \/ AcquireUndo(s) \/ Refuse(s) \/ ReleaseStream(s)
    <2>1. ~AcquireUnlimited(s)            BY DEF AcquireUnlimited
    <2>7. CASE RecordLoad(s)        BY <2>7 DEF RecordLoad, Quiet
    <2>8. CASE RecordPause(s)       BY <2>8 DEF RecordPause, Quiet
    <2>9. CASE TurnAway(s)          BY <2>9 DEF TurnAway, Quiet
    <2>10. CASE RecordTotal(s)      BY <2>10 DEF RecordTotal, Quiet
    <2>11. CASE RecordActive(s)     BY <2>11 DEF RecordActive, Quiet
    <2>12. CASE RecordUnpause(s)    BY <2>12 DEF RecordUnpause, Quiet
    <2>13. CASE ReleaseConnection(s) BY <2>13 DEF ReleaseConnection, Quiet
    <2>14. CASE Hangup(s)           BY <2>14 DEF Hangup, Quiet
    <2>15. CASE ControlReturn(s)    BY <2>15 DEF ControlReturn, Quiet
    <2>16. CASE DnsNormal(s)        BY <2>16 DEF DnsNormal, Quiet
    <2>17. CASE Unwind(s)           BY <2>17 DEF Unwind, Quiet
    <2>18. CASE ConfirmOk(s)        BY <2>18 DEF ConfirmOk, Quiet
    <2>19. CASE ConfirmFail(s)      BY <2>19 DEF ConfirmFail, Quiet
    <2>20. CASE DialOk(s)           BY <2>20 DEF DialOk, Quiet
    <2>21. CASE DialFail(s)         BY <2>21 DEF DialFail, Quiet
    <2>22. CASE PipeReturn(s)       BY <2>22 DEF PipeReturn, Quiet
    <2> QED  BY <1>2, <2>1, <2>7, <2>8, <2>9, <2>10, <2>11, <2>12, <2>13,
                <2>14, <2>15, <2>16, <2>17, <2>18, <2>19, <2>20, <2>21, <2>22
             DEF Step
  <1>3. ASSUME NEW s \in Streams, HandshakeOk(s) PROVE Quiet
    <2>1. PICK branch \in {"control", "dns", "confirm"} :
             Goto(s, "handshake", branch)
      BY <1>3 DEF HandshakeOk
    <2> QED  BY <1>3, <2>1 DEF HandshakeOk, Quiet
  <1>4. ASSUME NEW s \in Streams, HandshakeFail(s) PROVE Quiet
    BY <1>4 DEF HandshakeFail, Quiet
  <1>5. ASSUME NEW s \in Streams, NEW d \in Directions, CopyEnd(s, d)
        PROVE  Quiet
    BY <1>5 DEF CopyEnd, Quiet
  <1>6. CASE Tick
    BY <1>6 DEF Tick, Quiet
  <1>7. CASE UNCHANGED vars
    BY <1>7 DEF vars, Quiet
  <1> QED
    BY <1>1, <1>2, <1>3, <1>4, <1>5, <1>6, <1>7 DEF Next

\* The sets the cardinalities are taken of are finite.
LEMMA BudgetSetsFinite ==
    /\ IsFiniteSet(Holders) /\ IsFiniteSet(Granted) /\ IsFiniteSet(Admitted)
  <1>1. Holders \in SUBSET Streams /\ Granted \in SUBSET Holders
        /\ Admitted \in SUBSET Holders
    BY DEF Holders, Granted, Admitted
  <1> QED
    BY <1>1, StreamsAssumption, FS_Subset

LEMMA BudgetInit == Init => BudgetInv
  <1> SUFFICES ASSUME Init, globalStreamLimit > 0 PROVE BudgetInv
    BY DEF BudgetInv
  <1>1. Holders = {} /\ Granted = {}
    BY DEF Init, Holders, Granted
  <1>2. Cardinality({}) = 0
    BY FS_EmptySet
  <1> QED
    BY <1>1, <1>2, LimitAssumption DEF Init, BudgetInv, Inside

LEMMA BudgetNext == TypeOK /\ BudgetInv /\ [Next]_vars => BudgetInv'
  <1> SUFFICES ASSUME TypeOK, BudgetInv, [Next]_vars, globalStreamLimit > 0
               PROVE  BudgetInv'
    BY DEF BudgetInv
  <1> USE LimitAssumption
  <1>0. /\ IsFiniteSet(Holders) /\ IsFiniteSet(Granted)
        /\ Cardinality(Holders) \in Nat /\ Cardinality(Granted) \in Nat
        /\ Granted \subseteq Holders
        /\ Cardinality(Granted) <= Cardinality(Holders)
    BY BudgetSetsFinite, FS_CardinalityType, FS_Subset DEF Granted
  <1>1. CASE Quiet
    <2>1. Holders' = Holders /\ Granted' = Granted
      BY <1>1 DEF TypeOK, Quiet, Holders, Granted, Before, Inside
    <2>2. ASSUME NEW s \in Streams
          PROVE  /\ pc'[s] \in Inside => cur'[s] <= globalStreamLimit
                 /\ pc'[s] \in {"undo", "refuse"} => cur'[s] > globalStreamLimit
      BY <1>1 DEF BudgetInv, TypeOK, Quiet, Before, Inside
    <2> QED  BY <1>1, <2>1, <2>2 DEF BudgetInv, Quiet, Inside
  <1>2. ASSUME NEW s \in Streams, AcquireAdd(s) PROVE BudgetInv'
    <2>1. Holders' = Holders \cup {s} /\ s \notin Holders
      BY <1>2 DEF TypeOK, AcquireAdd, Goto, Holders
    <2>2. Cardinality(Holders') = Cardinality(Holders) + 1
      BY <1>0, <2>1, FS_AddElement
    <2>3. Cardinality(Granted') <= globalStreamLimit
      <3>1. CASE activeStreams + 1 <= globalStreamLimit
        <4>1. Granted' = Granted \cup {s} /\ s \notin Granted
          BY <1>2, <2>1, <3>1 DEF TypeOK, AcquireAdd, Goto, Granted, Holders
        <4>2. Cardinality(Granted') = Cardinality(Granted) + 1
          BY <1>0, <4>1, FS_AddElement
        <4> QED  BY <1>0, <3>1, <4>2 DEF BudgetInv
      <3>2. CASE ~(activeStreams + 1 <= globalStreamLimit)
        <4>1. Granted' = Granted
          BY <1>2, <2>1, <3>2 DEF TypeOK, AcquireAdd, Goto, Granted, Holders
        <4> QED  BY <4>1 DEF BudgetInv
      <3> QED  BY <3>1, <3>2
    <2>4. ASSUME NEW r \in Streams
          PROVE  /\ pc'[r] \in Inside => cur'[r] <= globalStreamLimit
                 /\ pc'[r] \in {"undo", "refuse"} => cur'[r] > globalStreamLimit
      BY <1>2 DEF BudgetInv, TypeOK, AcquireAdd, Goto, Inside
    <2> QED  BY <1>2, <2>2, <2>3, <2>4 DEF BudgetInv, AcquireAdd, Inside
  <1>3. ASSUME NEW s \in Streams, AcquireCompare(s) PROVE BudgetInv'
    <2>1. Holders' = Holders /\ Granted' = Granted
      BY <1>3 DEF TypeOK, AcquireCompare, Goto, local, Holders, Granted
    <2>2. ASSUME NEW r \in Streams
          PROVE  /\ pc'[r] \in Inside => cur'[r] <= globalStreamLimit
                 /\ pc'[r] \in {"undo", "refuse"} => cur'[r] > globalStreamLimit
      BY <1>3 DEF BudgetInv, TypeOK, AcquireCompare, Goto, local, Inside
    <2> QED  BY <1>3, <2>1, <2>2 DEF BudgetInv, AcquireCompare, Inside
  <1>4. ASSUME NEW s \in Streams, AcquireUndo(s) \/ ReleaseStream(s)
        PROVE  BudgetInv'
    <2>1. Holders' = Holders \ {s} /\ s \in Holders
      BY <1>4 DEF TypeOK, AcquireUndo, ReleaseStream, Goto, Holders
    <2>2. Cardinality(Holders') = Cardinality(Holders) - 1
      BY <1>0, <2>1, FS_RemoveElement
    <2>3. Granted' \in SUBSET Granted
      BY <1>4, <2>1 DEF AcquireUndo, ReleaseStream, local, Granted
    <2>4. Cardinality(Granted') <= Cardinality(Granted)
          /\ Cardinality(Granted') \in Nat
      BY <1>0, <2>3, FS_Subset, FS_CardinalityType
    <2>5. ASSUME NEW r \in Streams
          PROVE  /\ pc'[r] \in Inside => cur'[r] <= globalStreamLimit
                 /\ pc'[r] \in {"undo", "refuse"} => cur'[r] > globalStreamLimit
      BY <1>4 DEF BudgetInv, TypeOK, AcquireUndo, ReleaseStream, Goto, local, Inside
    <2> QED  BY <1>0, <1>4, <2>2, <2>4, <2>5
             DEF BudgetInv, AcquireUndo, ReleaseStream, Inside
  <1>5. ASSUME NEW s \in Streams, Refuse(s) PROVE BudgetInv'
    <2>1. Holders' = Holders /\ Granted' = Granted
      BY <1>5 DEF TypeOK, Refuse, CloseAndDelCon, Goto, Holders, Granted
    <2>2. ASSUME NEW r \in Streams
          PROVE  /\ pc'[r] \in Inside => cur'[r] <= globalStreamLimit
                 /\ pc'[r] \in {"undo", "refuse"} => cur'[r] > globalStreamLimit
      BY <1>5 DEF BudgetInv, TypeOK, Refuse, CloseAndDelCon, Goto, Inside
    <2> QED  BY <1>5, <2>1, <2>2 DEF BudgetInv, Refuse, Inside
  <1> QED
    BY <1>1, <1>2, <1>3, <1>4, <1>5, StepShape

\* The admitted handlers are among the granted ones.
LEMMA BudgetImpliesCap == TypeOK /\ BudgetInv => GlobalCap
  <1> SUFFICES ASSUME TypeOK, BudgetInv, globalStreamLimit > 0
               PROVE  Cardinality(Admitted) <= globalStreamLimit
    BY DEF GlobalCap
  <1>1. Admitted \in SUBSET Granted
    BY DEF TypeOK, BudgetInv, Admitted, Granted, Holders, Inside
  <1>2. /\ Cardinality(Admitted) <= Cardinality(Granted)
        /\ Cardinality(Admitted) \in Nat /\ Cardinality(Granted) \in Nat
    BY <1>1, BudgetSetsFinite, FS_Subset, FS_CardinalityType
  <1> QED
    BY <1>2, LimitAssumption DEF BudgetInv

LEMMA BudgetInvariant == Spec => [](TypeOK /\ BudgetInv)
  <1>1. Init => TypeOK /\ BudgetInv
    BY TypeInit, BudgetInit
  <1>2. (TypeOK /\ BudgetInv) /\ [Next]_vars => (TypeOK /\ BudgetInv)'
    BY TypeNext, BudgetNext
  <1> QED
    BY <1>1, <1>2, PTL DEF Spec

\* TryAcquireStream never lets more than globalStreamLimit handlers through at
\* a time, whatever the limit, the number of tunnels and the interleaving.
THEOREM GlobalCapHolds == Spec => []GlobalCap
  <1>1. TypeOK /\ BudgetInv => GlobalCap
    BY BudgetImpliesCap
  <1> QED
    BY <1>1, BudgetInvariant, PTL

-----------------------------------------------------------------------------
(* The per-tunnel counters.                                                *)

ConnectedPcs == {"unpause", "handshake", "hangup", "control", "dns",
                 "confirm", "dial", "pipe", "unwind", "leave"}
ServingPcs == {"control", "dns", "confirm", "dial", "pipe", "unwind"}

TunnelCountInv ==
    \A t \in Tunnels : /\ active[t] = Cardinality(Connected \cap Of(t))
                       /\ alive[t] = Cardinality(Serving \cap Of(t))

\* Adding one stream to a set changes the count of its own tunnel only.
LEMMA CountAdd ==
    ASSUME NEW A \in SUBSET Streams, NEW s \in Streams, s \notin A,
           NEW t \in Tunnels
    PROVE  Cardinality((A \cup {s}) \cap Of(t)) =
               Cardinality(A \cap Of(t)) + (IF TunnelOf[s] = t THEN 1 ELSE 0)
  <1>1. IsFiniteSet(A \cap Of(t)) /\ Cardinality(A \cap Of(t)) \in Nat
    BY StreamsAssumption, FS_Subset, FS_CardinalityType DEF Of
  <1>2. CASE TunnelOf[s] = t
    <2>1. /\ (A \cup {s}) \cap Of(t) = (A \cap Of(t)) \cup {s}
          /\ s \notin A \cap Of(t)
      BY <1>2 DEF Of
    <2>2. Cardinality((A \cap Of(t)) \cup {s}) = Cardinality(A \cap Of(t)) + 1
      BY <1>1, <2>1, FS_AddElement
    <2> QED  BY <1>2, <2>1, <2>2
  <1>3. CASE TunnelOf[s] # t
    <2>1. (A \cup {s}) \cap Of(t) = A \cap Of(t)
      BY <1>3 DEF Of
    <2> QED  BY <1>1, <1>3, <2>1
  <1> QED
    BY <1>2, <1>3

LEMMA CountRemove ==
    ASSUME NEW A \in SUBSET Streams, NEW s \in A, NEW t \in Tunnels
    PROVE  Cardinality((A \ {s}) \cap Of(t)) =
               Cardinality(A \cap Of(t)) - (IF TunnelOf[s] = t THEN 1 ELSE 0)
  <1>1. /\ s \in Streams /\ s \notin A \ {s} /\ A \ {s} \in SUBSET Streams
        /\ (A \ {s}) \cup {s} = A
    OBVIOUS
  <1>2. Cardinality(((A \ {s}) \cup {s}) \cap Of(t)) =
           Cardinality((A \ {s}) \cap Of(t)) + (IF TunnelOf[s] = t THEN 1 ELSE 0)
    BY <1>1, CountAdd
  <1>3. Cardinality((A \ {s}) \cap Of(t)) \in Nat
    BY StreamsAssumption, FS_Subset, FS_CardinalityType DEF Of
  <1>4. Cardinality(A \cap Of(t)) =
           Cardinality((A \ {s}) \cap Of(t)) + (IF TunnelOf[s] = t THEN 1 ELSE 0)
    BY <1>1, <1>2, Zenon
  <1> QED
    BY <1>3, <1>4

\* A step changes active together with Connected and alive together with
\* Serving, or neither.
LEMMA CountShape ==
    ASSUME TypeOK, [Next]_vars
    PROVE  /\ \/ active' = active /\ Connected' = Connected
              \/ \E s \in Streams : RecordActive(s) \/ ReleaseConnection(s)
           /\ \/ alive' = alive /\ Serving' = Serving
              \/ \E s \in Streams : HandshakeOk(s) \/ Unwind(s)
  <1> USE DEF TypeOK, Running, Waiting, ConnectedPcs, ServingPcs, local,
              metrics, Goto, CloseAndDelCon
  <1> DEFINE Same(P) == \A r \in Streams : pc'[r] \in P <=> pc[r] \in P
             Quiet2 == /\ active' = active /\ Same(ConnectedPcs)
                       /\ alive' = alive /\ Same(ServingPcs)
             QuietAlive == alive' = alive /\ Same(ServingPcs)
             QuietActive == active' = active /\ Same(ConnectedPcs)
  <1>0. /\ Same(ConnectedPcs) => Connected' = Connected
        /\ Same(ServingPcs) => Serving' = Serving
    BY DEF Connected, Serving
  <1>1. ASSUME NEW s \in Streams, Accept(s) PROVE Quiet2
    BY <1>1 DEF Accept
  <1>2. ASSUME NEW s \in Streams, Step(s)
        PROVE  \/ Quiet2
               \/ (RecordActive(s) \/ ReleaseConnection(s)) /\ QuietAlive
               \/ Unwind(s) /\ QuietActive
    <2>1. CASE AcquireUnlimited(s)  BY <2>1 DEF AcquireUnlimited
    <2>2. CASE AcquireAdd(s)        BY <2>2 DEF AcquireAdd
    <2>3. CASE AcquireCompare(s)    BY <2>3 DEF AcquireCompare
    <2>4. CASE AcquireUndo(s)       BY <2>4 DEF AcquireUndo
    <2>5. CASE Refuse(s)            BY <2>5 DEF Refuse
    <2>6. CASE ReleaseStream(s)     BY <2>6 DEF ReleaseStream
    <2>7. CASE RecordLoad(s)        BY <2>7 DEF RecordLoad
    <2>8. CASE RecordPause(s)       BY <2>8 DEF RecordPause
    <2>9. CASE TurnAway(s)          BY <2>9 DEF TurnAway
    <2>10. CASE RecordTotal(s)      BY <2>10 DEF RecordTotal
    <2>11. CASE RecordActive(s)     BY <2>11 DEF RecordActive
    <2>12. CASE RecordUnpause(s)    BY <2>12 DEF RecordUnpause
    <2>13. CASE ReleaseConnection(s) BY <2>13 DEF ReleaseConnection
    <2>14. CASE Hangup(s)           BY <2>14 DEF Hangup
    <2>15. CASE ControlReturn(s)    BY <2>15 DEF ControlReturn
    <2>16. CASE DnsNormal(s)        BY <2>16 DEF DnsNormal
    <2>17. CASE Unwind(s)           BY <2>17 DEF Unwind
    <2>18. CASE ConfirmOk(s)        BY <2>18 DEF ConfirmOk
    <2>19. CASE ConfirmFail(s)      BY <2>19 DEF ConfirmFail
    <2>20. CASE DialOk(s)           BY <2>20 DEF DialOk
    <2>21. CASE DialFail(s)         BY <2>21 DEF DialFail
    <2>22. CASE PipeReturn(s)       BY <2>22 DEF PipeReturn
    <2> QED  BY <1>2, <2>1, <2>2, <2>3, <2>4, <2>5, <2>6, <2>7, <2>8, <2>9,
                <2>10, <2>11, <2>12, <2>13, <2>14, <2>15, <2>16, <2>17, <2>18,
                <2>19, <2>20, <2>21, <2>22 DEF Step
  <1>3. ASSUME NEW s \in Streams, HandshakeOk(s) PROVE QuietActive
    BY <1>3 DEF HandshakeOk
  <1>4. ASSUME NEW s \in Streams, HandshakeFail(s) PROVE Quiet2
    BY <1>4 DEF HandshakeFail
  <1>5. ASSUME NEW s \in Streams, NEW d \in Directions, CopyEnd(s, d)
        PROVE  Quiet2
    BY <1>5 DEF CopyEnd
  <1>6. CASE Tick
    BY <1>6, <1>0 DEF Tick
  <1>7. CASE UNCHANGED vars
    BY <1>7, <1>0 DEF vars
  <1> HIDE DEF Same
  <1> QED
    BY <1>0, <1>1, <1>2, <1>3, <1>4, <1>5, <1>6, <1>7 DEF Next

LEMMA TunnelCountInit == Init => TunnelCountInv
  <1> SUFFICES ASSUME Init PROVE TunnelCountInv
    OBVIOUS
  <1>1. Connected = {} /\ Serving = {}
    BY DEF Init, Connected, Serving
  <1>2. Cardinality({}) = 0
    BY FS_EmptySet
  <1>3. \A t \in Tunnels : {} \cap Of(t) = {}
    OBVIOUS
  <1> QED
    BY <1>1, <1>2, <1>3 DEF Init, TunnelCountInv

LEMMA TunnelCountNext == TypeOK /\ TunnelCountInv /\ [Next]_vars => TunnelCountInv'
  <1> SUFFICES ASSUME TypeOK, TunnelCountInv, [Next]_vars, NEW t \in Tunnels
               PROVE  /\ active'[t] = Cardinality(Connected' \cap Of(t))
                      /\ alive'[t] = Cardinality(Serving' \cap Of(t))
    BY DEF TunnelCountInv, Of
  <1>0. /\ Connected \in SUBSET Streams /\ Serving \in SUBSET Streams
        /\ active[t] = Cardinality(Connected \cap Of(t))
        /\ alive[t] = Cardinality(Serving \cap Of(t))
        /\ active[t] \in Int /\ alive[t] \in Int
    BY DEF TypeOK, TunnelCountInv, Connected, Serving
  <1>1. active'[t] = Cardinality(Connected' \cap Of(t))
    <2>1. CASE active' = active /\ Connected' = Connected
      BY <1>0, <2>1
    <2>2. ASSUME NEW s \in Streams, RecordActive(s)
          PROVE  active'[t] = Cardinality(Connected' \cap Of(t))
      <3>1. Connected' = Connected \cup {s} /\ s \notin Connected
        BY <2>2 DEF TypeOK, RecordActive, Goto, Connected
      <3>2. active'[t] = active[t] + (IF TunnelOf[s] = t THEN 1 ELSE 0)
        BY <2>2, TunnelOfAssumption DEF TypeOK, RecordActive, Add
      <3> QED  BY <1>0, <3>1, <3>2, CountAdd
    <2>3. ASSUME NEW s \in Streams, ReleaseConnection(s)
          PROVE  active'[t] = Cardinality(Connected' \cap Of(t))
      <3>1. Connected' = Connected \ {s} /\ s \in Connected
        BY <2>3 DEF TypeOK, ReleaseConnection, Goto, Connected
      <3>2. active'[t] = active[t] - (IF TunnelOf[s] = t THEN 1 ELSE 0)
        BY <2>3, TunnelOfAssumption DEF TypeOK, ReleaseConnection, Add
      <3> QED  BY <1>0, <3>1, <3>2, CountRemove
    <2> QED  BY <2>1, <2>2, <2>3, CountShape
  <1>2. alive'[t] = Cardinality(Serving' \cap Of(t))
    <2>1. CASE alive' = alive /\ Serving' = Serving
      BY <1>0, <2>1
    <2>2. ASSUME NEW s \in Streams, HandshakeOk(s)
          PROVE  alive'[t] = Cardinality(Serving' \cap Of(t))
      <3>1. Serving' = Serving \cup {s} /\ s \notin Serving
        BY <2>2 DEF TypeOK, HandshakeOk, Goto, Serving
      <3>2. alive'[t] = alive[t] + (IF TunnelOf[s] = t THEN 1 ELSE 0)
        BY <2>2, TunnelOfAssumption DEF TypeOK, HandshakeOk, Add
      <3> QED  BY <1>0, <3>1, <3>2, CountAdd
    <2>3. ASSUME NEW s \in Streams, Unwind(s)
          PROVE  alive'[t] = Cardinality(Serving' \cap Of(t))
      <3>1. Serving' = Serving \ {s} /\ s \in Serving
        BY <2>3 DEF TypeOK, Unwind, Goto, Serving
      <3>2. alive'[t] = alive[t] - (IF TunnelOf[s] = t THEN 1 ELSE 0)
        BY <2>3, TunnelOfAssumption DEF TypeOK, Unwind, Add
      <3> QED  BY <1>0, <3>1, <3>2, CountRemove
    <2> QED  BY <2>1, <2>2, <2>3, CountShape
  <1> QED
    BY <1>1, <1>2

LEMMA CountInvariant == Spec => [](TypeOK /\ BudgetInv /\ TunnelCountInv)
  <1>1. Init => TypeOK /\ BudgetInv /\ TunnelCountInv
    BY TypeInit, BudgetInit, TunnelCountInit
  <1>2. (TypeOK /\ BudgetInv /\ TunnelCountInv) /\ [Next]_vars
            => (TypeOK /\ BudgetInv /\ TunnelCountInv)'
    BY TypeNext, BudgetNext, TunnelCountNext
  <1> QED
    BY <1>1, <1>2, PTL DEF Spec

\* No path through HandleConnAsync forgets or repeats a decrement.
THEOREM CountersAreExact == Spec => []CountersExact
  <1>1. TypeOK /\ BudgetInv /\ TunnelCountInv => CountersExact
    BY DEF BudgetInv, TunnelCountInv, CountersExact
  <1> QED
    BY <1>1, CountInvariant, PTL

-----------------------------------------------------------------------------
(* Connections are closed on every path.                                   *)

CloseInv ==
    \A s \in Streams :
        /\ remote[s] = "open" => pc[s] = "pipe" /\ copying[s] = Directions
        /\ pc[s] = "control" => request[s] = "control"
        /\ pc[s] \in {"unwind", "leave", "release", "done"} =>
              con[s] = "closed" \/ request[s] = "control"

LEMMA CloseInit == Init => CloseInv
  BY DEF Init, CloseInv

LEMMA CloseNext == TypeOK /\ CloseInv /\ [Next]_vars => CloseInv'
  <1> SUFFICES ASSUME TypeOK, CloseInv, [Next]_vars PROVE CloseInv'
    OBVIOUS
  <1> USE DEF TypeOK, CloseInv, Directions, local, metrics, Goto, CloseAndDelCon
  <1>1. ASSUME NEW s \in Streams, Accept(s) PROVE CloseInv'
    BY <1>1 DEF Accept
  <1>2. ASSUME NEW s \in Streams, Step(s) PROVE CloseInv'
    <2>1. CASE AcquireUnlimited(s)   BY <2>1 DEF AcquireUnlimited
    <2>2. CASE AcquireAdd(s)         BY <2>2 DEF AcquireAdd
    <2>3. CASE AcquireCompare(s)     BY <2>3 DEF AcquireCompare
    <2>4. CASE AcquireUndo(s)        BY <2>4 DEF AcquireUndo
    <2>5. CASE Refuse(s)             BY <2>5 DEF Refuse
    <2>6. CASE ReleaseStream(s)      BY <2>6 DEF ReleaseStream
    <2>7. CASE RecordLoad(s)         BY <2>7 DEF RecordLoad
    <2>8. CASE RecordPause(s)        BY <2>8 DEF RecordPause
    <2>9. CASE TurnAway(s)           BY <2>9 DEF TurnAway
    <2>10. CASE RecordTotal(s)       BY <2>10 DEF RecordTotal
    <2>11. CASE RecordActive(s)      BY <2>11 DEF RecordActive
    <2>12. CASE RecordUnpause(s)     BY <2>12 DEF RecordUnpause
    <2>13. CASE ReleaseConnection(s) BY <2>13 DEF ReleaseConnection
    <2>14. CASE Hangup(s)            BY <2>14 DEF Hangup
    <2>15. CASE ControlReturn(s)     BY <2>15 DEF ControlReturn
    <2>16. CASE DnsNormal(s)         BY <2>16 DEF DnsNormal
    <2>17. CASE Unwind(s)            BY <2>17 DEF Unwind
    <2>18. CASE ConfirmOk(s)         BY <2>18 DEF ConfirmOk
    <2>19. CASE ConfirmFail(s)       BY <2>19 DEF ConfirmFail
    <2>20. CASE DialOk(s)            BY <2>20 DEF DialOk
    <2>21. CASE DialFail(s)          BY <2>21 DEF DialFail
    <2>22. CASE PipeReturn(s)        BY <2>22 DEF PipeReturn
    <2> QED  BY <1>2, <2>1, <2>2, <2>3, <2>4, <2>5, <2>6, <2>7, <2>8, <2>9,
                <2>10, <2>11, <2>12, <2>13, <2>14, <2>15, <2>16, <2>17, <2>18,
                <2>19, <2>20, <2>21, <2>22 DEF Step
  <1>3. ASSUME NEW s \in Streams, HandshakeOk(s) PROVE CloseInv'
    BY <1>3 DEF HandshakeOk
  <1>4. ASSUME NEW s \in Streams, HandshakeFail(s) PROVE CloseInv'
    BY <1>4 DEF HandshakeFail
  <1>5. ASSUME NEW s \in Streams, NEW d \in Directions, CopyEnd(s, d)
        PROVE  CloseInv'
    BY <1>5 DEF CopyEnd
  <1>6. CASE Tick
    BY <1>6 DEF Tick
  <1>7. CASE UNCHANGED vars
    BY <1>7 DEF vars
  <1> QED
    BY <1>1, <1>2, <1>3, <1>4, <1>5, <1>6, <1>7 DEF Next

\* Only the R:// branch leaves a stream open behind its handler; no dialled
\* target outlives its handler.
THEOREM FinishedIsClosed == Spec => []FinishedMeansClosed
  <1>1. Init => TypeOK /\ CloseInv
    BY TypeInit, CloseInit
  <1>2. (TypeOK /\ CloseInv) /\ [Next]_vars => (TypeOK /\ CloseInv)'
    BY TypeNext, CloseNext
  <1>3. CloseInv => FinishedMeansClosed
    BY DEF CloseInv, FinishedMeansClosed
  <1> QED
    BY <1>1, <1>2, <1>3, PTL DEF Spec

\* The per-tunnel race notwithstanding, the global budget bounds the active
\* connections of every tunnel and the sockets dialled by all of them.
THEOREM DialledIsBounded == Spec => []DialledBounded
  <1>1. Init => TypeOK /\ BudgetInv /\ TunnelCountInv /\ CloseInv
    BY TypeInit, BudgetInit, TunnelCountInit, CloseInit
  <1>2. (TypeOK /\ BudgetInv /\ TunnelCountInv /\ CloseInv) /\ [Next]_vars
            => (TypeOK /\ BudgetInv /\ TunnelCountInv /\ CloseInv)'
    BY TypeNext, BudgetNext, TunnelCountNext, CloseNext
  <1>3. TypeOK /\ BudgetInv /\ TunnelCountInv /\ CloseInv => DialledBounded
    <2> SUFFICES ASSUME TypeOK, BudgetInv, TunnelCountInv, CloseInv,
                        globalStreamLimit > 0
                 PROVE  DialledBounded
      BY DEF DialledBounded
    <2>1. /\ Cardinality(Admitted) <= globalStreamLimit
          /\ IsFiniteSet(Admitted) /\ Cardinality(Admitted) \in Nat
      BY BudgetImpliesCap, BudgetSetsFinite, FS_CardinalityType DEF GlobalCap
    <2>2. ASSUME NEW t \in Tunnels PROVE active[t] <= globalStreamLimit
      <3>1. Connected \cap Of(t) \in SUBSET Admitted
        BY DEF Connected, Admitted, Holders
      <3>2. /\ Cardinality(Connected \cap Of(t)) <= Cardinality(Admitted)
            /\ Cardinality(Connected \cap Of(t)) \in Nat
        BY <2>1, <3>1, FS_Subset, FS_CardinalityType
      <3>3. active[t] = Cardinality(Connected \cap Of(t))
        BY DEF TunnelCountInv
      <3> QED  BY <2>1, <3>2, <3>3, LimitAssumption
    <2>3. Cardinality({s \in Streams : remote[s] = "open"}) <= globalStreamLimit
      <3>1. {s \in Streams : remote[s] = "open"} \in SUBSET Admitted
        BY DEF CloseInv, Admitted, Holders
      <3>2. /\ Cardinality({s \in Streams : remote[s] = "open"})
                  <= Cardinality(Admitted)
            /\ Cardinality({s \in Streams : remote[s] = "open"}) \in Nat
        BY <2>1, <3>1, FS_Subset, FS_CardinalityType
      <3> QED  BY <2>1, <3>2, LimitAssumption
    <2> QED  BY <2>2, <2>3 DEF DialledBounded
  <1> QED
    BY <1>1, <1>2, <1>3, PTL DEF Spec

-----------------------------------------------------------------------------
(* The reaper's idleness test.                                             *)

\* While a handler runs or waits for its first request, its tunnel was
\* stamped no longer ago than it has waited.
AgeInv ==
    \A s \in Streams :
        /\ waited[s] <= HandshakeDeadline
        /\ pc[s] \in Running \cup {"handshake"} => age[TunnelOf[s]] <= waited[s]

LEMMA AgeInit == Init => AgeInv
  BY TimeAssumption DEF Init, AgeInv, Running

LEMMA AgeNext == TypeOK /\ AgeInv /\ [Next]_vars => AgeInv'
  <1> SUFFICES ASSUME TypeOK, AgeInv, [Next]_vars PROVE AgeInv'
    OBVIOUS
  <1> USE TunnelOfAssumption, TimeAssumption
          DEF TypeOK, AgeInv, Running, Waiting, local, metrics, Goto,
              Touch, CloseAndDelCon
  <1>1. ASSUME NEW s \in Streams, Accept(s) PROVE AgeInv'
    BY <1>1 DEF Accept
  <1>2. ASSUME NEW s \in Streams, Step(s) PROVE AgeInv'
    <2>1. CASE AcquireUnlimited(s)   BY <2>1 DEF AcquireUnlimited
    <2>2. CASE AcquireAdd(s)         BY <2>2 DEF AcquireAdd
    <2>3. CASE AcquireCompare(s)     BY <2>3 DEF AcquireCompare
    <2>4. CASE AcquireUndo(s)        BY <2>4 DEF AcquireUndo
    <2>5. CASE Refuse(s)             BY <2>5 DEF Refuse
    <2>6. CASE ReleaseStream(s)      BY <2>6 DEF ReleaseStream
    <2>7. CASE RecordLoad(s)         BY <2>7 DEF RecordLoad
    <2>8. CASE RecordPause(s)        BY <2>8 DEF RecordPause
    <2>9. CASE TurnAway(s)           BY <2>9 DEF TurnAway
    <2>10. CASE RecordTotal(s)       BY <2>10 DEF RecordTotal
    <2>11. CASE RecordActive(s)      BY <2>11 DEF RecordActive
    <2>12. CASE RecordUnpause(s)     BY <2>12 DEF RecordUnpause
    <2>13. CASE ReleaseConnection(s) BY <2>13 DEF ReleaseConnection
    <2>14. CASE Hangup(s)            BY <2>14 DEF Hangup
    <2>15. CASE ControlReturn(s)     BY <2>15 DEF ControlReturn
    <2>16. CASE DnsNormal(s)         BY <2>16 DEF DnsNormal
    <2>17. CASE Unwind(s)            BY <2>17 DEF Unwind
    <2>18. CASE ConfirmOk(s)         BY <2>18 DEF ConfirmOk
    <2>19. CASE ConfirmFail(s)       BY <2>19 DEF ConfirmFail
    <2>20. CASE DialOk(s)            BY <2>20 DEF DialOk
    <2>21. CASE DialFail(s)          BY <2>21 DEF DialFail
    <2>22. CASE PipeReturn(s)        BY <2>22 DEF PipeReturn
    <2> QED  BY <1>2, <2>1, <2>2, <2>3, <2>4, <2>5, <2>6, <2>7, <2>8, <2>9,
                <2>10, <2>11, <2>12, <2>13, <2>14, <2>15, <2>16, <2>17, <2>18,
                <2>19, <2>20, <2>21, <2>22 DEF Step
  <1>3. ASSUME NEW s \in Streams, HandshakeOk(s) PROVE AgeInv'
    BY <1>3 DEF HandshakeOk
  <1>4. ASSUME NEW s \in Streams, HandshakeFail(s) PROVE AgeInv'
    BY <1>4 DEF HandshakeFail
  <1>5. ASSUME NEW s \in Streams, NEW d \in Directions, CopyEnd(s, d)
        PROVE  AgeInv'
    BY <1>5 DEF CopyEnd
  <1>6. CASE Tick
    BY <1>6 DEF Tick
  <1>7. CASE UNCHANGED vars
    BY <1>7 DEF vars
  <1> QED
    BY <1>1, <1>2, <1>3, <1>4, <1>5, <1>6, <1>7 DEF Next

\* CollectIdleTunnelIDs never picks a tunnel that is handling a stream, the
\* wait for the first request included.
THEOREM BusyTunnelsAreNotIdle == Spec => []BusyIsNotIdle
  <1>1. Init => TypeOK /\ TunnelCountInv /\ AgeInv
    BY TypeInit, TunnelCountInit, AgeInit
  <1>2. (TypeOK /\ TunnelCountInv /\ AgeInv) /\ [Next]_vars
            => (TypeOK /\ TunnelCountInv /\ AgeInv)'
    BY TypeNext, TunnelCountNext, AgeNext
  <1>3. TypeOK /\ TunnelCountInv /\ AgeInv => BusyIsNotIdle
    <2> SUFFICES ASSUME TypeOK, TunnelCountInv, AgeInv, NEW t \in Tunnels,
                        IsIdle(t), NEW s \in Of(t)
                 PROVE  pc[s] \in {"new", "done"}
      BY DEF BusyIsNotIdle
    <2>1. s \in Streams /\ TunnelOf[s] = t
      BY DEF Of
    <2>2. s \notin Serving
      <3>1. IsFiniteSet(Serving \cap Of(t))
        BY StreamsAssumption, FS_Subset DEF Of
      <3>2. Serving \cap Of(t) = {}
        BY <3>1, FS_EmptySet DEF TunnelCountInv, IsIdle
      <3> QED  BY <3>2
    <2>3. pc[s] \notin Running \cup {"handshake"}
      BY <2>1, TimeAssumption DEF TypeOK, AgeInv, IsIdle
    <2> QED  BY <2>1, <2>2, <2>3 DEF TypeOK, Serving, Waiting
  <1> QED
    BY <1>1, <1>2, <1>3, PTL DEF Spec

-----------------------------------------------------------------------------
(* TunnelStreams implements StreamBudget.                                  *)

LEMMA BudgetStep ==
    ASSUME TypeOK, BudgetInv, [Next]_vars, globalStreamLimit > 0
    PROVE  [Budget!Next]_(Budget!vars)
  <1> USE LimitAssumption
  <1>1. CASE Quiet
    <2>1. Admitted' = Admitted
      BY <1>1 DEF TypeOK, Quiet, Admitted, Holders, Before, Inside
    <2>2. Finished' = Finished
      BY <1>1 DEF TypeOK, Quiet, Finished, Before, Inside
    <2> QED  BY <2>1, <2>2 DEF Budget!vars
  <1>2. ASSUME NEW s \in Streams, AcquireAdd(s) \/ AcquireUndo(s) \/ Refuse(s)
        PROVE  UNCHANGED Budget!vars
    <2>1. Admitted' = Admitted
      BY <1>2 DEF TypeOK, AcquireAdd, AcquireUndo, Refuse, Goto, Admitted, Holders
    <2>2. Finished' = Finished
      <3>1. CASE AcquireAdd(s)
        BY <3>1 DEF TypeOK, AcquireAdd, Goto, Finished
      <3>2. CASE AcquireUndo(s)
        BY <3>2 DEF TypeOK, AcquireUndo, Goto, local, Finished
      <3>3. CASE Refuse(s)
        BY <3>3 DEF TypeOK, BudgetInv, Refuse, CloseAndDelCon, Goto, Finished
      <3> QED  BY <1>2, <3>1, <3>2, <3>3
    <2> QED  BY <2>1, <2>2 DEF Budget!vars
  <1>3. ASSUME NEW s \in Streams, AcquireCompare(s)
        PROVE  [Budget!Next]_(Budget!vars)
    <2>1. Finished' = Finished
      BY <1>3 DEF TypeOK, AcquireCompare, Goto, local, Finished
    <2>2. CASE cur[s] > globalStreamLimit
      <3>1. Admitted' = Admitted
        BY <1>3, <2>2 DEF TypeOK, AcquireCompare, Goto, local, Admitted, Holders
      <3> QED  BY <2>1, <3>1 DEF Budget!vars
    <2>3. CASE ~(cur[s] > globalStreamLimit)
      <3>1. /\ Admitted' = Admitted \cup {s}
            /\ s \notin Admitted \cup Finished /\ s \in Granted
        BY <1>3, <2>3
        DEF TypeOK, AcquireCompare, Goto, local, Admitted, Holders, Granted,
            Finished
      <3>2. Admitted \in SUBSET (Granted \ {s})
        BY <3>1 DEF TypeOK, BudgetInv, Admitted, Granted, Holders, Inside
      <3>3. /\ Cardinality(Granted \ {s}) = Cardinality(Granted) - 1
            /\ Cardinality(Granted) \in Nat
            /\ IsFiniteSet(Granted \ {s})
        BY <3>1, BudgetSetsFinite, FS_RemoveElement, FS_CardinalityType
      <3>4. /\ Cardinality(Admitted) <= Cardinality(Granted \ {s})
            /\ Cardinality(Admitted) \in Nat
        BY <3>2, <3>3, BudgetSetsFinite, FS_Subset, FS_CardinalityType
      <3>5. Cardinality(Admitted) < globalStreamLimit
        BY <3>3, <3>4 DEF BudgetInv
      <3>6. Budget!Cardinality(Admitted) = Cardinality(Admitted)
        BY DEF Budget!Cardinality, Cardinality
      <3>7. Budget!Admit(s)
        BY <2>1, <3>1, <3>5, <3>6 DEF Budget!Admit
      <3> QED  BY <3>7 DEF Budget!Next
    <2> QED  BY <2>2, <2>3
  <1>4. ASSUME NEW s \in Streams, ReleaseStream(s)
        PROVE  [Budget!Next]_(Budget!vars)
    <2>1. Admitted' = Admitted \ {s} /\ s \in Admitted
      BY <1>4 DEF TypeOK, ReleaseStream, Goto, Admitted, Holders
    <2>2. Finished' = Finished \cup {s}
      BY <1>4 DEF TypeOK, BudgetInv, ReleaseStream, Goto, local, Finished,
                  Inside, Running
    <2>3. Budget!Release(s)
      BY <2>1, <2>2 DEF Budget!Release
    <2> QED  BY <2>3 DEF Budget!Next
  <1> QED
    BY <1>1, <1>2, <1>3, <1>4, StepShape

\* With a limit set, the atomic counter and its undo step behave to every
\* caller as a budget of that many slots.
THEOREM ImplementsBudget == ASSUME globalStreamLimit > 0 PROVE Spec => BudgetSpec
  <1>1. Init => Budget!Init
    BY DEF Init, Budget!Init, Admitted, Holders, Finished
  <1>2. TypeOK /\ BudgetInv /\ [Next]_vars => [Budget!Next]_(Budget!vars)
    BY BudgetStep
  <1> QED
    BY <1>1, <1>2, BudgetInvariant, PTL DEF Spec, BudgetSpec, Budget!Spec

=============================================================================
