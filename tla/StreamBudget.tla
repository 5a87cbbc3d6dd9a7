---------------------------- MODULE StreamBudget ----------------------------
(***************************************************************************)
(* What the process-wide stream budget of connections/base/global_limit.go *)
(* promises its callers, without the counter that implements it: a stream  *)
(* is admitted only while fewer than `limit' streams are admitted, and an  *)
(* admitted stream gives its slot back at most once.                       *)
(***************************************************************************)
EXTENDS Naturals, FiniteSets

CONSTANTS Streams, \* every stream any client ever opens
          limit    \* globalStreamLimit, positive

VARIABLES admitted, \* streams that hold a slot of the budget
          finished  \* streams that gave their slot back

vars == <<admitted, finished>>

Init == /\ admitted = {}
        /\ finished = {}

\* TryAcquireStream returns true.
Admit(s) == /\ s \notin admitted \cup finished
            /\ Cardinality(admitted) < limit
            /\ admitted' = admitted \cup {s}
            /\ UNCHANGED finished

\* ReleaseStream.
Release(s) == /\ s \in admitted
              /\ admitted' = admitted \ {s}
              /\ finished' = finished \cup {s}

Next == \E s \in Streams : Admit(s) \/ Release(s)

Spec == Init /\ [][Next]_vars

=============================================================================
