------------------------------ MODULE WorkPool ------------------------------
(***************************************************************************)
(* What the sessions that claim from one agenda promise together, as the   *)
(* committed rows show it: work stays open until one session finishes it,  *)
(* and that session had it to itself since it claimed it.  A claim may be  *)
(* given back for as long as it has not committed, a lease may not.  There *)
(* is no queue here, no lock and no order; ManagedWorker implements it.    *)
(***************************************************************************)
CONSTANTS
  Items,           \* what an agenda has room for
  Sessions,
  Whole            \* the sessions that claim and finish in one transaction

VARIABLES
  pool,            \* open work
  claimed,         \* what each session has claimed in an open transaction
  leased           \* what each session has committed to execute

Init ==
  /\ pool = {}
  /\ claimed = [w \in Sessions |-> {}]
  /\ leased = [w \in Sessions |-> {}]

Free == pool \ UNION {claimed[w] \cup leased[w] : w \in Sessions}

Arrive ==
  /\ \E new \in SUBSET (Items \ pool) : pool' = pool \cup new
  /\ UNCHANGED <<claimed, leased>>

Claim(w) ==
  /\ \E e \in Free : claimed' = [claimed EXCEPT ![w] = @ \cup {e}]
  /\ UNCHANGED <<pool, leased>>

\* The claim commits before its work is done.
Lease(w) ==
  /\ leased' = [leased EXCEPT ![w] = @ \cup claimed[w]]
  /\ claimed' = [claimed EXCEPT ![w] = {}]
  /\ UNCHANGED pool

Finish(w) ==
  /\ \E e \in leased[w] :
       /\ pool' = pool \ {e}
       /\ leased' = [leased EXCEPT ![w] = @ \ {e}]
  /\ UNCHANGED claimed

\* One transaction claims, finishes what it claimed and brings new work.
FinishWhole(w) ==
  /\ \E new \in SUBSET (Items \ pool) : pool' = (pool \ claimed[w]) \cup new
  /\ claimed' = [claimed EXCEPT ![w] = {}]
  /\ UNCHANGED leased

\* Transactions of some sessions, or of all, roll back.
GiveBack(W) ==
  /\ claimed' = [w \in Sessions |-> IF w \in W THEN {} ELSE claimed[w]]
  /\ UNCHANGED <<pool, leased>>

Next ==
  \/ Arrive
  \/ \E w \in Sessions : Claim(w)
  \/ \E w \in Sessions \ Whole : Lease(w) \/ Finish(w)
  \/ \E w \in Whole : FinishWhole(w)
  \/ \E W \in SUBSET Sessions : GiveBack(W)

Spec == Init /\ [][Next]_<<pool, claimed, leased>>
=============================================================================
