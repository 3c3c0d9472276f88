--------------------------- MODULE MCRuleRuntime ---------------------------
(***************************************************************************)
(* Instances of RuleRuntime for TLC.  A match row is a pair of a watched   *)
(* and an unwatched column; every row of an instance may share one         *)
(* conflict key, or have none.                                             *)
(***************************************************************************)
EXTENDS FinalizeMatchDelta, TLC

CONSTANTS
  k1, k2, w1, w2, c1,  \* model values
  MaxClaims            \* bound: claims after which an episode is not interrupted

ASSUME ClaimsAssumption == MaxClaims \in Nat

\* An episode that was claimed MaxClaims times keeps its lease and is not requeued.
BoundedNext ==
  /\ Next
  /\ \A e \in DOMAIN agenda : agenda[e].attempts >= MaxClaims => ~Interrupted(e)

BoundedSpec == Init /\ [][BoundedNext]_vars
BoundedFairSpec == BoundedSpec /\ Fairness

\* Rows <<watched column, other column>>.
OneRow == {<<"w1", "u1">>}
TwoRows == {<<"w1", "u1">>, <<"w2", "u1">>}
ThreeRows == {<<"w1", "u1">>, <<"w1", "u2">>, <<"w2", "u1">>}
\* Rows that differ in their watched column only, as interchangeable values.
EachWatched == [v \in Values |-> v]
RowSymmetry == Permutations(Values)

WatchedColumn == [v \in Values |-> v[1]]

AllConflict == [v \in Values |-> c1]
NoneConflict == [v \in Values |-> NoConflict]
=============================================================================
