----------------------------- MODULE Lifecycle -----------------------------
(***************************************************************************)
(* The activation lifecycle as the reference oracle of the repository      *)
(* states it (src/lifecycle.rs, src/oracle.rs): the durable state of a     *)
(* semantic key, the single transition a final membership plans for it,    *)
(* and the application of one whole final match set to every key.          *)
(*                                                                         *)
(* This is the abstract specification of a rule version's activation       *)
(* state.  RuleRuntime, which models the SQL of the triggers, of the       *)
(* reconciliation and of everything that runs next to them, is shown to    *)
(* implement it.                                                           *)
(***************************************************************************)
EXTENDS Naturals

CONSTANT Keys            \* the semantic keys of the rule version

VARIABLE states          \* ReferenceOracle.states: one ActivationState a key

\* ActivationState::default(): the state of a key that was never matched.
DefaultState == [active |-> FALSE, generation |-> 0]

\* plan(previous, present).next: a generation begins when an inactive key is
\* matched, ends when an active key no longer is, and nothing else changes it.
Plan(previous, present) ==
  CASE ~previous.active /\ present ->
         [active |-> TRUE, generation |-> previous.generation + 1]
    [] previous.active /\ ~present -> [previous EXCEPT !.active = FALSE]
    [] OTHER -> previous

Init == states = [k \in Keys |-> DefaultState]

\* ReferenceOracle::apply_final_matches(matches): every key, known or new, is
\* planned against the final set, whatever physical changes led to it.
ApplyFinalMatches(matches) ==
  states' = [k \in Keys |-> Plan(states[k], k \in matches)]

Next == \E matches \in SUBSET Keys : ApplyFinalMatches(matches)

Spec == Init /\ [][Next]_states
=============================================================================
