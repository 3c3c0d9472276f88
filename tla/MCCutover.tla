----------------------------- MODULE MCCutover -----------------------------
(***************************************************************************)
(* An instance of RuleRuntime with a history variable that remembers       *)
(* whether the version was replaced under CANCEL_OLD, which the code does  *)
(* not record.                                                             *)
(***************************************************************************)
EXTENDS MCRuleRuntime

VARIABLE cancelled   \* was the version replaced with old work cancelled?

CutoverInit == Init /\ cancelled = FALSE
CutoverNext ==
  /\ BoundedNext
  /\ cancelled' = (cancelled \/ Replace("CANCEL_OLD"))
CutoverSpec == CutoverInit /\ [][CutoverNext]_<<vars, cancelled>>

\* Once a version was replaced under CANCEL_OLD and not taken back into
\* service, none of its episodes is claimed any more.
NoClaimsAfterCancel ==
  [][cancelled /\ vstate = "DRAINING" =>
       \A e \in DOMAIN agenda :
         agenda'[e].minted = agenda[e].minted]_<<vars, cancelled>>
=============================================================================
