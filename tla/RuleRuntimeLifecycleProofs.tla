-------------------- MODULE RuleRuntimeLifecycleProofs --------------------
(***************************************************************************)
(* The activation state of a rule version implements the lifecycle oracle: *)
(* a step of the runtime, whoever makes it, is one whole final match set   *)
(* applied by the oracle, namely the keys that are active after the step.  *)
(*                                                                         *)
(* The second part relates that state to the match relation (MirrorInv),   *)
(* the third the stored rows to the relation's (ShowsMatch), the next two  *)
(* the effects that workers commit to the relation and to each other; the  *)
(* last says what the removal of a version leaves open.                    *)
(***************************************************************************)
EXTENDS RuleRuntimeLeaseProofs, RuleRuntimeHistoryProofs

\* The oracle's view of an activation row.
View(st) == [active |-> st.active, generation |-> st.gen]

\* The oracle plans what finalizing and reconciling a key does.
LEMMA FinalizedPlan ==
  ASSUME NEW st \in Activation, NEW row
  PROVE  View(Finalized(st, row)) =
           SeededLifecycle!Plan(View(st), Finalized(st, row).active)
  <1>1. st.active \in BOOLEAN
    BY DEF Activation
  <1>2. CASE row # Absent /\ ~st.active
    <2>1. Finalized(st, row).active = TRUE /\ Finalized(st, row).gen = st.gen + 1
      BY <1>2 DEF Finalized
    <2> QED BY <1>2, <2>1 DEF View, SeededLifecycle!Plan
  <1>3. CASE row # Absent /\ st.active
    <2> DEFINE rev == IF WatchedChanged(st.bindings, row)
                      THEN st.rev + 1 ELSE st.rev
    <2>1. Finalized(st, row) =
            [st EXCEPT !.bindings = row, !.last = row, !.rev = rev]
      BY <1>3 DEF Finalized
    <2> HIDE DEF rev
    <2>2. Finalized(st, row).active = st.active /\ Finalized(st, row).gen = st.gen
      BY <2>1 DEF Activation
    <2> QED BY <1>3, <2>2 DEF View, SeededLifecycle!Plan
  <1>4. CASE row = Absent /\ st.active
    <2>1. Finalized(st, row).active = FALSE /\ Finalized(st, row).gen = st.gen
      BY <1>4 DEF Finalized, Activation
    <2> QED BY <1>4, <2>1 DEF View, SeededLifecycle!Plan
  <1>5. CASE row = Absent /\ ~st.active
    <2>1. Finalized(st, row) = st
      BY <1>5 DEF Finalized
    <2> QED BY <1>5, <2>1 DEF View, SeededLifecycle!Plan
  <1> QED BY <1>1, <1>2, <1>3, <1>4, <1>5

\* A key that is left alone is planned against what it is.
LEMMA UnchangedPlan ==
  ASSUME NEW st \in Activation
  PROVE  View(st) = SeededLifecycle!Plan(View(st), st.active)
  BY DEF View, SeededLifecycle!Plan, Activation

\* Rows that are each finalized or left alone make one step of the oracle.
LEMMA RowsPlan ==
  ASSUME act \in [Keys -> Activation], act' \in [Keys -> Activation],
         \A k \in Keys : \/ act'[k] = act[k]
                         \/ \E row : act'[k] = Finalized(act[k], row)
  PROVE  SeededLifecycle!Next
  <1> DEFINE matches == {k \in Keys : act'[k].active}
  <1>1. \A k \in Keys : act[k] \in Activation /\ act'[k].active \in BOOLEAN
    BY DEF Activation
  <1>2. \A k \in Keys : View(act'[k]) =
          SeededLifecycle!Plan(View(act[k]), act'[k].active)
    BY <1>1, FinalizedPlan, UnchangedPlan
  <1>3. \A k \in Keys : act'[k].active = (k \in matches)
    BY <1>1
  <1>4. states' = [k \in Keys |-> View(act'[k])]
    BY DEF states, View
  <1>5. \A k \in Keys : states[k] = View(act[k])
    BY DEF states, View
  <1> HIDE DEF matches
  <1>6. states' = [k \in Keys |-> SeededLifecycle!Plan(states[k], k \in matches)]
    BY <1>2, <1>3, <1>4, <1>5
  <1>7. matches \in SUBSET Keys
    BY DEF matches
  <1> QED BY <1>6, <1>7
          DEF SeededLifecycle!Next, SeededLifecycle!ApplyFinalMatches

LEMMA RefreshPlan ==
  ASSUME TypeInv, TypeInv', NEW rows, Refresh(rows)
  PROVE  SeededLifecycle!Next
  BY RowsPlan DEF Refresh, TypeInv, TypeOK

LEMMA ReconcilePlan ==
  ASSUME TypeInv, TypeInv', NEW mode, ReconcileRule(mode)
  PROVE  SeededLifecycle!Next
  BY RowsPlan DEF ReconcileRule, Reconciled, TypeInv, TypeOK

LEMMA LifecycleStep ==
  TypeInv /\ [Next]_vars => [SeededLifecycle!Next]_states
  <1> SUFFICES ASSUME TypeInv, [Next]_vars PROVE [SeededLifecycle!Next]_states
    OBVIOUS
  <1>1. TypeInv'
    BY TypeStep
  <1>2. act' = act => states' = states
    BY DEF states
  <1>3. CASE Run \/ CoordinatedRefresh
    BY <1>1, <1>2, <1>3, RefreshPlan
       DEF Run, CoordinatedRefresh, RefreshRule, BeginRefresh, ClearRefreshBarrier
  <1>4. CASE Recovery
    BY <1>1, <1>2, <1>4, ReconcilePlan DEF Recovery, Restore, BeginReconciliation
  <1>5. CASE \/ ReleaseCoordinatorLock \/ ClaimSome \/ SweepExpiredLeases
             \/ BackoffSome \/ \E e \in DOMAIN agenda : LeaseExpires(e)
    BY <1>2, <1>5 DEF ReleaseCoordinatorLock, ClaimSome, Claim,
       SweepExpiredLeases, BackoffSome, BackoffElapses, LeaseExpires
  <1>6. CASE ExecuteSome
    BY <1>2, <1>6
       DEF ExecuteSome, Execute, Complete, Skip, Retry, Fail, Outcome
  <1>7. CASE VersionChange \/ Repair
    BY <1>2, <1>7 DEF VersionChange, Pause, Resume, Remove, Replace,
       ChangeVersion, Repair, Requeue, Cancel
  <1>8. CASE UNCHANGED vars
    BY <1>2, <1>8 DEF vars
  <1> QED BY <1>3, <1>4, <1>5, <1>6, <1>7, <1>8 DEF Next

\* Every step of the activation state, by a refresh or by a reconciliation in
\* either mode and after any restore, is one the reference oracle plans: a
\* generation is counted exactly when an inactive key is matched.
THEOREM RuntimeImplementsLifecycle == Spec => ImplementsLifecycle
  <1>1. TypeInv /\ [Next]_vars => [SeededLifecycle!Next]_states
    BY LifecycleStep
  <1> QED BY <1>1, InitType, TypeStep, PTL DEF Spec, ImplementsLifecycle

-----------------------------------------------------------------------------
(***************************************************************************)
(* The activation state mirrors the match relation while no barrier        *)
(* stands.  A refresh barrier must preserve this as well, since clearing   *)
(* it checks nothing; only a recovery barrier may cover a difference, and  *)
(* only a reconciliation lifts it, unless a refresh is begun over it.      *)
(* Removing the version changes nothing of this: the last relation is what *)
(* the activation state keeps agreeing with.                               *)
(***************************************************************************)
Mirrors(st, row) ==
  /\ st.active <=> row # Absent
  /\ st.active => Watched[st.bindings] = Watched[row]

MirrorInv ==
  barrier # "RECONCILING" => \A k \in Keys : Mirrors(act[k], match[k])

LEMMA FinalizedMirrors ==
  ASSUME NEW st \in Activation, NEW row
  PROVE  Mirrors(Finalized(st, row), row)
  <1>1. st.active \in BOOLEAN
    BY DEF Activation
  <1>2. CASE row # Absent /\ ~st.active
    <2>1. /\ Finalized(st, row).active = TRUE
          /\ Finalized(st, row).bindings = row
      BY <1>2 DEF Finalized
    <2> QED BY <1>2, <2>1 DEF Mirrors
  <1>3. CASE row # Absent /\ st.active
    <2> DEFINE rev == IF WatchedChanged(st.bindings, row)
                      THEN st.rev + 1 ELSE st.rev
    <2>1. Finalized(st, row) =
            [st EXCEPT !.bindings = row, !.last = row, !.rev = rev]
      BY <1>3 DEF Finalized
    <2> HIDE DEF rev
    <2>2. Finalized(st, row).active = st.active /\ Finalized(st, row).bindings = row
      BY <2>1 DEF Activation
    <2> QED BY <1>3, <2>2 DEF Mirrors
  <1>4. CASE row = Absent /\ st.active
    <2>1. Finalized(st, row).active = FALSE
      BY <1>4 DEF Finalized, Activation
    <2> QED BY <1>4, <2>1 DEF Mirrors
  <1>5. CASE row = Absent /\ ~st.active
    <2>1. Finalized(st, row) = st
      BY <1>5 DEF Finalized
    <2> QED BY <1>5, <2>1 DEF Mirrors
  <1> QED BY <1>1, <1>2, <1>3, <1>4, <1>5

LEMMA ReconciledMirrors ==
  ASSUME NEW st \in Activation, NEW row
  PROVE  Mirrors(Reconciled(st, row), row)
  <1>1. CASE st.active /\ row # Absent /\ ~WatchedChanged(st.bindings, row)
    BY <1>1 DEF Reconciled, WatchedChanged, Mirrors
  <1>2. CASE ~(st.active /\ row # Absent /\ ~WatchedChanged(st.bindings, row))
    BY <1>2, FinalizedMirrors DEF Reconciled
  <1> QED BY <1>1, <1>2

\* A refresh visits only the keys whose rows changed; the others still mirror.
LEMMA RefreshMirrors ==
  ASSUME TypeInv, \A k \in Keys : Mirrors(act[k], match[k]),
         NEW rows \in [Keys -> Row], Refresh(rows)
  PROVE  \A k \in Keys : Mirrors(act'[k], match'[k])
  <1> SUFFICES ASSUME NEW k \in Keys PROVE Mirrors(act'[k], match'[k])
    OBVIOUS
  <1>1. act[k] \in Activation /\ match'[k] = rows[k]
    BY DEF TypeInv, TypeOK, Refresh
  <1>2. CASE rows[k] = match[k]
    <2>1. act'[k] = act[k]
      BY <1>2 DEF Refresh
    <2> QED BY <1>1, <1>2, <2>1
  <1>3. CASE rows[k] # match[k]
    <2>1. act'[k] = Finalized(act[k], rows[k])
      BY <1>3 DEF Refresh
    <2> QED BY <1>1, <2>1, FinalizedMirrors
  <1> QED BY <1>2, <1>3

LEMMA InitMirrors == Init => MirrorInv
  BY DEF Init, MirrorInv, Mirrors, NoActivation

LEMMA MirrorStep ==
  ASSUME "REFRESH_OVER_RECOVERY" \notin Procedures, TypeInv, MirrorInv,
         [Next]_vars
  PROVE  MirrorInv'
  <1>1. ASSUME NEW rows \in [Keys -> Row], Refresh(rows), UNCHANGED maint
        PROVE  MirrorInv'
    BY <1>1, RefreshMirrors DEF MirrorInv, maint
  <1>2. ASSUME NEW mode, ReconcileRule(mode) PROVE MirrorInv'
    <2>1. \A k \in Keys : act'[k] = Reconciled(act[k], match[k])
                          /\ match'[k] = match[k] /\ act[k] \in Activation
      BY <1>2 DEF ReconcileRule, TypeInv, TypeOK
    <2> QED BY <2>1, ReconciledMirrors DEF MirrorInv
  <1>3. CASE Run
    BY <1>1, <1>3 DEF Run
  <1>4. CASE CoordinatedRefresh
    <2>1. CASE BeginRefresh
      BY <2>1 DEF BeginRefresh, MirrorInv
    <2>2. CASE RefreshRule
      BY <1>1, <2>2 DEF RefreshRule
    <2>3. CASE ClearRefreshBarrier
      BY <2>3 DEF ClearRefreshBarrier, MirrorInv
    <2> QED BY <1>4, <2>1, <2>2, <2>3 DEF CoordinatedRefresh
  <1>5. CASE Recovery
    BY <1>2, <1>5 DEF Recovery, Restore, BeginReconciliation, MirrorInv
  <1>6. CASE \/ ReleaseCoordinatorLock \/ ClaimSome \/ SweepExpiredLeases
             \/ BackoffSome \/ \E e \in DOMAIN agenda : LeaseExpires(e)
    BY <1>6 DEF ReleaseCoordinatorLock, ClaimSome, Claim, SweepExpiredLeases,
       BackoffSome, BackoffElapses, LeaseExpires, maint, MirrorInv
  <1>7. CASE ExecuteSome
    BY <1>7 DEF ExecuteSome, Execute, Complete, Skip, Retry, Fail, Outcome,
       maint, MirrorInv
  <1>8. CASE VersionChange
    BY <1>8 DEF VersionChange, Pause, Resume, Remove, Replace, ChangeVersion,
       MirrorInv
  <1>9. CASE Repair
    BY <1>9 DEF Repair, Requeue, Cancel, maint, MirrorInv
  <1>10. CASE UNCHANGED vars
    BY <1>10 DEF vars, MirrorInv
  <1> QED BY <1>3, <1>4, <1>5, <1>6, <1>7, <1>8, <1>9, <1>10 DEF Next

\* If no refresh is begun over a recovery that is still due, then whenever no
\* barrier stands a key is active exactly when it is matched, with the watched
\* columns of its row: whatever sessions were lost, restores happened and
\* reconciliations ran, workers only ever act on a true activation state.
THEOREM StateMirrors ==
  ASSUME "REFRESH_OVER_RECOVERY" \notin Procedures
  PROVE  Spec => []StateMirrorsMatch
  <1>1. TypeInv /\ MirrorInv /\ [Next]_vars => MirrorInv'
    BY MirrorStep
  <1>2. MirrorInv => StateMirrorsMatch
    BY DEF MirrorInv, StateMirrorsMatch, Mirrors
  <1> QED BY <1>1, <1>2, InitType, TypeStep, InitMirrors, PTL DEF Spec

-----------------------------------------------------------------------------
(***************************************************************************)
(* Refreshes keep every column of an active row up to date, the watched    *)
(* ones and the others.  A reconciliation looks at the watched ones only,  *)
(* so the hypothesis cannot be left out.                                   *)
(***************************************************************************)
ShowsMatch == \A k \in Keys : act[k].active => act[k].bindings = match[k]

LEMMA FinalizedShows ==
  ASSUME NEW st \in Activation, NEW row, Finalized(st, row).active
  PROVE  Finalized(st, row).bindings = row
  <1>1. st.active \in BOOLEAN
    BY DEF Activation
  <1>2. CASE row # Absent /\ ~st.active
    BY <1>2 DEF Finalized
  <1>3. CASE row # Absent /\ st.active
    <2> DEFINE rev == IF WatchedChanged(st.bindings, row)
                      THEN st.rev + 1 ELSE st.rev
    <2>1. Finalized(st, row) =
            [st EXCEPT !.bindings = row, !.last = row, !.rev = rev]
      BY <1>3 DEF Finalized
    <2> HIDE DEF rev
    <2> QED BY <2>1 DEF Activation
  <1>4. CASE row = Absent /\ st.active
    BY <1>4 DEF Finalized, Activation
  <1>5. CASE row = Absent /\ ~st.active
    <2>1. Finalized(st, row) = st
      BY <1>5 DEF Finalized
    <2> QED BY <1>5, <2>1
  <1> QED BY <1>1, <1>2, <1>3, <1>4, <1>5

LEMMA ShowsMatchStep ==
  ASSUME "RECOVERY" \notin Procedures, TypeInv, ShowsMatch, [Next]_vars
  PROVE  ShowsMatch'
  <1>1. ASSUME NEW rows \in [Keys -> Row], Refresh(rows) PROVE ShowsMatch'
    <2> SUFFICES ASSUME NEW k \in Keys, act'[k].active
                 PROVE  act'[k].bindings = match'[k]
      BY DEF ShowsMatch
    <2>1. match'[k] = rows[k] /\ act[k] \in Activation
      BY <1>1 DEF Refresh, TypeInv, TypeOK
    <2>2. CASE rows[k] = match[k]
      <3>1. act'[k] = act[k]
        BY <1>1, <2>2 DEF Refresh
      <3> QED BY <2>1, <2>2, <3>1 DEF ShowsMatch
    <2>3. CASE rows[k] # match[k]
      <3>1. act'[k] = Finalized(act[k], rows[k])
        BY <1>1, <2>3 DEF Refresh
      <3> QED BY <2>1, <3>1, FinalizedShows
    <2> QED BY <2>2, <2>3
  <1>2. CASE Run \/ CoordinatedRefresh
    BY <1>1, <1>2 DEF Run, CoordinatedRefresh, RefreshRule, BeginRefresh,
       ClearRefreshBarrier, ShowsMatch
  <1>3. CASE \/ ReleaseCoordinatorLock \/ ClaimSome \/ SweepExpiredLeases
             \/ BackoffSome \/ \E e \in DOMAIN agenda : LeaseExpires(e)
    BY <1>3 DEF ReleaseCoordinatorLock, ClaimSome, Claim, SweepExpiredLeases,
       BackoffSome, BackoffElapses, LeaseExpires, ShowsMatch
  <1>4. CASE ExecuteSome
    BY <1>4 DEF ExecuteSome, Execute, Complete, Skip, Retry, Fail, Outcome,
       ShowsMatch
  <1>5. CASE VersionChange \/ Repair
    BY <1>5 DEF VersionChange, Pause, Resume, Remove, Replace, ChangeVersion,
       Repair, Requeue, Cancel, ShowsMatch
  <1>6. CASE UNCHANGED vars
    BY <1>6 DEF vars, ShowsMatch
  <1> QED BY <1>2, <1>3, <1>4, <1>5, <1>6 DEF Next

\* As long as nothing is restored or reconciled, an active key shows the row
\* it currently matches, all columns included: what LatestBindings says fails
\* by a reconciliation alone.
THEOREM BindingsAreLatest ==
  ASSUME "RECOVERY" \notin Procedures
  PROVE  Spec => []LatestBindings
  <1>1. Init => ShowsMatch
    BY DEF Init, ShowsMatch, NoActivation
  <1>2. TypeInv /\ ShowsMatch /\ [Next]_vars => ShowsMatch'
    BY ShowsMatchStep
  <1>3. ShowsMatch => LatestBindings
    BY DEF ShowsMatch, LatestBindings
  <1> QED BY <1>1, <1>2, <1>3, TypeInvariant, PTL DEF Spec

-----------------------------------------------------------------------------
(***************************************************************************)
(* What the consequences of a rule version are applied to: the match       *)
(* relation still supports them when they commit, and those of one key     *)
(* commit in the order of its lifecycle.  Both come from three invariants  *)
(* that hold apart from each other: the activation state mirrors the match *)
(* relation (MirrorInv), the events agree with the activation state        *)
(* (HistoryInv), and an episode is settled once (SettledInv).              *)
(***************************************************************************)
\* An effect commits for a lease in force, and only while the activation row
\* of its key is still what its event was derived from.
LEMMA CompletedEligible ==
  ASSUME [Next]_vars, NEW e \in CompletedNow
  PROVE  /\ e \in DOMAIN agenda /\ agenda[e].state = "LEASED"
         /\ Eligible(e)
         /\ UNCHANGED <<match, act, events>>
  <1>1. PICK x \in executions' \ executions : x.ep = e /\ x.status = "COMPLETED"
    BY DEF CompletedNow
  <1>2. CASE ExecuteSome
    <2>1. PICK w \in Workers, d \in DOMAIN agenda :
            \E token \in 1 .. agenda[d].minted : Execute(w, token, d)
      BY <1>2 DEF ExecuteSome
    <2>2. PICK token \in 1 .. agenda[d].minted : Execute(w, token, d)
      BY <2>1
    <2>3. ASSUME NEW status, Outcome(token, d, status)
          PROVE  /\ e = d /\ status = "COMPLETED"
                 /\ UNCHANGED <<match, act, events>>
      BY <1>1, <2>3 DEF Outcome
    <2>4. Complete(w, token, d)
      BY <2>2, <2>3 DEF Execute, Skip, Retry, Fail
    <2> QED BY <2>3, <2>4 DEF Complete, Holds
  <1>3. CASE Run \/ CoordinatedRefresh
    BY <1>1, <1>3 DEF Run, CoordinatedRefresh, RefreshRule, Refresh,
       BeginRefresh, ClearRefreshBarrier
  <1>4. CASE Recovery
    BY <1>1, <1>4 DEF Recovery, Restore, BeginReconciliation, ReconcileRule
  <1>5. CASE \/ ReleaseCoordinatorLock \/ ClaimSome \/ SweepExpiredLeases
             \/ BackoffSome \/ \E d \in DOMAIN agenda : LeaseExpires(d)
    BY <1>1, <1>5 DEF ReleaseCoordinatorLock, ClaimSome, Claim,
       SweepExpiredLeases, BackoffSome, BackoffElapses, LeaseExpires
  <1>6. CASE VersionChange \/ Repair
    BY <1>1, <1>6 DEF VersionChange, Pause, Resume, Remove, Replace,
       ChangeVersion, Repair, Requeue, Cancel
  <1>7. CASE UNCHANGED vars
    BY <1>1, <1>7 DEF vars
  <1> QED BY <1>2, <1>3, <1>4, <1>5, <1>6, <1>7 DEF Next

\* The event of an episode that may be completed is the last one of its key.
LEMMA EligibleCurrent ==
  ASSUME TypeInv, HistoryInv, NEW e \in DOMAIN agenda, Eligible(e)
  PROVE  /\ e \in DOMAIN events /\ e \in EpisodeId /\ e.key \in Keys
         /\ e.kind # "DEACTIVATE" =>
              act[e.key].active /\ e.gen = act[e.key].gen
         /\ e.kind = "CHANGE" =>
              e.rev = act[e.key].rev
              /\ Watched[events[e].new] = Watched[act[e.key].bindings]
  <1>1. e \in DOMAIN events /\ e \in EpisodeId /\ e.key \in Keys /\ e.kind \in Kinds
    BY DEF TypeInv, TypeOK, EpisodeId
  <1>2. e.kind = "ACTIVATE" => act[e.key].active /\ act[e.key].gen = e.gen
    BY DEF Eligible
  <1>3. e.kind = "CHANGE" => /\ act[e.key].active /\ act[e.key].gen = e.gen
                             /\ act[e.key].rev = e.rev
    BY DEF Eligible
  <1>4. Reported(e, act[e.key])
    BY <1>1 DEF HistoryInv
  <1>5. e.kind = "CHANGE" => Watched[events[e].new] = Watched[act[e.key].bindings]
    BY <1>3, <1>4 DEF Reported, Current
  <1> QED BY <1>1, <1>2, <1>3, <1>5 DEF Kinds

LEMMA EffectsMatchStep ==
  ASSUME TypeInv, HistoryInv, MirrorInv, [Next]_vars, NEW e \in CompletedNow
  PROVE  /\ e.kind # "DEACTIVATE" => match[e.key] # Absent
         /\ e.kind = "CHANGE" => Watched[match[e.key]] = Watched[events[e].new]
  <1>1. e \in DOMAIN agenda /\ Eligible(e)
    BY CompletedEligible
  <1>2. barrier = "NONE"
    BY <1>1 DEF Eligible
  <1>3. e.key \in Keys
    BY <1>1, EligibleCurrent
  <1>4. Mirrors(act[e.key], match[e.key])
    BY <1>2, <1>3 DEF MirrorInv
  <1>5. /\ e.kind # "DEACTIVATE" => act[e.key].active
        /\ e.kind = "CHANGE" => /\ act[e.key].active
                                /\ Watched[events[e].new] = Watched[act[e.key].bindings]
    BY <1>1, EligibleCurrent
  <1> QED BY <1>4, <1>5 DEF Mirrors

\* If no refresh is begun over a recovery that is still due, a consequence
\* commits only while the match relation itself supports it, although the
\* worker looks at nothing but the activation row: whatever was refreshed,
\* restored or reconciled since the episode was claimed.
THEOREM EffectsMatch ==
  ASSUME "REFRESH_OVER_RECOVERY" \notin Procedures
  PROVE  Spec => EffectsMatchRelation
  <1>1. TypeInv /\ MirrorInv /\ [Next]_vars => MirrorInv'
    BY MirrorStep
  <1>2. TypeInv /\ HistoryInv /\ MirrorInv /\ [Next]_vars =>
          [\A e \in CompletedNow :
             /\ e.kind # "DEACTIVATE" => match[e.key] # Absent
             /\ e.kind = "CHANGE" =>
                  Watched[match[e.key]] = Watched[events[e].new]]_vars
    BY EffectsMatchStep
  <1> QED BY <1>1, <1>2, InitMirrors, TypeInvariant, HistoryInvariant, PTL
          DEF Spec, EffectsMatchRelation

-----------------------------------------------------------------------------
\* An effect that committed belongs to a recorded event.
LEMMA EffectRecorded ==
  ASSUME SettledInv, HistoryInv, NEW x \in executions
  PROVE  /\ x.ep \in EpisodeId /\ x.ep \in DOMAIN events
         /\ Placed(x.ep, act[x.ep.key])
  BY DEF SettledInv, AttemptsCounted, TypeInv, TypeOK, HistoryInv

LEMMA EffectsOrderStep ==
  ASSUME SettledInv, HistoryInv, [Next]_vars, NEW e \in CompletedNow,
         NEW x \in executions, x.status = "COMPLETED", x.ep.key = e.key
  PROVE  /\ e.kind # "DEACTIVATE" => x.ep.gen <= e.gen
         /\ e.kind # "DEACTIVATE" /\ x.ep.kind = "DEACTIVATE" =>
              x.ep.gen < e.gen
         /\ e.kind = "CHANGE" /\ x.ep.kind = "CHANGE" /\ x.ep.gen = e.gen =>
              x.ep.rev < e.rev
  <1> DEFINE d == x.ep
             st == act[e.key]
  <1>1. /\ e \in DOMAIN agenda /\ agenda[e].state = "LEASED" /\ Eligible(e)
        /\ TypeInv
    BY CompletedEligible DEF SettledInv
  <1>2. /\ e \in EpisodeId /\ st \in Activation
        /\ e.kind # "DEACTIVATE" => st.active /\ e.gen = st.gen
        /\ e.kind = "CHANGE" => e.rev = st.rev
    BY <1>1, EligibleCurrent DEF TypeInv, TypeOK
  <1>3. d \in EpisodeId /\ Placed(d, st)
    BY EffectRecorded
  <1>4. d # e
    BY <1>1 DEF SettledInv, SettledOnce
  <1>5. /\ d.gen \in Nat /\ d.rev \in Nat /\ e.gen \in Nat /\ e.rev \in Nat
        /\ st.gen \in Nat /\ st.rev \in Nat
    BY <1>2, <1>3 DEF EpisodeId, Activation
  <1>6. d.gen <= st.gen /\ (d.kind = "DEACTIVATE" /\ d.gen = st.gen => ~st.active)
    BY <1>3, <1>5 DEF Placed
  <1>7. d.kind = "CHANGE" /\ d.gen = st.gen => d.rev <= st.rev
    BY <1>3 DEF Placed
  <1>8. ~(d.key = e.key /\ d.gen = e.gen /\ d.kind = e.kind /\ d.rev = e.rev)
    <2> HIDE DEF d
    <2> QED BY <1>2, <1>3, <1>4 DEF EpisodeId
  <1>9. d.key = e.key
    OBVIOUS
  <1> HIDE DEF d, st
  <1>10. e.kind # "DEACTIVATE" => d.gen <= e.gen
    BY <1>2, <1>6
  <1>11. e.kind # "DEACTIVATE" /\ d.kind = "DEACTIVATE" => d.gen < e.gen
    BY <1>2, <1>5, <1>6
  <1>12. e.kind = "CHANGE" /\ d.kind = "CHANGE" /\ d.gen = e.gen => d.rev < e.rev
    BY <1>2, <1>5, <1>7, <1>8, <1>9
  <1> QED BY <1>10, <1>11, <1>12 DEF d

\* However late a worker comes, retries or holds on to an old lease: once an
\* effect of a key has committed, none of an older generation or revision
\* does, and no ACTIVATE or CHANGE after its own DEACTIVATE.
THEOREM EffectsAreInOrder == Spec => EffectsInOrder
  <1>1. SettledInv /\ HistoryInv /\ [Next]_vars =>
          [\A e \in CompletedNow : \A x \in executions :
             x.status = "COMPLETED" /\ x.ep.key = e.key =>
               /\ e.kind # "DEACTIVATE" => x.ep.gen <= e.gen
               /\ e.kind # "DEACTIVATE" /\ x.ep.kind = "DEACTIVATE" =>
                    x.ep.gen < e.gen
               /\ e.kind = "CHANGE" /\ x.ep.kind = "CHANGE"
                  /\ x.ep.gen = e.gen => x.ep.rev < e.rev]_vars
    BY EffectsOrderStep
  <1> QED BY <1>1, InitSettled, SettledStep, HistoryInvariant, PTL
          DEF Spec, EffectsInOrder

-----------------------------------------------------------------------------
(***************************************************************************)
(* What a removal leaves behind.                                           *)
(***************************************************************************)
\* A removed version is not claimed from, swept into or refreshed: its
\* episodes change by elapsing back-offs only.
LEMMA RemovedRows ==
  ASSUME "REPAIR" \notin Procedures, TypeInv, OnlyRetriesRemain,
         dropped, vstate = "REMOVED", [Next]_vars, vstate' = "REMOVED"
  PROVE  OnlyRetriesRemain'
  <1>1. Expired = {}
    BY DEF OnlyRetriesRemain, Expired, Open, Unsettled
  <1>2. \A e \in DOMAIN agenda : agenda[e].state # "LEASED"
    BY DEF OnlyRetriesRemain, Open, Unsettled
  <1>3. ~Run /\ ~ClaimSome /\ ~SweepExpiredLeases /\ ~RefreshRule
    BY <1>1 DEF Run, ClaimSome, Claim, SweepExpiredLeases, RefreshRule
  <1>4. ~ExecuteSome /\ ~\E e \in DOMAIN agenda : LeaseExpires(e)
    BY <1>2 DEF ExecuteSome, Execute, Complete, Skip, Retry, Fail, Holds, LeaseExpires
  <1>5. ~VersionChange
    BY DEF VersionChange, Pause, Resume, Remove, Replace, ChangeVersion
  <1>6. CASE BackoffSome
    <2>1. PICK e \in DOMAIN agenda : BackoffElapses(e)
      BY <1>6 DEF BackoffSome
    <2>2. /\ DOMAIN agenda' = DOMAIN agenda
          /\ \A d \in DOMAIN agenda : agenda'[d].state = agenda[d].state
      <3> SUFFICES ASSUME NEW d \in DOMAIN agenda
                   PROVE  DOMAIN agenda' = DOMAIN agenda /\ agenda'[d].state = agenda[d].state
        BY <2>1 DEF BackoffElapses
      <3>1. agenda[d] \in Episode
        BY DEF TypeInv, TypeOK
      <3> QED BY <2>1, <3>1 DEF BackoffElapses, Episode
    <2> QED BY <2>2 DEF OnlyRetriesRemain, Open, Unsettled
  <1>7. CASE UNCHANGED agenda
    BY <1>7 DEF OnlyRetriesRemain, Open, Unsettled
  <1>8. CASE ReleaseCoordinatorLock \/ BeginRefresh \/ ClearRefreshBarrier
             \/ BeginReconciliation \/ Restore
    BY <1>7, <1>8 DEF ReleaseCoordinatorLock, BeginRefresh, ClearRefreshBarrier,
       BeginReconciliation, Restore
  <1>9. \A mode : ~ReconcileRule(mode)
    BY DEF ReconcileRule
  <1> QED BY <1>3, <1>4, <1>5, <1>6, <1>7, <1>8, <1>9
      DEF Next, vars, CoordinatedRefresh, Recovery

\* A version becomes a removed one, its relation dropped, by remove_rule while
\* nothing is pending or leased, or by a replacement that leaves nothing open.
LEMMA RemovalStep ==
  ASSUME "REPAIR" \notin Procedures, TypeInv, OnlyRetriesRemain, [Next]_vars
  PROVE  OnlyRetriesRemain'
  <1>1. CASE Remove
    BY <1>1 DEF Remove, OnlyRetriesRemain, ChangeVersion, Open, Unsettled, Waiting
  <1>2. ASSUME NEW policy, Replace(policy) PROVE OnlyRetriesRemain'
    <2>1. vstate' = "REMOVED" => Open(agenda') = {}
      BY <1>2 DEF Replace, ChangeVersion
    <2> QED BY <2>1 DEF OnlyRetriesRemain
  <1>3. CASE Pause \/ Resume
    BY <1>3 DEF Pause, Resume, ChangeVersion, OnlyRetriesRemain
  <1>4. CASE ~VersionChange
    <2>1. vstate' = vstate /\ dropped' = dropped
      <3>1. CASE Run \/ CoordinatedRefresh
        BY <3>1 DEF Run, CoordinatedRefresh, BeginRefresh, RefreshRule,
           ClearRefreshBarrier, maint
      <3>2. CASE Recovery
        BY <3>2 DEF Recovery, Restore, BeginReconciliation, ReconcileRule
      <3>3. CASE \/ ReleaseCoordinatorLock \/ ClaimSome \/ SweepExpiredLeases
                 \/ BackoffSome \/ \E e \in DOMAIN agenda : LeaseExpires(e)
        BY <3>3 DEF ReleaseCoordinatorLock, ClaimSome, Claim, SweepExpiredLeases,
           BackoffSome, BackoffElapses, LeaseExpires, maint
      <3>4. CASE ExecuteSome
        BY <3>4 DEF ExecuteSome, Execute, Complete, Skip, Retry, Fail, Outcome, maint
      <3> QED BY <1>4, <3>1, <3>2, <3>3, <3>4 DEF Next, vars
    <2>2. CASE dropped /\ vstate = "REMOVED"
      BY <2>1, <2>2, RemovedRows
    <2> QED BY <2>1, <2>2 DEF OnlyRetriesRemain
  <1> QED BY <1>1, <1>2, <1>3, <1>4 DEF VersionChange

\* Unless an operator requeues episodes, removing a version leaves nothing open
\* but episodes that wait for a retry: the exact extent of what it overlooks.
THEOREM RemovalsLeaveRetries ==
  ASSUME "REPAIR" \notin Procedures
  PROVE  Spec => []OnlyRetriesRemain
  <1>1. Init => OnlyRetriesRemain
    BY DEF Init, OnlyRetriesRemain
  <1>2. TypeInv /\ OnlyRetriesRemain /\ [Next]_vars => OnlyRetriesRemain'
    BY RemovalStep
  <1> QED BY <1>1, <1>2, InitType, TypeStep, PTL DEF Spec
=============================================================================
