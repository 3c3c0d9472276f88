--------------------- MODULE RuleRuntimeHistoryProofs ---------------------
(***************************************************************************)
(* The lifecycle events of a key tell one story: that of its activation    *)
(* rows.  The proofs go by what a step does to one activation row (RowStep) *)
(* and to the event table (Advance), whatever action takes the step.       *)
(*                                                                         *)
(* HistoryCoherent is not inductive.  HistoryInv adds that a recorded      *)
(* event is numbered as its kind demands and, when it is the last one of   *)
(* an active key, has the watched columns the key shows: that is what the  *)
(* next CHANGE starts from.                                                *)
(*                                                                         *)
(* The last part is about how a refresh comes to record the events: the    *)
(* loop of finalize_match_delta, one key after the other, writes what      *)
(* Refresh says.  Its invariant is that after each turn the transaction    *)
(* has raised, or has written what Refresh would write if only the keys it *)
(* has come to had changed (LoopRefreshes).                                *)
(***************************************************************************)
EXTENDS RuleRuntimeProofs, FinalizeMatchDelta, FiniteSetTheorems,
        WellFoundedInduction

\* What a step may do to an activation row, by the event it stands for.
RowStep(st, nx) ==
  \/ /\ Transition(st, nx) = "NOOP"
     /\ nx.active = st.active /\ nx.gen = st.gen /\ nx.rev = st.rev
     /\ st.active => Watched[nx.bindings] = Watched[st.bindings]
  \/ /\ Transition(st, nx) = "ACTIVATE"
     /\ ~st.active /\ nx.active /\ nx.gen = st.gen + 1 /\ nx.rev = 0
  \/ /\ Transition(st, nx) = "CHANGE"
     /\ st.active /\ nx.active /\ nx.gen = st.gen /\ nx.rev = st.rev + 1
  \/ /\ Transition(st, nx) = "DEACTIVATE"
     /\ st.active /\ ~nx.active /\ nx.gen = st.gen /\ nx.rev = st.rev

\* A new event is that of its key's step, with the bindings of the step.
Reports(e) ==
  /\ e.key \in Keys
  /\ Transition(act[e.key], act'[e.key]) # "NOOP"
  /\ e = EventOf(e.key, act[e.key], act'[e.key])
  /\ events'[e].new = act'[e.key].bindings
  /\ e.kind = "CHANGE" => events'[e].old = act[e.key].bindings

\* The activation rows step, events stay, and every new one reports a step.
Advance ==
  /\ \A k \in Keys : RowStep(act[k], act'[k])
  /\ \A e \in DOMAIN events : e \in DOMAIN events' /\ events'[e] = events[e]
  /\ \A e \in DOMAIN events' \ DOMAIN events : Reports(e)

\* The steps of the keys that make one are all recorded.
Announced ==
  \A k \in Keys :
    Transition(act[k], act'[k]) # "NOOP" =>
      EventOf(k, act[k], act'[k]) \in DOMAIN events'

-----------------------------------------------------------------------------
(***************************************************************************)
(* Steps of one activation row.                                            *)
(***************************************************************************)
\* A row that is left alone makes no step.
LEMMA StutterStep ==
  ASSUME NEW st \in Activation
  PROVE  RowStep(st, st)
  BY DEF RowStep, Transition, Activation

\* Finalizing a key starts a generation, ends it, counts a revision, or
\* changes columns that nobody watches.
LEMMA FinalizedStep ==
  ASSUME NEW st \in Activation, NEW row
  PROVE  RowStep(st, Finalized(st, row))
  <1>1. st.active \in BOOLEAN /\ st.rev \in Nat
    BY DEF Activation
  <1>2. CASE row # Absent /\ ~st.active
    <2>1. /\ Finalized(st, row).active = TRUE /\ Finalized(st, row).rev = 0
          /\ Finalized(st, row).gen = st.gen + 1
      BY <1>2 DEF Finalized
    <2>2. Transition(st, Finalized(st, row)) = "ACTIVATE"
      BY <1>2, <2>1 DEF Transition
    <2> QED BY <1>2, <2>1, <2>2 DEF RowStep
  <1>3. CASE row # Absent /\ st.active
    <2> DEFINE rev == IF WatchedChanged(st.bindings, row)
                      THEN st.rev + 1 ELSE st.rev
    <2>1. Finalized(st, row) =
            [st EXCEPT !.bindings = row, !.last = row, !.rev = rev]
      BY <1>3 DEF Finalized
    <2>2. CASE WatchedChanged(st.bindings, row)
      <3>1. rev = st.rev + 1
        BY <2>2
      <3> HIDE DEF rev
      <3>2. /\ Finalized(st, row).active = st.active
            /\ Finalized(st, row).gen = st.gen /\ Finalized(st, row).rev = rev
        BY <2>1 DEF Activation
      <3>3. Transition(st, Finalized(st, row)) = "CHANGE"
        BY <1>1, <1>3, <3>1, <3>2 DEF Transition
      <3> QED BY <1>3, <3>1, <3>2, <3>3 DEF RowStep
    <2>3. CASE ~WatchedChanged(st.bindings, row)
      <3>1. rev = st.rev
        BY <2>3
      <3> HIDE DEF rev
      <3>2. /\ Finalized(st, row).active = st.active
            /\ Finalized(st, row).gen = st.gen /\ Finalized(st, row).rev = rev
            /\ Finalized(st, row).bindings = row
        BY <2>1 DEF Activation
      <3>3. Transition(st, Finalized(st, row)) = "NOOP"
        BY <1>3, <3>1, <3>2 DEF Transition
      <3>4. Watched[st.bindings] = Watched[row]
        BY <2>3 DEF WatchedChanged
      <3> QED BY <3>1, <3>2, <3>3, <3>4 DEF RowStep
    <2> QED BY <2>2, <2>3
  <1>4. CASE row = Absent /\ st.active
    <2>1. /\ Finalized(st, row).active = FALSE
          /\ Finalized(st, row).gen = st.gen /\ Finalized(st, row).rev = st.rev
      BY <1>4 DEF Finalized, Activation
    <2>2. Transition(st, Finalized(st, row)) = "DEACTIVATE"
      BY <1>4, <2>1 DEF Transition
    <2> QED BY <1>4, <2>1, <2>2 DEF RowStep
  <1>5. CASE row = Absent /\ ~st.active
    <2>1. Finalized(st, row) = st
      BY <1>5 DEF Finalized
    <2> QED BY <2>1, StutterStep
  <1> QED BY <1>1, <1>2, <1>3, <1>4, <1>5

LEMMA ReconciledStep ==
  ASSUME NEW st \in Activation, NEW row
  PROVE  RowStep(st, Reconciled(st, row))
  BY FinalizedStep, StutterStep DEF Reconciled

-----------------------------------------------------------------------------
(***************************************************************************)
(* Every step of the specification advances the history.                   *)
(***************************************************************************)
\* What an emission adds to the event table.
LEMMA EmittedReports ==
  ASSUME TypeInv, NEW ag, Emit(ag, Emitted(act')),
         \A k \in Keys : RowStep(act[k], act'[k])
  PROVE  Advance /\ Announced
  <1> DEFINE changed == {k \in Keys : Transition(act[k], act'[k]) # "NOOP"}
             ids == {EventOf(k, act[k], act'[k]) : k \in changed}
             emitted == Emitted(act')
  <1>1. events' = Insert(events, emitted)
    BY DEF Emit
  <1>2. /\ DOMAIN emitted = ids
        /\ \A e \in ids : emitted[e] =
             [old |-> CASE e.kind = "ACTIVATE" -> Absent
                        [] e.kind = "CHANGE" -> act[e.key].bindings
                        [] OTHER -> act[e.key].last,
              new |-> act'[e.key].bindings]
    BY DEF Emitted
  <1> HIDE DEF emitted
  <1>3. /\ DOMAIN events' = DOMAIN events \cup DOMAIN emitted
        /\ \A e \in DOMAIN events : events'[e] = events[e]
        /\ \A e \in DOMAIN emitted \ DOMAIN events : events'[e] = emitted[e]
    BY <1>1 DEF Insert
  <1>4. ASSUME NEW e \in DOMAIN events' \ DOMAIN events PROVE Reports(e)
    <2>1. e \in ids /\ events'[e] = emitted[e]
      BY <1>2, <1>3
    <2>2. PICK k \in changed : e = EventOf(k, act[k], act'[k])
      BY <2>1
    <2>3. e.key = k
      BY <2>2 DEF EventOf
    <2> HIDE DEF ids
    <2>4. ASSUME e.kind = "CHANGE" PROVE emitted[e].old = act[k].bindings
      BY <1>2, <2>1, <2>3, <2>4
    <2>5. emitted[e].new = act'[k].bindings
      BY <1>2, <2>1, <2>3
    <2> QED BY <2>1, <2>2, <2>3, <2>4, <2>5 DEF Reports
  <1>5. Announced
    BY <1>2, <1>3 DEF Announced
  <1> QED BY <1>3, <1>4, <1>5 DEF Advance

\* A step that touches neither table.
LEMMA SettledAdvance ==
  ASSUME TypeInv, act' = act, events' = events
  PROVE  Advance /\ Announced
  <1>1. \A k \in Keys : RowStep(act[k], act'[k])
    BY StutterStep DEF TypeInv, TypeOK
  <1>2. \A k \in Keys : Transition(act[k], act'[k]) = "NOOP"
    BY DEF Transition, TypeInv, TypeOK, Activation
  <1> QED BY <1>1, <1>2 DEF Advance, Announced

LEMMA RefreshAdvance ==
  ASSUME TypeInv, NEW rows, Refresh(rows)
  PROVE  Advance /\ Announced
  <1> DEFINE nx == [k \in Keys |-> IF rows[k] = match[k] THEN act[k]
                                   ELSE Finalized(act[k], rows[k])]
  <1>1. \A k \in Keys : RowStep(act[k], nx[k])
    BY StutterStep, FinalizedStep DEF TypeInv, TypeOK
  <1>2. act' = nx /\ Emit(Withdrawn(nx), Emitted(nx))
    BY DEF Refresh
  <1> HIDE DEF nx
  <1> QED BY <1>1, <1>2, EmittedReports

\* A reconciliation announces its steps in one of its modes only.
LEMMA ReconcileAdvance ==
  ASSUME TypeInv, NEW mode, ReconcileRule(mode)
  PROVE  /\ Advance
         /\ mode = "EMIT_MISSING_EVENTS" => Announced
  <1> DEFINE nx == [k \in Keys |-> Reconciled(act[k], match[k])]
  <1>1. \A k \in Keys : RowStep(act[k], nx[k])
    BY ReconciledStep DEF TypeInv, TypeOK
  <1>2. /\ act' = nx
        /\ IF mode = "EMIT_MISSING_EVENTS" THEN Emit(agenda, Emitted(nx))
           ELSE UNCHANGED <<events, agenda>>
    BY DEF ReconcileRule
  <1> HIDE DEF nx
  <1>3. CASE mode = "EMIT_MISSING_EVENTS"
    BY <1>1, <1>2, <1>3, EmittedReports
  <1>4. CASE mode # "EMIT_MISSING_EVENTS"
    BY <1>1, <1>2, <1>4 DEF Advance
  <1> QED BY <1>3, <1>4

LEMMA StepAdvances ==
  ASSUME TypeInv, [Next]_vars
  PROVE  /\ Advance
         /\ "STATE_ONLY" \notin EmissionModes => Announced
  <1>1. CASE Run
    BY <1>1, RefreshAdvance DEF Run
  <1>2. CASE CoordinatedRefresh
    BY <1>2, RefreshAdvance, SettledAdvance
       DEF CoordinatedRefresh, RefreshRule, BeginRefresh, ClearRefreshBarrier
  <1>3. CASE Recovery
    <2>1. CASE Restore \/ BeginReconciliation
      BY <2>1, SettledAdvance DEF Restore, BeginReconciliation
    <2>2. CASE \E mode \in EmissionModes : ReconcileRule(mode)
      BY <2>2, ReconcileAdvance, ModesAssumption
    <2> QED BY <1>3, <2>1, <2>2 DEF Recovery
  <1>4. CASE \/ ReleaseCoordinatorLock \/ ClaimSome \/ SweepExpiredLeases
             \/ BackoffSome \/ \E e \in DOMAIN agenda : LeaseExpires(e)
    <2>1. act' = act /\ events' = events
      BY <1>4 DEF ReleaseCoordinatorLock, ClaimSome, Claim, SweepExpiredLeases,
         BackoffSome, BackoffElapses, LeaseExpires
    <2> QED BY <2>1, SettledAdvance
  <1>5. CASE ExecuteSome
    <2>1. act' = act /\ events' = events
      BY <1>5 DEF ExecuteSome, Execute, Complete, Skip, Retry, Fail, Outcome
    <2> QED BY <2>1, SettledAdvance
  <1>6. CASE VersionChange \/ Repair
    <2>1. act' = act /\ events' = events
      BY <1>6 DEF VersionChange, Pause, Resume, Remove, Replace, ChangeVersion,
         Repair, Requeue, Cancel
    <2> QED BY <2>1, SettledAdvance
  <1>7. CASE UNCHANGED vars
    <2>1. act' = act /\ events' = events
      BY <1>7 DEF vars
    <2> QED BY <2>1, SettledAdvance
  <1> QED BY <1>1, <1>2, <1>3, <1>4, <1>5, <1>6, <1>7 DEF Next

-----------------------------------------------------------------------------
(***************************************************************************)
(* The history is coherent.                                                *)
(***************************************************************************)
\* The event is not ahead of the activation row of its key.
Placed(e, st) ==
  /\ e.gen \in 1 .. st.gen
  /\ e.kind = "CHANGE" <=> e.rev # 0
  /\ e.kind = "CHANGE" /\ e.gen = st.gen => e.rev <= st.rev
  /\ e.kind = "DEACTIVATE" /\ e.gen = st.gen => ~st.active

\* The row an active key shows is, in its watched columns, the row that the
\* event of its generation and revision reported.
Current(e, st) ==
  e.kind # "DEACTIVATE" /\ st.active /\ e.gen = st.gen /\ e.rev = st.rev

Reported(e, st) ==
  Current(e, st) => Watched[events[e].new] = Watched[st.bindings]

\* A CHANGE starts where the event before it ended.
Predecessor(e) ==
  [e EXCEPT !.rev = @ - 1,
            !.kind = IF e.rev = 1 THEN "ACTIVATE" ELSE "CHANGE"]

Follows(e) ==
  e.kind = "CHANGE" /\ Predecessor(e) \in DOMAIN events =>
    Watched[events[e].old] = Watched[events[Predecessor(e)].new]

\* An active key is in a generation.
Counted(st) == st.active => st.gen > 0

HistoryInv ==
  /\ \A k \in Keys : Counted(act[k])
  /\ \A e \in DOMAIN events :
       Placed(e, act[e.key]) /\ Reported(e, act[e.key]) /\ Follows(e)

LEMMA PredecessorFields ==
  ASSUME NEW e \in EpisodeId, e.kind = "CHANGE", e.rev # 0
  PROVE  /\ Predecessor(e).key = e.key /\ Predecessor(e).gen = e.gen
         /\ Predecessor(e).rev = e.rev - 1
         /\ e.rev = 1 => Predecessor(e).kind = "ACTIVATE"
         /\ e.rev # 1 => Predecessor(e).kind = "CHANGE"
         /\ Predecessor(e) # e
  <1> DEFINE kind == IF e.rev = 1 THEN "ACTIVATE" ELSE "CHANGE"
             rev == e.rev - 1
  <1>1. Predecessor(e) = [e EXCEPT !.rev = rev, !.kind = kind]
    BY DEF Predecessor
  <1>2. /\ e.rev = 1 => kind = "ACTIVATE"
        /\ e.rev # 1 => kind = "CHANGE"
        /\ rev # e.rev
    BY DEF EpisodeId
  <1> HIDE DEF kind
  <1>3. /\ Predecessor(e).key = e.key /\ Predecessor(e).gen = e.gen
        /\ Predecessor(e).rev = rev /\ Predecessor(e).kind = kind
    BY <1>1 DEF EpisodeId
  <1> QED BY <1>2, <1>3

\* The event of a step is numbered after the row it leaves.
LEMMA ReportPlaced ==
  ASSUME NEW k \in Keys, NEW st \in Activation, NEW nx \in Activation,
         RowStep(st, nx), Transition(st, nx) # "NOOP", Counted(st),
         NEW e, e = EventOf(k, st, nx)
  PROVE  /\ e \in EpisodeId /\ e.key = k /\ Placed(e, nx)
         /\ e.kind = "ACTIVATE" => e.gen = st.gen + 1 /\ e.rev = 0
         /\ e.kind = "CHANGE" =>
              e.gen = st.gen /\ e.rev = st.rev + 1 /\ st.active
  <1>1. /\ e.key = k /\ e.gen = nx.gen /\ e.kind = Transition(st, nx)
        /\ e.rev = IF nx.active THEN nx.rev ELSE 0
        /\ e = [key |-> e.key, gen |-> e.gen, kind |-> e.kind, rev |-> e.rev]
    BY DEF EventOf
  <1>2. /\ st.gen \in Nat /\ st.rev \in Nat /\ nx.gen \in Nat /\ nx.rev \in Nat
        /\ st.active \in BOOLEAN /\ nx.active \in BOOLEAN
        /\ st.active => st.gen > 0
    BY DEF Activation, Counted
  <1>3. CASE e.kind = "ACTIVATE"
    <2>1. /\ nx.active /\ nx.gen = st.gen + 1 /\ nx.rev = 0
      BY <1>1, <1>3 DEF RowStep
    <2> QED BY <1>1, <1>2, <1>3, <2>1 DEF EpisodeId, Kinds, Placed
  <1>4. CASE e.kind = "CHANGE"
    <2>1. st.active /\ nx.active /\ nx.gen = st.gen /\ nx.rev = st.rev + 1
      BY <1>1, <1>4 DEF RowStep
    <2> QED BY <1>1, <1>2, <1>4, <2>1 DEF EpisodeId, Kinds, Placed
  <1>5. CASE e.kind = "DEACTIVATE"
    <2>1. st.active /\ ~nx.active /\ nx.gen = st.gen
      BY <1>1, <1>5 DEF RowStep
    <2> QED BY <1>1, <1>2, <1>5, <2>1 DEF EpisodeId, Kinds, Placed
  <1> QED BY <1>1, <1>3, <1>4, <1>5 DEF RowStep

\* No event of a step was recorded before: no identity is used twice.
LEMMA ReportsNothingRecorded ==
  ASSUME TypeInv, TypeInv', HistoryInv, Advance,
         NEW k \in Keys, Transition(act[k], act'[k]) # "NOOP"
  PROVE  EventOf(k, act[k], act'[k]) \notin DOMAIN events
  <1> DEFINE st == act[k]
             nx == act'[k]
             e == EventOf(k, act[k], act'[k])
  <1>1. /\ st \in Activation /\ nx \in Activation
        /\ RowStep(st, nx) /\ Counted(st)
    BY DEF TypeInv, TypeOK, Advance, HistoryInv
  <1>2. /\ e.key = k /\ e.kind = Transition(st, nx) /\ e.gen = nx.gen
        /\ e.kind = "ACTIVATE" => e.gen = st.gen + 1 /\ e.rev = 0
        /\ e.kind = "CHANGE" =>
             e.gen = st.gen /\ e.rev = st.rev + 1 /\ st.active
    <2>1. e = EventOf(k, st, nx)
      OBVIOUS
    <2>2. e.key = k /\ e.kind = Transition(st, nx) /\ e.gen = nx.gen
      BY DEF EventOf
    <2>3. Transition(st, nx) # "NOOP"
      OBVIOUS
    <2> HIDE DEF st, nx, e
    <2> QED BY <1>1, <2>1, <2>2, <2>3, ReportPlaced
  <1>3. e.kind = "DEACTIVATE" => e.gen = st.gen /\ st.active
    BY <1>1, <1>2 DEF RowStep
  <1>4. SUFFICES ASSUME e \in DOMAIN events PROVE FALSE
    OBVIOUS
  <1>5. Placed(e, st)
    BY <1>2, <1>4 DEF HistoryInv
  <1>6. st.gen \in Nat /\ st.rev \in Nat
    BY <1>1 DEF Activation
  <1> QED BY <1>1, <1>2, <1>3, <1>5, <1>6 DEF Placed, RowStep

\* A step keeps every recorded event placed, and what the last one reported.
LEMMA RecordedAdvance ==
  ASSUME TypeInv, TypeInv', HistoryInv, Advance, NEW e \in DOMAIN events
  PROVE  Placed(e, act'[e.key]) /\ Reported(e, act[e.key])'
  <1> DEFINE st == act[e.key]
             nx == act'[e.key]
  <1>1. e \in EpisodeId /\ e.key \in Keys
    BY DEF TypeInv, TypeOK, EpisodeId
  <1>2. /\ st \in Activation /\ nx \in Activation /\ RowStep(st, nx)
        /\ Placed(e, st) /\ Reported(e, st)
    BY <1>1 DEF TypeInv, TypeOK, Advance, HistoryInv
  <1>3. /\ e.gen \in Nat /\ e.rev \in Nat
        /\ st.gen \in Nat /\ st.rev \in Nat /\ nx.gen \in Nat /\ nx.rev \in Nat
        /\ st.active \in BOOLEAN /\ nx.active \in BOOLEAN
    BY <1>1, <1>2 DEF EpisodeId, Activation
  <1> HIDE DEF st, nx
  <1>4. Placed(e, nx)
    BY <1>2, <1>3 DEF RowStep, Placed
  <1>5. Current(e, nx) =>
          Current(e, st) /\ Watched[nx.bindings] = Watched[st.bindings]
    <2> SUFFICES ASSUME Current(e, nx)
                 PROVE  /\ Current(e, st)
                        /\ Watched[nx.bindings] = Watched[st.bindings]
      OBVIOUS
    <2>1. nx.active /\ e.gen = nx.gen /\ e.rev = nx.rev /\ e.kind # "DEACTIVATE"
      BY DEF Current
    <2>2. e.gen <= st.gen /\ (e.gen = st.gen => e.rev <= st.rev)
      <3>1. e.gen \in 1 .. st.gen
        BY <1>2 DEF Placed
      <3>2. CASE e.kind = "CHANGE"
        BY <1>2, <1>3, <3>1, <3>2 DEF Placed
      <3>3. CASE e.kind # "CHANGE"
        <4>1. e.rev = 0
          BY <1>2, <3>3 DEF Placed
        <4> QED BY <1>3, <3>1, <4>1
      <3> QED BY <3>2, <3>3
    <2>3. /\ nx.active = st.active /\ nx.gen = st.gen /\ nx.rev = st.rev
          /\ st.active => Watched[nx.bindings] = Watched[st.bindings]
      <3>1. nx.gen # st.gen + 1
        BY <1>3, <2>1, <2>2
      <3>2. ~(nx.gen = st.gen /\ nx.rev = st.rev + 1)
        BY <1>3, <2>1, <2>2
      <3> QED BY <1>2, <2>1, <3>1, <3>2 DEF RowStep
    <2>4. st.active
      BY <1>3, <2>1, <2>3
    <2> QED BY <2>1, <2>3, <2>4 DEF Current
  <1>6. events'[e] = events[e]
    BY DEF Advance
  <1>7. Current(e, nx) => Watched[events'[e].new] = Watched[nx.bindings]
    BY <1>2, <1>5, <1>6 DEF Reported
  <1> QED BY <1>4, <1>7 DEF nx, Reported, Current

\* A new event is placed, and the last one its key has.
LEMMA ReportAdvance ==
  ASSUME TypeInv, TypeInv', HistoryInv, Advance,
         NEW e \in DOMAIN events' \ DOMAIN events
  PROVE  Placed(e, act'[e.key]) /\ Reported(e, act[e.key])'
  <1>1. Reports(e)
    BY DEF Advance
  <1>2. /\ act[e.key] \in Activation /\ act'[e.key] \in Activation
        /\ RowStep(act[e.key], act'[e.key]) /\ Counted(act[e.key])
    BY <1>1 DEF TypeInv, TypeOK, Advance, HistoryInv, Reports
  <1>3. Placed(e, act'[e.key])
    BY <1>1, <1>2, ReportPlaced DEF Reports
  <1>4. Watched[events'[e].new] = Watched[act'[e.key].bindings]
    BY <1>1 DEF Reports
  <1> QED BY <1>3, <1>4 DEF Reported, Current

\* A CHANGE recorded earlier keeps its predecessor: none appears afterwards,
\* since it would be ahead of it.
LEMMA RecordedFollows ==
  ASSUME TypeInv, TypeInv', HistoryInv, Advance,
         NEW e \in DOMAIN events, e.kind = "CHANGE",
         Predecessor(e) \in DOMAIN events'
  PROVE  Watched[events'[e].old] = Watched[events'[Predecessor(e)].new]
  <1> DEFINE p == Predecessor(e)
             st == act[e.key]
             nx == act'[e.key]
  <1>1. e \in EpisodeId /\ e.key \in Keys
    BY DEF TypeInv, TypeOK, EpisodeId
  <1>2. /\ st \in Activation /\ nx \in Activation /\ RowStep(st, nx)
        /\ Placed(e, st) /\ Follows(e) /\ Counted(st)
    BY <1>1 DEF TypeInv, TypeOK, Advance, HistoryInv
  <1>3. /\ e.gen \in Nat /\ e.rev \in Nat \ {0}
        /\ st.gen \in Nat /\ st.rev \in Nat
        /\ e.gen <= st.gen /\ (e.gen = st.gen => e.rev <= st.rev)
    BY <1>1, <1>2 DEF EpisodeId, Activation, Placed
  <1>4. /\ p.key = e.key /\ p.gen = e.gen /\ p.rev = e.rev - 1
        /\ p.kind \in {"ACTIVATE", "CHANGE"}
    BY <1>1, <1>3, PredecessorFields
  <1>5. ASSUME p \notin DOMAIN events PROVE FALSE
    <2>1. Reports(p)
      BY <1>5 DEF Advance
    <2>2. /\ p = EventOf(e.key, st, nx)
          /\ Transition(st, nx) # "NOOP"
      BY <1>4, <2>1 DEF Reports
    <2> HIDE DEF p, st, nx
    <2>3. /\ p.kind = "ACTIVATE" => p.gen = st.gen + 1
          /\ p.kind = "CHANGE" => p.gen = st.gen /\ p.rev = st.rev + 1
      BY <1>1, <1>2, <2>2, ReportPlaced
    <2> QED BY <1>3, <1>4, <2>3
  <1>6. events'[e] = events[e] /\ events'[p] = events[p]
    BY <1>5 DEF Advance
  <1> QED BY <1>2, <1>5, <1>6 DEF Follows

\* A CHANGE starts from the row its key showed, which the event before it, if
\* one was recorded, reported.
LEMMA ReportFollows ==
  ASSUME TypeInv, TypeInv', HistoryInv, Advance,
         NEW e \in DOMAIN events' \ DOMAIN events, e.kind = "CHANGE",
         Predecessor(e) \in DOMAIN events'
  PROVE  Watched[events'[e].old] = Watched[events'[Predecessor(e)].new]
  <1> DEFINE p == Predecessor(e)
             st == act[e.key]
             nx == act'[e.key]
  <1>1. Reports(e)
    BY DEF Advance
  <1>2. /\ e = EventOf(e.key, st, nx) /\ Transition(st, nx) # "NOOP"
        /\ e.key \in Keys /\ events'[e].old = st.bindings
    BY <1>1 DEF Reports
  <1>3. /\ st \in Activation /\ nx \in Activation
        /\ RowStep(st, nx) /\ Counted(st)
    BY <1>2 DEF TypeInv, TypeOK, Advance, HistoryInv
  <1>4. /\ e \in EpisodeId /\ e.gen = st.gen /\ e.rev = st.rev + 1 /\ st.active
    <2> HIDE DEF st, nx
    <2> QED BY <1>2, <1>3, ReportPlaced
  <1>5. st.rev \in Nat
    BY <1>3 DEF Activation
  <1>6. /\ p.key = e.key /\ p.gen = st.gen /\ p.rev = st.rev
        /\ p.kind # "DEACTIVATE" /\ p # e
    <2> HIDE DEF st
    <2> QED BY <1>4, <1>5, PredecessorFields
  <1>7. ASSUME p \notin DOMAIN events PROVE FALSE
    <2>1. Reports(p)
      BY <1>7 DEF Advance
    <2> QED BY <1>2, <1>6, <2>1 DEF Reports
  <1>8. events'[p] = events[p] /\ Reported(p, act[p.key])
    BY <1>7 DEF Advance, HistoryInv
  <1>9. Current(p, st)
    <2> HIDE DEF p
    <2> QED BY <1>4, <1>6 DEF Current
  <1> QED BY <1>2, <1>6, <1>8, <1>9 DEF Reported

LEMMA HistoryStep ==
  ASSUME TypeInv, HistoryInv, [Next]_vars
  PROVE  HistoryInv'
  <1>1. TypeInv' /\ Advance
    BY TypeStep, StepAdvances
  <1>2. ASSUME NEW k \in Keys PROVE Counted(act'[k])
    <2>1. /\ act[k] \in Activation /\ RowStep(act[k], act'[k])
          /\ Counted(act[k])
      BY <1>1 DEF TypeInv, TypeOK, Advance, HistoryInv
    <2>2. act[k].gen \in Nat /\ act[k].active \in BOOLEAN
      BY <2>1 DEF Activation
    <2>3. SUFFICES ASSUME act'[k].active PROVE act'[k].gen > 0
      BY DEF Counted
    <2>4. CASE act'[k].gen = act[k].gen /\ act[k].active
      BY <2>1, <2>4 DEF Counted
    <2>5. CASE act'[k].gen = act[k].gen + 1
      BY <2>2, <2>5
    <2> QED BY <2>1, <2>3, <2>4, <2>5 DEF RowStep
  <1>3. ASSUME NEW e \in DOMAIN events'
        PROVE  Placed(e, act'[e.key]) /\ Reported(e, act[e.key])'
    BY <1>1, RecordedAdvance, ReportAdvance
  <1>4. ASSUME NEW e \in DOMAIN events', e.kind = "CHANGE",
               Predecessor(e) \in DOMAIN events'
        PROVE  Watched[events'[e].old] = Watched[events'[Predecessor(e)].new]
    BY <1>1, <1>4, RecordedFollows, ReportFollows
  <1> QED BY <1>2, <1>3, <1>4 DEF HistoryInv, Follows

LEMMA InitHistory == Init => HistoryInv
  <1> SUFFICES ASSUME Init PROVE HistoryInv
    OBVIOUS
  <1>1. DOMAIN events = {}
    BY DEF Init
  <1>2. \A k \in Keys : Counted(act[k])
    BY DEF Init, Counted, NoActivation
  <1> QED BY <1>1, <1>2 DEF HistoryInv

\* Every action of the version keeps events and activation rows in step: what
\* is on record is numbered and valued as the rows went (HistoryInv).
THEOREM HistoryInvariant == Spec => []HistoryInv
  <1>1. TypeInv /\ HistoryInv /\ [Next]_vars => HistoryInv'
    BY HistoryStep
  <1> QED BY <1>1, InitHistory, InitType, TypeStep, PTL DEF Spec

\* Whatever refreshes, restores and reconciliations in either mode produced
\* them, no event is ahead of its key, a generation that ended is not active
\* again, and a CHANGE starts from the watched value its predecessor left.
THEOREM HistoriesCohere == Spec => []HistoryCoherent
  <1>1. TypeInv /\ HistoryInv => HistoryCoherent
    <2> SUFFICES ASSUME TypeInv, HistoryInv, NEW e \in DOMAIN events
                 PROVE  /\ e.gen \in 1 .. act[e.key].gen
                        /\ e.kind = "CHANGE" /\ e.gen = act[e.key].gen =>
                             e.rev \in 1 .. act[e.key].rev
                        /\ e.kind = "DEACTIVATE" /\ e.gen = act[e.key].gen =>
                             ~act[e.key].active
                        /\ Follows(e)
      BY DEF HistoryCoherent, Follows, Predecessor
    <2>1. Placed(e, act[e.key]) /\ Follows(e)
      BY DEF HistoryInv
    <2>2. e.rev \in Nat /\ act[e.key].rev \in Nat
      BY DEF TypeInv, TypeOK, EpisodeId, Activation
    <2> QED BY <2>1, <2>2 DEF Placed
  <1> QED BY <1>1, TypeInvariant, HistoryInvariant, PTL

\* No step of an activation row stands for an event already on record.
NoStepLeftOut ==
  [][\A k \in Keys : Transition(act[k], act'[k]) # "NOOP" =>
       EventOf(k, act[k], act'[k]) \notin DOMAIN events]_vars

\* emit_event leaves an event out whose identity exists: no step of a key is
\* ever left out that way, however often the key comes back.
THEOREM IdentitiesAreNew == Spec => NoStepLeftOut
  <1>1. ASSUME TypeInv, HistoryInv, [Next]_vars, NEW k \in Keys,
               Transition(act[k], act'[k]) # "NOOP"
        PROVE  EventOf(k, act[k], act'[k]) \notin DOMAIN events
    BY <1>1, TypeStep, StepAdvances, ReportsNothingRecorded
  <1>2. TypeInv /\ HistoryInv /\ [Next]_vars =>
          [\A k \in Keys : Transition(act[k], act'[k]) # "NOOP" =>
             EventOf(k, act[k], act'[k]) \notin DOMAIN events]_vars
    BY <1>1
  <1> QED BY <1>2, TypeInvariant, HistoryInvariant, PTL
          DEF Spec, NoStepLeftOut

-----------------------------------------------------------------------------
(***************************************************************************)
(* The history is complete when reconciliations emit what was missed.      *)
(***************************************************************************)
Recorded(ids, k, gen, kind, rev) ==
  [key |-> k, gen |-> gen, kind |-> kind, rev |-> rev] \in ids

\* The events of a key's generations, up to its activation row, are recorded.
CompleteFor(ids, k, st) ==
  /\ \A g \in 2 .. st.gen : Recorded(ids, k, g, "ACTIVATE", 0)
  /\ \A g \in 1 .. st.gen :
       g < st.gen \/ ~st.active => Recorded(ids, k, g, "DEACTIVATE", 0)
  /\ \A r \in 1 .. st.rev : Recorded(ids, k, st.gen, "CHANGE", r)

GapFree ==
  \A e \in DOMAIN events : e.kind = "CHANGE" /\ e.rev > 1 =>
    Recorded(DOMAIN events, e.key, e.gen, "CHANGE", e.rev - 1)

CompleteInv == 
  (\A k \in Keys : CompleteFor(DOMAIN events, k, act[k])) /\ GapFree

LEMMA CompleteIsHistoryComplete ==
  ASSUME CompleteInv
  PROVE  HistoryComplete
  <1>1. \A e \in DOMAIN events : e.kind = "CHANGE" /\ e.rev > 1 =>
          [key |-> e.key, gen |-> e.gen, kind |-> "CHANGE", rev |-> e.rev - 1]
            \in DOMAIN events
    BY DEF CompleteInv, GapFree, Recorded
  <1> QED BY <1>1 DEF CompleteInv, CompleteFor, Recorded, HistoryComplete

\* What one step records is what its key's history lacks.
LEMMA CompleteKeyStep ==
  ASSUME TypeInv, TypeInv', CompleteInv, Advance, Announced, NEW k \in Keys
  PROVE  CompleteFor(DOMAIN events', k, act'[k])
  <1> DEFINE st == act[k]
             nx == act'[k]
  <1>1. /\ st \in Activation /\ nx \in Activation /\ RowStep(st, nx)
        /\ CompleteFor(DOMAIN events, k, st)
    BY DEF TypeInv, TypeOK, Advance, CompleteInv
  <1>2. /\ st.gen \in Nat /\ st.rev \in Nat
        /\ st.active \in BOOLEAN /\ nx.active \in BOOLEAN
    BY <1>1 DEF Activation
  <1>3. \A g, kind, r :
          Recorded(DOMAIN events, k, g, kind, r) =>
            Recorded(DOMAIN events', k, g, kind, r)
    BY DEF Advance, Recorded
  <1>4. Transition(st, nx) # "NOOP" =>
          Recorded(DOMAIN events', k, nx.gen, Transition(st, nx),
                   IF nx.active THEN nx.rev ELSE 0)
    BY DEF Announced, EventOf, Recorded
  <1> DEFINE ids == DOMAIN events'
  <1> SUFFICES CompleteFor(ids, k, nx)
    OBVIOUS
  <1> HIDE DEF st, nx
  <1>5. CASE /\ Transition(st, nx) = "NOOP"
             /\ nx.active = st.active /\ nx.gen = st.gen /\ nx.rev = st.rev
    BY <1>1, <1>2, <1>3, <1>5 DEF CompleteFor
  <1>6. CASE /\ Transition(st, nx) = "ACTIVATE"
             /\ ~st.active /\ nx.active /\ nx.gen = st.gen + 1 /\ nx.rev = 0
    <2>1. Recorded(DOMAIN events', k, nx.gen, "ACTIVATE", 0)
      BY <1>4, <1>6
    <2>2. \A g \in 2 .. nx.gen : g = nx.gen \/ g \in 2 .. st.gen
      BY <1>2, <1>6
    <2>3. \A g \in 1 .. nx.gen : g < nx.gen => g \in 1 .. st.gen
      BY <1>2, <1>6
    <2>4. 1 .. nx.rev = {}
      BY <1>6
    <2> QED BY <1>1, <1>3, <1>6, <2>1, <2>2, <2>3, <2>4 DEF CompleteFor
  <1>7. CASE /\ Transition(st, nx) = "CHANGE"
             /\ st.active /\ nx.active /\ nx.gen = st.gen /\ nx.rev = st.rev + 1
    <2>1. Recorded(DOMAIN events', k, nx.gen, "CHANGE", nx.rev)
      BY <1>4, <1>7
    <2>2. \A r \in 1 .. nx.rev : r = nx.rev \/ r \in 1 .. st.rev
      BY <1>2, <1>7
    <2> QED BY <1>1, <1>3, <1>7, <2>1, <2>2 DEF CompleteFor
  <1>8. CASE /\ Transition(st, nx) = "DEACTIVATE"
             /\ st.active /\ ~nx.active /\ nx.gen = st.gen /\ nx.rev = st.rev
    <2>1. Recorded(DOMAIN events', k, nx.gen, "DEACTIVATE", 0)
      BY <1>4, <1>8
    <2>2. \A g \in 1 .. nx.gen : g = nx.gen \/ g < st.gen
      BY <1>2, <1>8
    <2> QED BY <1>1, <1>3, <1>8, <2>1, <2>2 DEF CompleteFor
  <1> QED BY <1>1, <1>5, <1>6, <1>7, <1>8 DEF RowStep

LEMMA GapFreeStep ==
  ASSUME TypeInv, TypeInv', CompleteInv, HistoryInv, Advance
  PROVE  GapFree'
  <1> SUFFICES ASSUME NEW e \in DOMAIN events', e.kind = "CHANGE", e.rev > 1
               PROVE  Recorded(DOMAIN events', e.key, e.gen, "CHANGE", e.rev - 1)
    BY DEF GapFree
  <1>1. CASE e \in DOMAIN events
    <2>1. Recorded(DOMAIN events, e.key, e.gen, "CHANGE", e.rev - 1)
      BY <1>1 DEF CompleteInv, GapFree
    <2> QED BY <2>1 DEF Advance, Recorded
  <1>2. CASE e \notin DOMAIN events
    <2> DEFINE st == act[e.key]
               nx == act'[e.key]
    <2>1. /\ e = EventOf(e.key, st, nx) /\ Transition(st, nx) # "NOOP"
          /\ e.key \in Keys
      BY <1>2 DEF Advance, Reports
    <2>2. /\ st \in Activation /\ nx \in Activation
          /\ RowStep(st, nx) /\ Counted(st)
          /\ CompleteFor(DOMAIN events, e.key, st)
      BY <2>1 DEF TypeInv, TypeOK, Advance, HistoryInv, CompleteInv
    <2>3. st.rev \in Nat
      BY <2>2 DEF Activation
    <2> HIDE DEF st, nx
    <2>4. e.gen = st.gen /\ e.rev = st.rev + 1
      BY <2>1, <2>2, ReportPlaced
    <2>5. e.rev - 1 \in 1 .. st.rev
      BY <2>3, <2>4
    <2>6. Recorded(DOMAIN events, e.key, e.gen, "CHANGE", e.rev - 1)
      BY <2>2, <2>4, <2>5 DEF CompleteFor
    <2> QED BY <2>6 DEF Advance, Recorded
  <1> QED BY <1>1, <1>2

LEMMA CompleteStep ==
  ASSUME "STATE_ONLY" \notin EmissionModes, TypeInv, HistoryInv, CompleteInv,
         [Next]_vars
  PROVE  CompleteInv'
  <1>1. TypeInv' /\ Advance /\ Announced
    BY TypeStep, StepAdvances
  <1> QED BY <1>1, CompleteKeyStep, GapFreeStep DEF CompleteInv

\* Keys that were matched at registration start in a first generation, which
\* no event announces.
LEMMA InitComplete == Init => CompleteInv
  <1> SUFFICES ASSUME Init PROVE CompleteInv
    OBVIOUS
  <1>1. DOMAIN events = {}
    BY DEF Init
  <1>2. ASSUME NEW k \in Keys PROVE CompleteFor(DOMAIN events, k, act[k])
    <2>1. CASE act[k] = NoActivation
      BY <2>1 DEF CompleteFor, NoActivation
    <2>2. CASE act[k].active /\ act[k].gen = 1 /\ act[k].rev = 0
      BY <2>2 DEF CompleteFor
    <2> QED BY <2>1, <2>2 DEF Init
  <1> QED BY <1>1, <1>2 DEF CompleteInv, GapFree

\* When every reconciliation emits missing events, no transition is ever
\* without its event, whatever was restored in between: generations are
\* announced and closed, and revisions have no gaps.
THEOREM HistoriesComplete ==
  ASSUME "STATE_ONLY" \notin EmissionModes
  PROVE  Spec => []HistoryComplete
  <1>1. TypeInv /\ HistoryInv /\ CompleteInv /\ [Next]_vars => CompleteInv'
    BY CompleteStep
  <1>2. CompleteInv => HistoryComplete
    BY CompleteIsHistoryComplete
  <1> QED BY <1>1, <1>2, InitComplete, TypeInvariant, HistoryInvariant, PTL
          DEF Spec

-----------------------------------------------------------------------------
(***************************************************************************)
(* The agenda stays finite, although a transaction may bring a job for     *)
(* every key, so that back-pressure compares numbers.                      *)
(***************************************************************************)
FiniteAgenda == IsFiniteSet(DOMAIN agenda)

\* Work is brought to the agenda: the events of a step of the activation rows
\* are emitted, the rows already there having been changed or not.
Brings ==
  \E ag, nx : DOMAIN ag = DOMAIN agenda /\ Emit(ag, Emitted(nx))

\* One event per key at most, so finitely many new episodes.
LEMMA NewJobsFinite ==
  ASSUME NEW nx
  PROVE  IsFiniteSet(NewJobs(Emitted(nx)))
  <1> DEFINE changed == {k \in Keys : Transition(act[k], nx[k]) # "NOOP"}
             ids == {EventOf(k, act[k], nx[k]) : k \in changed}
             event == [k \in changed |-> EventOf(k, act[k], nx[k])]
  <1>1. IsFiniteSet(changed)
    BY KeysAssumption, FS_Subset
  <1>2. event \in Surjection(changed, ids)
    BY DEF Surjection
  <1>3. IsFiniteSet(ids)
    <2> HIDE DEF changed, ids, event
    <2> QED BY <1>1, <1>2, FS_Surjection
  <1>4. NewJobs(Emitted(nx)) \in SUBSET ids
    BY DEF NewJobs, Emitted
  <1> HIDE DEF ids
  <1> QED BY <1>3, <1>4, FS_Subset

\* The rows of the agenda after an emission.
LEMMA RowsAfterEmit ==
  ASSUME NEW ag, NEW emitted, Emit(ag, emitted)
  PROVE  DOMAIN agenda' = DOMAIN ag \cup NewJobs(emitted)
  BY DEF Emit, Insert

\* The other steps keep the episodes there are.
LEMMA StepBrings ==
  ASSUME TypeInv, [Next]_vars
  PROVE  DOMAIN agenda' = DOMAIN agenda \/ Brings
  <1>1. ASSUME NEW rows, Refresh(rows) PROVE Brings
    BY <1>1, WithdrawnType DEF Refresh, Brings
  <1>2. ASSUME NEW mode, ReconcileRule(mode)
        PROVE  DOMAIN agenda' = DOMAIN agenda \/ Brings
    BY <1>2 DEF ReconcileRule, Brings
  <1>3. CASE Run \/ CoordinatedRefresh
    BY <1>1, <1>3 DEF Run, CoordinatedRefresh, RefreshRule, BeginRefresh,
       ClearRefreshBarrier
  <1>4. CASE Recovery
    BY <1>2, <1>4 DEF Recovery, Restore, BeginReconciliation
  <1>5. CASE \/ ReleaseCoordinatorLock \/ ClaimSome \/ SweepExpiredLeases
             \/ BackoffSome \/ \E e \in DOMAIN agenda : LeaseExpires(e)
    <2>1. DOMAIN Swept = DOMAIN agenda
      BY DEF Swept
    <2> QED BY <1>5, <2>1 DEF ReleaseCoordinatorLock, ClaimSome, Claim,
            SweepExpiredLeases, BackoffSome, BackoffElapses, LeaseExpires
  <1>6. CASE ExecuteSome
    BY <1>6 DEF ExecuteSome, Execute, Complete, Skip, Retry, Fail, Outcome
  <1>7. CASE VersionChange \/ Repair
    BY <1>7 DEF VersionChange, Pause, Resume, Remove, Replace, ChangeVersion,
       Repair, Requeue, Cancel
  <1>8. CASE UNCHANGED vars
    BY <1>8 DEF vars
  <1> QED BY <1>3, <1>4, <1>5, <1>6, <1>7, <1>8 DEF Next

LEMMA FiniteStep ==
  ASSUME TypeInv, FiniteAgenda, [Next]_vars
  PROVE  FiniteAgenda'
  <1>1. CASE DOMAIN agenda' = DOMAIN agenda
    BY <1>1 DEF FiniteAgenda
  <1>2. CASE Brings
    <2>1. PICK ag, nx : DOMAIN ag = DOMAIN agenda /\ Emit(ag, Emitted(nx))
      BY <1>2 DEF Brings
    <2>2. DOMAIN agenda' = DOMAIN agenda \cup NewJobs(Emitted(nx))
      BY <2>1, RowsAfterEmit
    <2> QED BY <2>2, NewJobsFinite, FS_Union DEF FiniteAgenda
  <1> QED BY <1>1, <1>2, StepBrings

LEMMA InitFinite == Init => FiniteAgenda
  <1> SUFFICES ASSUME Init PROVE FiniteAgenda
    OBVIOUS
  <1>1. DOMAIN agenda = {}
    BY DEF Init
  <1> QED BY <1>1, FS_EmptySet DEF FiniteAgenda

-----------------------------------------------------------------------------
(***************************************************************************)
(* The loop of finalize_match_delta and Refresh.                           *)
(***************************************************************************)
\* The activation rows when the loop has come to some of the keys.
Partly(rows, done) ==
  [k \in Keys |-> IF k \in done THEN Finalized(act[k], rows[k]) ELSE act[k]]

\* What the event of a key's turn reports.
Report(st, kind, row) ==
  CASE kind = "ACTIVATE" -> [old |-> Absent, new |-> row]
    [] kind = "CHANGE" -> [old |-> st.bindings, new |-> row]
    [] OTHER -> [old |-> st.last, new |-> Absent]

LEMMA FinalizedReports ==
  ASSUME NEW st \in Activation, NEW row
  PROVE  /\ Transition(st, st) = "NOOP"
         /\ Transition(st, Finalized(st, row)) = "DEACTIVATE" =>
              Finalized(st, row).bindings = Absent
         /\ Transition(st, Finalized(st, row)) \in {"ACTIVATE", "CHANGE"} =>
              Finalized(st, row).bindings = row
         /\ Transition(st, Finalized(st, row)) \in
              {"ACTIVATE", "CHANGE", "DEACTIVATE", "NOOP"}
  <1> DEFINE nx == Finalized(st, row)
  <1>1. st.active \in BOOLEAN
    BY DEF Activation
  <1>2. Transition(st, st) = "NOOP"
    BY <1>1 DEF Transition
  <1>3. Transition(st, nx) \in {"ACTIVATE", "CHANGE", "DEACTIVATE", "NOOP"}
    BY DEF Transition
  <1>4. CASE row # Absent
    <2>1. nx.active /\ nx.bindings = row
      <3>1. CASE st.active
        <4> DEFINE rev == IF WatchedChanged(st.bindings, row)
                          THEN st.rev + 1 ELSE st.rev
        <4>1. nx = [st EXCEPT !.bindings = row, !.last = row, !.rev = rev]
          BY <1>4, <3>1 DEF Finalized
        <4> HIDE DEF rev, nx
        <4> QED BY <3>1, <4>1 DEF Activation
      <3>2. CASE ~st.active
        BY <1>4, <3>2 DEF Finalized
      <3> QED BY <3>1, <3>2
    <2>2. Transition(st, nx) # "DEACTIVATE"
      BY <2>1 DEF Transition
    <2> QED BY <1>2, <1>3, <2>1, <2>2
  <1>5. CASE row = Absent
    <2>1. CASE st.active
      <3>1. ~nx.active /\ nx.bindings = Absent
        BY <1>5, <2>1 DEF Finalized, Activation
      <3> QED BY <1>2, <1>3, <1>5, <3>1
    <2>2. CASE ~st.active
      <3>1. nx = st
        BY <1>5, <2>2 DEF Finalized
      <3> QED BY <1>2, <3>1
    <2> QED BY <2>1, <2>2
  <1> QED BY <1>4, <1>5

\* The event of a key's turn.
TurnEvent(rows, k) == EventOf(k, act[k], Finalized(act[k], rows[k]))

\* The events of one more key are those of the keys before, and its own.
EventsGrow(rows, done, k) ==
  /\ \A x \in DOMAIN Emitted(Partly(rows, done)) : x.key \in done
  /\ DOMAIN Emitted(Partly(rows, done \cup {k})) =
       DOMAIN Emitted(Partly(rows, done)) \cup
         (IF TurnEvent(rows, k).kind # "NOOP" THEN {TurnEvent(rows, k)} ELSE {})
  /\ \A x \in DOMAIN Emitted(Partly(rows, done)) :
       Emitted(Partly(rows, done \cup {k}))[x] = Emitted(Partly(rows, done))[x]
  /\ TurnEvent(rows, k).kind # "NOOP" =>
       Emitted(Partly(rows, done \cup {k}))[TurnEvent(rows, k)] =
         Report(act[k], TurnEvent(rows, k).kind, rows[k])

LEMMA EmittedTurn ==
  ASSUME TypeInv, NEW done \in SUBSET Keys, NEW k \in Keys \ done,
         NEW rows \in [Keys -> Row]
  PROVE  EventsGrow(rows, done, k)
  <1> DEFINE p == Partly(rows, done)
             q == Partly(rows, done \cup {k})
             nx == Finalized(act[k], rows[k])
             e == EventOf(k, act[k], nx)
             moved(s) == {j \in Keys : Transition(act[j], s[j]) # "NOOP"}
             old(x) == CASE x.kind = "ACTIVATE" -> Absent
                         [] x.kind = "CHANGE" -> act[x.key].bindings
                         [] OTHER -> act[x.key].last
  <1>1. \A j \in Keys : act[j] \in Activation
    BY DEF TypeInv, TypeOK
  <1>2. /\ \A j \in done : p[j] = q[j]
        /\ \A j \in Keys \ done : p[j] = act[j]
        /\ \A j \in Keys \ (done \cup {k}) : q[j] = act[j]
        /\ q[k] = nx
    BY DEF Partly
  <1>3. \A s : /\ DOMAIN Emitted(s) = {EventOf(j, act[j], s[j]) : j \in moved(s)}
               /\ \A x \in DOMAIN Emitted(s) :
                    Emitted(s)[x] = [old |-> old(x), new |-> s[x.key].bindings]
    BY DEF Emitted
  <1>4. e.key = k /\ e.kind = Transition(act[k], nx)
    BY DEF EventOf
  <1> HIDE DEF p, q, nx, e
  <1>5. \A j \in Keys : Transition(act[j], act[j]) = "NOOP"
    BY <1>1, FinalizedReports
  <1>6. /\ moved(p) \subseteq done
        /\ moved(q) = moved(p) \cup (IF e.kind # "NOOP" THEN {k} ELSE {})
    BY <1>2, <1>4, <1>5
  <1> HIDE DEF moved, old
  <1>7. \A x \in DOMAIN Emitted(p) : x.key \in done
    <2> SUFFICES ASSUME NEW x \in DOMAIN Emitted(p) PROVE x.key \in done
      OBVIOUS
    <2>1. PICK j \in moved(p) : x = EventOf(j, act[j], p[j])
      BY <1>3
    <2>2. x.key = j
      BY <2>1 DEF EventOf
    <2> QED BY <1>6, <2>1, <2>2
  <1>8. /\ \A j \in done : EventOf(j, act[j], p[j]) = EventOf(j, act[j], q[j])
        /\ EventOf(k, act[k], q[k]) = e
    BY <1>2, <1>6 DEF e
  <1>9. DOMAIN Emitted(q) = DOMAIN Emitted(p) \cup
                              (IF e.kind # "NOOP" THEN {e} ELSE {})
    <2>1. DOMAIN Emitted(q) = {EventOf(j, act[j], q[j]) : j \in moved(q)}
      BY <1>3
    <2>2. DOMAIN Emitted(p) = {EventOf(j, act[j], p[j]) : j \in moved(p)}
      BY <1>3
    <2>3. CASE e.kind # "NOOP"
      BY <1>6, <1>8, <2>1, <2>2, <2>3
    <2>4. CASE e.kind = "NOOP"
      BY <1>6, <1>8, <2>1, <2>2, <2>4
    <2> QED BY <2>3, <2>4
  <1>10. ASSUME NEW x \in DOMAIN Emitted(p) PROVE Emitted(q)[x] = Emitted(p)[x]
    BY <1>2, <1>3, <1>7, <1>9
  <1>11. ASSUME e.kind # "NOOP"
         PROVE  Emitted(q)[e] = Report(act[k], e.kind, rows[k])
    <2>1. Emitted(q)[e] = [old |-> old(e), new |-> nx.bindings]
      BY <1>2, <1>3, <1>4, <1>9, <1>11
    <2>2. /\ e.kind = "DEACTIVATE" => nx.bindings = Absent
          /\ e.kind \in {"ACTIVATE", "CHANGE"} => nx.bindings = rows[k]
          /\ e.kind \in {"ACTIVATE", "CHANGE", "DEACTIVATE", "NOOP"}
      BY <1>1, <1>4, FinalizedReports DEF nx
    <2> QED BY <1>4, <1>11, <2>1, <2>2 DEF Report, old
  <1> QED BY <1>7, <1>9, <1>10, <1>11 DEF p, q, nx, e, TurnEvent, EventsGrow

Tx(a, ev, ag) == [act |-> a, events |-> ev, agenda |-> ag, raised |-> FALSE]

\* The episodes of one event: one if its kind is bound.
Jobs(e) == [x \in {y \in {e} : y.kind \in Bound} |-> NewEpisode]

\* An event on record is left alone; another one is recorded with its episode,
\* which finds room.
EventWrites(a, ev, ag, e, report) ==
  /\ e \in DOMAIN ev => EmitEvent(Tx(a, ev, ag), e, report) = Tx(a, ev, ag)
  /\ e \notin DOMAIN ev =>
       /\ EmitEvent(Tx(a, ev, ag), e, report) =
            Tx(a, Insert(ev, [x \in {e} |-> report]), Insert(ag, Jobs(e)))
       /\ e.kind \in Bound => ~(Cardinality(Open(ag)) >= MaxPending)

LEMMA EmitEventWrites ==
  ASSUME NEW a, NEW ev, NEW ag, NEW e, NEW report,
         ~EmitEvent(Tx(a, ev, ag), e, report).raised
  PROVE  EventWrites(a, ev, ag, e, report)
  <1> DEFINE tx == Tx(a, ev, ag)
             says == Insert(ev, [x \in {e} |-> report])
             adds == Insert(ag, Jobs(e))
             bound == {x \in {e} : x.kind \in Bound}
             raises == bound # {} /\ Cardinality(Open(ag)) >= MaxPending
  <1>1. tx.act = a /\ tx.events = ev /\ tx.agenda = ag /\ tx.raised = FALSE
    BY DEF Tx
  <1>2. CASE e \in DOMAIN ev
    BY <1>1, <1>2 DEF EmitEvent, EventWrites
  <1>3. CASE e \notin DOMAIN ev
    <2>1. EmitEvent(tx, e, report) =
            [tx EXCEPT !.events = says, !.agenda = adds, !.raised = raises]
      BY <1>1, <1>3 DEF EmitEvent, Jobs
    <2>2. e.kind \in Bound => bound # {}
      OBVIOUS
    <2> HIDE DEF says, adds, raises
    <2>3. EmitEvent(tx, e, report) =
            [act |-> a, events |-> says, agenda |-> adds, raised |-> raises]
      BY <2>1 DEF Tx
    <2>4. ~raises
      BY <2>3
    <2>5. raises = FALSE
      <3>1. raises \in BOOLEAN
        BY DEF raises
      <3> QED BY <2>4, <3>1
    <2>6. EmitEvent(tx, e, report) = Tx(a, says, adds)
      BY <2>3, <2>5 DEF Tx
    <2> QED BY <1>3, <2>2, <2>4, <2>6 DEF raises, says, adds, EventWrites
  <1> QED BY <1>2, <1>3

\* A turn writes the key's row, withdraws at the end of a generation, and emits
\* the event of the step, if there is one.
TurnWrites(a, ev, ag, k, row) ==
  LET nx == Finalized(a[k], row)
      e == EventOf(k, a[k], nx)
      b == [a EXCEPT ![k] = nx]
      left == IF e.kind = "DEACTIVATE" THEN WithdrawKey(ag, k, a[k].gen) ELSE ag
  IN FinalizeKey(Tx(a, ev, ag), k, row) =
       IF e.kind = "NOOP" THEN Tx(b, ev, ag)
       ELSE EmitEvent(Tx(b, ev, left), e, Report(a[k], e.kind, row))

LEMMA OneTurn ==
  ASSUME NEW k \in Keys, NEW a, NEW ev, NEW ag, NEW row, a[k] \in Activation
  PROVE  TurnWrites(a, ev, ag, k, row)
  <1> DEFINE tx == Tx(a, ev, ag)
             nx == Finalized(a[k], row)
             e == EventOf(k, a[k], nx)
             b == [a EXCEPT ![k] = nx]
             gone == WithdrawKey(ag, k, a[k].gen)
             written == [tx EXCEPT !.act[k] = nx]
             withdrawn == [written EXCEPT !.agenda = WithdrawKey(@, k, a[k].gen)]
  <1>1. tx.act = a /\ tx.agenda = ag /\ tx.raised = FALSE
    BY DEF Tx
  <1>2. e.kind \in {"ACTIVATE", "CHANGE", "DEACTIVATE", "NOOP"}
    BY FinalizedReports DEF EventOf
  <1>3. FinalizeKey(tx, k, row) =
          CASE tx.raised -> tx
            [] ~tx.raised /\ e.kind = "NOOP" -> written
            [] ~tx.raised /\ e.kind = "ACTIVATE" ->
                 EmitEvent(written, e, [old |-> Absent, new |-> row])
            [] ~tx.raised /\ e.kind = "CHANGE" ->
                 EmitEvent(written, e, [old |-> a[k].bindings, new |-> row])
            [] OTHER ->
                 EmitEvent(withdrawn, e, [old |-> a[k].last, new |-> Absent])
    BY <1>1, Zenon DEF FinalizeKey
  <1> HIDE DEF nx, e
  <1>4. written = Tx(b, ev, ag)
    <2>1. written = [tx EXCEPT !.act = [tx.act EXCEPT ![k] = nx]]
      OBVIOUS
    <2>2. written = [tx EXCEPT !.act = b]
      BY <1>1, <2>1
    <2> HIDE DEF b, written
    <2> QED BY <2>2 DEF Tx
  <1>5. withdrawn = Tx(b, ev, gone)
    <2>1. withdrawn = [Tx(b, ev, ag) EXCEPT !.agenda = WithdrawKey(@, k, a[k].gen)]
      BY <1>4
    <2> HIDE DEF b, withdrawn
    <2> QED BY <2>1 DEF Tx
  <1> DEFINE left == IF e.kind = "DEACTIVATE" THEN gone ELSE ag
             report == Report(a[k], e.kind, row)
             goal == FinalizeKey(tx, k, row) =
                       IF e.kind = "NOOP" THEN Tx(b, ev, ag)
                       ELSE EmitEvent(Tx(b, ev, left), e, report)
  <1> HIDE DEF tx, written, withdrawn, gone, b
  <1>6. ASSUME e.kind = "NOOP" PROVE goal
    BY <1>1, <1>3, <1>4, <1>6
  <1>7. ASSUME e.kind \in {"ACTIVATE", "CHANGE"} PROVE goal
    <2>1. left = ag
      BY <1>7
    <2> HIDE DEF left
    <2>2. CASE e.kind = "ACTIVATE"
      BY <1>1, <1>3, <1>4, <2>1, <2>2 DEF Report
    <2>3. CASE e.kind = "CHANGE"
      BY <1>1, <1>3, <1>4, <2>1, <2>3 DEF Report
    <2> QED BY <1>7, <2>2, <2>3
  <1>8. ASSUME e.kind = "DEACTIVATE" PROVE goal
    <2>1. left = gone
      BY <1>8
    <2> HIDE DEF left
    <2> QED BY <1>1, <1>3, <1>5, <1>8, <2>1 DEF Report
  <1>9. goal
    BY <1>2, <1>6, <1>7, <1>8
  <1> QED BY <1>9 DEF tx, nx, e, b, gone, TurnWrites

\* The agenda and the new episodes when one more key's turn is over.
LEMMA AgendaTurn ==
  ASSUME TypeInv, NEW done \in SUBSET Keys, NEW k \in Keys \ done,
         NEW rows \in [Keys -> Row]
  PROVE  LET p == Partly(rows, done)
             q == Partly(rows, done \cup {k})
             e == EventOf(k, act[k], Finalized(act[k], rows[k]))
             left(ag) == IF e.kind = "DEACTIVATE"
                         THEN WithdrawKey(ag, k, act[k].gen) ELSE ag
         IN Withdrawn(q) = left(Withdrawn(p))
  <1> DEFINE p == Partly(rows, done)
             q == Partly(rows, done \cup {k})
             nx == Finalized(act[k], rows[k])
             e == EventOf(k, act[k], nx)
             gone == WithdrawKey(Withdrawn(p), k, act[k].gen)
             left == IF e.kind = "DEACTIVATE" THEN gone ELSE Withdrawn(p)
             ends(s, x) == /\ x.kind = "ACTIVATE" /\ agenda[x].state \in Waiting
                           /\ Transition(act[x.key], s[x.key]) = "DEACTIVATE"
                           /\ x.gen = act[x.key].gen
  <1>1. /\ \A j \in Keys \ {k} : p[j] = q[j]
        /\ p[k] = act[k] /\ q[k] = nx
    BY DEF Partly
  <1>2. /\ e.kind = Transition(act[k], nx)
        /\ Transition(act[k], act[k]) = "NOOP"
    BY FinalizedReports DEF EventOf, TypeInv, TypeOK
  <1>3. \A s : Withdrawn(s) = [x \in DOMAIN agenda |->
                 IF ends(s, x) THEN Released(agenda[x], "WITHDRAWN") ELSE agenda[x]]
    BY DEF Withdrawn
  <1>4. gone = [x \in DOMAIN agenda |->
                 IF /\ x.key = k /\ x.gen = act[k].gen /\ x.kind = "ACTIVATE"
                    /\ Withdrawn(p)[x].state \in Waiting
                 THEN Released(Withdrawn(p)[x], "WITHDRAWN") ELSE Withdrawn(p)[x]]
    BY <1>3 DEF WithdrawKey
  <1> HIDE DEF p, q, nx, e, gone
  <1>5. ASSUME NEW x \in DOMAIN agenda PROVE Withdrawn(q)[x] = left[x]
    <2>1. x.key \in Keys
      BY DEF TypeInv, TypeOK, EpisodeId
    <2>2. CASE x.key # k
      <3>1. ends(q, x) <=> ends(p, x)
        BY <1>1, <2>1, <2>2
      <3> HIDE DEF ends
      <3> QED BY <1>3, <1>4, <2>2, <3>1
    <2>3. CASE x.key = k
      <3>1. ~ends(p, x)
        BY <1>1, <1>2, <2>3
      <3>2. Withdrawn(p)[x] = agenda[x]
        <4> HIDE DEF ends
        <4> QED BY <1>3, <3>1
      <3>3. ends(q, x) <=> /\ x.gen = act[k].gen /\ x.kind = "ACTIVATE"
                           /\ agenda[x].state \in Waiting
                           /\ e.kind = "DEACTIVATE"
        BY <1>1, <1>2, <2>3
      <3> HIDE DEF ends
      <3> QED BY <1>3, <1>4, <2>3, <3>2, <3>3
    <2> QED BY <2>2, <2>3
  <1>6. /\ DOMAIN Withdrawn(q) = DOMAIN agenda /\ DOMAIN left = DOMAIN agenda
        /\ Withdrawn(q) = [x \in DOMAIN Withdrawn(q) |-> Withdrawn(q)[x]]
        /\ left = [x \in DOMAIN left |-> left[x]]
    <2> HIDE DEF ends
    <2> QED BY <1>3, <1>4
  <1>7. Withdrawn(q) = left
    <2> HIDE DEF left, ends
    <2> QED BY <1>5, <1>6
  <1> QED BY <1>7 DEF p, q, nx, e, gone

-----------------------------------------------------------------------------
\* The tables of events and episodes, as functions.
IsTable(f) == f = [x \in DOMAIN f |-> f[x]]
Tables == IsTable(events) /\ IsTable(agenda)

LEMMA InitTables == Init => Tables
  BY DEF Init, Tables, IsTable

LEMMA TablesKept ==
  ASSUME Tables, [Next]_vars
  PROVE  Tables'
  <1>1. ASSUME NEW ag, NEW emitted, Emit(ag, emitted) PROVE Tables'
    BY <1>1 DEF Emit, Insert, Tables, IsTable
  <1>2. CASE Run \/ CoordinatedRefresh \/ Recovery
    <2>1. ASSUME NEW rows, Refresh(rows) PROVE Tables'
      BY <1>1, <2>1 DEF Refresh
    <2>2. ASSUME NEW mode, ReconcileRule(mode) PROVE Tables'
      BY <1>1, <2>2 DEF ReconcileRule, Tables
    <2> QED BY <1>2, <2>1, <2>2 DEF Run, CoordinatedRefresh, RefreshRule, BeginRefresh,
            ClearRefreshBarrier, Recovery, Restore, BeginReconciliation, Tables
  <1>3. CASE \/ ReleaseCoordinatorLock \/ ClaimSome \/ SweepExpiredLeases
             \/ BackoffSome \/ \E e \in DOMAIN agenda : LeaseExpires(e)
    <2>1. UNCHANGED events /\ (UNCHANGED agenda => Tables')
      BY <1>3 DEF ReleaseCoordinatorLock, ClaimSome, Claim, SweepExpiredLeases,
         BackoffSome, BackoffElapses, LeaseExpires, Tables
    <2>2. IsTable(Swept)
      BY DEF Swept, IsTable
    <2>3. \/ UNCHANGED agenda \/ agenda' = Swept
          \/ \E e, row : agenda' = [Swept EXCEPT ![e] = row]
          \/ \E e, row : agenda' = [agenda EXCEPT ![e] = row]
      BY <1>3 DEF ReleaseCoordinatorLock, ClaimSome, Claim, SweepExpiredLeases,
         BackoffSome, BackoffElapses, LeaseExpires
    <2>4. \A f, e, row : IsTable([f EXCEPT ![e] = row])
      BY DEF IsTable
    <2>5. IsTable(agenda')
      BY <2>2, <2>3, <2>4 DEF Tables
    <2> QED BY <2>1, <2>5 DEF Tables, IsTable
  <1>4. CASE ExecuteSome
    BY <1>4 DEF ExecuteSome, Execute, Complete, Skip, Retry, Fail, Outcome, Tables,
       IsTable
  <1>5. CASE VersionChange \/ Repair
    BY <1>5 DEF VersionChange, Pause, Resume, Remove, Replace, ChangeVersion,
       Repair, Requeue, Cancel, Tables, IsTable
  <1>6. CASE UNCHANGED vars
    BY <1>6 DEF vars, Tables
  <1> QED BY <1>2, <1>3, <1>4, <1>5, <1>6 DEF Next

\* Inserting no row.
LEMMA InsertNothing ==
  ASSUME NEW table, IsTable(table), NEW rows, DOMAIN rows = {}
  PROVE  Insert(table, rows) = table
  BY DEF Insert, IsTable

LEMMA InsertSame ==
  ASSUME NEW table, NEW A, NEW C,
         DOMAIN table \cup DOMAIN A = DOMAIN table \cup DOMAIN C,
         \A x \in DOMAIN A \ DOMAIN table : A[x] = C[x]
  PROVE  Insert(table, A) = Insert(table, C)
  BY DEF Insert

\* C has the rows of A, and those of B that A has not.
Joins(A, B, C) ==
  /\ DOMAIN C = DOMAIN A \cup DOMAIN B
  /\ \A x \in DOMAIN A : C[x] = A[x]
  /\ \A x \in DOMAIN B \ DOMAIN A : C[x] = B[x]

LEMMA InsertTwice ==
  ASSUME NEW table, NEW A, NEW B, NEW C, Joins(A, B, C)
  PROVE  Insert(Insert(table, A), B) = Insert(table, C)
  <1> DEFINE first == Insert(table, A)
  <1>1. /\ DOMAIN first = DOMAIN table \cup DOMAIN A
        /\ \A x \in DOMAIN table : first[x] = table[x]
        /\ \A x \in DOMAIN A \ DOMAIN table : first[x] = A[x]
    BY InsertRows
  <1> HIDE DEF first
  <1>2. ASSUME NEW x \in DOMAIN table \cup DOMAIN C
        PROVE  (IF x \in DOMAIN first THEN first[x] ELSE B[x]) =
               (IF x \in DOMAIN table THEN table[x] ELSE C[x])
    BY <1>1 DEF Joins
  <1>3. DOMAIN first \cup DOMAIN B = DOMAIN table \cup DOMAIN C
    BY <1>1 DEF Joins
  <1>4. Insert(first, B) = Insert(table, C)
    BY <1>2, <1>3 DEF Insert
  <1> QED BY <1>4 DEF first

\* The rows and the open rows of an agenda that new episodes were added to.
LEMMA OpenWithJobs ==
  ASSUME NEW ag, NEW jobs, jobs \cap DOMAIN ag = {}
  PROVE  Open(Insert(ag, [x \in jobs |-> NewEpisode])) = Open(ag) \cup jobs
  <1> DEFINE new == [x \in jobs |-> NewEpisode]
             both == Insert(ag, new)
  <1>1. /\ DOMAIN both = DOMAIN ag \cup jobs
        /\ \A x \in DOMAIN ag : both[x] = ag[x]
        /\ \A x \in jobs : both[x] = NewEpisode
    BY DEF Insert
  <1> HIDE DEF both
  <1>2. NewEpisode.state \in Unsettled
    BY DEF NewEpisode, Unsettled, Waiting
  <1>3. Open(both) = Open(ag) \cup jobs
    BY <1>1, <1>2 DEF Open
  <1> QED BY <1>3 DEF both

\* Withdrawing after new episodes of other keys were added is withdrawing before.
LEMMA WithdrawUnderJobs ==
  ASSUME NEW ag, NEW jobs, NEW k, NEW gen, \A x \in jobs : x.key # k
  PROVE  WithdrawKey(Insert(ag, [x \in jobs |-> NewEpisode]), k, gen) =
           Insert(WithdrawKey(ag, k, gen), [x \in jobs |-> NewEpisode])
  <1> DEFINE new == [x \in jobs |-> NewEpisode]
             both == Insert(ag, new)
             gone == WithdrawKey(ag, k, gen)
  <1>1. /\ both = [x \in DOMAIN ag \cup jobs |->
                     IF x \in DOMAIN ag THEN ag[x] ELSE NewEpisode]
        /\ gone = [x \in DOMAIN ag |->
                     IF /\ x.key = k /\ x.gen = gen /\ x.kind = "ACTIVATE"
                        /\ ag[x].state \in Waiting
                     THEN Released(ag[x], "WITHDRAWN") ELSE ag[x]]
        /\ Insert(gone, new) = [x \in DOMAIN gone \cup jobs |->
                     IF x \in DOMAIN gone THEN gone[x] ELSE NewEpisode]
        /\ WithdrawKey(both, k, gen) = [x \in DOMAIN both |->
                     IF /\ x.key = k /\ x.gen = gen /\ x.kind = "ACTIVATE"
                        /\ both[x].state \in Waiting
                     THEN Released(both[x], "WITHDRAWN") ELSE both[x]]
    BY DEF Insert, WithdrawKey
  <1> HIDE DEF both, gone
  <1>2. ASSUME NEW x \in DOMAIN ag \cup jobs
        PROVE  WithdrawKey(both, k, gen)[x] = Insert(gone, new)[x]
    BY <1>1
  <1>3. WithdrawKey(both, k, gen) = Insert(gone, new)
    <2> DEFINE F == WithdrawKey(both, k, gen)
               G == Insert(gone, new)
    <2>1. /\ DOMAIN F = DOMAIN ag \cup jobs /\ F = [x \in DOMAIN F |-> F[x]]
          /\ DOMAIN G = DOMAIN ag \cup jobs /\ G = [x \in DOMAIN G |-> G[x]]
      BY <1>1
    <2>2. \A x \in DOMAIN ag \cup jobs : F[x] = G[x]
      BY <1>2
    <2> HIDE DEF F, G
    <2>3. F = G
      BY <2>1, <2>2
    <2> QED BY <2>3 DEF F, G
  <1> QED BY <1>3 DEF both, gone

Fits(nx) == ~Overloaded(Withdrawn(nx), Emitted(nx))

\* A turn after which the transaction has not raised takes the loop from what
\* Refresh would write for the keys so far to what it writes for one key more.
LEMMA TurnExtends ==
  ASSUME TypeInv, FiniteAgenda, NEW done \in SUBSET Keys, NEW k \in Keys \ done,
         NEW rows \in [Keys -> Row], Fits(Partly(rows, done)),
         ~FinalizeKey(Refreshed(Partly(rows, done)), k, rows[k]).raised
  PROVE  /\ FinalizeKey(Refreshed(Partly(rows, done)), k, rows[k]) =
              Refreshed(Partly(rows, done \cup {k}))
         /\ Fits(Partly(rows, done \cup {k}))
  <1> DEFINE p == Partly(rows, done)
             q == Partly(rows, done \cup {k})
             nx == Finalized(act[k], rows[k])
             e == TurnEvent(rows, k)
             A == Emitted(p)
             B == Emitted(q)
             JA == [x \in NewJobs(A) |-> NewEpisode]
             JB == [x \in NewJobs(B) |-> NewEpisode]
             report == Report(act[k], e.kind, rows[k])
             ag == Insert(Withdrawn(q), JA)
             turn == FinalizeKey(Refreshed(p), k, rows[k])
             brings == e.kind # "NOOP" /\ e \notin DOMAIN events /\ e.kind \in Bound
  <1>1. /\ \A x \in DOMAIN A : x.key \in done
        /\ DOMAIN B = DOMAIN A \cup (IF e.kind # "NOOP" THEN {e} ELSE {})
        /\ \A x \in DOMAIN A : B[x] = A[x]
        /\ e.kind # "NOOP" => B[e] = report
    <2>1. EventsGrow(rows, done, k)
      BY EmittedTurn, Zenon
    <2> QED BY <2>1 DEF EventsGrow
  <1>2. e.key = k /\ p[k] = act[k] /\ p[k] \in Activation /\ [p EXCEPT ![k] = nx] = q
    <2>1. e.key = k
      BY DEF TurnEvent, EventOf
    <2>2. p[k] = act[k] /\ act[k] \in Activation
      BY DEF Partly, TypeInv, TypeOK
    <2>3. [p EXCEPT ![k] = nx] = q
      <3> HIDE DEF nx
      <3>1. nx = Finalized(act[k], rows[k])
        BY DEF nx
      <3> QED BY <3>1 DEF Partly
    <2> QED BY <2>1, <2>2, <2>3
  <1>3. Withdrawn(q) = IF e.kind = "DEACTIVATE"
                       THEN WithdrawKey(Withdrawn(p), k, act[k].gen) ELSE Withdrawn(p)
    BY AgendaTurn, Zenon DEF TurnEvent
  <1>4. /\ DOMAIN Withdrawn(p) = DOMAIN agenda /\ DOMAIN Withdrawn(q) = DOMAIN agenda
        /\ DOMAIN agenda \subseteq DOMAIN events
    BY WithdrawnType DEF TypeInv, TypeOK
  <1> HIDE DEF p, q, nx, e, A, B, report
  <1>5. /\ NewJobs(A) \subseteq DOMAIN A \ DOMAIN events
        /\ NewJobs(B) = NewJobs(A) \cup (IF brings THEN {e} ELSE {})
        /\ e \notin DOMAIN A
    BY <1>1, <1>2 DEF NewJobs
  <1>6. turn = IF e.kind = "NOOP" THEN Tx(q, Insert(events, A), ag)
               ELSE EmitEvent(Tx(q, Insert(events, A), ag), e, report)
    <2> DEFINE old == Insert(Withdrawn(p), JA)
               left == IF e.kind = "DEACTIVATE" THEN WithdrawKey(old, k, act[k].gen)
                       ELSE old
    <2>1. Refreshed(p) = Tx(p, Insert(events, A), old)
      BY DEF Refreshed, Tx, A
    <2>2. left = ag
      <3>1. \A x \in NewJobs(A) : x.key # k
        BY <1>1, <1>5
      <3>2. WithdrawKey(old, k, act[k].gen) =
              Insert(WithdrawKey(Withdrawn(p), k, act[k].gen), JA)
        BY <3>1, WithdrawUnderJobs
      <3> QED BY <1>3, <3>2
    <2> HIDE DEF JA, old, ag
    <2>3. FinalizeKey(Tx(p, Insert(events, A), old), k, rows[k]) =
            IF e.kind = "NOOP" THEN Tx(q, Insert(events, A), old)
            ELSE EmitEvent(Tx(q, Insert(events, A), left), e, report)
      <3>1. /\ Finalized(p[k], rows[k]) = nx /\ EventOf(k, p[k], nx) = e
            /\ Report(p[k], e.kind, rows[k]) = report
        BY <1>2 DEF nx, e, report, TurnEvent
      <3> DEFINE ev == Insert(events, A)
                 row == rows[k]
      <3> HIDE DEF ev, row, q
      <3>2. TurnWrites(p, ev, old, k, row)
        BY <1>2, OneTurn
      <3>3. [p EXCEPT ![k] = nx] = q /\ p[k] = act[k]
        BY <1>2
      <3>4. /\ Finalized(p[k], row) = nx /\ EventOf(k, p[k], nx) = e
            /\ Report(p[k], e.kind, row) = report
        BY <3>1 DEF row
      <3>5. FinalizeKey(Tx(p, ev, old), k, row) =
              IF e.kind = "NOOP" THEN Tx(q, ev, old)
              ELSE EmitEvent(Tx(q, ev, left), e, report)
        BY <3>2, <3>3, <3>4 DEF TurnWrites
      <3> QED BY <3>5 DEF ev, row
    <2> QED BY <2>1, <2>2, <2>3
  <1> DEFINE ev == Insert(events, A)
  <1>7. /\ Refreshed(q) = Tx(q, Insert(events, B), Insert(Withdrawn(q), JB))
        /\ ~turn.raised
    BY DEF Refreshed, Tx, B, p
  <1>8. DOMAIN ev = DOMAIN events \cup DOMAIN A
    BY InsertRows
  <1>9. ~brings => NewJobs(B) = NewJobs(A)
    BY <1>5
  <1> HIDE DEF turn
  <1>10. turn = Refreshed(q)
    <2>1. ASSUME e.kind = "NOOP" PROVE turn = Refreshed(q)
      <3>1. ~brings
        BY <2>1
      <3>2. Insert(events, B) = ev
        BY <1>1, <2>1, InsertSame
      <3>3. turn = Tx(q, ev, ag)
        BY <1>6, <2>1
      <3> QED BY <1>7, <1>9, <3>1, <3>2, <3>3
    <2>2. ASSUME e.kind # "NOOP"
          PROVE  /\ turn = EmitEvent(Tx(q, ev, ag), e, report)
                 /\ ~EmitEvent(Tx(q, ev, ag), e, report).raised
      BY <1>6, <1>7, <2>2
    <2>3. ASSUME e.kind # "NOOP", e \in DOMAIN events PROVE turn = Refreshed(q)
      <3>1. ~brings
        BY <2>3
      <3>2. Insert(events, B) = ev
        <4>1. /\ DOMAIN events \cup DOMAIN A = DOMAIN events \cup DOMAIN B
              /\ \A x \in DOMAIN A \ DOMAIN events : A[x] = B[x]
          BY <1>1, <2>3
        <4> QED BY <4>1, InsertSame
      <3>3. turn = Tx(q, ev, ag)
        <4>1. e \in DOMAIN ev
          BY <1>8, <2>3
        <4> HIDE DEF ev, ag
        <4>2. EventWrites(q, ev, ag, e, report)
          BY <2>2, <2>3, EmitEventWrites
        <4> QED BY <2>2, <2>3, <4>1, <4>2 DEF EventWrites
      <3> QED BY <1>7, <1>9, <3>1, <3>2, <3>3
    <2>4. ASSUME e.kind # "NOOP", e \notin DOMAIN events PROVE turn = Refreshed(q)
      <3>1. Insert(ev, [x \in {e} |-> report]) = Insert(events, B)
        <4> DEFINE C == [x \in {e} |-> report]
        <4>1. Joins(A, C, B)
          BY <1>1, <2>4 DEF Joins
        <4> HIDE DEF C
        <4>2. Insert(Insert(events, A), C) = Insert(events, B)
          BY <4>1, InsertTwice
        <4> QED BY <4>2 DEF C
      <3>2. Insert(ag, Jobs(e)) = Insert(Withdrawn(q), JB)
        <4>1. DOMAIN JB = DOMAIN JA \cup DOMAIN Jobs(e)
          BY <1>5, <2>4 DEF Jobs
        <4>2. /\ \A x \in DOMAIN JA : JB[x] = JA[x]
              /\ \A x \in DOMAIN Jobs(e) \ DOMAIN JA : JB[x] = Jobs(e)[x]
          BY <4>1 DEF Jobs
        <4>3. Joins(JA, Jobs(e), JB)
          BY <4>1, <4>2 DEF Joins
        <4> HIDE DEF JA, JB
        <4> QED BY <4>3, InsertTwice
      <3>3. turn = Tx(q, Insert(ev, [x \in {e} |-> report]), Insert(ag, Jobs(e)))
        <4>1. e \notin DOMAIN ev
          BY <1>5, <1>8, <2>4
        <4> HIDE DEF ev, ag
        <4>2. EventWrites(q, ev, ag, e, report)
          BY <2>2, <2>4, EmitEventWrites
        <4> QED BY <2>2, <2>4, <4>1, <4>2 DEF EventWrites
      <3> HIDE DEF ag, ev, JB
      <3> QED BY <1>7, <3>1, <3>2, <3>3
    <2> QED BY <2>1, <2>3, <2>4
  <1>11. brings => ~(Cardinality(Open(ag)) >= MaxPending)
    <2> SUFFICES ASSUME brings PROVE ~(Cardinality(Open(ag)) >= MaxPending)
      OBVIOUS
    <2>1. e \notin DOMAIN ev
      BY <1>5, <1>8
    <2>2. ~EmitEvent(Tx(q, ev, ag), e, report).raised
      BY <1>6, <1>7
    <2> HIDE DEF ev, ag
    <2>3. EventWrites(q, ev, ag, e, report)
      BY <2>2, EmitEventWrites
    <2> QED BY <2>1, <2>3 DEF EventWrites
  <1>12. Fits(q)
    <2> DEFINE m == Cardinality(Open(Withdrawn(p)))
               n == Cardinality(Open(Withdrawn(q)))
               i == Cardinality(NewJobs(A))
               j == Cardinality(NewJobs(B))
    <2>1. /\ IsFiniteSet(Open(Withdrawn(p))) /\ IsFiniteSet(NewJobs(A))
          /\ IsFiniteSet(Open(Withdrawn(q))) /\ IsFiniteSet(NewJobs(B))
      <3>1. /\ Open(Withdrawn(p)) \in SUBSET DOMAIN agenda
            /\ Open(Withdrawn(q)) \in SUBSET DOMAIN agenda
        BY <1>4 DEF Open
      <3>2. IsFiniteSet(NewJobs(A)) /\ IsFiniteSet(NewJobs(B))
        BY NewJobsFinite DEF A, B
      <3> QED BY <3>1, <3>2, FS_Subset DEF FiniteAgenda
    <2>2. m \in Nat /\ n \in Nat /\ i \in Nat /\ j \in Nat /\ MaxPending \in Nat
      BY <2>1, FS_CardinalityType, LimitsAssumption
    <2>3. CASE ~brings
      <3>1. Open(Withdrawn(q)) \in SUBSET Open(Withdrawn(p))
        <4>1. \A x \in DOMAIN Withdrawn(p) :
                WithdrawKey(Withdrawn(p), k, act[k].gen)[x].state \in Unsettled =>
                  Withdrawn(p)[x].state \in Unsettled
          BY DEF WithdrawKey, Unsettled
        <4> QED BY <1>3, <1>4, <4>1 DEF Open
      <3>2. n <= m
        BY <2>1, <3>1, FS_Subset
      <3>3. NewJobs(A) # {} => ~(m + i > MaxPending)
        BY DEF Fits, Overloaded, A, p
      <3>4. NewJobs(B) = NewJobs(A) /\ j = i
        BY <1>9, <2>3
      <3>5. NewJobs(B) # {} => ~(n + j > MaxPending)
        BY <2>2, <3>2, <3>3, <3>4
      <3> QED BY <3>5 DEF Fits, Overloaded, B
    <2>4. CASE brings
      <3>1. Open(ag) = Open(Withdrawn(q)) \cup NewJobs(A)
        <4>1. NewJobs(A) \cap DOMAIN Withdrawn(q) = {}
          BY <1>4, <1>5
        <4> QED BY <4>1, OpenWithJobs
      <3>2. Open(Withdrawn(q)) \cap NewJobs(A) = {}
        BY <1>4, <1>5 DEF Open
      <3>3. Cardinality(Open(ag)) = n + i
        <4>1. Cardinality({}) = 0
          BY FS_EmptySet
        <4>2. Cardinality(Open(Withdrawn(q)) \cup NewJobs(A)) =
                n + i - Cardinality(Open(Withdrawn(q)) \cap NewJobs(A))
          BY <2>1, FS_Union
        <4> DEFINE both == Open(Withdrawn(q)) \cup NewJobs(A)
        <4>3. Cardinality(both) = n + i - Cardinality({})
          BY <3>2, <4>2
        <4> HIDE DEF both, n, i
        <4>4. Cardinality(both) = n + i
          BY <2>2, <4>1, <4>3
        <4> QED BY <3>1, <4>4 DEF both
      <3>4. j = i + 1
        <4>1. NewJobs(B) = NewJobs(A) \cup {e} /\ e \notin NewJobs(A)
          BY <1>5, <2>4
        <4> QED BY <2>1, <4>1, FS_AddElement
      <3>5. ~(n + j > MaxPending)
        BY <1>11, <2>2, <2>4, <3>3, <3>4
      <3> QED BY <3>5 DEF Fits, Overloaded, B
    <2> QED BY <2>3, <2>4
  <1> QED BY <1>10, <1>12 DEF turn, p, q

LEMMA TouchedFinite ==
  ASSUME NEW rows
  PROVE  Cardinality(Touched(rows)) \in Nat
  <1>1. Touched(rows) \in SUBSET Keys
    BY DEF Touched
  <1> QED BY <1>1, KeysAssumption, FS_Subset, FS_CardinalityType

\* The state before the first turn is what Refresh would write for no key.
LEMMA BegunRefreshes ==
  ASSUME TypeInv, Tables, NEW rows
  PROVE  Begun = Refreshed(Partly(rows, {})) /\ Fits(Partly(rows, {}))
  <1> DEFINE p == Partly(rows, {})
  <1>1. p = act
    BY DEF Partly, TypeInv, TypeOK
  <1>2. \A k \in Keys : Transition(act[k], act[k]) = "NOOP"
    BY FinalizedReports DEF TypeInv, TypeOK
  <1>3. DOMAIN Emitted(act) = {}
    BY <1>2 DEF Emitted
  <1>4. NewJobs(Emitted(act)) = {}
    BY <1>3 DEF NewJobs
  <1>5. Withdrawn(act) = agenda
    <2>1. \A x \in DOMAIN agenda : Transition(act[x.key], act[x.key]) # "DEACTIVATE"
      BY <1>2 DEF TypeInv, TypeOK, EpisodeId
    <2>2. Withdrawn(act) = [x \in DOMAIN agenda |-> agenda[x]]
      BY <2>1 DEF Withdrawn
    <2> QED BY <2>2 DEF Tables, IsTable
  <1>6. Insert(events, Emitted(act)) = events
    BY <1>3, InsertNothing DEF Tables
  <1>7. Insert(agenda, [x \in NewJobs(Emitted(act)) |-> NewEpisode]) = agenda
    <2> DEFINE jobs == [x \in NewJobs(Emitted(act)) |-> NewEpisode]
    <2>1. DOMAIN jobs = {}
      BY <1>4
    <2> HIDE DEF jobs
    <2>2. Insert(agenda, jobs) = agenda
      BY <2>1, InsertNothing DEF Tables
    <2> QED BY <2>2 DEF jobs
  <1>8. Begun = Refreshed(act) /\ Fits(act)
    BY <1>4, <1>5, <1>6, <1>7 DEF Begun, Refreshed, Fits, Overloaded
  <1> QED BY <1>1, <1>8

\* Induction, for a set: each number is reached from zero.
LEMMA Inductive ==
  ASSUME NEW S, 0 \in S, \A n \in Nat : n \in S => n + 1 \in S
  PROVE  Nat \subseteq S
  <1> DEFINE R == OpToRel(<, Nat)
             T == Nat \ S
  <1> SUFFICES ASSUME T # {} PROVE FALSE
    OBVIOUS
  <1>1. PICK n \in T : \A m \in T : ~ (<<m, n>> \in R)
    <2>1. T \subseteq Nat
      OBVIOUS
    <2> HIDE DEF R, T
    <2> QED BY <2>1, WFMin, NatLessThanWellFounded DEF R
  <1>2. \A m \in Nat : m < n => <<m, n>> \in R
    BY <1>1 DEF OpToRel
  <1>3. n \in Nat /\ n # 0 /\ n \notin S
    OBVIOUS
  <1>4. n - 1 \in Nat /\ n - 1 < n /\ (n - 1) + 1 = n
    BY <1>3
  <1>5. n - 1 \in S
    BY <1>1, <1>2, <1>4
  <1> QED BY <1>3, <1>4, <1>5

\* The recursion that defines Turns has a solution.
LEMMA TurnsUnfold ==
  ASSUME NEW order, NEW rows
  PROVE  Turns(order, rows) =
           [n \in 0 .. Cardinality(Touched(rows)) |->
              IF n = 0 THEN Begun
                       ELSE FinalizeKey(Turns(order, rows)[n - 1], order[n],
                                        rows[order[n]])]
  <1> DEFINE Turn(tx, n) == FinalizeKey(tx, order[n], rows[order[n]])
             Unfolds(f, n) ==
               f = [i \in 0 .. n |-> IF i = 0 THEN Begun ELSE Turn(f[i - 1], i)]
  <1>1. \A n \in Nat : \E f : Unfolds(f, n)
    <2> DEFINE S == {n \in Nat : \E f : Unfolds(f, n)}
    <2> HIDE DEF Turn
    <2>1. 0 \in S
      <3> DEFINE f == [i \in 0 .. 0 |-> Begun]
      <3>1. \A i \in 0 .. 0 : i = 0
        OBVIOUS
      <3>2. Unfolds(f, 0)
        BY <3>1
      <3> QED BY <3>2
    <2>2. ASSUME NEW n \in Nat, n \in S PROVE n + 1 \in S
      <3>1. PICK f : Unfolds(f, n)
        BY <2>2
      <3> DEFINE g == [i \in 0 .. n + 1 |->
                         IF i = n + 1 THEN Turn(f[n], n + 1) ELSE f[i]]
      <3>2. /\ n + 1 \in 0 .. n + 1 /\ n + 1 # 0 /\ (n + 1) - 1 = n
            /\ \A i \in 0 .. n : i \in 0 .. n + 1 /\ i # n + 1
            /\ \A i \in 0 .. n + 1 : i # n + 1 => i \in 0 .. n
            /\ \A i \in 0 .. n : i # 0 => i - 1 \in 0 .. n
            /\ n \in 0 .. n
        OBVIOUS
      <3>3. /\ \A i \in 0 .. n : g[i] = f[i]
            /\ g[n + 1] = Turn(f[n], n + 1)
        BY <3>2
      <3>4. \A i \in 0 .. n : f[i] = IF i = 0 THEN Begun ELSE Turn(f[i - 1], i)
        BY <3>1
      <3>5. ASSUME NEW i \in 0 .. n + 1
            PROVE  g[i] = IF i = 0 THEN Begun ELSE Turn(g[i - 1], i)
        <4> HIDE DEF g, Unfolds
        <4>1. CASE i = n + 1
          BY <3>2, <3>3, <4>1
        <4>2. CASE i # n + 1
          BY <3>2, <3>3, <3>4, <4>2
        <4> QED BY <4>1, <4>2
      <3>6. Unfolds(g, n + 1)
        BY <3>5
      <3> HIDE DEF g, Unfolds
      <3> QED BY <3>6
    <2> HIDE DEF S, Unfolds
    <2>3. Nat \subseteq S
      BY <2>1, <2>2, Inductive
    <2> QED BY <2>3 DEF S
  <1>2. \E f : Unfolds(f, Cardinality(Touched(rows)))
    <2> HIDE DEF Unfolds
    <2> QED BY <1>1, TouchedFinite
  <1> QED BY <1>2 DEF Turns

\* After each turn the loop has raised, or has written what Refresh would write
\* for the keys it has come to.
LEMMA LoopRefreshes ==
  ASSUME TypeInv, FiniteAgenda, Tables, NEW rows \in [Keys -> Row],
         NEW order \in Orders(Touched(rows)), ~Finish(order, rows).raised
  PROVE  /\ Finish(order, rows) = Refreshed(FinalState(rows))
         /\ Fits(FinalState(rows))
  <1> DEFINE N == Cardinality(Touched(rows))
             T == Turns(order, rows)
             come(n) == {order[i] : i \in 1 .. n}
             p(n) == Partly(rows, come(n))
             S == {n \in Nat : n <= N /\ ~T[n].raised =>
                                 T[n] = Refreshed(p(n)) /\ Fits(p(n))}
  <1>1. N \in Nat
    BY TouchedFinite
  <1>2. T = [n \in 0 .. N |-> IF n = 0 THEN Begun
                              ELSE FinalizeKey(T[n - 1], order[n], rows[order[n]])]
    BY TurnsUnfold
  <1>3. /\ order \in [1 .. N -> Touched(rows)]
        /\ \A i, j \in 1 .. N : order[i] = order[j] => i = j
        /\ \A k \in Touched(rows) : \E i \in 1 .. N : order[i] = k
    BY DEF Orders, Bijection, Injection, Surjection, IsInjective
  <1> HIDE DEF T, N
  <1>4. T[0] = Begun
    BY <1>1, <1>2
  <1>5. ASSUME NEW n \in Nat, n + 1 <= N
        PROVE  T[n + 1] = FinalizeKey(T[n], order[n + 1], rows[order[n + 1]])
    <2>1. n + 1 \in 0 .. N /\ n + 1 # 0 /\ (n + 1) - 1 = n
      BY <1>1, <1>5
    <2> QED BY <1>2, <2>1
  <1>6. 0 \in S
    <2>1. come(0) = {}
      OBVIOUS
    <2>2. p(0) = Partly(rows, {})
      BY <2>1
    <2> HIDE DEF p, come
    <2> QED BY <1>4, <2>2, BegunRefreshes
  <1>7. ASSUME NEW n \in Nat, n \in S PROVE n + 1 \in S
    <2> SUFFICES ASSUME n + 1 <= N, ~T[n + 1].raised
                 PROVE  T[n + 1] = Refreshed(p(n + 1)) /\ Fits(p(n + 1))
      OBVIOUS
    <2> DEFINE k == order[n + 1]
    <2>1. T[n + 1] = FinalizeKey(T[n], k, rows[k])
      BY <1>5
    <2>2. ~T[n].raised
      BY <2>1 DEF FinalizeKey
    <2>3. T[n] = Refreshed(p(n)) /\ Fits(p(n))
      BY <1>1, <1>7, <2>2
    <2>4. /\ come(n) \in SUBSET Keys /\ k \in Keys \ come(n)
          /\ come(n + 1) = come(n) \cup {k}
      <3>1. /\ n + 1 \in 1 .. N /\ 1 .. n \subseteq 1 .. N /\ n + 1 \notin 1 .. n
            /\ 1 .. (n + 1) = (1 .. n) \cup {n + 1}
        BY <1>1
      <3>2. Touched(rows) \subseteq Keys
        BY DEF Touched
      <3> QED BY <1>3, <3>1, <3>2
    <2> HIDE DEF come, k
    <2>5. ~FinalizeKey(Refreshed(p(n)), k, rows[k]).raised
      BY <2>1, <2>3
    <2>6. /\ FinalizeKey(Refreshed(p(n)), k, rows[k]) =
               Refreshed(Partly(rows, come(n) \cup {k}))
          /\ Fits(Partly(rows, come(n) \cup {k}))
      BY <2>3, <2>4, <2>5, TurnExtends
    <2> QED BY <2>1, <2>3, <2>4, <2>6
  <1>8. N \in S
    <2> HIDE DEF S
    <2> QED BY <1>1, <1>6, <1>7, Inductive
  <1>9. p(N) = FinalState(rows)
    <2>1. come(N) = Touched(rows)
      BY <1>3
    <2> HIDE DEF come
    <2> QED BY <2>1 DEF Partly, Touched, FinalState
  <1>10. Finish(order, rows) = T[N]
    BY DEF Finish, T, N
  <1> HIDE DEF p
  <1> QED BY <1>1, <1>8, <1>9, <1>10

\* A loop over the buffered keys that gets through writes what the model's
\* Refresh writes at once, whatever order PostgreSQL returns the keys in, for any
\* keys, bindings and limit; and it gets through only if Refresh was allowed to.
THEOREM LoopIsRefresh == Spec => []LoopsAreRefreshes
  <1>1. TypeInv /\ FiniteAgenda /\ Tables => LoopsAreRefreshes
    BY LoopRefreshes DEF LoopsAreRefreshes, Fits
  <1> QED BY <1>1, InitFinite, FiniteStep, TablesKept, InitTables, TypeInvariant, PTL
          DEF Spec
=============================================================================
