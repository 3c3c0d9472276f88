------------------------- MODULE RuleRuntimeProofs -------------------------
(***************************************************************************)
(* Proofs about RuleRuntime, for any set of keys, match rows, conflict     *)
(* keys and workers, any limits and any choice of operator procedures.     *)
(*                                                                         *)
(* TypeOK is not inductive: a conflict lease has a key of its type only    *)
(* because every event carries the bindings of a row, and a DEACTIVATE     *)
(* does only because an active key always shows one.  TypeInv adds both.   *)
(***************************************************************************)
EXTENDS RuleRuntime, TLAPS

\* An active key shows the row it matched, and remembers it as its last one.
ShowsRow(st) == st.active => st.bindings # Absent /\ st.last # Absent

ActiveShowsRow == \A k \in Keys : ShowsRow(act[k])

\* An event has new bindings, or it has old ones.
HasRow(ev) == ev.new # Absent \/ ev.old # Absent

EventHasRow == \A e \in DOMAIN events : HasRow(events[e])

TypeInv == TypeOK /\ ActiveShowsRow /\ EventHasRow

-----------------------------------------------------------------------------
(***************************************************************************)
(* The operators the actions are built from.                               *)
(***************************************************************************)
\* A row released from its lease is a row of the agenda again.
LEMMA ReleasedType ==
  ASSUME NEW job \in Episode, NEW state \in EpisodeStates
  PROVE  Released(job, state) \in Episode
  BY DEF Released, Episode

LEMMA ClaimedType ==
  ASSUME NEW job \in Episode, NEW w \in Workers
  PROVE  Claimed(job, w) \in Episode
  <1> DEFINE next == job.minted + 1
             attempts == job.attempts + 1
  <1>1. next \in Nat /\ attempts \in Nat
    BY DEF Episode
  <1>2. Claimed(job, w) =
          [job EXCEPT !.state = "LEASED", !.worker = w, !.token = next,
                      !.minted = next, !.attempts = attempts]
    BY DEF Claimed
  <1> HIDE DEF next, attempts
  <1> QED BY <1>1, <1>2 DEF Episode, EpisodeStates

LEMMA NewEpisodeType == NewEpisode \in Episode
  BY DEF NewEpisode, Episode, EpisodeStates

\* Inserting keeps the rows a table has and adds those it has not.
LEMMA InsertRows ==
  ASSUME NEW table, NEW rows
  PROVE  /\ DOMAIN Insert(table, rows) = DOMAIN table \cup DOMAIN rows
         /\ \A x \in DOMAIN table : Insert(table, rows)[x] = table[x]
         /\ \A x \in DOMAIN rows \ DOMAIN table :
              Insert(table, rows)[x] = rows[x]
  BY DEF Insert

\* Finalizing a key yields an activation row that shows its row if active.
LEMMA FinalizedType ==
  ASSUME NEW st \in Activation, NEW row \in Row, ShowsRow(st)
  PROVE  /\ Finalized(st, row) \in Activation
         /\ ShowsRow(Finalized(st, row))
  <1>1. CASE row # Absent /\ ~st.active
    BY <1>1 DEF Finalized, Activation, ShowsRow, Row
  <1>2. CASE row # Absent /\ st.active
    <2> DEFINE rev == IF WatchedChanged(st.bindings, row)
                      THEN st.rev + 1 ELSE st.rev
    <2>1. rev \in Nat
      BY DEF Activation
    <2>2. Finalized(st, row) =
            [st EXCEPT !.bindings = row, !.last = row, !.rev = rev]
      BY <1>2 DEF Finalized
    <2> HIDE DEF rev
    <2> QED BY <1>2, <2>1, <2>2 DEF Activation, ShowsRow
  <1>3. CASE row = Absent /\ st.active
    BY <1>3 DEF Finalized, Activation, ShowsRow, Row
  <1>4. CASE row = Absent /\ ~st.active
    BY <1>4 DEF Finalized, Activation, ShowsRow, Row
  <1>5. st.active \in BOOLEAN
    BY DEF Activation
  <1> QED BY <1>1, <1>2, <1>3, <1>4, <1>5

LEMMA ReconciledType ==
  ASSUME NEW st \in Activation, NEW row \in Row, ShowsRow(st)
  PROVE  /\ Reconciled(st, row) \in Activation
         /\ ShowsRow(Reconciled(st, row))
  BY FinalizedType DEF Reconciled

\* The events of a step of the activation rows are typed and carry a row.
LEMMA EmittedType ==
  ASSUME act \in [Keys -> Activation], ActiveShowsRow,
         NEW nx \in [Keys -> Activation], \A k \in Keys : ShowsRow(nx[k])
  PROVE  /\ DOMAIN Emitted(nx) \subseteq EpisodeId
         /\ \A e \in DOMAIN Emitted(nx) :
              /\ Emitted(nx)[e] \in [old : Row, new : Row]
              /\ HasRow(Emitted(nx)[e])
  <1> DEFINE changed == {k \in Keys : Transition(act[k], nx[k]) # "NOOP"}
             ids == {EventOf(k, act[k], nx[k]) : k \in changed}
  <1>1. /\ DOMAIN Emitted(nx) = ids
        /\ \A e \in ids : Emitted(nx)[e] =
             [old |-> CASE e.kind = "ACTIVATE" -> Absent
                        [] e.kind = "CHANGE" -> act[e.key].bindings
                        [] OTHER -> act[e.key].last,
              new |-> nx[e.key].bindings]
    BY DEF Emitted
  <1>2. ASSUME NEW e \in ids
        PROVE  /\ e \in EpisodeId
               /\ Emitted(nx)[e] \in [old : Row, new : Row]
               /\ HasRow(Emitted(nx)[e])
    <2>1. PICK k \in changed : e = EventOf(k, act[k], nx[k])
      OBVIOUS
    <2>2. /\ act[k] \in Activation /\ nx[k] \in Activation
          /\ ShowsRow(act[k]) /\ ShowsRow(nx[k])
      BY DEF ActiveShowsRow
    <2>3. /\ e.key = k /\ e.kind = Transition(act[k], nx[k])
          /\ e.gen = nx[k].gen /\ e.rev = IF nx[k].active THEN nx[k].rev ELSE 0
          /\ e = [key |-> e.key, gen |-> e.gen, kind |-> e.kind, rev |-> e.rev]
      BY <2>1 DEF EventOf
    <2>4. /\ e.kind \in Kinds
          /\ e.kind # "DEACTIVATE" => nx[k].active
          /\ e.kind = "DEACTIVATE" => act[k].active
      BY <2>3 DEF Transition, Kinds
    <2>5. e \in EpisodeId
      <3>1. /\ e.key \in Keys /\ e.gen \in Nat /\ e.rev \in Nat
        BY <2>2, <2>3 DEF Activation
      <3> QED BY <2>3, <2>4, <3>1 DEF EpisodeId
    <2> HIDE DEF ids, changed
    <2> DEFINE old == CASE e.kind = "ACTIVATE" -> Absent
                        [] e.kind = "CHANGE" -> act[k].bindings
                        [] OTHER -> act[k].last
    <2>6. Emitted(nx)[e] = [old |-> old, new |-> nx[k].bindings]
      BY <1>1, <2>3
    <2>7. old \in Row /\ nx[k].bindings \in Row
      BY <2>2 DEF Activation, Row
    <2>8. nx[k].bindings # Absent \/ old # Absent
      BY <2>2, <2>3, <2>4 DEF ShowsRow
    <2> HIDE DEF old
    <2>9. /\ Emitted(nx)[e] \in [old : Row, new : Row]
          /\ HasRow(Emitted(nx)[e])
      BY <2>6, <2>7, <2>8 DEF HasRow
    <2> QED BY <2>5, <2>9
  <1> QED BY <1>1, <1>2

\* Emitting the events of a step keeps lifecycle_events and agenda typed.
LEMMA EmitType ==
  ASSUME TypeInv,
         NEW nx \in [Keys -> Activation], \A k \in Keys : ShowsRow(nx[k]),
         NEW ag, DOMAIN ag = DOMAIN agenda,
         \A e \in DOMAIN ag : ag[e] \in Episode,
         Emit(ag, Emitted(nx))
  PROVE  /\ DOMAIN events' \subseteq EpisodeId
         /\ \A e \in DOMAIN events' : /\ events'[e] \in [old : Row, new : Row]
                                      /\ HasRow(events'[e])
         /\ DOMAIN agenda' \subseteq DOMAIN events'
         /\ \A e \in DOMAIN agenda' : agenda'[e] \in Episode
  <1> DEFINE emitted == Emitted(nx)
             jobs == [e \in NewJobs(emitted) |-> NewEpisode]
  <1>1. /\ DOMAIN emitted \subseteq EpisodeId
        /\ \A e \in DOMAIN emitted : /\ emitted[e] \in [old : Row, new : Row]
                                     /\ HasRow(emitted[e])
    BY EmittedType DEF TypeInv, TypeOK
  <1>2. /\ DOMAIN jobs \subseteq DOMAIN emitted
        /\ \A e \in DOMAIN jobs : jobs[e] \in Episode
    BY NewEpisodeType DEF NewJobs
  <1>3. events' = Insert(events, emitted) /\ agenda' = Insert(ag, jobs)
    BY DEF Emit
  <1> HIDE DEF emitted, jobs
  <1>4. /\ DOMAIN events' = DOMAIN events \cup DOMAIN emitted
        /\ \A e \in DOMAIN events : events'[e] = events[e]
        /\ \A e \in DOMAIN emitted \ DOMAIN events : events'[e] = emitted[e]
    BY <1>3 DEF Insert
  <1>5. /\ DOMAIN agenda' = DOMAIN ag \cup DOMAIN jobs
        /\ \A e \in DOMAIN ag : agenda'[e] = ag[e]
        /\ \A e \in DOMAIN jobs \ DOMAIN ag : agenda'[e] = jobs[e]
    BY <1>3 DEF Insert
  <1>6. /\ DOMAIN events \subseteq EpisodeId /\ DOMAIN agenda \subseteq DOMAIN events
        /\ \A e \in DOMAIN events : /\ events[e] \in [old : Row, new : Row]
                                    /\ HasRow(events[e])
    BY DEF TypeInv, TypeOK, EventHasRow
  <1>7. DOMAIN events' \subseteq EpisodeId
    BY <1>1, <1>4, <1>6
  <1>8. \A e \in DOMAIN events' : /\ events'[e] \in [old : Row, new : Row]
                                  /\ HasRow(events'[e])
    <2> SUFFICES ASSUME NEW e \in DOMAIN events'
                 PROVE  events'[e] \in [old : Row, new : Row] /\ HasRow(events'[e])
      OBVIOUS
    <2>1. CASE e \in DOMAIN events
      BY <1>4, <1>6, <2>1
    <2>2. CASE e \notin DOMAIN events
      BY <1>1, <1>4, <2>2
    <2> QED BY <2>1, <2>2
  <1>9. DOMAIN agenda' \subseteq DOMAIN events'
    BY <1>2, <1>4, <1>5, <1>6
  <1>10. \A e \in DOMAIN agenda' : agenda'[e] \in Episode
    BY <1>2, <1>5
  <1> QED BY <1>7, <1>8, <1>9, <1>10

\* The key an episode is serialized by, if it has one, is a conflict key.
LEMMA KeyOfType ==
  ASSUME TypeInv, NEW e \in DOMAIN events
  PROVE  KeyOf(e) \in ConflictKeys \cup {NoConflict}
  <1>1. /\ events[e].new \in Row /\ events[e].old \in Row
        /\ events[e].new # Absent \/ events[e].old # Absent
    BY DEF TypeInv, TypeOK, EventHasRow, HasRow
  <1> QED BY <1>1, ConflictAssumption DEF KeyOf, Row

\* A sweep keeps agenda and conflict_leases typed.
LEMMA SweptType ==
  ASSUME TypeInv
  PROVE  /\ DOMAIN Swept = DOMAIN agenda
         /\ \A e \in DOMAIN agenda : Swept[e] \in Episode
         /\ DOMAIN SweptLeases \subseteq DOMAIN conflict
         /\ \A c \in DOMAIN SweptLeases : SweptLeases[c] = conflict[c]
  <1>1. \A e \in DOMAIN agenda : Released(agenda[e], "PENDING") \in Episode
    BY ReleasedType DEF TypeInv, TypeOK, EpisodeStates
  <1> QED BY <1>1 DEF TypeInv, TypeOK, Swept, SweptLeases, Restrict

\* Withdrawing keeps the agenda typed.
LEMMA WithdrawnType ==
  ASSUME TypeInv, NEW nx
  PROVE  /\ DOMAIN Withdrawn(nx) = DOMAIN agenda
         /\ \A e \in DOMAIN agenda : Withdrawn(nx)[e] \in Episode
  <1>1. \A e \in DOMAIN agenda : Released(agenda[e], "WITHDRAWN") \in Episode
    BY ReleasedType DEF TypeInv, TypeOK, EpisodeStates
  <1> QED BY <1>1 DEF TypeInv, TypeOK, Withdrawn

\* A change of one row of the agenda keeps the agenda typed.
LEMMA OneRowType ==
  ASSUME TypeInv, NEW e \in DOMAIN agenda, NEW job \in Episode,
         agenda' = [agenda EXCEPT ![e] = job]
  PROVE  /\ DOMAIN agenda' = DOMAIN agenda
         /\ \A d \in DOMAIN agenda' : agenda'[d] \in Episode
  BY DEF TypeInv, TypeOK

-----------------------------------------------------------------------------
(***************************************************************************)
(* TypeInv is an invariant.                                                *)
(***************************************************************************)
LEMMA InitType == Init => TypeInv
  <1> SUFFICES ASSUME Init PROVE TypeInv
    OBVIOUS
  <1>1. match \in [Keys -> Row]
    BY DEF Init
  <1>2. \A k \in Keys : act[k] \in Activation /\ ShowsRow(act[k])
    BY <1>1 DEF Init, Activation, NoActivation, ShowsRow, Row
  <1>3. act \in [Keys -> Activation]
    BY <1>2 DEF Init
  <1>4. DOMAIN events = {} /\ DOMAIN agenda = {} /\ DOMAIN conflict = {}
    BY DEF Init
  <1> QED BY <1>1, <1>2, <1>3, <1>4
          DEF Init, TypeInv, TypeOK, ActiveShowsRow, EventHasRow, VersionStates

\* A refresh, by run or by refresh_rule.
LEMMA RefreshTypeStep ==
  ASSUME TypeInv, UNCHANGED maint, NEW rows \in [Keys -> Row], Refresh(rows)
  PROVE  TypeInv'
  <1> DEFINE nx == [k \in Keys |-> IF rows[k] = match[k] THEN act[k]
                                   ELSE Finalized(act[k], rows[k])]
  <1>1. \A k \in Keys : nx[k] \in Activation /\ ShowsRow(nx[k])
    BY FinalizedType DEF TypeInv, TypeOK, ActiveShowsRow
  <1>2. nx \in [Keys -> Activation]
    BY <1>1
  <1>3. /\ act' = nx /\ match' = rows
        /\ Emit(Withdrawn(nx), Emitted(nx))
        /\ UNCHANGED <<executions, conflict>>
    BY DEF Refresh
  <1> HIDE DEF nx
  <1>4. /\ DOMAIN events' \subseteq EpisodeId
        /\ \A e \in DOMAIN events' : /\ events'[e] \in [old : Row, new : Row]
                                     /\ HasRow(events'[e])
        /\ DOMAIN agenda' \subseteq DOMAIN events'
        /\ \A e \in DOMAIN agenda' : agenda'[e] \in Episode
    BY <1>1, <1>2, <1>3, WithdrawnType, EmitType
  <1> QED BY <1>1, <1>2, <1>3, <1>4
          DEF TypeInv, TypeOK, ActiveShowsRow, EventHasRow, maint

LEMMA ReconcileTypeStep ==
  ASSUME TypeInv, NEW mode, ReconcileRule(mode)
  PROVE  TypeInv'
  <1> DEFINE nx == [k \in Keys |-> Reconciled(act[k], match[k])]
  <1>1. \A k \in Keys : nx[k] \in Activation /\ ShowsRow(nx[k])
    BY ReconciledType DEF TypeInv, TypeOK, ActiveShowsRow
  <1>2. nx \in [Keys -> Activation]
    BY <1>1
  <1>3. /\ act' = nx /\ barrier' = "NONE"
        /\ \/ Emit(agenda, Emitted(nx))
           \/ UNCHANGED <<events, agenda>>
        /\ UNCHANGED <<vstate, dropped, coord, match, executions, conflict>>
    BY DEF ReconcileRule
  <1> HIDE DEF nx
  <1>4. /\ DOMAIN events' \subseteq EpisodeId
        /\ \A e \in DOMAIN events' : /\ events'[e] \in [old : Row, new : Row]
                                     /\ HasRow(events'[e])
        /\ DOMAIN agenda' \subseteq DOMAIN events'
        /\ \A e \in DOMAIN agenda' : agenda'[e] \in Episode
    <2>1. CASE Emit(agenda, Emitted(nx))
      BY <1>1, <1>2, <2>1, EmitType DEF TypeInv, TypeOK
    <2>2. CASE UNCHANGED <<events, agenda>>
      BY <2>2 DEF TypeInv, TypeOK, EventHasRow
    <2> QED BY <1>3, <2>1, <2>2
  <1> QED BY <1>1, <1>2, <1>3, <1>4
          DEF TypeInv, TypeOK, ActiveShowsRow, EventHasRow

\* A restore rebuilds the match relation and may lose the conflict leases.
LEMMA RestoreTypeStep == TypeInv /\ Restore => TypeInv'
  <1> SUFFICES ASSUME TypeInv, Restore PROVE TypeInv'
    OBVIOUS
  <1>1. /\ match' \in [Keys -> Row]
        /\ DOMAIN conflict' \subseteq ConflictKeys
        /\ \A c \in DOMAIN conflict' : conflict'[c] \in ConflictLease
    <2>1. CASE match' \in [Keys -> Row] /\ conflict' = << >>
      BY <2>1
    <2>2. CASE UNCHANGED <<match, conflict>>
      BY <2>2 DEF TypeInv, TypeOK
    <2> QED BY <2>1, <2>2 DEF Restore
  <1> QED BY <1>1 DEF Restore, TypeInv, TypeOK, ActiveShowsRow, EventHasRow

LEMMA SweepTypeStep == TypeInv /\ SweepExpiredLeases => TypeInv'
  <1> SUFFICES ASSUME TypeInv, SweepExpiredLeases PROVE TypeInv'
    OBVIOUS
  <1>1. /\ agenda' = Swept /\ conflict' = SweptLeases
        /\ UNCHANGED <<maint, match, act, events, executions>>
    BY DEF SweepExpiredLeases
  <1>2. /\ DOMAIN agenda' \subseteq DOMAIN events'
        /\ \A e \in DOMAIN agenda' : agenda'[e] \in Episode
        /\ DOMAIN conflict' \subseteq ConflictKeys
        /\ \A c \in DOMAIN conflict' : conflict'[c] \in ConflictLease
    BY <1>1, SweptType DEF TypeInv, TypeOK
  <1> QED BY <1>1, <1>2 DEF TypeInv, TypeOK, ActiveShowsRow, EventHasRow, maint

LEMMA ClaimTypeStep ==
  ASSUME TypeInv, NEW w \in Workers, NEW e \in DOMAIN agenda, Claim(w, e)
  PROVE  TypeInv'
  <1> DEFINE lease == [c \in {KeyOf(e)} \ {NoConflict} |->
                         [ep |-> e, token |-> Swept[e].minted + 1,
                          expired |-> FALSE]]
  <1>1. /\ agenda' = [Swept EXCEPT ![e] = Claimed(Swept[e], w)]
        /\ conflict' = Insert(SweptLeases, lease)
        /\ UNCHANGED <<maint, match, act, events, executions>>
    BY DEF Claim
  <1>2. /\ DOMAIN Swept = DOMAIN agenda
        /\ \A d \in DOMAIN agenda : Swept[d] \in Episode
    BY SweptType
  <1>3. Claimed(Swept[e], w) \in Episode
    BY <1>2, ClaimedType
  <1>4. /\ DOMAIN lease \subseteq ConflictKeys
        /\ \A c \in DOMAIN lease : lease[c] \in ConflictLease
    <2>1. KeyOf(e) \in ConflictKeys \cup {NoConflict} /\ e \in EpisodeId
      BY KeyOfType DEF TypeInv, TypeOK
    <2>2. Swept[e].minted + 1 \in Nat
      BY <1>2 DEF Episode
    <2> QED BY <2>1, <2>2 DEF ConflictLease
  <1> HIDE DEF lease
  <1>5. /\ DOMAIN agenda' \subseteq DOMAIN events'
        /\ \A d \in DOMAIN agenda' : agenda'[d] \in Episode
    BY <1>1, <1>2, <1>3 DEF TypeInv, TypeOK
  <1>6. /\ DOMAIN SweptLeases \subseteq ConflictKeys
        /\ \A c \in DOMAIN SweptLeases : SweptLeases[c] \in ConflictLease
    BY SweptType DEF TypeInv, TypeOK
  <1>7. /\ DOMAIN conflict' = DOMAIN SweptLeases \cup DOMAIN lease
        /\ \A c \in DOMAIN SweptLeases : conflict'[c] = SweptLeases[c]
        /\ \A c \in DOMAIN lease \ DOMAIN SweptLeases : conflict'[c] = lease[c]
    BY <1>1 DEF Insert
  <1>8. /\ DOMAIN conflict' \subseteq ConflictKeys
        /\ \A c \in DOMAIN conflict' : conflict'[c] \in ConflictLease
    BY <1>4, <1>6, <1>7
  <1> QED BY <1>1, <1>5, <1>8
          DEF TypeInv, TypeOK, ActiveShowsRow, EventHasRow, maint

LEMMA LeaseExpiresTypeStep ==
  ASSUME TypeInv, NEW e \in DOMAIN agenda, LeaseExpires(e)
  PROVE  TypeInv'
  <1>1. [agenda[e] EXCEPT !.expired = TRUE] \in Episode
    BY DEF TypeInv, TypeOK, Episode
  <1>2. agenda' = [agenda EXCEPT ![e] = [agenda[e] EXCEPT !.expired = TRUE]]
    BY DEF LeaseExpires
  <1>3. /\ DOMAIN agenda' = DOMAIN agenda
        /\ \A d \in DOMAIN agenda' : agenda'[d] \in Episode
    BY <1>1, <1>2, OneRowType
  <1>4. \A c \in DOMAIN conflict :
          [conflict[c] EXCEPT !.expired = TRUE] \in ConflictLease
    BY DEF TypeInv, TypeOK, ConflictLease
  <1>5. /\ DOMAIN conflict' = DOMAIN conflict
        /\ \A c \in DOMAIN conflict' : conflict'[c] \in ConflictLease
    BY <1>4 DEF LeaseExpires, TypeInv, TypeOK
  <1> QED BY <1>3, <1>5
          DEF LeaseExpires, TypeInv, TypeOK, ActiveShowsRow, EventHasRow, maint

LEMMA BackoffElapsesTypeStep ==
  ASSUME TypeInv, NEW e \in DOMAIN agenda, BackoffElapses(e)
  PROVE  TypeInv'
  <1>1. [agenda[e] EXCEPT !.due = TRUE] \in Episode
    BY DEF TypeInv, TypeOK, Episode
  <1>2. agenda' = [agenda EXCEPT ![e] = [agenda[e] EXCEPT !.due = TRUE]]
    BY DEF BackoffElapses
  <1>3. /\ DOMAIN agenda' = DOMAIN agenda
        /\ \A d \in DOMAIN agenda' : agenda'[d] \in Episode
    BY <1>1, <1>2, OneRowType
  <1> QED BY <1>3
          DEF BackoffElapses, TypeInv, TypeOK, ActiveShowsRow, EventHasRow, maint

\* Whatever the outcome of an execution is, it is recorded under a token that
\* was given out.
LEMMA OutcomeTypeStep ==
  ASSUME TypeInv, NEW e \in DOMAIN agenda, NEW token \in Nat,
         NEW status \in {"COMPLETED", "FAILED", "RETRY_WAIT", "SKIPPED"},
         Outcome(token, e, status)
  PROVE  TypeInv'
  <1>1. /\ agenda[e] \in Episode /\ e \in EpisodeId
        /\ Released(agenda[e], status) \in Episode
    BY ReleasedType DEF TypeInv, TypeOK, EpisodeStates
  <1>2. agenda' = [agenda EXCEPT ![e] = Released(agenda[e], status)]
    BY DEF Outcome
  <1>3. /\ DOMAIN agenda' = DOMAIN agenda
        /\ \A d \in DOMAIN agenda' : agenda'[d] \in Episode
    BY <1>1, <1>2, OneRowType
  <1>4. executions' \subseteq Execution
    <2>1. [ep |-> e, attempt |-> agenda[e].attempts,
           token |-> token, status |-> status] \in Execution
      BY <1>1 DEF Execution, Episode
    <2> QED BY <2>1 DEF Outcome, TypeInv, TypeOK
  <1>5. /\ DOMAIN conflict' \subseteq ConflictKeys
        /\ \A c \in DOMAIN conflict' : conflict'[c] \in ConflictLease
    BY DEF Outcome, Restrict, TypeInv, TypeOK
  <1> QED BY <1>3, <1>4, <1>5
          DEF Outcome, TypeInv, TypeOK, ActiveShowsRow, EventHasRow, maint

\* Requeue and cancel release one row that holds no lease.
LEMMA RepairTypeStep ==
  ASSUME TypeInv, NEW e \in DOMAIN agenda, Requeue(e) \/ Cancel(e)
  PROVE  TypeInv'
  <1>1. PICK state \in EpisodeStates :
          agenda' = [agenda EXCEPT ![e] = Released(agenda[e], state)]
    BY DEF Requeue, Cancel, EpisodeStates
  <1>2. Released(agenda[e], state) \in Episode
    BY ReleasedType DEF TypeInv, TypeOK
  <1>3. /\ DOMAIN agenda' = DOMAIN agenda
        /\ \A d \in DOMAIN agenda' : agenda'[d] \in Episode
    BY <1>1, <1>2, OneRowType
  <1>4. UNCHANGED <<maint, match, act, events, executions, conflict>>
    BY DEF Requeue, Cancel
  <1> QED BY <1>3, <1>4
          DEF TypeInv, TypeOK, ActiveShowsRow, EventHasRow, maint

LEMMA VersionTypeStep == TypeInv /\ VersionChange => TypeInv'
  <1> SUFFICES ASSUME TypeInv, VersionChange PROVE TypeInv'
    OBVIOUS
  <1>1. ASSUME NEW policy, Replace(policy) PROVE TypeInv'
    <2>1. \A e \in DOMAIN agenda : Released(agenda[e], "CANCELLED") \in Episode
      BY ReleasedType DEF TypeInv, TypeOK, EpisodeStates
    <2>2. /\ DOMAIN agenda' = DOMAIN agenda
          /\ \A e \in DOMAIN agenda' : agenda'[e] \in Episode
      BY <1>1, <2>1 DEF Replace, TypeInv, TypeOK
    <2>3. vstate' \in VersionStates
      BY <1>1 DEF Replace, ChangeVersion, VersionStates
    <2> QED BY <1>1, <2>2, <2>3
            DEF Replace, ChangeVersion, TypeInv, TypeOK, ActiveShowsRow, EventHasRow
  <1>2. CASE Pause \/ Resume \/ Remove
    BY <1>2 DEF Pause, Resume, Remove, ChangeVersion, VersionStates,
                TypeInv, TypeOK, ActiveShowsRow, EventHasRow
  <1> QED BY <1>1, <1>2 DEF VersionChange

\* No step of the specification, a stutter included, leaves TypeInv.
LEMMA TypeStep == TypeInv /\ [Next]_vars => TypeInv'
  <1> SUFFICES ASSUME TypeInv, [Next]_vars PROVE TypeInv'
    OBVIOUS
  <1>1. CASE Run
    BY <1>1, RefreshTypeStep DEF Run
  <1>2. CASE ReleaseCoordinatorLock
    BY <1>2 DEF ReleaseCoordinatorLock,
                TypeInv, TypeOK, ActiveShowsRow, EventHasRow
  <1>3. CASE ClaimSome
    BY <1>3, ClaimTypeStep DEF ClaimSome
  <1>4. CASE SweepExpiredLeases
    BY <1>4, SweepTypeStep
  <1>5. CASE ExecuteSome
    <2>1. PICK w \in Workers, e \in DOMAIN agenda :
            \E token \in 1 .. agenda[e].minted : Execute(w, token, e)
      BY <1>5 DEF ExecuteSome
    <2>2. PICK token \in 1 .. agenda[e].minted : Execute(w, token, e)
      BY <2>1
    <2>3. token \in Nat
      BY DEF TypeInv, TypeOK, Episode
    <2>4. PICK status \in {"COMPLETED", "FAILED", "RETRY_WAIT", "SKIPPED"} :
            Outcome(token, e, status)
      BY <2>2 DEF Execute, Complete, Skip, Retry, Fail
    <2> QED BY <2>3, <2>4, OutcomeTypeStep
  <1>6. CASE BackoffSome
    BY <1>6, BackoffElapsesTypeStep DEF BackoffSome
  <1>7. CASE \E e \in DOMAIN agenda : LeaseExpires(e)
    BY <1>7, LeaseExpiresTypeStep
  <1>8. CASE CoordinatedRefresh
    <2>1. CASE BeginRefresh
      BY <2>1 DEF BeginRefresh, TypeInv, TypeOK, ActiveShowsRow, EventHasRow
    <2>2. CASE RefreshRule
      BY <2>2, RefreshTypeStep DEF RefreshRule
    <2>3. CASE ClearRefreshBarrier
      BY <2>3 DEF ClearRefreshBarrier,
                  TypeInv, TypeOK, ActiveShowsRow, EventHasRow
    <2> QED BY <1>8, <2>1, <2>2, <2>3 DEF CoordinatedRefresh
  <1>9. CASE Recovery
    <2>1. CASE BeginReconciliation
      BY <2>1 DEF BeginReconciliation,
                  TypeInv, TypeOK, ActiveShowsRow, EventHasRow
    <2> QED BY <1>9, <2>1, RestoreTypeStep, ReconcileTypeStep DEF Recovery
  <1>10. CASE VersionChange
    BY <1>10, VersionTypeStep
  <1>11. CASE Repair
    BY <1>11, RepairTypeStep DEF Repair
  <1>12. CASE UNCHANGED vars
    BY <1>12 DEF vars, TypeInv, TypeOK, ActiveShowsRow, EventHasRow
  <1> QED BY <1>1, <1>2, <1>3, <1>4, <1>5, <1>6, <1>7, <1>8, <1>9, <1>10,
             <1>11, <1>12 DEF Next

\* What makes TypeOK inductive: an active key shows its row, and an event has
\* old or new bindings.
THEOREM TypeInvariant == Spec => []TypeInv
  BY InitType, TypeStep, PTL DEF Spec

\* Every table of a rule version only ever holds rows of its type, and every
\* episode and attempt belongs to a recorded lifecycle event of a known key.
THEOREM TypeCorrect == Spec => []TypeOK
  BY TypeInvariant, PTL DEF TypeInv
=============================================================================
