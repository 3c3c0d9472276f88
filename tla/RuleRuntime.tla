---------------------------- MODULE RuleRuntime ----------------------------
(***************************************************************************)
(* The durable runtime of one rule version: the match relation maintained  *)
(* by pg_trickle, the activation state and lifecycle events the delta      *)
(* triggers derive from it, the agenda of episodes that workers claim,     *)
(* lease and execute, the claim barrier and coordinator lock that keep     *)
(* workers and maintenance apart, and the operator's repair actions.       *)
(*                                                                         *)
(* An action is one committed PostgreSQL transaction, or one step of the   *)
(* environment (a lease running out, a back-off elapsing, a session lost,  *)
(* a logical restore).  A call that raises changes nothing and is no       *)
(* action.  Time is abstracted to two flags of an agenda row: `expired'    *)
(* (lease_expires_at has passed) and `due' (available_at has passed).      *)
(* Which due episode a claim picks is left open; the selection order is    *)
(* not part of this module.                                                *)
(***************************************************************************)
EXTENDS Naturals, FiniteSets, Functions

CONSTANTS
  Keys,            \* semantic keys of the match relation
  Values,          \* match rows (bindings) a key may have
  Absent,          \* no row / SQL NULL bindings
  Watched,         \* [Values -> projection]: the change_columns of a row
  ConflictKeys,    \* conflict keys a row may have
  NoConflict,      \* the NULL conflict key
  ConflictKey,     \* [Values -> ConflictKeys \cup {NoConflict}]
  Workers,         \* worker ids
  NoWorker,        \* NULL worker id
  Bound,           \* event kinds with a consequence binding
  EmissionModes,   \* reconcile_rule modes the operator uses
  Procedures,      \* the operator procedures that take place (see Next)
  MaxAttempts,     \* consequence_bindings.max_attempts
  MaxPending,      \* operational_settings.max_pending_per_rule
  GroupLimit,      \* agenda_group_limits.max_leases of the version's group
  MaxGeneration,   \* bound: generations a key goes through
  MaxRevision      \* bound: revisions of a generation

Kinds == {"ACTIVATE", "CHANGE", "DEACTIVATE"}

\* The keys that ever occur: in any history so far they are finitely many.
ASSUME KeysAssumption == IsFiniteSet(Keys)
ASSUME ValuesAssumption == Absent \notin Values
ASSUME ConflictAssumption ==
  /\ NoConflict \notin ConflictKeys
  /\ ConflictKey \in [Values -> ConflictKeys \cup {NoConflict}]
ASSUME WorkersAssumption == NoWorker \notin Workers
ASSUME BoundAssumption == Bound \subseteq Kinds
ASSUME ModesAssumption ==
  EmissionModes \subseteq {"STATE_ONLY", "EMIT_MISSING_EVENTS"}
ASSUME ProceduresAssumption ==
  Procedures \subseteq {"REFRESH", "REFRESH_OVER_RECOVERY", "RECOVERY",
                        "VERSION", "REPAIR"}
ASSUME LimitsAssumption ==
  /\ MaxAttempts \in Nat \ {0} /\ MaxPending \in Nat \ {0}
  /\ GroupLimit \in Nat \ {0}
  /\ MaxGeneration \in Nat /\ MaxRevision \in Nat

VARIABLES
  vstate,      \* rule_versions.state
  dropped,     \* has remove_rule dropped the match stream table?
  barrier,     \* rule_barriers row of the version: its reason, or NONE
  coord,       \* the session that holds the coordinator lock, if any
  match,       \* the match relation: one row or none per key
  act,         \* activation_state
  events,      \* lifecycle_events: identity -> old and new bindings
  agenda,      \* agenda: identity of the event -> the episode's row
  executions,  \* executions: the append-only attempt history
  conflict     \* conflict_leases: conflict key -> the lease that holds it

maint == <<vstate, dropped, barrier, coord>>
vars == <<vstate, dropped, barrier, coord, match, act, events, agenda,
          executions, conflict>>

(***************************************************************************)
(* Tables.                                                                 *)
(***************************************************************************)
VersionStates == {"ACTIVE", "PAUSED", "DRAINING", "REMOVED"}
EpisodeStates == {"PENDING", "LEASED", "RETRY_WAIT", "COMPLETED", "FAILED",
                  "SKIPPED", "WITHDRAWN", "CANCELLED"}
Waiting == {"PENDING", "RETRY_WAIT"}
Unsettled == Waiting \cup {"LEASED"}

\* The identity constraint of lifecycle_events, and so of agenda rows.
EpisodeId == [key : Keys, gen : Nat, kind : Kinds, rev : Nat]
Row == Values \cup {Absent}
Activation == [active : BOOLEAN, gen : Nat, rev : Nat,
               bindings : Row, last : Row]
\* `token' stands for the random lease_token: minted never repeats one.
Episode == [state : EpisodeStates, worker : Workers \cup {NoWorker},
            token : Nat, minted : Nat, attempts : Nat,
            expired : BOOLEAN, due : BOOLEAN]
Execution == [ep : EpisodeId, attempt : Nat, token : Nat,
              status : {"COMPLETED", "FAILED", "RETRY_WAIT", "SKIPPED"}]
ConflictLease == [ep : EpisodeId, token : Nat, expired : BOOLEAN]

NoActivation == [active |-> FALSE, gen |-> 0, rev |-> 0,
                 bindings |-> Absent, last |-> Absent]
NewEpisode == [state |-> "PENDING", worker |-> NoWorker, token |-> 0,
               minted |-> 0, attempts |-> 0, expired |-> FALSE, due |-> TRUE]

\* An episode's row after its lease, if any, is given up.
Released(job, state) ==
  [job EXCEPT !.state = state, !.worker = NoWorker, !.token = 0,
              !.expired = FALSE, !.due = (state = "PENDING")]

\* An episode's row once a worker leases it, under a token nobody has seen.
Claimed(job, w) ==
  [job EXCEPT !.state = "LEASED", !.worker = w, !.token = job.minted + 1,
              !.minted = @ + 1, !.attempts = @ + 1]

\* A table with rows added to it; a key that is there keeps its row.
Insert(table, rows) ==
  [x \in DOMAIN table \cup DOMAIN rows |->
     IF x \in DOMAIN table THEN table[x] ELSE rows[x]]

Open(ag) == {e \in DOMAIN ag : ag[e].state \in Unsettled}

\* The conflict key of an episode: COALESCE(new_bindings, old_bindings).
KeyOf(e) == ConflictKey[IF events[e].new # Absent THEN events[e].new
                        ELSE events[e].old]

(***************************************************************************)
(* The final-state lifecycle of one key.                                   *)
(***************************************************************************)
\* pgreact_internal.watched_changed
WatchedChanged(previous, current) ==
  previous = Absent \/ Watched[previous] # Watched[current]


\* Fault: a key that is matched again goes on with its old generation.
FinalizedSameGeneration(st, row) ==
  CASE row # Absent /\ ~st.active ->
         [active |-> TRUE, gen |-> IF st.gen = 0 THEN 1 ELSE st.gen, rev |-> 0,
          bindings |-> row, last |-> row]
    [] row # Absent /\ st.active ->
         [st EXCEPT !.bindings = row, !.last = row,
                    !.rev = IF WatchedChanged(st.bindings, row)
                            THEN @ + 1 ELSE @]
    [] row = Absent /\ st.active ->
         [st EXCEPT !.active = FALSE, !.bindings = Absent]
    [] OTHER -> st

\* Fault: the generation is counted when it ends as well as when it begins.
FinalizedCountingEnds(st, row) ==
  CASE row # Absent /\ ~st.active ->
         [active |-> TRUE, gen |-> st.gen + 1, rev |-> 0,
          bindings |-> row, last |-> row]
    [] row # Absent /\ st.active ->
         [st EXCEPT !.bindings = row, !.last = row,
                    !.rev = IF WatchedChanged(st.bindings, row)
                            THEN @ + 1 ELSE @]
    [] row = Absent /\ st.active ->
         [st EXCEPT !.active = FALSE, !.gen = @ + 1, !.bindings = Absent]
    [] OTHER -> st

\* finalize_match_delta: the activation row a key's final match row leads to.
Finalized(st, row) ==
  CASE row # Absent /\ ~st.active ->
         [active |-> TRUE, gen |-> st.gen + 1, rev |-> 0,
          bindings |-> row, last |-> row]
    [] row # Absent /\ st.active ->
         [st EXCEPT !.bindings = row, !.last = row,
                    !.rev = IF WatchedChanged(st.bindings, row)
                            THEN @ + 1 ELSE @]
    [] row = Absent /\ st.active ->
         [st EXCEPT !.active = FALSE, !.bindings = Absent]
    [] OTHER -> st


\* Fault: only keys that are still matched are compared.
ReconciledWherePresent(st, row) ==
  IF row = Absent \/ (st.active /\ ~WatchedChanged(st.bindings, row))
  THEN st ELSE Finalized(st, row)

\* reconcile_rule: as above, but an active row whose watched columns still
\* agree with the match row is left alone, its other columns included.
Reconciled(st, row) ==
  IF st.active /\ row # Absent /\ ~WatchedChanged(st.bindings, row)
  THEN st ELSE Finalized(st, row)

\* The lifecycle event of a step of one activation row, if there is one.
Transition(st, nx) ==
  CASE ~st.active /\ nx.active -> "ACTIVATE"
    [] st.active /\ ~nx.active -> "DEACTIVATE"
    [] st.active /\ nx.active /\ st.rev # nx.rev -> "CHANGE"
    [] OTHER -> "NOOP"


\* Fault: an event is numbered with the revision before the step.
EventOfBefore(k, st, nx) ==
  [key |-> k, gen |-> nx.gen, kind |-> Transition(st, nx),
   rev |-> IF nx.active THEN st.rev ELSE 0]

EventOf(k, st, nx) ==
  [key |-> k, gen |-> nx.gen, kind |-> Transition(st, nx),
   rev |-> IF nx.active THEN nx.rev ELSE 0]


\* Fault: keys whose lifecycle makes no step are not left out.
EmittedForEveryKey(nx) ==
  [e \in {EventOf(k, act[k], nx[k]) : k \in Keys} |->
     [old |-> IF e.kind = "ACTIVATE" THEN Absent ELSE act[e.key].last,
      new |-> nx[e.key].bindings]]

\* The events emitted when the activation rows step to nx, with the old and
\* new bindings each carries.
Emitted(nx) ==
  LET changed == {k \in Keys : Transition(act[k], nx[k]) # "NOOP"}
  IN [e \in {EventOf(k, act[k], nx[k]) : k \in changed} |->
        [old |-> CASE e.kind = "ACTIVATE" -> Absent
                   [] e.kind = "CHANGE" -> act[e.key].bindings
                   [] OTHER -> act[e.key].last,
         new |-> nx[e.key].bindings]]

\* emit_event: an event whose identity exists is not recorded again and gets
\* no second episode; a new one gets an episode when its kind is bound.
NewJobs(emitted) ==
  {e \in DOMAIN emitted \ DOMAIN events : e.kind \in Bound}

\* emit_event's back-pressure: in every order the transaction may process the
\* keys in, some new episode finds max_pending open ones before it.  (An order
\* that raises although another would not is an abort, and changes nothing.)
Overloaded(ag, emitted) ==
  /\ NewJobs(emitted) # {}
  /\ Cardinality(Open(ag)) + Cardinality(NewJobs(emitted)) > MaxPending

Emit(ag, emitted) ==
  /\ ~Overloaded(ag, emitted)
  /\ events' = Insert(events, emitted)
  /\ agenda' = Insert(ag, [e \in NewJobs(emitted) |-> NewEpisode])

\* finalize_match_delta: the unleased ACTIVATE episodes of a generation that
\* ends are withdrawn before its DEACTIVATE event is emitted.
Withdrawn(nx) ==
  [e \in DOMAIN agenda |->
     IF /\ e.kind = "ACTIVATE" /\ agenda[e].state \in Waiting
        /\ Transition(act[e.key], nx[e.key]) = "DEACTIVATE"
        /\ e.gen = act[e.key].gen
     THEN Released(agenda[e], "WITHDRAWN") ELSE agenda[e]]

WithinBounds(nx) ==
  \A k \in Keys : nx[k].gen <= MaxGeneration /\ nx[k].rev <= MaxRevision

(***************************************************************************)
(* Refresh: pg_trickle brings the match relation up to date, the row       *)
(* trigger buffers the keys whose rows changed and the deferred trigger    *)
(* finalizes them, all in one transaction.                                 *)
(***************************************************************************)
Refresh(rows) ==
  LET nx == [k \in Keys |-> IF rows[k] = match[k] THEN act[k]
                            ELSE Finalized(act[k], rows[k])]
  IN /\ WithinBounds(nx)
     /\ match' = rows
     /\ act' = nx
     /\ Emit(Withdrawn(nx), Emitted(nx))
     /\ UNCHANGED <<executions, conflict>>

\* pgreact_api.run: takes the coordinator lock for its transaction, refuses
\* to start over any barrier and refreshes versions that are ACTIVE.
Run ==
  /\ coord = "NONE" /\ barrier = "NONE"
  /\ vstate = "ACTIVE" /\ ~dropped
  /\ \E rows \in [Keys -> Row] : Refresh(rows)
  /\ UNCHANGED maint

\* pgreact.begin_refresh: takes the lock for the session and commits the
\* barrier, over whatever barrier there was.  An operator who does not begin a
\* refresh while a recovery is due lacks the procedure REFRESH_OVER_RECOVERY.
BeginRefresh ==
  /\ coord = "NONE"
  /\ barrier = "RECONCILING" => "REFRESH_OVER_RECOVERY" \in Procedures
  /\ coord' = "REFRESHING"
  /\ barrier' = "REFRESHING"
  /\ UNCHANGED <<vstate, dropped, match, act, events, agenda, executions,
                 conflict>>

\* pgreact.refresh_rule, called by the session that began the refresh.
RefreshRule ==
  /\ coord = "REFRESHING" /\ ~dropped
  /\ \E rows \in [Keys -> Row] : Refresh(rows)
  /\ UNCHANGED maint

\* pgreact.clear_refresh_barrier
ClearRefreshBarrier ==
  /\ coord = "REFRESHING" /\ barrier = "REFRESHING"
  /\ barrier' = "NONE"
  /\ UNCHANGED <<vstate, dropped, coord, match, act, events, agenda,
                 executions, conflict>>

\* pgreact.release_refresh_lock, or the loss of the session that held it: the
\* lock is gone either way and a committed barrier stays.
ReleaseCoordinatorLock ==
  /\ coord # "NONE"
  /\ coord' = "NONE"
  /\ UNCHANGED <<vstate, dropped, barrier, match, act, events, agenda,
                 executions, conflict>>

(***************************************************************************)
(* Recovery.                                                               *)
(***************************************************************************)
\* A restore, and prepare_recovery's barrier on the version before any worker
\* starts.  A physical restore keeps every table.  A logical one rebuilds the
\* match relation from the restored sources without firing the triggers
\* (external); of this module's tables the dump lacks conflict_leases.
Restore ==
  /\ coord = "NONE" /\ ~dropped
  /\ vstate \in {"ACTIVE", "DRAINING", "PAUSED"}
  /\ \/ match' \in [Keys -> Row] /\ conflict' = << >>
     \/ UNCHANGED <<match, conflict>>
  /\ barrier' = "RECONCILING"
  /\ UNCHANGED <<vstate, dropped, coord, act, events, agenda, executions>>

\* pgreact.begin_reconciliation
BeginReconciliation ==
  /\ coord = "NONE"
  /\ coord' = "RECONCILING"
  /\ barrier' = "RECONCILING"
  /\ UNCHANGED <<vstate, dropped, match, act, events, agenda, executions,
                 conflict>>

\* pgreact.reconcile_rule: brings every activation row to the match relation,
\* emits the events it implies in one of its modes only, withdraws nothing,
\* and lifts the barrier.
ReconcileRule(mode) ==
  LET nx == [k \in Keys |-> Reconciled(act[k], match[k])]
  IN /\ coord \in {"NONE", "RECONCILING"}
     /\ barrier = "RECONCILING" /\ ~dropped
     /\ WithinBounds(nx)
     /\ act' = nx
     /\ IF mode = "EMIT_MISSING_EVENTS" THEN Emit(agenda, Emitted(nx))
        ELSE UNCHANGED <<events, agenda>>
     /\ barrier' = "NONE"
     /\ UNCHANGED <<vstate, dropped, coord, match, executions, conflict>>

(***************************************************************************)
(* Claims.  Claims and executions of a version are serialized by the       *)
(* version's advisory lock and kept out by the coordinator lock, which     *)
(* they take shared.                                                       *)
(***************************************************************************)
\* sweep_expired_leases: every expired lease of the version is reclaimed, its
\* attempt stays counted and its conflict lease goes with it.
Expired == {e \in DOMAIN agenda : agenda[e].state = "LEASED" /\ agenda[e].expired}

Swept == [e \in DOMAIN agenda |->
            IF e \in Expired THEN Released(agenda[e], "PENDING") ELSE agenda[e]]


\* Fault: the conflict leases of reclaimed episodes are kept.
SweptLeasesKept == conflict

SweptLeases ==
  Restrict(conflict, {c \in DOMAIN conflict : conflict[c].ep \notin Expired})

SweepExpiredLeases ==
  /\ Expired # {}
  /\ agenda' = Swept
  /\ conflict' = SweptLeases
  /\ UNCHANGED <<maint, match, act, events, executions>>

\* The episodes claim_episode may select once it has swept.
Claimable ==
  {e \in DOMAIN Swept :
     /\ Swept[e].state \in Waiting /\ Swept[e].due
     /\ KeyOf(e) \notin DOMAIN SweptLeases}

Leased(ag) == {e \in DOMAIN ag : ag[e].state = "LEASED" /\ ~ag[e].expired}

\* pgreact.claim_episode: sweep, refuse under a barrier, select, check the
\* group's budget, lease the episode and take the conflict lease with it.
Claim(w, e) ==
  /\ coord = "NONE" /\ barrier = "NONE"
  /\ vstate \in {"ACTIVE", "DRAINING"}
  /\ e \in Claimable
  /\ Cardinality(Leased(Swept)) < GroupLimit
  /\ agenda' = [Swept EXCEPT ![e] = Claimed(@, w)]
  /\ conflict' = Insert(SweptLeases,
                        [c \in {KeyOf(e)} \ {NoConflict} |->
                           [ep |-> e, token |-> Swept[e].minted + 1,
                            expired |-> FALSE]])
  /\ UNCHANGED <<maint, match, act, events, executions>>

\* The lease of an episode runs out; heartbeats only postpone it.  A conflict
\* lease has the expiry of the lease it was taken with.  Nothing limits how often
\* this happens to an episode: the sweep asks for no attempt limit.
LeaseExpires(e) ==
  /\ agenda[e].state = "LEASED" /\ ~agenda[e].expired
  /\ agenda' = [agenda EXCEPT ![e].expired = TRUE]
  /\ conflict' = [c \in DOMAIN conflict |->
                    IF conflict[c].ep = e /\ conflict[c].token = agenda[e].token
                    THEN [conflict[c] EXCEPT !.expired = TRUE]
                    ELSE conflict[c]]
  /\ UNCHANGED <<maint, match, act, events, executions>>

\* available_at of an episode in RETRY_WAIT is reached.
BackoffElapses(e) ==
  /\ agenda[e].state = "RETRY_WAIT" /\ ~agenda[e].due
  /\ agenda' = [agenda EXCEPT ![e].due = TRUE]
  /\ UNCHANGED <<maint, match, act, events, executions, conflict>>

(***************************************************************************)
(* Execution of a claimed episode.                                         *)
(***************************************************************************)

\* Fault: the token is not compared.
HoldsByWorker(w, token, e) ==
  /\ agenda[e].state = "LEASED"
  /\ agenda[e].worker = w

\* The caller's worker id and token are those of the episode's lease; any
\* other call raises "lease is no longer valid" and changes nothing.
Holds(w, token, e) ==
  /\ agenda[e].state = "LEASED"
  /\ agenda[e].worker = w
  /\ agenda[e].token = token


\* Fault: the barrier is not looked at again.
EligibleOverBarrier(e) ==
  LET st == act[e.key]
  IN /\ vstate \in {"ACTIVE", "DRAINING"}
     /\ CASE e.kind = "ACTIVATE" -> st.active /\ st.gen = e.gen
          [] e.kind = "CHANGE" ->
               st.active /\ st.gen = e.gen /\ st.rev = e.rev
          [] OTHER -> ~(st.active /\ st.gen > e.gen)

\* Fault: any generation of an active key will do.
EligibleWhileActive(e) ==
  LET st == act[e.key]
  IN /\ barrier = "NONE"
     /\ vstate \in {"ACTIVE", "DRAINING"}
     /\ CASE e.kind = "ACTIVATE" -> st.active
          [] e.kind = "CHANGE" -> st.active /\ st.rev = e.rev
          [] OTHER -> ~(st.active /\ st.gen > e.gen)

\* The recheck against the state the episode's event was derived from.
Eligible(e) ==
  LET st == act[e.key]
  IN /\ barrier = "NONE"
     /\ vstate \in {"ACTIVE", "DRAINING"}
     /\ CASE e.kind = "ACTIVATE" -> st.active /\ st.gen = e.gen
          [] e.kind = "CHANGE" ->
               st.active /\ st.gen = e.gen /\ st.rev = e.rev
          [] OTHER -> ~(st.active /\ st.gen > e.gen)

\* Every outcome appends the attempt, gives up the lease and deletes the
\* conflict lease taken with this token.  (executions is unique on episode and
\* attempt; SettledOnce shows that the constraint is never hit.)
Outcome(token, e, status) ==
  /\ executions' = executions \cup
       {[ep |-> e, attempt |-> agenda[e].attempts,
         token |-> token, status |-> status]}
  /\ agenda' = [agenda EXCEPT ![e] = Released(@, status)]
  /\ conflict' = Restrict(conflict,
       {c \in DOMAIN conflict :
          ~(conflict[c].ep = e /\ conflict[c].token = token)})
  /\ UNCHANGED <<maint, match, act, events>>

\* The consequence ran and its effects commit with the outcome.
Complete(w, token, e) ==
  /\ coord = "NONE" /\ Holds(w, token, e)
  /\ ~agenda[e].expired /\ Eligible(e)
  /\ Outcome(token, e, "COMPLETED")

Skip(w, token, e) ==
  /\ coord = "NONE" /\ Holds(w, token, e)
  /\ ~agenda[e].expired /\ ~Eligible(e)
  /\ Outcome(token, e, "SKIPPED")

\* The lease had expired when the execution started, or the consequence (or
\* a drift check) raised and was rolled back.
Raised(e) == agenda[e].expired \/ Eligible(e)

Retry(w, token, e) ==
  /\ coord = "NONE" /\ Holds(w, token, e)
  /\ Raised(e) /\ agenda[e].attempts < MaxAttempts
  /\ Outcome(token, e, "RETRY_WAIT")

\* Attempts are exhausted, or the error class is one that is never retried
\* (which an expired lease does not have).
Fail(w, token, e) ==
  /\ coord = "NONE" /\ Holds(w, token, e)
  /\ Raised(e) /\ (agenda[e].expired => agenda[e].attempts >= MaxAttempts)
  /\ Outcome(token, e, "FAILED")

Execute(w, token, e) ==
  \/ Complete(w, token, e) \/ Skip(w, token, e)
  \/ Retry(w, token, e) \/ Fail(w, token, e)

(***************************************************************************)
(* Operator repair and the version's own lifecycle.                        *)
(***************************************************************************)
\* pgreact.requeue_episode: the attempts already made stay counted.
Requeue(e) ==
  /\ agenda[e].state \in {"FAILED", "CANCELLED", "WITHDRAWN"}
  /\ agenda' = [agenda EXCEPT ![e] = Released(@, "PENDING")]
  /\ UNCHANGED <<maint, match, act, events, executions, conflict>>


\* Fault: leased episodes are cancelled too.
CancelLeased(e) ==
  /\ agenda[e].state \in Unsettled
  /\ agenda' = [agenda EXCEPT ![e] = Released(@, "CANCELLED")]
  /\ UNCHANGED <<maint, match, act, events, executions, conflict>>

\* pgreact.cancel_episode
Cancel(e) ==
  /\ agenda[e].state \in Waiting
  /\ agenda' = [agenda EXCEPT ![e] = Released(@, "CANCELLED")]
  /\ UNCHANGED <<maint, match, act, events, executions, conflict>>

ChangeVersion(state) ==
  /\ vstate' = state
  /\ UNCHANGED <<barrier, coord, match, act, events, executions, conflict>>

\* pgreact.pause_rule: from any state, and under no lock.
Pause ==
  /\ vstate # "PAUSED"
  /\ ChangeVersion("PAUSED") /\ UNCHANGED <<dropped, agenda>>

\* pgreact.resume_rule
Resume ==
  /\ barrier = "NONE" /\ vstate = "PAUSED"
  /\ ChangeVersion("ACTIVE") /\ UNCHANGED <<dropped, agenda>>

\* pgreact.replace_rule, as seen by the version it replaces.
Replace(policy) ==
  LET ag == [e \in DOMAIN agenda |->
               IF policy = "CANCEL_OLD" /\ agenda[e].state \in Waiting
               THEN Released(agenda[e], "CANCELLED") ELSE agenda[e]]
  IN /\ vstate \in {"ACTIVE", "PAUSED"}
     /\ agenda' = ag
     /\ ChangeVersion(IF Open(ag) # {} THEN "DRAINING" ELSE "REMOVED")
     /\ UNCHANGED dropped


\* Fault: leased episodes are not looked for.
RemoveUnderLease ==
  /\ vstate = "PAUSED" /\ ~dropped
  /\ \A e \in DOMAIN agenda : agenda[e].state # "PENDING"
  /\ dropped' = TRUE
  /\ ChangeVersion("REMOVED") /\ UNCHANGED agenda

\* pgreact.remove_rule
Remove ==
  /\ vstate = "PAUSED" /\ ~dropped
  /\ \A e \in DOMAIN agenda : agenda[e].state \notin {"PENDING", "LEASED"}
  /\ dropped' = TRUE
  /\ ChangeVersion("REMOVED") /\ UNCHANGED agenda

(***************************************************************************)
(* The specification.                                                      *)
(***************************************************************************)
\* create_rule: the match relation is populated and, under SEED_CURRENT, its
\* rows start their first generation without an event.
Init ==
  /\ vstate = "ACTIVE" /\ dropped = FALSE
  /\ barrier = "NONE" /\ coord = "NONE"
  /\ match \in [Keys -> Row]
  /\ act = [k \in Keys |-> IF match[k] = Absent THEN NoActivation
              ELSE [active |-> TRUE, gen |-> 1, rev |-> 0,
                    bindings |-> match[k], last |-> match[k]]]
  /\ events = << >> /\ agenda = << >>
  /\ executions = {} /\ conflict = << >>

ClaimSome == \E w \in Workers, e \in DOMAIN agenda : Claim(w, e)

\* A worker may present any token it was ever given, however old.
ExecuteSome ==
  \E w \in Workers, e \in DOMAIN agenda :
    \E token \in 1 .. agenda[e].minted : Execute(w, token, e)

BackoffSome == \E e \in DOMAIN agenda : BackoffElapses(e)

CoordinatedRefresh == BeginRefresh \/ RefreshRule \/ ClearRefreshBarrier

Recovery ==
  \/ Restore \/ BeginReconciliation
  \/ \E mode \in EmissionModes : ReconcileRule(mode)

VersionChange ==
  \/ Pause \/ Resume \/ Remove
  \/ \E policy \in {"DRAIN_OLD", "CANCEL_OLD"} : Replace(policy)

Repair == \E e \in DOMAIN agenda : Requeue(e) \/ Cancel(e)

\* Automatic work always goes on; which of the operator's procedures happen,
\* in any order and at any moment, is the instance's choice.
Next ==
  \/ Run \/ ReleaseCoordinatorLock
  \/ ClaimSome \/ SweepExpiredLeases \/ ExecuteSome
  \/ BackoffSome \/ \E e \in DOMAIN agenda : LeaseExpires(e)
  \/ "REFRESH" \in Procedures /\ CoordinatedRefresh
  \/ "RECOVERY" \in Procedures /\ Recovery
  \/ "VERSION" \in Procedures /\ VersionChange
  \/ "REPAIR" \in Procedures /\ Repair

Spec == Init /\ [][Next]_vars

\* pg-reactd and the managed cycle claim, and execute what they claimed, in a
\* loop; a claim sweeps before it selects; time passes.
Fairness ==
  /\ WF_vars(ClaimSome) /\ WF_vars(SweepExpiredLeases)
  /\ WF_vars(ExecuteSome) /\ WF_vars(BackoffSome)

FairSpec == Spec /\ Fairness

-----------------------------------------------------------------------------
(***************************************************************************)
(* Properties.                                                             *)
(***************************************************************************)
\* Every table holds rows of its type; events and episodes are keyed by the
\* identity of a lifecycle event, and only recorded events have an episode.
TypeOK ==
  /\ vstate \in VersionStates /\ dropped \in BOOLEAN
  /\ barrier \in {"NONE", "REFRESHING", "RECONCILING"}
  /\ coord \in {"NONE", "REFRESHING", "RECONCILING"}
  /\ match \in [Keys -> Row]
  /\ act \in [Keys -> Activation]
  /\ DOMAIN events \subseteq EpisodeId
  /\ \A e \in DOMAIN events : events[e] \in [old : Row, new : Row]
  /\ DOMAIN agenda \subseteq DOMAIN events
  /\ \A e \in DOMAIN agenda : agenda[e] \in Episode
  /\ executions \subseteq Execution
  /\ DOMAIN conflict \subseteq ConflictKeys
  /\ \A c \in DOMAIN conflict : conflict[c] \in ConflictLease

\* Each claim of an episode ends in at most one recorded attempt, so the
\* unique key of executions is never hit and a worker that lost its lease
\* records nothing; a consequence commits, or is found stale, at most once,
\* and an episode in a final state got there by exactly that attempt.
SettledOnce ==
  /\ \A x, y \in executions :
       x.ep = y.ep /\ (x.attempt = y.attempt \/ x.token = y.token) => x = y
  /\ \A x \in executions :
       x.status \in {"COMPLETED", "SKIPPED"} => agenda[x.ep].state = x.status
  /\ \A e \in DOMAIN agenda :
       agenda[e].state \in {"COMPLETED", "SKIPPED"} =>
         \E x \in executions : x.ep = e /\ x.status = agenda[e].state

\* Two leased episodes never share a conflict key, even when one of the leases
\* has expired.
OneLeasePerConflictKey ==
  \A d, e \in DOMAIN agenda :
    /\ agenda[d].state = "LEASED" /\ agenda[e].state = "LEASED"
    /\ KeyOf(d) = KeyOf(e) /\ KeyOf(d) # NoConflict
    => d = e

\* Work is serialized by conflict key, and a conflict lease is there exactly
\* while the episode it was taken for holds its lease, under the same token and
\* with the same expiry, so that nothing blocks a key that nobody works on.
ConflictExclusion ==
  /\ OneLeasePerConflictKey
  /\ \A c \in DOMAIN conflict :
       LET job == agenda[conflict[c].ep]
       IN /\ KeyOf(conflict[c].ep) = c
          /\ job.state = "LEASED" /\ job.token = conflict[c].token
          /\ job.expired = conflict[c].expired
  /\ \A e \in DOMAIN agenda :
       agenda[e].state = "LEASED" /\ KeyOf(e) # NoConflict
         => KeyOf(e) \in DOMAIN conflict

\* Whatever mix of refreshes, restores and reconciliations produced them, the
\* events of a key tell one coherent story: no event is ahead of the key's
\* generation and revision, a generation that ended did so once it was no
\* longer active, and each CHANGE starts from the watched value its
\* predecessor left.
HistoryCoherent ==
  \A e \in DOMAIN events :
    LET st == act[e.key]
        before == [e EXCEPT !.rev = @ - 1,
                            !.kind = IF e.rev = 1 THEN "ACTIVATE" ELSE "CHANGE"]
    IN /\ e.gen \in 1 .. st.gen
       /\ e.kind = "CHANGE" /\ e.gen = st.gen => e.rev \in 1 .. st.rev
       /\ e.kind = "DEACTIVATE" /\ e.gen = st.gen => ~st.active
       /\ e.kind = "CHANGE" /\ before \in DOMAIN events =>
            Watched[events[e].old] = Watched[events[before].new]

\* When every reconciliation emits missing events, no transition is ever
\* without its event: each generation after a seeded first one was announced,
\* each ended generation was closed, and revisions have no gaps.
HistoryComplete ==
  \A k \in Keys :
    LET recorded(g, kind, r) ==
          [key |-> k, gen |-> g, kind |-> kind, rev |-> r] \in DOMAIN events
    IN /\ \A g \in 2 .. act[k].gen : recorded(g, "ACTIVATE", 0)
       /\ \A g \in 1 .. act[k].gen :
            g < act[k].gen \/ ~act[k].active => recorded(g, "DEACTIVATE", 0)
       /\ \A r \in 1 .. act[k].rev : recorded(act[k].gen, "CHANGE", r)
       /\ \A e \in DOMAIN events : e.key = k /\ e.kind = "CHANGE" /\ e.rev > 1
            => recorded(e.gen, "CHANGE", e.rev - 1)

\* While no barrier stands, the activation state is the match relation: a key
\* is active exactly when it is matched, with the watched columns it matched
\* with.  Restores break this and reconciliation mends it, under a barrier.
StateMirrorsMatch ==
  barrier = "NONE" /\ ~dropped =>
    \A k \in Keys :
      /\ act[k].active <=> match[k] # Absent
      /\ act[k].active => Watched[act[k].bindings] = Watched[match[k]]

\* While no barrier stands, an active key shows the row it currently matches,
\* the columns nobody watches included.
LatestBindings ==
  barrier = "NONE" /\ ~dropped =>
    \A k \in Keys : act[k].active => act[k].bindings = match[k]

\* A removed version has no episode left that a worker should still run.
RemovedIsDrained == vstate = "REMOVED" => Open(agenda) = {}

\* What a removal does leave: unless an operator requeues, a version whose
\* relation is dropped has no open work but what waits for a retry, so no lease
\* is still held against it, whatever paused, resumed or replaced it after that.
OnlyRetriesRemain ==
  dropped /\ vstate = "REMOVED" =>
    \A e \in Open(agenda) : agenda[e].state = "RETRY_WAIT"

\* The episodes completed by a step.
CompletedNow ==
  {x.ep : x \in {y \in executions' \ executions : y.status = "COMPLETED"}}

\* A consequence commits only while the match relation itself still supports
\* it: the row of an ACTIVATE is still matched, the watched columns of a
\* CHANGE still are what the event reported.
EffectsMatchRelation ==
  [][\A e \in CompletedNow :
       /\ e.kind # "DEACTIVATE" => match[e.key] # Absent
       /\ e.kind = "CHANGE" =>
            Watched[match[e.key]] = Watched[events[e].new]]_vars

\* Consequences of one key are never applied backwards: once an effect of a
\* generation has committed, no ACTIVATE or CHANGE of an older generation does,
\* no CHANGE of an older revision, and no ACTIVATE after its own DEACTIVATE.
EffectsInOrder ==
  [][\A e \in CompletedNow : \A x \in executions :
       x.status = "COMPLETED" /\ x.ep.key = e.key =>
         /\ e.kind # "DEACTIVATE" => x.ep.gen <= e.gen
         /\ e.kind # "DEACTIVATE" /\ x.ep.kind = "DEACTIVATE" =>
              x.ep.gen < e.gen
         /\ e.kind = "CHANGE" /\ x.ep.kind = "CHANGE" /\ x.ep.gen = e.gen =>
              x.ep.rev < e.rev]_vars

\* Nothing reopens an episode whose consequence committed or that was found
\* stale, and a lease is only ever ended by its holder or after it expired:
\* no refresh, withdrawal, cancellation or replacement takes it away.
LeasesRespected ==
  [][\A e \in DOMAIN agenda :
       /\ agenda[e].state \in {"COMPLETED", "SKIPPED"} =>
            agenda'[e] = agenda[e]
       /\ agenda[e].state = "LEASED" /\ ~agenda[e].expired
          /\ agenda'[e].token # agenda[e].token =>
            \E x \in executions' \ executions :
              x.ep = e /\ x.token = agenda[e].token]_vars

\* The activation state implements the lifecycle oracle: every step of every
\* key, by refresh or by reconciliation, is one the oracle plans.
states == [k \in Keys |-> [active |-> act[k].active, generation |-> act[k].gen]]

\* Rows seeded at registration are the oracle's first match set.
SeededLifecycle == INSTANCE Lifecycle
ImplementsLifecycle == [][SeededLifecycle!Next]_states

Serving == barrier = "NONE" /\ coord = "NONE" /\ vstate \in {"ACTIVE", "DRAINING"}

\* An episode's work is interrupted, or taken up anew by an operator.
Interrupted(e) == LeaseExpires(e) \/ Requeue(e)

\* The load ends: from some moment on no lease runs out, nothing is requeued and
\* no new episode arrives.  How often these happened before is left open.
LoadEnds ==
  <>[][ /\ \A e \in DOMAIN agenda : ~Interrupted(e)
        /\ DOMAIN agenda' = DOMAIN agenda ]_vars

BoundedIds == [key : Keys, gen : 1 .. MaxGeneration, kind : Bound,
               rev : 0 .. MaxRevision]
IsOpen(e) == e \in DOMAIN agenda /\ agenda[e].state \in Unsettled

\* Work is not forgotten: if claims of the version are eventually not held up,
\* and leases run out, requeues and new episodes come finitely often, every open
\* episode is settled, whoever died before holding a conflict key and whatever
\* lease, conflict lease, attempt count or back-off was left behind.
WorkSettles ==
  <>[]Serving /\ LoadEnds => \A e \in BoundedIds : IsOpen(e) ~> ~IsOpen(e)
=============================================================================
