---------------------- MODULE RuleRuntimeLeaseProofs ----------------------
(***************************************************************************)
(* Proofs about the leases of a rule version: an episode is settled once   *)
(* (SettledOnce) and a lease is ended by its holder or after it expired    *)
(* (LeasesRespected).                                                      *)
(*                                                                         *)
(* Neither is inductive.  What makes them so is the bookkeeping of         *)
(* attempts: an episode's attempts, the tokens minted for it and the token *)
(* of its current lease move in step, and the attempts on record are older *)
(* than the current lease.  AttemptsCounted states this.                   *)
(*                                                                         *)
(* The last part proves that work is serialized by conflict key            *)
(* (ConflictExclusion), as long as no logical restore takes the conflict   *)
(* leases away.                                                            *)
(***************************************************************************)
EXTENDS RuleRuntimeProofs

Final == {"COMPLETED", "SKIPPED"}
Statuses == {"COMPLETED", "FAILED", "RETRY_WAIT", "SKIPPED"}

AttemptsCounted ==
  /\ \A e \in DOMAIN agenda :
       /\ agenda[e].attempts = agenda[e].minted
       /\ agenda[e].state = "LEASED" => agenda[e].token = agenda[e].minted
  /\ \A x \in executions :
       /\ x.ep \in DOMAIN agenda /\ x.token = x.attempt
       /\ x.attempt <= agenda[x.ep].attempts
       /\ agenda[x.ep].state = "LEASED" => x.attempt < agenda[x.ep].attempts

SettledInv == TypeInv /\ AttemptsCounted /\ SettledOnce

-----------------------------------------------------------------------------
(***************************************************************************)
(* What a step may do to an episode's row: an outcome is recorded for the  *)
(* holder of its lease (Settles), or nothing is recorded and every row     *)
(* moves within the bookkeeping (Quiet).                                   *)
(***************************************************************************)
Moves(job, next) ==
  \/ next = job
  \/ /\ job.state \notin Final /\ next.state \notin Final
     /\ job.state = "LEASED" /\ ~job.expired =>
          next.state = "LEASED" /\ next.token = job.token
     /\ \/ /\ next.attempts = job.attempts /\ next.minted = job.minted
           /\ next.state = "LEASED" =>
                job.state = "LEASED" /\ next.token = job.token
        \/ /\ next.attempts = job.attempts + 1 /\ next.minted = job.minted + 1
           /\ next.token = next.minted

Quiet ==
  /\ executions' = executions
  /\ DOMAIN agenda \subseteq DOMAIN agenda'
  /\ \A e \in DOMAIN agenda : Moves(agenda[e], agenda'[e])
  /\ \A e \in DOMAIN agenda' \ DOMAIN agenda : agenda'[e] = NewEpisode

Settles ==
  \E e \in DOMAIN agenda, status \in Statuses :
    agenda[e].state = "LEASED" /\ Outcome(agenda[e].token, e, status)

LEMMA ReleasedMoves ==
  ASSUME NEW job \in Episode, job.state \notin Final,
         ~(job.state = "LEASED" /\ ~job.expired),
         NEW state \in {"PENDING", "WITHDRAWN", "CANCELLED"}
  PROVE  Moves(job, Released(job, state))
  BY DEF Moves, Released, Episode, Final

LEMMA SweptMoves ==
  ASSUME TypeInv, NEW e \in DOMAIN agenda
  PROVE  Moves(agenda[e], Swept[e])
  <1>1. CASE e \in Expired
    <2>1. Moves(agenda[e], Released(agenda[e], "PENDING"))
      BY <1>1, ReleasedMoves DEF Expired, Final, TypeInv, TypeOK
    <2> QED BY <1>1, <2>1 DEF Swept
  <1>2. CASE e \notin Expired
    BY <1>2 DEF Swept, Moves
  <1> QED BY <1>1, <1>2

\* Leasing an episode a sweep left waiting.
LEMMA ClaimedMoves ==
  ASSUME TypeInv, NEW e \in DOMAIN agenda, NEW w, Swept[e].state \in Waiting
  PROVE  Moves(agenda[e], Claimed(Swept[e], w))
  <1>1. /\ agenda[e] \in Episode /\ Swept[e] \in Episode
        /\ \/ agenda[e].state \in Waiting
           \/ agenda[e].state = "LEASED" /\ agenda[e].expired
        /\ Swept[e].minted = agenda[e].minted
        /\ Swept[e].attempts = agenda[e].attempts
    BY SweptType DEF TypeInv, TypeOK, Swept, Expired, Released, Episode
  <1>2. /\ Claimed(Swept[e], w).attempts = agenda[e].attempts + 1
        /\ Claimed(Swept[e], w).minted = agenda[e].minted + 1
        /\ Claimed(Swept[e], w).token = agenda[e].minted + 1
        /\ Claimed(Swept[e], w).state = "LEASED"
    BY <1>1 DEF Claimed, Episode
  <1> HIDE DEF Claimed
  <1> QED BY <1>1, <1>2 DEF Moves, Final, Waiting

\* Emitting the events of a step into an agenda whose rows moved.
LEMMA EmitQuiet ==
  ASSUME NEW ag, DOMAIN ag = DOMAIN agenda,
         \A e \in DOMAIN agenda : Moves(agenda[e], ag[e]),
         NEW emitted, Emit(ag, emitted), executions' = executions
  PROVE  Quiet
  <1> DEFINE jobs == [e \in NewJobs(emitted) |-> NewEpisode]
  <1>1. agenda' = Insert(ag, jobs)
    BY DEF Emit
  <1>2. \A e \in DOMAIN jobs : jobs[e] = NewEpisode
    OBVIOUS
  <1> HIDE DEF jobs
  <1>3. /\ DOMAIN agenda' = DOMAIN agenda \cup DOMAIN jobs
        /\ \A e \in DOMAIN agenda : agenda'[e] = ag[e]
        /\ \A e \in DOMAIN jobs \ DOMAIN agenda : agenda'[e] = jobs[e]
    BY <1>1 DEF Insert
  <1> QED BY <1>2, <1>3 DEF Quiet

\* Replacing one row, and every row, of the agenda.
LEMMA OneRowQuiet ==
  ASSUME NEW e \in DOMAIN agenda, NEW job, Moves(agenda[e], job),
         agenda' = [agenda EXCEPT ![e] = job], executions' = executions
  PROVE  Quiet
  BY DEF Quiet, Moves

LEMMA WithdrawnMoves ==
  ASSUME TypeInv, NEW nx, NEW e \in DOMAIN agenda
  PROVE  Moves(agenda[e], Withdrawn(nx)[e])
  <1>1. agenda[e].state \in Waiting =>
          Moves(agenda[e], Released(agenda[e], "WITHDRAWN"))
    BY ReleasedMoves DEF Waiting, Final, TypeInv, TypeOK
  <1>2. Moves(agenda[e], agenda[e])
    BY DEF Moves
  <1> QED BY <1>1, <1>2 DEF Withdrawn

LEMMA RefreshQuiet ==
  ASSUME TypeInv, NEW rows, Refresh(rows)
  PROVE  Quiet
  <1> DEFINE nx == [k \in Keys |-> IF rows[k] = match[k] THEN act[k]
                                   ELSE Finalized(act[k], rows[k])]
  <1>1. Emit(Withdrawn(nx), Emitted(nx)) /\ executions' = executions
    BY DEF Refresh
  <1> HIDE DEF nx
  <1> QED BY <1>1, WithdrawnType, WithdrawnMoves, EmitQuiet

LEMMA UnchangedQuiet == UNCHANGED <<agenda, executions>> => Quiet
  BY DEF Quiet, Moves

LEMMA ReconcileQuiet ==
  ASSUME NEW mode, ReconcileRule(mode)
  PROVE  Quiet
  <1>1. \A e \in DOMAIN agenda : Moves(agenda[e], agenda[e])
    BY DEF Moves
  <1>2. CASE mode = "EMIT_MISSING_EVENTS"
    BY <1>1, <1>2, EmitQuiet DEF ReconcileRule
  <1>3. CASE mode # "EMIT_MISSING_EVENTS"
    BY <1>3, UnchangedQuiet DEF ReconcileRule
  <1> QED BY <1>2, <1>3

LEMMA ClaimQuiet ==
  ASSUME TypeInv, NEW w, NEW e \in DOMAIN agenda, Claim(w, e)
  PROVE  Quiet
  <1>1. /\ agenda' = [Swept EXCEPT ![e] = Claimed(Swept[e], w)]
        /\ executions' = executions /\ Swept[e].state \in Waiting
    BY DEF Claim, Claimable
  <1>2. Moves(agenda[e], Claimed(Swept[e], w))
    BY <1>1, ClaimedMoves
  <1>3. /\ DOMAIN Swept = DOMAIN agenda
        /\ \A d \in DOMAIN agenda : Moves(agenda[d], Swept[d])
    BY SweptType, SweptMoves
  <1> QED BY <1>1, <1>2, <1>3 DEF Quiet

\* Time passes: a lease runs out, or a back-off elapses.
LEMMA TimeQuiet ==
  ASSUME TypeInv, NEW e \in DOMAIN agenda, LeaseExpires(e) \/ BackoffElapses(e)
  PROVE  Quiet
  <1>0. agenda[e] \in Episode
    BY DEF TypeInv, TypeOK
  <1>1. CASE LeaseExpires(e)
    <2>1. Moves(agenda[e], [agenda[e] EXCEPT !.expired = TRUE])
      BY <1>0, <1>1 DEF LeaseExpires, Moves, Episode, Final
    <2> QED BY <1>1, <2>1, OneRowQuiet DEF LeaseExpires
  <1>2. CASE BackoffElapses(e)
    <2>1. Moves(agenda[e], [agenda[e] EXCEPT !.due = TRUE])
      BY <1>0, <1>2 DEF BackoffElapses, Moves, Episode, Final
    <2> QED BY <1>2, <2>1, OneRowQuiet DEF BackoffElapses
  <1> QED BY <1>1, <1>2

LEMMA RepairQuiet ==
  ASSUME TypeInv, NEW e \in DOMAIN agenda, Requeue(e) \/ Cancel(e)
  PROVE  Quiet
  <1>1. CASE Requeue(e)
    <2>1. Moves(agenda[e], Released(agenda[e], "PENDING"))
      BY <1>1, ReleasedMoves DEF Requeue, Final, TypeInv, TypeOK
    <2> QED BY <1>1, <2>1, OneRowQuiet DEF Requeue
  <1>2. CASE Cancel(e)
    <2>1. Moves(agenda[e], Released(agenda[e], "CANCELLED"))
      BY <1>2, ReleasedMoves DEF Cancel, Waiting, Final, TypeInv, TypeOK
    <2> QED BY <1>2, <2>1, OneRowQuiet DEF Cancel
  <1> QED BY <1>1, <1>2

LEMMA VersionQuiet == TypeInv /\ VersionChange => Quiet
  <1> SUFFICES ASSUME TypeInv, VersionChange PROVE Quiet
    OBVIOUS
  <1>1. ASSUME NEW policy, Replace(policy) PROVE Quiet
    <2>1. \A e \in DOMAIN agenda : agenda[e].state \in Waiting =>
            Moves(agenda[e], Released(agenda[e], "CANCELLED"))
      BY ReleasedMoves DEF Waiting, Final, TypeInv, TypeOK
    <2>2. \A e \in DOMAIN agenda : Moves(agenda[e], agenda[e])
      BY DEF Moves
    <2>3. /\ DOMAIN agenda' = DOMAIN agenda /\ executions' = executions
          /\ \A e \in DOMAIN agenda :
               \/ agenda'[e] = agenda[e]
               \/ /\ agenda[e].state \in Waiting
                  /\ agenda'[e] = Released(agenda[e], "CANCELLED")
      BY <1>1 DEF Replace, ChangeVersion
    <2> QED BY <2>1, <2>2, <2>3 DEF Quiet
  <1>2. CASE Pause \/ Resume \/ Remove
    BY <1>2, UnchangedQuiet DEF Pause, Resume, Remove, ChangeVersion
  <1> QED BY <1>1, <1>2 DEF VersionChange

\* Every step is quiet, or settles an episode for the holder of its lease.
LEMMA QuietOrSettles == TypeInv /\ [Next]_vars => Quiet \/ Settles
  <1> SUFFICES ASSUME TypeInv, [Next]_vars PROVE Quiet \/ Settles
    OBVIOUS
  <1>1. CASE Run \/ CoordinatedRefresh
    BY <1>1, RefreshQuiet, UnchangedQuiet
       DEF Run, CoordinatedRefresh, RefreshRule, BeginRefresh, ClearRefreshBarrier
  <1>2. CASE ReleaseCoordinatorLock
    BY <1>2, UnchangedQuiet DEF ReleaseCoordinatorLock
  <1>3. CASE ClaimSome
    BY <1>3, ClaimQuiet DEF ClaimSome
  <1>4. CASE SweepExpiredLeases
    BY <1>4, SweptType, SweptMoves DEF SweepExpiredLeases, Quiet
  <1>5. CASE ExecuteSome
    <2>1. PICK w \in Workers, e \in DOMAIN agenda :
            \E token \in 1 .. agenda[e].minted : Execute(w, token, e)
      BY <1>5 DEF ExecuteSome
    <2>2. PICK token \in 1 .. agenda[e].minted : Execute(w, token, e)
      BY <2>1
    <2>3. Holds(w, token, e) /\ \E status \in Statuses : Outcome(token, e, status)
      BY <2>2 DEF Execute, Complete, Skip, Retry, Fail, Statuses
    <2>4. agenda[e].state = "LEASED" /\ token = agenda[e].token
      BY <2>3 DEF Holds
    <2> QED BY <2>3, <2>4 DEF Settles
  <1>6. CASE BackoffSome \/ \E e \in DOMAIN agenda : LeaseExpires(e)
    BY <1>6, TimeQuiet DEF BackoffSome
  <1>7. CASE Recovery
    BY <1>7, ReconcileQuiet, UnchangedQuiet
       DEF Recovery, Restore, BeginReconciliation
  <1>8. CASE VersionChange
    BY <1>8, VersionQuiet
  <1>9. CASE Repair
    BY <1>9, RepairQuiet DEF Repair
  <1>10. CASE UNCHANGED vars
    BY <1>10, UnchangedQuiet DEF vars
  <1> QED BY <1>1, <1>2, <1>3, <1>4, <1>5, <1>6, <1>7, <1>8, <1>9, <1>10
          DEF Next

-----------------------------------------------------------------------------
(***************************************************************************)
(* SettledInv is an invariant.                                             *)
(***************************************************************************)
LEMMA InitSettled == Init => SettledInv
  BY InitType DEF Init, SettledInv, AttemptsCounted, SettledOnce

LEMMA QuietSettled == SettledInv /\ TypeInv' /\ Quiet => SettledInv'
  <1> SUFFICES ASSUME SettledInv, TypeInv', Quiet PROVE SettledInv'
    OBVIOUS
  <1>1. \A e \in DOMAIN agenda : agenda[e] \in Episode
    BY DEF SettledInv, TypeInv, TypeOK
  <1>2. ASSUME NEW e \in DOMAIN agenda'
        PROVE  /\ agenda'[e].attempts = agenda'[e].minted
               /\ agenda'[e].state = "LEASED" =>
                    agenda'[e].token = agenda'[e].minted
    <2>1. CASE e \in DOMAIN agenda
      BY <1>1, <2>1 DEF SettledInv, AttemptsCounted, Quiet, Moves, Episode
    <2>2. CASE e \notin DOMAIN agenda
      BY <2>2 DEF Quiet, NewEpisode
    <2> QED BY <2>1, <2>2
  <1>3. ASSUME NEW x \in executions'
        PROVE  /\ x.ep \in DOMAIN agenda' /\ x.token = x.attempt
               /\ x.attempt <= agenda'[x.ep].attempts
               /\ agenda'[x.ep].state = "LEASED" =>
                    x.attempt < agenda'[x.ep].attempts
    <2>1. /\ x \in executions /\ x.ep \in DOMAIN agenda /\ x.token = x.attempt
          /\ x.attempt <= agenda[x.ep].attempts
          /\ agenda[x.ep].state = "LEASED" => x.attempt < agenda[x.ep].attempts
          /\ x.attempt \in Nat /\ agenda[x.ep].attempts \in Nat
      BY <1>1 DEF Quiet, SettledInv, AttemptsCounted, TypeInv, TypeOK,
                  Execution, Episode
    <2>2. Moves(agenda[x.ep], agenda'[x.ep]) /\ x.ep \in DOMAIN agenda'
      BY <2>1 DEF Quiet
    <2> QED BY <2>1, <2>2 DEF Moves
  <1>4. ASSUME NEW x \in executions', x.status \in Final
        PROVE  agenda'[x.ep].state = x.status
    <2>1. x \in executions /\ x.ep \in DOMAIN agenda /\ agenda[x.ep].state = x.status
      BY <1>4 DEF Quiet, SettledInv, AttemptsCounted, SettledOnce, Final
    <2> QED BY <1>4, <2>1 DEF Quiet, Moves
  <1>5. ASSUME NEW e \in DOMAIN agenda', agenda'[e].state \in Final
        PROVE  \E x \in executions' : x.ep = e /\ x.status = agenda'[e].state
    <2>1. e \in DOMAIN agenda
      BY <1>5 DEF Quiet, NewEpisode, Final
    <2>2. agenda'[e] = agenda[e] /\ agenda[e].state \in Final
      BY <1>5, <2>1 DEF Quiet, Moves
    <2> QED BY <2>1, <2>2 DEF Quiet, SettledInv, SettledOnce, Final
  <1>6. \A x, y \in executions' :
          x.ep = y.ep /\ (x.attempt = y.attempt \/ x.token = y.token) => x = y
    BY DEF Quiet, SettledInv, SettledOnce
  <1>7. AttemptsCounted'
    BY <1>2, <1>3 DEF AttemptsCounted
  <1>8. SettledOnce'
    BY <1>4, <1>5, <1>6 DEF SettledOnce, Final
  <1> QED BY <1>7, <1>8 DEF SettledInv

LEMMA SettlesSettled == SettledInv /\ TypeInv' /\ Settles => SettledInv'
  <1> SUFFICES ASSUME SettledInv, TypeInv',
                      NEW e \in DOMAIN agenda, NEW status \in Statuses,
                      agenda[e].state = "LEASED",
                      Outcome(agenda[e].token, e, status)
               PROVE  SettledInv'
    BY DEF Settles
  <1> DEFINE job == Released(agenda[e], status)
             row == [ep |-> e, attempt |-> agenda[e].attempts,
                     token |-> agenda[e].token, status |-> status]
  <1>1. /\ agenda[e] \in Episode
        /\ agenda[e].token = agenda[e].attempts
        /\ agenda[e].attempts = agenda[e].minted
        /\ agenda[e].attempts \in Nat
    BY DEF SettledInv, AttemptsCounted, TypeInv, TypeOK, Episode
  <1>2. /\ job.state = status /\ job.attempts = agenda[e].attempts
        /\ job.minted = agenda[e].minted
    BY <1>1 DEF Released, Episode
  <1>3. /\ executions' = executions \cup {row}
        /\ agenda' = [agenda EXCEPT ![e] = job]
    BY DEF Outcome
  <1>4. /\ DOMAIN agenda' = DOMAIN agenda
        /\ agenda'[e] = job
        /\ \A d \in DOMAIN agenda : d # e => agenda'[d] = agenda[d]
    BY <1>3
  <1>5. /\ row.ep = e /\ row.attempt = agenda[e].attempts
        /\ row.token = row.attempt /\ row.status = status
    BY <1>1
  <1>6. status # "LEASED"
    BY DEF Statuses
  <1> HIDE DEF job, row
  <1>7. \A x \in executions : x.ep = e =>
          /\ x.attempt \in Nat /\ x.attempt < agenda[e].attempts
          /\ x.token = x.attempt /\ x.status \notin Final
    BY DEF SettledInv, AttemptsCounted, SettledOnce, TypeInv, TypeOK,
           Execution, Final
  <1>8. AttemptsCounted'
    <2>1. ASSUME NEW d \in DOMAIN agenda'
          PROVE  /\ agenda'[d].attempts = agenda'[d].minted
                 /\ agenda'[d].state = "LEASED" =>
                      agenda'[d].token = agenda'[d].minted
      BY <1>1, <1>2, <1>4, <1>6 DEF SettledInv, AttemptsCounted
    <2>2. ASSUME NEW x \in executions'
          PROVE  /\ x.ep \in DOMAIN agenda' /\ x.token = x.attempt
                 /\ x.attempt <= agenda'[x.ep].attempts
                 /\ agenda'[x.ep].state = "LEASED" =>
                      x.attempt < agenda'[x.ep].attempts
      <3>1. CASE x = row
        BY <1>1, <1>2, <1>4, <1>5, <1>6, <3>1
      <3>2. CASE x \in executions
        <4>1. /\ x.ep \in DOMAIN agenda /\ x.token = x.attempt
              /\ x.attempt <= agenda[x.ep].attempts
              /\ agenda[x.ep].state = "LEASED" =>
                   x.attempt < agenda[x.ep].attempts
          BY <3>2 DEF SettledInv, AttemptsCounted
        <4> QED BY <1>2, <1>4, <1>6, <4>1
      <3> QED BY <1>3, <3>1, <3>2
    <2> QED BY <2>1, <2>2 DEF AttemptsCounted
  <1>9. SettledOnce'
    <2>1. ASSUME NEW x \in executions', NEW y \in executions', x.ep = y.ep,
                 x.attempt = y.attempt \/ x.token = y.token
          PROVE  x = y
      <3>1. CASE x \in executions /\ y \in executions
        BY <2>1, <3>1 DEF SettledInv, SettledOnce
      <3>2. CASE x = row /\ y \in executions
        BY <1>1, <1>5, <1>7, <2>1, <3>2
      <3>3. CASE y = row /\ x \in executions
        BY <1>1, <1>5, <1>7, <2>1, <3>3
      <3> QED BY <1>3, <3>1, <3>2, <3>3
    <2>2. ASSUME NEW x \in executions', x.status \in Final
          PROVE  agenda'[x.ep].state = x.status
      <3>1. CASE x = row
        BY <1>2, <1>4, <1>5, <3>1
      <3>2. CASE x \in executions
        <4>1. /\ x.ep \in DOMAIN agenda /\ x.ep # e
              /\ agenda[x.ep].state = x.status
          BY <1>7, <2>2, <3>2 DEF SettledInv, AttemptsCounted, SettledOnce, Final
        <4> QED BY <1>4, <4>1
      <3> QED BY <1>3, <3>1, <3>2
    <2>3. ASSUME NEW d \in DOMAIN agenda', agenda'[d].state \in Final
          PROVE  \E x \in executions' : x.ep = d /\ x.status = agenda'[d].state
      <3>1. CASE d = e
        BY <1>2, <1>3, <1>4, <1>5, <3>1
      <3>2. CASE d # e
        BY <1>3, <1>4, <2>3, <3>2 DEF SettledInv, SettledOnce, Final
      <3> QED BY <3>1, <3>2
    <2> QED BY <2>1, <2>2, <2>3 DEF SettledOnce, Final
  <1> QED BY <1>8, <1>9 DEF SettledInv

LEMMA SettledStep == SettledInv /\ [Next]_vars => SettledInv'
  BY TypeStep, QuietOrSettles, QuietSettled, SettlesSettled DEF SettledInv

\* Each claim of an episode is recorded at most once, and only by the worker
\* whose token the episode's lease still has; an episode that is COMPLETED or
\* SKIPPED has exactly the attempt that made it so, and stays that way.
THEOREM EpisodesSettleOnce == Spec => []SettledOnce
  <1>1. SettledInv => SettledOnce
    BY DEF SettledInv
  <1> QED BY <1>1, InitSettled, SettledStep, PTL DEF Spec

LEMMA LeasesStep == SettledInv /\ [Next]_vars =>
  (\A e \in DOMAIN agenda :
     /\ agenda[e].state \in {"COMPLETED", "SKIPPED"} => agenda'[e] = agenda[e]
     /\ agenda[e].state = "LEASED" /\ ~agenda[e].expired
        /\ agenda'[e].token # agenda[e].token =>
          \E x \in executions' \ executions :
            x.ep = e /\ x.token = agenda[e].token)
  <1> SUFFICES ASSUME SettledInv, [Next]_vars, NEW e \in DOMAIN agenda
               PROVE  /\ agenda[e].state \in Final => agenda'[e] = agenda[e]
                      /\ agenda[e].state = "LEASED" /\ ~agenda[e].expired
                         /\ agenda'[e].token # agenda[e].token =>
                           \E x \in executions' \ executions :
                             x.ep = e /\ x.token = agenda[e].token
    BY DEF Final
  <1>1. CASE Quiet
    BY <1>1 DEF Quiet, Moves, Final
  <1>2. CASE Settles
    <2>1. PICK d \in DOMAIN agenda, status \in Statuses :
            agenda[d].state = "LEASED" /\ Outcome(agenda[d].token, d, status)
      BY <1>2 DEF Settles
    <2>2. CASE e # d
      BY <2>1, <2>2 DEF Outcome
    <2>3. CASE e = d
      <3> DEFINE row == [ep |-> e, attempt |-> agenda[e].attempts,
                         token |-> agenda[e].token, status |-> status]
      <3>1. row \in executions'
        BY <2>1, <2>3 DEF Outcome
      <3>2. \A x \in executions : x.ep = e =>
              x.attempt < agenda[e].attempts /\ x.attempt \in Nat
        BY <2>1, <2>3 DEF SettledInv, AttemptsCounted, TypeInv, TypeOK, Execution
      <3>3. agenda[e].attempts \in Nat
        BY DEF SettledInv, TypeInv, TypeOK, Episode
      <3>4. row \notin executions
        BY <3>2, <3>3
      <3> QED BY <2>1, <2>3, <3>1, <3>4 DEF Final
    <2> QED BY <2>2, <2>3
  <1> QED BY <1>1, <1>2, QuietOrSettles DEF SettledInv

\* No refresh, repair, replacement or other worker reopens a settled episode
\* or takes a lease that has not run out from the worker that holds it.
THEOREM LeasesAreRespected == Spec => LeasesRespected
  BY InitSettled, SettledStep, LeasesStep, PTL DEF Spec, LeasesRespected

-----------------------------------------------------------------------------
(***************************************************************************)
(* ConflictExclusion.  The inductive invariant says for each leased        *)
(* episode that its key's conflict lease is its own, and that only a lease *)
(* can be expired: a claim copies the flag to the new conflict lease.  It  *)
(* is stated of any agenda and conflict table, because a claim sweeps      *)
(* before it selects and so passes through a pair of tables that no state  *)
(* holds.                                                                  *)
(***************************************************************************)
Exclusive(ag, cf) ==
  /\ \A c \in DOMAIN cf : cf[c].ep \in DOMAIN ag
  /\ \A c \in DOMAIN cf : \A e \in DOMAIN ag : cf[c].ep = e =>
       /\ KeyOf(e) = c /\ ag[e].state = "LEASED"
       /\ ag[e].token = cf[c].token /\ ag[e].expired = cf[c].expired
  /\ \A e \in DOMAIN ag :
       /\ ag[e].state = "LEASED" /\ KeyOf(e) # NoConflict =>
            KeyOf(e) \in DOMAIN cf /\ cf[KeyOf(e)].ep = e
       /\ ag[e].state # "LEASED" => ag[e].expired = FALSE

ConflictInv == TypeInv /\ Exclusive(agenda, conflict)

\* A step that touches no lease and no event that is on record.
LeasesKept ==
  /\ conflict' = conflict
  /\ DOMAIN agenda \subseteq DOMAIN agenda'
  /\ \A e \in DOMAIN agenda : KeyOf(e)' = KeyOf(e)
  /\ \A e \in DOMAIN agenda :
       \/ agenda'[e] = agenda[e]
       \/ /\ agenda[e].state # "LEASED" /\ agenda'[e].state # "LEASED"
          /\ agenda'[e].expired = FALSE
  /\ \A e \in DOMAIN agenda' \ DOMAIN agenda : agenda'[e] = NewEpisode

LEMMA KeptExclusive ==
  ASSUME Exclusive(agenda, conflict), LeasesKept
  PROVE  Exclusive(agenda, conflict)'
  <1>1. ASSUME NEW c \in DOMAIN conflict', NEW e, conflict'[c].ep = e
        PROVE  /\ e \in DOMAIN agenda'
               /\ KeyOf(e)' = c /\ agenda'[e].state = "LEASED"
               /\ agenda'[e].token = conflict'[c].token
               /\ agenda'[e].expired = conflict'[c].expired
    <2>1. conflict' = conflict
      BY DEF LeasesKept
    <2>2. /\ e \in DOMAIN agenda /\ KeyOf(e) = c /\ agenda[e].state = "LEASED"
          /\ agenda[e].token = conflict[c].token
          /\ agenda[e].expired = conflict[c].expired
      BY <1>1, <2>1 DEF Exclusive
    <2>3. /\ e \in DOMAIN agenda' /\ agenda'[e] = agenda[e]
          /\ KeyOf(e)' = KeyOf(e)
      BY <2>2 DEF LeasesKept
    <2> QED BY <2>1, <2>2, <2>3
  <1>2. ASSUME NEW e \in DOMAIN agenda'
        PROVE  /\ agenda'[e].state = "LEASED" /\ KeyOf(e)' # NoConflict =>
                    KeyOf(e)' \in DOMAIN conflict' /\ conflict'[KeyOf(e)'].ep = e
               /\ agenda'[e].state # "LEASED" => agenda'[e].expired = FALSE
    <2>1. CASE e \in DOMAIN agenda
      <3>1. KeyOf(e)' = KeyOf(e) /\ conflict' = conflict
        BY <2>1 DEF LeasesKept
      <3>2. CASE agenda'[e] = agenda[e]
        BY <2>1, <3>1, <3>2 DEF Exclusive
      <3>3. CASE agenda'[e].state # "LEASED" /\ agenda'[e].expired = FALSE
        BY <3>3
      <3> QED BY <2>1, <3>2, <3>3 DEF LeasesKept
    <2>2. CASE e \notin DOMAIN agenda
      BY <2>2 DEF LeasesKept, NewEpisode
    <2> QED BY <2>1, <2>2
  <1> QED BY <1>1, <1>2 DEF Exclusive

LEMMA ReleasedExpired ==
  ASSUME NEW job \in Episode, NEW state
  PROVE  Released(job, state).state = state /\ Released(job, state).expired = FALSE
  BY DEF Released, Episode

\* A sweep of an exclusive pair of tables leaves one.
LEMMA SweptExclusive ==
  ASSUME ConflictInv
  PROVE  Exclusive(Swept, SweptLeases)
  <1>1. DOMAIN Swept = DOMAIN agenda
    BY DEF Swept
  <1>2. \A e \in DOMAIN agenda :
          /\ e \in Expired =>
               Swept[e].state = "PENDING" /\ Swept[e].expired = FALSE
          /\ e \notin Expired => Swept[e] = agenda[e]
    BY ReleasedExpired DEF Swept, ConflictInv, TypeInv, TypeOK
  <1>3. /\ \A c \in DOMAIN SweptLeases :
             /\ c \in DOMAIN conflict /\ conflict[c].ep \notin Expired
             /\ SweptLeases[c] = conflict[c]
        /\ \A c \in DOMAIN conflict : conflict[c].ep \notin Expired =>
             c \in DOMAIN SweptLeases
    BY DEF SweptLeases, Restrict
  <1> QED BY <1>1, <1>2, <1>3 DEF Exclusive, ConflictInv

LEMMA ClaimExclusive ==
  ASSUME ConflictInv, NEW w, NEW e \in DOMAIN agenda, Claim(w, e)
  PROVE  Exclusive(agenda, conflict)'
  <1> DEFINE lease == [c \in {KeyOf(e)} \ {NoConflict} |->
                         [ep |-> e, token |-> Swept[e].minted + 1,
                          expired |-> FALSE]]
             job == Claimed(Swept[e], w)
  <1>1. /\ agenda' = [Swept EXCEPT ![e] = job]
        /\ conflict' = Insert(SweptLeases, lease)
        /\ events' = events
        /\ Swept[e].state \in Waiting /\ KeyOf(e) \notin DOMAIN SweptLeases
    BY DEF Claim, Claimable
  <1>2. Exclusive(Swept, SweptLeases)
    BY SweptExclusive
  <1>3. DOMAIN Swept = DOMAIN agenda /\ Swept[e] \in Episode
    BY SweptType DEF ConflictInv
  <1>4. Swept[e].state # "LEASED" /\ Swept[e].expired = FALSE
    BY <1>1, <1>2, <1>3 DEF Exclusive, Waiting
  <1>5. /\ job.state = "LEASED" /\ job.token = Swept[e].minted + 1
        /\ job.expired = FALSE
    BY <1>3, <1>4 DEF Claimed, Episode
  <1>6. /\ DOMAIN lease = {KeyOf(e)} \ {NoConflict}
        /\ \A c \in DOMAIN lease : /\ lease[c].ep = e
                                   /\ lease[c].token = Swept[e].minted + 1
                                   /\ lease[c].expired = FALSE
    OBVIOUS
  <1> HIDE DEF lease, job
  <1>7. /\ DOMAIN conflict' = DOMAIN SweptLeases \cup DOMAIN lease
        /\ \A c \in DOMAIN SweptLeases : conflict'[c] = SweptLeases[c]
        /\ \A c \in DOMAIN lease \ DOMAIN SweptLeases : conflict'[c] = lease[c]
    BY <1>1 DEF Insert
  <1>8. /\ DOMAIN agenda' = DOMAIN Swept /\ agenda'[e] = job
        /\ \A d \in DOMAIN Swept : d # e => agenda'[d] = Swept[d]
    BY <1>1, <1>3
  <1>9. \A d : KeyOf(d)' = KeyOf(d)
    BY <1>1 DEF KeyOf
  <1>10. ASSUME NEW c \in DOMAIN conflict', NEW d, conflict'[c].ep = d
         PROVE  /\ d \in DOMAIN agenda'
                /\ KeyOf(d)' = c /\ agenda'[d].state = "LEASED"
                /\ agenda'[d].token = conflict'[c].token
                /\ agenda'[d].expired = conflict'[c].expired
    <2>1. CASE c \in DOMAIN SweptLeases
      <3>1. conflict'[c] = SweptLeases[c]
        BY <1>7, <2>1
      <3>2. /\ d \in DOMAIN Swept /\ KeyOf(d) = c /\ Swept[d].state = "LEASED"
            /\ Swept[d].token = SweptLeases[c].token
            /\ Swept[d].expired = SweptLeases[c].expired
        BY <1>2, <1>10, <2>1, <3>1 DEF Exclusive
      <3>3. d # e
        BY <1>4, <3>2
      <3> QED BY <1>8, <1>9, <3>1, <3>2, <3>3
    <2>2. CASE c \in DOMAIN lease \ DOMAIN SweptLeases
      <3>1. conflict'[c] = lease[c] /\ c = KeyOf(e) /\ d = e
        BY <1>6, <1>7, <1>10, <2>2
      <3> QED BY <1>3, <1>5, <1>6, <1>8, <1>9, <2>2, <3>1
    <2> QED BY <1>7, <2>1, <2>2
  <1>11. ASSUME NEW d \in DOMAIN agenda'
         PROVE  /\ agenda'[d].state = "LEASED" /\ KeyOf(d)' # NoConflict =>
                     /\ KeyOf(d)' \in DOMAIN conflict'
                     /\ conflict'[KeyOf(d)'].ep = d
                /\ agenda'[d].state # "LEASED" => agenda'[d].expired = FALSE
    <2>1. CASE d = e
      BY <1>1, <1>5, <1>6, <1>7, <1>8, <1>9, <2>1
    <2>2. CASE d # e
      BY <1>2, <1>7, <1>8, <1>9, <2>2 DEF Exclusive
    <2> QED BY <2>1, <2>2
  <1> QED BY <1>10, <1>11 DEF Exclusive

\* The lease that runs out and its conflict lease expire together.
LEMMA LeaseExpiresExclusive ==
  ASSUME ConflictInv, NEW e \in DOMAIN agenda, LeaseExpires(e)
  PROVE  Exclusive(agenda, conflict)'
  <1>1. /\ DOMAIN agenda' = DOMAIN agenda
        /\ \A d \in DOMAIN agenda : d # e => agenda'[d] = agenda[d]
        /\ agenda'[e] = [agenda[e] EXCEPT !.expired = TRUE]
        /\ agenda[e].state = "LEASED" /\ events' = events
    BY DEF LeaseExpires
  <1>2. /\ agenda'[e].state = "LEASED" /\ agenda'[e].token = agenda[e].token
        /\ agenda'[e].expired = TRUE
    BY <1>1 DEF ConflictInv, TypeInv, TypeOK, Episode
  <1>3. /\ DOMAIN conflict' = DOMAIN conflict
        /\ \A c \in DOMAIN conflict :
             /\ conflict'[c].ep = conflict[c].ep
             /\ conflict'[c].token = conflict[c].token
             /\ conflict[c].ep # e => conflict'[c] = conflict[c]
             /\ conflict[c].ep = e /\ conflict[c].token = agenda[e].token =>
                  conflict'[c].expired = TRUE
    BY DEF LeaseExpires, ConflictInv, TypeInv, TypeOK, ConflictLease
  <1>4. \A d : KeyOf(d)' = KeyOf(d)
    BY <1>1 DEF KeyOf
  <1>5. ASSUME NEW c \in DOMAIN conflict', NEW d, conflict'[c].ep = d
        PROVE  /\ d \in DOMAIN agenda'
               /\ KeyOf(d)' = c /\ agenda'[d].state = "LEASED"
               /\ agenda'[d].token = conflict'[c].token
               /\ agenda'[d].expired = conflict'[c].expired
    <2>1. /\ d \in DOMAIN agenda /\ KeyOf(d) = c /\ agenda[d].state = "LEASED"
          /\ agenda[d].token = conflict[c].token
          /\ agenda[d].expired = conflict[c].expired
          /\ conflict[c].ep = d
      BY <1>3, <1>5 DEF ConflictInv, Exclusive
    <2>2. CASE d = e
      BY <1>1, <1>2, <1>3, <1>4, <1>5, <2>1, <2>2
    <2>3. CASE d # e
      BY <1>1, <1>3, <1>4, <1>5, <2>1, <2>3
    <2> QED BY <2>2, <2>3
  <1>6. ASSUME NEW d \in DOMAIN agenda'
        PROVE  /\ agenda'[d].state = "LEASED" /\ KeyOf(d)' # NoConflict =>
                    /\ KeyOf(d)' \in DOMAIN conflict'
                    /\ conflict'[KeyOf(d)'].ep = d
               /\ agenda'[d].state # "LEASED" => agenda'[d].expired = FALSE
    <2>1. CASE d = e
      BY <1>1, <1>2, <1>3, <1>4, <2>1 DEF ConflictInv, Exclusive
    <2>2. CASE d # e
      BY <1>1, <1>3, <1>4, <2>2 DEF ConflictInv, Exclusive
    <2> QED BY <2>1, <2>2
  <1> QED BY <1>5, <1>6 DEF Exclusive

\* An outcome gives up the lease and the conflict lease taken with it.
LEMMA OutcomeExclusive ==
  ASSUME ConflictInv, NEW e \in DOMAIN agenda, agenda[e].state = "LEASED",
         NEW status \in {"COMPLETED", "FAILED", "RETRY_WAIT", "SKIPPED"},
         Outcome(agenda[e].token, e, status)
  PROVE  Exclusive(agenda, conflict)'
  <1>1. /\ DOMAIN agenda' = DOMAIN agenda
        /\ \A d \in DOMAIN agenda : d # e => agenda'[d] = agenda[d]
        /\ agenda'[e] = Released(agenda[e], status)
        /\ events' = events
    BY DEF Outcome
  <1>2. agenda'[e].state = status /\ agenda'[e].expired = FALSE
    <2>1. agenda[e] \in Episode
      BY DEF ConflictInv, TypeInv, TypeOK
    <2>2. /\ Released(agenda[e], status).state = status
          /\ Released(agenda[e], status).expired = FALSE
      BY <2>1, ReleasedExpired
    <2> QED BY <1>1, <2>2
  <1>3. /\ \A c \in DOMAIN conflict' :
             /\ c \in DOMAIN conflict /\ conflict'[c] = conflict[c]
             /\ ~(conflict[c].ep = e /\ conflict[c].token = agenda[e].token)
        /\ \A c \in DOMAIN conflict : conflict[c].ep # e => c \in DOMAIN conflict'
    BY DEF Outcome, Restrict
  <1>4. \A d : KeyOf(d)' = KeyOf(d)
    BY <1>1 DEF KeyOf
  <1>5. ASSUME NEW c \in DOMAIN conflict', NEW d, conflict'[c].ep = d
        PROVE  /\ d \in DOMAIN agenda'
               /\ KeyOf(d)' = c /\ agenda'[d].state = "LEASED"
               /\ agenda'[d].token = conflict'[c].token
               /\ agenda'[d].expired = conflict'[c].expired
    <2>1. /\ d \in DOMAIN agenda /\ KeyOf(d) = c /\ agenda[d].state = "LEASED"
          /\ agenda[d].token = conflict[c].token
          /\ agenda[d].expired = conflict[c].expired
          /\ conflict[c].ep = d
      BY <1>3, <1>5 DEF ConflictInv, Exclusive
    <2>2. d # e
      BY <1>3, <2>1
    <2> QED BY <1>1, <1>3, <1>4, <1>5, <2>1, <2>2
  <1>6. ASSUME NEW d \in DOMAIN agenda'
        PROVE  /\ agenda'[d].state = "LEASED" /\ KeyOf(d)' # NoConflict =>
                    /\ KeyOf(d)' \in DOMAIN conflict'
                    /\ conflict'[KeyOf(d)'].ep = d
               /\ agenda'[d].state # "LEASED" => agenda'[d].expired = FALSE
    <2>1. CASE d = e
      BY <1>2, <2>1
    <2>2. CASE d # e
      BY <1>1, <1>3, <1>4, <2>2 DEF ConflictInv, Exclusive
    <2> QED BY <2>1, <2>2
  <1> QED BY <1>5, <1>6 DEF Exclusive

-----------------------------------------------------------------------------
(***************************************************************************)
(* The other steps keep the leases.                                        *)
(***************************************************************************)
\* A step that changes rows that hold no lease, and no event.
LEMMA RowsKept ==
  ASSUME conflict' = conflict, events' = events, DOMAIN agenda' = DOMAIN agenda,
         \A e \in DOMAIN agenda :
           \/ agenda'[e] = agenda[e]
           \/ /\ agenda[e].state # "LEASED" /\ agenda'[e].state # "LEASED"
              /\ agenda'[e].expired = FALSE
  PROVE  LeasesKept
  BY DEF LeasesKept, KeyOf

LEMMA UnchangedKept ==
  UNCHANGED <<events, agenda, conflict>> => LeasesKept
  BY RowsKept

LEMMA RefreshKept ==
  ASSUME ConflictInv, NEW rows, Refresh(rows)
  PROVE  LeasesKept
  <1> DEFINE nx == [k \in Keys |-> IF rows[k] = match[k] THEN act[k]
                                   ELSE Finalized(act[k], rows[k])]
             ag == Withdrawn(nx)
             jobs == [e \in NewJobs(Emitted(nx)) |-> NewEpisode]
  <1>1. /\ events' = Insert(events, Emitted(nx))
        /\ agenda' = Insert(ag, jobs)
        /\ conflict' = conflict
    BY DEF Refresh, Emit
  <1>2. /\ DOMAIN ag = DOMAIN agenda
        /\ \A e \in DOMAIN agenda :
             \/ ag[e] = agenda[e]
             \/ /\ agenda[e].state \in Waiting
                /\ ag[e] = Released(agenda[e], "WITHDRAWN")
    BY DEF Withdrawn
  <1>3. \A e \in DOMAIN agenda :
          \/ ag[e] = agenda[e]
          \/ /\ agenda[e].state # "LEASED" /\ ag[e].state # "LEASED"
             /\ ag[e].expired = FALSE
    <2>1. \A e \in DOMAIN agenda :
            /\ Released(agenda[e], "WITHDRAWN").state = "WITHDRAWN"
            /\ Released(agenda[e], "WITHDRAWN").expired = FALSE
      BY ReleasedExpired DEF ConflictInv, TypeInv, TypeOK
    <2> HIDE DEF ag
    <2> QED BY <1>2, <2>1 DEF Waiting
  <1>4. \A e \in DOMAIN jobs : jobs[e] = NewEpisode
    OBVIOUS
  <1> HIDE DEF nx, ag, jobs
  <1>5. /\ DOMAIN agenda' = DOMAIN agenda \cup DOMAIN jobs
        /\ \A e \in DOMAIN agenda : agenda'[e] = ag[e]
        /\ \A e \in DOMAIN jobs \ DOMAIN agenda : agenda'[e] = jobs[e]
    BY <1>1, <1>2 DEF Insert
  <1>6. \A e \in DOMAIN agenda : KeyOf(e)' = KeyOf(e)
    <2>1. \A e \in DOMAIN agenda : events'[e] = events[e]
      BY <1>1 DEF Insert, ConflictInv, TypeInv, TypeOK
    <2> QED BY <2>1 DEF KeyOf
  <1> QED BY <1>1, <1>3, <1>4, <1>5, <1>6 DEF LeasesKept

LEMMA RepairKept ==
  ASSUME ConflictInv, NEW e \in DOMAIN agenda, Requeue(e) \/ Cancel(e)
  PROVE  LeasesKept
  <1>1. PICK state \in {"PENDING", "CANCELLED"} :
          /\ agenda' = [agenda EXCEPT ![e] = Released(agenda[e], state)]
          /\ agenda[e].state # "LEASED"
    BY DEF Requeue, Cancel, Waiting
  <1>2. UNCHANGED <<events, conflict>>
    BY DEF Requeue, Cancel
  <1>3. /\ Released(agenda[e], state).state # "LEASED"
        /\ Released(agenda[e], state).expired = FALSE
    BY ReleasedExpired DEF ConflictInv, TypeInv, TypeOK
  <1> QED BY <1>1, <1>2, <1>3, RowsKept

LEMMA VersionKept == ConflictInv /\ VersionChange => LeasesKept
  <1> SUFFICES ASSUME ConflictInv, VersionChange PROVE LeasesKept
    OBVIOUS
  <1>1. ASSUME NEW policy, Replace(policy) PROVE LeasesKept
    <2>1. \A e \in DOMAIN agenda :
            /\ Released(agenda[e], "CANCELLED").state # "LEASED"
            /\ Released(agenda[e], "CANCELLED").expired = FALSE
      BY ReleasedExpired DEF ConflictInv, TypeInv, TypeOK
    <2>2. /\ DOMAIN agenda' = DOMAIN agenda /\ UNCHANGED <<events, conflict>>
          /\ \A e \in DOMAIN agenda :
               \/ agenda'[e] = agenda[e]
               \/ /\ agenda[e].state \in Waiting
                  /\ agenda'[e] = Released(agenda[e], "CANCELLED")
      BY <1>1 DEF Replace, ChangeVersion
    <2> QED BY <2>1, <2>2, RowsKept DEF Waiting
  <1>2. CASE Pause \/ Resume \/ Remove
    BY <1>2, UnchangedKept DEF Pause, Resume, Remove, ChangeVersion
  <1> QED BY <1>1, <1>2 DEF VersionChange

LEMMA BackoffKept ==
  ASSUME ConflictInv, NEW e \in DOMAIN agenda, BackoffElapses(e)
  PROVE  LeasesKept
  <1>1. /\ agenda' = [agenda EXCEPT ![e] = [agenda[e] EXCEPT !.due = TRUE]]
        /\ agenda[e].state = "RETRY_WAIT" /\ UNCHANGED <<events, conflict>>
    BY DEF BackoffElapses
  <1>2. /\ [agenda[e] EXCEPT !.due = TRUE].state = "RETRY_WAIT"
        /\ [agenda[e] EXCEPT !.due = TRUE].expired = FALSE
    BY <1>1 DEF ConflictInv, Exclusive, TypeInv, TypeOK, Episode
  <1> QED BY <1>1, <1>2, RowsKept

-----------------------------------------------------------------------------
(***************************************************************************)
(* ConflictInv is an invariant, and implies ConflictExclusion.             *)
(***************************************************************************)
LEMMA InitConflict == Init => ConflictInv
  <1> SUFFICES ASSUME Init PROVE ConflictInv
    OBVIOUS
  <1>1. DOMAIN agenda = {} /\ DOMAIN conflict = {}
    BY DEF Init
  <1> QED BY <1>1, InitType DEF ConflictInv, Exclusive

LEMMA ConflictStep ==
  ASSUME "RECOVERY" \notin Procedures, ConflictInv, [Next]_vars
  PROVE  ConflictInv'
  <1>1. TypeInv'
    BY TypeStep DEF ConflictInv
  <1> SUFFICES Exclusive(agenda, conflict)'
    BY <1>1 DEF ConflictInv
  <1>2. LeasesKept => Exclusive(agenda, conflict)'
    BY KeptExclusive DEF ConflictInv
  <1>3. CASE Run \/ CoordinatedRefresh
    BY <1>2, <1>3, RefreshKept, UnchangedKept
       DEF Run, CoordinatedRefresh, RefreshRule, BeginRefresh, ClearRefreshBarrier
  <1>4. CASE ReleaseCoordinatorLock
    BY <1>2, <1>4, UnchangedKept DEF ReleaseCoordinatorLock
  <1>5. CASE ClaimSome
    BY <1>5, ClaimExclusive DEF ClaimSome
  <1>6. CASE SweepExpiredLeases
    <2>1. Exclusive(Swept, SweptLeases)
      BY SweptExclusive
    <2>2. agenda' = Swept /\ conflict' = SweptLeases /\ events' = events
      BY <1>6 DEF SweepExpiredLeases
    <2> HIDE DEF Swept, SweptLeases
    <2>3. \A e : KeyOf(e)' = KeyOf(e)
      BY <2>2 DEF KeyOf
    <2> QED BY <2>1, <2>2, <2>3 DEF Exclusive
  <1>7. CASE ExecuteSome
    <2>1. PICK w \in Workers, e \in DOMAIN agenda :
            \E token \in 1 .. agenda[e].minted : Execute(w, token, e)
      BY <1>7 DEF ExecuteSome
    <2>2. PICK token \in 1 .. agenda[e].minted : Execute(w, token, e)
      BY <2>1
    <2>3. PICK status \in {"COMPLETED", "FAILED", "RETRY_WAIT", "SKIPPED"} :
            Holds(w, token, e) /\ Outcome(token, e, status)
      BY <2>2 DEF Execute, Complete, Skip, Retry, Fail
    <2> QED BY <2>3, OutcomeExclusive DEF Holds
  <1>8. CASE BackoffSome
    BY <1>2, <1>8, BackoffKept DEF BackoffSome
  <1>9. CASE \E e \in DOMAIN agenda : LeaseExpires(e)
    BY <1>9, LeaseExpiresExclusive
  <1>10. CASE VersionChange
    BY <1>2, <1>10, VersionKept
  <1>11. CASE Repair
    BY <1>2, <1>11, RepairKept DEF Repair
  <1>12. CASE UNCHANGED vars
    BY <1>2, <1>12, UnchangedKept DEF vars
  <1> QED BY <1>3, <1>4, <1>5, <1>6, <1>7, <1>8, <1>9, <1>10, <1>11, <1>12
          DEF Next

LEMMA ExclusiveExcludes == Exclusive(agenda, conflict) => ConflictExclusion
  <1> SUFFICES ASSUME Exclusive(agenda, conflict) PROVE ConflictExclusion
    OBVIOUS
  <1>1. OneLeasePerConflictKey
    <2> SUFFICES ASSUME NEW d \in DOMAIN agenda, NEW e \in DOMAIN agenda,
                        agenda[d].state = "LEASED", agenda[e].state = "LEASED",
                        KeyOf(d) = KeyOf(e), KeyOf(d) # NoConflict
                 PROVE  d = e
      BY DEF OneLeasePerConflictKey
    <2>1. conflict[KeyOf(d)].ep = d /\ conflict[KeyOf(e)].ep = e
      BY DEF Exclusive
    <2> QED BY <2>1
  <1> QED BY <1>1 DEF Exclusive, ConflictExclusion

\* If no logical restore takes the conflict leases away, two episodes of one
\* conflict key are never leased at once, and a conflict key is blocked exactly
\* while an episode of it is leased, under that lease's token and expiry:
\* whatever expires, is swept, claimed again, finished late, cancelled,
\* requeued, withdrawn or replaced meanwhile.
THEOREM ConflictKeysExclude ==
  ASSUME "RECOVERY" \notin Procedures
  PROVE  Spec => []ConflictExclusion
  <1>1. ConflictInv /\ [Next]_vars => ConflictInv'
    BY ConflictStep
  <1>2. ConflictInv => ConflictExclusion
    BY ExclusiveExcludes DEF ConflictInv
  <1> QED BY <1>1, <1>2, InitConflict, PTL DEF Spec
=============================================================================
