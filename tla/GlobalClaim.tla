---------------------------- MODULE GlobalClaim ----------------------------
(***************************************************************************)
(* pgreact.claim: one call claims episodes of every rule version, in an    *)
(* order over all of them, inside one transaction.                         *)
(*                                                                         *)
(* A call lists its candidates once, then tries them in turn: it takes the *)
(* advisory lock of the candidate's version, which it keeps to the end of  *)
(* its transaction, and lets claim_episode choose the first claimable      *)
(* episode of that version.  When the choice is another episode the        *)
(* subtransaction is rolled back, with the lock if it was taken in it.     *)
(* Between two candidates other callers claim, execute and finish; two     *)
(* callers may wait for each other's version locks, and PostgreSQL then    *)
(* aborts one of them.                                                     *)
(*                                                                         *)
(* This module holds the steps of a claim, of an execution and of run();   *)
(* ManagedWorker composes them.  Leases do not expire and an execution is  *)
(* final here: expiry, retries, barriers and due times are the subject of  *)
(* RuleRuntime.  Every version is ACTIVE and no policy set scopes it.      *)
(***************************************************************************)
EXTENDS Integers, FiniteSets, SequencesExt

CONSTANTS
  Callers,        \* sessions that claim: the managed worker and pg-reactd's
  Versions,       \* rule versions
  Episodes,       \* slots of the agenda; a finished one is free for new work
  VersionOf,      \* [Episodes -> Versions]
  ConflictKey,    \* [Episodes -> conflict keys \cup {NoConflict}]
  NoConflict,     \* the NULL conflict key
  Salience,       \* [Versions -> Int]
  GroupOf,        \* [Versions -> agenda groups]
  GroupLimit,     \* [groups -> Nat]: max_leases; a large one for no row
  NoOne           \* no session

ASSUME AgendaAssumption ==
  /\ VersionOf \in [Episodes -> Versions]
  /\ Salience \in [Versions -> Int]
  /\ NoOne \notin Callers
  /\ IsFiniteSet(Episodes)
ASSUME GroupAssumption ==
  \A v \in Versions : GroupLimit[GroupOf[v]] \in Nat

VARIABLES
  queue,          \* open episodes in order of available_at, then id
  aged,           \* open episodes available longer than fairness_window
  owner,          \* committed leases: [Episodes -> Callers \cup {NoOne}]
  lock,           \* holder of each version's advisory lock
  exclusive,      \* the transaction holding the coordinator lock exclusively
  call            \* what each session is doing

claimVars == <<queue, aged, owner, lock, exclusive, call>>

Idle == [pc |-> "idle", list |-> <<>>, room |-> 0, claimed |-> <<>>, ran |-> {}]

Open == Range(queue)

\* Fault: a session sees its own leases only.
OwnLeases(w) == Range(call[w].claimed)

\* Leases that a session sees: the committed ones and its own.
Leases(w) == {e \in Episodes : owner[e] # NoOne} \cup Range(call[w].claimed)

\* Rows that another open transaction has locked: FOR UPDATE SKIP LOCKED.
RowLocked(w, e) == \E u \in Callers \ {w} : e \in Range(call[u].claimed)

Claimable(w, v) ==
  {e \in Episodes :
     /\ e \in Open \ Leases(w)
     /\ VersionOf[e] = v
     /\ ~RowLocked(w, e)
     /\ \/ ConflictKey[e] = NoConflict
        \/ \A d \in Leases(w) :
             VersionOf[d] = v => ConflictKey[d] # ConflictKey[e]}

GroupFull(w, g) ==
  Cardinality({e \in Leases(w) : GroupOf[VersionOf[e]] = g}) >= GroupLimit[g]

Bucket(e) == IF e \in aged THEN 0 ELSE 1
Position(e) == CHOOSE i \in DOMAIN queue : queue[i] = e

\* The order of claim: age bucket, salience, then availability.
GloballyBefore(d, e) ==
  \/ Bucket(d) < Bucket(e)
  \/ /\ Bucket(d) = Bucket(e)
     /\ LET urgency(x) == Salience[VersionOf[x]]
        IN  \/ urgency(d) > urgency(e)
            \/ urgency(d) = urgency(e) /\ Position(d) < Position(e)

\* Fault: the newest episode of the version first.
NewestFirst(d, e) == Position(d) > Position(e)

\* The order of claim_episode: age bucket, availability, then salience, which
\* is one value per version.
VersionBefore(d, e) ==
  \/ Bucket(d) < Bucket(e)
  \/ Bucket(d) = Bucket(e) /\ Position(d) < Position(e)

\* The members of S in a strict total order, a set of pairs.
Sorted(S, order) ==
  [n \in 1 .. Cardinality(S) |->
     CHOOSE x \in S : Cardinality({y \in S : <<y, x>> \in order}) = n - 1]

Candidates ==
  LET free == {e \in Open : owner[e] = NoOne}
  IN  Sorted(free, {p \in free \X free : GloballyBefore(p[1], p[2])})

\* What claim_episode returns for a version: at most one episode.
Picked(w, v) ==
  IF GroupFull(w, GroupOf[v])
  THEN {}
  ELSE {e \in Claimable(w, v) :
          \A d \in Claimable(w, v) \ {e} : VersionBefore(e, d)}

\* The end of a transaction releases its locks.
Released(w) == [v \in Versions |-> IF lock[v] = w THEN NoOne ELSE lock[v]]

\* The coordinator lock can be had by w: shared, and exclusively.
Shareable(w) == exclusive \in {NoOne, w}
Available(w) == Shareable(w) /\ \A u \in Callers \ {w} : call[u].pc # "claim"

\* Fault: the loop does not stop at max_items.
Unlimited(w) == call[w].list = <<>>

Exhausted(w) == call[w].list = <<>> \/ call[w].room = 0

BeginClaim(w, limit) ==
  /\ call[w].pc = "poll"
  /\ Shareable(w)
  /\ call' = [call EXCEPT ![w].pc = "claim", ![w].list = Candidates, ![w].room = limit]
  /\ UNCHANGED <<queue, aged, owner, lock, exclusive>>

\* The next candidate has been tried: it was taken, or passed over.
Tried(w, taken) ==
  [call EXCEPT ![w].list = Tail(@),
               ![w].room = IF taken THEN @ - 1 ELSE @,
               ![w].claimed = IF taken THEN Append(@, Head(call[w].list)) ELSE @]

\* Fault: the version lock is released when claim_episode returns.
TryUnlocked(w) ==
  /\ call[w].pc = "claim"
  /\ ~Exhausted(w)
  /\ LET e == Head(call[w].list)
     IN  /\ lock[VersionOf[e]] \in {NoOne, w}
         /\ call' = Tried(w, e \in Picked(w, VersionOf[e]))
  /\ UNCHANGED <<queue, aged, owner, lock, exclusive>>

\* One candidate, once its version's lock is free.  The lock is kept, unless
\* claim_episode took another episode and its subtransaction is rolled back.
TryCandidate(w) ==
  /\ call[w].pc = "claim"
  /\ ~Exhausted(w)
  /\ LET e == Head(call[w].list)
         v == VersionOf[e]
         picked == Picked(w, v)
     IN  /\ lock[v] \in {NoOne, w}
         /\ lock' = IF picked = {} \/ e \in picked THEN [lock EXCEPT ![v] = w] ELSE lock
         /\ call' = Tried(w, e \in picked)
  /\ UNCHANGED <<queue, aged, owner, exclusive>>

\* pg-reactd's claim commits: its leases become visible, and its batch.
CommitClaim(w) ==
  /\ call[w].pc = "claim"
  /\ Exhausted(w)
  /\ owner' = [e \in Episodes |-> IF e \in Range(call[w].claimed) THEN w ELSE owner[e]]
  /\ lock' = Released(w)
  /\ call' = [call EXCEPT ![w] = IF @.claimed = <<>> THEN Idle
                                 ELSE [Idle EXCEPT !.pc = "execute", !.list = call[w].claimed]]
  /\ UNCHANGED <<queue, aged, exclusive>>

Without(finished) ==
  LET kept == {i \in DOMAIN queue : queue[i] \notin finished}
      order == Sorted(kept, {p \in kept \X kept : p[1] < p[2]})
  IN  [n \in DOMAIN order |-> queue[order[n]]]

Remaining(w) ==
  IF Len(call[w].list) = 1 THEN Idle ELSE [call[w] EXCEPT !.list = Tail(@)]

\* execute of the next episode of a batch, a transaction of its own.
Execute(w) ==
  /\ call[w].pc = "execute"
  /\ Shareable(w)
  /\ LET e == Head(call[w].list)
     IN  /\ lock[VersionOf[e]] = NoOne
         /\ queue' = Without({e})
         /\ aged' = aged \ {e}
         /\ owner' = [owner EXCEPT ![e] = NoOne]
         /\ call' = [call EXCEPT ![w] = Remaining(w)]
  /\ UNCHANGED <<lock, exclusive>>

\* Fault: what run() wrote stays when its transaction rolls back.
AbortKeeping(w) ==
  /\ lock' = Released(w)
  /\ exclusive' = IF exclusive = w THEN NoOne ELSE exclusive
  /\ call' = [call EXCEPT ![w] = Idle]
  /\ UNCHANGED <<queue, aged, owner>>

\* A transaction rolls back, with what run() wrote in it.
Abort(w) ==
  /\ queue' = Without(call[w].ran)
  /\ aged' = aged \ call[w].ran
  /\ lock' = Released(w)
  /\ exclusive' = IF exclusive = w THEN NoOne ELSE exclusive
  /\ call' = [call EXCEPT ![w] = Idle]
  /\ UNCHANGED owner

\* The session whose version lock w waits for.
BlockedBy(w) ==
  IF call[w].pc # "claim" \/ Exhausted(w) THEN NoOne
  ELSE LET holder == lock[VersionOf[Head(call[w].list)]]
       IN  IF holder = w THEN NoOne ELSE holder

\* w is on a cycle of waiting sessions: the deadlock detector may abort it.
Deadlocked(w) ==
  \E cycle \in SUBSET Callers : w \in cycle /\ {BlockedBy(u) : u \in cycle} = cycle

\* run() adds an event's episode behind the open ones, or finds nothing new
\* (bound: one episode a run).
NewWork == {<<>>} \cup {<<e>> : e \in Episodes \ Open}

\* Time passes: the fairness window closes over the oldest open episode.
Age ==
  /\ \E e \in Open \ aged :
       /\ \A d \in Open \ aged : Position(e) <= Position(d)
       /\ aged' = aged \cup {e}
  /\ UNCHANGED <<queue, owner, lock, exclusive, call>>
=============================================================================
