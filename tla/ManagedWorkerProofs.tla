------------------------ MODULE ManagedWorkerProofs ------------------------
(***************************************************************************)
(* Five properties of the workers, for any number of sessions, versions,   *)
(* episodes and groups.                                                    *)
(*                                                                         *)
(* VersionBudget: the argument is the version lock.  Whatever a session    *)
(* has claimed and not committed is of a version whose lock it holds       *)
(* (ClaimsLocked), so the leases that claim_episode counts before it takes *)
(* one more are all the leases of the version there are.                   *)
(*                                                                         *)
(* TypeOK: a batch to execute is never empty (Sound), and Sorted lists the *)
(* members of a finite set in a strict total order, each once.             *)
(*                                                                         *)
(* OrdersAgree: the fairness window closes over the oldest episodes first  *)
(* (AgendaInv), so within a version both orders are the order of           *)
(* availability; new work comes in only while nobody else claims, and      *)
(* nothing else changes that order, so a claim's list stays in it (Sound). *)
(*                                                                         *)
(* HeldByOne: claims are kept apart by the version locks, what is claimed  *)
(* and what is in a batch by the committed leases, and the work of a run() *)
(* that has not committed by the coordinator lock (HoldInv).               *)
(*                                                                         *)
(* ImplementsPool: only the managed worker's transaction has uncommitted   *)
(* coordination, and it leaves no batch (CoordinationInv); with HoldInv,   *)
(* each step is one of WorkPool's, or changes nothing that is committed.   *)
(***************************************************************************)
EXTENDS ManagedWorker, FiniteSetTheorems, SequenceTheorems, TLAPS

Claims(w) == Range(call[w].claimed)

\* A session's record has the fields of Idle.
IsCall(r) ==
  r \in [pc: {r.pc}, list: {r.list}, room: {r.room}, claimed: {r.claimed}, ran: {r.ran}]

Shape ==
  /\ call = [w \in Callers |-> call[w]]
  /\ \A w \in Callers : IsCall(call[w]) /\ call[w].claimed \in Seq(Episodes)
  /\ owner \in [Episodes -> Callers \cup {NoOne}]
  /\ lock \in [Versions -> Callers \cup {NoOne}]

ClaimsLocked ==
  \A w \in Callers : \A e \in Claims(w) : call[w].pc = "claim" /\ lock[VersionOf[e]] = w

\* Between cycles the managed worker has no transaction.
ProcessIdle == process # "CYCLE" => call[Manager].pc = "idle"

Core == Shape /\ ClaimsLocked /\ VersionBudget
IInv == Core /\ ProcessIdle

-----------------------------------------------------------------------------
LEMMA EmptyRange == Range(<<>>) = {}
  BY DEF Range

LEMMA RangeAppend ==
  ASSUME NEW s \in Seq(Episodes), NEW e \in Episodes
  PROVE  /\ Append(s, e) \in Seq(Episodes)
         /\ Range(Append(s, e)) = Range(s) \cup {e}
  <1>1. /\ Append(s, e) \in Seq(Episodes)
        /\ DOMAIN Append(s, e) = 1 .. Len(s) + 1
        /\ \A i \in 1 .. Len(s) : Append(s, e)[i] = s[i]
        /\ Append(s, e)[Len(s) + 1] = e
        /\ DOMAIN s = 1 .. Len(s) /\ Len(s) \in Nat
    OBVIOUS
  <1>2. \A i \in 1 .. Len(s) + 1 : i \in 1 .. Len(s) \/ i = Len(s) + 1
    BY <1>1
  <1>3. 1 .. Len(s) \subseteq 1 .. Len(s) + 1 /\ Len(s) + 1 \in 1 .. Len(s) + 1
    BY <1>1
  <1> HIDE <1>1
  <1>4. Range(Append(s, e)) \subseteq Range(s) \cup {e}
    BY <1>1, <1>2 DEF Range
  <1>5. Range(s) \cup {e} \subseteq Range(Append(s, e))
    BY <1>1, <1>3 DEF Range
  <1> QED BY <1>1, <1>4, <1>5

\* Fewer leases of a version, or as many, keep its budget.
LEMMA BudgetKept ==
  ASSUME VersionBudget, \A v \in Versions : Running(v)' \subseteq Running(v)
  PROVE  VersionBudget'
  <1> SUFFICES ASSUME NEW v \in Versions
               PROVE  Cardinality(Running(v)') <= GroupLimit[GroupOf[v]]
    BY DEF VersionBudget
  <1>1. IsFiniteSet(Running(v))
    BY FS_Subset, AgendaAssumption DEF Running
  <1>2. /\ Cardinality(Running(v)') <= Cardinality(Running(v))
        /\ Cardinality(Running(v)') \in Nat /\ Cardinality(Running(v)) \in Nat
    BY <1>1, FS_Subset, FS_CardinalityType
  <1>3. GroupLimit[GroupOf[v]] \in Nat
    BY GroupAssumption
  <1>4. Cardinality(Running(v)) <= GroupLimit[GroupOf[v]]
    BY DEF VersionBudget
  <1> QED BY <1>2, <1>3, <1>4

-----------------------------------------------------------------------------
\* A session that has claimed something is in its claiming transaction.
LEMMA OnlyClaimsInClaim ==
  ASSUME Core, NEW w \in Callers, call[w].pc # "claim"
  PROVE  Claims(w) = {}
  BY DEF Core, ClaimsLocked

\* One session's transaction ends or goes on with nothing claimed: it keeps or
\* releases its locks, and leases are kept or dropped.
LEMMA Forgets ==
  ASSUME Core, NEW w \in Callers, NEW r,
         IsCall(r), r.claimed \in Seq(Episodes), Range(r.claimed) = {},
         call' = [call EXCEPT ![w] = r],
         lock' = lock \/ lock' = Released(w),
         owner' \in [Episodes -> Callers \cup {NoOne}],
         \A e \in Episodes : owner'[e] \in {owner[e], NoOne}
  PROVE  Core' /\ call'[w] = r /\ \A u \in Callers \ {w} : call'[u] = call[u]
  <1>1. /\ call' = [u \in Callers |-> IF u = w THEN r ELSE call[u]]
        /\ call'[w] = r
        /\ \A u \in Callers \ {w} : call'[u] = call[u]
    BY DEF Core, Shape
  <1>2. /\ Claims(w)' = {}
        /\ \A u \in Callers \ {w} : Claims(u)' = Claims(u)
    BY <1>1 DEF Claims
  <1>3. lock' \in [Versions -> Callers \cup {NoOne}]
    BY DEF Core, Shape, Released
  <1>4. call' = [u \in Callers |-> call'[u]]
    BY <1>1
  <1>5. Shape'
    <2>1. \A u \in Callers : IsCall(call'[u]) /\ call'[u].claimed \in Seq(Episodes)
      BY <1>1 DEF Core, Shape
    <2> QED BY <1>3, <1>4, <2>1 DEF Shape, IsCall
  <1>6. ClaimsLocked'
    <2> SUFFICES ASSUME NEW u \in Callers, NEW e \in Claims(u)'
                 PROVE  call'[u].pc = "claim" /\ lock'[VersionOf[e]] = u
      BY DEF ClaimsLocked
    <2>1. u # w /\ e \in Claims(u)
      BY <1>2
    <2>2. call[u].pc = "claim" /\ lock[VersionOf[e]] = u
      BY <2>1 DEF Core, ClaimsLocked
    <2>3. e \in Episodes
      BY <2>1 DEF Core, Shape, Claims, Range
    <2>4. VersionOf[e] \in Versions
      BY <2>3, AgendaAssumption
    <2>5. lock'[VersionOf[e]] = u
      BY <2>1, <2>2, <2>4 DEF Released
    <2> QED BY <1>1, <2>1, <2>2, <2>5
  <1>7. \A v \in Versions : Running(v)' \subseteq Running(v)
    BY <1>2 DEF Running, Claims
  <1>8. VersionBudget'
    BY <1>7, BudgetKept DEF Core
  <1> QED BY <1>1, <1>5, <1>6, <1>8 DEF Core

-----------------------------------------------------------------------------
\* Committed: what was claimed by the transaction is leased.
LEMMA CommitsClaim ==
  ASSUME Core, NEW w \in Callers, CommitClaim(w)
  PROVE  Core' /\ \A u \in Callers \ {w} : call'[u] = call[u]
  <1> DEFINE r == IF call[w].claimed = <<>> THEN Idle
                  ELSE [Idle EXCEPT !.pc = "execute", !.list = call[w].claimed]
  <1>1. IsCall(r) /\ r.claimed = <<>>
    BY DEF IsCall, Idle
  <1>2. call' = [call EXCEPT ![w] = r]
    BY DEF CommitClaim
  <1> HIDE DEF r
  <1>3. /\ call' = [u \in Callers |-> IF u = w THEN r ELSE call[u]]
        /\ call'[w] = r
        /\ \A u \in Callers \ {w} : call'[u] = call[u]
    BY <1>2 DEF Core, Shape
  <1>4. Claims(w)' = {} /\ \A u \in Callers \ {w} : Claims(u)' = Claims(u)
    BY <1>1, <1>3, EmptyRange DEF Claims
  <1>5. /\ lock' \in [Versions -> Callers \cup {NoOne}]
        /\ owner' \in [Episodes -> Callers \cup {NoOne}]
        /\ \A e \in Episodes : owner'[e] = IF e \in Claims(w) THEN w ELSE owner[e]
    BY DEF Core, Shape, CommitClaim, Released, Claims
  <1>6. Shape'
    <2>1. \A u \in Callers : IsCall(call'[u]) /\ call'[u].claimed \in Seq(Episodes)
      <3>1. IsCall(call'[w]) /\ call'[w].claimed \in Seq(Episodes)
        <4>1. <<>> \in Seq(Episodes)
          OBVIOUS
        <4> QED BY <1>1, <1>3, <4>1, Zenon
      <3>2. \A u \in Callers \ {w} : IsCall(call[u]) /\ call[u].claimed \in Seq(Episodes)
        BY DEF Core, Shape
      <3> QED BY <1>3, <3>1, <3>2
    <2>2. call' = [u \in Callers |-> call'[u]]
      BY <1>3
    <2> QED BY <1>5, <2>1, <2>2 DEF Shape, IsCall
  <1>7. ClaimsLocked'
    <2> SUFFICES ASSUME NEW u \in Callers, NEW e \in Claims(u)'
                 PROVE  call'[u].pc = "claim" /\ lock'[VersionOf[e]] = u
      BY DEF ClaimsLocked
    <2>1. u # w /\ e \in Claims(u)
      BY <1>4
    <2>2. call[u].pc = "claim" /\ lock[VersionOf[e]] = u
      BY <2>1 DEF Core, ClaimsLocked
    <2>3. VersionOf[e] \in Versions
      BY <2>1, AgendaAssumption DEF Core, Shape, Claims, Range
    <2>4. lock'[VersionOf[e]] = u
      BY <2>1, <2>2, <2>3 DEF CommitClaim, Released
    <2> QED BY <1>3, <2>1, <2>2, <2>4
  <1>8. \A v \in Versions : Running(v)' \subseteq Running(v)
    <2> SUFFICES ASSUME NEW v \in Versions, NEW e \in Running(v)'
                 PROVE  e \in Running(v)
      OBVIOUS
    <2>1. e \in Episodes /\ VersionOf[e] = v
      BY DEF Running
    <2>2. CASE e \in Claims(w)
      BY <2>1, <2>2 DEF Running, Claims
    <2>3. CASE e \notin Claims(w) /\ owner'[e] # NoOne
      BY <1>5, <2>1, <2>3 DEF Running
    <2>4. CASE \E u \in Callers : e \in Claims(u)'
      BY <1>4, <2>1, <2>4 DEF Running, Claims
    <2> QED BY <2>2, <2>3, <2>4 DEF Running, Claims
  <1> QED BY <1>3, <1>6, <1>7, <1>8, BudgetKept DEF Core

\* Under its lock, the leases of a version are among those its holder sees.
LEMMA HolderSeesLeases ==
  ASSUME Core, NEW w \in Callers, NEW v \in Versions, lock[v] \in {NoOne, w}
  PROVE  Running(v) \subseteq {e \in Leases(w) : GroupOf[VersionOf[e]] = GroupOf[v]}
  <1> SUFFICES ASSUME NEW e \in Running(v)
               PROVE  e \in Leases(w)
    BY DEF Running
  <1>1. CASE owner[e] # NoOne
    BY <1>1 DEF Running, Leases
  <1>2. CASE owner[e] = NoOne
    <2>1. PICK u \in Callers : e \in Claims(u)
      BY <1>2 DEF Running, Claims
    <2>2. lock[v] = u
      BY <2>1 DEF Core, ClaimsLocked, Running
    <2>3. u = w
      BY <2>2, AgendaAssumption
    <2> QED BY <2>1, <2>3 DEF Leases, Claims
  <1> QED BY <1>1, <1>2

LEMMA TriesCandidate ==
  ASSUME Core, NEW w \in Callers, TryCandidate(w)
  PROVE  Core' /\ \A u \in Callers \ {w} : call'[u] = call[u]
  <1> DEFINE e == Head(call[w].list)
             v == VersionOf[e]
             picked == Picked(w, v)
             taken == e \in picked
             r == [call[w] EXCEPT !.list = Tail(@),
                                  !.room = IF taken THEN @ - 1 ELSE @,
                                  !.claimed = IF taken THEN Append(@, e) ELSE @]
  <1>1. /\ call[w].pc = "claim" /\ lock[v] \in {NoOne, w}
        /\ lock' = IF picked = {} \/ taken THEN [lock EXCEPT ![v] = w] ELSE lock
        /\ owner' = owner
    BY DEF TryCandidate
  <1>2. call' = [call EXCEPT ![w] = r]
    BY DEF TryCandidate, Tried
  <1>3. taken => /\ e \in Episodes /\ v \in Versions
                 /\ ~GroupFull(w, GroupOf[v])
    BY AgendaAssumption DEF Picked, Claimable
  <1> HIDE DEF e, v, picked, taken
  <1>4. /\ IsCall(r) /\ r.pc = "claim"
        /\ r.claimed = IF taken THEN Append(call[w].claimed, e) ELSE call[w].claimed
    <2>1. IsCall(call[w])
      BY DEF Core, Shape
    <2> QED BY <1>1, <2>1 DEF IsCall
  <1> HIDE DEF r
  <1>5. /\ r.claimed \in Seq(Episodes)
        /\ Range(r.claimed) = IF taken THEN Claims(w) \cup {e} ELSE Claims(w)
    BY <1>3, <1>4, RangeAppend DEF Core, Shape, Claims
  <1>6. /\ call' = [u \in Callers |-> IF u = w THEN r ELSE call[u]]
        /\ call'[w] = r
        /\ \A u \in Callers \ {w} : call'[u] = call[u]
    BY <1>2 DEF Core, Shape
  <1>7. /\ Claims(w)' = IF taken THEN Claims(w) \cup {e} ELSE Claims(w)
        /\ \A u \in Callers \ {w} : Claims(u)' = Claims(u)
    BY <1>5, <1>6 DEF Claims
  <1>8. Shape'
    <2>1. \A u \in Callers : IsCall(call'[u]) /\ call'[u].claimed \in Seq(Episodes)
      BY <1>4, <1>5, <1>6 DEF Core, Shape
    <2>2. call' = [u \in Callers |-> call'[u]]
      BY <1>6
    <2>3. lock' \in [Versions -> Callers \cup {NoOne}]
      BY <1>1 DEF Core, Shape
    <2>4. owner' \in [Episodes -> Callers \cup {NoOne}]
      BY <1>1 DEF Core, Shape
    <2> QED BY <2>1, <2>2, <2>3, <2>4 DEF Shape, IsCall
  <1>9. ClaimsLocked'
    <2> SUFFICES ASSUME NEW u \in Callers, NEW d \in Claims(u)'
                 PROVE  call'[u].pc = "claim" /\ lock'[VersionOf[d]] = u
      BY DEF ClaimsLocked
    <2>1. CASE u = w /\ taken /\ d = e
      BY <1>1, <1>3, <1>4, <1>6, <2>1 DEF Core, Shape, v
    <2>2. CASE d \in Claims(u)
      <3>1. call[u].pc = "claim" /\ lock[VersionOf[d]] = u
        BY <2>2 DEF Core, ClaimsLocked
      <3>2. VersionOf[d] \in Versions
        BY <2>2, AgendaAssumption DEF Core, Shape, Claims, Range
      <3>3. u # w => VersionOf[d] # v
        BY <1>1, <3>1, AgendaAssumption
      <3>4. lock'[VersionOf[d]] = u
        BY <1>1, <3>1, <3>2, <3>3 DEF Core, Shape
      <3> QED BY <1>4, <1>6, <3>1, <3>4
    <2> QED BY <1>7, <2>1, <2>2
  <1>10. VersionBudget'
    <2>1. CASE ~taken
      <3>1. \A x \in Versions : Running(x)' \subseteq Running(x)
        BY <1>1, <1>7, <2>1 DEF Running, Claims
      <3> QED BY <3>1, BudgetKept DEF Core
    <2>2. CASE taken
      <3> SUFFICES ASSUME NEW x \in Versions
                   PROVE  Cardinality(Running(x)') <= GroupLimit[GroupOf[x]]
        BY DEF VersionBudget
      <3>1. Running(x)' \subseteq Running(x) \cup (IF x = v THEN {e} ELSE {})
        <4> SUFFICES ASSUME NEW d \in Running(x)', d \notin Running(x)
                     PROVE  x = v /\ d = e
          OBVIOUS
        <4>1. d \in Episodes /\ VersionOf[d] = x /\ owner[d] = NoOne
          BY <1>1 DEF Running
        <4>2. PICK u \in Callers : d \in Claims(u)' /\ d \notin Claims(u)
          BY <1>1, <4>1 DEF Running, Claims
        <4>3. d = e
          BY <1>7, <2>2, <4>2
        <4> QED BY <4>1, <4>3 DEF v
      <3>2. IsFiniteSet(Running(x))
        BY FS_Subset, AgendaAssumption DEF Running
      <3>3. GroupLimit[GroupOf[x]] \in Nat
        BY GroupAssumption
      <3>4. CASE x = v
        <4> DEFINE seen == {d \in Leases(w) : GroupOf[VersionOf[d]] = GroupOf[v]}
        <4>1. Running(x) \subseteq seen
          BY <1>1, <3>4, HolderSeesLeases
        <4>2. IsFiniteSet(seen)
          <5>1. Claims(w) \subseteq Episodes
            BY DEF Core, Shape, Claims, Range
          <5>2. seen \subseteq Episodes
            BY <5>1 DEF Leases, Claims
          <5> QED BY <5>2, FS_Subset, AgendaAssumption
        <4>3. Cardinality(Running(x)) <= Cardinality(seen)
          BY <4>1, <4>2, FS_Subset
        <4>4. ~(Cardinality(seen) >= GroupLimit[GroupOf[x]])
          BY <1>3, <2>2, <3>4 DEF GroupFull
        <4> HIDE DEF seen
        <4>5. Cardinality(Running(x)) \in Nat /\ Cardinality(seen) \in Nat
          BY <3>2, <4>2, FS_CardinalityType
        <4>6. Cardinality(Running(x)) + 1 <= GroupLimit[GroupOf[x]]
          BY <3>3, <4>3, <4>4, <4>5
        <4>7. /\ IsFiniteSet(Running(x) \cup {e})
              /\ Cardinality(Running(x) \cup {e}) <= Cardinality(Running(x)) + 1
              /\ Cardinality(Running(x) \cup {e}) \in Nat
          <5> DEFINE leases == Running(x)
          <5>1. IsFiniteSet(leases) /\ Cardinality(leases) \in Nat
            BY <3>2, <4>5
          <5> HIDE DEF leases
          <5>2. /\ IsFiniteSet(leases \cup {e})
                /\ Cardinality(leases \cup {e}) =
                     IF e \in leases THEN Cardinality(leases) ELSE Cardinality(leases) + 1
            BY <5>1, FS_AddElement
          <5>3. Cardinality(leases \cup {e}) <= Cardinality(leases) + 1
            BY <5>1, <5>2
          <5>4. Cardinality(leases \cup {e}) \in Nat
            BY <5>2, FS_CardinalityType
          <5> QED BY <5>2, <5>3, <5>4 DEF leases
        <4>8. /\ Cardinality(Running(x)') <= Cardinality(Running(x) \cup {e})
              /\ Cardinality(Running(x)') \in Nat
          BY <3>1, <3>4, <4>7, FS_Subset, FS_CardinalityType
        <4> QED BY <3>3, <4>5, <4>6, <4>7, <4>8
      <3>5. CASE x # v
        <4>1. /\ Cardinality(Running(x)') <= Cardinality(Running(x))
              /\ Cardinality(Running(x)') \in Nat /\ Cardinality(Running(x)) \in Nat
          BY <3>1, <3>2, <3>5, FS_Subset, FS_CardinalityType
        <4>2. Cardinality(Running(x)) <= GroupLimit[GroupOf[x]]
          BY DEF Core, VersionBudget
        <4> QED BY <3>3, <4>1, <4>2
      <3> QED BY <3>4, <3>5
    <2> QED BY <2>1, <2>2
  <1> QED BY <1>6, <1>8, <1>9, <1>10 DEF Core

-----------------------------------------------------------------------------
LEMMA InitInv == Init => IInv
  <1> SUFFICES ASSUME Init PROVE IInv
    OBVIOUS
  <1>1. \A w \in Callers : call[w] = Idle
    BY DEF Init
  <1>2. \A w \in Callers : Claims(w) = {}
    BY <1>1, EmptyRange DEF Claims, Idle
  <1>3. Shape
    <2>1. IsCall(Idle) /\ Idle.claimed \in Seq(Episodes)
      BY DEF IsCall, Idle
    <2>2. call = [w \in Callers |-> call[w]]
      BY DEF Init
    <2> QED BY <1>1, <2>1, <2>2 DEF Shape, Init
  <1>4. VersionBudget
    <2> SUFFICES ASSUME NEW v \in Versions
                 PROVE  Cardinality(Running(v)) <= GroupLimit[GroupOf[v]]
      BY DEF VersionBudget
    <2>1. Running(v) = {}
      BY <1>2 DEF Running, Claims, Init
    <2> QED BY <2>1, FS_EmptySet, GroupAssumption
  <1>5. call[Manager].pc = "idle"
    BY <1>1, ManagerAssumption DEF Idle
  <1> QED BY <1>2, <1>3, <1>4, <1>5 DEF IInv, Core, ClaimsLocked, ProcessIdle

\* Nothing of the agenda, the locks and the sessions changes.
LEMMA Unmoved ==
  ASSUME Core, UNCHANGED <<owner, lock, call>>
  PROVE  Core'
  <1>1. \A v \in Versions : Running(v)' \subseteq Running(v)
    BY DEF Running
  <1>2. Shape' /\ ClaimsLocked'
    BY DEF Core, Shape, ClaimsLocked, Claims, IsCall
  <1> QED BY <1>1, <1>2, BudgetKept DEF Core

\* What a session's step leaves of the other sessions.
OnlyMoves(w) == \A u \in Callers \ {w} : call'[u] = call[u]

LEMMA Resets ==
  ASSUME Core, NEW w \in Callers, call' = [call EXCEPT ![w] = Idle],
         lock' = lock \/ lock' = Released(w), owner' = owner
  PROVE  Core' /\ call'[w] = Idle /\ OnlyMoves(w)
  <1>1. IsCall(Idle) /\ Idle.claimed \in Seq(Episodes) /\ Range(Idle.claimed) = {}
    BY EmptyRange DEF IsCall, Idle
  <1>2. owner' \in [Episodes -> Callers \cup {NoOne}]
    BY DEF Core, Shape
  <1> QED BY <1>1, <1>2, Forgets DEF OnlyMoves

LEMMA BeginsClaim ==
  ASSUME Core, NEW w \in Callers, NEW limit, BeginClaim(w, limit)
  PROVE  Core' /\ OnlyMoves(w)
  <1> DEFINE r == [call[w] EXCEPT !.pc = "claim", !.list = Candidates, !.room = limit]
  <1>1. call' = [call EXCEPT ![w] = r] /\ lock' = lock /\ owner' = owner
    BY DEF BeginClaim
  <1>2. IsCall(call[w]) /\ call[w].claimed \in Seq(Episodes) /\ Claims(w) = {}
    BY OnlyClaimsInClaim DEF Core, Shape, BeginClaim
  <1>3. IsCall(r) /\ r.claimed = call[w].claimed
    BY <1>2 DEF IsCall
  <1>4. owner' \in [Episodes -> Callers \cup {NoOne}]
    BY <1>1 DEF Core, Shape
  <1> HIDE DEF r
  <1> QED BY <1>1, <1>2, <1>3, <1>4, Forgets DEF Claims, OnlyMoves

LEMMA RunsPass ==
  ASSUME Core, NEW w \in Callers, RunPass(w)
  PROVE  Core' /\ OnlyMoves(w)
  <1> DEFINE r == [call[w] EXCEPT !.pc = "poll"]
  <1>1. call' = [call EXCEPT ![w] = r] /\ lock' = lock /\ owner' = owner
    BY DEF RunPass
  <1>2. IsCall(call[w]) /\ call[w].claimed \in Seq(Episodes) /\ Claims(w) = {}
    BY OnlyClaimsInClaim DEF Core, Shape, RunPass
  <1>3. IsCall(r) /\ r.claimed = call[w].claimed
    BY <1>2 DEF IsCall
  <1>4. owner' \in [Episodes -> Callers \cup {NoOne}]
    BY <1>1 DEF Core, Shape
  <1> HIDE DEF r
  <1> QED BY <1>1, <1>2, <1>3, <1>4, Forgets DEF Claims, OnlyMoves

LEMMA Executes ==
  ASSUME Core, NEW w \in Callers, Execute(w)
  PROVE  Core' /\ OnlyMoves(w)
  <1> DEFINE r == Remaining(w)
  <1>1. call' = [call EXCEPT ![w] = r] /\ lock' = lock
    BY DEF Execute
  <1>2. IsCall(call[w]) /\ call[w].claimed \in Seq(Episodes) /\ Claims(w) = {}
    BY OnlyClaimsInClaim DEF Core, Shape, Execute
  <1>3. IsCall(r) /\ r.claimed \in Seq(Episodes) /\ Range(r.claimed) = {}
    <2>1. CASE Len(call[w].list) = 1
      BY <2>1, EmptyRange DEF IsCall, Idle, Remaining
    <2>2. CASE Len(call[w].list) # 1
      <3>1. IsCall(r) /\ r.claimed = call[w].claimed
        BY <1>2, <2>2 DEF IsCall, Remaining
      <3> QED BY <1>2, <3>1 DEF Claims
    <2> QED BY <2>1, <2>2
  <1>4. /\ owner' \in [Episodes -> Callers \cup {NoOne}]
        /\ \A e \in Episodes : owner'[e] \in {owner[e], NoOne}
    BY DEF Core, Shape, Execute
  <1> HIDE DEF r
  <1> QED BY <1>1, <1>3, <1>4, Forgets DEF OnlyMoves

LEMMA Progresses ==
  ASSUME Core, NEW w \in Callers, Progress(w)
  PROVE  Core' /\ OnlyMoves(w) /\ UNCHANGED workerVars
  <1>1. CASE BeginClaim(w, MaxClaims) /\ UNCHANGED workerVars
    BY <1>1, BeginsClaim
  <1>2. CASE TryCandidate(w) /\ UNCHANGED workerVars
    BY <1>2, TriesCandidate DEF OnlyMoves
  <1>3. CASE CommitClaim(w) /\ UNCHANGED workerVars
    BY <1>3, CommitsClaim DEF OnlyMoves
  <1>4. CASE Execute(w) /\ UNCHANGED workerVars
    BY <1>4, Executes
  <1>5. CASE AbortClaim(w)
    BY <1>5, Resets DEF AbortClaim, Abort
  <1> QED BY <1>1, <1>2, <1>3, <1>4, <1>5 DEF Progress

LEMMA BeginsCycle ==
  ASSUME IInv, BeginCycle
  PROVE  IInv'
  <1>1. CASE UNCHANGED call
    BY <1>1, Unmoved DEF IInv, ProcessIdle, BeginCycle
  <1>2. CASE process' = "CYCLE" /\ ~UNCHANGED call
    <2> DEFINE r == [call[Manager] EXCEPT !.pc = IF Backpressure THEN "poll" ELSE "run",
                                          !.room = ClaimLimit]
    <2>1. call' = [call EXCEPT ![Manager] = r] /\ lock' = lock /\ owner' = owner
      BY <1>2 DEF BeginCycle
    <2>2. /\ IsCall(call[Manager]) /\ call[Manager].claimed \in Seq(Episodes)
          /\ Claims(Manager) = {}
      BY OnlyClaimsInClaim, ManagerAssumption
      DEF IInv, Core, Shape, BeginCycle, ProcessIdle
    <2>3. IsCall(r) /\ r.claimed = call[Manager].claimed
      BY <2>2 DEF IsCall
    <2>4. owner' \in [Episodes -> Callers \cup {NoOne}]
      BY <2>1 DEF IInv, Core, Shape
    <2> HIDE DEF r
    <2>5. Core'
      BY <2>1, <2>2, <2>3, <2>4, Forgets, ManagerAssumption DEF Claims, IInv
    <2> QED BY <1>2, <2>5 DEF IInv, ProcessIdle
  <1> QED BY <1>1, <1>2 DEF BeginCycle

LEMMA RunsInCycle ==
  ASSUME IInv, RunInCycle
  PROVE  IInv'
  <1>1. PICK ran : call' = [call EXCEPT ![Manager].pc = "poll", ![Manager].ran = ran]
    <2>1. CASE \E new \in NewWork :
                 call' = [call EXCEPT ![Manager].pc = "poll", ![Manager].ran = Range(new)]
      BY <2>1
    <2>2. CASE call' = [call EXCEPT ![Manager].pc = "poll"]
      <3>1. IsCall(call[Manager])
        BY ManagerAssumption DEF IInv, Core, Shape
      <3>2. [call[Manager] EXCEPT !.pc = "poll"]
              = [call[Manager] EXCEPT !.pc = "poll", !.ran = call[Manager].ran]
        BY <3>1 DEF IsCall
      <3>3. call' = [call EXCEPT ![Manager].pc = "poll", ![Manager].ran = call[Manager].ran]
        BY <2>2, <3>2
      <3> QED BY <3>3
    <2> QED BY <2>1, <2>2 DEF RunInCycle
  <1> DEFINE r == [call[Manager] EXCEPT !.pc = "poll", !.ran = ran]
  <1>2. call' = [call EXCEPT ![Manager] = r] /\ lock' = lock /\ owner' = owner
    BY <1>1 DEF RunInCycle
  <1>3. /\ IsCall(call[Manager]) /\ call[Manager].claimed \in Seq(Episodes)
        /\ Claims(Manager) = {} /\ process = "CYCLE" /\ process' = process
    BY OnlyClaimsInClaim, ManagerAssumption
    DEF IInv, Core, Shape, RunInCycle, ProcessIdle, workerVars
  <1>4. IsCall(r) /\ r.claimed = call[Manager].claimed
    BY <1>3 DEF IsCall
  <1>5. owner' \in [Episodes -> Callers \cup {NoOne}]
    BY <1>2 DEF IInv, Core, Shape
  <1> HIDE DEF r
  <1>6. Core'
    BY <1>2, <1>3, <1>4, <1>5, Forgets, ManagerAssumption DEF Claims, IInv
  <1> QED BY <1>3, <1>6 DEF IInv, ProcessIdle

LEMMA RestartsServer ==
  ASSUME IInv, RestartServer
  PROVE  IInv'
  <1>1. \A w \in Callers : call'[w] = Idle
    BY DEF RestartServer
  <1>2. \A w \in Callers : Claims(w)' = {}
    BY <1>1, EmptyRange DEF Claims, Idle
  <1>3. Shape'
    <2>1. IsCall(Idle) /\ Idle.claimed \in Seq(Episodes)
      BY DEF IsCall, Idle
    <2>2. call' = [w \in Callers |-> call'[w]]
      BY DEF RestartServer
    <2>3. \A w \in Callers : IsCall(call'[w]) /\ call'[w].claimed \in Seq(Episodes)
      BY <1>1, <2>1, Zenon
    <2> QED BY <2>2, <2>3 DEF Shape, IsCall, IInv, Core, RestartServer
  <1>4. \A v \in Versions : Running(v)' \subseteq Running(v)
    BY <1>2 DEF Running, Claims, RestartServer
  <1>5. Core'
    BY <1>2, <1>3, <1>4, BudgetKept DEF Core, IInv, ClaimsLocked
  <1>6. call'[Manager].pc = "idle"
    BY <1>1, ManagerAssumption DEF Idle
  <1> QED BY <1>5, <1>6 DEF IInv, ProcessIdle

LEMMA NextInv == IInv /\ [Next]_vars => IInv'
  <1> SUFFICES ASSUME IInv, [Next]_vars PROVE IInv'
    OBVIOUS
  <1>0. Core /\ ProcessIdle /\ Manager \in Callers
    BY ManagerAssumption DEF IInv
  <1>1. CASE UNCHANGED <<owner, lock, call, process>>
    BY <1>0, <1>1, Unmoved DEF IInv, ProcessIdle
  <1>2. CASE StartProcess \/ WaitLatch
    BY <1>0, <1>2, Unmoved DEF IInv, ProcessIdle, StartProcess, WaitLatch, claimVars
  <1>3. CASE BeginCycle
    BY <1>3, BeginsCycle
  <1>4. CASE RunInCycle
    BY <1>4, RunsInCycle
  <1>5. CASE ClaimInCycle
    BY <1>0, <1>5, BeginsClaim
    DEF IInv, ProcessIdle, ClaimInCycle, BeginClaim, workerVars
  <1>6. CASE TryCandidate(Manager) /\ UNCHANGED workerVars
    BY <1>0, <1>6, TriesCandidate DEF IInv, ProcessIdle, TryCandidate, workerVars
  <1>7. CASE CycleFails \/ FinishCycle \/ Crash
    <2>1. /\ call' = [call EXCEPT ![Manager] = Idle]
          /\ lock' = Released(Manager) /\ owner' = owner
      BY <1>7 DEF CycleFails, FinishCycle, Crash, Abort
    <2>2. Core' /\ call'[Manager] = Idle
      BY <1>0, <2>1, Resets
    <2> QED BY <2>2 DEF IInv, ProcessIdle, Idle
  <1>8. CASE \E w \in Daemons : RunPass(w) \/ Progress(w)
    <2>1. PICK w \in Callers \ {Manager} : RunPass(w) \/ Progress(w)
      BY <1>8 DEF Daemons
    <2>2. Core' /\ OnlyMoves(w) /\ process' = process
      BY <1>0, <2>1, RunsPass, Progresses DEF RunPass, workerVars
    <2>3. call'[Manager] = call[Manager]
      BY <1>0, <2>1, <2>2 DEF OnlyMoves
    <2> QED BY <1>0, <2>2, <2>3 DEF IInv, ProcessIdle
  <1>9. CASE RestartServer
    BY <1>9, RestartsServer
  <1>10. CASE (Age /\ UNCHANGED workerVars) \/ Terminate \/ Administer
    BY <1>1, <1>10 DEF Age, Terminate, Administer, claimVars, workerVars
  <1> QED
    BY <1>1, <1>2, <1>3, <1>4, <1>5, <1>6, <1>7, <1>8, <1>9, <1>10
    DEF Next, WorkerStep, vars, claimVars, workerVars

\* However many sessions claim, a version never has more episodes leased than
\* its agenda group's max_leases (pgreact.claim, claim_episode).
THEOREM BudgetHeld == Spec => []VersionBudget
  <1>1. IInv => VersionBudget
    BY DEF IInv, Core
  <1> QED BY <1>1, InitInv, NextInv, PTL DEF Spec

\* What a session has claimed and not committed is of versions whose lock it
\* holds: no two open claims hold episodes of one version.
OneClaimantPerVersion ==
  \A u, w \in Callers : \A d \in Claims(u), e \in Claims(w) :
    VersionOf[d] = VersionOf[e] => u = w

\* The version lock keeps open claims of a version apart (pgreact.claim with
\* the m31 wrapper of claim_episode).
THEOREM ClaimsApart == Spec => []OneClaimantPerVersion
  <1>1. IInv => OneClaimantPerVersion
    BY DEF IInv, Core, ClaimsLocked, OneClaimantPerVersion
  <1> QED BY <1>1, InitInv, NextInv, PTL DEF Spec

-----------------------------------------------------------------------------
(* A finite set in a strict total order is listed by Sorted.               *)

TotalOrder(S, R) ==
  /\ \A x \in S : <<x, x>> \notin R
  /\ \A x, y, z \in S : <<x, y>> \in R /\ <<y, z>> \in R => <<x, z>> \in R
  /\ \A x, y \in S : x # y => <<x, y>> \in R \/ <<y, x>> \in R

Rank(S, R) == [x \in S |-> Cardinality({y \in S : <<y, x>> \in R})]

\* Ranks rise along the order.
LEMMA RanksRise ==
  ASSUME NEW S, IsFiniteSet(S), NEW R, TotalOrder(S, R)
  PROVE  /\ Rank(S, R) \in [S -> 0 .. Cardinality(S) - 1]
         /\ \A x, y \in S : <<x, y>> \in R <=> Rank(S, R)[x] < Rank(S, R)[y]
  <1> DEFINE Below(x) == {y \in S : <<y, x>> \in R}
  <1>1. ASSUME NEW x \in S
        PROVE  IsFiniteSet(Below(x)) /\ Cardinality(Below(x)) \in Nat
    BY FS_Subset, FS_CardinalityType
  <1>2. ASSUME NEW x \in S, NEW T \in SUBSET S, Below(x) \cup {x} \subseteq T
        PROVE  Cardinality(Below(x)) + 1 <= Cardinality(T)
    <2>1. x \notin Below(x)
      BY DEF TotalOrder
    <2> DEFINE B == Below(x)
    <2>2. IsFiniteSet(B) /\ Cardinality(B) \in Nat /\ x \notin B /\ B \cup {x} \subseteq T
      BY <1>1, <1>2, <2>1
    <2>3. IsFiniteSet(T) /\ Cardinality(T) \in Nat
      BY FS_Subset, FS_CardinalityType
    <2> HIDE DEF B
    <2>4. Cardinality(B \cup {x}) = Cardinality(B) + 1
      BY <2>2, FS_AddElement
    <2>5. Cardinality(B \cup {x}) <= Cardinality(T)
      BY <2>2, <2>3, FS_Subset
    <2>6. Cardinality(B) + 1 <= Cardinality(T)
      BY <2>4, <2>5
    <2> QED BY <2>6 DEF B
  <1>3. ASSUME NEW x \in S, NEW y \in S, <<x, y>> \in R
        PROVE  Cardinality(Below(x)) < Cardinality(Below(y))
    <2>1. Below(x) \cup {x} \subseteq Below(y)
      BY <1>3 DEF TotalOrder
    <2>2. Below(y) \in SUBSET S
      OBVIOUS
    <2> HIDE DEF Below
    <2>3. Cardinality(Below(x)) + 1 <= Cardinality(Below(y))
      BY <1>2, <2>1, <2>2
    <2> QED BY <1>1, <2>3
  <1>4. \A x \in S : Rank(S, R)[x] = Cardinality(Below(x))
    BY DEF Rank
  <1>5. ASSUME NEW x \in S
        PROVE  Cardinality(Below(x)) \in 0 .. Cardinality(S) - 1
    <2>1. Below(x) \cup {x} \subseteq S
      OBVIOUS
    <2>2. Cardinality(S) \in Nat
      BY FS_CardinalityType
    <2> HIDE DEF Below
    <2>3. Cardinality(Below(x)) + 1 <= Cardinality(S)
      BY <1>2, <2>1
    <2> QED BY <1>1, <2>2, <2>3
  <1>6. Rank(S, R) \in [S -> 0 .. Cardinality(S) - 1]
    BY <1>5 DEF Rank
  <1> HIDE DEF Below
  <1>7. ASSUME NEW x \in S, NEW y \in S, Cardinality(Below(x)) < Cardinality(Below(y))
        PROVE  <<x, y>> \in R
    <2>1. x # y
      BY <1>1, <1>7
    <2>2. <<y, x>> \notin R
      BY <1>1, <1>3, <1>7
    <2> QED BY <2>1, <2>2 DEF TotalOrder
  <1> QED BY <1>3, <1>4, <1>6, <1>7

\* Sorted lists every member of S once, in the order R.
LEMMA SortedLists ==
  ASSUME NEW S, IsFiniteSet(S), NEW R, TotalOrder(S, R)
  PROVE  /\ Sorted(S, R) \in Seq(S) /\ Len(Sorted(S, R)) = Cardinality(S)
         /\ \A x \in S : \E i \in DOMAIN Sorted(S, R) : Sorted(S, R)[i] = x
         /\ \A i, j \in DOMAIN Sorted(S, R) :
              i < j <=> <<Sorted(S, R)[i], Sorted(S, R)[j]>> \in R
         /\ IsInjective(Sorted(S, R))
  <1> DEFINE size == Cardinality(S)
             rank == Rank(S, R)
             s == Sorted(S, R)
  <1>1. size \in Nat
    BY FS_CardinalityType
  <1>2. /\ rank \in [S -> 0 .. size - 1]
        /\ \A x, y \in S : <<x, y>> \in R <=> rank[x] < rank[y]
    BY RanksRise
  <1>3. \A x \in S : rank[x] = Cardinality({y \in S : <<y, x>> \in R})
    BY DEF Rank
  <1>4. s = [n \in 1 .. size |-> CHOOSE x \in S : rank[x] = n - 1]
    BY <1>3 DEF Sorted
  <1> HIDE DEF rank, size, s
  <1>5. \A x, y \in S : rank[x] = rank[y] => x = y
    BY <1>1, <1>2 DEF TotalOrder
  <1>6. rank \in Injection(S, 0 .. size - 1)
    BY <1>2, <1>5 DEF Injection, IsInjective
  <1>7. IsFiniteSet(0 .. size - 1) /\ Cardinality(0 .. size - 1) = Cardinality(S)
    <2>1. 0 \in Int /\ size - 1 \in Int
      BY <1>1
    <2>2. /\ IsFiniteSet(0 .. size - 1)
          /\ Cardinality(0 .. size - 1) = IF 0 > size - 1 THEN 0 ELSE size - 1 - 0 + 1
      BY <2>1, FS_Interval
    <2> QED BY <1>1, <2>2 DEF size
  <1>8. \A n \in 0 .. size - 1 : \E x \in S : rank[x] = n
    <2>1. rank \in Surjection(S, 0 .. size - 1)
      BY <1>6, <1>7, FS_Injection
    <2> QED BY <2>1 DEF Surjection
  <1>9. \A n \in 1 .. size : s[n] \in S /\ rank[s[n]] = n - 1
    <2> SUFFICES ASSUME NEW n \in 1 .. size
                 PROVE  s[n] \in S /\ rank[s[n]] = n - 1
      OBVIOUS
    <2>1. n - 1 \in 0 .. size - 1
      BY <1>1
    <2>2. \E x \in S : rank[x] = n - 1
      BY <1>8, <2>1
    <2> QED BY <1>4, <2>2
  <1>10. s \in [1 .. size -> S] /\ DOMAIN s = 1 .. size
    BY <1>4, <1>9
  <1>11. s \in Seq(S) /\ Len(s) = size
    BY <1>1, <1>10
  <1>12. ASSUME NEW x \in S
         PROVE  \E i \in DOMAIN s : s[i] = x
    <2>1. rank[x] \in 0 .. size - 1
      BY <1>2
    <2>2. PICK n \in 1 .. size : rank[x] = n - 1
      <3>1. ASSUME NEW k \in 0 .. size - 1
            PROVE  \E n \in 1 .. size : k = n - 1
        <4>1. k + 1 \in 1 .. size /\ k = (k + 1) - 1
          BY <1>1
        <4> QED BY <4>1, Zenon
      <3> QED BY <2>1, <3>1, Zenon
    <2>3. s[n] \in S /\ rank[s[n]] = rank[x]
      BY <1>9, <2>2
    <2>4. s[n] = x
      BY <1>5, <2>3
    <2> QED BY <1>10, <2>4
  <1>13. ASSUME NEW i \in DOMAIN s, NEW j \in DOMAIN s
         PROVE  i < j <=> <<s[i], s[j]>> \in R
    <2>1. i \in 1 .. size /\ j \in 1 .. size
      BY <1>10
    <2>2. rank[s[i]] = i - 1 /\ rank[s[j]] = j - 1 /\ s[i] \in S /\ s[j] \in S
      BY <1>9, <2>1
    <2>3. i < j <=> rank[s[i]] < rank[s[j]]
      BY <1>1, <2>1, <2>2
    <2> QED BY <1>2, <2>2, <2>3
  <1>14. IsInjective(s)
    <2> SUFFICES ASSUME NEW i \in DOMAIN s, NEW j \in DOMAIN s, s[i] = s[j]
                 PROVE  i = j
      BY DEF IsInjective
    <2>1. rank[s[i]] = i - 1 /\ rank[s[j]] = j - 1 /\ i \in Int /\ j \in Int
      BY <1>9, <1>10
    <2> QED BY <2>1
  <1> QED BY <1>11, <1>12, <1>13, <1>14 DEF s, size

-----------------------------------------------------------------------------
(* The agenda: the queue and the episodes the fairness window has closed   *)
(* over.                                                                   *)

Place(q, e) == CHOOSE i \in DOMAIN q : q[i] = e

AgendaInv ==
  /\ queue \in Seq(Episodes) /\ IsInjective(queue)
  /\ aged \subseteq Open
  /\ \A d \in aged, e \in Open \ aged : Position(d) < Position(e)

\* What is open was open before, in the same order.
OrderKept ==
  /\ Open' \subseteq Open
  /\ \A d, e \in Open' : Position(d)' < Position(e)' <=> Position(d) < Position(e)

LEMMA Places ==
  ASSUME NEW q \in Seq(Episodes), IsInjective(q)
  PROVE  /\ Range(q) \subseteq Episodes /\ IsFiniteSet(Range(q))
         /\ \A e \in Range(q) :
              Place(q, e) \in DOMAIN q /\ q[Place(q, e)] = e /\ Place(q, e) \in Nat
         /\ \A i \in DOMAIN q : q[i] \in Range(q) /\ Place(q, q[i]) = i
  <1>1. DOMAIN q \subseteq Nat /\ \A i \in DOMAIN q : q[i] \in Episodes
    OBVIOUS
  <1>2. \A e \in Range(q) : \E i \in DOMAIN q : q[i] = e
    BY DEF Range
  <1>3. \A e \in Range(q) : Place(q, e) \in DOMAIN q /\ q[Place(q, e)] = e
    BY <1>2 DEF Place
  <1>4. \A i \in DOMAIN q : q[i] \in Range(q)
    BY DEF Range
  <1>5. \A i \in DOMAIN q : Place(q, q[i]) = i
    BY <1>3, <1>4 DEF IsInjective
  <1>6. Range(q) \subseteq Episodes
    BY <1>1 DEF Range
  <1>7. IsFiniteSet(Range(q))
    BY <1>6, FS_Subset, AgendaAssumption
  <1> QED BY <1>1, <1>3, <1>4, <1>5, <1>6, <1>7

LEMMA OpenPlaces ==
  ASSUME AgendaInv
  PROVE  /\ Open \subseteq Episodes /\ IsFiniteSet(Open)
         /\ \A e \in Open : Position(e) = Place(queue, e) /\ Position(e) \in Nat
         /\ \A d, e \in Open : Position(d) = Position(e) => d = e
  <1>1. Open = Range(queue) /\ \A e \in Open : Position(e) = Place(queue, e)
    BY DEF Open, Position, Place
  <1>2. /\ Range(queue) \subseteq Episodes /\ IsFiniteSet(Range(queue))
        /\ \A e \in Range(queue) : queue[Place(queue, e)] = e /\ Place(queue, e) \in Nat
    BY Places DEF AgendaInv
  <1> QED BY <1>1, <1>2

\* Dropping episodes keeps the order of the others.
LEMMA WithoutKeeps ==
  ASSUME AgendaInv, NEW finished
  PROVE  LET q == Without(finished)
         IN  /\ q \in Seq(Episodes) /\ IsInjective(q)
             /\ Range(q) = Open \ finished
             /\ \A d, e \in Range(q) : Place(q, d) < Place(q, e)
                                         <=> Position(d) < Position(e)
  <1> DEFINE kept == {i \in DOMAIN queue : queue[i] \notin finished}
             R == {p \in kept \X kept : p[1] < p[2]}
             order == Sorted(kept, R)
             q == Without(finished)
  <1>1. /\ DOMAIN queue = 1 .. Len(queue) /\ Len(queue) \in Nat
        /\ \A i \in DOMAIN queue : queue[i] \in Episodes
    BY DEF AgendaInv
  <1>2. kept \subseteq 1 .. Len(queue) /\ IsFiniteSet(kept)
    <2>1. kept \subseteq 1 .. Len(queue)
      BY <1>1
    <2>2. 1 \in Int /\ Len(queue) \in Int
      BY <1>1
    <2>3. IsFiniteSet(1 .. Len(queue))
      BY <2>2, FS_Interval
    <2> QED BY <2>1, <2>3, FS_Subset
  <1>3. kept \subseteq Int
    BY <1>1, <1>2
  <1>4. \A i, j \in kept : <<i, j>> \in R <=> i < j
    OBVIOUS
  <1>5. q = [n \in DOMAIN order |-> queue[order[n]]]
    BY DEF Without
  <1>6. \A i \in DOMAIN queue : i \in kept <=> queue[i] \notin finished
    OBVIOUS
  <1> HIDE DEF kept, R, q
  <1>7. TotalOrder(kept, R)
    <2>1. \A i \in kept : <<i, i>> \notin R
      BY <1>3, <1>4
    <2>2. \A i, j, k \in kept : <<i, j>> \in R /\ <<j, k>> \in R => <<i, k>> \in R
      BY <1>3, <1>4
    <2>3. \A i, j \in kept : i # j => <<i, j>> \in R \/ <<j, i>> \in R
      BY <1>3, <1>4
    <2> QED BY <2>1, <2>2, <2>3 DEF TotalOrder
  <1>8. /\ order \in Seq(kept) /\ IsInjective(order)
        /\ \A i \in kept : \E n \in DOMAIN order : order[n] = i
        /\ \A m, n \in DOMAIN order : m < n <=> <<order[m], order[n]>> \in R
    BY <1>2, <1>7, SortedLists
  <1> HIDE DEF order
  <1>9. /\ DOMAIN order = 1 .. Len(order) /\ Len(order) \in Nat
        /\ \A n \in DOMAIN order : order[n] \in kept /\ order[n] \in DOMAIN queue
    <2>1. kept \subseteq DOMAIN queue
      BY DEF kept
    <2> QED BY <1>8, <2>1
  <1>10. DOMAIN q = DOMAIN order /\ \A n \in DOMAIN q : q[n] = queue[order[n]]
    BY <1>5
  <1>11. q \in Seq(Episodes)
    <2>1. \A n \in 1 .. Len(order) : q[n] \in Episodes
      BY <1>1, <1>9, <1>10
    <2>2. q \in [1 .. Len(order) -> Episodes]
      BY <1>5, <1>9, <1>10, <2>1
    <2> QED BY <1>9, <2>2
  <1>12. IsInjective(q)
    BY <1>8, <1>9, <1>10 DEF AgendaInv, IsInjective
  <1>13. Range(q) = Open \ finished
    <2>1. Range(q) \subseteq Open \ finished
      BY <1>6, <1>9, <1>10 DEF Range, Open
    <2>2. ASSUME NEW e \in Open \ finished
          PROVE  e \in Range(q)
      <3>1. PICK i \in DOMAIN queue : queue[i] = e
        BY DEF Open, Range
      <3>2. PICK n \in DOMAIN order : order[n] = i
        BY <1>6, <1>8, <3>1
      <3> QED BY <1>10, <3>1, <3>2 DEF Range
    <2> QED BY <2>1, <2>2
  <1>14. ASSUME NEW d \in Range(q), NEW e \in Range(q)
         PROVE  Place(q, d) < Place(q, e) <=> Position(d) < Position(e)
    <2>1. PICK m \in DOMAIN q, n \in DOMAIN q : d = q[m] /\ e = q[n]
      BY DEF Range
    <2>2. Place(q, d) = m /\ Place(q, e) = n
      BY <1>11, <1>12, <2>1, Places
    <2>3. /\ order[m] \in kept /\ order[n] \in kept
          /\ order[m] \in DOMAIN queue /\ order[n] \in DOMAIN queue
          /\ d = queue[order[m]] /\ e = queue[order[n]]
      BY <1>9, <1>10, <2>1
    <2>4. Place(queue, d) = order[m] /\ Place(queue, e) = order[n]
      BY <2>3, Places DEF AgendaInv
    <2>5. Position(d) = order[m] /\ Position(e) = order[n]
      BY <2>4 DEF Position, Place
    <2>6. m < n <=> order[m] < order[n]
      BY <1>4, <1>8, <1>10, <2>3
    <2> QED BY <2>2, <2>5, <2>6
  <1> QED BY <1>11, <1>12, <1>13, <1>14 DEF q

LEMMA Drops ==
  ASSUME AgendaInv, NEW finished, queue' = Without(finished), aged' = aged \ finished
  PROVE  AgendaInv' /\ OrderKept
  <1>1. /\ queue' \in Seq(Episodes) /\ IsInjective(queue')
        /\ Range(queue') = Open \ finished
        /\ \A d, e \in Range(queue') : Place(queue', d) < Place(queue', e)
                                         <=> Position(d) < Position(e)
    BY WithoutKeeps
  <1>2. Open' = Range(queue') /\ \A e : Position(e)' = Place(queue', e)
    BY DEF Open, Position, Place
  <1>3. \A d, e \in Open' : Position(d)' < Position(e)' <=> Position(d) < Position(e)
    BY <1>1, <1>2
  <1>4. Open' = Open \ finished /\ aged' \subseteq Open'
    BY <1>1, <1>2 DEF AgendaInv
  <1>5. ASSUME NEW d \in aged', NEW e \in Open' \ aged'
        PROVE  Position(d)' < Position(e)'
    <2>1. d \in aged /\ e \in Open \ aged /\ d \in Open'
      BY <1>4
    <2>2. Position(d) < Position(e)
      BY <2>1 DEF AgendaInv
    <2> QED BY <1>3, <2>1, <2>2
  <1> QED BY <1>1, <1>3, <1>4, <1>5 DEF AgendaInv, OrderKept

\* New work is queued behind the open episodes.
LEMMA Grows ==
  ASSUME AgendaInv, NEW new \in NewWork, queue' = queue \o new, aged' = aged
  PROVE  AgendaInv' /\ Range(new) \subseteq Episodes
  <1>0. \A e : Position(e)' = Place(queue', e) /\ Position(e) = Place(queue, e)
    BY DEF Position, Place
  <1>1. CASE new = <<>>
    <2>1. queue' = queue
      BY <1>1 DEF AgendaInv
    <2> QED BY <1>1, <2>1, EmptyRange DEF AgendaInv, Open, Position
  <1>2. CASE \E e \in Episodes \ Open : new = <<e>>
    <2>1. PICK e \in Episodes \ Open : new = <<e>>
      BY <1>2
    <2>2. queue' = Append(queue, e)
      BY <2>1 DEF AgendaInv
    <2>3. /\ queue' \in Seq(Episodes)
          /\ DOMAIN queue = 1 .. Len(queue) /\ Len(queue) \in Nat
          /\ DOMAIN queue' = 1 .. Len(queue) + 1
          /\ \A i \in 1 .. Len(queue) : queue'[i] = queue[i]
          /\ queue'[Len(queue) + 1] = e
      BY <2>2 DEF AgendaInv
    <2>4. Open' = Open \cup {e}
      BY <2>2, RangeAppend DEF Open, AgendaInv
    <2>5. \A i \in DOMAIN queue : queue[i] # e
      BY DEF Open, Range
    <2>6. IsInjective(queue')
      <3> SUFFICES ASSUME NEW i \in DOMAIN queue', NEW j \in DOMAIN queue',
                          queue'[i] = queue'[j]
                   PROVE  i = j
        BY DEF IsInjective
      <3>1. /\ i \in 1 .. Len(queue) \/ i = Len(queue) + 1
            /\ j \in 1 .. Len(queue) \/ j = Len(queue) + 1
        BY <2>3
      <3> QED BY <2>3, <2>5, <3>1 DEF AgendaInv, IsInjective
    <2>7. Place(queue', e) = Len(queue) + 1
      <3>1. Len(queue) + 1 \in DOMAIN queue'
        BY <2>3
      <3> QED BY <2>3, <2>6, <3>1, Places
    <2>8. ASSUME NEW d \in Open
          PROVE  Place(queue', d) = Place(queue, d) /\ Place(queue, d) \in 1 .. Len(queue)
      <3>1. Place(queue, d) \in DOMAIN queue /\ queue[Place(queue, d)] = d
        BY Places DEF AgendaInv, Open
      <3>2. Place(queue, d) \in DOMAIN queue' /\ queue'[Place(queue, d)] = d
        BY <2>3, <3>1
      <3>3. Place(queue', d) = Place(queue, d)
        BY <2>3, <2>6, <3>2, Places
      <3> QED BY <2>3, <3>1, <3>3
    <2>9. ASSUME NEW d \in aged', NEW c \in Open' \ aged'
          PROVE  Position(d)' < Position(c)'
      <3>1. d \in aged /\ d \in Open
        BY DEF AgendaInv
      <3>2. CASE c = e
        BY <1>0, <2>3, <2>7, <2>8, <3>1, <3>2
      <3>3. CASE c \in Open \ aged
        BY <1>0, <2>8, <3>1, <3>3 DEF AgendaInv
      <3> QED BY <2>4, <3>2, <3>3
    <2>10. Range(new) = {e}
      BY <2>1 DEF Range
    <2> QED BY <2>3, <2>4, <2>6, <2>9, <2>10 DEF AgendaInv
  <1> QED BY <1>1, <1>2 DEF NewWork

\* The fairness window closes over the oldest open episode it is not closed over.
LEMMA Ages ==
  ASSUME AgendaInv, Age
  PROVE  AgendaInv' /\ OrderKept
  <1>1. PICK e \in Open \ aged :
          /\ \A d \in Open \ aged : Position(e) <= Position(d)
          /\ aged' = aged \cup {e}
    BY DEF Age
  <1>2. queue' = queue /\ Open' = Open
    BY DEF Age, Open
  <1>3. \A d : Position(d)' = Position(d)
    BY <1>2 DEF Position
  <1>4. ASSUME NEW d \in aged', NEW c \in Open' \ aged'
        PROVE  Position(d)' < Position(c)'
    <2>1. c \in Open \ aged /\ c # e
      BY <1>1, <1>2
    <2>2. CASE d \in aged
      BY <1>3, <2>1, <2>2 DEF AgendaInv
    <2>3. CASE d = e
      <3>1. Position(e) <= Position(c) /\ Position(e) # Position(c)
        BY <1>1, <2>1, OpenPlaces
      <3>2. Position(e) \in Nat /\ Position(c) \in Nat
        BY <2>1, OpenPlaces
      <3>3. Position(e) < Position(c)
        BY <3>1, <3>2
      <3> QED BY <1>3, <2>3, <3>3
    <2> QED BY <1>1, <2>2, <2>3
  <1> QED BY <1>1, <1>2, <1>3, <1>4 DEF AgendaInv, OrderKept

LEMMA AgendaUnmoved ==
  ASSUME AgendaInv, queue' = queue, aged' = aged
  PROVE  AgendaInv' /\ OrderKept
  BY DEF AgendaInv, OrderKept, Open, Position

-----------------------------------------------------------------------------
(* The order of claim and the order of claim_episode.                      *)

\* Episodes of one version are listed in the order of their availability.
InOrder(list) ==
  \A i, j \in DOMAIN list :
    /\ i < j /\ VersionOf[list[i]] = VersionOf[list[j]]
    /\ list[i] \in Open /\ list[j] \in Open
    => Position(list[i]) < Position(list[j])

LEMMA BucketsOrdered ==
  ASSUME AgendaInv, NEW d \in Open, NEW e \in Open, Bucket(d) < Bucket(e)
  PROVE  Position(d) < Position(e)
  <1>1. d \in aged /\ e \notin aged
    BY DEF Bucket
  <1> QED BY <1>1 DEF AgendaInv

LEMMA OrderOfVersion ==
  ASSUME AgendaInv, NEW d \in Open, NEW e \in Open, d # e, ~VersionBefore(e, d)
  PROVE  Position(d) < Position(e)
  <1>1. Bucket(d) \in Int /\ Bucket(e) \in Int
    BY DEF Bucket
  <1>2. Position(d) \in Nat /\ Position(e) \in Nat /\ Position(d) # Position(e)
    BY OpenPlaces
  <1>3. CASE Bucket(d) < Bucket(e)
    BY <1>3, BucketsOrdered
  <1>4. CASE Bucket(d) = Bucket(e)
    BY <1>2, <1>4 DEF VersionBefore
  <1> QED BY <1>1, <1>3, <1>4 DEF VersionBefore

LEMMA CandidatesInOrder ==
  ASSUME AgendaInv
  PROVE  Candidates \in Seq(Episodes) /\ InOrder(Candidates)
  <1> DEFINE free == {e \in Open : owner[e] = NoOne}
             R == {p \in free \X free : GloballyBefore(p[1], p[2])}
             urgency(e) == Salience[VersionOf[e]]
  <1>1. /\ free \subseteq Open /\ free \subseteq Episodes /\ IsFiniteSet(free)
        /\ \A e \in free : Position(e) \in Nat
        /\ \A d, e \in free : Position(d) = Position(e) => d = e
    BY OpenPlaces, FS_Subset
  <1>2. \A e \in free : Bucket(e) \in Int
    BY DEF Bucket
  <1>3. \A e \in free : urgency(e) \in Int
    BY <1>1, AgendaAssumption
  <1>4. \A d, e \in free :
          <<d, e>> \in R <=>
            \/ Bucket(d) < Bucket(e)
            \/ /\ Bucket(d) = Bucket(e)
               /\ \/ urgency(d) > urgency(e)
                  \/ urgency(d) = urgency(e) /\ Position(d) < Position(e)
    BY DEF GloballyBefore
  <1> DEFINE list == Sorted(free, R)
  <1>5. Candidates = list
    BY DEF Candidates
  <1> HIDE DEF free, R, urgency
  <1>6. TotalOrder(free, R)
    <2>1. \A e \in free : <<e, e>> \notin R
      BY <1>1, <1>2, <1>3, <1>4
    <2>2. ASSUME NEW c \in free, NEW d \in free, NEW e \in free,
                 <<c, d>> \in R, <<d, e>> \in R
          PROVE  <<c, e>> \in R
      BY <1>1, <1>2, <1>3, <1>4, <2>2
    <2>3. \A d, e \in free : d # e => <<d, e>> \in R \/ <<e, d>> \in R
      BY <1>1, <1>2, <1>3, <1>4
    <2> QED BY <2>1, <2>2, <2>3 DEF TotalOrder
  <1>7. /\ list \in Seq(free)
        /\ \A i, j \in DOMAIN list : i < j <=> <<list[i], list[j]>> \in R
    BY <1>1, <1>6, SortedLists
  <1> HIDE DEF list
  <1>8. list \in Seq(Episodes) /\ \A i \in DOMAIN list : list[i] \in free
    BY <1>1, <1>7
  <1>9. InOrder(list)
    <2> SUFFICES ASSUME NEW i \in DOMAIN list, NEW j \in DOMAIN list, i < j,
                        VersionOf[list[i]] = VersionOf[list[j]]
                 PROVE  Position(list[i]) < Position(list[j])
      BY DEF InOrder
    <2>1. /\ list[i] \in free /\ list[j] \in free
          /\ <<list[i], list[j]>> \in R
      BY <1>7, <1>8
    <2>2. urgency(list[i]) = urgency(list[j]) /\ urgency(list[j]) \in Int
      BY <1>3, <2>1 DEF urgency
    <2>3. CASE Bucket(list[i]) < Bucket(list[j])
      BY <1>1, <2>1, <2>3, BucketsOrdered
    <2>4. CASE ~(Bucket(list[i]) < Bucket(list[j]))
      BY <1>4, <2>1, <2>2, <2>4
    <2> QED BY <2>3, <2>4
  <1> QED BY <1>5, <1>8, <1>9

-----------------------------------------------------------------------------
(* The sessions.                                                           *)

\* A batch to execute is not empty, and the candidates a claim has left are in
\* the order of their versions.
Sound(r) ==
  /\ r \in Calls
  /\ r.pc = "execute" => r.list # <<>>
  /\ r.pc = "claim" => InOrder(r.list)

SessionsInv == call \in [Callers -> Calls] /\ \A w \in Callers : Sound(call[w])

\* Nothing new is queued while a session other than w claims.
Undisturbed(w) == OrderKept \/ \A u \in Callers \ {w} : call[u].pc # "claim"

LEMMA StaysInOrder ==
  ASSUME OrderKept, NEW list, InOrder(list)
  PROVE  InOrder(list)'
  BY DEF OrderKept, InOrder

\* A session's record, in the next state.
LEMMA SoundLater ==
  ASSUME NEW r, NEW w \in Callers, Sound(r)', call'[w] = r
  PROVE  Sound(call[w])'
  BY DEF Sound, InOrder

LEMMA SessionMoves ==
  ASSUME SessionsInv, NEW w \in Callers, NEW r, Sound(r)',
         call' = [call EXCEPT ![w] = r], Undisturbed(w)
  PROVE  SessionsInv'
  <1>1. /\ call'[w] = r /\ r \in Calls
        /\ \A u \in Callers \ {w} : call'[u] = call[u]
        /\ call' \in [Callers -> Calls]
    BY DEF SessionsInv, Sound
  <1>2. ASSUME NEW u \in Callers \ {w}
        PROVE  Sound(call[u])'
    <2>1. PICK s : s = call[u]
      OBVIOUS
    <2>2. Sound(s)
      BY <2>1 DEF SessionsInv
    <2>3. s.pc = "claim" => OrderKept
      BY <2>1 DEF Undisturbed
    <2>4. s.pc = "claim" => InOrder(s.list)'
      BY <2>2, <2>3, StaysInOrder DEF Sound
    <2>5. Sound(s)'
      BY <2>2, <2>4 DEF Sound
    <2> QED BY <1>1, <2>1, <2>5, SoundLater
  <1>3. Sound(call[w])'
    BY <1>1, SoundLater
  <1> QED BY <1>1, <1>2, <1>3 DEF SessionsInv

-----------------------------------------------------------------------------
(* The type invariant with what it needs, and one lemma for each step.     *)

Rest ==
  /\ owner \in [Episodes -> Callers \cup {NoOne}]
  /\ lock \in [Versions -> Callers \cup {NoOne}]
  /\ exclusive \in Callers \cup {NoOne}
  /\ process \in {"NONE", "DOWN", "LOOP", "CYCLE", "LATCH", "STOPPED"}
  /\ terminated \in BOOLEAN /\ world \in Worlds
  /\ conf \in Configurations

ClaimInv == AgendaInv /\ SessionsInv
TypeInv == ClaimInv /\ Rest

LEMMA IdleSound == Sound(Idle) /\ Sound(Idle)'
  <1>1. Idle \in Calls
    BY DEF Idle, Calls
  <1> QED BY <1>1 DEF Sound, Idle

LEMMA TailInOrder ==
  ASSUME NEW list \in Seq(Episodes), list # <<>>, InOrder(list)
  PROVE  Tail(list) \in Seq(Episodes) /\ InOrder(Tail(list))
  <1>1. /\ Tail(list) \in Seq(Episodes)
        /\ DOMAIN list = 1 .. Len(list) /\ Len(list) \in Nat
        /\ DOMAIN Tail(list) = 1 .. Len(list) - 1
        /\ \A i \in 1 .. Len(list) - 1 : Tail(list)[i] = list[i + 1]
    OBVIOUS
  <1> DEFINE rest == Tail(list)
  <1>2. \A i \in DOMAIN rest : i + 1 \in DOMAIN list /\ rest[i] = list[i + 1] /\ i \in Nat
    BY <1>1
  <1> HIDE DEF rest
  <1>3. InOrder(rest)
    <2> SUFFICES ASSUME NEW i \in DOMAIN rest, NEW j \in DOMAIN rest, i < j,
                        VersionOf[rest[i]] = VersionOf[rest[j]],
                        rest[i] \in Open, rest[j] \in Open
                 PROVE  Position(rest[i]) < Position(rest[j])
      BY DEF InOrder
    <2>1. i + 1 < j + 1
      BY <1>2
    <2> QED BY <1>2, <2>1 DEF InOrder
  <1> QED BY <1>1, <1>3 DEF rest

LEMMA BeginsSound ==
  ASSUME ClaimInv, NEW w \in Callers, NEW limit \in Nat, BeginClaim(w, limit)
  PROVE  ClaimInv'
  <1>1. AgendaInv' /\ OrderKept
    BY AgendaUnmoved DEF ClaimInv, BeginClaim
  <1>2. PICK list : list = Candidates
    OBVIOUS
  <1>3. list \in Seq(Episodes) /\ InOrder(list)'
    BY <1>1, <1>2, CandidatesInOrder, StaysInOrder DEF ClaimInv
  <1>4. PICK r : r = [call[w] EXCEPT !.pc = "claim", !.list = list, !.room = limit]
    OBVIOUS
  <1>5. call' = [call EXCEPT ![w] = r]
    BY <1>2, <1>4 DEF BeginClaim
  <1>6. r \in Calls /\ r.pc = "claim" /\ r.list = list
    <2>1. call[w] \in Calls
      BY DEF ClaimInv, SessionsInv
    <2> QED BY <1>3, <1>4, <2>1 DEF Calls
  <1>7. Sound(r)'
    <2>1. InOrder(r.list)'
      BY <1>3, <1>6
    <2> QED BY <1>6, <2>1 DEF Sound
  <1>8. SessionsInv'
    BY <1>1, <1>5, <1>7, SessionMoves DEF ClaimInv, Undisturbed
  <1> QED BY <1>1, <1>8 DEF ClaimInv

LEMMA TriesSound ==
  ASSUME ClaimInv, NEW w \in Callers, TryCandidate(w)
  PROVE  ClaimInv'
  <1>1. AgendaInv' /\ OrderKept
    BY AgendaUnmoved DEF ClaimInv, TryCandidate
  <1> DEFINE e == Head(call[w].list)
             taken == e \in Picked(w, VersionOf[e])
  <1>2. /\ call[w] \in Calls /\ call[w].pc = "claim" /\ InOrder(call[w].list)
        /\ call[w].list # <<>> /\ call[w].room # 0
    BY DEF ClaimInv, SessionsInv, Sound, TryCandidate, Exhausted
  <1>3. PICK r : r = [call[w] EXCEPT !.list = Tail(@),
                                     !.room = IF taken THEN @ - 1 ELSE @,
                                     !.claimed = IF taken THEN Append(@, e) ELSE @]
    OBVIOUS
  <1>4. call' = [call EXCEPT ![w] = r]
    BY <1>3 DEF TryCandidate, Tried
  <1>5. e \in Episodes
    BY <1>2 DEF Calls
  <1> HIDE DEF e, taken
  <1>6. PICK list : list = Tail(call[w].list)
    OBVIOUS
  <1>7. list \in Seq(Episodes) /\ InOrder(list)
    BY <1>2, <1>6, TailInOrder DEF Calls
  <1>8. InOrder(list)'
    BY <1>1, <1>7, StaysInOrder
  <1>9. r \in Calls /\ r.pc = "claim" /\ r.list = list
    <2>1. Append(call[w].claimed, e) \in Seq(Episodes)
      BY <1>2, <1>5 DEF Calls
    <2>2. call[w].room - 1 \in Nat
      BY <1>2 DEF Calls
    <2> QED BY <1>2, <1>3, <1>6, <1>7, <2>1, <2>2 DEF Calls
  <1>10. Sound(r)'
    <2>1. InOrder(r.list)'
      BY <1>8, <1>9
    <2> QED BY <1>9, <2>1 DEF Sound
  <1>11. SessionsInv'
    BY <1>1, <1>4, <1>10, SessionMoves DEF ClaimInv, Undisturbed
  <1> QED BY <1>1, <1>11 DEF ClaimInv

\* A session whose record is neither a claim nor an empty batch.
LEMMA OtherwiseSound ==
  ASSUME NEW r \in Calls, r.pc # "claim", r.pc = "execute" => r.list # <<>>
  PROVE  Sound(r)'
  BY DEF Sound

LEMMA CommitsSound ==
  ASSUME ClaimInv, NEW w \in Callers, CommitClaim(w)
  PROVE  ClaimInv'
  <1>1. AgendaInv' /\ OrderKept
    BY AgendaUnmoved DEF ClaimInv, CommitClaim
  <1>2. call[w] \in Calls
    BY DEF ClaimInv, SessionsInv
  <1>3. PICK r : r = IF call[w].claimed = <<>> THEN Idle
                     ELSE [Idle EXCEPT !.pc = "execute", !.list = call[w].claimed]
    OBVIOUS
  <1>4. call' = [call EXCEPT ![w] = r]
    BY <1>3 DEF CommitClaim
  <1>5. Sound(r)'
    <2>1. CASE call[w].claimed = <<>>
      BY <1>3, <2>1, IdleSound
    <2>2. CASE call[w].claimed # <<>>
      <3>1. r \in Calls /\ r.pc = "execute" /\ r.list # <<>>
        <4>1. r = [pc |-> "execute", list |-> call[w].claimed, room |-> 0,
                   claimed |-> <<>>, ran |-> {}]
          BY <1>3, <2>2 DEF Idle
        <4> HIDE <1>3
        <4> QED BY <1>2, <2>2, <4>1 DEF Calls
      <3> QED BY <3>1, OtherwiseSound
    <2> QED BY <2>1, <2>2
  <1>6. SessionsInv'
    BY <1>1, <1>4, <1>5, SessionMoves DEF ClaimInv, Undisturbed
  <1> QED BY <1>1, <1>6 DEF ClaimInv

LEMMA ExecutesSound ==
  ASSUME ClaimInv, NEW w \in Callers, Execute(w)
  PROVE  ClaimInv' /\ Head(call[w].list) \in Episodes
  <1>1. AgendaInv' /\ OrderKept
    BY Drops DEF ClaimInv, Execute
  <1>2. call[w] \in Calls /\ call[w].pc = "execute" /\ call[w].list # <<>>
    BY DEF ClaimInv, SessionsInv, Sound, Execute
  <1>3. PICK r : r = Remaining(w)
    OBVIOUS
  <1>4. call' = [call EXCEPT ![w] = r]
    BY <1>3 DEF Execute
  <1>5. Sound(r)'
    <2>1. CASE Len(call[w].list) = 1
      BY <1>3, <2>1, IdleSound DEF Remaining
    <2>2. CASE Len(call[w].list) # 1
      <3>1. PICK list \in Seq(Episodes) : list = call[w].list
        BY <1>2 DEF Calls
      <3>2. Tail(list) \in Seq(Episodes) /\ Tail(list) # <<>>
        <4>1. PICK n \in Nat : n = Len(list) /\ n # 0 /\ n # 1
          <5>1. list # <<>> /\ Len(list) # 1 /\ Len(list) \in Nat
            BY <1>2, <2>2, <3>1
          <5>2. Len(list) # 0
            BY <5>1, EmptySeq
          <5> QED BY <5>1, <5>2
        <4>2. Tail(list) \in Seq(Episodes) /\ DOMAIN Tail(list) = 1 .. n - 1
          BY <4>1
        <4>3. 1 \in 1 .. n - 1
          BY <4>1
        <4>4. DOMAIN <<>> = {}
          OBVIOUS
        <4> QED BY <4>2, <4>3, <4>4
      <3>3. r \in Calls /\ r.pc = "execute" /\ r.list = Tail(list)
        BY <1>2, <1>3, <2>2, <3>1, <3>2 DEF Calls, Remaining
      <3> QED BY <3>2, <3>3, OtherwiseSound
    <2> QED BY <2>1, <2>2
  <1>6. SessionsInv'
    BY <1>1, <1>4, <1>5, SessionMoves DEF ClaimInv, Undisturbed
  <1> QED BY <1>1, <1>2, <1>6 DEF ClaimInv, Calls

\* A transaction ends with the session idle and some episodes finished.
LEMMA EndsSound ==
  ASSUME ClaimInv, NEW w \in Callers, NEW finished,
         queue' = Without(finished), aged' = aged \ finished,
         call' = [call EXCEPT ![w] = Idle]
  PROVE  ClaimInv'
  <1>1. AgendaInv' /\ OrderKept
    BY Drops DEF ClaimInv
  <1>2. SessionsInv'
    BY <1>1, IdleSound, SessionMoves DEF ClaimInv, Undisturbed
  <1> QED BY <1>1, <1>2 DEF ClaimInv

LEMMA PassSound ==
  ASSUME ClaimInv, NEW w \in Callers, RunPass(w)
  PROVE  ClaimInv'
  <1>1. AgendaInv' /\ Undisturbed(w)
    BY Grows DEF ClaimInv, RunPass, Available, Undisturbed
  <1>2. PICK r : r = [call[w] EXCEPT !.pc = "poll"]
    OBVIOUS
  <1>3. call' = [call EXCEPT ![w] = r]
    BY <1>2 DEF RunPass
  <1>4. r \in Calls /\ r.pc = "poll"
    <2>1. call[w] \in Calls
      BY DEF ClaimInv, SessionsInv
    <2> QED BY <1>2, <2>1 DEF Calls
  <1>5. SessionsInv'
    BY <1>1, <1>3, <1>4, OtherwiseSound, SessionMoves DEF ClaimInv
  <1> QED BY <1>1, <1>5 DEF ClaimInv

LEMMA CycleSound ==
  ASSUME TypeInv, BeginCycle
  PROVE  ClaimInv'
  <1>1. AgendaInv' /\ OrderKept
    BY AgendaUnmoved DEF TypeInv, ClaimInv, BeginCycle
  <1>2. CASE UNCHANGED call
    <2>1. ASSUME NEW w \in Callers
          PROVE  Sound(call[w])'
      <3>1. PICK r : r = call[w]
        OBVIOUS
      <3>2. Sound(r)
        BY <3>1 DEF TypeInv, ClaimInv, SessionsInv
      <3>3. Sound(r)'
        BY <1>1, <3>2, StaysInOrder DEF Sound
      <3> QED BY <1>2, <3>1, <3>3, SoundLater
    <2> QED BY <1>1, <1>2, <2>1 DEF TypeInv, ClaimInv, SessionsInv
  <1>3. CASE ~UNCHANGED call
    <2>1. PICK r : r = [call[Manager] EXCEPT !.pc = IF Backpressure THEN "poll" ELSE "run",
                                             !.room = ClaimLimit]
      OBVIOUS
    <2>2. call' = [call EXCEPT ![Manager] = r]
      BY <1>3, <2>1 DEF BeginCycle
    <2>3. ClaimLimit \in Nat
      BY SettingsAssumption DEF TypeInv, Rest, ClaimLimit, Least
    <2>4. r \in Calls /\ r.pc \in {"poll", "run"}
      <3>1. call[Manager] \in Calls
        BY ManagerAssumption DEF TypeInv, ClaimInv, SessionsInv
      <3> QED BY <2>1, <2>3, <3>1 DEF Calls
    <2>5. Sound(r)'
      BY <2>4, OtherwiseSound
    <2>6. SessionsInv'
      BY <1>1, <2>2, <2>5, ManagerAssumption, SessionMoves
      DEF TypeInv, ClaimInv, Undisturbed
    <2> QED BY <1>1, <2>6 DEF ClaimInv
  <1> QED BY <1>2, <1>3

LEMMA RunSound ==
  ASSUME ClaimInv, RunInCycle
  PROVE  ClaimInv'
  <1>1. call[Manager] \in Calls /\ Manager \in Callers
    BY ManagerAssumption DEF ClaimInv, SessionsInv
  <1>2. CASE UNCHANGED <<queue, exclusive>> /\ call' = [call EXCEPT ![Manager].pc = "poll"]
    <2>1. AgendaInv' /\ OrderKept
      BY <1>2, AgendaUnmoved DEF ClaimInv, RunInCycle
    <2>2. PICK r : r = [call[Manager] EXCEPT !.pc = "poll"]
      OBVIOUS
    <2>3. r \in Calls /\ r.pc = "poll"
      BY <1>1, <2>2 DEF Calls
    <2>4. SessionsInv'
      BY <1>1, <1>2, <2>1, <2>2, <2>3, OtherwiseSound, SessionMoves
      DEF ClaimInv, Undisturbed
    <2> QED BY <2>1, <2>4 DEF ClaimInv
  <1>3. ASSUME Available(Manager), NEW new \in NewWork, queue' = queue \o new,
               call' = [call EXCEPT ![Manager].pc = "poll", ![Manager].ran = Range(new)]
        PROVE  ClaimInv'
    <2>1. AgendaInv' /\ Range(new) \subseteq Episodes
      BY <1>3, Grows DEF ClaimInv, RunInCycle
    <2>2. PICK r : r = [call[Manager] EXCEPT !.pc = "poll", !.ran = Range(new)]
      OBVIOUS
    <2>3. r \in Calls /\ r.pc = "poll"
      BY <1>1, <2>1, <2>2 DEF Calls
    <2>4. Sound(r)' /\ Undisturbed(Manager)
      BY <1>3, <2>3, OtherwiseSound DEF Undisturbed, Available
    <2>5. call' = [call EXCEPT ![Manager] = r]
      BY <1>3, <2>2
    <2>6. SessionsInv'
      BY <1>1, <2>4, <2>5, SessionMoves DEF ClaimInv
    <2> QED BY <2>1, <2>6 DEF ClaimInv
  <1> QED BY <1>2, <1>3 DEF RunInCycle

LEMMA RestartSound ==
  ASSUME ClaimInv, RestartServer
  PROVE  ClaimInv'
  <1>1. AgendaInv'
    BY Drops DEF ClaimInv, RestartServer
  <1>2. call' \in [Callers -> Calls] /\ \A w \in Callers : call'[w] = Idle
    BY IdleSound DEF RestartServer, Sound
  <1>3. \A w \in Callers : Sound(call[w])'
    BY <1>2, IdleSound, SoundLater
  <1> QED BY <1>1, <1>2, <1>3 DEF ClaimInv, SessionsInv

\* The sessions and the agenda are left alone, or only the agenda ages.
LEMMA AgesSound ==
  ASSUME ClaimInv, Age \/ UNCHANGED <<queue, aged>>, call' = call
  PROVE  ClaimInv'
  <1>1. AgendaInv' /\ OrderKept
    BY Ages, AgendaUnmoved DEF ClaimInv
  <1>2. ASSUME NEW w \in Callers
        PROVE  Sound(call[w])'
    <2>1. PICK r : r = call[w]
      OBVIOUS
    <2>2. Sound(r)
      BY <2>1 DEF ClaimInv, SessionsInv
    <2>3. Sound(r)'
      BY <1>1, <2>2, StaysInOrder DEF Sound
    <2> QED BY <2>1, <2>3, SoundLater
  <1> QED BY <1>1, <1>2 DEF ClaimInv, SessionsInv

LEMMA ProgressSound ==
  ASSUME TypeInv, NEW w \in Callers, Progress(w)
  PROVE  TypeInv'
  <1>1. CASE BeginClaim(w, MaxClaims) /\ UNCHANGED workerVars
    <2>1. ClaimInv'
      BY <1>1, BeginsSound, SettingsAssumption DEF TypeInv
    <2> QED BY <1>1, <2>1 DEF TypeInv, Rest, BeginClaim, workerVars
  <1>2. CASE TryCandidate(w) /\ UNCHANGED workerVars
    <2>1. ClaimInv'
      BY <1>2, TriesSound DEF TypeInv
    <2>2. lock' \in [Versions -> Callers \cup {NoOne}]
      BY <1>2 DEF TypeInv, Rest, TryCandidate
    <2> QED BY <1>2, <2>1, <2>2 DEF TypeInv, Rest, TryCandidate, workerVars
  <1>3. CASE CommitClaim(w) /\ UNCHANGED workerVars
    <2>1. ClaimInv'
      BY <1>3, CommitsSound DEF TypeInv
    <2>2. /\ owner' \in [Episodes -> Callers \cup {NoOne}]
          /\ lock' \in [Versions -> Callers \cup {NoOne}]
      BY <1>3 DEF TypeInv, Rest, CommitClaim, Released
    <2> QED BY <1>3, <2>1, <2>2 DEF TypeInv, Rest, CommitClaim, workerVars
  <1>4. CASE Execute(w) /\ UNCHANGED workerVars
    <2>1. ClaimInv'
      BY <1>4, ExecutesSound DEF TypeInv
    <2>2. owner' \in [Episodes -> Callers \cup {NoOne}]
      BY <1>4 DEF TypeInv, Rest, Execute
    <2> QED BY <1>4, <2>1, <2>2 DEF TypeInv, Rest, Execute, workerVars
  <1>5. CASE AbortClaim(w)
    <2>1. ClaimInv'
      BY <1>5, EndsSound DEF TypeInv, AbortClaim, Abort
    <2>2. /\ lock' \in [Versions -> Callers \cup {NoOne}]
          /\ exclusive' \in Callers \cup {NoOne}
      BY <1>5 DEF TypeInv, Rest, AbortClaim, Abort, Released
    <2> QED BY <1>5, <2>1, <2>2 DEF TypeInv, Rest, AbortClaim, Abort, workerVars
  <1> QED BY <1>1, <1>2, <1>3, <1>4, <1>5 DEF Progress

\* The managed worker's own steps.
LEMMA WorkerSound ==
  ASSUME TypeInv, WorkerStep
  PROVE  TypeInv'
  <1>0. Manager \in Callers /\ call[Manager].room \in Nat
    BY ManagerAssumption DEF TypeInv, ClaimInv, SessionsInv, Calls
  <1>1. CASE StartProcess \/ WaitLatch
    <2>1. ClaimInv'
      BY <1>1, AgesSound DEF TypeInv, StartProcess, WaitLatch, claimVars
    <2> QED BY <1>1, <2>1 DEF TypeInv, Rest, StartProcess, WaitLatch, claimVars
  <1>2. CASE BeginCycle
    <2>1. ClaimInv'
      BY <1>2, CycleSound
    <2> QED BY <1>2, <2>1 DEF TypeInv, Rest, BeginCycle
  <1>3. CASE RunInCycle
    <2>1. ClaimInv'
      BY <1>3, RunSound DEF TypeInv
    <2> QED BY <1>0, <1>3, <2>1 DEF TypeInv, Rest, RunInCycle, workerVars
  <1>4. CASE ClaimInCycle
    <2>1. ClaimInv'
      BY <1>0, <1>4, BeginsSound DEF TypeInv, ClaimInCycle
    <2> QED BY <1>4, <2>1 DEF TypeInv, Rest, ClaimInCycle, BeginClaim, workerVars
  <1>5. CASE TryCandidate(Manager) /\ UNCHANGED workerVars
    BY <1>0, <1>5, ProgressSound DEF Progress
  <1>6. CASE CycleFails
    <2>1. ClaimInv'
      BY <1>0, <1>6, EndsSound DEF TypeInv, CycleFails, Abort
    <2>2. /\ lock' \in [Versions -> Callers \cup {NoOne}]
          /\ exclusive' \in Callers \cup {NoOne}
      BY <1>6 DEF TypeInv, Rest, CycleFails, Abort, Released
    <2> QED BY <1>6, <2>1, <2>2 DEF TypeInv, Rest, CycleFails, Abort
  <1>7. CASE FinishCycle
    <2>1. ClaimInv'
      BY <1>0, <1>7, EndsSound DEF TypeInv, FinishCycle
    <2>2. /\ lock' \in [Versions -> Callers \cup {NoOne}]
          /\ exclusive' \in Callers \cup {NoOne}
      BY <1>7 DEF TypeInv, Rest, FinishCycle, Released
    <2> QED BY <1>7, <2>1, <2>2 DEF TypeInv, Rest, FinishCycle
  <1> QED BY <1>1, <1>2, <1>3, <1>4, <1>5, <1>6, <1>7 DEF WorkerStep

\* The environment's.
LEMMA EnvironmentSound ==
  ASSUME TypeInv, (Age /\ UNCHANGED workerVars) \/ Terminate \/ Crash
                  \/ RestartServer \/ Administer \/ UNCHANGED vars
  PROVE  TypeInv'
  <1>1. CASE Age /\ UNCHANGED workerVars
    <2>1. ClaimInv'
      BY <1>1, AgesSound DEF TypeInv, Age
    <2> QED BY <1>1, <2>1 DEF TypeInv, Rest, Age, workerVars
  <1>2. CASE Terminate \/ Administer \/ UNCHANGED vars
    <2>1. ClaimInv'
      BY <1>2, AgesSound DEF TypeInv, Terminate, Administer, vars, claimVars
    <2> QED BY <1>2, <2>1
        DEF TypeInv, Rest, Terminate, Administer, vars, claimVars, workerVars
  <1>3. CASE Crash
    <2>1. ClaimInv'
      BY <1>3, EndsSound, ManagerAssumption DEF TypeInv, Crash, Abort
    <2>2. /\ lock' \in [Versions -> Callers \cup {NoOne}]
          /\ exclusive' \in Callers \cup {NoOne}
      BY <1>3 DEF TypeInv, Rest, Crash, Abort, Released
    <2> QED BY <1>3, <2>1, <2>2 DEF TypeInv, Rest, Crash, Abort
  <1>4. CASE RestartServer
    <2>1. ClaimInv'
      BY <1>4, RestartSound DEF TypeInv
    <2> QED BY <1>4, <2>1 DEF TypeInv, Rest, RestartServer, Booted
  <1> QED BY <1>1, <1>2, <1>3, <1>4

LEMMA InitTypes == Init => TypeInv
  <1> SUFFICES ASSUME Init PROVE TypeInv
    OBVIOUS
  <1>1. AgendaInv
    <2>1. Open = {} /\ queue \in Seq(Episodes) /\ IsInjective(queue)
      BY EmptyRange DEF Init, Open, IsInjective
    <2> QED BY <2>1 DEF Init, AgendaInv
  <1>2. SessionsInv
    <2>1. \A w \in Callers : call[w] = Idle
      BY DEF Init
    <2>2. \A w \in Callers : Sound(call[w])
      BY <2>1, IdleSound
    <2>3. call \in [Callers -> Calls]
      BY IdleSound DEF Init, Sound
    <2> QED BY <2>2, <2>3 DEF SessionsInv
  <1>3. Rest
    BY DEF Init, Rest, Booted
  <1> QED BY <1>1, <1>2, <1>3 DEF TypeInv, ClaimInv

LEMMA NextTypes == TypeInv /\ [Next]_vars => TypeInv'
  <1> SUFFICES ASSUME TypeInv, [Next]_vars PROVE TypeInv'
    OBVIOUS
  <1>1. CASE WorkerStep
    BY <1>1, WorkerSound
  <1>2. CASE \E w \in Daemons : RunPass(w) \/ Progress(w)
    <2>1. PICK w \in Callers : RunPass(w) \/ Progress(w)
      BY <1>2 DEF Daemons
    <2>2. CASE RunPass(w)
      <3>1. ClaimInv'
        BY <2>2, PassSound DEF TypeInv
      <3> QED BY <2>2, <3>1 DEF TypeInv, Rest, RunPass, workerVars
    <2> QED BY <2>1, <2>2, ProgressSound
  <1>3. CASE ~WorkerStep /\ ~(\E w \in Daemons : RunPass(w) \/ Progress(w))
    BY <1>3, EnvironmentSound DEF Next
  <1> QED BY <1>1, <1>2, <1>3

\* The agenda, the locks, the sessions and the process keep their types, and an
\* open episode is queued once.
THEOREM WorkerTypeCorrect == Spec => []TypeOK
  <1>1. TypeInv => TypeOK
    BY DEF TypeInv, ClaimInv, AgendaInv, SessionsInv, Rest, TypeOK
  <1> QED BY <1>1, InitTypes, NextTypes, PTL DEF Spec

LEMMA PassesOverRightly ==
  ASSUME TypeInv, NEW w \in Callers, TryCandidate(w)
  PROVE  PassedOver(w)
  <1> DEFINE e == Head(call[w].list)
             v == VersionOf[e]
             taken == e \in Picked(w, v)
  <1>1. /\ call[w] \in Calls /\ InOrder(call[w].list) /\ call[w].list # <<>>
    BY DEF TypeInv, ClaimInv, SessionsInv, Sound, TryCandidate, Exhausted
  <1>2. PICK list \in Seq(Episodes) : list = call[w].list
    BY <1>1 DEF Calls
  <1>3. 1 \in DOMAIN list /\ e = list[1] /\ e \in Episodes /\ DOMAIN list \subseteq Nat
    <2>1. Len(list) \in Nat \ {0} /\ DOMAIN list = 1 .. Len(list)
      BY <1>1, <1>2, EmptySeq
    <2>2. 1 \in DOMAIN list /\ DOMAIN list \subseteq Nat
      BY <2>1
    <2>3. list[1] \in Episodes
      BY <2>2
    <2> QED BY <1>2, <2>2, <2>3
  <1> SUFFICES ASSUME call'[w].claimed = call[w].claimed,
                      e \in Claimable(w, v), ~GroupFull(w, GroupOf[v])
               PROVE  \E d \in Claimable(w, v) \ Range(call[w].list) : VersionBefore(d, e)
    BY DEF PassedOver
  <1>4. ~taken
    <2>1. call'[w].claimed = IF taken THEN Append(call[w].claimed, e) ELSE call[w].claimed
      <3>1. call' = [call EXCEPT ![w] =
                       [call[w] EXCEPT !.list = Tail(@),
                                       !.room = IF taken THEN @ - 1 ELSE @,
                                       !.claimed = IF taken THEN Append(@, e) ELSE @]]
        BY DEF TryCandidate, Tried
      <3> HIDE DEF taken, e
      <3> QED BY <1>1, <3>1 DEF Calls, TypeInv, ClaimInv, SessionsInv
    <2>2. PICK claimed \in Seq(Episodes) : claimed = call[w].claimed
      BY <1>1 DEF Calls
    <2>3. Len(claimed) \in Nat /\ Len(Append(claimed, e)) = Len(claimed) + 1
      BY <1>3
    <2>4. Append(claimed, e) # claimed
      BY <2>3
    <2> QED BY <2>1, <2>2, <2>4
  <1>5. PICK d \in Claimable(w, v) : d # e /\ ~VersionBefore(e, d)
    BY <1>4 DEF Picked
  <1>6. d \in Open /\ e \in Open /\ VersionOf[d] = v
    BY DEF Claimable
  <1>7. Position(d) < Position(e) /\ Position(d) \in Nat /\ Position(e) \in Nat
    BY <1>5, <1>6, OpenPlaces, OrderOfVersion DEF TypeInv, ClaimInv
  <1>8. VersionBefore(d, e)
    <2>1. Bucket(d) \in Int /\ Bucket(e) \in Int
      BY DEF Bucket
    <2>2. ~(Bucket(e) < Bucket(d))
      BY <1>5 DEF VersionBefore
    <2> QED BY <1>7, <2>1, <2>2 DEF VersionBefore
  <1>9. d \notin Range(list)
    <2> SUFFICES ASSUME d \in Range(list) PROVE FALSE
      OBVIOUS
    <2>1. PICK j \in DOMAIN list : list[j] = d
      BY DEF Range
    <2>2. 1 < j
      <3>1. j # 1 /\ j \in 1 .. Len(list)
        BY <1>2, <1>3, <1>5, <2>1
      <3> QED BY <3>1
    <2>3. Position(e) < Position(d)
      BY <1>1, <1>2, <1>3, <1>6, <2>1, <2>2 DEF InOrder
    <2> QED BY <1>7, <2>3
  <1> QED BY <1>2, <1>8, <1>9

\* What claim lists and what claim_episode chooses never work against each
\* other within a version: a candidate that could be claimed is passed over
\* only for an episode the call has not in its list any more, or never had.
THEOREM OrdersNeverClash == Spec => OrdersAgree
  <1>1. TypeInv /\ [Next]_vars
          => [\A w \in Callers : TryCandidate(w) => PassedOver(w)]_vars
    BY PassesOverRightly
  <1> QED BY <1>1, InitTypes, NextTypes, PTL DEF Spec, OrdersAgree
-----------------------------------------------------------------------------
(***************************************************************************)
(* What a session holds is its own.  Claims and batches are kept apart by  *)
(* the version locks and by the committed leases; the work of a run() that *)
(* has not committed is kept from everybody by the coordinator lock.       *)
(***************************************************************************)
Lists(w) ==
  /\ IsInjective(call[w].claimed)
  /\ call[w].pc = "execute" => IsInjective(call[w].list)

HoldInv ==
  /\ \A w \in Callers : Held(w) \subseteq Open /\ Lists(w)
  /\ \A w \in Callers : \A e \in Claims(w) : owner[e] = NoOne
  /\ \A w \in Callers : \A e \in Batch(w) : owner[e] = w
  /\ \A w \in Callers : call[w].ran # {} => exclusive = w
  /\ \A w \in Callers : exclusive = w =>
       \A u \in Callers \ {w} : call[u].pc # "claim"
  /\ \A u, w \in Callers : u # w => Held(u) \cap call[w].ran = {}

HeldInv == TypeInv /\ IInv /\ HoldInv

LEMMA HoldsApart ==
  ASSUME HeldInv, NEW u \in Callers, NEW w \in Callers, u # w
  PROVE  Held(u) \cap Held(w) = {}
  <1> SUFFICES ASSUME NEW e \in Held(u) \cap Held(w) PROVE FALSE
    OBVIOUS
  <1>1. NoOne # u /\ NoOne # w
    BY AgendaAssumption
  <1>2. CASE e \in Claims(u) /\ e \in Claims(w)
    BY <1>2 DEF HeldInv, IInv, Core, ClaimsLocked
  <1>3. CASE e \in Batch(u) \/ e \in Batch(w)
    BY <1>1, <1>3 DEF HeldInv, HoldInv, Held, Claims
  <1> QED BY <1>2, <1>3 DEF Held, Claims

\* A step of one session, which leaves to the others what they hold.
LEMMA HoldMoves ==
  ASSUME HoldInv, NEW w \in Callers, OnlyMoves(w),
         \A u \in Callers \ {w} : Held(u) \subseteq Open',
         \A u \in Callers \ {w} : \A e \in Held(u) : owner'[e] = owner[e],
         \A u \in Callers \ {w} : call[u].ran # {} => exclusive' = exclusive,
         \A u \in Callers \ {w} : exclusive' = u =>
           exclusive = u /\ (call'[w].pc = "claim" => call[w].pc = "claim"),
         Held(w)' \subseteq Open', Lists(w)',
         \A e \in Claims(w)' : owner'[e] = NoOne,
         \A e \in Batch(w)' : owner'[e] = w,
         call'[w].ran # {} => exclusive' = w,
         exclusive' = w => \A u \in Callers \ {w} : call[u].pc # "claim",
         \A u \in Callers \ {w} : Held(u) \cap call'[w].ran = {},
         \A u \in Callers \ {w} : Held(w)' \cap call[u].ran = {}
  PROVE  HoldInv'
  <1>1. \A u \in Callers \ {w} : call'[u] = call[u]
    BY DEF OnlyMoves
  <1>2. \A u \in Callers \ {w} :
          /\ Claims(u)' = Claims(u) /\ Batch(u)' = Batch(u) /\ Held(u)' = Held(u)
          /\ Lists(u)' <=> Lists(u)
    BY <1>1 DEF Claims, Batch, Held, Lists
  <1>3. \A u \in Callers : Claims(u) \subseteq Held(u) /\ Batch(u) \subseteq Held(u)
    BY DEF Claims, Held
  <1>4. \A u \in Callers : Held(u)' \subseteq Open' /\ Lists(u)'
    BY <1>2 DEF HoldInv
  <1>5. \A u \in Callers : \A e \in Claims(u)' : owner'[e] = NoOne
    BY <1>2, <1>3 DEF HoldInv
  <1>6. \A u \in Callers : \A e \in Batch(u)' : owner'[e] = u
    BY <1>2, <1>3 DEF HoldInv
  <1>7. \A u \in Callers : call'[u].ran # {} => exclusive' = u
    BY <1>1 DEF HoldInv
  <1>8. ASSUME NEW u \in Callers, exclusive' = u, NEW v \in Callers \ {u}
        PROVE  call'[v].pc # "claim"
    <2>1. CASE u = w
      BY <1>1, <1>8, <2>1
    <2>2. CASE u # w
      <3>1. exclusive = u /\ (call'[w].pc = "claim" => call[w].pc = "claim")
        BY <1>8, <2>2
      <3>2. call[v].pc # "claim"
        BY <3>1 DEF HoldInv
      <3> QED BY <1>1, <3>1, <3>2
    <2> QED BY <2>1, <2>2
  <1>9. ASSUME NEW u \in Callers, NEW v \in Callers, u # v
        PROVE  Held(u)' \cap call'[v].ran = {}
    <2>1. CASE u = w
      BY <1>1, <1>9, <2>1
    <2>2. CASE v = w
      BY <1>2, <1>9, <2>2
    <2>3. CASE u # w /\ v # w
      BY <1>1, <1>2, <1>9, <2>3 DEF HoldInv
    <2> QED BY <2>1, <2>2, <2>3
  <1> QED BY <1>4, <1>5, <1>6, <1>7, <1>8, <1>9 DEF HoldInv

\* Only a session that has its coordination to commit keeps others from claims.
LEMMA NobodyElseRan ==
  ASSUME HoldInv, NEW w \in Callers, call[w].pc = "claim"
  PROVE  \A u \in Callers \ {w} : call[u].ran = {}
  BY DEF HoldInv

\* Run() brings episodes that were not open.
LEMMA OpenGrows ==
  ASSUME AgendaInv, NEW new \in NewWork, queue' = queue \o new
  PROVE  Open \subseteq Open' /\ Range(new) \cap Open = {}
  <1>1. CASE new = <<>>
    BY <1>1, EmptyRange DEF AgendaInv, Open
  <1>2. CASE \E e \in Episodes \ Open : new = <<e>>
    <2>1. PICK e \in Episodes \ Open : new = <<e>>
      BY <1>2
    <2>2. queue' = Append(queue, e)
      BY <2>1 DEF AgendaInv
    <2>3. Range(new) = {e}
      BY <2>1 DEF Range
    <2> QED BY <2>2, <2>3, RangeAppend DEF Open, AgendaInv
  <1> QED BY <1>1, <1>2 DEF NewWork

\* A step after which the session has nothing claimed and no batch.
LEMMA HoldsNothing ==
  ASSUME HeldInv, NEW w \in Callers, NEW r, call' = [call EXCEPT ![w] = r],
         Range(r.claimed) = {}, IsInjective(r.claimed), r.pc # "execute",
         \A u \in Callers \ {w} : Held(u) \subseteq Open',
         owner' = owner,
         \A u \in Callers \ {w} : Held(u) \cap r.ran = {},
         r.ran # {} => exclusive' = w,
         \/ exclusive' = exclusive
         \/ exclusive' = w /\ Available(w)
         \/ exclusive = w /\ exclusive' = NoOne,
         r.pc = "claim" => Shareable(w)
  PROVE  HoldInv'
  <1>0. HoldInv /\ NoOne \notin Callers
    BY AgendaAssumption DEF HeldInv
  <1>1. call'[w] = r /\ OnlyMoves(w)
    BY DEF HeldInv, TypeInv, ClaimInv, SessionsInv, OnlyMoves
  <1>2. Claims(w)' = {} /\ Batch(w)' = {} /\ Held(w)' = {} /\ Lists(w)'
    BY <1>1 DEF Claims, Batch, Held, Lists
  <1>3. \A u \in Callers \ {w} : call[u].ran # {} => exclusive' = exclusive
    <2> SUFFICES ASSUME NEW u \in Callers \ {w}, call[u].ran # {}
                 PROVE  exclusive' = exclusive
      OBVIOUS
    <2>1. exclusive = u
      BY <1>0 DEF HoldInv
    <2> QED BY <1>0, <2>1 DEF Available, Shareable
  <1>4. \A u \in Callers \ {w} : exclusive' = u =>
          exclusive = u /\ (call'[w].pc = "claim" => call[w].pc = "claim")
    BY <1>0, <1>1 DEF Shareable
  <1>5. exclusive' = w => \A u \in Callers \ {w} : call[u].pc # "claim"
    BY <1>0 DEF HoldInv, Available
  <1> QED BY <1>0, <1>1, <1>2, <1>3, <1>4, <1>5, HoldMoves

LEMMA NothingClaimed ==
  ASSUME HeldInv, NEW w \in Callers, call[w].pc # "claim"
  PROVE  /\ Range(call[w].claimed) = {} /\ IsInjective(call[w].claimed)
         /\ call[w].pc # "execute" => Held(w) = {}
  BY DEF HeldInv, IInv, Core, ClaimsLocked, Claims, HoldInv, Lists, Held, Batch

\* Episodes that others hold stay open when a session drops what nobody else
\* holds.
LEMMA OthersKeep ==
  ASSUME HeldInv, NEW w \in Callers, NEW finished,
         queue' = Without(finished),
         \A u \in Callers \ {w} : Held(u) \cap finished = {}
  PROVE  /\ Open' = Open \ finished
         /\ \A u \in Callers \ {w} : Held(u) \subseteq Open'
  <1>1. Range(queue') = Open \ finished
    BY WithoutKeeps DEF HeldInv, TypeInv, ClaimInv
  <1>2. Open' = Open \ finished
    BY <1>1 DEF Open
  <1> QED BY <1>2 DEF HeldInv, HoldInv

LEMMA IdleHolds ==
  Range(Idle.claimed) = {} /\ IsInjective(Idle.claimed) /\ Idle.pc = "idle" /\ Idle.ran = {}
  BY EmptyRange DEF Idle, IsInjective

\* A transaction ends without leases: what it finished nobody else held.
LEMMA EndsHold ==
  ASSUME HeldInv, NEW w \in Callers, NEW finished,
         \A u \in Callers \ {w} : Held(u) \cap finished = {},
         queue' = Without(finished), owner' = owner,
         exclusive' = IF exclusive = w THEN NoOne ELSE exclusive,
         call' = [call EXCEPT ![w] = Idle]
  PROVE  HoldInv'
  <1>1. \A u \in Callers \ {w} : Held(u) \subseteq Open'
    BY OthersKeep
  <1>2. exclusive' = exclusive \/ (exclusive = w /\ exclusive' = NoOne)
    OBVIOUS
  <1> QED BY <1>1, <1>2, IdleHolds, HoldsNothing

LEMMA AbortsHold ==
  ASSUME HeldInv, NEW w \in Callers, Abort(w)
  PROVE  HoldInv'
  <1>1. \A u \in Callers \ {w} : Held(u) \cap call[w].ran = {}
    BY DEF HeldInv, HoldInv
  <1> QED BY <1>1, EndsHold DEF Abort

LEMMA BeginsHold ==
  ASSUME HeldInv, NEW w \in Callers, NEW limit, BeginClaim(w, limit)
  PROVE  HoldInv'
  <1>1. PICK r : r = [call[w] EXCEPT !.pc = "claim", !.list = Candidates, !.room = limit]
    OBVIOUS
  <1>2. call[w] \in Calls
    BY DEF HeldInv, TypeInv, ClaimInv, SessionsInv
  <1>3. r.claimed = call[w].claimed /\ r.ran = call[w].ran /\ r.pc = "claim"
    BY <1>1, <1>2 DEF Calls
  <1>4. call' = [call EXCEPT ![w] = r]
    BY <1>1 DEF BeginClaim
  <1> HIDE <1>1
  <1>5. \A u \in Callers \ {w} : Held(u) \subseteq Open' /\ Held(u) \cap r.ran = {}
    BY <1>3 DEF HeldInv, HoldInv, BeginClaim, Open
  <1>6. r.ran # {} => exclusive' = w
    BY <1>3 DEF HeldInv, HoldInv, BeginClaim
  <1>7. Range(r.claimed) = {} /\ IsInjective(r.claimed)
    BY <1>3, NothingClaimed DEF BeginClaim
  <1> QED BY <1>3, <1>4, <1>5, <1>6, <1>7, HoldsNothing DEF BeginClaim

LEMMA PassHolds ==
  ASSUME HeldInv, NEW w \in Callers, RunPass(w)
  PROVE  HoldInv'
  <1>1. PICK r : r = [call[w] EXCEPT !.pc = "poll"]
    OBVIOUS
  <1>2. call[w] \in Calls
    BY DEF HeldInv, TypeInv, ClaimInv, SessionsInv
  <1>3. r.claimed = call[w].claimed /\ r.ran = call[w].ran /\ r.pc = "poll"
    BY <1>1, <1>2 DEF Calls
  <1>4. call' = [call EXCEPT ![w] = r]
    BY <1>1 DEF RunPass
  <1> HIDE <1>1
  <1>5. Open \subseteq Open'
    BY OpenGrows DEF HeldInv, TypeInv, ClaimInv, RunPass
  <1>6. \A u \in Callers \ {w} : Held(u) \subseteq Open' /\ Held(u) \cap r.ran = {}
    BY <1>3, <1>5 DEF HeldInv, HoldInv
  <1>7. r.ran # {} => exclusive' = w
    BY <1>3 DEF HeldInv, HoldInv, RunPass
  <1>8. Range(r.claimed) = {} /\ IsInjective(r.claimed)
    BY <1>3, NothingClaimed DEF RunPass
  <1> QED BY <1>3, <1>4, <1>6, <1>7, <1>8, HoldsNothing DEF RunPass

LEMMA AppendNew ==
  ASSUME NEW s \in Seq(Episodes), IsInjective(s), NEW e \in Episodes, e \notin Range(s)
  PROVE  IsInjective(Append(s, e))
  <1>1. /\ DOMAIN Append(s, e) = 1 .. Len(s) + 1
        /\ \A i \in 1 .. Len(s) : Append(s, e)[i] = s[i]
        /\ Append(s, e)[Len(s) + 1] = e
        /\ DOMAIN s = 1 .. Len(s) /\ Len(s) \in Nat
    OBVIOUS
  <1>2. \A i \in 1 .. Len(s) + 1 : i \in 1 .. Len(s) \/ i = Len(s) + 1
    BY <1>1
  <1>3. \A i \in 1 .. Len(s) : s[i] # e
    BY <1>1 DEF Range
  <1> HIDE <1>1
  <1> QED BY <1>1, <1>2, <1>3 DEF IsInjective

\* A candidate is taken that is open and that no lease names; a session that
\* claims is the only one that can have uncommitted coordination.
LEMMA TriesHold ==
  ASSUME HeldInv, NEW w \in Callers, TryCandidate(w)
  PROVE  HoldInv'
  <1> DEFINE e == Head(call[w].list)
             taken == e \in Picked(w, VersionOf[e])
  <1>1. /\ call[w] \in Calls /\ call[w].pc = "claim"
        /\ queue' = queue /\ owner' = owner /\ exclusive' = exclusive
    BY DEF HeldInv, TypeInv, ClaimInv, SessionsInv, TryCandidate
  <1>2. taken => e \in Open /\ owner[e] = NoOne /\ e \notin Claims(w)
    BY AgendaAssumption DEF Picked, Claimable, Leases, Claims
  <1>3. e \in Episodes
    <2>1. PICK list \in Seq(Episodes) : list = call[w].list
      BY <1>1 DEF Calls
    <2>2. list # <<>>
      BY <2>1 DEF TryCandidate, Exhausted
    <2> QED BY <2>1, <2>2
  <1>4. PICK r : r = [call[w] EXCEPT !.list = Tail(@),
                                     !.room = IF taken THEN @ - 1 ELSE @,
                                     !.claimed = IF taken THEN Append(@, e) ELSE @]
    OBVIOUS
  <1>5. call' = [call EXCEPT ![w] = r]
    BY <1>4 DEF TryCandidate, Tried
  <1> HIDE DEF e, taken
  <1>6. /\ r.pc = "claim" /\ r.ran = call[w].ran
        /\ r.claimed = IF taken THEN Append(call[w].claimed, e) ELSE call[w].claimed
    BY <1>1, <1>4 DEF Calls
  <1> HIDE <1>4
  <1>7. call'[w] = r /\ OnlyMoves(w)
    BY <1>5 DEF HeldInv, TypeInv, ClaimInv, SessionsInv, OnlyMoves
  <1>8. PICK claimed \in Seq(Episodes) : claimed = call[w].claimed
    BY <1>1 DEF Calls
  <1>9. IsInjective(claimed) /\ Range(claimed) = Claims(w)
    BY <1>8 DEF HeldInv, HoldInv, Lists, Claims
  <1>10. /\ Range(r.claimed) = IF taken THEN Claims(w) \cup {e} ELSE Claims(w)
         /\ IsInjective(r.claimed)
    <2>1. CASE ~taken
      BY <1>6, <1>8, <1>9, <2>1
    <2>2. CASE taken
      <3>1. Range(Append(claimed, e)) = Range(claimed) \cup {e}
        BY <1>3, RangeAppend
      <3>2. e \notin Range(claimed)
        BY <1>2, <1>9, <2>2
      <3>3. IsInjective(Append(claimed, e))
        BY <1>3, <1>9, <3>2, AppendNew
      <3> QED BY <1>6, <1>8, <1>9, <2>2, <3>1, <3>3
    <2> QED BY <2>1, <2>2
  <1>11. Claims(w)' = Range(r.claimed) /\ Batch(w)' = {} /\ Lists(w)'
    BY <1>6, <1>7, <1>10 DEF Claims, Batch, Lists
  <1>12. Held(w)' = Range(r.claimed)
    BY <1>11 DEF Held, Claims
  <1>13. Open' = Open /\ Claims(w) \subseteq Open /\ HoldInv
    BY <1>1 DEF Open, HeldInv, HoldInv, Held, Claims
  <1>14. \A u \in Callers \ {w} : call[u].ran = {} /\ exclusive # u
    BY <1>1, <1>13 DEF HoldInv
  <1>15. Held(w)' \subseteq Open'
    BY <1>2, <1>10, <1>12, <1>13
  <1>16. \A d \in Claims(w)' : owner'[d] = NoOne
    BY <1>1, <1>2, <1>10, <1>11, <1>13 DEF HoldInv
  <1>17. call'[w].ran # {} => exclusive' = w
    BY <1>1, <1>6, <1>7, <1>13 DEF HoldInv
  <1>18. exclusive' = w => \A u \in Callers \ {w} : call[u].pc # "claim"
    BY <1>1, <1>13 DEF HoldInv
  <1>19. \A u \in Callers \ {w} : Held(u) \subseteq Open' /\ Held(u) \cap call'[w].ran = {}
    BY <1>6, <1>7, <1>13 DEF HoldInv
  <1> QED BY <1>1, <1>7, <1>11, <1>13, <1>14, <1>15, <1>16, <1>17, <1>18, <1>19, HoldMoves

LEMMA CommitsHold ==
  ASSUME HeldInv, NEW w \in Callers, CommitClaim(w)
  PROVE  HoldInv'
  <1>1. /\ call[w] \in Calls /\ call[w].pc = "claim" /\ HoldInv
        /\ queue' = queue /\ exclusive' = exclusive
    BY DEF HeldInv, TypeInv, ClaimInv, SessionsInv, CommitClaim
  <1>2. PICK r : r = IF call[w].claimed = <<>> THEN Idle
                     ELSE [Idle EXCEPT !.pc = "execute", !.list = call[w].claimed]
    OBVIOUS
  <1>3. call' = [call EXCEPT ![w] = r]
    BY <1>2 DEF CommitClaim
  <1>4. /\ Range(r.claimed) = {} /\ IsInjective(r.claimed) /\ r.ran = {}
        /\ r.pc \in {"idle", "execute"}
        /\ r.pc = "execute" => r.list = call[w].claimed
    BY <1>2, EmptyRange DEF Idle, IsInjective
  <1> HIDE <1>2
  <1>5. call'[w] = r /\ OnlyMoves(w)
    BY <1>3 DEF HeldInv, TypeInv, ClaimInv, SessionsInv, OnlyMoves
  <1>6. /\ Claims(w)' = {} /\ Batch(w)' \subseteq Claims(w)
        /\ Held(w)' \subseteq Claims(w) /\ Lists(w)'
    BY <1>1, <1>4, <1>5 DEF Claims, Batch, Held, Lists, HoldInv
  <1>7. Open' = Open /\ Claims(w) \subseteq Open /\ Claims(w) \subseteq Episodes
    <2>1. Claims(w) \subseteq Held(w)
      BY DEF Held, Claims
    <2> QED BY <1>1, <2>1, OpenPlaces DEF Open, HeldInv, HoldInv, TypeInv, ClaimInv
  <1>8. owner' = [e \in Episodes |-> IF e \in Claims(w) THEN w ELSE owner[e]]
    BY DEF CommitClaim, Claims
  <1>9. \A u \in Callers \ {w} : Held(u) \cap Claims(w) = {} /\ Held(u) \subseteq Episodes
    <2>1. Claims(w) \subseteq Held(w)
      BY DEF Held, Claims
    <2>2. Open \subseteq Episodes
      BY OpenPlaces DEF HeldInv, TypeInv, ClaimInv
    <2> QED BY <1>1, <2>1, <2>2, HoldsApart DEF HoldInv
  <1>10. \A u \in Callers \ {w} : \A e \in Held(u) : owner'[e] = owner[e]
    BY <1>8, <1>9
  <1>11. \A e \in Batch(w)' : owner'[e] = w
    BY <1>6, <1>7, <1>8
  <1>12. \A u \in Callers \ {w} : call[u].ran = {} /\ exclusive # u
    BY <1>1 DEF HoldInv
  <1>13. exclusive' = w => \A u \in Callers \ {w} : call[u].pc # "claim"
    BY <1>1 DEF HoldInv
  <1>14. \A u \in Callers \ {w} : Held(u) \subseteq Open' /\ Held(u) \cap call'[w].ran = {}
    BY <1>1, <1>4, <1>5, <1>7 DEF HoldInv
  <1> QED BY <1>1, <1>4, <1>5, <1>6, <1>7, <1>10, <1>11, <1>12, <1>13, <1>14, HoldMoves

\* A sequence without repetitions loses its head.
LEMMA TailLosesHead ==
  ASSUME NEW list \in Seq(Episodes), list # <<>>, IsInjective(list)
  PROVE  /\ Head(list) \in Range(list) /\ IsInjective(Tail(list))
         /\ Range(Tail(list)) \subseteq Range(list) \ {Head(list)}
  <1>1. PICK n \in Nat : n = Len(list) /\ DOMAIN list = 1 .. n /\ 1 \in 1 .. n
    BY EmptySeq
  <1> DEFINE rest == Tail(list)
  <1>2. /\ DOMAIN rest = 1 .. n - 1
        /\ \A i \in 1 .. n - 1 : rest[i] = list[i + 1]
        /\ Head(list) = list[1]
    BY <1>1
  <1>3. \A i \in 1 .. n - 1 : i + 1 \in 1 .. n /\ i + 1 # 1
    BY <1>1
  <1> HIDE DEF rest
  <1>4. Head(list) \in Range(list)
    BY <1>1, <1>2 DEF Range
  <1>5. IsInjective(rest)
    <2> SUFFICES ASSUME NEW i \in 1 .. n - 1, NEW j \in 1 .. n - 1, rest[i] = rest[j]
                 PROVE  i = j
      BY <1>2 DEF IsInjective
    <2>1. i + 1 = j + 1
      BY <1>1, <1>2, <1>3 DEF IsInjective
    <2> QED BY <2>1
  <1>6. Range(rest) \subseteq Range(list) \ {Head(list)}
    BY <1>1, <1>2, <1>3 DEF Range, IsInjective
  <1> QED BY <1>4, <1>5, <1>6 DEF rest

LEMMA ExecutesHold ==
  ASSUME HeldInv, NEW w \in Callers, Execute(w)
  PROVE  HoldInv'
  <1> DEFINE e == Head(call[w].list)
  <1>1. /\ call[w] \in Calls /\ call[w].pc = "execute" /\ call[w].list # <<>>
        /\ HoldInv /\ exclusive' = exclusive /\ Shareable(w)
    BY DEF HeldInv, TypeInv, ClaimInv, SessionsInv, Sound, Execute
  <1>2. PICK r : r = Remaining(w)
    OBVIOUS
  <1>3. call' = [call EXCEPT ![w] = r]
    BY <1>2 DEF Execute
  <1>4. PICK list \in Seq(Episodes) : list = call[w].list
    BY <1>1 DEF Calls
  <1>5. /\ e \in Range(list) /\ IsInjective(Tail(list))
        /\ Range(Tail(list)) \subseteq Range(list) \ {e}
    BY <1>1, <1>4, TailLosesHead DEF HoldInv, Lists
  <1>6. Claims(w) = {} /\ Batch(w) = Range(list) /\ Held(w) = Range(list)
        /\ IsInjective(call[w].claimed)
    BY <1>1, <1>4, NothingClaimed DEF Claims, Batch, Held
  <1>7. \/ r = Idle
        \/ /\ r.pc = "execute" /\ r.list = Tail(list)
           /\ r.claimed = call[w].claimed /\ r.ran = call[w].ran
    BY <1>1, <1>2, <1>4 DEF Calls, Remaining
  <1> HIDE <1>2
  <1>8. call'[w] = r /\ OnlyMoves(w)
    BY <1>3 DEF HeldInv, TypeInv, ClaimInv, SessionsInv, OnlyMoves
  <1>9. /\ Claims(w)' = {} /\ Lists(w)'
        /\ Held(w)' = Batch(w)' /\ Batch(w)' \subseteq Range(list) \ {e}
        /\ call'[w].pc # "claim"
        /\ call'[w].ran \subseteq call[w].ran
    <2>1. CASE r = Idle
      <3>1. Range(r.claimed) = {} /\ IsInjective(r.claimed) /\ r.pc = "idle" /\ r.ran = {}
        BY <2>1, IdleHolds
      <3> HIDE <2>1
      <3> QED BY <1>8, <3>1 DEF Claims, Batch, Held, Lists
    <2>2. CASE r # Idle
      BY <1>5, <1>6, <1>7, <1>8, <2>2 DEF Claims, Batch, Held, Lists
    <2> QED BY <2>1, <2>2
  <1>10. \A u \in Callers \ {w} : Held(u) \cap {e} = {}
    BY <1>5, <1>6, HoldsApart
  <1>11. /\ Open' = Open \ {e}
         /\ \A u \in Callers \ {w} : Held(u) \subseteq Open'
    BY <1>10, OthersKeep DEF Execute
  <1>12. owner' = [owner EXCEPT ![e] = NoOne]
    BY DEF Execute
  <1> HIDE DEF e
  <1>13. /\ \A u \in Callers \ {w} : \A d \in Held(u) : owner'[d] = owner[d]
         /\ \A d \in Batch(w)' : owner'[d] = w
    <2>1. \A d \in Episodes \ {e} : owner'[d] = owner[d]
      BY <1>12 DEF HeldInv, TypeInv, Rest
    <2>2. Open \subseteq Episodes
      BY OpenPlaces DEF HeldInv, TypeInv, ClaimInv
    <2>3. \A u \in Callers \ {w} : Held(u) \subseteq Episodes \ {e}
      BY <1>1, <1>10, <2>2 DEF HoldInv
    <2>4. Batch(w)' \subseteq Batch(w) /\ Batch(w)' \subseteq Episodes \ {e}
      BY <1>1, <1>6, <1>9, <2>2 DEF HoldInv
    <2> QED BY <1>1, <2>1, <2>3, <2>4 DEF HoldInv
  <1>14. Held(w)' \subseteq Open'
    BY <1>1, <1>6, <1>9, <1>11 DEF HoldInv
  <1>15. \A u \in Callers \ {w} : call[u].ran = {} /\ exclusive # u
    BY <1>1, AgendaAssumption DEF HoldInv, Shareable
  <1>16. call'[w].ran # {} => exclusive' = w
    BY <1>1, <1>9 DEF HoldInv
  <1>17. exclusive' = w => \A u \in Callers \ {w} : call[u].pc # "claim"
    BY <1>1 DEF HoldInv
  <1>18. \A u \in Callers \ {w} : Held(u) \cap call'[w].ran = {}
    BY <1>1, <1>9 DEF HoldInv
  <1> QED BY <1>1, <1>8, <1>9, <1>11, <1>13, <1>14, <1>15, <1>16, <1>17, <1>18, HoldMoves

LEMMA HoldUnmoved ==
  ASSUME HoldInv, queue' = queue, owner' = owner, exclusive' = exclusive, call' = call
  PROVE  HoldInv'
  <1>1. /\ Open' = Open
        /\ \A w \in Callers : /\ Claims(w)' = Claims(w) /\ Batch(w)' = Batch(w)
                              /\ Held(w)' = Held(w) /\ Lists(w)' <=> Lists(w)
    BY DEF Open, Claims, Batch, Held, Lists
  <1> QED BY <1>1 DEF HoldInv

LEMMA CycleHolds ==
  ASSUME HeldInv, BeginCycle
  PROVE  HoldInv'
  <1>1. CASE UNCHANGED call
    BY <1>1, HoldUnmoved DEF HeldInv, BeginCycle
  <1>2. CASE ~UNCHANGED call
    <2>1. PICK r : r = [call[Manager] EXCEPT !.pc = IF Backpressure THEN "poll" ELSE "run",
                                             !.room = ClaimLimit]
      OBVIOUS
    <2>2. call' = [call EXCEPT ![Manager] = r]
      BY <1>2, <2>1 DEF BeginCycle
    <2>3. call[Manager] \in Calls /\ Manager \in Callers /\ call[Manager].pc = "idle"
      BY ManagerAssumption
      DEF HeldInv, TypeInv, ClaimInv, SessionsInv, IInv, ProcessIdle, BeginCycle
    <2>4. /\ r.claimed = call[Manager].claimed /\ r.ran = call[Manager].ran
          /\ r.pc \in {"poll", "run"}
      BY <2>1, <2>3 DEF Calls
    <2> HIDE <2>1
    <2>5. Range(r.claimed) = {} /\ IsInjective(r.claimed)
      BY <2>3, <2>4, NothingClaimed
    <2>6. r.ran # {} => exclusive' = Manager
      BY <2>3, <2>4 DEF HeldInv, HoldInv, BeginCycle
    <2>7. \A u \in Callers \ {Manager} : Held(u) \subseteq Open' /\ Held(u) \cap r.ran = {}
      BY <2>3, <2>4 DEF HeldInv, HoldInv, BeginCycle, Open
    <2> QED BY <2>2, <2>3, <2>4, <2>5, <2>6, <2>7, HoldsNothing DEF BeginCycle
  <1> QED BY <1>1, <1>2

\* The episode of an event that run() has just found was not open, so it is in
\* nobody's batch; nobody claims before the transaction ends.
LEMMA RunHolds ==
  ASSUME HeldInv, RunInCycle
  PROVE  HoldInv'
  <1>1. /\ call[Manager] \in Calls /\ Manager \in Callers /\ call[Manager].pc = "run"
        /\ owner' = owner /\ HoldInv
    BY ManagerAssumption DEF HeldInv, TypeInv, ClaimInv, SessionsInv, RunInCycle
  <1>2. CASE UNCHANGED <<queue, exclusive>> /\ call' = [call EXCEPT ![Manager].pc = "poll"]
    <2>1. PICK r : r = [call[Manager] EXCEPT !.pc = "poll"]
      OBVIOUS
    <2>2. call' = [call EXCEPT ![Manager] = r]
      BY <1>2, <2>1
    <2>3. r.claimed = call[Manager].claimed /\ r.ran = call[Manager].ran /\ r.pc = "poll"
      BY <1>1, <2>1 DEF Calls
    <2> HIDE <2>1
    <2>4. Range(r.claimed) = {} /\ IsInjective(r.claimed)
      BY <1>1, <2>3, NothingClaimed
    <2>5. r.ran # {} => exclusive' = Manager
      BY <1>1, <1>2, <2>3 DEF HoldInv
    <2>6. \A u \in Callers \ {Manager} : Held(u) \subseteq Open' /\ Held(u) \cap r.ran = {}
      BY <1>1, <1>2, <2>3 DEF HoldInv, Open
    <2> QED BY <1>1, <1>2, <2>2, <2>3, <2>4, <2>5, <2>6, HoldsNothing
  <1>3. ASSUME Available(Manager), NEW new \in NewWork, queue' = queue \o new,
               exclusive' = Manager,
               call' = [call EXCEPT ![Manager].pc = "poll", ![Manager].ran = Range(new)]
        PROVE  HoldInv'
    <2>1. PICK r : r = [call[Manager] EXCEPT !.pc = "poll", !.ran = Range(new)]
      OBVIOUS
    <2>2. call' = [call EXCEPT ![Manager] = r]
      BY <1>3, <2>1
    <2>3. r.claimed = call[Manager].claimed /\ r.ran = Range(new) /\ r.pc = "poll"
      BY <1>1, <2>1 DEF Calls
    <2> HIDE <2>1
    <2>4. Range(r.claimed) = {} /\ IsInjective(r.claimed)
      BY <1>1, <2>3, NothingClaimed
    <2>5. Open \subseteq Open' /\ Range(new) \cap Open = {}
      BY <1>3, OpenGrows DEF HeldInv, TypeInv, ClaimInv
    <2>6. \A u \in Callers \ {Manager} : Held(u) \subseteq Open' /\ Held(u) \cap r.ran = {}
      BY <1>1, <2>3, <2>5 DEF HoldInv
    <2> QED BY <1>1, <1>3, <2>2, <2>3, <2>4, <2>6, HoldsNothing
  <1> QED BY <1>2, <1>3 DEF RunInCycle

LEMMA FinishHolds ==
  ASSUME HeldInv, FinishCycle
  PROVE  HoldInv'
  <1>1. Manager \in Callers /\ Claims(Manager) \subseteq Held(Manager)
    BY ManagerAssumption DEF Held, Claims
  <1>2. \A u \in Callers \ {Manager} : Held(u) \cap Claims(Manager) = {}
    BY <1>1, HoldsApart
  <1> QED BY <1>1, <1>2, EndsHold DEF FinishCycle, Claims

LEMMA RestartHolds ==
  ASSUME HeldInv, RestartServer
  PROVE  HoldInv'
  <1>1. \A w \in Callers : call'[w] = Idle
    BY DEF RestartServer
  <1>2. \A w \in Callers : /\ Range(call'[w].claimed) = {} /\ IsInjective(call'[w].claimed)
                           /\ call'[w].pc = "idle" /\ call'[w].ran = {}
    BY <1>1, IdleHolds
  <1>3. \A w \in Callers : /\ Claims(w)' = {} /\ Batch(w)' = {} /\ Held(w)' = {}
                           /\ Lists(w)'
    BY <1>2 DEF Claims, Batch, Held, Lists
  <1>4. exclusive' \notin Callers
    BY AgendaAssumption DEF RestartServer
  <1> QED BY <1>2, <1>3, <1>4 DEF HoldInv

LEMMA HoldStep ==
  ASSUME HeldInv, [Next]_vars
  PROVE  HoldInv'
  <1>0. Manager \in Callers /\ HoldInv
    BY ManagerAssumption DEF HeldInv
  <1>1. CASE StartProcess \/ WaitLatch \/ Terminate \/ Administer \/ UNCHANGED vars
    BY <1>0, <1>1, HoldUnmoved
    DEF StartProcess, WaitLatch, Terminate, Administer, vars, claimVars
  <1>2. CASE Age
    BY <1>0, <1>2, HoldUnmoved DEF Age
  <1>3. CASE BeginCycle
    BY <1>3, CycleHolds
  <1>4. CASE RunInCycle
    BY <1>4, RunHolds
  <1>5. CASE ClaimInCycle
    BY <1>0, <1>5, BeginsHold DEF ClaimInCycle
  <1>6. CASE TryCandidate(Manager)
    BY <1>0, <1>6, TriesHold
  <1>7. CASE CycleFails \/ Crash
    BY <1>0, <1>7, AbortsHold DEF CycleFails, Crash
  <1>8. CASE FinishCycle
    BY <1>8, FinishHolds
  <1>9. CASE RestartServer
    BY <1>9, RestartHolds
  <1>10. CASE \E w \in Daemons : RunPass(w) \/ Progress(w)
    <2>1. PICK w \in Callers : RunPass(w) \/ Progress(w)
      BY <1>10 DEF Daemons
    <2> QED BY <2>1, PassHolds, BeginsHold, TriesHold, CommitsHold, ExecutesHold, AbortsHold
            DEF Progress, AbortClaim
  <1> QED BY <1>1, <1>2, <1>3, <1>4, <1>5, <1>6, <1>7, <1>8, <1>9, <1>10
          DEF Next, WorkerStep

LEMMA InitHolds == Init => HoldInv
  <1> SUFFICES ASSUME Init PROVE HoldInv
    OBVIOUS
  <1>1. \A w \in Callers : call[w] = Idle
    BY DEF Init
  <1>2. \A w \in Callers : /\ Range(call[w].claimed) = {} /\ IsInjective(call[w].claimed)
                           /\ call[w].pc = "idle" /\ call[w].ran = {}
    BY <1>1, IdleHolds
  <1>3. \A w \in Callers : /\ Claims(w) = {} /\ Batch(w) = {} /\ Held(w) = {} /\ Lists(w)
    BY <1>2 DEF Claims, Batch, Held, Lists
  <1>4. exclusive \notin Callers
    BY AgendaAssumption DEF Init
  <1> QED BY <1>2, <1>3, <1>4 DEF HoldInv

\* However claims, commits, executions, aborts and crashes interleave: no
\* episode is in the hands of two sessions, none that is finished or that a
\* failing cycle could take back is in anybody's.
THEOREM HoldersAreUnique == Spec => []HeldByOne
  <1>1. HeldInv => HeldByOne
    <2> SUFFICES ASSUME HeldInv PROVE HeldByOne
      OBVIOUS
    <2>1. HoldInv
      BY DEF HeldInv
    <2> QED BY <2>1, HoldsApart DEF HeldByOne, HoldInv
  <1>2. HeldInv /\ [Next]_vars => HoldInv'
    BY HoldStep
  <1> QED BY <1>1, <1>2, InitHolds, InitInv, NextInv, InitTypes, NextTypes, PTL
          DEF Spec, HeldInv

-----------------------------------------------------------------------------
(***************************************************************************)
(* The sessions implement WorkPool.  Only the managed worker's transaction *)
(* has uncommitted coordination, from its run() to its end, and it leaves  *)
(* no batch: what it claims it finishes in the same transaction.           *)
(***************************************************************************)
CoordinationInv ==
  /\ \A w \in Callers : call[w].ran # {} => w = Manager /\ call[w].pc \in {"poll", "claim"}
  /\ call[Manager].pc # "execute"

PoolInv == HeldInv /\ CoordinationInv

\* A step of one session to a record that keeps to CoordinationInv.
LEMMA CoordinationMoves ==
  ASSUME PoolInv, NEW w \in Callers, NEW r, call' = [call EXCEPT ![w] = r],
         r.ran # {} => w = Manager /\ r.pc \in {"poll", "claim"},
         w = Manager => r.pc # "execute"
  PROVE  CoordinationInv'
  <1>1. call'[w] = r /\ \A u \in Callers \ {w} : call'[u] = call[u]
    BY DEF PoolInv, HeldInv, TypeInv, ClaimInv, SessionsInv
  <1> QED BY <1>1, ManagerAssumption DEF PoolInv, CoordinationInv

LEMMA CoordinationEnds ==
  ASSUME PoolInv, NEW w \in Callers, call' = [call EXCEPT ![w] = Idle]
  PROVE  CoordinationInv'
  <1>1. Idle.ran = {} /\ Idle.pc = "idle"
    BY DEF Idle
  <1> QED BY <1>1, CoordinationMoves

LEMMA CoordinationOfSession ==
  ASSUME PoolInv, NEW w \in Callers,
         \/ RunPass(w) /\ w # Manager
         \/ \E limit : BeginClaim(w, limit)
         \/ TryCandidate(w)
         \/ CommitClaim(w) /\ w # Manager
         \/ Execute(w) /\ w # Manager
         \/ Abort(w)
  PROVE  CoordinationInv'
  <1>0. call[w] \in Calls /\ (w # Manager => call[w].ran = {})
    BY DEF PoolInv, HeldInv, TypeInv, ClaimInv, SessionsInv, CoordinationInv
  <1>1. CASE RunPass(w) /\ w # Manager
    <2>1. PICK r : r = [call[w] EXCEPT !.pc = "poll"]
      OBVIOUS
    <2>2. r.ran = {} /\ call' = [call EXCEPT ![w] = r]
      BY <1>0, <1>1, <2>1 DEF RunPass, Calls
    <2> HIDE <2>1
    <2> QED BY <1>1, <2>2, CoordinationMoves
  <1>2. CASE \E limit : BeginClaim(w, limit)
    <2>1. PICK limit : BeginClaim(w, limit)
      BY <1>2
    <2>2. PICK r : r = [call[w] EXCEPT !.pc = "claim", !.list = Candidates, !.room = limit]
      OBVIOUS
    <2>3. r.ran = call[w].ran /\ r.pc = "claim" /\ call' = [call EXCEPT ![w] = r]
      BY <1>0, <2>1, <2>2 DEF BeginClaim, Calls
    <2> HIDE <2>2
    <2> QED BY <1>0, <2>3, CoordinationMoves
  <1>3. CASE TryCandidate(w)
    <2>1. PICK taken : taken = (Head(call[w].list) \in Picked(w, VersionOf[Head(call[w].list)]))
      OBVIOUS
    <2>2. PICK r : r = [call[w] EXCEPT !.list = Tail(@),
                          !.room = IF taken THEN @ - 1 ELSE @,
                          !.claimed = IF taken THEN Append(@, Head(call[w].list)) ELSE @]
      OBVIOUS
    <2>3. r.ran = call[w].ran /\ r.pc = "claim" /\ call' = [call EXCEPT ![w] = r]
      BY <1>0, <1>3, <2>1, <2>2 DEF TryCandidate, Tried, Calls
    <2> HIDE <2>2
    <2> QED BY <1>0, <2>3, CoordinationMoves
  <1>4. CASE CommitClaim(w) /\ w # Manager
    <2>1. PICK r : r = IF call[w].claimed = <<>> THEN Idle
                       ELSE [Idle EXCEPT !.pc = "execute", !.list = call[w].claimed]
      OBVIOUS
    <2>2. r.ran = {} /\ call' = [call EXCEPT ![w] = r]
      BY <1>0, <1>4, <2>1 DEF CommitClaim, Idle
    <2> HIDE <2>1
    <2> QED BY <1>4, <2>2, CoordinationMoves
  <1>5. CASE Execute(w) /\ w # Manager
    <2>1. PICK r : r = Remaining(w)
      OBVIOUS
    <2>2. r.ran = {} /\ call' = [call EXCEPT ![w] = r]
      BY <1>0, <1>5, <2>1 DEF Execute, Remaining, Idle, Calls
    <2> HIDE <2>1
    <2> QED BY <1>5, <2>2, CoordinationMoves
  <1>6. CASE Abort(w)
    BY <1>6, CoordinationEnds DEF Abort
  <1> QED BY <1>1, <1>2, <1>3, <1>4, <1>5, <1>6

LEMMA CoordinationStep ==
  ASSUME PoolInv, [Next]_vars
  PROVE  CoordinationInv'
  <1>0. /\ Manager \in Callers /\ call[Manager] \in Calls
        /\ CoordinationInv /\ ProcessIdle
    BY ManagerAssumption
    DEF PoolInv, HeldInv, TypeInv, ClaimInv, SessionsInv, IInv
  <1>1. CASE UNCHANGED call
    BY <1>0, <1>1 DEF CoordinationInv
  <1>2. CASE StartProcess \/ WaitLatch \/ Terminate \/ Administer \/ Age \/ UNCHANGED vars
    BY <1>1, <1>2
    DEF StartProcess, WaitLatch, Terminate, Administer, Age, vars, claimVars
  <1>3. CASE BeginCycle /\ ~UNCHANGED call
    <2>1. PICK r : r = [call[Manager] EXCEPT !.pc = IF Backpressure THEN "poll" ELSE "run",
                                             !.room = ClaimLimit]
      OBVIOUS
    <2>2. call' = [call EXCEPT ![Manager] = r] /\ call[Manager].pc = "idle"
      BY <1>0, <1>3, <2>1 DEF BeginCycle, ProcessIdle
    <2>3. r.ran = {} /\ r.pc # "execute"
      BY <1>0, <2>1, <2>2 DEF Calls, CoordinationInv
    <2> HIDE <2>1
    <2> QED BY <1>0, <2>2, <2>3, CoordinationMoves
  <1>4. CASE RunInCycle
    <2>1. PICK new : \/ call' = [call EXCEPT ![Manager].pc = "poll", ![Manager].ran = new]
                     \/ call' = [call EXCEPT ![Manager].pc = "poll"]
      BY <1>4 DEF RunInCycle
    <2>2. PICK r : r = IF call' = [call EXCEPT ![Manager].pc = "poll"]
                       THEN [call[Manager] EXCEPT !.pc = "poll"]
                       ELSE [call[Manager] EXCEPT !.pc = "poll", !.ran = new]
      OBVIOUS
    <2>3. call' = [call EXCEPT ![Manager] = r]
      BY <2>1, <2>2
    <2>4. r.pc = "poll"
      BY <1>0, <2>2 DEF Calls
    <2> HIDE <2>2
    <2> QED BY <1>0, <2>3, <2>4, CoordinationMoves
  <1>5. CASE ClaimInCycle \/ TryCandidate(Manager) \/ CycleFails \/ Crash
    BY <1>0, <1>5, CoordinationOfSession DEF ClaimInCycle, CycleFails, Crash
  <1>6. CASE FinishCycle
    BY <1>0, <1>6, CoordinationEnds DEF FinishCycle
  <1>7. CASE RestartServer
    <2>1. \A w \in Callers : call'[w] = Idle
      BY <1>7 DEF RestartServer
    <2> QED BY <1>0, <2>1 DEF CoordinationInv, Idle
  <1>8. CASE \E w \in Daemons : RunPass(w) \/ Progress(w)
    <2>1. PICK w \in Callers : w # Manager /\ (RunPass(w) \/ Progress(w))
      BY <1>8 DEF Daemons
    <2> QED BY <2>1, CoordinationOfSession DEF Progress, AbortClaim
  <1> QED BY <1>1, <1>2, <1>3, <1>4, <1>5, <1>6, <1>7, <1>8 DEF Next, WorkerStep, BeginCycle

LEMMA QueueGrows ==
  ASSUME AgendaInv, NEW new \in NewWork, queue' = queue \o new
  PROVE  Open' = Open \cup Range(new) /\ Range(new) \subseteq Episodes \ Open
  <1>1. CASE new = <<>>
    BY <1>1, EmptyRange DEF AgendaInv, Open
  <1>2. CASE \E e \in Episodes \ Open : new = <<e>>
    <2>1. PICK e \in Episodes \ Open : new = <<e>>
      BY <1>2
    <2>2. queue' = Append(queue, e)
      BY <2>1 DEF AgendaInv
    <2>3. Range(new) = {e}
      BY <2>1 DEF Range
    <2> QED BY <2>1, <2>2, <2>3, RangeAppend DEF Open, AgendaInv
  <1> QED BY <1>1, <1>2 DEF NewWork

\* A sequence without repetitions is its head and the rest.
LEMMA TailIsRest ==
  ASSUME NEW list \in Seq(Episodes), list # <<>>, IsInjective(list)
  PROVE  Head(list) \in Range(list) /\ Range(Tail(list)) = Range(list) \ {Head(list)}
  <1>1. PICK n \in Nat : n = Len(list) /\ DOMAIN list = 1 .. n
    OBVIOUS
  <1> DEFINE rest == Tail(list)
  <1>2. DOMAIN rest = 1 .. n - 1 /\ \A i \in 1 .. n - 1 : rest[i] = list[i + 1]
    BY <1>1
  <1>3. Head(list) = list[1]
    BY <1>1
  <1> HIDE DEF rest
  <1>4. Range(list) \ {Head(list)} \subseteq Range(rest)
    <2> SUFFICES ASSUME NEW i \in 1 .. n, list[i] # Head(list)
                 PROVE  list[i] \in Range(rest)
      BY <1>1 DEF Range
    <2>1. i # 1
      BY <1>3
    <2>2. i - 1 \in 1 .. n - 1 /\ (i - 1) + 1 = i
      BY <1>1, <2>1
    <2> QED BY <1>2, <2>2 DEF Range
  <1> QED BY <1>4, TailLosesHead DEF rest

LEMMA BatchApart ==
  ASSUME HeldInv, NEW w \in Callers, NEW e \in Batch(w)
  PROVE  \A u \in Callers \ {w} : Held(u) \cap {e} = {}
  BY HoldsApart DEF Held

\* The pool in terms of the managed worker's session, before a step and after.
LEMMA CommittedWork ==
  ASSUME PoolInv, CoordinationInv'
  PROVE  /\ Committed = Open \ call[Manager].ran
         /\ Committed' = Open' \ call'[Manager].ran
  BY ManagerAssumption DEF PoolInv, CoordinationInv, Committed

LEMMA PoolMoves ==
  ASSUME NEW w \in Callers, OnlyMoves(w)
  PROVE  /\ Claiming' = [Claiming EXCEPT ![w] = Range(call'[w].claimed) \ call'[w].ran]
         /\ Batches' = [Batches EXCEPT ![w] = Batch(w)']
  <1>1. \A u \in Callers \ {w} :
          /\ Range(call'[u].claimed) \ call'[u].ran = Range(call[u].claimed) \ call[u].ran
          /\ Batch(u)' = Batch(u)
    BY DEF OnlyMoves, Batch
  <1> QED BY <1>1 DEF Claiming, Batches

\* A step that moves a session on, or that moves none.
LEMMA PoolStays ==
  ASSUME PoolInv, CoordinationInv', NEW w \in Callers, OnlyMoves(w), Open' = Open,
         call'[w].claimed = call[w].claimed, call'[w].ran = call[w].ran,
         \/ call[w].pc # "execute" /\ call'[w].pc # "execute"
         \/ call'[w] = call[w]
  PROVE  UNCHANGED <<Committed, Claiming, Batches>>
  <1>1. Batch(w)' = Batch(w)
    BY DEF Batch
  <1>2. Claiming' = Claiming /\ Batches' = Batches
    BY <1>1, PoolMoves DEF Claiming, Batches
  <1>3. \A u \in Callers : call'[u].ran = call[u].ran
    BY DEF OnlyMoves
  <1> QED BY <1>2, <1>3 DEF Committed

LEMMA PoolUnmoved ==
  ASSUME queue' = queue, call' = call
  PROVE  UNCHANGED <<Committed, Claiming, Batches>>
  BY DEF Committed, Claiming, Batches, Batch, Open

\* A session without a claim and without a batch brings work that it commits.
LEMMA PassArrives ==
  ASSUME PoolInv, CoordinationInv', NEW w \in Daemons, RunPass(w)
  PROVE  Pool!Arrive
  <1>1. /\ w \in Callers /\ w # Manager /\ Manager \in Callers
        /\ call[w] \in Calls /\ call[w].pc = "idle"
        /\ AgendaInv
    BY ManagerAssumption
    DEF Daemons, PoolInv, HeldInv, TypeInv, ClaimInv, SessionsInv, RunPass
  <1>2. PICK new \in NewWork : queue' = queue \o new
    BY DEF RunPass
  <1>3. PICK r : r = [call[w] EXCEPT !.pc = "poll"]
    OBVIOUS
  <1>4. call' = [call EXCEPT ![w] = r]
    BY <1>3 DEF RunPass
  <1>5. r.claimed = call[w].claimed /\ r.ran = call[w].ran /\ r.pc = "poll"
    BY <1>1, <1>3 DEF Calls
  <1> HIDE <1>3
  <1>6. call'[w] = r /\ OnlyMoves(w)
    BY <1>1, <1>4 DEF PoolInv, HeldInv, TypeInv, ClaimInv, SessionsInv, OnlyMoves
  <1>7. Batch(w)' = Batch(w)
    BY <1>1, <1>5, <1>6 DEF Batch
  <1>8. Claiming' = Claiming /\ Batches' = Batches
    BY <1>1, <1>5, <1>6, <1>7, PoolMoves DEF Claiming, Batches
  <1>9. call[Manager].ran = {} /\ call'[Manager].ran = {}
    <2>1. exclusive # Manager
      BY <1>1, AgendaAssumption DEF RunPass, Available, Shareable
    <2> QED BY <1>1, <1>6, <2>1 DEF OnlyMoves, PoolInv, HeldInv, HoldInv
  <1>10. Committed = Open /\ Committed' = Open'
    BY <1>9, CommittedWork
  <1>11. Open' = Open \cup Range(new) /\ Range(new) \subseteq Episodes \ Open
    BY <1>1, <1>2, QueueGrows
  <1> QED BY <1>8, <1>10, <1>11 DEF Pool!Arrive

\* What is tried is taken from the free work, unless it is the session's own
\* and not committed: then it was never in the pool.
LEMMA TriesInPool ==
  ASSUME PoolInv, CoordinationInv', NEW w \in Callers, TryCandidate(w)
  PROVE  Pool!Claim(w) \/ UNCHANGED <<Committed, Claiming, Batches>>
  <1> DEFINE e == Head(call[w].list)
             taken == e \in Picked(w, VersionOf[e])
  <1>1. /\ call[w] \in Calls /\ call[w].pc = "claim" /\ Open' = Open
        /\ HoldInv /\ Manager \in Callers
    BY ManagerAssumption
    DEF PoolInv, HeldInv, TypeInv, ClaimInv, SessionsInv, TryCandidate, Open
  <1>2. taken => /\ e \in Open /\ owner[e] = NoOne /\ e \in Episodes
                 /\ \A u \in Callers : e \notin Claims(u)
    BY DEF Picked, Claimable, Leases, RowLocked, Claims
  <1>3. PICK r : r = [call[w] EXCEPT !.list = Tail(@),
                        !.room = IF taken THEN @ - 1 ELSE @,
                        !.claimed = IF taken THEN Append(@, e) ELSE @]
    OBVIOUS
  <1>4. call' = [call EXCEPT ![w] = r]
    BY <1>3 DEF TryCandidate, Tried
  <1> HIDE DEF e, taken
  <1>5. /\ r.pc = "claim" /\ r.ran = call[w].ran
        /\ r.claimed = IF taken THEN Append(call[w].claimed, e) ELSE call[w].claimed
    BY <1>1, <1>3 DEF Calls
  <1> HIDE <1>3
  <1>6. call'[w] = r /\ OnlyMoves(w)
    BY <1>4 DEF PoolInv, HeldInv, TypeInv, ClaimInv, SessionsInv, OnlyMoves
  <1>7. CASE ~taken
    BY <1>1, <1>5, <1>6, <1>7, PoolStays
  <1>8. CASE taken
    <2>1. Range(r.claimed) = Claims(w) \cup {e}
      BY <1>1, <1>2, <1>5, <1>8, RangeAppend DEF Calls, Claims
    <2>2. Batch(w)' = {} /\ Batch(w) = {}
      BY <1>1, <1>5, <1>6 DEF Batch
    <2>3. Batches' = Batches
      BY <1>6, <2>2, PoolMoves DEF Batches
    <2>4. Claiming' = [Claiming EXCEPT ![w] = (Claims(w) \cup {e}) \ call[w].ran]
      BY <1>5, <1>6, <2>1, PoolMoves
    <2>5. \A u \in Callers \ {w} : call[u].ran = {}
      BY <1>1 DEF HoldInv
    <2>6. Committed' = Committed
      BY <1>1, <1>5, <1>6 DEF Committed, OnlyMoves
    <2>7. CASE e \in call[w].ran
      <3>1. (Claims(w) \cup {e}) \ call[w].ran = Claiming[w]
        BY <2>7 DEF Claiming, Claims
      <3>2. Claiming' = Claiming
        BY <2>4, <3>1 DEF Claiming
      <3> QED BY <2>3, <2>6, <3>2
    <2>8. CASE e \notin call[w].ran
      <3>1. (Claims(w) \cup {e}) \ call[w].ran = Claiming[w] \cup {e}
        BY <2>8 DEF Claiming, Claims
      <3>2. e \in Committed
        BY <1>2, <1>8, <2>5, <2>8 DEF Committed
      <3>3. \A u \in Callers : e \notin Claiming[u] \cup Batches[u]
        <4>1. \A u \in Callers : e \notin Batch(u)
          BY <1>1, <1>2, <1>8, AgendaAssumption DEF HoldInv
        <4> QED BY <1>2, <1>8, <4>1 DEF Claiming, Batches, Claims
      <3>4. e \in Pool!Free
        BY <3>2, <3>3 DEF Pool!Free
      <3> QED BY <2>3, <2>4, <2>6, <3>1, <3>4 DEF Pool!Claim
    <2> QED BY <2>7, <2>8
  <1> QED BY <1>7, <1>8

\* A batch is what was claimed.
LEMMA CommitsInPool ==
  ASSUME PoolInv, CoordinationInv', NEW w \in Daemons, CommitClaim(w)
  PROVE  Pool!Lease(w)
  <1>1. /\ w \in Callers /\ w # Manager /\ call[w] \in Calls /\ call[w].pc = "claim"
        /\ call[w].ran = {} /\ Open' = Open /\ Manager \in Callers
    BY ManagerAssumption
    DEF Daemons, PoolInv, HeldInv, TypeInv, ClaimInv, SessionsInv, CoordinationInv,
        CommitClaim, Open
  <1>2. PICK r : r = IF call[w].claimed = <<>> THEN Idle
                     ELSE [Idle EXCEPT !.pc = "execute", !.list = call[w].claimed]
    OBVIOUS
  <1>3. call' = [call EXCEPT ![w] = r]
    BY <1>2 DEF CommitClaim
  <1>4. /\ Range(r.claimed) = {} /\ r.ran = {}
        /\ \/ r.pc = "execute" /\ r.list = call[w].claimed
           \/ r.pc = "idle" /\ call[w].claimed = <<>>
    BY <1>2, EmptyRange DEF Idle
  <1> HIDE <1>2
  <1>5. call'[w] = r /\ OnlyMoves(w)
    BY <1>1, <1>3 DEF PoolInv, HeldInv, TypeInv, ClaimInv, SessionsInv, OnlyMoves
  <1>6. Batch(w)' = Claims(w) /\ Batch(w) = {}
    BY <1>1, <1>4, <1>5, EmptyRange DEF Batch, Claims
  <1>7. Batches[w] = {} /\ Claiming[w] = Claims(w)
    BY <1>1, <1>6 DEF Batches, Claiming, Claims
  <1>8. /\ Batches' = [Batches EXCEPT ![w] = Batches[w] \cup Claiming[w]]
        /\ Claiming' = [Claiming EXCEPT ![w] = {}]
    BY <1>1, <1>4, <1>5, <1>6, <1>7, PoolMoves
  <1>9. Committed' = Committed
    BY <1>1, <1>4, <1>5 DEF Committed, OnlyMoves
  <1> QED BY <1>8, <1>9 DEF Pool!Lease

\* One episode of a batch is executed: no longer open, and no longer leased.
LEMMA ExecutesInPool ==
  ASSUME PoolInv, HoldInv', CoordinationInv', NEW w \in Daemons, Execute(w)
  PROVE  Pool!Finish(w)
  <1> DEFINE e == Head(call[w].list)
  <1>1. /\ w \in Callers /\ w # Manager /\ call[w] \in Calls /\ call[w].pc = "execute"
        /\ call[w].list # <<>> /\ call[w].ran = {} /\ Manager \in Callers
        /\ HeldInv /\ HoldInv
    BY ManagerAssumption
    DEF Daemons, PoolInv, HeldInv, TypeInv, ClaimInv, SessionsInv, CoordinationInv,
        Sound, Execute
  <1>2. PICK r : r = Remaining(w)
    OBVIOUS
  <1>3. call' = [call EXCEPT ![w] = r]
    BY <1>2 DEF Execute
  <1>4. PICK list \in Seq(Episodes) : list = call[w].list
    BY <1>1 DEF Calls
  <1>5. /\ e \in Range(list)
        /\ Range(Tail(list)) = Range(list) \ {e}
    BY <1>1, <1>4, TailIsRest DEF HoldInv, Lists
  <1>6. Claims(w) = {} /\ Batch(w) = Range(list)
    BY <1>1, <1>4, NothingClaimed DEF Claims, Batch
  <1>7. \/ /\ r.pc = "idle" /\ Range(r.claimed) = {} /\ r.ran = {}
           /\ Len(list) = 1
        \/ /\ r.pc = "execute" /\ r.list = Tail(list)
           /\ r.claimed = call[w].claimed /\ r.ran = {}
    <2>1. CASE Len(list) = 1
      BY <1>2, <1>4, <2>1, EmptyRange DEF Remaining, Idle
    <2>2. CASE Len(list) # 1
      BY <1>1, <1>2, <1>4, <2>2 DEF Remaining, Calls
    <2> QED BY <2>1, <2>2
  <1> HIDE <1>2
  <1>8. call'[w] = r /\ OnlyMoves(w)
    BY <1>1, <1>3 DEF HeldInv, TypeInv, ClaimInv, SessionsInv, OnlyMoves
  <1>9. Range(call'[w].claimed) = {} /\ call'[w].ran = {}
    BY <1>6, <1>7, <1>8 DEF Claims
  <1>10. Batch(w)' = Range(list) \ {e}
    <2>1. CASE r.pc = "execute"
      BY <1>5, <1>7, <1>8, <2>1 DEF Batch
    <2>2. CASE r.pc # "execute"
      <3>1. PICK n \in Nat : n = Len(list) /\ DOMAIN list = 1 .. n
        BY <1>4
      <3>2. n = 1 /\ Head(list) = list[1]
        BY <1>1, <1>4, <1>7, <2>2, <3>1
      <3>3. Range(list) \ {e} = {}
        BY <1>4, <3>1, <3>2 DEF Range
      <3> QED BY <1>8, <2>2, <3>3 DEF Batch
    <2> QED BY <2>1, <2>2
  <1>11. Claiming' = Claiming /\ Batches[w] = Range(list)
    BY <1>1, <1>6, <1>8, <1>9, PoolMoves DEF Claiming, Claims, Batches
  <1>12. Batches' = [Batches EXCEPT ![w] = Batches[w] \ {e}]
    BY <1>1, <1>8, <1>10, <1>11, PoolMoves
  <1>13. Open' = Open \ {e}
    BY <1>1, <1>5, <1>6, OthersKeep, HoldsApart, BatchApart DEF Execute
  <1>14. Committed' = Committed \ {e}
    BY <1>1, <1>8, <1>9, <1>13 DEF Committed, OnlyMoves
  <1> HIDE DEF e
  <1> QED BY <1>1, <1>5, <1>11, <1>12, <1>14 DEF Pool!Finish

\* A transaction's work has ended, and its session with it.
LEMMA EndsInPool ==
  ASSUME PoolInv, NEW w \in Callers, call' = [call EXCEPT ![w] = Idle],
         call[w].pc # "execute"
  PROVE  /\ Claiming' = [Claiming EXCEPT ![w] = {}]
         /\ Batches' = Batches
         /\ call'[w].ran = {} /\ OnlyMoves(w)
  <1>1. call'[w] = Idle /\ OnlyMoves(w)
    BY DEF PoolInv, HeldInv, TypeInv, ClaimInv, SessionsInv, OnlyMoves
  <1>2. Range(call'[w].claimed) = {} /\ call'[w].ran = {} /\ call'[w].pc = "idle"
    BY <1>1, IdleHolds
  <1>3. Batch(w)' = {} /\ Batch(w) = {}
    BY <1>2 DEF Batch
  <1>4. Batches' = Batches
    BY <1>1, <1>3, PoolMoves DEF Batches
  <1> QED BY <1>1, <1>2, <1>4, PoolMoves

\* What aborts gives its claims back, and takes its own work with it.
LEMMA AbortsInPool ==
  ASSUME PoolInv, CoordinationInv', NEW w \in Callers, Abort(w),
         call[w].pc # "execute"
  PROVE  Pool!GiveBack({w})
  <1>1. HeldInv /\ HoldInv
    BY DEF PoolInv, HeldInv
  <1>2. Open' = Open \ call[w].ran
    BY <1>1, OthersKeep DEF Abort, HoldInv
  <1>3. /\ Claiming' = [Claiming EXCEPT ![w] = {}]
        /\ Batches' = Batches
        /\ call'[w].ran = {} /\ OnlyMoves(w)
    BY EndsInPool DEF Abort
  <1>4. UNION {call[u].ran : u \in Callers}
          = call[w].ran \cup UNION {call[u].ran : u \in Callers \ {w}}
    OBVIOUS
  <1>5. UNION {call'[u].ran : u \in Callers} = UNION {call[u].ran : u \in Callers \ {w}}
    BY <1>3 DEF OnlyMoves
  <1>6. Committed' = Committed
    BY <1>2, <1>4, <1>5 DEF Committed
  <1>7. Claiming' = [u \in Callers |-> IF u \in {w} THEN {} ELSE Claiming[u]]
    BY <1>3 DEF Claiming
  <1> QED BY <1>3, <1>6, <1>7 DEF Pool!GiveBack

\* The managed worker commits: what it claimed is finished, and what is left of
\* its run() is now everybody's.
LEMMA FinishesInPool ==
  ASSUME PoolInv, CoordinationInv', FinishCycle
  PROVE  Pool!FinishWhole(Manager)
  <1>1. /\ Manager \in Callers /\ HeldInv
        /\ Claims(Manager) \subseteq Held(Manager)
        /\ call[Manager].pc = "claim" /\ call' = [call EXCEPT ![Manager] = Idle]
        /\ Open \subseteq Episodes
    BY ManagerAssumption, OpenPlaces
    DEF PoolInv, HeldInv, TypeInv, ClaimInv, FinishCycle, Held, Claims
  <1>2. \A u \in Callers \ {Manager} : Held(u) \cap Claims(Manager) = {}
    BY <1>1, HoldsApart
  <1>3. Open' = Open \ Claims(Manager)
    BY <1>1, <1>2, OthersKeep DEF FinishCycle, Claims
  <1>4. /\ Claiming' = [Claiming EXCEPT ![Manager] = {}]
        /\ Batches' = Batches
        /\ call'[Manager].ran = {}
    BY <1>1, EndsInPool
  <1>5. Committed = Open \ call[Manager].ran /\ Committed' = Open'
    BY <1>4, CommittedWork
  <1>6. Claiming[Manager] = Claims(Manager) \ call[Manager].ran
    BY <1>1 DEF Claiming, Claims
  <1> DEFINE new == (Open \cap call[Manager].ran) \ Claims(Manager)
  <1>7. new \in SUBSET (Episodes \ Committed)
    BY <1>1, <1>5
  <1>8. Committed' = (Committed \ Claiming[Manager]) \cup new
    BY <1>3, <1>5, <1>6
  <1> HIDE DEF new
  <1> QED BY <1>4, <1>7, <1>8 DEF Pool!FinishWhole

\* A restart ends every session; no batch is left.
LEMMA RestartsInPool ==
  ASSUME PoolInv, CoordinationInv', RestartServer
  PROVE  Pool!GiveBack(Callers)
  <1>1. Manager \in Callers /\ HeldInv /\ HoldInv /\ CoordinationInv
    BY ManagerAssumption DEF PoolInv, HeldInv
  <1>2. \A w \in Callers : call'[w] = Idle /\ call[w].pc # "execute"
    BY <1>1 DEF RestartServer, Daemons, CoordinationInv
  <1>3. \A w \in Callers : /\ Range(call'[w].claimed) = {} /\ call'[w].ran = {}
                           /\ call'[w].pc = "idle"
    BY <1>2, IdleHolds
  <1>4. Open' = Open \ call[Manager].ran
    BY <1>1, OthersKeep DEF RestartServer, HoldInv
  <1>5. Committed = Open \ call[Manager].ran /\ Committed' = Open'
    BY <1>1, <1>3, CommittedWork
  <1>6. Claiming' = [w \in Callers |-> {}]
    BY <1>3 DEF Claiming
  <1>7. Batches' = Batches
    BY <1>2, <1>3 DEF Batches, Batch
  <1> QED BY <1>4, <1>5, <1>6, <1>7 DEF Pool!GiveBack

\* What run() leaves is not in the pool before the cycle commits.
LEMMA RunsInPool ==
  ASSUME PoolInv, CoordinationInv', RunInCycle
  PROVE  UNCHANGED <<Committed, Claiming, Batches>>
  <1>1. /\ Manager \in Callers /\ call[Manager] \in Calls /\ AgendaInv
        /\ call[Manager].pc = "run" /\ call[Manager].ran = {}
    BY ManagerAssumption
    DEF PoolInv, HeldInv, TypeInv, ClaimInv, SessionsInv, CoordinationInv, RunInCycle
  <1>2. PICK new \in NewWork : \E r :
          /\ r.pc = "poll" /\ r.claimed = call[Manager].claimed
          /\ call' = [call EXCEPT ![Manager] = r]
          /\ \/ queue' = queue \o new /\ r.ran = Range(new)
             \/ queue' = queue /\ r.ran = {}
    <2>1. PICK new \in NewWork :
            \/ /\ queue' = queue \o new
               /\ call' = [call EXCEPT ![Manager].pc = "poll", ![Manager].ran = Range(new)]
            \/ /\ queue' = queue
               /\ call' = [call EXCEPT ![Manager].pc = "poll"]
      BY DEF RunInCycle, NewWork
    <2>2. CASE /\ queue' = queue \o new
               /\ call' = [call EXCEPT ![Manager].pc = "poll", ![Manager].ran = Range(new)]
      <3>1. PICK r : r = [call[Manager] EXCEPT !.pc = "poll", !.ran = Range(new)]
        OBVIOUS
      <3>2. r.pc = "poll" /\ r.claimed = call[Manager].claimed /\ r.ran = Range(new)
        BY <1>1, <3>1 DEF Calls
      <3>3. call' = [call EXCEPT ![Manager] = r]
        BY <2>2, <3>1
      <3> HIDE <3>1
      <3> QED BY <2>2, <3>2, <3>3
    <2>3. CASE /\ queue' = queue
               /\ call' = [call EXCEPT ![Manager].pc = "poll"]
      <3>1. PICK r : r = [call[Manager] EXCEPT !.pc = "poll"]
        OBVIOUS
      <3>2. r.pc = "poll" /\ r.claimed = call[Manager].claimed /\ r.ran = {}
        BY <1>1, <3>1 DEF Calls
      <3>3. call' = [call EXCEPT ![Manager] = r]
        BY <2>3, <3>1
      <3> HIDE <3>1
      <3> QED BY <2>3, <3>2, <3>3
    <2> QED BY <2>1, <2>2, <2>3
  <1> PICK r :
          /\ r.pc = "poll" /\ r.claimed = call[Manager].claimed
          /\ call' = [call EXCEPT ![Manager] = r]
          /\ \/ queue' = queue \o new /\ r.ran = Range(new)
             \/ queue' = queue /\ r.ran = {}
    BY <1>2
  <1>3. call'[Manager] = r /\ OnlyMoves(Manager)
    BY <1>1, <1>2 DEF PoolInv, HeldInv, TypeInv, ClaimInv, SessionsInv, OnlyMoves
  <1>4. Claims(Manager) = {}
    BY <1>1, NothingClaimed DEF PoolInv, Claims
  <1>5. Batch(Manager)' = {} /\ Batch(Manager) = {}
    BY <1>1, <1>2, <1>3 DEF Batch
  <1>6. Claiming' = Claiming /\ Batches' = Batches
    <2>1. Range(call[Manager].claimed) = {} /\ Range(call'[Manager].claimed) = {}
      BY <1>3, <1>4 DEF Claims
    <2>2. Claiming' = [Claiming EXCEPT ![Manager] = {}] /\ Claiming[Manager] = {}
      BY <1>1, <1>3, <2>1, PoolMoves DEF Claiming
    <2>3. Batches' = [Batches EXCEPT ![Manager] = {}] /\ Batches[Manager] = {}
      BY <1>1, <1>3, <1>5, PoolMoves DEF Batches
    <2> QED BY <2>2, <2>3 DEF Claiming, Batches
  <1>7. Open' \ r.ran = Open
    <2>1. CASE queue' = queue \o new /\ r.ran = Range(new)
      BY <1>1, <2>1, QueueGrows
    <2>2. CASE queue' = queue /\ r.ran = {}
      BY <2>2 DEF Open
    <2> QED BY <1>2, <2>1, <2>2
  <1>8. Committed' = Committed
    BY <1>1, <1>3, <1>7, CommittedWork
  <1> QED BY <1>6, <1>8

LEMMA CycleStaysInPool ==
  ASSUME PoolInv, CoordinationInv', BeginCycle
  PROVE  UNCHANGED <<Committed, Claiming, Batches>>
  <1>1. Manager \in Callers /\ call[Manager] \in Calls /\ call[Manager].pc = "idle"
    BY ManagerAssumption
    DEF PoolInv, HeldInv, TypeInv, ClaimInv, SessionsInv, IInv, ProcessIdle, BeginCycle
  <1>2. CASE call' = call
    BY <1>2, PoolUnmoved DEF BeginCycle
  <1>3. CASE call' # call
    <2>1. PICK r : r = [call[Manager] EXCEPT !.pc = IF Backpressure THEN "poll" ELSE "run",
                                             !.room = ClaimLimit]
      OBVIOUS
    <2>2. call' = [call EXCEPT ![Manager] = r] /\ Open' = Open
      BY <1>3, <2>1 DEF BeginCycle, Open
    <2>3. /\ r.pc # "execute"
          /\ r.claimed = call[Manager].claimed /\ r.ran = call[Manager].ran
      BY <1>1, <2>1 DEF Calls
    <2> HIDE <2>1
    <2>4. call'[Manager] = r /\ OnlyMoves(Manager)
      BY <1>1, <2>2 DEF PoolInv, HeldInv, TypeInv, ClaimInv, SessionsInv, OnlyMoves
    <2> QED BY <1>1, <2>2, <2>3, <2>4, PoolStays
  <1> QED BY <1>2, <1>3

LEMMA ListingStaysInPool ==
  ASSUME PoolInv, CoordinationInv', NEW w \in Callers, NEW limit, BeginClaim(w, limit)
  PROVE  UNCHANGED <<Committed, Claiming, Batches>>
  <1>1. call[w] \in Calls /\ call[w].pc = "poll" /\ Open' = Open
    BY DEF PoolInv, HeldInv, TypeInv, ClaimInv, SessionsInv, BeginClaim, Open
  <1>2. PICK r : r = [call[w] EXCEPT !.pc = "claim", !.list = Candidates, !.room = limit]
    OBVIOUS
  <1>3. /\ r.pc = "claim" /\ r.claimed = call[w].claimed /\ r.ran = call[w].ran
        /\ call' = [call EXCEPT ![w] = r]
    BY <1>1, <1>2 DEF BeginClaim, Calls
  <1> HIDE <1>2
  <1>4. call'[w] = r /\ OnlyMoves(w)
    BY <1>3 DEF PoolInv, HeldInv, TypeInv, ClaimInv, SessionsInv, OnlyMoves
  <1> QED BY <1>1, <1>3, <1>4, PoolStays

LEMMA StepInPool ==
  ASSUME PoolInv, PoolInv', [Next]_vars
  PROVE  Pool!Next \/ UNCHANGED <<Committed, Claiming, Batches>>
  <1>0. /\ Manager \in Callers /\ Daemons \subseteq Callers
        /\ CoordinationInv /\ CoordinationInv' /\ HoldInv'
        /\ Daemons = Callers \ {Manager}
    BY ManagerAssumption DEF Daemons, PoolInv, HeldInv
  <1>1. CASE StartProcess \/ WaitLatch \/ Terminate \/ Administer \/ Age \/ UNCHANGED vars
    BY <1>1, PoolUnmoved
    DEF StartProcess, WaitLatch, Terminate, Administer, Age, vars, claimVars
  <1>2. CASE BeginCycle
    BY <1>0, <1>2, CycleStaysInPool
  <1>3. CASE RunInCycle
    BY <1>0, <1>3, RunsInPool
  <1>4. CASE ClaimInCycle
    BY <1>0, <1>4, ListingStaysInPool DEF ClaimInCycle
  <1>5. CASE TryCandidate(Manager)
    BY <1>0, <1>5, TriesInPool DEF Pool!Next
  <1>6. CASE CycleFails \/ Crash
    <2>1. Pool!GiveBack({Manager})
      BY <1>0, <1>6, AbortsInPool DEF CycleFails, Crash, CoordinationInv
    <2> QED BY <1>0, <2>1 DEF Pool!Next
  <1>7. CASE FinishCycle
    BY <1>0, <1>7, FinishesInPool DEF Pool!Next
  <1>8. CASE RestartServer
    BY <1>0, <1>8, RestartsInPool DEF Pool!Next
  <1>9. CASE \E w \in Daemons : RunPass(w) \/ Progress(w)
    <2>1. PICK w \in Daemons : RunPass(w) \/ Progress(w)
      BY <1>9
    <2>2. CASE RunPass(w)
      BY <1>0, <2>2, PassArrives DEF Pool!Next
    <2>3. CASE BeginClaim(w, MaxClaims)
      BY <1>0, <2>3, ListingStaysInPool
    <2>4. CASE TryCandidate(w)
      BY <1>0, <2>4, TriesInPool DEF Pool!Next
    <2>5. CASE CommitClaim(w)
      BY <1>0, <2>5, CommitsInPool DEF Pool!Next
    <2>6. CASE Execute(w)
      BY <1>0, <2>6, ExecutesInPool DEF Pool!Next
    <2>7. CASE AbortClaim(w)
      <3>1. call[w].pc # "execute"
        <4>1. PICK u \in Callers : BlockedBy(u) = w /\ BlockedBy(w) \in Callers
          BY <1>0, <2>7 DEF AbortClaim, Deadlocked
        <4> QED BY <4>1, AgendaAssumption DEF BlockedBy
      <3>2. Pool!GiveBack({w})
        BY <1>0, <2>7, <3>1, AbortsInPool DEF AbortClaim
      <3> QED BY <1>0, <3>2 DEF Pool!Next
    <2> QED BY <2>1, <2>2, <2>3, <2>4, <2>5, <2>6, <2>7 DEF Progress
  <1> QED BY <1>1, <1>2, <1>3, <1>4, <1>5, <1>6, <1>7, <1>8, <1>9 DEF Next, WorkerStep

LEMMA InitPool == Init => CoordinationInv /\ Pool!Init
  <1> SUFFICES ASSUME Init PROVE CoordinationInv /\ Pool!Init
    OBVIOUS
  <1>1. Manager \in Callers /\ Open = {}
    BY ManagerAssumption, EmptyRange DEF Init, Open
  <1>2. \A w \in Callers : call[w] = Idle
    BY DEF Init
  <1>3. \A w \in Callers : /\ Range(call[w].claimed) = {} /\ call[w].pc = "idle"
                           /\ call[w].ran = {}
    BY <1>2, IdleHolds
  <1>4. Committed = {} /\ Claiming = [w \in Callers |-> {}] /\ Batches = [w \in Callers |-> {}]
    BY <1>1, <1>3 DEF Committed, Claiming, Batches, Batch
  <1> QED BY <1>1, <1>3, <1>4 DEF CoordinationInv, Pool!Init

\* The workers implement the pool: whatever transactions abort, deadlock, crash
\* or are lost in a restart, work that is committed is finished once, by the one
\* session that had it to itself, and until then it stays.
THEOREM WorkersImplementPool == Spec => ImplementsPool
  <1>1. PoolInv /\ [Next]_vars => CoordinationInv'
    BY CoordinationStep
  <1>2. HeldInv /\ [Next]_vars => HoldInv'
    BY HoldStep
  <1>3. PoolInv /\ PoolInv' /\ [Next]_vars
          => [Pool!Next]_<<Committed, Claiming, Batches>>
    BY StepInPool
  <1> QED BY <1>1, <1>2, <1>3, InitPool, InitHolds, InitInv, NextInv, InitTypes, NextTypes, PTL
          DEF Spec, ImplementsPool, Pool!Spec, PoolInv, HeldInv
=============================================================================
