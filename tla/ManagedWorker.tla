--------------------------- MODULE ManagedWorker ---------------------------
(***************************************************************************)
(* The PostgreSQL-managed worker of one database: the background worker    *)
(* process that _PG_init registers, its loop, the managed cycle it runs in *)
(* one transaction (run, claim, execute), and the pg-reactd sessions that  *)
(* claim next to it.                                                       *)
(*                                                                         *)
(* The cycle's transaction takes the coordinator lock exclusively when     *)
(* run() succeeds, and shared when run() is paused by the backlog or fails.*)
(* Bounds: MaxCrashes; a pg-reactd session does not end between claiming a *)
(* batch and executing it.  A standby server is not modelled.              *)
(***************************************************************************)
EXTENDS GlobalClaim

CONSTANTS
  Manager,        \* the managed worker's session, one of Callers
  Database,       \* the database this model is about
  Settings,       \* values of pg_react.databases: sequences of list entries
  Trim,           \* [list entries -> database names, Blank for none]
  Blank,
  Listed,         \* the versions is_compatible_extension_version lists
  MaxU32,         \* the largest u32
  Texts,          \* what may follow a version's prefix
  Worlds,         \* installed version, grantees, and readiness of the database
  Configurations, \* batch_size and max_pending_jobs of postgresql.conf
  MaxClaims,      \* operational_settings.max_claims, and pg-reactd's MAX_CLAIMS
  MaxCrashes      \* bound: crashes and server restarts

ASSUME ManagerAssumption == Manager \in Callers
ASSUME SettingsAssumption ==
  /\ MaxClaims \in Nat
  /\ \A c \in Configurations : c.batch \in Nat
ASSUME VersionAssumption ==
  /\ MaxU32 \in Nat
  /\ "1.0.0-rc." \notin Listed
  /\ Texts \subseteq Seq(Int)
  /\ \A w \in Worlds : w.version.rest \in Texts

VARIABLES
  process,        \* NONE, DOWN, LOOP, CYCLE, LATCH or STOPPED
  terminated,     \* SIGTERM has been received
  world,          \* the database, as administrators leave it
  conf,           \* postgresql.conf
  crashes

workerVars == <<process, terminated, world, conf, crashes>>
vars == <<claimVars, workerVars>>

Daemons == Callers \ {Manager}

\* The number after each digit; what the digits come to.
Values(digits) ==
  LET value[n \in 0 .. Len(digits)] ==
        IF n = 0 THEN 0 ELSE 10 * value[n - 1] + digits[n]
  IN  value
Numeral(digits) == Values(digits)[Len(digits)]

\* Fault: any digits after the prefix will do.
AnyCandidate(version) ==
  \/ version.prefix \in Listed /\ version.rest = <<>>
  \/ /\ version.prefix = "1.0.0-rc."
     /\ version.rest # <<>> /\ \A i \in DOMAIN version.rest : version.rest[i] \in 0 .. 9
     /\ Numeral(version.rest) \in 1 .. MaxU32

\* A version is a listed one, or 1.0.0-rc.N: N's digits, -1 for another
\* character, are checked before str::parse::<u32>, which fails on overflow.
Compatible(version) ==
  \/ version.prefix \in Listed /\ version.rest = <<>>
  \/ /\ version.prefix = "1.0.0-rc."
     /\ version.rest # <<>>
     /\ \A i \in DOMAIN version.rest : version.rest[i] \in 0 .. 9
     /\ ~(version.rest[1] = 0 /\ Len(version.rest) > 1)
     /\ Numeral(version.rest) \in 1 .. MaxU32

\* _PG_init: one worker for each distinct database named in the setting.
Registered(setting) == {Trim[entry] : entry \in Range(setting)} \ {Blank}
Booted(setting) == IF Database \in Registered(setting) THEN "DOWN" ELSE "NONE"

Init ==
  /\ queue = <<>> /\ aged = {} /\ exclusive = NoOne
  /\ owner = [e \in Episodes |-> NoOne]
  /\ lock = [v \in Versions |-> NoOne]
  /\ call = [w \in Callers |-> Idle]
  /\ \E setting \in Settings : process = Booted(setting)
  /\ terminated = FALSE /\ crashes = 0
  /\ world \in Worlds
  /\ conf \in Configurations

-----------------------------------------------------------------------------
(* pg-reactd: one pass runs the coordinator, claims, and executes.         *)

RunPass(w) ==
  /\ call[w].pc = "idle"
  /\ Available(w)
  /\ \E new \in NewWork : queue' = queue \o new
  /\ call' = [call EXCEPT ![w].pc = "poll"]
  /\ UNCHANGED <<aged, owner, lock, exclusive, workerVars>>

\* A deadlock's victim; pg-reactd's claim is one statement and it exits.
AbortClaim(w) == Deadlocked(w) /\ Abort(w) /\ UNCHANGED workerVars

\* The steps that a session which has begun a pass goes on to take.
Progress(w) ==
  \/ BeginClaim(w, MaxClaims) /\ UNCHANGED workerVars
  \/ TryCandidate(w) /\ UNCHANGED workerVars
  \/ CommitClaim(w) /\ UNCHANGED workerVars
  \/ Execute(w) /\ UNCHANGED workerVars
  \/ AbortClaim(w)

-----------------------------------------------------------------------------
(* The managed worker.                                                     *)

\* PostgreSQL starts the process, again one second after a failure.
StartProcess ==
  /\ process = "DOWN"
  /\ process' = "LOOP" /\ terminated' = FALSE
  /\ UNCHANGED <<claimVars, world, conf, crashes>>

Least(a, b) == IF a <= b THEN a ELSE b
Backpressure == Len(queue) >= conf.maxPending

\* Fault: a full backlog pauses the claims too.
PausedLimit == IF Backpressure THEN 0 ELSE Least(conf.batch, 100)

ClaimLimit == Least(conf.batch, 100)

\* The top of the loop: the configuration reloaded on SIGHUP, which this cycle
\* keeps, and the cycle's checks.  The worker idles under an incompatible
\* version, and panics unless there is one role that it can assume.  The
\* backlog is counted now, whatever it is when run() has the lock.
BeginCycle ==
  /\ process = "LOOP"
  /\ \/ /\ ~Compatible(world.version) \/ (world.grantees = 1 /\ ~world.ready)
        /\ process' = "LATCH"
        /\ UNCHANGED call
     \/ /\ Compatible(world.version) /\ world.grantees # 1
        /\ process' = "DOWN"
        /\ UNCHANGED call
     \/ /\ Compatible(world.version) /\ world.grantees = 1 /\ world.ready
        /\ process' = "CYCLE"
        /\ call' = [call EXCEPT ![Manager].pc = IF Backpressure THEN "poll" ELSE "run",
                                ![Manager].room = ClaimLimit]
  /\ UNCHANGED <<queue, aged, owner, lock, exclusive, terminated, world, conf, crashes>>

\* run() in the cycle: it keeps the exclusive lock to the end, or raises and
\* its subtransaction gives the lock back.
RunInCycle ==
  /\ call[Manager].pc = "run"
  /\ \/ /\ Available(Manager)
        /\ \E new \in NewWork :
             /\ queue' = queue \o new
             /\ call' = [call EXCEPT ![Manager].pc = "poll", ![Manager].ran = Range(new)]
        /\ exclusive' = Manager
     \/ /\ call' = [call EXCEPT ![Manager].pc = "poll"]
        /\ UNCHANGED <<queue, exclusive>>
  /\ UNCHANGED <<aged, owner, lock, workerVars>>

ClaimInCycle ==
  /\ call[Manager].room <= MaxClaims
  /\ BeginClaim(Manager, call[Manager].room)
  /\ UNCHANGED workerVars

\* The claim raises, its limit being above max_claims or its session the
\* deadlock's victim: the handler of managed_cycle rolls back the whole cycle.
CycleFails ==
  /\ process = "CYCLE"
  /\ \/ call[Manager].pc = "poll" /\ Shareable(Manager) /\ call[Manager].room > MaxClaims
     \/ Deadlocked(Manager)
  /\ Abort(Manager)
  /\ process' = "LATCH"
  /\ UNCHANGED <<terminated, world, conf, crashes>>

\* The claimed episodes are executed under the claim's locks; commit.
FinishCycle ==
  /\ process = "CYCLE"
  /\ call[Manager].pc = "claim"
  /\ Exhausted(Manager)
  /\ LET finished == Range(call[Manager].claimed)
     IN  queue' = Without(finished) /\ aged' = aged \ finished
  /\ lock' = Released(Manager)
  /\ exclusive' = IF exclusive = Manager THEN NoOne ELSE exclusive
  /\ call' = [call EXCEPT ![Manager] = Idle]
  /\ process' = "LATCH"
  /\ UNCHANGED <<owner, terminated, world, conf, crashes>>

\* wait_latch: after SIGTERM the function returns and the process exits with
\* status 0, after which PostgreSQL does not start it again.
WaitLatch ==
  /\ process = "LATCH"
  /\ process' = IF terminated THEN "STOPPED" ELSE "LOOP"
  /\ UNCHANGED <<claimVars, terminated, world, conf, crashes>>

WorkerStep ==
  \/ StartProcess
  \/ BeginCycle
  \/ RunInCycle
  \/ ClaimInCycle
  \/ TryCandidate(Manager) /\ UNCHANGED workerVars
  \/ CycleFails
  \/ FinishCycle
  \/ WaitLatch

-----------------------------------------------------------------------------
(* The environment.                                                        *)

Terminate ==
  /\ process \in {"LOOP", "CYCLE", "LATCH"}
  /\ terminated' = TRUE
  /\ UNCHANGED <<claimVars, process, world, conf, crashes>>

\* The worker fails in whatever it is doing.
Crash ==
  /\ crashes < MaxCrashes
  /\ process \in {"LOOP", "CYCLE", "LATCH"}
  /\ Abort(Manager)
  /\ process' = "DOWN" /\ crashes' = crashes + 1
  /\ UNCHANGED <<terminated, world, conf>>

\* pg_react.databases is read when the server starts.
RestartServer ==
  /\ crashes < MaxCrashes
  /\ \A w \in Daemons : call[w].pc # "execute"
  /\ queue' = Without(call[Manager].ran) /\ aged' = aged \ call[Manager].ran
  /\ exclusive' = NoOne
  /\ lock' = [v \in Versions |-> NoOne]
  /\ call' = [w \in Callers |-> Idle]
  /\ \E setting \in Settings : process' = Booted(setting)
  /\ crashes' = crashes + 1 /\ terminated' = FALSE
  /\ UNCHANGED <<owner, world, conf>>

\* An upgrade, a grant, a restored dependency; an edited configuration.  They
\* are read at the top of the loop only, and change there: a change at another
\* time is one that the next cycle finds.
Administer ==
  /\ process = "LOOP"
  /\ \/ world' \in Worlds \ {world} /\ UNCHANGED conf
     \/ conf' \in Configurations \ {conf} /\ UNCHANGED world
  /\ UNCHANGED <<claimVars, process, terminated, crashes>>

Next ==
  \/ WorkerStep
  \/ \E w \in Daemons : RunPass(w) \/ Progress(w)
  \/ Age /\ UNCHANGED workerVars
  \/ Terminate \/ Crash \/ RestartServer \/ Administer

\* PostgreSQL grants its locks in the order they are asked for, so a session
\* that waits for one is let through; nothing makes pg-reactd begin a pass.
Fairness ==
  /\ SF_vars(WorkerStep)
  /\ \A w \in Daemons : SF_vars(Progress(w))
  /\ WF_vars(Age /\ UNCHANGED workerVars)

Spec == Init /\ [][Next]_vars /\ Fairness

-----------------------------------------------------------------------------
(* Properties.                                                             *)

Calls == [pc: {"idle", "run", "poll", "claim", "execute"}, list: Seq(Episodes),
          room: Nat, claimed: Seq(Episodes), ran: SUBSET Episodes]

\* The type invariant: the agenda, the locks, the sessions and the process have
\* values of their types, and an open episode is queued once.
TypeOK ==
  /\ queue \in Seq(Episodes) /\ IsInjective(queue)
  /\ aged \subseteq Open
  /\ owner \in [Episodes -> Callers \cup {NoOne}]
  /\ lock \in [Versions -> Callers \cup {NoOne}]
  /\ exclusive \in Callers \cup {NoOne}
  /\ call \in [Callers -> Calls]
  /\ process \in {"NONE", "DOWN", "LOOP", "CYCLE", "LATCH", "STOPPED"}
  /\ terminated \in BOOLEAN /\ world \in Worlds
  /\ conf \in Configurations

\* The decimal text of a number.
Decimal[n \in Nat] == IF n < 10 THEN <<n>> ELSE Append(Decimal[n \div 10], n % 10)
CandidateNumbers == {Decimal[n] : n \in 1 .. MaxU32}

\* At the top of its loop the worker lets exactly the texts of the numbers 1 to
\* u32::MAX pass behind the prefix, and so never coordinates under an
\* empty, signed, padded, non-numeric or overflowing candidate number
\* (is_compatible_extension_version).
VersionGateExact ==
  /\ process = "LOOP" =>
       \A text \in Texts : Compatible([prefix |-> "1.0.0-rc.", rest |-> text])
                              <=> text \in CandidateNumbers
  /\ process = "CYCLE" =>
       \/ world.version.prefix \in Listed /\ world.version.rest = <<>>
       \/ /\ world.version.prefix = "1.0.0-rc."
          /\ world.version.rest \in CandidateNumbers

\* What a session is to execute: the claims of an open transaction, and the
\* batch of one that has committed.
Batch(w) == IF call[w].pc = "execute" THEN Range(call[w].list) ELSE {}
Held(w) == Range(call[w].claimed) \cup Batch(w)

\* Nothing is executed twice, and nothing is executed that is not there: what a
\* session holds is open and no other session's, and it is not the work of a
\* run() that has not committed, which a failure of the cycle would take away.
HeldByOne ==
  \A w \in Callers :
    /\ Held(w) \subseteq Open
    /\ \A u \in Callers \ {w} : Held(w) \cap (Held(u) \cup call[u].ran) = {}

\* What others see of the sessions: the open episodes that run() has committed,
\* those of them in open claims, and the batches.
Committed == Open \ UNION {call[w].ran : w \in Callers}
Claiming == [w \in Callers |-> Range(call[w].claimed) \ call[w].ran]
Batches == [w \in Callers |-> Batch(w)]

\* The sessions are claimants of a pool of work: whatever transactions abort,
\* deadlock, crash or restart, committed work is finished by one session, which
\* had it to itself, and no failure loses it, repeats it or applies it in part.
Pool == INSTANCE WorkPool WITH
  Items <- Episodes, Sessions <- Callers, Whole <- {Manager},
  pool <- Committed, claimed <- Claiming, leased <- Batches
ImplementsPool == Pool!Spec

\* Episodes of a version leased by a committed claim or by one in progress.
Running(v) ==
  {e \in Episodes : /\ VersionOf[e] = v
                    /\ \/ owner[e] # NoOne
                       \/ \E w \in Callers : e \in Range(call[w].claimed)}

\* However the calls of several sessions interleave, one version never has more
\* episodes leased than max_leases of its agenda group (claim_episode counts
\* the leases its transaction sees, under the version's lock).
VersionBudget ==
  \A v \in Versions : Cardinality(Running(v)) <= GroupLimit[GroupOf[v]]

\* claim passes over a candidate only when it cannot be claimed at that moment,
\* or when claim_episode prefers one that the call has passed over before or
\* never listed: the order of claim and the order of claim_episode, evaluated
\* at different times, never work against each other within the list.
PassedOver(w) ==
  LET e == Head(call[w].list)
      v == VersionOf[e]
  IN  call'[w].claimed = call[w].claimed =>
        \/ e \notin Claimable(w, v)
        \/ GroupFull(w, GroupOf[v])
        \/ \E d \in Claimable(w, v) \ Range(call[w].list) : VersionBefore(d, e)
OrdersAgree == [][\A w \in Callers : TryCandidate(w) => PassedOver(w)]_vars

\* The worker serves the database and nothing keeps it from doing so.
Fit ==
  /\ process \notin {"NONE", "STOPPED"}
  /\ Compatible(world.version) /\ world.grantees = 1 /\ world.ready
  /\ conf.batch <= MaxClaims

\* Once the worker stays fit and nothing new comes in, every open episode is
\* finished, whichever session a deadlock costs its claims, with batches left
\* to pg-reactd, and with the backlog at its threshold.
WorkDrains ==
  <>[]Fit /\ <>[][Open' \subseteq Open]_vars => \A e \in Episodes : []<>(e \notin Open)

\* Work of the highest salience is finished even while more keeps coming in.
Urgent == {e \in Episodes : \A v \in Versions : Salience[v] <= Salience[VersionOf[e]]}
UrgentWorkDrains == <>[]Fit => \A e \in Urgent : []<>(e \notin Open)

\* "Sustained high-salience work cannot starve lower-salience eligible work
\* indefinitely": every open episode is finished while more keeps coming in.
NoStarvation == <>[]Fit => \A e \in Episodes : []<>(e \notin Open)

\* Coordination that the backlog has paused is resumed: once the worker stays
\* fit and no pg-reactd claims, the cycle comes to its run() again and again.
Quiet == \A w \in Daemons : call[w].pc = "idle"
CoordinationResumes == <>[](Fit /\ Quiet) => []<>(call[Manager].pc = "run")
=============================================================================
