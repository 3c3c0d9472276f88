-------------------------- MODULE KeyedActivations --------------------------
(***************************************************************************)
(* A rule version whose semantic key is a tuple of typed columns.          *)
(*                                                                         *)
(* The stream table is built over a generated wrapper view that computes   *)
(* the canonical key of each row and an internal bigint surrogate, eight   *)
(* bytes of its SHA-256 digest.  Activations are kept by surrogate, and    *)
(* by an activation uuid derived from it; semantic_key_identities says     *)
(* which typed key a surrogate stands for.                                 *)
(*                                                                         *)
(* run() first checks the wrapper and records its identities               *)
(* (sync_semantic_keys), then waits for the coordinator lock and refreshes *)
(* the stream table, all in one transaction whose statements read the rows *)
(* committed when each of them starts.  Applications write in between, and *)
(* a coordinator may refresh the version by refresh_rule, without the      *)
(* check.  Bounds: MaxGeneration; one run at a time, one version.          *)
(***************************************************************************)
EXTENDS KeyCodec, FiniteSets

CONSTANTS
  Version,               \* the bytes of the rule version's uuid
  Tuples,                \* the key tuples that rows may have
  TypedKeys,             \* the typed keys, those of rows among them
  Slots,                 \* the rows of the source
  MaxGeneration,         \* bound: generations of an activation
  Null,                  \* SQL's NULL, as a component
  Absent,                \* no row
  NoRun                  \* no run in progress

VARIABLES
  rows,                  \* the committed rows of the wrapper: slot to tuple
  authored,              \* author_rule has created the version
  matches,               \* the rows of the stream table
  identities,            \* semantic_key_identities: surrogate to canonical key
  activations,           \* activation_state: activation uuid to its row
  run                    \* a run after sync_semantic_keys: what it wrote and saw

vars == <<rows, authored, matches, identities, activations, run>>

Rows == [Slots -> Tuples \cup {Absent}]
Present(table) == {s \in Slots : table[s] # Absent}

\* The columns that the wrapper of create_key_wrapper adds to a row.  One NULL
\* component makes the concatenation, and so both columns, NULL.
HasNull(tuple) == \E i \in DOMAIN tuple : tuple[i] = Null

ASSUME TypedKeysAssumption ==
  /\ TypedKeys \subseteq TypedTuples
  /\ \A tuple \in Tuples : HasNull(tuple) \/ tuple \in TypedKeys

Canonical ==
  [tuple \in Tuples |-> IF HasNull(tuple) THEN Null ELSE EncodeTupleV2(tuple)]
Surrogate ==
  [tuple \in Tuples |-> IF HasNull(tuple) THEN Null ELSE KeySurrogate(Canonical[tuple])]

Surrogates == {Surrogate[tuple] : tuple \in Tuples} \ {Null}
IdOf == [key \in Surrogates |-> ActivationId(Version, key)]

KeysOf(table) == {Surrogate[table[s]] : s \in Present(table)}

\* Every surrogate is non-null and occurs once: the test of sync_semantic_keys,
\* of create_rule and, on the rows it touches, of a refresh's delta triggers.
KeysAreUnique(table) ==
  /\ Null \notin KeysOf(table)
  /\ \A s, t \in Present(table) :
       Surrogate[table[s]] = Surrogate[table[t]] => s = t

(***************************************************************************)
(* The refresh of the stream table and its delta triggers.                 *)
(***************************************************************************)

\* The keys that capture_match_delta buffers: those of rows that differ.
Touched(table) ==
  {Surrogate[r] : r \in {matches[s] : s \in Present(matches)} \ {table[s] : s \in Present(table)}} \cup
  {Surrogate[r] : r \in {table[s] : s \in Present(table)} \ {matches[s] : s \in Present(matches)}}

Recorded == {activations[id].key : id \in DOMAIN activations}

\* Fault: the finalizer takes whatever row it finds under the activation uuid.
UuidsUnchecked(table) == TRUE

\* finalize_match_delta: a row found under the activation uuid, stored before
\* or by an earlier key of the same refresh, must have the same canonical key.
UuidsAreDistinct(table) ==
  \A key \in Touched(table) :
    \A other \in Recorded \cup (Touched(table) \cap KeysOf(table)) :
      IdOf[other] = IdOf[key] => other = key

RowOf(table, key) == table[CHOOSE s \in Present(table) : Surrogate[table[s]] = key]

\* The row inserted for a key that was never matched before.
\* Fault: the first generation is numbered zero.
UnnumberedActivation(table, key) ==
  [key |-> key, active |-> TRUE, generation |-> 0, tuple |-> RowOf(table, key)]

NewActivation(table, key) ==
  [key |-> key, active |-> TRUE, generation |-> 1, tuple |-> RowOf(table, key)]

\* Fault: a key that matches again resumes the generation that has ended.
ResumedGeneration(table, id) ==
  LET key == activations[id].key
  IN  [activations[id] EXCEPT
         !.active = key \in KeysOf(table),
         !.tuple = IF key \in KeysOf(table) THEN RowOf(table, key) ELSE @]

\* finalize_match_delta: what becomes of the activation row `id`, for the keys
\* of the new stream table `table`.  A key that matches again starts the next
\* generation; one that stops keeps its row, inactive.
Finalized(table, id) ==
  LET previous == activations[id]
      key == previous.key
  IN  CASE key \in KeysOf(table) /\ ~previous.active ->
             [previous EXCEPT !.active = TRUE, !.generation = @ + 1,
                              !.tuple = RowOf(table, key)]
        [] key \in KeysOf(table) /\ previous.active ->
             [previous EXCEPT !.tuple = RowOf(table, key)]
        [] key \notin KeysOf(table) -> [previous EXCEPT !.active = FALSE]

Refreshed(table) ==
  [id \in DOMAIN activations \cup {IdOf[key] : key \in KeysOf(table)} |->
     IF id \in DOMAIN activations THEN Finalized(table, id)
     ELSE NewActivation(table, CHOOSE key \in KeysOf(table) : IdOf[key] = id)]

WithinBounds(next) == \A id \in DOMAIN next : next[id].generation <= MaxGeneration

\* A refresh that its triggers accept.  They refuse the rows by raising, which
\* leaves everything as it was: there is no step for it.
Refresh ==
  /\ KeysAreUnique(rows)
  /\ UuidsAreDistinct(rows)
  /\ WithinBounds(Refreshed(rows))
  /\ matches' = rows
  /\ activations' = Refreshed(rows)

(***************************************************************************)
(* The actions.                                                            *)
(***************************************************************************)

\* An application commits an insert, an update or a delete of a row.
ChangeRow(slot, tuple) ==
  /\ rows[slot] # tuple
  /\ rows' = [rows EXCEPT ![slot] = tuple]
  /\ UNCHANGED <<authored, matches, identities, activations, run>>

\* author_keyed_rule: create_rule builds the stream table over the wrapper,
\* refuses null and duplicate keys and, under SEED_CURRENT, inserts an
\* activation for each of its rows.  It records no identity.
Author ==
  /\ ~authored
  /\ Refresh
  /\ authored' = TRUE
  /\ UNCHANGED <<rows, identities, run>>

\* Fault: the canonical key found under a surrogate is not compared.
CollisionsUnchecked == TRUE

\* M15_KEY_COLLISION: a surrogate already stands for another canonical key.
NoCollision ==
  \A s \in Present(rows) :
    Surrogate[rows[s]] \in DOMAIN identities =>
      identities[Surrogate[rows[s]]] = Canonical[rows[s]]

\* INSERT ... ON CONFLICT (rule_version_id, semantic_key) DO UPDATE: the
\* canonical key of a known surrogate stays.
UpsertedIdentities ==
  [key \in DOMAIN identities \cup KeysOf(rows) |->
     IF key \in DOMAIN identities THEN identities[key]
                                  ELSE Canonical[RowOf(rows, key)]]

\* run(), first statement: sync_semantic_keys checks the wrapper's rows and
\* records their identities, visible to others when the run commits.
SyncSemanticKeys ==
  /\ authored
  /\ run = NoRun
  /\ KeysAreUnique(rows)
  /\ NoCollision
  /\ run' = [identities |-> UpsertedIdentities, seen |-> rows]
  /\ UNCHANGED <<rows, authored, matches, identities, activations>>

\* run_m14, under the coordinator lock: refresh_rule, then commit.
CommitRun ==
  /\ run # NoRun
  /\ Refresh
  /\ identities' = run.identities
  /\ run' = NoRun
  /\ UNCHANGED <<rows, authored>>

\* The refresh raises, or the run is cancelled or its session lost: the
\* transaction takes the recorded identities with it.
AbortRun ==
  /\ run # NoRun
  /\ run' = NoRun
  /\ UNCHANGED <<rows, authored, matches, identities, activations>>

\* refresh_rule by a coordinator, outside run(): no identity is looked at.
RefreshRule ==
  /\ authored
  /\ Refresh
  /\ UNCHANGED <<rows, authored, identities, run>>

Init ==
  /\ rows = [s \in Slots |-> Absent]
  /\ authored = FALSE
  /\ matches = [s \in Slots |-> Absent]
  /\ identities = [key \in {} |-> Null]
  /\ activations = [id \in {} |-> Null]
  /\ run = NoRun

Next ==
  \/ \E s \in Slots, tuple \in Tuples \cup {Absent} : ChangeRow(s, tuple)
  \/ Author
  \/ SyncSemanticKeys
  \/ CommitRun
  \/ AbortRun
  \/ RefreshRule

Spec == Init /\ [][Next]_vars

(***************************************************************************)
(* Properties.                                                             *)
(***************************************************************************)

Activation == [key : Surrogates, active : BOOLEAN, generation : Nat \ {0},
               tuple : Tuples]

AreIdentities(table) ==
  /\ DOMAIN table \subseteq Surrogates
  /\ \A key \in DOMAIN table : \E tuple \in Tuples : table[key] = Canonical[tuple]

\* The types of the variables.
TypeOK ==
  /\ rows \in Rows
  /\ authored \in BOOLEAN
  /\ matches \in Rows
  /\ AreIdentities(identities)
  /\ DOMAIN activations \subseteq {IdOf[key] : key \in Surrogates}
  /\ \A id \in DOMAIN activations : activations[id] \in Activation
  /\ run # NoRun => run.seen \in Rows /\ AreIdentities(run.identities)

\* The active keys are the keys of the stream table, each under its own
\* activation uuid, although uuids may collide: an activation never takes over
\* the row of another key (finalize_match_delta's collision check).
ActiveKeysMatch ==
  /\ \A id \in DOMAIN activations : id = IdOf[activations[id].key]
  /\ KeysOf(matches) =
       {activations[id].key : id \in {i \in DOMAIN activations : activations[i].active}}

\* A run that no write overtakes leaves every active key with an identity, and
\* its own: two typed keys that share a surrogate, one after the other, are
\* told apart by the run that first sees the second (sync_semantic_keys).
QuietRunsIdentify ==
  [][CommitRun /\ run.seen = rows =>
       \A id \in DOMAIN activations' :
         activations'[id].active =>
           /\ activations'[id].key \in DOMAIN identities'
           /\ identities'[activations'[id].key] = Canonical[activations'[id].tuple]]_vars

\* A recorded identity stands for one typed key, which has its surrogate: no
\* other key, of whatever types, arity and bytes, has its canonical key
\* (encode_tuple_v2's tags and lengths).
Readings ==
  [code \in {Canonical[tuple] : tuple \in Tuples} |->
     {key \in TypedKeys : EncodeTupleV2(key) = code}]
CanonicalKeysDistinct ==
  \A key \in DOMAIN identities :
    \E tuple \in Tuples :
      /\ Surrogate[tuple] = key
      /\ Readings[identities[key]] = {tuple}

\* "internal bigint surrogates never enter normal output": the public views
\* show a match by its identity and by the surrogate when there is none.
SurrogatesHidden ==
  \A id \in DOMAIN activations :
    activations[id].active => activations[id].key \in DOMAIN identities

\* The activations of the version follow the reference oracle: every refresh
\* applies one whole final match set, whatever the rows went through.
states ==
  [key \in Surrogates |->
     IF IdOf[key] \in DOMAIN activations /\ activations[IdOf[key]].key = key
       THEN [active     |-> activations[IdOf[key]].active,
             generation |-> activations[IdOf[key]].generation]
       ELSE [active |-> FALSE, generation |-> 0]]

Oracle == INSTANCE Lifecycle WITH Keys <- Surrogates, states <- states
ImplementsOracle == Oracle!Spec
=============================================================================
