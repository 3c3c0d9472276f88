----------------------- MODULE KeyedActivationsProofs -----------------------
(***************************************************************************)
(* For every set of rows and typed keys, and whatever the digest is:       *)
(* a rule version's activations are those of its rows, they follow the     *)
(* reference oracle, and a run that no write overtakes leaves every active *)
(* key identified.  Surrogates and activation uuids may collide as they    *)
(* like; what is used of them is that they are functions of the key.  A     *)
(* recorded identity, though, stands for one typed key only.               *)
(***************************************************************************)
EXTENDS KeyedActivations, KeyCodecProofs, TLAPS

\* A run knows the canonical key of every row it has seen.
RunKnowsRows ==
  run # NoRun =>
    \A s \in Present(run.seen) :
      /\ Surrogate[run.seen[s]] \in DOMAIN run.identities
      /\ run.identities[Surrogate[run.seen[s]]] = Canonical[run.seen[s]]

IInv == TypeOK /\ ActiveKeysMatch /\ RunKnowsRows

-----------------------------------------------------------------------------
(* Rows and keys.                                                          *)

LEMMA KeysAreSurrogates ==
  ASSUME NEW table \in Rows, KeysAreUnique(table)
  PROVE  KeysOf(table) \subseteq Surrogates
  BY DEF Rows, KeysAreUnique, KeysOf, Present, Surrogates

\* The row of a key is a row that has it.
LEMMA RowOfKey ==
  ASSUME NEW table \in Rows, NEW key \in KeysOf(table)
  PROVE  /\ RowOf(table, key) \in Tuples
         /\ \E s \in Present(table) :
              table[s] = RowOf(table, key) /\ Surrogate[table[s]] = key
  <1>1. \E s \in Present(table) : Surrogate[table[s]] = key
    BY DEF KeysOf
  <1> DEFINE s == CHOOSE s \in Present(table) : Surrogate[table[s]] = key
  <1>2. s \in Present(table) /\ Surrogate[table[s]] = key
    BY <1>1
  <1>3. RowOf(table, key) = table[s]
    BY DEF RowOf
  <1> HIDE DEF s
  <1> QED BY <1>2, <1>3 DEF Rows, Present

\* Unique keys have one row each.
LEMMA RowOfRow ==
  ASSUME NEW table \in Rows, KeysAreUnique(table), NEW s \in Present(table)
  PROVE  RowOf(table, Surrogate[table[s]]) = table[s]
  <1> DEFINE key == Surrogate[table[s]]
  <1>1. key \in KeysOf(table)
    BY DEF KeysOf
  <1>2. PICK t \in Present(table) :
          table[t] = RowOf(table, key) /\ Surrogate[table[t]] = key
    BY <1>1, RowOfKey
  <1>3. t = s
    BY <1>2 DEF KeysAreUnique
  <1> QED BY <1>2, <1>3

-----------------------------------------------------------------------------
(* A refresh.                                                              *)

\* A key of the new rows that no trigger has buffered is active already.
LEMMA UntouchedIsActive ==
  ASSUME ActiveKeysMatch, NEW table \in Rows, NEW key \in KeysOf(table),
         key \notin Touched(table)
  PROVE  /\ IdOf[key] \in DOMAIN activations
         /\ activations[IdOf[key]].key = key
  <1>1. PICK s \in Present(table) : Surrogate[table[s]] = key
    BY DEF KeysOf
  <1>2. table[s] \in {matches[t] : t \in Present(matches)}
    BY <1>1 DEF Touched
  <1>3. key \in KeysOf(matches)
    BY <1>1, <1>2 DEF KeysOf
  <1> QED BY <1>3 DEF ActiveKeysMatch

\* Every key of the new rows ends up under its own activation uuid.
LEMMA OwnActivation ==
  ASSUME ActiveKeysMatch, NEW table \in Rows, UuidsAreDistinct(table),
         NEW key \in KeysOf(table)
  PROVE  /\ IdOf[key] \in DOMAIN activations => activations[IdOf[key]].key = key
         /\ IdOf[key] \notin DOMAIN activations =>
              \A other \in KeysOf(table) : IdOf[other] = IdOf[key] => other = key
  <1>1. ASSUME IdOf[key] \in DOMAIN activations
        PROVE  activations[IdOf[key]].key = key
    <2> DEFINE other == activations[IdOf[key]].key
    <2>1. IdOf[other] = IdOf[key] /\ other \in Recorded
      BY <1>1 DEF ActiveKeysMatch, Recorded
    <2>2. CASE key \in Touched(table)
      BY <2>1, <2>2 DEF UuidsAreDistinct
    <2>3. CASE key \notin Touched(table)
      BY <2>3, UntouchedIsActive
    <2> QED BY <2>2, <2>3
  <1>2. ASSUME IdOf[key] \notin DOMAIN activations,
               NEW other \in KeysOf(table), IdOf[other] = IdOf[key]
        PROVE  other = key
    <2>1. key \in Touched(table)
      BY <1>2, UntouchedIsActive
    <2>2. other \in Touched(table)
      BY <1>2, UntouchedIsActive
    <2> QED BY <1>2, <2>1, <2>2 DEF UuidsAreDistinct
  <1> QED BY <1>1, <1>2

\* What the finalizer leaves of a row it finds.
LEMMA FinalizedRow ==
  ASSUME NEW table \in Rows, NEW id \in DOMAIN activations,
         activations[id] \in Activation
  PROVE  /\ Finalized(table, id) \in Activation
         /\ Finalized(table, id).key = activations[id].key
         /\ Finalized(table, id).active = (activations[id].key \in KeysOf(table))
         /\ Finalized(table, id).active =>
              Finalized(table, id).tuple = RowOf(table, activations[id].key)
         /\ Finalized(table, id).generation =
              IF activations[id].key \in KeysOf(table) /\ ~activations[id].active
                THEN activations[id].generation + 1
                ELSE activations[id].generation
  <1> DEFINE previous == activations[id]
             key == previous.key
  <1>1. key \in KeysOf(table) => RowOf(table, key) \in Tuples
    BY RowOfKey
  <1>2. CASE key \in KeysOf(table) /\ ~previous.active
    <2>1. Finalized(table, id) =
            [previous EXCEPT !.active = TRUE, !.generation = @ + 1,
                             !.tuple = RowOf(table, key)]
      BY <1>2 DEF Finalized
    <2>2. Finalized(table, id) \in
            [key : {key}, active : {TRUE}, generation : {previous.generation + 1},
             tuple : {RowOf(table, key)}]
      BY <2>1 DEF Activation
    <2>3. previous.generation + 1 \in Nat \ {0} /\ key \in Surrogates
      BY DEF Activation
    <2> HIDE DEF previous, key
    <2>4. Finalized(table, id) \in Activation
      BY <1>1, <1>2, <2>2, <2>3 DEF Activation
    <2> QED BY <1>2, <2>2, <2>4 DEF previous, key
  <1>3. CASE key \in KeysOf(table) /\ previous.active
    <2>1. Finalized(table, id) = [previous EXCEPT !.tuple = RowOf(table, key)]
      BY <1>3 DEF Finalized
    <2>2. Finalized(table, id) \in
            [key : {key}, active : {TRUE}, generation : {previous.generation},
             tuple : {RowOf(table, key)}]
      BY <1>3, <2>1 DEF Activation
    <2>3. previous.generation \in Nat \ {0} /\ key \in Surrogates
      BY DEF Activation
    <2> HIDE DEF previous, key
    <2>4. Finalized(table, id) \in Activation
      BY <1>1, <1>3, <2>2, <2>3 DEF Activation
    <2> QED BY <1>3, <2>2, <2>4 DEF previous, key
  <1>4. CASE key \notin KeysOf(table)
    <2>1. Finalized(table, id) = [previous EXCEPT !.active = FALSE]
      BY <1>4 DEF Finalized
    <2>2. Finalized(table, id) \in
            [key : {key}, active : {FALSE}, generation : {previous.generation},
             tuple : {previous.tuple}]
      BY <1>4, <2>1 DEF Activation
    <2>3. /\ previous.generation \in Nat \ {0} /\ key \in Surrogates
          /\ previous.tuple \in Tuples
      BY DEF Activation
    <2> HIDE DEF previous, key
    <2>4. Finalized(table, id) \in Activation
      BY <1>4, <2>2, <2>3 DEF Activation
    <2>5. /\ Finalized(table, id).key = key
          /\ Finalized(table, id).active = FALSE
          /\ Finalized(table, id).generation = previous.generation
      BY <2>2
    <2>6. (key \in KeysOf(table)) = FALSE
      BY <1>4
    <2>7. Finalized(table, id).active = (key \in KeysOf(table))
      BY <2>5, <2>6
    <2>8. Finalized(table, id).generation =
            IF key \in KeysOf(table) /\ ~previous.active
              THEN previous.generation + 1 ELSE previous.generation
      BY <1>4, <2>5
    <2> QED BY <1>4, <2>4, <2>5, <2>7, <2>8 DEF previous, key
  <1>5. previous.active \in BOOLEAN
    BY DEF Activation
  <1> QED BY <1>2, <1>3, <1>4, <1>5

\* The row that a new activation uuid gets.
LEMMA NewRow ==
  ASSUME NEW table \in Rows, KeysAreUnique(table),
         NEW id \in {IdOf[key] : key \in KeysOf(table)}
  PROVE  LET key == CHOOSE key \in KeysOf(table) : IdOf[key] = id
             new == NewActivation(table, key)
         IN  /\ key \in KeysOf(table) /\ IdOf[key] = id
             /\ new \in Activation
             /\ new.key = key /\ new.active /\ new.generation = 1
             /\ new.tuple = RowOf(table, key)
  <1> DEFINE key == CHOOSE key \in KeysOf(table) : IdOf[key] = id
  <1>1. key \in KeysOf(table) /\ IdOf[key] = id
    OBVIOUS
  <1> HIDE DEF key
  <1>2. key \in Surrogates /\ RowOf(table, key) \in Tuples
    BY <1>1, KeysAreSurrogates, RowOfKey
  <1>3. /\ NewActivation(table, key) \in Activation
        /\ NewActivation(table, key).key = key
        /\ NewActivation(table, key).active
        /\ NewActivation(table, key).generation = 1
        /\ NewActivation(table, key).tuple = RowOf(table, key)
    BY <1>2 DEF NewActivation, Activation
  <1> QED BY <1>1, <1>3 DEF key

\* The activations after a refresh, row by row: one that there was is
\* finalized, and a new one is that of the only key with its uuid.
LEMMA RefreshedRows ==
  ASSUME TypeOK, ActiveKeysMatch, Refresh
  PROVE  /\ DOMAIN activations' =
              DOMAIN activations \cup {IdOf[key] : key \in KeysOf(rows)}
         /\ \A id \in DOMAIN activations : activations'[id] = Finalized(rows, id)
         /\ \A id \in DOMAIN activations' \ DOMAIN activations :
              \E key \in KeysOf(rows) :
                /\ IdOf[key] = id
                /\ activations'[id] = NewActivation(rows, key)
                /\ activations'[id] \in Activation
                /\ activations'[id].key = key
                /\ activations'[id].active
                /\ activations'[id].generation = 1
                /\ activations'[id].tuple = RowOf(rows, key)
  <1> USE DEF Refresh
  <1>1. rows \in Rows /\ KeysAreUnique(rows)
    BY DEF TypeOK
  <1>2. /\ DOMAIN activations' =
              DOMAIN activations \cup {IdOf[key] : key \in KeysOf(rows)}
        /\ \A id \in DOMAIN activations : activations'[id] = Finalized(rows, id)
        /\ \A id \in DOMAIN activations' \ DOMAIN activations :
             activations'[id] =
               NewActivation(rows, CHOOSE key \in KeysOf(rows) : IdOf[key] = id)
    BY DEF Refreshed
  <1>3. ASSUME NEW id \in DOMAIN activations' \ DOMAIN activations
        PROVE  \E key \in KeysOf(rows) :
                 /\ IdOf[key] = id
                 /\ activations'[id] = NewActivation(rows, key)
                 /\ activations'[id] \in Activation
                 /\ activations'[id].key = key
                 /\ activations'[id].active
                 /\ activations'[id].generation = 1
                 /\ activations'[id].tuple = RowOf(rows, key)
    <2> DEFINE key == CHOOSE key \in KeysOf(rows) : IdOf[key] = id
    <2>1. id \in {IdOf[k] : k \in KeysOf(rows)}
      BY <1>2, <1>3
    <2>2. /\ key \in KeysOf(rows) /\ IdOf[key] = id
          /\ NewActivation(rows, key) \in Activation
          /\ NewActivation(rows, key).key = key
          /\ NewActivation(rows, key).active
          /\ NewActivation(rows, key).generation = 1
          /\ NewActivation(rows, key).tuple = RowOf(rows, key)
      BY <1>1, <2>1, NewRow
    <2>3. activations'[id] = NewActivation(rows, key)
      BY <1>2, <1>3
    <2> HIDE DEF key
    <2> QED BY <2>2, <2>3
  <1> QED BY <1>2, <1>3

LEMMA RefreshTypes ==
  ASSUME TypeOK, ActiveKeysMatch, Refresh
  PROVE  /\ matches' \in Rows
         /\ DOMAIN activations' \subseteq {IdOf[key] : key \in Surrogates}
         /\ \A id \in DOMAIN activations' : activations'[id] \in Activation
  <1>1. rows \in Rows /\ KeysOf(rows) \subseteq Surrogates
    BY KeysAreSurrogates DEF TypeOK, Refresh
  <1>2. matches' \in Rows
    BY <1>1 DEF Refresh
  <1>3. DOMAIN activations' \subseteq {IdOf[key] : key \in Surrogates}
    BY <1>1, RefreshedRows DEF TypeOK
  <1>4. ASSUME NEW id \in DOMAIN activations' PROVE activations'[id] \in Activation
    BY <1>1, <1>4, RefreshedRows, FinalizedRow DEF TypeOK
  <1> QED BY <1>2, <1>3, <1>4

\* The active keys after a refresh are the keys of the new rows.
LEMMA RefreshMatches ==
  ASSUME TypeOK, ActiveKeysMatch, Refresh
  PROVE  ActiveKeysMatch'
  <1>1. rows \in Rows /\ KeysAreUnique(rows) /\ UuidsAreDistinct(rows)
    BY DEF TypeOK, Refresh
  <1>2. \A id \in DOMAIN activations :
          /\ activations'[id].key = activations[id].key
          /\ activations'[id].active = (activations[id].key \in KeysOf(rows))
    BY <1>1, RefreshedRows, FinalizedRow DEF TypeOK
  <1>3. \A id \in DOMAIN activations' : id = IdOf[activations'[id].key]
    BY <1>2, RefreshedRows DEF ActiveKeysMatch
  <1>4. ASSUME NEW id \in DOMAIN activations', activations'[id].active
        PROVE  activations'[id].key \in KeysOf(rows)
    BY <1>2, <1>4, RefreshedRows
  <1>5. ASSUME NEW key \in KeysOf(rows)
        PROVE  /\ IdOf[key] \in DOMAIN activations'
               /\ activations'[IdOf[key]].key = key
               /\ activations'[IdOf[key]].active
    <2> DEFINE id == IdOf[key]
    <2>1. id \in DOMAIN activations'
      BY <1>5, RefreshedRows
    <2>2. CASE id \in DOMAIN activations
      BY <1>1, <1>2, <2>1, <2>2, OwnActivation
    <2>3. CASE id \notin DOMAIN activations
      <3>1. PICK other \in KeysOf(rows) :
              /\ IdOf[other] = id
              /\ activations'[id].key = other
              /\ activations'[id].active
        BY <2>1, <2>3, RefreshedRows
      <3>2. other = key
        BY <1>1, <2>3, <3>1, OwnActivation
      <3> QED BY <2>1, <3>1, <3>2
    <2> QED BY <2>2, <2>3
  <1>6. KeysOf(matches)' = KeysOf(rows)
    BY DEF Refresh, KeysOf, Present
  <1>7. KeysOf(matches)' =
          {activations'[id].key : id \in {i \in DOMAIN activations' : activations'[i].active}}
    BY <1>4, <1>5, <1>6
  <1> QED BY <1>3, <1>7 DEF ActiveKeysMatch

-----------------------------------------------------------------------------
(* The invariant.                                                          *)

LEMMA InitInv == Init => IInv
  <1> SUFFICES ASSUME Init PROVE IInv
    OBVIOUS
  <1>1. TypeOK
    BY DEF Init, TypeOK, Rows, AreIdentities
  <1>2. KeysOf(matches) = {}
    BY DEF Init, KeysOf, Present
  <1>3. ActiveKeysMatch
    BY <1>2 DEF Init, ActiveKeysMatch
  <1>4. RunKnowsRows
    BY DEF Init, RunKnowsRows
  <1> QED BY <1>1, <1>3, <1>4 DEF IInv

\* What sync_semantic_keys writes are identities, and those of the rows.
LEMMA UpsertedRows ==
  ASSUME TypeOK, KeysAreUnique(rows), NoCollision
  PROVE  /\ AreIdentities(UpsertedIdentities)
         /\ \A s \in Present(rows) :
              /\ Surrogate[rows[s]] \in DOMAIN UpsertedIdentities
              /\ UpsertedIdentities[Surrogate[rows[s]]] = Canonical[rows[s]]
  <1>1. rows \in Rows /\ KeysOf(rows) \subseteq Surrogates
    BY KeysAreSurrogates DEF TypeOK
  <1>2. DOMAIN UpsertedIdentities = DOMAIN identities \cup KeysOf(rows)
    BY DEF UpsertedIdentities
  <1>3. ASSUME NEW key \in DOMAIN UpsertedIdentities
        PROVE  \E tuple \in Tuples : UpsertedIdentities[key] = Canonical[tuple]
    <2>1. CASE key \in DOMAIN identities
      BY <1>2, <1>3, <2>1 DEF UpsertedIdentities, TypeOK, AreIdentities
    <2>2. CASE key \notin DOMAIN identities
      <3>1. key \in KeysOf(rows)
        BY <1>2, <1>3, <2>2
      <3>2. RowOf(rows, key) \in Tuples
        BY <1>1, <3>1, RowOfKey
      <3>3. UpsertedIdentities[key] = Canonical[RowOf(rows, key)]
        BY <2>2, <3>1 DEF UpsertedIdentities
      <3> QED BY <3>2, <3>3
    <2> QED BY <2>1, <2>2
  <1>4. AreIdentities(UpsertedIdentities)
    BY <1>1, <1>2, <1>3 DEF AreIdentities, TypeOK
  <1>5. ASSUME NEW s \in Present(rows)
        PROVE  /\ Surrogate[rows[s]] \in DOMAIN UpsertedIdentities
               /\ UpsertedIdentities[Surrogate[rows[s]]] = Canonical[rows[s]]
    <2> DEFINE key == Surrogate[rows[s]]
    <2>1. key \in KeysOf(rows)
      BY <1>5 DEF KeysOf
    <2>2. RowOf(rows, key) = rows[s]
      BY <1>1, <1>5, RowOfRow
    <2>3. key \in DOMAIN identities => identities[key] = Canonical[rows[s]]
      BY <1>5 DEF NoCollision
    <2> HIDE DEF key
    <2>4. UpsertedIdentities[key] =
            IF key \in DOMAIN identities THEN identities[key]
                                         ELSE Canonical[RowOf(rows, key)]
      BY <2>1 DEF UpsertedIdentities
    <2>5. /\ key \in DOMAIN UpsertedIdentities
          /\ UpsertedIdentities[key] = Canonical[rows[s]]
      BY <1>2, <2>1, <2>2, <2>3, <2>4
    <2> QED BY <2>5 DEF key
  <1> QED BY <1>4, <1>5

LEMMA TypeStep ==
  ASSUME IInv, [Next]_vars
  PROVE  TypeOK'
  <1> USE DEF IInv
  <1>1. CASE \E s \in Slots, tuple \in Tuples \cup {Absent} : ChangeRow(s, tuple)
    BY <1>1 DEF ChangeRow, TypeOK, Rows
  <1>2. CASE Author
    <2>1. Refresh /\ authored' = TRUE /\ UNCHANGED <<rows, identities, run>>
      BY <1>2 DEF Author
    <2> QED BY <2>1, RefreshTypes DEF TypeOK
  <1>3. CASE SyncSemanticKeys
    <2>1. AreIdentities(UpsertedIdentities)
      BY <1>3, UpsertedRows DEF SyncSemanticKeys
    <2> QED BY <1>3, <2>1 DEF SyncSemanticKeys, TypeOK
  <1>4. CASE CommitRun
    <2>1. /\ Refresh /\ run # NoRun /\ run' = NoRun
          /\ identities' = run.identities /\ UNCHANGED <<rows, authored>>
      BY <1>4 DEF CommitRun
    <2>2. AreIdentities(identities')
      BY <2>1 DEF TypeOK
    <2> QED BY <2>1, <2>2, RefreshTypes DEF TypeOK, AreIdentities
  <1>5. CASE AbortRun
    BY <1>5 DEF AbortRun, TypeOK
  <1>6. CASE RefreshRule
    <2>1. Refresh /\ UNCHANGED <<rows, authored, identities, run>>
      BY <1>6 DEF RefreshRule
    <2> QED BY <2>1, RefreshTypes DEF TypeOK
  <1>7. CASE UNCHANGED vars
    BY <1>7 DEF vars, TypeOK
  <1> QED BY <1>1, <1>2, <1>3, <1>4, <1>5, <1>6, <1>7 DEF Next

\* A step refreshes, or leaves the stream table and the activations alone.
LEMMA RefreshOrNot ==
  ASSUME [Next]_vars
  PROVE  Refresh \/ UNCHANGED <<matches, activations>>
  BY DEF Next, vars, ChangeRow, Author, SyncSemanticKeys, CommitRun, AbortRun, RefreshRule

LEMMA MatchesStep ==
  ASSUME IInv, [Next]_vars
  PROVE  ActiveKeysMatch'
  <1>1. CASE Refresh
    BY <1>1, RefreshMatches DEF IInv
  <1>2. CASE UNCHANGED <<matches, activations>>
    BY <1>2 DEF IInv, ActiveKeysMatch, KeysOf, Present
  <1> QED BY <1>1, <1>2, RefreshOrNot

LEMMA KnowsStep ==
  ASSUME IInv, [Next]_vars
  PROVE  RunKnowsRows'
  <1>1. CASE SyncSemanticKeys
    <2>1. /\ KeysAreUnique(rows) /\ NoCollision
          /\ run' = [identities |-> UpsertedIdentities, seen |-> rows]
      BY <1>1 DEF SyncSemanticKeys
    <2>2. \A s \in Present(rows) :
            /\ Surrogate[rows[s]] \in DOMAIN UpsertedIdentities
            /\ UpsertedIdentities[Surrogate[rows[s]]] = Canonical[rows[s]]
      BY <2>1, UpsertedRows DEF IInv
    <2>3. run'.identities = UpsertedIdentities /\ run'.seen = rows
      BY <2>1
    <2> QED BY <2>2, <2>3 DEF RunKnowsRows
  <1>2. CASE run' = NoRun
    BY <1>2 DEF RunKnowsRows
  <1>3. CASE run' = run
    BY <1>3 DEF IInv, RunKnowsRows, Present
  <1>4. SyncSemanticKeys \/ run' = NoRun \/ run' = run
    BY DEF Next, vars, ChangeRow, Author, CommitRun, AbortRun, RefreshRule
  <1> QED BY <1>1, <1>2, <1>3, <1>4

LEMMA InvStep == IInv /\ [Next]_vars => IInv'
  BY TypeStep, MatchesStep, KnowsStep DEF IInv

\* The tables keep their types: whatever rows come, an activation is one of a
\* typed key that some row has or had, under a uuid derived from it.
THEOREM KeyedTypeCorrect == Spec => []TypeOK
  <1>1. IInv => TypeOK
    BY DEF IInv
  <1> QED BY <1>1, InitInv, InvStep, PTL DEF Spec

\* The active keys are those of the stream table, each under its own
\* activation uuid, for any digest: finalize_match_delta raises before one
\* key's activation could be written over another's.
THEOREM ActivationsMatchRows == Spec => []ActiveKeysMatch
  <1>1. IInv => ActiveKeysMatch
    BY DEF IInv
  <1> QED BY <1>1, InitInv, InvStep, PTL DEF Spec

-----------------------------------------------------------------------------
(* Identities.                                                             *)

\* An active key shows the row that the stream table has for it.
LEMMA ActiveTuple ==
  ASSUME TypeOK, ActiveKeysMatch, Refresh,
         NEW id \in DOMAIN activations', activations'[id].active
  PROVE  /\ activations'[id].key \in KeysOf(rows)
         /\ activations'[id].tuple = RowOf(rows, activations'[id].key)
  <1>1. rows \in Rows
    BY DEF TypeOK
  <1>2. CASE id \in DOMAIN activations
    <2>1. activations'[id] = Finalized(rows, id)
      BY <1>2, RefreshedRows
    <2>2. /\ Finalized(rows, id).key = activations[id].key
          /\ Finalized(rows, id).active = (activations[id].key \in KeysOf(rows))
          /\ Finalized(rows, id).active =>
               Finalized(rows, id).tuple = RowOf(rows, activations[id].key)
      BY <1>1, <1>2, FinalizedRow DEF TypeOK
    <2> QED BY <2>1, <2>2
  <1>3. CASE id \notin DOMAIN activations
    BY <1>3, RefreshedRows
  <1> QED BY <1>2, <1>3

\* A run that no write overtakes leaves every active key with its own
\* identity: sync_semantic_keys has compared or recorded the canonical key of
\* each row that the refresh then finds.
THEOREM QuietRunsIdentifyKeys == Spec => QuietRunsIdentify
  <1> DEFINE Identified ==
        CommitRun /\ run.seen = rows =>
          \A id \in DOMAIN activations' :
            activations'[id].active =>
              /\ activations'[id].key \in DOMAIN identities'
              /\ identities'[activations'[id].key] = Canonical[activations'[id].tuple]
  <1>1. ASSUME IInv, [Next]_vars PROVE Identified
    <2> SUFFICES ASSUME CommitRun, run.seen = rows,
                        NEW id \in DOMAIN activations', activations'[id].active
                 PROVE  /\ activations'[id].key \in DOMAIN identities'
                        /\ identities'[activations'[id].key] =
                              Canonical[activations'[id].tuple]
      OBVIOUS
    <2>1. Refresh /\ run # NoRun /\ identities' = run.identities
      BY DEF CommitRun
    <2>2. /\ activations'[id].key \in KeysOf(rows)
          /\ activations'[id].tuple = RowOf(rows, activations'[id].key)
      BY <1>1, <2>1, ActiveTuple DEF IInv
    <2>3. PICK s \in Present(rows) :
            /\ rows[s] = activations'[id].tuple
            /\ Surrogate[rows[s]] = activations'[id].key
      BY <1>1, <2>2, RowOfKey DEF IInv, TypeOK
    <2>4. /\ Surrogate[rows[s]] \in DOMAIN run.identities
          /\ run.identities[Surrogate[rows[s]]] = Canonical[rows[s]]
      BY <1>1, <2>1, <2>3 DEF IInv, RunKnowsRows
    <2> QED BY <2>1, <2>3, <2>4
  <1>2. IInv /\ [Next]_vars => [Identified]_vars
    BY <1>1
  <1> HIDE DEF Identified
  <1>3. Spec => [][Identified]_vars
    BY <1>2, InitInv, InvStep, PTL DEF Spec
  <1> QED BY <1>3 DEF QuietRunsIdentify, Identified

-----------------------------------------------------------------------------
(* The reference oracle.                                                   *)

\* The oracle's state of a key, and what a refresh makes of it.
LEMMA StateOfKey ==
  ASSUME NEW key \in Surrogates
  PROVE  states[key] =
           IF IdOf[key] \in DOMAIN activations /\ activations[IdOf[key]].key = key
             THEN [active     |-> activations[IdOf[key]].active,
                   generation |-> activations[IdOf[key]].generation]
             ELSE [active |-> FALSE, generation |-> 0]
  BY DEF states

LEMMA PlanOfState ==
  ASSUME NEW active \in BOOLEAN, NEW generation, NEW present \in BOOLEAN
  PROVE  Oracle!Plan([active |-> active, generation |-> generation], present) =
           [active |-> present,
            generation |-> IF present /\ ~active THEN generation + 1 ELSE generation]
  <1>1. CASE active /\ present
    BY <1>1 DEF Oracle!Plan
  <1>2. CASE active /\ ~present
    BY <1>2 DEF Oracle!Plan
  <1>3. CASE ~active /\ present
    BY <1>3 DEF Oracle!Plan
  <1>4. CASE ~active /\ ~present
    BY <1>4 DEF Oracle!Plan
  <1> QED BY <1>1, <1>2, <1>3, <1>4

LEMMA RefreshPlans ==
  ASSUME IInv, [Next]_vars, Refresh, NEW key \in Surrogates
  PROVE  states'[key] = Oracle!Plan(states[key], key \in KeysOf(rows))
  <1> DEFINE id == IdOf[key]
             present == key \in KeysOf(rows)
  <1>1. TypeOK /\ ActiveKeysMatch /\ ActiveKeysMatch' /\ rows \in Rows
    BY MatchesStep DEF IInv, TypeOK
  <1>2. states'[key] =
          IF id \in DOMAIN activations' /\ activations'[id].key = key
            THEN [active     |-> activations'[id].active,
                  generation |-> activations'[id].generation]
            ELSE [active |-> FALSE, generation |-> 0]
    BY DEF states
  <1>3. KeysOf(matches)' = KeysOf(rows)
    BY DEF Refresh, KeysOf, Present
  <1>4. present => id \in DOMAIN activations' /\ activations'[id].key = key
    BY <1>1, <1>3 DEF ActiveKeysMatch
  <1>5. CASE id \in DOMAIN activations /\ activations[id].key = key
    <2>1. /\ id \in DOMAIN activations' /\ activations'[id].key = key
          /\ activations'[id].active = present
          /\ activations'[id].generation =
               IF present /\ ~activations[id].active
                 THEN activations[id].generation + 1 ELSE activations[id].generation
          /\ activations[id].active \in BOOLEAN
      BY <1>1, <1>5, RefreshedRows, FinalizedRow DEF TypeOK, Activation
    <2>2. states[key] = [active     |-> activations[id].active,
                         generation |-> activations[id].generation]
      BY <1>5, StateOfKey
    <2>3. states'[key] = [active     |-> activations'[id].active,
                          generation |-> activations'[id].generation]
      BY <1>2, <2>1
    <2>4. Oracle!Plan(states[key], present) =
            [active |-> present,
             generation |-> IF present /\ ~activations[id].active
                              THEN activations[id].generation + 1
                              ELSE activations[id].generation]
      <3> HIDE DEF id, present
      <3>1. present \in BOOLEAN /\ activations[id].active \in BOOLEAN
        BY <2>1 DEF present
      <3>2. Oracle!Plan([active     |-> activations[id].active,
                         generation |-> activations[id].generation], present) =
              [active |-> present,
               generation |-> IF present /\ ~activations[id].active
                                THEN activations[id].generation + 1
                                ELSE activations[id].generation]
        BY <3>1, PlanOfState
      <3> QED BY <2>2, <3>2
    <2>5. states'[key] =
            [active |-> present,
             generation |-> IF present /\ ~activations[id].active
                              THEN activations[id].generation + 1
                              ELSE activations[id].generation]
      <3> HIDE DEF id, present
      <3> QED BY <2>1, <2>3
    <2> QED BY <2>4, <2>5
  <1>6. CASE ~(id \in DOMAIN activations /\ activations[id].key = key)
    <2>1. states[key] = [active |-> FALSE, generation |-> 0]
      BY <1>6, StateOfKey
    <2>2. CASE present
      <3>1. id \notin DOMAIN activations
        BY <1>1, <1>6, <2>2, OwnActivation DEF Refresh
      <3>2. activations'[id].active /\ activations'[id].generation = 1
        BY <1>1, <1>4, <2>2, <3>1, RefreshedRows
      <3>3. activations'[id].active = TRUE
        BY <1>1, <1>4, <2>2, <3>1, <3>2, RefreshTypes DEF Activation
      <3>4. states'[key] = [active |-> TRUE, generation |-> 1]
        BY <1>2, <1>4, <2>2, <3>2, <3>3
      <3>5. Oracle!Plan(states[key], TRUE) = [active |-> TRUE, generation |-> 0 + 1]
        BY <2>1, PlanOfState
      <3>6. present = TRUE
        BY <2>2
      <3>7. 0 + 1 = 1
        OBVIOUS
      <3>8. states'[key] = Oracle!Plan(states[key], TRUE)
        <4> HIDE DEF id, present
        <4> QED BY <3>4, <3>5, <3>7
      <3> QED BY <3>6, <3>8
    <2>3. CASE ~present
      <3>1. ~(id \in DOMAIN activations' /\ activations'[id].key = key)
        <4>1. CASE id \in DOMAIN activations
          BY <1>1, <1>6, <4>1, RefreshedRows, FinalizedRow DEF TypeOK
        <4>2. CASE id \notin DOMAIN activations
          BY <1>1, <2>3, <4>2, RefreshedRows
        <4> QED BY <4>1, <4>2
      <3>2. states'[key] = [active |-> FALSE, generation |-> 0]
        BY <1>2, <3>1
      <3>3. Oracle!Plan(states[key], FALSE) = [active |-> FALSE, generation |-> 0]
        BY <2>1, PlanOfState
      <3>4. present = FALSE
        BY <2>3
      <3>5. states'[key] = Oracle!Plan(states[key], FALSE)
        BY <3>2, <3>3
      <3> QED BY <3>4, <3>5
    <2> QED BY <2>2, <2>3
  <1> QED BY <1>5, <1>6

\* Every refresh of a version with typed keys is one whole final match set
\* applied by the reference oracle to the keys' surrogates.
THEOREM KeyedImplementsOracle == Spec => ImplementsOracle
  <1>1. Init => Oracle!Init
    BY DEF Init, Oracle!Init, Oracle!DefaultState, states
  <1>2. ASSUME IInv, [Next]_vars PROVE [Oracle!Next]_states
    <2>1. CASE Refresh
      <3>1. KeysOf(rows) \in SUBSET Surrogates
        BY <1>2, <2>1, KeysAreSurrogates DEF IInv, TypeOK, Refresh
      <3>2. \A key \in Surrogates :
              states'[key] = Oracle!Plan(states[key], key \in KeysOf(rows))
        BY <1>2, <2>1, RefreshPlans
      <3>3. states' = [key \in Surrogates |-> states'[key]]
        BY DEF states
      <3>4. Oracle!ApplyFinalMatches(KeysOf(rows))
        BY <3>2, <3>3 DEF Oracle!ApplyFinalMatches
      <3> QED BY <3>1, <3>4 DEF Oracle!Next
    <2>2. CASE UNCHANGED <<matches, activations>>
      BY <2>2 DEF states
    <2> QED BY <1>2, <2>1, <2>2, RefreshOrNot
  <1>3. IInv /\ [Next]_vars => [Oracle!Next]_states
    BY <1>2
  <1> QED BY <1>1, <1>3, InitInv, InvStep, PTL DEF Spec, ImplementsOracle, Oracle!Spec

-----------------------------------------------------------------------------
(* Identities and typed keys.                                              *)

\* Each surrogate of the table has the canonical key of a tuple with it.
OwnIdentities(table) ==
  \A key \in DOMAIN table :
    \E tuple \in Tuples :
      ~HasNull(tuple) /\ Surrogate[tuple] = key /\ table[key] = Canonical[tuple]

IdentityInv ==
  OwnIdentities(identities) /\ (run # NoRun => OwnIdentities(run.identities))

LEMMA UpsertedOwn ==
  ASSUME TypeOK, OwnIdentities(identities), KeysAreUnique(rows)
  PROVE  OwnIdentities(UpsertedIdentities)
  <1> SUFFICES ASSUME NEW key \in DOMAIN UpsertedIdentities
               PROVE  \E tuple \in Tuples :
                        /\ ~HasNull(tuple) /\ Surrogate[tuple] = key
                        /\ UpsertedIdentities[key] = Canonical[tuple]
    BY DEF OwnIdentities
  <1>1. key \in DOMAIN identities \cup KeysOf(rows)
    BY DEF UpsertedIdentities
  <1>2. UpsertedIdentities[key] =
          IF key \in DOMAIN identities THEN identities[key]
                                       ELSE Canonical[RowOf(rows, key)]
    BY <1>1 DEF UpsertedIdentities
  <1>3. CASE key \in DOMAIN identities
    BY <1>2, <1>3 DEF OwnIdentities
  <1>4. CASE key \notin DOMAIN identities
    <2> DEFINE tuple == RowOf(rows, key)
    <2>1. key \in KeysOf(rows) /\ rows \in Rows /\ key # Null
      BY <1>1, <1>4 DEF TypeOK, KeysAreUnique
    <2>2. tuple \in Tuples /\ Surrogate[tuple] = key
      BY <2>1, RowOfKey
    <2> HIDE DEF tuple
    <2>3. ~HasNull(tuple)
      BY <2>1, <2>2 DEF Surrogate
    <2>4. UpsertedIdentities[key] = Canonical[tuple]
      BY <1>2, <1>4 DEF tuple
    <2> QED BY <2>2, <2>3, <2>4
  <1> QED BY <1>3, <1>4

LEMMA IdentityStep ==
  ASSUME TypeOK, IdentityInv, [Next]_vars
  PROVE  IdentityInv'
  <1>1. CASE SyncSemanticKeys
    <2>1. /\ identities' = identities
          /\ run' = [identities |-> UpsertedIdentities, seen |-> rows]
          /\ OwnIdentities(UpsertedIdentities)
      BY <1>1, UpsertedOwn DEF SyncSemanticKeys, IdentityInv
    <2>2. run'.identities = UpsertedIdentities
      BY <2>1
    <2>3. OwnIdentities(identities') /\ OwnIdentities(run'.identities)
      BY <2>1, <2>2 DEF IdentityInv
    <2> QED BY <2>3 DEF IdentityInv, OwnIdentities
  <1>2. CASE CommitRun
    <2>1. run # NoRun /\ identities' = run.identities /\ run' = NoRun
      BY <1>2 DEF CommitRun
    <2> QED BY <2>1 DEF IdentityInv, OwnIdentities
  <1>3. CASE AbortRun
    BY <1>3 DEF AbortRun, IdentityInv, OwnIdentities
  <1>4. CASE UNCHANGED <<identities, run>>
    BY <1>4 DEF IdentityInv, OwnIdentities
  <1> QED BY <1>1, <1>2, <1>3, <1>4
          DEF Next, ChangeRow, Author, RefreshRule, vars

\* A recorded identity is the canonical key of one typed key, which has its
\* surrogate; no other key of whatever types and arity is read from it.
THEOREM IdentitiesStandForOneKey == Spec => []CanonicalKeysDistinct
  <1>1. Init => IdentityInv
    BY DEF Init, IdentityInv, OwnIdentities
  <1>2. TypeOK /\ IdentityInv /\ [Next]_vars => IdentityInv'
    BY IdentityStep
  <1>3. IdentityInv => CanonicalKeysDistinct
    <2> SUFFICES ASSUME IdentityInv, NEW key \in DOMAIN identities
                 PROVE  \E tuple \in Tuples :
                          /\ Surrogate[tuple] = key
                          /\ Readings[identities[key]] = {tuple}
      BY DEF CanonicalKeysDistinct
    <2>1. PICK tuple \in Tuples : /\ ~HasNull(tuple) /\ Surrogate[tuple] = key
                                  /\ identities[key] = Canonical[tuple]
      BY DEF IdentityInv, OwnIdentities
    <2>2. tuple \in TypedKeys /\ tuple \in TypedTuples
      BY <2>1, TypedKeysAssumption
    <2>3. Canonical[tuple] = EncodeTupleV2(tuple)
      BY <2>1 DEF Canonical
    <2>4. Readings[Canonical[tuple]] =
            {other \in TypedKeys : EncodeTupleV2(other) = EncodeTupleV2(tuple)}
      BY <2>3 DEF Readings
    <2>5. \A other \in TypedKeys :
            EncodeTupleV2(other) = EncodeTupleV2(tuple) => other = tuple
      BY <2>2, CodecIsInjective, TypedKeysAssumption
    <2>6. Readings[identities[key]] = {tuple}
      BY <2>1, <2>2, <2>4, <2>5
    <2> QED BY <2>1, <2>6
  <1> QED BY <1>1, <1>2, <1>3, KeyedTypeCorrect, PTL DEF Spec
=============================================================================
