----------------------------- MODULE KeyLineage -----------------------------
(***************************************************************************)
(* The static analysis that decides whether a column of an authored view   *)
(* may serve as the key of a rule (src/rewrite.rs), the validations of     *)
(* derivation programs and deadline rules that rest on it, and the views,  *)
(* typed-key wrappers and deployed programs that live on while authors go  *)
(* on replacing the views below them.                                      *)
(*                                                                         *)
(* Optional results (is_some_and, Option) are sets with at most one        *)
(* element; the path of a walk is the set of what it is inside of, for a   *)
(* walk never enters the same thing twice.                                 *)
(***************************************************************************)
EXTENDS QueryTrees, FiniteSets, FiniteSetsExt

CONSTANTS
  Views,           \* names an author may give to a view
  Conditions,      \* those of them that rules and programs are declared over
  Texts,           \* Texts[v]: the definitions an author may give v
  Trees,           \* Trees[text]: the query tree of a definition
  Columns,         \* attribute numbers of every relation
  KeyColumn,       \* the key attribute of every derived relation
  FactTable,       \* derived_facts: the table below the derived views
  MaxViewDepth     \* MAX_VIEW_DEPTH

VARIABLES
  definition,      \* pg_rewrite: the text of every authored view there is
  wrappers,        \* key_wrappers: the relations registered as key wrappers
  program,         \* the deployed program: its source, key and digest
  supports,        \* the source rows that were last turned into supports
  deadlines,       \* where the deadlines of the last accepted rule come from
  tx               \* the transaction that deploys or refreshes the program

vars == <<definition, wrappers, program, supports, deadlines, tx>>

NoLineage == <<>>
NoProgram == [source |-> "none"]
NoTransaction == [step |-> "none"]

\* The names of the two views create_key_wrapper makes for a condition.
KeyBase(v) == "m15_key_base_" \o v
KeyWrapper(v) == "m15_key_" \o v

IsView(rel) ==
  \/ rel \in Derived \cup DOMAIN definition
  \/ \E v \in Views : KeyWrapper(v) \in wrappers /\ rel \in {KeyBase(v), KeyWrapper(v)}

Relation(rel) == [kind |-> "RELATION", relid |-> rel, inFromCl |-> TRUE]
From(n) == [node |-> "FROM", list |-> <<[node |-> "REF", no |-> n]>>, quals |-> [node |-> "TRUE"]]
Var(n, a) == [node |-> "VAR", no |-> n, att |-> a, up |-> 0]
Select(rel, targets) ==
  [rtable |-> <<Relation(rel)>>, targets |-> targets, jointree |-> From(1),
   ctes |-> <<>>, sublinks |-> <<>>, setop |-> FALSE]

\* The public view of a derived relation unpacks the stored fact: its columns
\* are fields of a function result.
DerivedView ==
  Select(FactTable, [a \in Columns |-> [node |-> "FUNC", arg |-> Var(1, a)]])

\* create_key_wrapper: a view that adds the computed key to the columns of the
\* condition, and under the registered name a view that selects all of it.
WrapperView(rel) ==
  LET v == CHOOSE v \in Views : rel \in {KeyBase(v), KeyWrapper(v)}
      columns == [a \in Columns |-> Var(1, a)]
  IN IF rel = KeyBase(v)
     THEN Select(v, Append(columns, [node |-> "FUNC", arg |-> Var(1, KeyColumn)]))
     ELSE Select(KeyBase(v), Append(columns, Var(1, Len(columns) + 1)))

\* get_view_query
ViewQuery(rel) ==
  CASE rel \in Derived -> DerivedView
    [] rel \in DOMAIN definition -> Trees[definition[rel]]
    [] OTHER -> WrapperView(rel)

-----------------------------------------------------------------------------
(* Occurrences of a required relation in the tree of a view.               *)

\* A walk that meets a view it is inside of, goes too deep or cannot resolve
\* a CTE answers 2, as if it had found the relation twice.
Ambiguous == 2

RECURSIVE ViewOccurrences(_, _, _), QueryOccurrences(_, _, _), CteOccurrences(_, _, _, _)
ViewOccurrences(rel, required, path) ==
  IF rel = required THEN 1
  ELSE IF Cardinality(path) >= MaxViewDepth \/ rel \in path THEN Ambiguous
  ELSE QueryOccurrences(ViewQuery(rel), required, path \cup {rel})

\* The entries of FROM, and the sublinks that the tree walker reaches.
QueryOccurrences(q, required, path) ==
  LET Entry(i) ==
        LET entry == q.rtable[i] IN
        CASE ~entry.inFromCl -> 0
          [] entry.kind = "RELATION" /\ entry.relid = required -> 1
          [] entry.kind = "RELATION" /\ entry.relid # required /\ IsView(entry.relid) ->
               ViewOccurrences(entry.relid, required, path)
          [] entry.kind = "SUBQUERY" -> QueryOccurrences(entry.query, required, path)
          [] entry.kind = "CTE" /\ entry.levelsup = 0 ->
               CteOccurrences(q, entry, required, path)
          [] OTHER -> 0
      Sublink(i) == QueryOccurrences(q.sublinks[i], required, path)
  IN MapThenSumSet(Entry, DOMAIN q.rtable) + MapThenSumSet(Sublink, DOMAIN q.sublinks)

CteOccurrences(q, entry, required, path) ==
  LET found == SelectInSeq(q.ctes, LAMBDA c : c.name = entry.name) IN
  IF found = 0 \/ q.ctes[found].recursive THEN Ambiguous
  ELSE QueryOccurrences(q.ctes[found].query, required, path)

-----------------------------------------------------------------------------
(* Equalities of a query, and the columns they make equal to one.          *)

\* query_attribute_expression
Expression(q, a) == IF a \in DOMAIN q.targets THEN {q.targets[a]} ELSE {}

LocalVar(q, e) == e.node = "VAR" /\ e.up = 0 /\ e.no \in DOMAIN q.rtable /\ e.att > 0

\* The entry and column behind an expression, through the aliases of joins.
RECURSIVE VarKey(_, _)
VarKey(q, e) ==
  IF ~LocalVar(q, e) THEN {}
  ELSE LET entry == q.rtable[e.no] IN
       IF entry.kind # "JOIN" THEN {<<e.no, e.att>>}
       ELSE IF e.att \in DOMAIN entry.alias THEN VarKey(q, entry.alias[e.att]) ELSE {}

RECURSIVE QualEqualities(_, _), JointreeEqualities(_, _)
QualEqualities(q, n) ==
  CASE n.node = "AND" -> UNION {QualEqualities(q, n.args[i]) : i \in DOMAIN n.args}
    [] n.node = "CMP" /\ n.hashable -> VarKey(q, n.args[1]) \X VarKey(q, n.args[2])
    [] OTHER -> {}

JointreeEqualities(q, n) ==
  CASE n.node = "FROM" -> UNION {JointreeEqualities(q, n.list[i]) : i \in DOMAIN n.list}
                            \cup QualEqualities(q, n.quals)
    [] n.node = "JOIN" -> JointreeEqualities(q, n.larg) \cup JointreeEqualities(q, n.rarg)
                            \cup QualEqualities(q, n.quals)
    [] OTHER -> {}

\* The columns that a chain of equalities leads to.
RECURSIVE Equivalents(_, _)
Equivalents(keys, equalities) ==
  LET next == keys \cup {p[2] : p \in {p \in equalities : p[1] \in keys}}
                   \cup {p[1] : p \in {p \in equalities : p[2] \in keys}}
  IN IF next = keys THEN keys ELSE Equivalents(next, equalities)

-----------------------------------------------------------------------------
(* A column is direct when it is a stored column passed on unchanged or,   *)
(* given a required lineage <<relation, attribute>>, when it is or is      *)
(* equated with that attribute of that relation.                           *)

\* The common table expression of this query that an entry reads.
ReadCte(q, entry) ==
  {c \in ToSet(q.ctes) : entry.levelsup = 0 /\ c.name = entry.name /\ ~c.recursive}

RECURSIVE DirectView(_, _, _, _), DirectQuery(_, _, _, _),
          DirectExpression(_, _, _, _), DirectVariable(_, _, _, _, _)
DirectView(rel, a, required, path) ==
  \/ required = <<rel, a>>
  \/ /\ Cardinality(path) < MaxViewDepth
     /\ <<rel, a>> \notin path
     /\ DirectQuery(ViewQuery(rel), a, required, path \cup {<<rel, a>>})

\* direct_query_attribute with direct_expression_matches: only a required
\* lineage may be reached through equalities.
DirectQuery(q, a, required, path) ==
  \E e \in Expression(q, a) :
    \/ DirectExpression(q, e, required, path)
    \/ /\ required # NoLineage
       /\ \E start \in VarKey(q, e) :
            LET equalities == JointreeEqualities(q, q.jointree) IN
            \E k \in Equivalents({start}, equalities) \ {start} :
              DirectVariable(q, k[1], k[2], required, path)

\* Fault: the operand of an operator passes for the column itself.
DirectOperand(q, e, required, path) ==
  LET v == IF e.node = "OP" THEN e.arg ELSE e IN
  LocalVar(q, v) /\ DirectVariable(q, v.no, v.att, required, path)

DirectExpression(q, e, required, path) ==
  LocalVar(q, e) /\ DirectVariable(q, e.no, e.att, required, path)

DirectVariable(q, n, a, required, path) ==
  LET entry == q.rtable[n] IN
  CASE entry.kind = "RELATION" ->
         IF IsView(entry.relid) THEN DirectView(entry.relid, a, required, path)
         ELSE required = NoLineage
    [] entry.kind = "SUBQUERY" -> DirectQuery(entry.query, a, required, path)
    [] entry.kind = "JOIN" ->
         a \in DOMAIN entry.alias /\ DirectExpression(q, entry.alias[a], required, path)
    [] entry.kind = "CTE" ->
         \E c \in ReadCte(q, entry) : DirectQuery(c.query, a, required, path)

RECURSIVE OperatorView(_, _, _), OperatorQuery(_, _, _), OperatorExpression(_, _, _)
OperatorView(rel, a, path) ==
  /\ Cardinality(path) < MaxViewDepth
  /\ <<rel, a>> \notin path
  /\ OperatorQuery(ViewQuery(rel), a, path \cup {<<rel, a>>})

OperatorQuery(q, a, path) ==
  \E e \in Expression(q, a) : OperatorExpression(q, e, path)

\* Fault: a column counts as computed when the query has any operator.
OperatorAnywhere(q, e, path) ==
  \/ \E a \in DOMAIN q.targets : q.targets[a].node = "OP"
  \/ \E k \in VarKey(q, e) :
       LET entry == q.rtable[k[1]] IN
       /\ entry.kind = "RELATION"
       /\ IsView(entry.relid)
       /\ OperatorView(entry.relid, k[2], path)

\* An operator on the way, but not one inside of a function's argument.
OperatorExpression(q, e, path) ==
  \/ e.node = "OP"
  \/ \E k \in VarKey(q, e) :
       LET entry == q.rtable[k[1]] IN
       CASE entry.kind = "RELATION" ->
              IsView(entry.relid) /\ OperatorView(entry.relid, k[2], path)
         [] entry.kind = "SUBQUERY" -> OperatorQuery(entry.query, k[2], path)
         [] entry.kind = "CTE" ->
              \E c \in ReadCte(q, entry) : OperatorQuery(c.query, k[2], path)
         [] OTHER -> FALSE

\* The three functions that SQL calls.
ViewKeyIsDirect(rel, a) ==
  a > 0 /\ (rel \in wrappers \/ DirectView(rel, a, NoLineage, {}))

\* Fault: how often the required relation occurs is not counted.
ViewKeyReaches(rel, a, required, b) ==
  a > 0 /\ b > 0 /\ DirectView(rel, a, <<required, b>>, {})

ViewKeyIsDirectFrom(rel, a, required, b) ==
  /\ a > 0 /\ b > 0
  /\ ViewOccurrences(rel, required, {}) = 1
  /\ DirectView(rel, a, <<required, b>>, {})

ViewKeyUsesOperator(rel, a) == a > 0 /\ OperatorView(rel, a, {})

-----------------------------------------------------------------------------
(* What SQL checks of the text of the trees below a view.                  *)

RECURSIVE Subqueries(_)
Subqueries(q) ==
  {q} \cup UNION {Subqueries(q.rtable[i].query) :
                    i \in {i \in DOMAIN q.rtable : q.rtable[i].kind = "SUBQUERY"}}
      \cup UNION {Subqueries(q.ctes[i].query) : i \in DOMAIN q.ctes}
      \cup UNION {Subqueries(q.sublinks[i]) : i \in DOMAIN q.sublinks}

\* pg_depend: every relation the tree names.
Depends(q) ==
  UNION {{s.rtable[i].relid : i \in {i \in DOMAIN s.rtable : s.rtable[i].kind = "RELATION"}}
           : s \in Subqueries(q)}

\* The views below a view and the view itself, not looking into those of cut.
RECURSIVE Closure(_, _)
Closure(rels, cut) ==
  LET next == rels \cup UNION {{d \in Depends(ViewQuery(rel)) : IsView(d)} : rel \in rels \ cut}
  IN IF next = rels THEN rels ELSE Closure(next, cut)

RECURSIVE PositiveQual(_), InnerJoins(_)
PositiveQual(n) ==
  CASE n.node = "NOT" -> FALSE
    [] n.node \in {"AND", "OR"} -> \A i \in DOMAIN n.args : PositiveQual(n.args[i])
    [] OTHER -> TRUE

InnerJoins(n) ==
  CASE n.node = "FROM" -> /\ \A i \in DOMAIN n.list : InnerJoins(n.list[i])
                          /\ PositiveQual(n.quals)
    [] n.node = "JOIN" -> ~n.outer /\ InnerJoins(n.larg) /\ InnerJoins(n.rarg)
                            /\ PositiveQual(n.quals)
    [] OTHER -> TRUE

Recursive(q) == \E i \in DOMAIN q.ctes : q.ctes[i].recursive

\* PROGRAM_NOT_POSITIVE is not reported.
Positive(rel) ==
  \A w \in Closure({rel}, Derived) \ Derived : \A q \in Subqueries(ViewQuery(w)) :
    ~q.setop /\ ~Recursive(q) /\ InnerJoins(q.jointree)

Dependencies(rel) == Closure({rel}, {}) \cap Derived

\* validate_derivation_program, of one rule whose inputs are declared as
\* discovered and keyed by the key of their relation.
ValidProgram(rel, a) ==
  /\ Positive(rel)
  /\ ~ViewKeyUsesOperator(rel, a)
  /\ IF Dependencies(rel) = {} THEN ViewKeyIsDirect(rel, a)
     ELSE \A d \in Dependencies(rel) : ViewKeyIsDirectFrom(rel, a, d, KeyColumn)

\* validate_deadline_rule
ValidDeadline(rel, a) ==
  /\ ViewKeyIsDirect(rel, a)
  /\ \A w \in Closure({rel}, {}) : \A q \in Subqueries(ViewQuery(w)) :
       ~Recursive(q) /\ q.sublinks = <<>>
  /\ rel \notin Derived

\* Fault: the digest covers the source view and not the views below it.
SourceText(rel) == [w \in {rel} |-> definition[w]]

\* source_closure_digest: the definitions of the whole closure.
SourceDigest(rel) ==
  [w \in Closure({rel}, Derived) |-> IF w \in DOMAIN definition THEN definition[w] ELSE w]

-----------------------------------------------------------------------------
\* PostgreSQL refuses to expand a view that contains itself.
Expandable(rel) ==
  \A w \in Closure({rel}, {}) : w \notin Closure({d \in Depends(ViewQuery(w)) : IsView(d)}, {})

Rows(rel) == RelationRows([w \in Closure({rel}, {}) |-> ViewQuery(w)], rel)

Init ==
  /\ definition = <<>>
  /\ wrappers = {}
  /\ program = NoProgram
  /\ supports = {}
  /\ deadlines = {}
  /\ tx = NoTransaction

\* A deployment is overtaken when a view its source reads is replaced between its
\* validation and its digest.  (A record of what happened, for the properties.)
Overtaken(v) ==
  IF tx.step # "validated" THEN tx
  ELSE [tx EXCEPT !.overtaken = @ \/ v \in Closure({tx.source}, Derived)]

\* LOCK TABLE on a view locks every view below it as well.
Locked == IF tx.step = "checked" THEN Closure({tx.source}, {}) ELSE {}

\* An author creates a view, or replaces the query below everything that
\* already reads it, and waits for who has locked it.
CreateOrReplaceView(v, text) ==
  /\ Depends(Trees[text]) \subseteq Tables \cup Derived \cup DOMAIN definition
  /\ v \notin Locked
  /\ definition' = (v :> text) @@ definition
  /\ tx' = Overtaken(v)
  /\ UNCHANGED <<wrappers, program, supports, deadlines>>

\* Bound: a behaviour declares one rule or one program.  What authors do to the
\* views before and after it is not bounded.
Undeclared == program = NoProgram /\ deadlines = {} /\ tx = NoTransaction

\* What the deadline column of the rows a rule is created over holds.
DeadlineOrigins(rel, a) == {r.row[a].origin : r \in Rows(rel)}

\* pgreact_api.author_deadline_rule with one bigint key.
AuthorDeadlineRule(v, a) ==
  /\ Undeclared
  /\ v \in DOMAIN definition
  /\ ValidDeadline(v, a)
  /\ Expandable(v)
  /\ deadlines' = DeadlineOrigins(v, a)
  /\ UNCHANGED <<definition, wrappers, program, supports, tx>>

\* The overload with typed keys: the rule is created over a key wrapper.
AuthorKeyedDeadlineRule(v, a) ==
  /\ Undeclared
  /\ v \in DOMAIN definition
  /\ Expandable(v)
  /\ wrappers' = wrappers \cup {KeyWrapper(v)}
  /\ deadlines' = DeadlineOrigins(v, a)
  /\ UNCHANGED <<definition, program, supports, tx>>
  /\ ValidDeadline(KeyWrapper(v), a)'

\* deploy_derivation_program, of one rule, statement by statement, under the
\* advisory lock that refreshes take too.  Its first statements only look at the
\* catalogue, and keep no lock on the views: the definition is validated,
ValidateProgram(v, a) ==
  /\ Undeclared
  /\ v \in DOMAIN definition
  /\ ValidProgram(v, a)
  /\ tx' = [step |-> "validated", source |-> v, key |-> a, overtaken |-> FALSE]
  /\ UNCHANGED <<definition, wrappers, program, supports, deadlines>>

\* the digest of its source is taken,
DigestSource ==
  /\ tx.step = "validated"
  /\ tx' = [step |-> "digested", source |-> tx.source, key |-> tx.key,
            digest |-> SourceDigest(tx.source), overtaken |-> tx.overtaken]
  /\ UNCHANGED <<definition, wrappers, program, supports, deadlines>>

\* and the registered rule reads the source, which locks it to the end, before
\* rebuild_derivation_program looks for drift and the program commits.
CommitProgram ==
  /\ tx.step = "digested"
  /\ Expandable(tx.source)
  /\ supports' = Rows(tx.source)
  /\ tx.digest = SourceDigest(tx.source)
  /\ program' = [source |-> tx.source, key |-> tx.key, digest |-> tx.digest,
                 overtaken |-> tx.overtaken]
  /\ tx' = NoTransaction
  /\ UNCHANGED <<definition, wrappers, deadlines>>

\* A refresh locks the source, raises on drift of it,
CheckDrift ==
  /\ program # NoProgram /\ tx = NoTransaction
  /\ program.digest = SourceDigest(program.source)
  /\ tx' = [step |-> "checked", source |-> program.source]
  /\ UNCHANGED <<definition, wrappers, program, supports, deadlines>>

\* and has refresh_rule read it in a later statement.
RefreshSupports ==
  /\ tx.step = "checked"
  /\ Expandable(tx.source)
  /\ supports' = Rows(tx.source)
  /\ tx' = NoTransaction
  /\ UNCHANGED <<definition, wrappers, program, deadlines>>

\* Either transaction may raise, on drift or otherwise, or lose its session.
Abort ==
  /\ tx # NoTransaction
  /\ tx' = NoTransaction
  /\ UNCHANGED <<definition, wrappers, program, supports, deadlines>>

Next ==
  \/ \E v \in Views : \E text \in Texts[v] : CreateOrReplaceView(v, text)
  \/ \E v \in Conditions, a \in Columns :
       \/ AuthorDeadlineRule(v, a)
       \/ AuthorKeyedDeadlineRule(v, a)
       \/ ValidateProgram(v, a)
  \/ DigestSource \/ CommitProgram
  \/ CheckDrift \/ RefreshSupports
  \/ Abort

Spec == Init /\ [][Next]_vars
=============================================================================
