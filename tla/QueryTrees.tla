----------------------------- MODULE QueryTrees -----------------------------
(***************************************************************************)
(* The query trees that the view analysis of pg-react reads, and what      *)
(* PostgreSQL computes from them: the rows of a view, and for every row    *)
(* where each of its values comes from and which rows of the derived       *)
(* relations it rests on.  Nothing here is code of the repository: it is   *)
(* the reference its analysis (KeyLineage) is compared with.               *)
(*                                                                         *)
(* A query is a record                                                     *)
(*   rtable    sequence of range table entries, each with a kind:          *)
(*               RELATION (relid), SUBQUERY (query), CTE (name, levelsup)  *)
(*               or JOIN (alias: the expressions its columns stand for),   *)
(*               and inFromCl                                              *)
(*   targets   sequence of expressions: the columns of the result          *)
(*   jointree  a node FROM (list, quals), JOIN (outer, larg, rarg, quals)  *)
(*               or REF to an entry                                        *)
(*   ctes      sequence of [name, recursive, query]                        *)
(*   sublinks  sequence of queries: the conjuncts EXISTS (...) of WHERE;   *)
(*               e = ANY (...) is the EXISTS of the rows that compare      *)
(*               equal, for the analysis reads no comparison in either     *)
(*   setop     the query is the UNION ALL of the SUBQUERY entries          *)
(* An expression is a node VAR (no, att, up), OP (arg) or FUNC (arg); a    *)
(* qualification is a node TRUE, AND, OR, NOT (args) or CMP (hashable:     *)
(* whether it is an equality, args: two expressions).                      *)
(***************************************************************************)
EXTENDS Integers, Sequences, SequencesExt

CONSTANTS
  Tables,          \* the base tables
  Derived,         \* the public views of derived relations
  Content          \* the rows of each of them: a set of tuples of integers

\* What a value of a row is: copied from a stored row, or computed.
Stored(v) == [val |-> v, origin |-> "stored"]

\* A row of a relation, with the derived rows it uses.
BaseRow(rel, row) ==
  [row |-> [a \in DOMAIN row |-> Stored(row[a])],
   uses |-> IF rel \in Derived THEN << [relation |-> rel, row |-> row] >> ELSE <<>>]

\* The value of an expression.  scopes holds, innermost first, each enclosing
\* query with the row it has chosen for every entry of its range table.
RECURSIVE Value(_, _)
Value(e, scopes) ==
  CASE e.node = "OP"   -> [val |-> Value(e.arg, scopes).val + 1, origin |-> "operator"]
    [] e.node = "FUNC" -> [val |-> Value(e.arg, scopes).val + 9, origin |-> "function"]
    [] e.node = "VAR"  ->
         LET scope == scopes[e.up + 1]
             entry == scope.query.rtable[e.no]
         IN IF entry.kind = "JOIN"
            THEN Value(entry.alias[e.att], SubSeq(scopes, e.up + 1, Len(scopes)))
            ELSE scope.chosen[e.no].row[e.att]

RECURSIVE Satisfies(_, _)
Satisfies(n, scopes) ==
  CASE n.node = "TRUE" -> TRUE
    [] n.node = "AND"  -> \A i \in DOMAIN n.args : Satisfies(n.args[i], scopes)
    [] n.node = "OR"   -> \E i \in DOMAIN n.args : Satisfies(n.args[i], scopes)
    [] n.node = "NOT"  -> ~Satisfies(n.args[1], scopes)
    [] n.node = "CMP"  ->
         LET left == Value(n.args[1], scopes).val
             right == Value(n.args[2], scopes).val
         IN IF n.hashable THEN left = right ELSE left <= right

\* Every qualification of the join tree.  Of an outer join only the matched
\* rows are computed: the others add null values and no stored ones.
RECURSIVE Joined(_, _)
Joined(n, scopes) ==
  CASE n.node = "FROM" -> /\ \A i \in DOMAIN n.list : Joined(n.list[i], scopes)
                          /\ Satisfies(n.quals, scopes)
    [] n.node = "JOIN" -> /\ Joined(n.larg, scopes)
                          /\ Joined(n.rarg, scopes)
                          /\ Satisfies(n.quals, scopes)
    [] n.node = "REF"  -> TRUE

\* One element of each of a sequence of sets, in every way.
Picks(sets) ==
  {f \in [DOMAIN sets -> UNION {sets[i] : i \in DOMAIN sets}] :
     \A i \in DOMAIN sets : f[i] \in sets[i]}

\* The rows of a relation, an entry and a query, def giving the query of every
\* view.  An EXISTS contributes the derived rows of one witness.
RECURSIVE RelationRows(_, _), EntryRows(_, _, _), QueryRows(_, _, _)
RelationRows(def, rel) ==
  IF rel \in Tables \cup Derived
  THEN {BaseRow(rel, row) : row \in Content[rel]}
  ELSE QueryRows(def, def[rel], <<>>)

EntryRows(def, entry, scopes) ==
  CASE entry.kind = "RELATION" -> RelationRows(def, entry.relid)
    [] entry.kind = "SUBQUERY" -> QueryRows(def, entry.query, scopes)
    [] entry.kind = "CTE" ->
         LET outer == SubSeq(scopes, entry.levelsup + 1, Len(scopes))
             cte == SelectInSeq(outer[1].query.ctes, LAMBDA c : c.name = entry.name)
         IN QueryRows(def, outer[1].query.ctes[cte].query, outer)
    [] entry.kind = "JOIN" -> {[row |-> <<>>, uses |-> <<>>]}

QueryRows(def, q, outer) ==
  LET scopes(chosen) == << [query |-> q, chosen |-> chosen] >> \o outer
      sources == [i \in DOMAIN q.rtable |-> EntryRows(def, q.rtable[i], scopes(<<>>))]
      witnesses(chosen) ==
        Picks([i \in DOMAIN q.sublinks |-> QueryRows(def, q.sublinks[i], scopes(chosen))])
  IN IF q.setop
     THEN UNION {sources[i] : i \in DOMAIN sources}
     ELSE UNION {{[row |-> [a \in DOMAIN q.targets |-> Value(q.targets[a], scopes(chosen))],
                   uses |-> FlattenSeq([i \in DOMAIN chosen |-> chosen[i].uses])
                              \o FlattenSeq([i \in DOMAIN w |-> w[i].uses])]
                    : w \in witnesses(chosen)}
                   : chosen \in {c \in Picks(sources) : Joined(q.jointree, scopes(c))}}
=============================================================================
