---------------------------- MODULE MCKeyLineage ----------------------------
(***************************************************************************)
(* KeyLineage over two authored views, one base table and one derived      *)
(* relation.  The bodies are the shapes of tests/m8-boundary.sql and their *)
(* combinations with a second view.  Rows are <<key, payload>>.            *)
(***************************************************************************)
EXTENDS KeyLineage

MCTables == {"seed", "derived_facts"}
MCDerived == {"fact"}
MCContent ==
  [rel \in {"seed", "fact"} |->
     IF rel = "seed" THEN { <<1, 1>>, <<2, 2>>, <<3, 1>> } ELSE { <<1, 2>>, <<2, 1>> }]
  @@ [derived_facts |-> {}]
MCViews == {"v", "w"}
MCColumns == 1..2

True == [node |-> "TRUE"]
Equal(e1, e2) == [node |-> "CMP", hashable |-> TRUE, args |-> <<e1, e2>>]
AtMost(e1, e2) == [node |-> "CMP", hashable |-> FALSE, args |-> <<e1, e2>>]
Plus(e) == [node |-> "OP", arg |-> e]
Abs(e) == [node |-> "FUNC", arg |-> e]
Outer(n, a) == [node |-> "VAR", no |-> n, att |-> a, up |-> 1]
Ref(n) == [node |-> "REF", no |-> n]
FromList(n, quals) == [node |-> "FROM", list |-> [i \in 1..n |-> Ref(i)], quals |-> quals]
Join(outer, quals) ==
  [node |-> "FROM", quals |-> True, list |->
     << [node |-> "JOIN", outer |-> outer, larg |-> Ref(1), rarg |-> Ref(2), quals |-> quals] >>]
Sub(q) == [kind |-> "SUBQUERY", query |-> q, inFromCl |-> TRUE]
Leaf(q) == [kind |-> "SUBQUERY", query |-> q, inFromCl |-> FALSE]
Cte(name, level) == [kind |-> "CTE", name |-> name, levelsup |-> level, inFromCl |-> TRUE]
JoinEntry(alias) == [kind |-> "JOIN", alias |-> alias, inFromCl |-> TRUE]
Plain(rel) == Select(rel, <<Var(1, 1), Var(1, 2)>>)
First == <<Var(1, 1), Var(1, 2)>>
Query(rtable, targets, jointree) ==
  [rtable |-> rtable, targets |-> targets, jointree |-> jointree,
   ctes |-> <<>>, sublinks |-> <<>>, setop |-> FALSE]
With(q, rel) == [q EXCEPT !.ctes = <<[name |-> "c", recursive |-> FALSE, query |-> Plain(rel)]>>]
Where(q, sub) == [q EXCEPT !.sublinks = <<sub>>]

\* Definitions over one relation, by name.
Over(rel) ==
  [plain    |-> Plain(rel),
   swapped  |-> Select(rel, <<Var(1, 2), Var(1, 1)>>),
   invented |-> Select(rel, <<Plus(Var(1, 1)), Var(1, 2)>>),   \* negative_invented_key
   abs      |-> Select(rel, <<Abs(Var(1, 1)), Var(1, 2)>>),    \* negative_abs_key
   subquery |-> Query(<<Sub(Plain(rel))>>, First, From(1)),
   cte      |-> With(Query(<<Cte("c", 0)>>, First, From(1)), rel),
   twice    |-> With(Query(<<Cte("c", 0), Cte("c", 0)>>, First, FromList(2, True)), rel),
   across   |-> With(Query(<<Cte("c", 0), Sub(Query(<<Cte("c", 1)>>, First, From(1)))>>,
                           First, FromList(2, True)), rel),
   union    |-> [Query(<<Leaf(Plain(rel)), Leaf(Select(rel, <<Var(1, 1), Plus(Var(1, 2))>>))>>,
                       First, [node |-> "FROM", list |-> <<>>, quals |-> True])
                   EXCEPT !.setop = TRUE]]

\* Definitions over two relations.
Both(r, s) ==
  LET pair == <<Relation(r), Relation(s)>> IN
  [equal  |-> Query(pair, First, FromList(2, Equal(Var(1, 1), Var(2, 1)))),
   cross  |-> Query(pair, First, FromList(2, True)),           \* negative_cross_input_key
   atmost |-> Query(pair, First, FromList(2, AtMost(Var(1, 1), Var(2, 1)))),
   either |-> Query(pair, First, FromList(2,                   \* negative_or_input_key
                [node |-> "OR",
                 args |-> <<Equal(Var(1, 1), Var(2, 1)), Equal(Var(1, 1), Var(2, 2))>>])),
   differ |-> Query(pair, First, FromList(2,
                [node |-> "NOT", args |-> <<Equal(Var(1, 1), Var(2, 1))>>])),
   left   |-> Query(pair, First, Join(TRUE, Equal(Var(1, 1), Var(2, 1)))),
   using  |-> Query(Append(pair, JoinEntry(<<Var(1, 1), Var(1, 2), Var(2, 2)>>)),
                    <<Var(3, 1), Var(3, 3)>>, Join(FALSE, Equal(Var(1, 1), Var(2, 1)))),
   chain  |-> Query(pair, First, FromList(2,
                [node |-> "AND",
                 args |-> <<Equal(Var(1, 1), Var(1, 2)), Equal(Var(2, 1), Var(1, 2))>>])),
   exists |-> Where(Plain(r), Query(<<Relation(s)>>, First,    \* positive_exists
                                    FromList(1, Equal(Var(1, 1), Outer(1, 1)))))]

\* A definition is named by its shape and the relations it reads.
MCTexts ==
  [v \in MCViews |->
     IF v = "v"
     THEN (DOMAIN Over("w")) \X {<<"fact">>, <<"w">>}
            \cup (DOMAIN Both("w", "fact")) \X {<<"seed", "fact">>, <<"w", "fact">>}
     ELSE {"plain", "swapped", "invented", "cte"} \X {<<"seed">>, <<"fact">>}
            \cup {"cross", "exists"} \X {<<"fact", "fact">>}
            \cup {<<"plain", <<"v">>>>}]

MCTrees ==
  [text \in UNION {MCTexts[v] : v \in MCViews} |->
     LET rels == text[2] IN
     IF Len(rels) = 1 THEN Over(rels[1])[text[1]] ELSE Both(rels[1], rels[2])[text[1]]]

\* Bound: what authors replace views by once a program or a rule is declared.
Later(v) ==
  IF v = "v" THEN {"plain", "swapped", "across"} \X {<<"fact">>} \cup {<<"plain", <<"w">>>>}
  ELSE {"plain", "swapped", "invented"} \X {<<"fact">>} \cup {<<"cross", <<"fact", "fact">>>>}

BoundedNext ==
  /\ Next
  /\ ~Undeclared /\ definition' # definition =>
       \E v \in Views : \E text \in Later(v) : definition' = (v :> text) @@ definition

BoundedSpec == Init /\ [][BoundedNext]_vars

-----------------------------------------------------------------------------
\* No query of the view, or of the views below it, reads a common table
\* expression of a query around it.
ReadsOwnCtes(rel) ==
  \A w \in Closure({rel}, Derived) \ Derived : \A q \in Subqueries(ViewQuery(w)) :
    \A i \in DOMAIN q.rtable : q.rtable[i].kind = "CTE" => q.rtable[i].levelsup = 0

\* A view whose key is accepted as the key of a derived relation takes every
\* row from exactly one row of that relation, and its key is that row's key:
\* src/rewrite.rs view_key_is_direct_from, as validate_derivation_program
\* uses it on positive views.  The premise on common table expressions is
\* needed: an occurrence in one of an outer query is not counted.
LineageExact ==
  \A v \in Views \cap DOMAIN definition, a \in Columns, d \in Derived :
    Positive(v) /\ ReadsOwnCtes(v) /\ ViewKeyIsDirectFrom(v, a, d, KeyColumn) =>
      /\ Expandable(v)
      /\ \A r \in Rows(v) :
           LET used == SelectSeq(r.uses, LAMBDA u : u.relation = d) IN
           Len(used) = 1 /\ used[1].row[KeyColumn] = r.row[a].val

\* A key that is accepted with no required lineage is a stored column of one
\* relation in every row (view_key_is_direct on positive views).
DirectIsStored ==
  \A v \in Views \cap DOMAIN definition, a \in Columns :
    Positive(v) /\ Expandable(v) /\ DirectView(v, a, NoLineage, {}) =>
      \A r \in Rows(v) : r.row[a].origin = "stored"

\* A column said to use an operator is computed by one in every row, and is
\* never also accepted as a direct one (view_key_uses_operator).
OperatorIsComputed ==
  \A v \in Views \cap DOMAIN definition, a \in Columns :
    ViewKeyUsesOperator(v, a) =>
      /\ ~ViewKeyIsDirect(v, a)
      /\ Expandable(v) /\ Positive(v) => \A r \in Rows(v) : r.row[a].origin = "operator"

\* Whatever authors replace, however often, while a program is deployed, while it
\* is refreshed and in between, every support rests on at most one row of a
\* derived relation and carries its key, or carries a stored key: provided that
\* no view was replaced between the validation and the digest, and that the
\* source reads no outer common table expression (deploy_derivation_program,
\* rebuild_derivation_program).
SupportsKeepKeys ==
  [][supports' # supports /\ ~program'.overtaken /\ ReadsOwnCtes(program'.source) =>
       \A r \in supports' :
         IF r.uses = <<>> THEN r.row[program'.key].origin = "stored"
         ELSE Len(r.uses) = 1 /\ r.uses[1].row[KeyColumn] = r.row[program'.key].val]_vars

\* validate_deadline_rule: "deadline must be one unambiguous direct column,
\* not a computed time expression".
DeadlineIsStored == deadlines \subseteq {"stored"}
=============================================================================
