------------------------- MODULE FinalizeMatchDelta -------------------------
(***************************************************************************)
(* finalize_match_delta as the loop it is.  RuleRuntime's Refresh says     *)
(* what one refresh does to all keys at once; the trigger takes the        *)
(* buffered keys one after the other, in the order PostgreSQL returns      *)
(* them, and for each writes the activation row, withdraws, and calls      *)
(* emit_event, which compares the backlog as it is at that moment and      *)
(* raises at the limit.                                                    *)
(***************************************************************************)
EXTENDS RuleRuntime

\* What the transaction has written so far, and whether it has raised.
Begun == [act |-> act, events |-> events, agenda |-> agenda, raised |-> FALSE]

\* Fault: the limit may be passed by one.
EmitEventPastLimit(tx, e, report) ==
  IF e \in DOMAIN tx.events THEN tx
  ELSE LET bound == {x \in {e} : x.kind \in Bound}
       IN [tx EXCEPT !.events = Insert(@, [x \in {e} |-> report]),
                     !.agenda = Insert(@, [x \in bound |-> NewEpisode]),
                     !.raised = /\ bound # {}
                                /\ Cardinality(Open(tx.agenda)) > MaxPending]

\* emit_event: an identity on record is left alone, an event without a
\* consequence gets no episode, and the limit is looked at before one is added.
EmitEvent(tx, e, report) ==
  IF e \in DOMAIN tx.events THEN tx
  ELSE LET bound == {x \in {e} : x.kind \in Bound}
       IN [tx EXCEPT !.events = Insert(@, [x \in {e} |-> report]),
                     !.agenda = Insert(@, [x \in bound |-> NewEpisode]),
                     !.raised = /\ bound # {}
                                /\ Cardinality(Open(tx.agenda)) >= MaxPending]

\* The unleased ACTIVATE episodes of a key's generation are withdrawn.
WithdrawKey(ag, k, gen) ==
  [e \in DOMAIN ag |->
     IF /\ e.key = k /\ e.gen = gen /\ e.kind = "ACTIVATE"
        /\ ag[e].state \in Waiting
     THEN Released(ag[e], "WITHDRAWN") ELSE ag[e]]

\* One turn of the loop: the cases of a key's prior and final state.
FinalizeKey(tx, k, row) ==
  LET st == tx.act[k]
      nx == Finalized(st, row)
      e == EventOf(k, st, nx)
      written == [tx EXCEPT !.act[k] = nx]
      withdrawn == [written EXCEPT !.agenda = WithdrawKey(@, k, st.gen)]
  IN CASE tx.raised -> tx
       [] ~tx.raised /\ e.kind = "NOOP" -> written
       [] ~tx.raised /\ e.kind = "ACTIVATE" ->
            EmitEvent(written, e, [old |-> Absent, new |-> row])
       [] ~tx.raised /\ e.kind = "CHANGE" ->
            EmitEvent(written, e, [old |-> st.bindings, new |-> row])
       [] OTHER ->
            EmitEvent(withdrawn, e, [old |-> st.last, new |-> Absent])

\* capture_match_delta buffers the keys whose rows a refresh changes; the
\* buffer has no order of its own.
Touched(rows) == {k \in Keys : rows[k] # match[k]}
Orders(S) == Bijection(1 .. Cardinality(S), S)

\* Turns(order, rows)[n] is what is written after n keys.
Turns(order, rows) ==
  LET after[n \in 0 .. Cardinality(Touched(rows))] ==
        IF n = 0 THEN Begun
                 ELSE FinalizeKey(after[n - 1], order[n], rows[order[n]])
  IN  after

Finish(order, rows) == Turns(order, rows)[Cardinality(Touched(rows))]

-----------------------------------------------------------------------------
(***************************************************************************)
(* The loop and Refresh.                                                   *)
(***************************************************************************)
\* Each key whose row changes is finalized, the others are left alone.
FinalState(rows) ==
  [k \in Keys |-> IF rows[k] = match[k] THEN act[k] ELSE Finalized(act[k], rows[k])]

\* What Refresh writes.
Refreshed(nx) ==
  [act |-> nx, events |-> Insert(events, Emitted(nx)),
   agenda |-> Insert(Withdrawn(nx), [e \in NewJobs(Emitted(nx)) |-> NewEpisode]),
   raised |-> FALSE]

\* A loop that gets through has written what Refresh says and was allowed to,
\* whatever order it took: no turn of it depended on the turns before it, and the
\* comparisons it made one by one kept the backlog, as it finally is, to the limit.
LoopsAreRefreshes ==
  \A rows \in [Keys -> Row] : \A order \in Orders(Touched(rows)) :
    ~Finish(order, rows).raised =>
      /\ Finish(order, rows) = Refreshed(FinalState(rows))
      /\ ~Overloaded(Withdrawn(FinalState(rows)), Emitted(FinalState(rows)))

\* And Refresh allows nothing that the loop does not do in some order, one that
\* withdraws before it inserts included.
RefreshesAreLoops ==
  \A rows \in [Keys -> Row] :
    ~Overloaded(Withdrawn(FinalState(rows)), Emitted(FinalState(rows))) =>
      \E order \in Orders(Touched(rows)) : ~Finish(order, rows).raised

\* Refresh is the loop: PostgreSQL's order of the keys decides whether the
\* back-pressure of the limit strikes, and nothing else.
RefreshIsLoop == LoopsAreRefreshes /\ RefreshesAreLoops
=============================================================================
