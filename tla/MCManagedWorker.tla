-------------------------- MODULE MCManagedWorker --------------------------
EXTENDS ManagedWorker

CONSTANTS m, d, hi, lo, h1, h2, l1, l2, k

MCVersionOf == (h1 :> hi) @@ (h2 :> hi) @@ (l1 :> lo) @@ (l2 :> lo)
MCConflictKey == (h1 :> k) @@ (h2 :> k) @@ (l1 :> NoConflict) @@ (l2 :> NoConflict)
MCSalience == (hi :> 1) @@ (lo :> 0)
MCGroupOf == (hi :> "default") @@ (lo :> "narrow")
MCGroupLimit == ("default" :> 4) @@ ("narrow" :> 1)

\* The setting as written: " app, app," names one database, "other" another.
MCTrim == ("app" :> "app") @@ (" app" :> "app") @@ ("" :> "") @@ ("other" :> "other")
MCSettings == {<<"app", " app", "">>, <<"other">>}

Release(name) == [prefix |-> name, rest |-> <<>>]
Candidate(digits) == [prefix |-> "1.0.0-rc.", rest |-> digits]
MCListed == {"0.46.1", "1.0.0"}

World(version, grantees, ready) ==
  [version |-> version, grantees |-> grantees, ready |-> ready]
MCWorlds ==
  {World(Candidate(<<2>>), 1, TRUE), World(Candidate(<<0, 2>>), 1, TRUE),
   World(Release("0.46.1"), 2, TRUE), World(Release("0.46.1"), 1, FALSE)}
MCConfigurations ==
  {[batch |-> 1, maxPending |-> 3], [batch |-> 2, maxPending |-> 2],
   [batch |-> 3, maxPending |-> 3]}

\* Nothing to repair: the load alone.
MCHealthy == {World(Release("0.46.1"), 1, TRUE)}
MCSlow == {[batch |-> 1, maxPending |-> 4]}
MCServing == {<<"app">>}

\* -1 is a character that is no digit.
MCTexts == UNION {[1 .. length -> {-1, 0, 1, 2, 5, 6}] : length \in 0 .. 3}
=============================================================================
