---------------------------- MODULE MCLiveSources ---------------------------
(* Instances of LiveSources.                                               *)
EXTENDS LiveSources, TLC

CONSTANTS l1, l2, server, other, coop, denner, migros, found, hourly,
          c1, c2, milk, bread

\* Hours and days, in ticks: a TTL of an hour, and a discovery that may be
\* served for long after it expired.
TierTable == [ttl |-> [soft |-> 1, hard |-> 1, stale |-> 0],
              discovery |-> [soft |-> 1, hard |-> 2, stale |-> 3],
              empty |-> [soft |-> 1, hard |-> 1, stale |-> 0]]

KindTable ==
  [k \in Keys |-> IF k = coop THEN CoopSearch
                  ELSE IF k = denner THEN DennerSearch
                  ELSE IF k = migros THEN MigrosSearch ELSE Discovery]

\* One site is asked with search, two with searchAggregated.
Sites == [q \in Queries |-> IF q = milk THEN 1 ELSE 2]

\* The chain of the program with Google configured, less the second of its two
\* serial providers: one of each kind is left.
Pair == SelectSeq(AutoComposite({"google"}), LAMBDA p : p # "ddg-lite")

\* A budget of which one request may be made before it is low.
Budgets == [p \in Budgeted |-> 2]

Symmetry ==
  Permutations(Ops) \cup Permutations(Procs) \cup Permutations(Calls)

=============================================================================
