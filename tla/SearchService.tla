--------------------------- MODULE SearchService ---------------------------
(***************************************************************************)
(* SearchService.searchProducts (services/searchService.ts): the result    *)
(* cache in front of the fan-out.  A miss runs a search for its caller; a  *)
(* stale hit is answered from the cache and runs one in the background.    *)
(*                                                                         *)
(* A fresh hit, and a stale one whose refresh is under way, change nothing *)
(* here.  The results stored are named after the run that produced them.   *)
(***************************************************************************)
EXTENDS SearchFanout

CONSTANTS
  FreshFor,     \* freshMs
  StaleFor,     \* staleMs
  MaxEntries    \* maxEntries

ASSUME ServiceAssumption ==
  /\ FreshFor \in Nat
  /\ StaleFor \in Nat
  /\ FreshFor <= StaleFor
  /\ MaxEntries \in Nat \ {0}

VARIABLES
  entries,      \* the cache's Map
  refreshing,   \* its inFlightRefreshes
  background    \* the runs started by revalidate

Cache == INSTANCE SearchResultCache

serviceVars == <<vars, entries, refreshing, background>>

-----------------------------------------------------------------------------

ServiceInit ==
  /\ Init
  /\ entries = << >>
  /\ refreshing = {}
  /\ background = {}

Miss(s, q) ==
  /\ Cache!Status(q) \in {"miss", "expired"}
  /\ Cache!Get(q)
  /\ Start(s, q)
  /\ UNCHANGED background

StaleHit(s, q) ==
  /\ Cache!Status(q) = "stale"
  /\ Cache!Revalidate(q)
  /\ Start(s, q)
  /\ background' = background \cup {s}
  /\ UNCHANGED entries

Query(s) == search[s].query

\* Mutant: releases the key only along with a stored result.
ReleasedIfStored(s) ==
  IF s \in background /\ ChainsComplete(s)
    THEN Cache!Release(Query(s)) ELSE UNCHANGED refreshing

\* The finally of a refresh.
Released(s) ==
  IF s \in background THEN Cache!Release(Query(s)) ELSE UNCHANGED refreshing

\* The result is stored if it is complete, and returned if anybody waits.
Return(s) ==
  /\ Finish(s)
  /\ Cache!Set(Query(s), s, ChainsComplete(s))
  /\ Released(s)
  /\ UNCHANGED background

\* Mutant: no finally, so that a rejection releases nothing.
JoinOrLeak(s) == Joins(s) /\ UNCHANGED <<refreshing, entries, background>>

\* A refresh that rejects says so to nobody.
JoinOrThrow(s) ==
  /\ Joins(s)
  /\ IF search'[s].phase = "rejected" THEN Released(s) ELSE UNCHANGED refreshing
  /\ UNCHANGED <<entries, background>>

Untouched == UNCHANGED <<entries, refreshing, background>>

ServiceNext ==
  \/ Pass /\ Untouched
  \/ \E q \in Queries : Announce(q) /\ Untouched
  \/ \E s \in Searches :
       \/ now <= LastArrival /\ \E q \in Queries : Miss(s, q) \/ StaleHit(s, q)
       \/ s \notin background /\ Leave(s) /\ Untouched
       \/ \E c \in Chains : CallStep(s, c) /\ Untouched
       \/ JoinOrThrow(s)
       \/ WebEnds(s) /\ Untouched
       \/ Return(s)

ServiceFairness ==
  /\ WF_serviceVars(Pass /\ Untouched)
  /\ \A s \in Searches :
       /\ \A c \in Chains :
            /\ WF_serviceVars(RaceEnds(s, c) /\ Untouched)
            /\ WF_serviceVars(NoticesAbort(s, c) /\ Untouched)
       /\ WF_serviceVars(JoinOrThrow(s))
       /\ WF_serviceVars(WebEnds(s) /\ Untouched)

ServiceSpec == ServiceInit /\ [][ServiceNext]_serviceVars /\ ServiceFairness

-----------------------------------------------------------------------------

\* "Partial results are never stored", as far as an adapter that reports its
\* failures can be told from one that answers: behind every cached result is a
\* run of that very query for which no chain was skipped, failed, overran or
\* threw, whatever else was going on at the time.
StoredIsWhole ==
  \A i \in 1 .. Len(entries) :
    LET s == entries[i].value
    IN  /\ Query(s) = entries[i].key
        /\ \A c \in Requested(s) \ Masking : call[s][c] = "answered"

\* "one background search, not N": a key is marked as being refreshed exactly
\* while one background run for it is active, and there is only one, however
\* that run ends and whatever foreground runs of the query overlap it.
Refreshes(q) == {s \in background : search[s].phase \in Active /\ Query(s) = q}

OneRefreshPerQuery ==
  \A q \in Queries : Cardinality(Refreshes(q)) = (IF q \in refreshing THEN 1 ELSE 0)

\* A refresh that fails, throws or overruns does not leave its key marked, which
\* would keep every later stale hit from refreshing it.  One that hydrates may
\* do so for good.
Hydrates(q) == \E s \in Refreshes(q) : search[s].phase = "hydrating"

RefreshesEnd ==
  \A q \in Queries : q \in refreshing ~> q \notin refreshing \/ Hydrates(q)

=============================================================================
