----------------------------- MODULE SearchPage -----------------------------
(***************************************************************************)
(* The page "Suche" (pwa/src/components/SearchView.tsx): one search at a   *)
(* time is followed on a stream of events (streamSearchProducts of         *)
(* pwa/src/api.ts), its result is kept by react-query, and the results are *)
(* mirrored to IndexedDB and restored from it when the page is loaded      *)
(* (pwa/src/lib/queryPersist.ts, App.tsx).                                 *)
(*                                                                         *)
(* A search is a query with its chains.  Results are numbered in the order *)
(* in which they arrive, which is the order of their updatedAt.            *)
(***************************************************************************)
EXTENDS Integers, FiniteSets

CONSTANTS
  Nothing,
  Queries,
  Vendors,      \* the chains of every search
  MaxEntries,   \* MAX_ENTRIES
  MaxResults,   \* bound: searches that are answered
  MaxReloads    \* bound: loads of the page

VARIABLES
  submitted,
  fetching,     \* [of, retry, told]: told by the stream, Nothing without a stream
  streams,      \* the event sources that are open: [of, told]
  shownOf,      \* progress: [of, pending]
  entries,      \* react-query's cache: [result, fresh, failed] of a query
  results,      \* how many there have been
  hydrated, flushing,
  disk,         \* what IndexedDB has: the result of a query, 0 for none
  reloads,
  unheeded      \* history: a search that had failed, was asked for again and has
                \* not been fetched since

searchVars == <<submitted, fetching, streams, shownOf, entries, results, hydrated, flushing,
                disk, reloads, unheeded>>

NoEntry == [result |-> 0, fresh |-> FALSE, failed |-> FALSE]
NoFetch == [of |-> Nothing, retry |-> FALSE, open |-> FALSE]

SearchInit ==
  /\ submitted = Nothing /\ fetching = NoFetch /\ streams = {} /\ shownOf = Nothing
  /\ entries = [q \in Queries |-> NoEntry] /\ results = 0
  /\ hydrated = FALSE /\ flushing = FALSE
  /\ disk = [q \in Queries |-> 0] /\ reloads = 0 /\ unheeded = Nothing

\* persistQueryCache hears of every change of an entry, once it subscribes.
Changes(q, entry) ==
  /\ entries' = [entries EXCEPT ![q] = entry]
  /\ flushing' = (flushing \/ hydrated)

-----------------------------------------------------------------------------
(* A search and its stream.                                                *)

\* Mutant: the stream of a search that is given up stays open.
LeftOpen == streams

\* The signal of the query that is replaced closes its stream.
AfterAbort == {}

\* queryFn: no progress, and a new stream.
Fetch(q, retry, others) ==
  /\ fetching' = [of |-> q, retry |-> retry, open |-> TRUE]
  /\ streams' = others \cup {[of |-> q, told |-> Nothing]}
  /\ shownOf' = Nothing /\ unheeded' = Nothing

\* submit.  Another search is fetched if what there is of it is not fresh.  The
\* button is also there for a search that has failed; its key is the one that
\* react-query observes already, for which it fetches nothing.
SearchFor(q) ==
  /\ q = submitted => fetching = NoFetch /\ entries[q].failed
  /\ submitted' = q
  /\ CASE q = submitted ->
            unheeded' = q /\ UNCHANGED <<fetching, streams, shownOf>>
       [] q # submitted /\ entries[q].fresh ->
            fetching' = NoFetch /\ streams' = AfterAbort /\ UNCHANGED <<shownOf, unheeded>>
       [] OTHER -> Fetch(q, FALSE, AfterAbort)
  /\ UNCHANGED <<entries, results, hydrated, flushing, disk, reloads>>

Follows(s, told) == streams' = (streams \ {s}) \cup {[s EXCEPT !.told = told]}

\* The event "init": every chain is to be waited for.
Opened(s) ==
  /\ s.told = Nothing
  /\ Follows(s, Vendors) /\ shownOf' = [of |-> s.of, pending |-> Vendors]
  /\ UNCHANGED <<submitted, fetching, entries, results, hydrated, flushing, disk, reloads, unheeded>>

\* pendingChainsRef is one for all searches: a chain that reports is struck
\* from it, whoever's it is.
Pending(s) == IF shownOf = Nothing THEN s.told ELSE shownOf.pending

Reported(s) ==
  /\ s.told # Nothing
  /\ \E v \in s.told :
       /\ Follows(s, s.told \ {v})
       /\ shownOf' = [of |-> s.of, pending |-> Pending(s) \ {v}]
  /\ UNCHANGED <<submitted, fetching, entries, results, hydrated, flushing, disk, reloads, unheeded>>

\* The event "done", which may come before every chain has reported: a result
\* that the server has kept is sent at once.
Done(s) ==
  /\ s.told # Nothing /\ results < MaxResults
  /\ streams' = streams \ {s}
  /\ IF s.of = fetching.of
       THEN /\ fetching' = NoFetch /\ results' = results + 1
            /\ Changes(s.of, [result |-> results', fresh |-> TRUE, failed |-> FALSE])
       ELSE UNCHANGED <<fetching, results, entries, flushing>>
  /\ UNCHANGED <<submitted, shownOf, hydrated, disk, reloads, unheeded>>

\* The connection breaks, or the search failed: it is tried once more.
Broken(s) ==
  /\ streams' = streams \ {s}
  /\ CASE s.of # fetching.of -> UNCHANGED <<fetching, entries, flushing>>
       [] s.of = fetching.of /\ ~ fetching.retry ->
            /\ fetching' = [fetching EXCEPT !.retry = TRUE, !.open = FALSE]
            /\ UNCHANGED <<entries, flushing>>
       [] OTHER ->
            /\ fetching' = NoFetch
            /\ Changes(s.of, [entries[s.of] EXCEPT !.failed = TRUE, !.fresh = FALSE])
  /\ UNCHANGED <<submitted, shownOf, results, hydrated, disk, reloads, unheeded>>

Retry ==
  /\ fetching.retry /\ ~ fetching.open
  /\ Fetch(fetching.of, TRUE, streams)
  /\ UNCHANGED <<submitted, entries, results, hydrated, flushing, disk, reloads>>

\* staleTime.
Stale(q) ==
  /\ entries[q].fresh
  /\ entries' = [entries EXCEPT ![q].fresh = FALSE]
  /\ UNCHANGED <<submitted, fetching, streams, shownOf, results, hydrated, flushing, disk,
                 reloads, unheeded>>

-----------------------------------------------------------------------------
(* IndexedDB.                                                              *)

\* Restored is what is not too old, whatever has been fetched meanwhile.
Hydrate ==
  /\ ~ hydrated /\ hydrated' = TRUE
  /\ \E young \in SUBSET {q \in Queries : disk[q] # 0} : \E fresh \in SUBSET young :
       entries' = [q \in Queries |->
         IF q \in young THEN [result |-> disk[q], fresh |-> q \in fresh, failed |-> FALSE]
                        ELSE entries[q]]
  /\ UNCHANGED <<submitted, fetching, streams, shownOf, results, flushing, disk, reloads, unheeded>>

\* The newest successful results are written, and nothing else is kept.
Mirror ==
  /\ flushing /\ flushing' = FALSE
  /\ LET good == {q \in Queries : entries[q].result # 0 /\ ~ entries[q].failed}
         newer(q) == {p \in good : entries[p].result > entries[q].result}
     IN  disk' = [q \in Queries |->
           IF q \in good /\ Cardinality(newer(q)) < MaxEntries THEN entries[q].result ELSE 0]
  /\ UNCHANGED <<submitted, fetching, streams, shownOf, entries, results, hydrated, reloads, unheeded>>

Reload ==
  /\ reloads < MaxReloads /\ reloads' = reloads + 1
  /\ submitted' = Nothing /\ fetching' = NoFetch /\ streams' = {} /\ shownOf' = Nothing
  /\ entries' = [q \in Queries |-> NoEntry]
  /\ hydrated' = FALSE /\ flushing' = FALSE /\ unheeded' = Nothing
  /\ UNCHANGED <<results, disk>>

SearchNext ==
  \/ \E q \in Queries : SearchFor(q) \/ Stale(q)
  \/ \E s \in streams : Opened(s) \/ Reported(s) \/ Done(s) \/ Broken(s)
  \/ Retry \/ Hydrate \/ Mirror \/ Reload

-----------------------------------------------------------------------------

\* While a search runs, the progress on screen is its own: the chains it still
\* waits for are those its server has not heard of.
ProgressIsOfTheSearch ==
  fetching.open /\ shownOf # Nothing =>
    /\ shownOf.of = fetching.of
    /\ \E s \in streams : s.of = fetching.of /\ s.told = shownOf.pending

\* "Errors stay retryable" (SearchView.tsx:229): a search that failed and is
\* asked for again is fetched.  The code leaves the button lit and fetches
\* nothing; another search has to come between.
ErrorsAreRetryable == unheeded = Nothing

=============================================================================
