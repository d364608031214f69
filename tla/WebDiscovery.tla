----------------------------- MODULE WebDiscovery ---------------------------
(***************************************************************************)
(* WebProductSearchService (services/webProductSearchService.ts) for one   *)
(* query, and the look-ups of catalogue hits in SearchService              *)
(* (services/searchService.ts), over one catalogue.                        *)
(*                                                                         *)
(* A caller searches its chains together.  A chain's task finds the pages  *)
(* of its products, in the file cache, on the web, or by waiting for a     *)
(* task of another caller that is at it already, and asks the vendor for   *)
(* them.  A mapping from the query to pages that yields few products is    *)
(* deleted and found anew, once.                                           *)
(*                                                                         *)
(* A page stands for the product on it.  For the chains of SameNames the   *)
(* name of the page is also the product's name in the catalogue, and what  *)
(* the vendor can be asked for; for the others neither is so.              *)
(***************************************************************************)
EXTENDS ProductCatalogue

CONSTANTS
  Callers, Chains,
  Wanted,        \* the chains each caller asks for
  ChainOf,       \* the chain of each product
  SameNames,     \* coop and aldi; not lidl and migros
  Cap,           \* maxProducts of each chain
  Composite,     \* the provider searches several sites in one search
  Lookers,       \* searches that look up catalogue hits
  MaxLookups,    \* bound: look-ups of each
  MaxQueries     \* bound: searches of each caller

ASSUME DiscoveryAssumption ==
  /\ "nobody" \notin Callers /\ Readings # {}
  /\ ChainOf \in [Products -> Chains] /\ Wanted \in [Callers -> (SUBSET Chains) \ {{}}]
  /\ SameNames \subseteq Chains
  /\ Cap \in [Chains -> Nat \ {0}] /\ Composite \in BOOLEAN
  /\ {MaxLookups, MaxQueries} \subseteq Nat

VARIABLES
  caller,        \* where each caller is, and its searches so far
  task,          \* the task of each caller for each chain
  inFlight,      \* whose discovery of a chain others wait for
  mapping,       \* the cached pages of the query, on each chain
  health,        \* hydrationHealth
  rediscoveryDone,
  rediscoveries, \* history: forced rediscoveries of each chain in this cycle
  lookup         \* the look-ups of catalogue hits

discoveryVars ==
  <<caller, task, inFlight, mapping, health, rediscoveryDone, rediscoveries>>
queryVars == <<catalogueVars, discoveryVars, lookup>>

PagesOf(k) == {p \in Products : ChainOf[p] = k}

\* The pages a search engine may name, in its order and up to the cap.
Finds(k) == {ids \in SUBSET PagesOf(k) : Cardinality(ids) <= Cap[k]}

Unmapped == [age |-> "none", ids |-> {}]
NoTask == [at |-> "idle", again |-> FALSE, ids |-> {}, old |-> Unmapped, found |-> FALSE]

AReading == CHOOSE r \in Readings : TRUE

DiscoveryInit ==
  /\ CatalogueInit
  /\ caller = [c \in Callers |-> [at |-> "idle", searches |-> 0]]
  /\ task = [c \in Callers |-> [k \in Chains |-> NoTask]]
  /\ inFlight = [k \in Chains |-> "nobody"]
  /\ mapping = [k \in Chains |-> Unmapped]
  /\ health = [k \in Chains |-> [total |-> 0, succeeded |-> 0]]
  /\ rediscoveryDone = {} /\ rediscoveries = [k \in Chains |-> 0]
  /\ lookup = [l \in Lookers |-> [chain |-> "none", ids |-> {}, made |-> 0]]

-----------------------------------------------------------------------------
(* Discovery.                                                              *)

\* Mutant: every task discovers for itself.
AloneDiscovering(t, k, c, again) ==
  [t EXCEPT !.at = "reading", !.again = again]

\* discoverProductIds, entered by a task that may be forcing it.
Discovering(t, k, c, again) ==
  [t EXCEPT !.at = IF inFlight[k] = "nobody" THEN "reading" ELSE "waiting",
            !.again = again]

\* Who answers for the chain once this task has entered.
Flying(t, k, c) == IF t.at = "reading" THEN [inFlight EXCEPT ![k] = c] ELSE inFlight

\* What a task does with the pages: none are left to ask for, or it already
\* had its products and looked again for the next search only.
Pursue(t, ids) ==
  IF t.again \/ ids = {} THEN [t EXCEPT !.at = "done"]
  ELSE [t EXCEPT !.at = "hydrating", !.ids = ids]

\* Mutant: a task that waits is not told.
LandAlone(c, k, ids) ==
  /\ task' = [task EXCEPT ![c][k] = Pursue(@, ids)]
  /\ inFlight' = [inFlight EXCEPT ![k] = "nobody"]

\* The promise of a discovery settles, for its owner and all who wait; ids of
\* none are also what a failure leaves to do.
Land(c, k, ids) ==
  /\ task' = [d \in Callers |->
                IF d = c \/ task[d][k].at = "waiting"
                  THEN [task[d] EXCEPT ![k] = Pursue(@, ids)] ELSE task[d]]
  /\ inFlight' = [inFlight EXCEPT ![k] = "nobody"]

\* A mapping whose file is torn throws, which fails the discovery.
ReadMapping(c, k) ==
  /\ task[c][k].at = "reading"
  /\ \/ mapping[k].age = "usable" /\ Land(c, k, mapping[k].ids)
     \/ mapping[k].age # "none" /\ Land(c, k, {})
     \/ /\ mapping[k].age # "usable"
        /\ task' = [task EXCEPT ![c][k].at = "searching", ![c][k].old = mapping[k]]
        /\ UNCHANGED inFlight
  /\ UNCHANGED <<caller, mapping, health, rediscoveryDone, rediscoveries>>

\* A provider that fails leaves the mapping that was read, if there was one.
SearchTheWeb(c, k) ==
  /\ task[c][k].at = "searching"
  /\ \/ Land(c, k, task[c][k].old.ids)
     \/ \E ids \in Finds(k) :
          /\ task' = [task EXCEPT ![c][k].at = "storing", ![c][k].ids = ids]
          /\ UNCHANGED inFlight
  /\ UNCHANGED <<caller, mapping, health, rediscoveryDone, rediscoveries>>

\* A mapping that cannot be written fails the discovery.
StoreMapping(c, k) ==
  /\ task[c][k].at = "storing"
  /\ \/ /\ mapping' = [mapping EXCEPT ![k] = [age |-> "usable", ids |-> task[c][k].ids]]
        /\ Land(c, k, task[c][k].ids)
     \/ Land(c, k, {}) /\ UNCHANGED mapping
  /\ UNCHANGED <<caller, health, rediscoveryDone, rediscoveries>>

\* A mapping outlives its soft TTL and the hard one, and later its stale window,
\* which the mapping of no pages does not have: another cycle begins.
Age(k) ==
  /\ mapping[k].age # "none"
  /\ mapping' = [mapping EXCEPT ![k] =
       IF @.age = "usable" /\ @.ids # {} THEN [@ EXCEPT !.age = "fallback"] ELSE Unmapped]
  /\ rediscoveries' = [rediscoveries EXCEPT ![k] = 0]
  /\ UNCHANGED <<catalogueVars, caller, task, inFlight, health, rediscoveryDone, lookup>>

-----------------------------------------------------------------------------
(* Hydration.                                                              *)

\* The catalogue hears of the pages the vendor has and of those it did not name,
\* by the names the pages have.
Told(k, found, missed, kind) ==
  Record(found, IF k \in SameNames THEN missed ELSE {}, kind, AReading, TRUE)

RecordHydrationHealth(k, total, succeeded) ==
  health' = [health EXCEPT ![k].total = @ + total, ![k].succeeded = @ + succeeded]

\* Mutant: the rediscovery is noted when the mapping is gone.
PoorUnnoted(k) == 2 * health'[k].succeeded < health'[k].total
                    /\ rediscoveries[k] = 0

\* checkHydrationHealthAndMaybeRediscover: fewer than half of the pages asked
\* for, in all searches so far, yielded a product that passed the filters.
Poor(k) ==
  /\ 2 * health'[k].succeeded < health'[k].total
  /\ k \notin rediscoveryDone

\* What the vendor makes of the pages: an error, an exception, or some of them,
\* of which some pass the filters.
Hydrate(c, k) ==
  LET t == task[c][k]
      Done(found) == [task EXCEPT ![c][k] = [@ EXCEPT !.at = "done", !.found = found]]
  IN  /\ t.at = "hydrating"
      /\ \/ /\ Told(k, {}, t.ids, "transient")
            /\ RecordHydrationHealth(k, Cardinality(t.ids), 0)
            /\ task' = Done(FALSE) /\ UNCHANGED rediscoveryDone
         \/ task' = Done(FALSE) /\ UNCHANGED <<catalogueVars, health, rediscoveryDone>>
         \/ \E found \in SUBSET t.ids : \E passing \in SUBSET found :
              /\ Told(k, found, t.ids \ found, "gone")
              /\ RecordHydrationHealth(k, Cardinality(t.ids), Cardinality(passing))
              /\ IF Poor(k)
                   THEN /\ task' = [task EXCEPT ![c][k] =
                                      [@ EXCEPT !.at = "deleting", !.found = passing # {}]]
                        /\ rediscoveryDone' = rediscoveryDone \cup {k}
                   ELSE task' = Done(passing # {}) /\ UNCHANGED rediscoveryDone
      /\ UNCHANGED <<caller, inFlight, mapping, rediscoveries, lookup>>

Rediscover(c, k) ==
  /\ task[c][k].at = "deleting"
  /\ mapping' = [mapping EXCEPT ![k] = Unmapped]
  /\ rediscoveries' = [rediscoveries EXCEPT ![k] = @ + 1]
  /\ LET t == Discovering(task[c][k], k, c, TRUE)
     IN  task' = [task EXCEPT ![c][k] = t] /\ inFlight' = Flying(t, k, c)
  /\ UNCHANGED <<caller, health, rediscoveryDone>>

\* hydrateFromResults: the pages an aggregated search named; its health is not
\* looked at.
HydrateHits(c, k) ==
  LET t == task[c][k]
      Done(found) == task' = [task EXCEPT ![c][k] = [@ EXCEPT !.at = "done", !.found = found]]
  IN  /\ t.at = "hits"
      /\ \/ Told(k, {}, t.ids, "transient") /\ Done(FALSE)
         \/ Done(FALSE) /\ UNCHANGED catalogueVars
         \/ \E found \in SUBSET t.ids : \E passing \in SUBSET found :
              Told(k, found, t.ids \ found, "gone") /\ Done(passing # {})
      /\ UNCHANGED <<caller, inFlight, mapping, health, rediscoveryDone, rediscoveries, lookup>>

-----------------------------------------------------------------------------
(* A caller's search.                                                      *)

\* searchChain, for some of the caller's chains at once.
SearchChains(c, chains) ==
  /\ task' = [task EXCEPT ![c] = [k \in Chains |->
                IF k \in chains THEN Discovering(NoTask, k, c, FALSE) ELSE @[k]]]
  /\ inFlight' = [k \in Chains |->
                    IF k \in chains THEN Flying(task'[c][k], k, c)[k] ELSE inFlight[k]]

AllDone(c) == \A k \in Wanted[c] : task[c][k].at = "done"

\* searchProducts
Start(c) ==
  /\ caller[c].at = "idle" /\ caller[c].searches < MaxQueries
  /\ IF Composite /\ Cardinality(Wanted[c]) > 1
       THEN /\ caller' = [caller EXCEPT ![c] = [at |-> "aggregating", searches |-> @.searches + 1]]
            /\ UNCHANGED <<task, inFlight>>
       ELSE /\ caller' = [caller EXCEPT ![c] = [at |-> "each", searches |-> @.searches + 1]]
            /\ SearchChains(c, Wanted[c])
  /\ UNCHANGED <<mapping, health, rediscoveryDone, rediscoveries>>

\* searchAggregated: one that fails has named no pages.
Aggregate(c) ==
  /\ caller[c].at = "aggregating"
  /\ \E hits \in [Wanted[c] -> SUBSET Products] :
       /\ \A k \in Wanted[c] : hits[k] \in Finds(k)
       /\ task' = [task EXCEPT ![c] = [k \in Chains |-> IF k \notin Wanted[c] THEN NoTask ELSE
                     [NoTask EXCEPT !.at = IF hits[k] = {} THEN "done" ELSE "hits",
                                    !.ids = hits[k]]]]
  /\ caller' = [caller EXCEPT ![c].at = "hits"]
  /\ UNCHANGED <<inFlight, mapping, health, rediscoveryDone, rediscoveries>>

\* The chains without products are searched one by one.
SearchMissing(c) ==
  /\ caller[c].at = "hits" /\ AllDone(c)
  /\ caller' = [caller EXCEPT ![c].at = "each"]
  /\ SearchChains(c, {k \in Wanted[c] : ~ task[c][k].found})
  /\ UNCHANGED <<mapping, health, rediscoveryDone, rediscoveries>>

Finish(c) ==
  /\ caller[c].at = "each" /\ AllDone(c)
  /\ caller' = [caller EXCEPT ![c].at = "idle"]
  /\ task' = [task EXCEPT ![c] = [k \in Chains |-> NoTask]]
  /\ UNCHANGED <<inFlight, mapping, health, rediscoveryDone, rediscoveries>>

-----------------------------------------------------------------------------
(* The search service's own use of the catalogue.                          *)

\* The vendor search of any caller names a product.
VendorSees(p) ==
  /\ Upsert(p, AReading, TRUE)
  /\ product' # product
  /\ UNCHANGED <<discoveryVars, lookup>>

\* A search finds products of a chain that the vendor did not name.
LookUp(l) ==
  /\ lookup[l].ids = {} /\ lookup[l].made < MaxLookups
  /\ \E k \in Chains : \E ids \in SUBSET {p \in PagesOf(k) : Searchable(p)} \ {{}} :
       lookup' = [lookup EXCEPT ![l] = [chain |-> k, ids |-> ids, made |-> @.made + 1]]
  /\ UNCHANGED <<catalogueVars, discoveryVars>>

\* What the vendor has is not upserted; what it did not name is gone.  A vendor
\* that knows its products by other names finds none of these.
LookedUp(l) ==
  LET ids == lookup[l].ids
  IN  /\ ids # {}
      /\ \/ Record({}, ids, "transient", AReading, TRUE)
         \/ \E found \in IF lookup[l].chain \in SameNames THEN SUBSET ids ELSE {{}} :
              Record({}, ids \ found, "gone", AReading, TRUE)
      /\ lookup' = [lookup EXCEPT ![l].ids = {}]
      /\ UNCHANGED discoveryVars

-----------------------------------------------------------------------------

\* What a caller's search does next, on its own or for one of its chains ...
Advance(c) ==
  /\ \/ Aggregate(c) \/ SearchMissing(c) \/ Finish(c)
     \/ \E k \in Chains : \/ ReadMapping(c, k) \/ SearchTheWeb(c, k)
                          \/ StoreMapping(c, k) \/ Rediscover(c, k)
  /\ UNCHANGED <<catalogueVars, lookup>>

\* ... and what the vendor's adapter does for it.
Hydrates(c) == \E k \in Chains : Hydrate(c, k) \/ HydrateHits(c, k)

DiscoveryNext ==
  \/ \E c \in Callers : \/ Start(c) /\ UNCHANGED <<catalogueVars, lookup>>
                        \/ Advance(c) \/ Hydrates(c)
  \/ \E k \in Chains : Age(k)
  \/ \E p \in Products : VendorSees(p)
  \/ \E l \in Lookers : LookUp(l) \/ LookedUp(l)

\* Files are read and written and the providers' requests have a deadline; an
\* adapter's getProductsByIds is awaited without one.
DiscoveryFairness == \A c \in Callers : WF_queryVars(Advance(c))

DiscoverySpec == DiscoveryInit /\ [][DiscoveryNext]_queryVars /\ DiscoveryFairness

-----------------------------------------------------------------------------

Busy(t) == t.at \in {"reading", "searching", "storing"}

\* However the callers of a query meet, only the one the others wait for reads,
\* searches or writes the pages of a chain, and whoever waits waits for one who
\* is at it.
OneDiscoveryPerChain ==
  \A k \in Chains : \A c \in Callers :
    /\ Busy(task[c][k]) <=> inFlight[k] = c
    /\ task[c][k].at = "waiting" => inFlight[k] \in Callers

\* A mapping that yields little is thrown away at most once in a soft-TTL cycle,
\* however many searches find that out together.  In a later cycle it is not
\* thrown away at all: nothing clears rediscoveryDone, although its comment says
\* "this soft-TTL cycle" (webProductSearchService.ts:151).
RediscoveredOnce == \A k \in Chains : rediscoveries[k] <= 1

\* Nobody waits for a discovery that is over: a search ends, or it is left to
\* an adapter that one of its own tasks has asked for products.
AwaitsVendor(c) == \E k \in Chains : task[c][k].at \in {"hydrating", "hits"}

SearchesEnd ==
  \A c \in Callers :
    caller[c].at # "idle" ~> caller[c].at = "idle" \/ AwaitsVendor(c)

=============================================================================
