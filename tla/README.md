# Verification of swiss-shopping-mcp

TLA+ models, model-checking runs and machine-checked proofs about the parts of
this repository whose correctness depends on interleavings, time, failure and
long sequences of calls. Paths are relative to the repository's root.

## 1. The system

One Node.js process serves a web app (HTTP and SSE), an MCP server and a chat
agent over the product catalogues of seven Swiss grocery chains (Migros, Coop,
Aldi, Denner, Lidl, Volg, Otto's). Everything runs on one event loop, so a
stretch of code without an `await` is atomic, and everything that can go wrong
lies between two awaits. The web app (`pwa/`) is a second program, in the
shopper's browser, with the same property and a store of its own.

| Part | State it keeps | Operations | Talks to |
|---|---|---|---|
| Rate limiter `src/agent/openRouterRateLimit.ts` | dispatch stamps, one admission promise chain, account block, model cooldowns, backoff step | `acquire`, `note*`, the fetch wrapper's retries | the model API, shared by all chat turns |
| Chat agent `src/agent/` | a call budget and a filter's buffer per turn | `chat`, tool calls, repair of malformed calls, salvage of calls written as text | limiter, search service |
| Chain breaker `src/services/chainHealthBreaker.ts` | per chain: phase, outcomes of a rolling window, opening time, probe successes | `canAttempt`, `isOpen`, `record` | fan-out, SSE handler |
| Fan-out `src/services/searchService.ts` (`runSearch`, `searchOneChain`) | locals of each run; an `AbortSignal` per call | dispatch, race, settle, augment, finish | adapters, breaker, web search, catalogue |
| Store, promotion and availability searches `src/services/searchService.ts` | locals of each request | waves of raced calls | adapters |
| Result cache `src/services/searchResultCache.ts` | a `Map` of results, the set of keys being refreshed | `get`, `set`, `revalidate` | `searchProducts` |
| Web server `src/web/server.ts` | open streams | SSE search, chat stream, status | all services |
| Vendor adapters `src/adapters/live/` | a guest token, file cache, browser sessions | one search or hydration per call | source client, browsers |
| Browser sessions `migrosBrowser.ts`, `lidlBrowser.ts` | browser, context, page, start-up promise | ensure, fetch in page | vendors |
| File cache `src/cache/fileTtlCache.ts` | JSON files of one directory, mtimes | `get`, `set`, `delete`, `prune` | adapters, discovery |
| Provider budget `src/cache/providerBudget.ts` | counters of the day, one file | `record*`, `isLow`, `isExhausted`, `persist`, `load` | web search |
| Web search `src/sources/webSearch.ts` with `sourceCircuitBreaker.ts` | query cache, circuit and budget per provider, throttle queue | `search`, `searchAggregated`, failover | web providers |
| Web discovery `src/services/webProductSearchService.ts` | in-flight map, hydration health, rediscovery marks | `discoverProductIds`, hydrate | web search, file cache, adapters |
| Source client `src/sources/sourceClient.ts` | last dispatch per host | `fetchWithProvenance`, per-host slot | vendors |
| Geocoder `src/util/geo.ts` | two caches, a queue and the time of the last request to OpenStreetMap | `resolveLocationAsync`, `suggestLocationsAsync` | federal gazetteer, Nominatim |
| Catalogue `src/catalog/` | SQLite tables | upsert, hydration failures, search, migrations | search service, discovery |
| Price comparison `src/services/priceComparisonService.ts` | none | pure functions | search service |
| Chat page `pwa/src/components/ChatView.tsx`, `lib/chatHistory.ts` | conversations in IndexedDB, one thread per window | write, prune, show, go back and forth, delete | chat stream |
| Availability page `AvailabilityView.tsx`, `ui/suggest-input.tsx` | text, coordinates, verdicts, suggestions | type, pick, locate, check, submit | geocoder, availability search |
| Search page `SearchView.tsx`, `lib/queryPersist.ts` | the followed stream, pending chains, a mirror in IndexedDB | search, follow, retry, persist, restore | SSE search |
| Metrics, registry, parsers, query understanding, evaluation, deployment scripts | counters, tables, none, none, files, images | | |

What is hard, and what would make each part correct:

* **Concurrency between requests.** Searches share one breaker, one catalogue
  and their discoveries; chat turns share one limiter; loads share one
  directory. *Correct*: no window of dispatches is overfull; a breaker's fate
  is decided by the calls that should decide it; a query is refreshed, a chain
  discovered and a browser started once at a time; what is read is whole.
* **Time.** Deadlines bound the waiter, not the work: an adapter may go on after
  the race has given up on it. Sleeps end after the state they were computed
  from has changed. *Correct*: what runs under a race ends; announced limits hold
  for those already asleep; a host is spared by whoever looked.
* **Failure and departure.** A caller who leaves, a vendor that fails and a cache
  that is broken arrive at the same `await` in different forms, and each
  adapter treats them differently. *Correct*: one chain's fault is that
  chain's; what is cached is whole; a fallback has a cause.
* **Crashes and restarts.** A process may die between writing a file and renaming
  it; counters written at every request are not read at the start. *Correct*:
  nothing published is torn; a day costs what each process it sees may spend.
* **Lifecycles.** Products, circuits, conversations: long sequences of legal
  calls. *Correct*: a status is earned by the failures that gave it; what a
  shopper said is lost only for a reason.
* **Answers in any order.** Suggestions, checks, streams and transactions of the
  browser are answered after the shopper went on. *Correct*: what is asked for
  and what is shown belong to the same text or search.

`PROJECT.json` lists each hazard at its line with the properties that cover it.

## 2. Modules

```
SlidingWindowGate          what the limiter promises (abstract)
   ^ implements (proved)
FreeTierRateLimiter        the limiter, callers unconstrained
   ^ EXTENDS, and implements (proved)
RateLimitedFetch           the limiter with the fetches      RateLimitedFetch_proofs

ChainHealthBreaker         the breaker, callers unconstrained
   ^ EXTENDS, and implements (proved)
SearchFanout               concurrent searches over one breaker
   ^ EXTENDS, and implements (proved)
SearchService              the same behind the result cache  SearchService_proofs
   | INSTANCE
   v
SearchResultCache          the operations of the cache

FileTtlCache               the directory and its file operations
   ^ EXTENDS
VendorLoads                adapters and discovery over it    VendorLoads_proofs
SourceCircuitBreaker       circuits, anybody reports
   ^ EXTENDS
WebSearch                  failover, budgets, query cache    Web_proofs
   ^ EXTENDS (with VendorLoads)
LiveSources                either of the two

ProductCatalogue           the life of a product
   ^ EXTENDS
WebDiscovery               discoveries and hydration         Web_proofs
PriceComparison            offers (pure)
   ^ EXTENDS
StoreLookups               the requests that run in waves    StoreLookups_proofs
   ^ EXTENDS (with WebDiscovery)
ProductServices            either of the two

ChatTurn                   one turn of the agent             ChatTurn_proofs
   ^ EXTENDS (with RateLimitedFetch)
ChatAgent                  a turn, or the requests of all

SourceHttpClient  BrowserSession  Geocoder    the ways to reach others
   ^ EXTENDS
VendorSessions                                               VendorSessions_proofs

ChatThreads  AvailabilityForm  SearchPage     the pages of the web app
   ^ EXTENDS
BrowserApp                                                   BrowserApp_proofs
```

Where components share no state, multiplying them would check nothing more:
`ChatAgent`, `LiveSources`, `ProductServices`, `VendorSessions` and `BrowserApp` let each
behaviour follow one of theirs (`side`, `source`, `service`, `way`, `tab`), so that one
run serves all of them.

`MC*` modules only name model values and bounds for TLC. Operators introduced by
a comment `Mutant:` are plausible bugs: each stands for one change to the code
that a property of a run must notice. No model uses them. A `*_proofs` module extends the
outermost module of its part and proves from the inside out: the component with its
callers unconstrained first, then what its callers make of it.

### FreeTierRateLimiter, RateLimitedFetch (`src/agent/openRouterRateLimit.ts`)

| Code | Model |
|---|---|
| `dispatched[]`, shifted by `forgetOlderThan` | `log` (all stamps ever) and `forgotten` (how many were shifted off) |
| `admission` promise chain | `line`; only its head runs `admit` |
| the head's `clock.sleep` | `wakeAt` |
| `blockedUntil`, `modelCooldowns` | `blockedUntil`, `cooldownUntil` (0: no entry) |
| `consecutiveHeaderlessLimits` | `headerlessStep`, the next step of the backoff in ticks (the count itself matters only through `START * 2^n`, capped) |
| one turn of `admit`'s loop | `AdmitDispatch`, `AdmitRefuse` or `AdmitSleep` |
| `acquire` | `Acquire` |
| a call of the wrapped fetch | `pc[c]` and `frame[c]` (deadline, model, attempts, timer) |
| network answer | `Answer`, `Fail`, and one action per scope of a 429 |
| `classify429` | `Classify429` over what it looks at |

Between noting a limit and re-entering `acquire` the code does not await, so
`NoteAccountRateLimited` leaves `line` to its caller and both happen in one step.
The body of a 429 is taken to be read in the tick its headers arrived in.

### ChainHealthBreaker (`src/services/chainHealthBreaker.ts`)

`breaker[c]` is the entry of the `Map`; a missing entry behaves as `NoEntry`, so
`Map.delete` is a reset. `Ask` is `canAttempt` or `isOpen` (which half-opens too),
`Record` is `record`. The failure rate is compared as a fraction.

### SearchFanout (`src/services/searchService.ts`, `util/timeout.ts`)

`search[s]` is a run of `runSearch`: its phase, query, start and whether its
caller has left. `call[s][c]` is what became of `searchOneChain` for that chain.
`Start` is the synchronous stretch in which every chain is asked for and called
or skipped. A call settles in exactly one of the ways `CallStep` lists: the
vendor answers or fails, the adapter notices its signal, the race's timer fires,
or the adapter's own cache throws. `Settles` records the outcome unless the call
threw, as `runSearch` does. `Reject`, `TryWeb` and `SkipWeb` are what follows
`Promise.allSettled`; `WebEnds` is the end of the raced web search, and `Finish` that
of the hydration of the catalogue's hits, which is awaited without a race.

Adapters differ in what they make of an abort, so they are classified rather than
modelled one by one: `Deaf` adapters never look at their signal (browser
fetches), `Converting` ones turn the abort into `ok: false` (Coop), `Masking` ones
turn failures and aborts into an empty `ok: true` (Denner), the rest let it
through. The early returns for an invalid query or no relevant adapter, and
ranking, merging and catalogue bookkeeping, change no state the
properties speak of and are left out. Whether the web is tried is a free choice.

### SearchResultCache, SearchService

`entries` is the `Map` in iteration order, `refreshing` is `inFlightRefreshes`.
`SearchService` composes it with the fan-out: `Miss` starts a run for its caller,
`StaleHit` a run in the background, `Return` stores what is complete and
releases the key, `JoinOrThrow` releases it when a refresh rejects. A caller for whom
nothing changes (a fresh hit, a stale one whose refresh is under way) is no step. The
results are named after the run that made them, so that a property can
ask of a cached result how the run behind it went.

### FileTtlCache, VendorLoads (`src/cache/`, `src/adapters/live/`)

`file` and `temp` say which inode is behind a key's file and behind each
process's temporary file of it, and `disk` what the inodes hold, so that a
rename, an overwrite through an open descriptor and an unlink by name are what
they are in a file system. `get` is `Get`, `Judge` and `Delete`; `set` is `Open`,
`Write` and `Rename`; `prune` is `Prune`, `Examine`, `Unlink`, `Relist`, `Weigh`,
`Choose` and `Pruned`. Any other call, of this process or another, may come
between two of them, and so may a `Crash`.

The cached methods of the adapters are one theme with variations. A `Kind` is a
record of the decisions in which they differ (what an abort becomes, whether a
token is needed, what an empty answer becomes, which hits do without a request,
and so on); each of the twenty-one kinds is mapped to the method it is read off.

### SourceCircuitBreaker, WebSearch (`src/sources/webSearch.ts`)

A search walks its chain of providers: `Asked` is the question to the circuits of
those it passes over, `Reported` what the answer does to the circuit of the one
that was asked. What a reply is to each provider (a captcha, a quota, an empty
page, a broken connection) is an outcome of its own (`Outcome`). A serial provider is asked
once per site. Budgets forget the day when they are next used (`ensureDay`) and
are lost by `Restart`, because nothing calls `load`. `spent` is what the process
counts; `counted` and `lives` are history: what the day has really cost, and how many
processes it has seen.

### ProductCatalogue, WebDiscovery (`src/catalog/`, `src/services/webProductSearchService.ts`)

A product's row is its status and two counts of failures; what it was last read
as decides whether the next reading is believed. `WebDiscovery` follows one
query: `task[c][k]` is what caller `c` is doing at chain `k`, `inFlight[k]` whose
promise the others share. `Advance` is what a caller's own awaits lead to, `Hydrates` an
adapter's answer to `getProductsByIds`. A cycle is the time between two of `Age`, after
which `rediscoveries` counts anew and `rediscoveryDone`, as in the code, does not.
`LookUp`/`LookedUp` are the hydration of catalogue hits in
`SearchService`, which overlaps with them on the same rows. For some chains the
catalogue's name of a product is not the one the vendor can be asked for
(`SameNames`), which decides whom a failed look-up is held against.

### PriceComparison, StoreLookups

Offers, their Rappen, their unit prices and their order are operators, compared
with a reference definition. `Rank` is `localeCompare`: texts may share a rank, and
the sorts are stable. `Adapters` is the chains in the order of their adapters, in which
answers are gathered (`FirstOfEach`, `Gathered`); what is gathered matters in its order
only there, in the comparison and in the queue `left` of products first, so that the
stores found are a set. A request is a sequence of waves, each a
`Promise.all` of raced calls; the wave and what it has answered are the state. Chains
differ in what they can be asked about stock: one store (Migros), the service
points of an area one by one (Aldi), or an area (Coop).

### ChatTurn (`src/agent/`)

Text is a sequence of pieces which the provider cuts into deltas anywhere;
`filter` is what the salvaging transform withholds. Calls of one step run
together and draw on one budget, and are repaired before they run. The loop over
the steps is the AI SDK's, modelled from how `chatAgent.ts` configures it.

### SourceHttpClient, BrowserSession, Geocoder, VendorSessions

`BrowserSession` has both vendors: a start is a numbered sequence of Playwright calls of which any may
fail, and the code's module-level variables are replaced under the callers that
wait. `Geocoder` has the line for OpenStreetMap and the suggestions that overtake it.

### ChatThreads, AvailabilityForm, SearchPage, BrowserApp (`pwa/src/`)

A page's state is its component's hooks and refs and the part of IndexedDB it
writes; effects run with the change that triggers them, timers, answers and
transactions whenever they come. The index of the store by `updatedAt` is `newer`,
which says of a stored thread which others were saved after it. A window may be on its
way to several threads at once (`nav[i]`, `Slots` of them): `Select`, `Back` and the
deletion of the thread on screen each start a load, whatever is under way, and the one
answered last is the one shown. Loads of IndexedDB are answered in any order, which is more
than a browser does with transactions of one store. In `AvailabilityForm` the input of a
place is mounted anew (`Remounted`) when its pill is opened. In `SearchPage` a press
that leads to the key observed already is `unheeded`.

## 3. Time and fairness

Each timed model has one clock. Time passes (`Pass`) only when nothing is runnable,
because the event loop drains its promises before it looks at its timers, and never
past a timer that is due; in the limiter and in `VendorSessions` a timer may fire
late. In `RateLimitedFetch` a tick is about twenty seconds of the code's one-minute
window; in `SearchFanout` it is about a chain's budget; in `VendorLoads` an hour; in
`WebSearch` half a day. The properties depend on ratios, not on sizes: `Window = 3`
leaves room for several dispatches, a cooldown and a backoff within one window;
`Budget < Cooldown` mirrors 3-6 s against 30 s, and is an assumption the probe
theorem needs.

Fairness is weak throughout, and assumed only of what the code's runtime drives:

* `RateLimitedFetch`: time passing, promises that are due, timers firing, and a
  response, a network error or the turn's abort arriving in bounded time.
* `SearchFanout`, `SearchService`: time, timers, and an adapter that listens to its
  signal noticing it; the web search of a run has a race, so `WebEnds` is fair.
  Hydration (`searchService.ts:611`) awaits `getProductsByIds` with no race and no
  signal, so nothing is assumed of `Finish`: `RacesEnd` and `RefreshesEnd` say that a
  search gets as far as that, whatever its vendors do.
* `WebDiscovery`: what a caller awaits of files and of providers comes to an end
  (`Advance`): file operations, and requests with a timeout. The two
  `getProductsByIds` (`webProductSearchService.ts:340`, `:411`) have none, and
  `Hydrates` is not assumed: `SearchesEnd` excepts whoever waits in one of them.
* `StoreLookups`: the timers of the races fire and the event loop goes on. The
  `searchProducts` that products first awaits (`searchService.ts:1059`) is under no
  race and may hydrate: it is not assumed to end, and `LookupsEnd` excepts it
  (`AwaitsProducts`).
* `BrowserSession`: a start's steps and Lidl's waits end, because Playwright gives
  each a timeout. The request inside Migros' page has none and is not assumed to
  end, so nothing is claimed of it: `SessionsAnswer` says that everybody gets a
  page or an error, and of searches at Lidl alone that they end.

It is **not** assumed that a search or a fetch ever starts, that a caller ever
leaves, or that a vendor ever answers.

`CHECK_DEADLOCK FALSE` is set throughout: the bounded runs stop once every
request has settled and the clock or the counters have reached their bounds.

## 4. Runs

| Run | Instance | Shows |
|---|---|---|
| `agent` | three fetches, two slots per window of 3, tight and loose deadlines, stated limits of 4 and headerless ones of 1 to 3; a turn of two steps, up to three calls and a budget of two; every text of up to three pieces, and those of four with an opening tag | `WindowCap`, `OnePlaceInLine`, `LimitsHonoured`; `BudgetHeld`, `CutsDoNotMatter` |
| `limiter_liveness` | two fetches, one slot, every kind of 429, a model cooldown, late timers | `AttemptsBounded`, `EveryFetchSettles`; refinement of the limiter (`ImplementsLimiter`) and of the gate (`ImplementsGate`) |
| `bursts` | four searches, foreground or background, of one query at one chain; one trip, one cooldown, several probes; entries that go stale and expire | `ProbesDecide`, `EntriesConsistent`, `OneRefreshPerQuery` |
| `queries` | two searches, foreground or background, one of which may be left, of two queries that share a chain and compete for one entry; a listening and a deaf adapter | `StoredIsWhole`, `OpenMeansFailing`, `RacesEnd`, `RefreshesEnd` |
| `sources` | two loads in two processes over three keys of different kinds, one file allowed, one incident (a prune, a crash or an abort); two callers with two web searches each, one of one site and one of two, a serial provider and one with a budget of two, midnight and a restart | `TornOnlyByTwins`, `DirectoryBounded`, `FallbackIsExplained`; `OpenMeansRefused`, `BudgetHonoured`, `AnswersAreSomebodys` |
| `services` | a caller of two chains, one of one of them, a look-up; one product, two failures to condemn it; two stores and two products at Coop, one store at Migros, two at Aldi; sixteen comparisons, the store, promotion and availability requests | `StatusEarned`, `OneDiscoveryPerChain`, `RediscoveredOnce`, `SearchesEnd`; `CheapestIsCheapest`, `OwnStock`, `LookupsEnd` |
| `sessions` | two requests of two attempts; three callers of at most three starts; two look-ups and a keystroke | `HostsAreSpared`, `InterestsAreSpared`, `OneBrowser`, `SessionsAnswer` |
| `pages` | a window over two conversations of which one is kept, on its way to two at a time; two towns typed, one unknown; two searches of two chains, one reload | `LostForAReason`, `DeletedStaysDeleted`, `CoordsAreOfThePlace`, `ProgressIsOfTheSearch`, `RefusedOnlyIfRetyped` |

Four runs show a promise of the repository that its code does not keep. Each checks
one property and ends with a counterexample.

| Run | Property | The promise | What TLC finds |
|---|---|---|---|
| `restart` | `RestartsResetNothing` | `providerBudget.ts:5-6`: "so restarts do not reset them" | a day in which two processes each spend the budget |
| `loaded` | `DeletedIsGone` | `ChatView.tsx:598-599`: a pending write must not resurrect "a record the user just deleted" | a thread that is selected, deleted while it loads, then shown and stored again |
| `location` | `LocationIsGlobal` | `chatHistory.ts:286-291`: the location is global, or it "would silently revert" in an older thread | a place told in one thread, and another thread opened with the place of the page's start |
| `retry` | `ErrorsAreRetryable` | `SearchView.tsx:229`: "Errors stay retryable" | a press after an error that observes the same key and fetches nothing |

What some of them mean:

* `OneRefreshPerQuery` counts the background runs that are active, so a key
  released too early (a second run starts) and one never released (none ever
  starts again) both violate it, as does a burst of which each hit starts a run. `LimitsHonoured` and `StoredIsWhole` speak of the
  history of a run (the limits announced to anybody, the calls behind a stored
  result), not of the guard that is tested.
* `TornOnlyByTwins` and `FallbackIsExplained` name the one exception there is: two
  sets of one key in one process share a temporary file (`fileTtlCache.ts:270`).
  Crashes, prunes and other processes never tear a record or lose an answer.
* `BudgetHonoured` allows for the searches that were under way together: a budget is
  read before a request and charged after it. It allows the same again for every
  process the day has seen, which is what the code does and not what it says
  (`RestartsResetNothing`).
* `RediscoveredOnce` speaks of one soft-TTL cycle; in later ones there is none at all
  (below).
* `RacesEnd`, `RefreshesEnd`, `SearchesEnd` and `LookupsEnd` each name the await at
  which a search may stay for ever: an adapter's `getProductsByIds`.
* `DeletedStaysDeleted` speaks of what a window held of a thread when it was deleted
  there, whatever ways to other threads were open; a thread that was being loaded is
  the exception `DeletedIsGone` shows.
* `AnswersAreSomebodys` speaks of `searchAggregated` only: `search` really returns
  `[]` when its whole chain was skipped (below).
* `OwnStock` excepts a store which a vendor's answer for an area leaves out: it is
  judged by the others of the area.
* `LostForAReason`, `HostsAreSpared` and `InterestsAreSpared` name, in `excused` and in
  the orders in which requests looked, exactly which races may break the promise.

The bounds. Three fetches are the least in which one waits behind a sleeping one
while a third is refused or retries; overlapping account limits of different
length need two of them in flight and a third to be admitted. Four searches are
the least with a trip (two outcomes), a straggler and a probe, or two probes that
close, and with a result, its refresh, a hit while it is refreshed and one after. Two queries and one cache entry evict each other. Two loads meet between
any two file operations, in one process or in two; a third key makes a prune
choose, and one file allowed makes every set a reason to evict. Two callers of
the web overdraw a budget, two searches each carry a circuit through opening,
cooling and closing. Two callers share a discovery and both find it poor; a looker
makes two writers of one row. Three callers of a browser are the least in which one
waits for a start that another began after a third one's failed. Two
conversations of which one is kept are pruned while one is left for the other, and two
loads at a time overtake each other.
Arrivals, clocks and counters are bounded by the constants marked `bound`, after
which everything already started runs to its end. Symmetry permutes what differs
in nothing but its name; no run with a liveness property uses it.

### Where comments and code part ways

Met while modelling; the properties above are stated so that they hold of what
the code does, and these are the places where a reader of the comments would
expect more. Those of the four runs above are not repeated.

* An upstream cooldown is said to leave every other request untouched; the head of
  the admission chain sleeps it out in front of everybody. The queue deadline is
  compared only when the head would sleep, not while one stands in line.
* A caller who leaves trips no breaker, except at Coop, whose adapter turns the
  abort into a failure that is recorded.
* "The only rejection `searchOneChain` lets through is the caller going away"
  (`searchService.ts:446`); an adapter's cache read outside its `try` throws on a torn
  file, and rejects the whole search.
* Partial results are never stored, but an adapter that answers `ok` with nothing
  looks complete. "The first key is the oldest write" (`searchResultCache.ts:112`); a
  key that is written again keeps its place in the `Map`.
* A single-site `search` whose providers are all skipped for their circuits or
  budgets answers an empty list like a web that has nothing (`webSearch.ts:1273`).
* `rediscoveryDone` is said to hold the rediscoveries of "this soft-TTL cycle"
  (`webProductSearchService.ts:151`, `:506`); nothing is ever taken out of it, so that
  a query is discovered anew once in the life of a process.
* Requests to one host are spaced (`sourceClient.test.ts:166`) if they follow each
  other; two that look at the stamp while neither has been sent sleep as long and go
  out together (`sourceClient.ts:236`).
* OpenStreetMap is to be asked "at most one request per second. Both are honoured
  here" (`geo.ts:511-512`); a look-up asleep does not look again when it wakes, and a
  suggestion, which stands in no line (`geo.ts:613`), may just have gone out.
* A request OpenStreetMap refuses is remembered as a place that does not exist
  (`geo.ts:632`), for as long as the process runs.

## 5. Proofs

Checked by TLAPS for every value of the constants that the named `ASSUME`s allow: any
number of callers, searches, chains, files, windows and texts, and no bound that a run
needs. The specifications contain fairness; the invariance proofs use only their safety
part. Every invariant, action property and
refinement that a passing run checks is also a theorem. Each proof has the same
plan: an inductive invariant whose parts have names, one lemma per action, lemmas about
the operators the actions are built from, and a last step that combines them.

**RateLimitedFetch_proofs** (`LimiterAssumption`, `FetchAssumption`).

* *The limiter alone.* The inductive invariant is `LimiterTypeOK /\ LogInOrder /\
  WindowCap`. `WindowCap` is not inductive: a new dispatch is compared with the oldest
  stamp *still remembered*, so one must know that everything forgotten is a window old
  and that the log is in order. When the window of remembered stamps is not full, the
  Limit-th latest stamp of the history is absent or forgotten; when it was full, the
  sleep's release is its age-out. `LimiterImplementsGate` maps a dispatch to `Dispatch`,
  a tick to `Pass`, everything else to a stutter.
* *The fetches.* `Admission`, `Send`, the answers and the four ways a 429 is met each
  do to the limiter what `LimiterStep` allows. Deadlines and delays are sums of what is
  configured, so the limiter they implement is the one for `Times = Nat`, which
  `FetchesImplementLimiter` assumes; `FetchesKeepWindowCap` and `FetchesImplementGate`
  do not need it, as the argument runs through `LimiterMoves`, the limiter for all of
  `Nat`. `WaitersWaitOnce` adds `LineIsOfWaiters`: who stands in line is acquiring, and
  no two places are one caller's. `AttemptsAreBounded` adds `SendsAccounted`, which
  ties the sends to the attempts and the retry noted in the frame and differs by one
  while a fetch is on its way. `AnnouncedLimitsHold` adds `LimitsKept`: every
  announced limit ends no later than `blockedUntil`, which never goes back and before
  which nobody is dispatched.

**SearchService_proofs** (`BreakerAssumption`, `FanoutAssumption`, `ServiceAssumption`).

* *The breaker alone.* `BreakerTypeOK /\ EntriesConsistent` is inductive. What the
  window's filter keeps is a suffix, and no stamp is in the future.
* *The fan-out.* Every step is a step or a stutter of the breaker, so `EntriesConsistent`
  carries over. `OnlyProbesDecide` needs `CallsTimely` (a running call has not
  outlived its budget, because time does not pass a due timer) and `OpenAfterCalls` (no
  call was started after an open breaker opened): when the cooldown is over, every call
  from before the trip has settled. That is where `Budget < Cooldown` is used.
  `TripsAreEarned` adds `TripsCovered`: the failures an entry remembers never
  outnumber the calls of that chain that failed or overran, so that the rate at which it
  tripped was really reached.
* *The service.* `ServiceImplementsFanout` shows its searches to be runs of the fan-out.
  `OnlyWholeResultsStored` needs `ServiceInv`: what is stored is a run that is
  complete, so that nothing changes it any more, and only masking adapters mask.
  `OneRefreshAtATime` shows that `refreshing` and the active background runs change
  together, for which a run must be started once (`BackgroundRuns`).

**VendorLoads_proofs** (`FilesAssumption`, `KindsAssumption`). `FilesInv` says who may
have which inode: what a call has open is known by no names but those of its key and
process, and no inode has two temporary names (`WritersApart`, `NamesApart`); and a
call with an open file has it to itself, unless a twin, a set of the same key in the
same process, is noted (`TwinsNoted`). From it follows `FilesTornOnlyByTwins`: what
nobody else writes is whole when its writer renames it, and only a rename publishes. `DirectoryStaysBounded` needs `CountInv` for each prune: what it has surveyed,
and what it has doomed, accounts for every file but those created since. Every removal
reduces what it counts, every creation is counted. `FallbacksAreExplained` needs
`LoadInv` and `FilesInv`: a rename fails only if the temporary file is gone, which only a
twin's rename can bring about. The assumptions ask that calls and keys have different
names (an inode is named after the call that made it, or after the key it was there for).

**Web_proofs**, on `WebSearch` (`CircuitAssumption`, `WebAssumption`).

* `OpenMeansRefused` is about history (how often in a row a source refused), and the code
  only keeps a count that a question may reset. `CircuitInv` adds that what is
  remembered never exceeds what was refused in a row. `ReportedCircuit` carries it over to
  the searches, whose steps report about one provider and ask others in one stretch.
* `AggregatedSearchesWereAnswered` needs `WebInv`: what the query cache keeps of an
  aggregated query is `Honest`, and a search that found something, or was told that
  there is nothing, was answered.
* `BudgetsAreHonoured` is about the day and not about what a process counts of it. It
  needs `BudgetKept`: what one process spent and who is asking together stay below the
  allowance and the number of callers, because whoever asks has found the budget above
  its reserve, and one caller has one request under way; and `DayKept`: what the day has
  cost is that and a full share for each process that has ended in it. `Calls` is
  finite, or the bound would say nothing.

**Web_proofs**, on `WebDiscovery` (`CatalogueAssumption`, `DiscoveryAssumption`). `StatusEarned` is
inductive with the types of the rows; it is proved for the catalogue whatever is reported
to it, and again for the composed system. `OneDiscoveryPerChain` needs `FlightInv`: a
caller that has not begun to search its chains is at none of them, and nobody is at a
chain it did not ask for. `RediscoveredOnce` needs `RediscoveryInv`, because the count
of rediscoveries changes only when the mapping is deleted while the decision falls
before: whoever is about to delete is the only one, and the first of the cycle.

**StoreLookups_proofs** (`ComparisonAssumption`, `LookupsAssumption`). What a vendor may
find, promote and answer is any sequence of well-typed products of its own chain; no two
chains share a store.

* *Waves.* `LookupsInv` says that a call ended with what its vendor may say (`WaveInv`),
  that products first is at the chain and the product at the head of its queue and asks
  only stores of that chain (`TurnInv`), and that every row it has collected is honest
  (`RowsInv`). The last is `LookupsTellOwnStock`: an answer is honest when it is given,
  because the product was passed on and the store's chain is the product's, and stock does
  not change within a request.
* *The end.* `RequestsRunOutOfWaves` is what `LookupsEnd` owes to the code and not to the
  scheduler: after the products are found, `ToDo`, two for each product left and the stage
  of the wave, is less at the end of every wave. A chain that has no stores takes all its
  products with it, the next one among them (`ChainPassedOver`). Each call of a wave ends
  once, so that fairness is left with timers and the event loop.
* *Comparisons.* `ComparisonsAreRight` rests on `DedupeKeepsTheCheapest` (of the offers
  with one key the one that survives costs no more than any) and `PrecedesOrders` (the
  order of the offers is total and transitive, though by the unit some are comparable
  with each other only, and equals stay in their order). Both then come from
  `OrdersHaveAFirst`: numbered things in such an order have a first.
* *Sequences.* What `FlattenSeq` computes is defined by recursion, and an order's first
  element is found by induction on how many there are. The prover cannot be given an
  induction theorem, but it can be told that a non-empty set of numbers has a least
  element (`SmallestNumber`): the least length at which a claim fails contradicts the one
  before it (`FlattenSeqUnfolds`, `FlattenSeqShortens`, `OrdersHaveAFirst`). This is why
  filters are written with `FlattenSeq` (`Kept`): the prover knows nothing of `SelectSeq`.

**ChatTurn_proofs** (`TurnAssumption`). `TurnsKeepTheirBudget` rests on `BudgetInv`: the
calls that ran and what remains add up to the budget. `FilterIgnoresCuts` rests on `CutInv`:
what was let pass and what is withheld are together the text so far; no tag opener
begins in what has passed; what is suspected begins with the first one, and while nothing
is, none is written whole. No induction over the text is needed, because the invariant
says all that matters of what came before.

**VendorSessions_proofs** (`HttpAssumption`, `GeocoderAssumption`, `BrowserAssumption`). One
invariant for each way. `HttpInv`: what was sent is in order, and a request that sleeps
wakes a whole spacing after everything sent before it looked (`SleepersKeepAway`).
`GeoInv`: one look-up at most is asleep or asking and is the first in line (`OneInFront`),
and whatever was asked since it looked was asked by suggestions
(`SleeperIsOvertakenBySuggestions`), which is the exception `InterestsAreSpared` names.
`BrowserInv`: as long as nothing went wrong there is one start, the promised one, and no page
is shut (`OneStart`); the property alone says nothing of who holds the promise.

**BrowserApp_proofs** (`ThreadsAssumption`). One invariant for each page.

* `ThreadsInv`: of what was erased with a thread, no window holds anything it could
  write, on screen or in any of the loads under way (`HasNothingOf`); of a thread that is not excused, what is stored, what is on
  screen and what each load under way has found contain all that was ever stored
  (`HasAllOf`), which is why no write loses anything; and a thread that two windows hold is
  excused (`HeldOnce`).
* `FormInv`: the coordinates are absent or those of the text, and a verdict stands until
  the text is changed (`VerdictStands`).
* `PageInv`: there is one stream exactly while a fetch is open, and what is shown is what
  it told (`OneStream`).

**Only model-checked.**

* Liveness (`EveryFetchSettles`, `RacesEnd`, `RefreshesEnd`, `SearchesEnd`, `LookupsEnd`,
  `SessionsAnswer`): the prover does not handle it under fairness.
* What `FlattenSeq`, the library's recursive function, computes: its type and length are
  proved, as far as the theorems need them; the values the runs see are computed by TLC.

The inductive invariants were checked by TLC on the instances of the runs before they
were proved, and so was `WavesRunOut`.

## 6. Not modelled

* MCP server and tool handlers: validation and formatting around the services.
* Source registry, metrics, evaluation harness, deployment script: tables, counters
  that steer nothing, offline scoring, a script that runs once and alone.
* Parsers, ranking, matching, query understanding: stateless functions over text. Where
  their result decides what happens next it is a free choice.
* Of modelled components: the catalogue's migrations and full-text search;
  the reverse look-up of a position; routing and the limiting of HTTP requests;
  the choice of a single web provider by configuration; the pages Vergleich and
  Status. `closeBrowser`, `ChainHealthBreaker.reset` and
  `SearchResultCache.clear` are called by nothing or by tests only.

## 7. Plan

Done: the limiter, the breaker, the fan-out and the result cache; the file cache and
the loads over it; circuits, budgets and failover; discovery over the catalogue;
price comparison and the requests in waves; a chat turn; the HTTP client, the
browsers and the geocoder; the pages of the web app; proofs of their safety
properties and refinements. Left, in order:

1. Migrations: a crash between a migration and its record.
2. The chat's stream in the web server, from the turn to the page, composed of
   `ChatTurn` and `ChatThreads`.
3. Shutdown: what is lost of caches, counters and browsers when the process is
   told to end.
