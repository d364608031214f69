------------------------------ MODULE WebSearch -----------------------------
(***************************************************************************)
(* CompositeWebSearchProvider (sources/webSearch.ts): a search asks one    *)
(* provider after the other, skipping those whose circuit is open or whose *)
(* daily budget (cache/providerBudget.ts) is low, until one answers; what  *)
(* it returns is kept for a while under the query and its sites.           *)
(*                                                                         *)
(* A query stands for its cache key and has SitesOf sites: with one site   *)
(* it is searched by search, with more by searchAggregated, in which a     *)
(* Serial provider is asked once per site.                                 *)
(***************************************************************************)
EXTENDS SourceCircuitBreaker, Sequences, SequencesExt

CONSTANTS
  Chain,         \* the providers in the order they are tried
  Budgeted,      \* the providers with a budget
  Budget,        \* the daily budget of each of them
  Queries,
  SitesOf,
  Calls,         \* callers, who search one thing after the other
  MaxSearches,   \* bound: searches of a caller
  KeepFor,       \* cacheTtlMs
  MaxKept,       \* MAX_QUERY_CACHE_ENTRIES
  DayLength,
  LastInstant,      \* bound: the clock
  MaxRestarts    \* bound: restarts of the process

VARIABLES
  search,        \* the latest search of each caller
  kept,          \* queryCache, in the order of its keys
  requests, day, \* ProviderBudget: the requests counted and the day they are of
  restarts,
  counted,       \* history: the requests recorded today, by whichever process
  lives          \* history: the processes of today

webVars == <<search, kept, requests, day, restarts, counted, lives>>
searchVars == <<now, circuitVars, webVars>>

Providers == {"ddg", "ddg-lite", "google", "serpapi", "hasdata", "searlo", "firecrawl"}
Serial == {"ddg", "ddg-lite"}

\* buildAutoComposite: Google comes last, and only if it is configured.
AutoComposite(configured) ==
  <<"ddg", "ddg-lite">> \o SelectSeq(<<"google">>, LAMBDA p : p \in configured)

ASSUME WebAssumption ==
  /\ Sources \subseteq Providers /\ Chain \in Seq(Sources)
  /\ SitesOf \in [Queries -> Nat \ {0}]
  /\ Budget \in [Budgeted -> Nat] /\ Budgeted \subseteq Sources \ Serial
  /\ IsFiniteSet(Calls)
  /\ KeepFor \in Nat \ {0} /\ MaxKept \in Nat \ {0} /\ DayLength \in Nat \ {0}

-----------------------------------------------------------------------------
(* What a provider makes of the reply to its request.                      *)

Replies == {"page", "empty", "challenge", "denied", "limited", "broken",
            "rejected", "garbled", "complaint", "quota", "late", "unreachable"}

\* classifyHttpError
HttpError == [denied |-> "fatal", limited |-> "retryable", broken |-> "retryable",
              rejected |-> "fatal"]

DuckDuckGo(reply) ==
  CASE reply \in {"challenge", "broken"} -> "retryable"
    [] reply \in {"denied", "limited", "rejected"} -> "fatal"
    [] OTHER -> "nothing"

DuckDuckGoLite(reply) == DuckDuckGo(reply)

Google(reply) ==
  CASE reply \in DOMAIN HttpError -> HttpError[reply]
    [] reply = "quota" -> "retryable"
    [] reply = "garbled" -> "fatal"
    [] OTHER -> "nothing"

\* An empty page with a spelling correction is searched once more.
SerpApi(reply) ==
  CASE reply \in DOMAIN HttpError -> HttpError[reply]
    [] reply = "quota" -> "retryable"
    [] reply \in {"garbled", "complaint"} -> "fatal"
    [] OTHER -> "nothing"

HasData(reply) ==
  CASE reply \in DOMAIN HttpError -> HttpError[reply]
    [] reply \in {"garbled", "complaint", "quota"} -> "fatal"
    [] OTHER -> "nothing"

Searlo(reply) == HasData(reply)

Firecrawl(reply) == HasData(reply)

\* Anything but a typed error, an abort or a timeout counts as a programming
\* error: so does a connection that cannot be made.
Outcome(p, reply) ==
  CASE reply = "page" -> "results"
    [] reply = "late" -> "retryable"
    [] reply = "unreachable" -> "fatal"
    [] p = "ddg" -> DuckDuckGo(reply)
    [] p = "ddg-lite" -> DuckDuckGoLite(reply)
    [] p = "google" -> Google(reply)
    [] p = "serpapi" -> SerpApi(reply)
    [] p = "hasdata" -> HasData(reply)
    [] p = "searlo" -> Searlo(reply)
    [] p = "firecrawl" -> Firecrawl(reply)

-----------------------------------------------------------------------------
(* The daily budgets.                                                      *)

Today == now \div DayLength

\* ensureDay: yesterday's counters are forgotten when they are next used.
Spent == IF day = Today THEN requests ELSE [p \in Budgeted |-> 0]

BudgetInit ==
  /\ requests = [p \in Budgeted |-> 0] /\ day = Today
  /\ counted = [p \in Budgeted |-> 0] /\ lives = 1

Reserve(p) == (Budget[p] + 9) \div 10

\* Mutant: the reserve is drawn on.
LowLate(p) == Budget[p] - Spent[p] < Reserve(p)

\* isLow, which isExhausted implies.
Low(p) == Budget[p] - Spent[p] <= Reserve(p)

RecordRequest(p) ==
  IF p \in Budgeted
    THEN /\ requests' = [Spent EXCEPT ![p] = @ + 1]
         /\ day' = Today
         /\ counted' = [counted EXCEPT ![p] = @ + 1]
    ELSE UNCHANGED <<requests, day, counted>>

-----------------------------------------------------------------------------
(* The cache of queries.                                                   *)

\* getCached: an entry past its time is deleted.
Looked(q) ==
  LET past == {i \in 1 .. Len(kept) : kept[i].query = q /\ kept[i].until <= now}
  IN  IF past = {} THEN kept ELSE RemoveAt(kept, Min(past))

\* setCached: a full cache loses its first entry, even if the key has its own.
Keep(s, entry) ==
  LET room == IF Len(s) >= MaxKept THEN Tail(s) ELSE s
      own  == {i \in 1 .. Len(room) : room[i].query = entry.query}
  IN  IF own = {} THEN Append(room, entry)
      ELSE [i \in 1 .. Len(room) |-> IF i \in own THEN entry ELSE room[i]]

-----------------------------------------------------------------------------

Idle == [at |-> "idle", number |-> 0, query |-> "none", place |-> 0, sites |-> 0,
         found |-> FALSE, refused |-> FALSE, asked |-> FALSE,
         result |-> "none", answered |-> FALSE]

WebInit ==
  /\ now = 0 /\ CircuitInit
  /\ search = [c \in Calls |-> Idle]
  /\ kept = << >>
  /\ BudgetInit
  /\ restarts = 0

Aggregated(q) == SitesOf[q] > 1

\* canUseProvider
Usable(p) == CanAttempt(p) /\ (p \in Budgeted => ~ Low(p))

Ends(c, s, result) ==
  search' = [search EXCEPT ![c] = [s EXCEPT !.at = "done", !.result = result]]

\* What a search returns is cached, beside what the cache holds.
Returns(c, s, result, cached) ==
  /\ Ends(c, s, result)
  /\ kept' = Keep(cached, [query |-> s.query, result |-> result,
                           until |-> now + KeepFor, answered |-> s.answered])

Throws(c, s, result, cached) == Ends(c, s, result) /\ kept' = cached

\* Mutant: the exhausted chain of an aggregated search looks like an empty web.
NobodyLeftReturns(c, s, cached) ==
  IF s.asked THEN Throws(c, s, "refused", cached) ELSE Returns(c, s, "nothing", cached)

\* Every provider was skipped or refused.
NobodyLeft(c, s, cached) ==
  IF s.asked \/ Aggregated(s.query)
    THEN Throws(c, s, "refused", cached)
    ELSE Returns(c, s, "nothing", cached)

FirstUsable(from) ==
  LET usable == {i \in from .. Len(Chain) : Usable(Chain[i])}
  IN  IF usable = {} THEN Len(Chain) + 1 ELSE Min(usable)

\* The next provider in line is asked.
TurnTo(c, s, from, cached) ==
  LET next == FirstUsable(from)
  IN  IF next > Len(Chain) THEN NobodyLeft(c, s, cached)
      ELSE /\ search' = [search EXCEPT ![c] =
                [s EXCEPT !.at = "asking", !.place = next, !.asked = TRUE,
                          !.found = FALSE, !.refused = FALSE,
                          !.sites = IF Chain[next] \in Serial THEN SitesOf[s.query] ELSE 1]]
           /\ kept' = cached

\* Whose circuits that asks: its own and those of the providers it skips.
PassedBy(from) ==
  {Chain[i] : i \in {j \in from .. Len(Chain) : j <= FirstUsable(from)}}

SearchFor(c, q) ==
  /\ search[c].at # "asking" /\ search[c].number < MaxSearches
  /\ LET s    == [Idle EXCEPT !.query = q, !.number = search[c].number + 1]
         hits == {e \in ToSet(Looked(q)) : e.query = q}
     IN  \/ \E e \in hits :
              /\ Ends(c, [s EXCEPT !.answered = e.answered], e.result)
              /\ UNCHANGED <<kept, circuit>>
         \/ hits = {} /\ TurnTo(c, s, 1, Looked(q)) /\ Asked(PassedBy(1))
  /\ UNCHANGED <<now, refusals, requests, day, restarts, counted, lives>>

Provider(c) == Chain[search[c].place]

\* Once its sites are asked, a provider without results that refused any of
\* them hands over to the next.
Moves(s) == s.sites = 0 /\ s.refused /\ ~ s.found

Heard(c, s) ==
  CASE s.sites > 0 -> search' = [search EXCEPT ![c] = s] /\ UNCHANGED kept
    [] Moves(s) -> TurnTo(c, s, s.place + 1, kept)
    [] OTHER -> Returns(c, s, IF s.found THEN "results" ELSE "nothing", kept)

\* The provider's circuit is told, and those of the next ones may be asked.
Reported(c, s, entry) ==
  LET asked == IF Moves(s) THEN PassedBy(s.place + 1) ELSE {}
  IN  circuit' = [p \in Sources |-> IF p = Provider(c) THEN entry
                                    ELSE IF p \in asked THEN AfterAsking(circuit[p])
                                    ELSE circuit[p]]

Answer(c, outcome) ==
  LET p == Provider(c)
      s == [search[c] EXCEPT !.answered = TRUE, !.sites = @ - 1,
                             !.found = @ \/ outcome = "results"]
  IN  /\ Heard(c, s) /\ Reported(c, s, AfterSuccess(circuit[p]))
      /\ refusals' = [refusals EXCEPT ![p] = 0]
      /\ RecordRequest(p)
      /\ UNCHANGED <<now, restarts, lives>>

Refuse(c) ==
  LET p == Provider(c)
      s == [search[c] EXCEPT !.refused = TRUE, !.sites = @ - 1]
  IN  /\ Heard(c, s) /\ Reported(c, s, OneMoreFailure(circuit[p]))
      /\ refusals' = [refusals EXCEPT ![p] = @ + 1]
      /\ UNCHANGED <<now, requests, day, restarts, counted, lives>>

\* An error that is not retryable is the search's own, and no circuit's.
Fail(c) ==
  /\ Throws(c, search[c], "fatal", kept)
  /\ UNCHANGED <<now, circuitVars, requests, day, restarts, counted, lives>>

Reply(c) ==
  /\ search[c].at = "asking"
  /\ \E outcome \in {Outcome(Provider(c), reply) : reply \in Replies} :
       \/ outcome \in {"results", "nothing"} /\ Answer(c, outcome)
       \/ outcome = "retryable" /\ Refuse(c)
       \/ outcome = "fatal" /\ Fail(c)

\* The counters were written to a file, which nothing reads at the start.
Restart ==
  /\ restarts < MaxRestarts
  /\ restarts' = restarts + 1 /\ lives' = lives + 1
  /\ search' = [c \in Calls |-> [Idle EXCEPT !.number = search[c].number]]
  /\ circuit' = [p \in Sources |-> Closed] /\ refusals' = [p \in Sources |-> 0]
  /\ kept' = << >>
  /\ requests' = [p \in Budgeted |-> 0] /\ day' = Today
  /\ UNCHANGED <<now, counted>>

\* At midnight the history of a day begins anew; the counters wait for their
\* next use.
Tick ==
  /\ now < LastInstant /\ now' = now + 1
  /\ IF Today' = Today
       THEN UNCHANGED <<counted, lives>>
       ELSE counted' = [p \in Budgeted |-> 0] /\ lives' = 1
  /\ UNCHANGED <<circuitVars, search, kept, requests, day, restarts>>

WebNext ==
  \/ \E c \in Calls : Reply(c) \/ \E q \in Queries : SearchFor(c, q)
  \/ Restart \/ Tick

WebSpec == WebInit /\ [][WebNext]_searchVars

-----------------------------------------------------------------------------

\* What one process may take of a provider in a day: all but its reserve, and
\* what the searches under way together when it ran low take beyond that.
Share(p) == Budget[p] - Reserve(p) + Cardinality(Calls) - 1

\* Searches that look at the budget before their request and count it after
\* overdraw it by no more than their number, over midnight too.  A process
\* starts from nothing, so a day costs that much for each process it sees.
BudgetHonoured ==
  \A p \in Budgeted : counted[p] > 0 => counted[p] <= lives * Share(p)

\* "Counters are persisted ... so restarts do not reset them": a day costs what
\* one process may take, however many it sees.
RestartsResetNothing ==
  \A p \in Budgeted : counted[p] > 0 => counted[p] <= Share(p)

\* An aggregated search that returns, from a provider or from the cache, was
\* answered by a provider: a chain whose every member refused or was skipped is
\* never taken for a web with nothing in it.
AnswersAreSomebodys ==
  \A c \in Calls :
    search[c].result \in {"results", "nothing"} /\ Aggregated(search[c].query)
      => search[c].answered

=============================================================================
