---------------------------- MODULE SearchFanout ----------------------------
(***************************************************************************)
(* SearchService.runSearch (services/searchService.ts): several product    *)
(* searches, each of which fans out to the chains of its query, share one  *)
(* ChainHealthBreaker.                                                     *)
(*                                                                         *)
(* Every call is under two deadlines (searchOneChain): an AbortSignal that *)
(* asks the adapter to stop, and a race that stops waiting for it whatever *)
(* the adapter does.  What an adapter makes of its signal and of a vendor  *)
(* failure differs, and the sets Deaf, Converting and Masking say how.     *)
(*                                                                         *)
(* `call[s][c]` is how the call of search s on chain c stands:             *)
(*   skipped    the breaker was open          running   not settled        *)
(*   answered   the vendor's answer, or the adapter's cached copy of one   *)
(*   failed     the vendor failed             timedOut  over its budget    *)
(*   masked     ok, without an answer: the adapter hid a failure or abort  *)
(*   gaveUp     failed, because the caller left: the adapter hid the abort *)
(*   cancelled  threw the caller's abort      faulted   threw another error*)
(***************************************************************************)
EXTENDS ChainHealthBreaker

CONSTANTS
  Searches,     \* identities of the runs of runSearch
  Cancellable,  \* those whose caller passes a signal, as the SSE handler does
  Queries,      \* what may be searched for
  ChainsOf,     \* the chains each query asks
  Budget,       \* CHAIN_SOFT_TIMEOUT_MS: chainTimeoutMs of each chain
  Deaf,         \* adapters that never look at their signal
  Converting,   \* adapters that turn an abort into a failed result
  Masking,      \* adapters that turn an abort or a failure into an empty ok
  LastArrival   \* bound: no search starts after this instant

ASSUME FanoutAssumption ==
  /\ Cancellable \subseteq Searches
  /\ IsFiniteSet(Searches)
  /\ Queries # {}
  /\ ChainsOf \in [Queries -> SUBSET Chains]
  /\ Budget \in [Chains -> Nat \ {0}]
  /\ \A c \in Chains : Budget[c] < Cooldown
  /\ Converting \cap Masking = {}

VARIABLES
  search,       \* each run: its parameters, its phase and its caller
  call          \* each run's call on each chain

vars == <<now, breaker, search, call>>

Phases == {"idle", "vendors", "augmenting", "hydrating",
           "complete", "partial", "rejected"}

Raced == {"vendors", "augmenting"}
Active == Raced \cup {"hydrating"}

Thrown == {"cancelled", "faulted"}
Okay == {"answered", "masked"}
Ended == Thrown \cup Okay \cup {"skipped", "failed", "timedOut", "gaveUp"}

Search == [phase : Phases, query : Queries, startedAt : Nat, aborted : BOOLEAN]

NoSearch == [phase |-> "idle", query |-> CHOOSE q \in Queries : TRUE,
             startedAt |-> 0, aborted |-> FALSE]

Requested(s) == ChainsOf[search[s].query]

-----------------------------------------------------------------------------

Init ==
  /\ BreakerInit
  /\ search = [s \in Searches |-> NoSearch]
  /\ call = [s \in Searches |-> [c \in Chains |-> "idle"]]

\* The SSE handler's init event asks isOpen before any search is run.
Announce(q) == Ask(ChainsOf[q]) /\ UNCHANGED <<now, search, call>>

Begun(q) ==
  [phase |-> "vendors", query |-> q, startedAt |-> now, aborted |-> FALSE]

\* Every chain is asked for, and called or skipped, in one stretch of code.
Dispatched(q) ==
  [c \in Chains |-> IF c \notin ChainsOf[q] THEN "idle"
                    ELSE IF CanAttempt(c) THEN "running" ELSE "skipped"]

Start(s, q) ==
  /\ search[s].phase = "idle"
  /\ search' = [search EXCEPT ![s] = Begun(q)]
  /\ call' = [call EXCEPT ![s] = Dispatched(q)]
  /\ Ask(ChainsOf[q])
  /\ UNCHANGED now

\* The caller goes away: AbortController.abort.
Leave(s) ==
  /\ s \in Cancellable
  /\ search[s].phase \in Active
  /\ ~ search[s].aborted
  /\ search' = [search EXCEPT ![s].aborted = TRUE]
  /\ UNCHANGED <<now, breaker, call>>

-----------------------------------------------------------------------------

\* Mutant: the race waits for twice the budget.
OverTwiceTheBudget(s, c) == now >= search[s].startedAt + 2 * Budget[c]

OverBudget(s, c) == now >= search[s].startedAt + Budget[c]

\* searchOneChain settles.  A result is recorded and reported; what it throws
\* is kept by allSettled.
Settles(s, c, how) ==
  /\ call[s][c] = "running"
  /\ call' = [call EXCEPT ![s][c] = how]
  /\ IF how \in Thrown THEN UNCHANGED breaker ELSE Record(c, how \in Okay)
  /\ UNCHANGED <<now, search>>

VendorAnswers(s, c) == Settles(s, c, "answered")

VendorFails(s, c) == Settles(s, c, IF c \in Masking THEN "masked" ELSE "failed")

\* The adapter's own cache read throws, outside its try.
CacheFails(s, c) == Settles(s, c, "faulted")

\* Mutant: no adapter lets the caller's abort through.
AbortConverted(c) == IF c \in Masking THEN "masked" ELSE "gaveUp"

\* What comes of the adapter noticing that the caller left ...
OnAbort(c) ==
  IF c \in Masking THEN "masked"
  ELSE IF c \in Converting THEN "gaveUp" ELSE "cancelled"

NoticesAbort(s, c) ==
  /\ search[s].aborted /\ c \notin Deaf
  /\ Settles(s, c, OnAbort(c))

\* ... or that its budget is over, which is its own failure.
NoticesBudget(s, c) ==
  /\ ~ search[s].aborted /\ c \notin Deaf
  /\ OverBudget(s, c)
  /\ Settles(s, c, IF c \in Masking THEN "masked" ELSE "timedOut")

\* Mutant: leaves the deadline to the adapter's signal.
RaceEndsUnlessDeaf(s, c) ==
  c \notin Deaf /\ OverBudget(s, c) /\ Settles(s, c, "timedOut")

\* raceWithTimeout's timer fires first.
RaceEnds(s, c) == OverBudget(s, c) /\ Settles(s, c, "timedOut")

-----------------------------------------------------------------------------

Goto(s, phase) == search' = [search EXCEPT ![s].phase = phase]

AllSettled(s) ==
  /\ search[s].phase = "vendors"
  /\ \A c \in Chains : call[s][c] # "running"
  /\ UNCHANGED <<now, breaker, call>>

\* One throw rejects the whole search, a cache file that cannot be read as much
\* as "the caller going away" (searchService.ts:446-447).
Rejects(s) == \E c \in Chains : call[s][c] \in Thrown

Reject(s) == AllSettled(s) /\ Rejects(s) /\ Goto(s, "rejected")

\* Weak vendor results are augmented from the web, unless the caller left ...
TryWeb(s) ==
  /\ AllSettled(s) /\ ~ Rejects(s)
  /\ Goto(s, IF search[s].aborted THEN "rejected" ELSE "augmenting")

SkipWeb(s) == AllSettled(s) /\ ~ Rejects(s) /\ Goto(s, "hydrating")

\* ... which answers, fails or loses its race; then the catalogue's own hits
\* are hydrated by their adapters.
WebEnds(s) ==
  /\ search[s].phase = "augmenting"
  /\ Goto(s, "hydrating")
  /\ UNCHANGED <<now, breaker, call>>

\* Mutant: a chain that was not asked misses nothing.
AskedComplete(s) ==
  \A c \in Requested(s) : call[s][c] \in Okay \cup {"skipped"}

ChainsComplete(s) == \A c \in Requested(s) : call[s][c] \in Okay

\* The last getProductsByIds is over: the result is returned, with
\* chainsComplete.
Finish(s) ==
  /\ search[s].phase = "hydrating"
  /\ search' = [search EXCEPT ![s].phase = IF ChainsComplete(s) THEN "complete"
                                                               ELSE "partial",
                              ![s].aborted = FALSE]
  /\ UNCHANGED <<now, breaker, call>>

-----------------------------------------------------------------------------

\* Time passes when nothing is runnable and no timer is due.
MayTick ==
  /\ now <= LastArrival \/ \E s \in Searches : search[s].phase = "vendors"
  /\ \A s \in Searches :
       /\ search[s].phase = "vendors" => \E c \in Chains : call[s][c] = "running"
       /\ \A c \in Chains :
            call[s][c] = "running" =>
              ~ OverBudget(s, c) /\ (search[s].aborted => c \in Deaf)

Pass == MayTick /\ Tick /\ UNCHANGED <<breaker, search, call>>

CallStep(s, c) ==
  VendorAnswers(s, c) \/ VendorFails(s, c) \/ CacheFails(s, c)
    \/ NoticesAbort(s, c) \/ NoticesBudget(s, c) \/ RaceEnds(s, c)

Joins(s) == Reject(s) \/ TryWeb(s) \/ SkipWeb(s)

SearchStep(s) ==
  \/ Leave(s)
  \/ \E c \in Chains : CallStep(s, c)
  \/ Joins(s)
  \/ WebEnds(s)

Next ==
  \/ Pass
  \/ \E q \in Queries : Announce(q)
  \/ \E s \in Searches :
       \/ now <= LastArrival /\ \E q \in Queries : Start(s, q)
       \/ SearchStep(s)
       \/ Finish(s)

\* Timers fire, so that the races end, and an adapter notices its signal unless
\* it is deaf to it.  That a vendor ever answers is not assumed, nor that
\* hydration ends: it is awaited under no race and no signal.
SearchFairness(s) ==
  /\ \A c \in Chains : WF_vars(RaceEnds(s, c)) /\ WF_vars(NoticesAbort(s, c))
  /\ WF_vars(Joins(s)) /\ WF_vars(WebEnds(s))

Fairness == WF_vars(Pass) /\ \A s \in Searches : SearchFairness(s)

Spec == Init /\ [][Next]_vars /\ Fairness

-----------------------------------------------------------------------------

TypeOK ==
  /\ BreakerTypeOK
  /\ search \in [Searches -> Search]
  /\ call \in [Searches -> [Chains -> Ended \cup {"idle", "running"}]]

Called(s, c) == call[s][c] \notin {"idle", "skipped"}

\* The calls made since the chain was tripped for the last time and cooled.
Probes(c) ==
  {s \in Searches :
     Called(s, c) /\ search[s].startedAt >= breaker[c].openedAt + Cooldown}

ProbesThat(c, hows) == {s \in Probes(c) : call[s][c] \in hows}

\* "Consecutive probe successes required to close again": while a chain is
\* half-open, every call that can still decide it was started as a probe, and
\* the count of successes is that of the probes that answered, none of which
\* failed.  The stragglers from before the trip are all over by then, because
\* no budget outlasts the cooldown.
DecidedByProbes(c) ==
  breaker[c].phase = "half-open" =>
    /\ \A s \in Searches : call[s][c] = "running" => s \in Probes(c)
    /\ breaker[c].probeSuccesses = Cardinality(ProbesThat(c, Okay))
    /\ ProbesThat(c, {"failed", "timedOut", "gaveUp"}) = {}

ProbesDecide == \A c \in Chains : DecidedByProbes(c)

\* A chain is not skipped for nothing: behind an open breaker are calls that
\* failed or overran on a caller's time, as many as the rate of the minimum
\* volume asks for.  Shoppers who leave trip no chain whose adapter lets their
\* abort through.
OpenMeansFailing ==
  \A c \in Chains \ Converting :
    LET failing == {s \in Searches : call[s][c] \in {"failed", "timedOut"}}
    IN  breaker[c].phase # "closed" =>
          Cardinality(failing) * RateDen >= RateNum * MinimumVolume

\* No adapter, however deaf to its signal, no web search and no caller that
\* leaves holds up a search: it settles, unless it is left waiting for the
\* hydration of the catalogue's hits, which alone is awaited without a race.
RacesEnd == \A s \in Searches : search[s].phase \in Raced ~> search[s].phase \notin Raced

=============================================================================
