-------------------------- MODULE SourceHttpClient --------------------------
(***************************************************************************)
(* The HTTP client the adapters share (sources/sourceClient.ts), as the    *)
(* requests to one host see it: the distance kept between requests, the    *)
(* client's own timeout, the retries, and the caller's signal              *)
(* (util/cancellation.ts).                                                 *)
(*                                                                         *)
(* A request that has to wait for its turn looks at the time of the last   *)
(* one, sleeps, and goes without looking again.  A timer never rings early *)
(* and may ring late.  What the vendor answers, and when, is open.         *)
(***************************************************************************)
EXTENDS Integers, Sequences

CONSTANTS
  Requests,
  Spacing,   \* rateLimitPerHostMs
  Timeout,   \* timeoutMs
  Retries,
  Backoff,   \* the sleep before the first retry
  MaxTime    \* bound: when the clock stops

ASSUME HttpAssumption ==
  {Spacing, Timeout, Backoff, MaxTime} \subseteq Nat \ {0} /\ Retries \in Nat

VARIABLES
  clock,
  lastRequest,  \* lastRequestByHost of the host, -1 before the first
  request,      \* [at, attempt, wake, looked, result]
  sent          \* history: [at, looked] of what was sent, in order

httpVars == <<clock, lastRequest, request, sent>>

\* looked: how many requests had been sent when this one looked for its turn.
Unasked == [at |-> "idle", attempt |-> 0, wake |-> 0, looked |-> 0, result |-> "none"]

HttpInit ==
  /\ clock = 0
  /\ lastRequest = -1
  /\ request = [r \in Requests |-> Unasked]
  /\ sent = << >>

Becomes(r, state) == request' = [request EXCEPT ![r] = state]

\* fetchWithProvenance is over: with data, with a SourceClientError that the
\* chain is blamed for, or with the abort, which is nobody's fault.
Over(state, result) == [Unasked EXCEPT !.at = "over", !.result = result]

-----------------------------------------------------------------------------
(* waitForHostSlot, and the request that goes out when it returns.         *)

\* Mutant: the turn is not marked as taken by a request that had to sleep.
Unstamped(slept) == IF slept THEN lastRequest ELSE clock

Stamp(slept) == clock

Goes(r, state, slept) ==
  /\ Becomes(r, [state EXCEPT !.at = "flying", !.wake = clock + Timeout])
  /\ lastRequest' = Stamp(slept)
  /\ sent' = Append(sent, [at |-> clock, looked |-> state.looked])

LooksForTurn(r, state) ==
  LET looking == [state EXCEPT !.looked = Len(sent)]
      turn == lastRequest + Spacing
  IN  IF lastRequest = -1 \/ turn <= clock
        THEN Goes(r, looking, FALSE)
        ELSE /\ Becomes(r, [looking EXCEPT !.at = "queued", !.wake = turn])
             /\ UNCHANGED <<lastRequest, sent>>

Ask(r) ==
  /\ request[r].at = "idle"
  /\ LooksForTurn(r, request[r])
  /\ UNCHANGED clock

TurnComes(r) ==
  /\ request[r].at = "queued" /\ clock >= request[r].wake
  /\ Goes(r, request[r], TRUE)
  /\ UNCHANGED clock

-----------------------------------------------------------------------------
(* Answers.  The deadline runs from the request to the end of the body.    *)

\* The catch of an attempt: unless it was the last, an error that shouldRetry
\* allows is slept on, longer each time.
Caught(r, code) ==
  LET state == request[r]
  IN  Becomes(r, IF state.attempt < Retries /\ code # "SourceParseFailed"
                   THEN [state EXCEPT !.at = "backoff",
                           !.wake = clock + Backoff * (state.attempt + 1)]
                   ELSE Over(state, code))

\* The vendor refuses, the connection breaks, or the timeout ends the wait.
NoAnswer(r) ==
  /\ request[r].at = "flying"
  /\ \/ Caught(r, "SourceRateLimited")
     \/ Caught(r, "SourceUnavailable")
  /\ UNCHANGED <<clock, lastRequest, sent>>

Headers(r) ==
  /\ request[r].at = "flying" /\ clock <= request[r].wake
  /\ Becomes(r, [request[r] EXCEPT !.at = "reading"])
  /\ UNCHANGED <<clock, lastRequest, sent>>

\* The text is read, and parsed if it is JSON; anything that goes wrong with
\* it, the timeout included, is a parse failure.
Body(r) ==
  /\ request[r].at = "reading"
  /\ \/ clock <= request[r].wake /\ Becomes(r, Over(request[r], "data"))
     \/ Caught(r, "SourceParseFailed")
  /\ UNCHANGED <<clock, lastRequest, sent>>

Again(r) ==
  /\ request[r].at = "backoff" /\ clock >= request[r].wake
  /\ LooksForTurn(r, [request[r] EXCEPT !.attempt = @ + 1])
  /\ UNCHANGED clock

-----------------------------------------------------------------------------
(* The caller's signal.                                                    *)

\* What an abort looks like to the caller: the sleeps and the fetch pass it
\* on; response.text() has a catch of its own.
AbortSeenAs(at) == IF at = "reading" THEN "SourceParseFailed" ELSE "aborted"

Leave(r) ==
  LET state == request[r]
  IN  /\ state.at \notin {"idle", "over"}
      /\ Becomes(r, Over(state, AbortSeenAs(state.at)))
      /\ UNCHANGED <<clock, lastRequest, sent>>

HttpTick ==
  /\ clock < MaxTime
  /\ clock' = clock + 1
  /\ UNCHANGED <<lastRequest, request, sent>>

HttpNext ==
  \/ \E r \in Requests :
       Ask(r) \/ TurnComes(r) \/ NoAnswer(r) \/ Headers(r) \/ Body(r) \/ Again(r) \/ Leave(r)
  \/ HttpTick

-----------------------------------------------------------------------------

\* A request keeps its distance to every one that had gone out when it looked
\* for its turn, however many sleep, retry or leave (waitForHostSlot).  This is
\* less than "enforces per-host request spacing" (sourceClient.test.ts:166): the
\* stamp is read once, before the sleep, so that requests which overlap read the
\* same one, sleep as long and go out together.
HostsAreSpared ==
  \A i, j \in DOMAIN sent :
    i <= sent[j].looked /\ i < j => sent[j].at - sent[i].at >= Spacing

=============================================================================
