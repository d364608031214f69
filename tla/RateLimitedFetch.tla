-------------------------- MODULE RateLimitedFetch --------------------------
(***************************************************************************)
(* createRateLimitedFetch (agent/openRouterRateLimit.ts): the fetches of   *)
(* several chat turns share one FreeTierRateLimiter.  A fetch acquires a   *)
(* slot, sends, and answers each kind of 429 with the response it needs.   *)
(*                                                                         *)
(* Between two macrotasks the event loop drains every promise that is due, *)
(* so time passes only when nothing is runnable; a timer fires at most     *)
(* TimerSlack late, and a response (or the turn's own abort) arrives at    *)
(* most MaxLatency after sending.                                          *)
(***************************************************************************)
EXTENDS FreeTierRateLimiter, FiniteSets

CONSTANTS
  UpstreamDelays,   \* UPSTREAM_RETRY_DELAYS_MS
  ModelCooldown,    \* UPSTREAM_MODEL_COOLDOWN_MS
  QueueBudgets,     \* how long a turn may wait in line, from its start
  RetryAfters,      \* delays a Retry-After or X-RateLimit-Reset may state
  NoRetryAfter,     \* neither header
  TimerSlack,       \* bound: how late a timer may fire
  MaxLatency,       \* bound: how long a response may take
  LastArrival       \* bound: no fetch starts after this instant

ASSUME FetchAssumption ==
  /\ UpstreamDelays \in Seq(Nat \ {0})
  /\ ModelCooldown \in Nat
  /\ QueueBudgets \subseteq Nat
  /\ RetryAfters \subseteq Nat
  /\ MaxLatency \in Nat

VARIABLES
  pc,               \* where each fetch is
  frame,            \* its parameters and locals while it runs; `timer` is when its
                    \* backoff sleep ends, or when the response is due
  sends,            \* how often it has called doFetch
  announced         \* the account limits noted so far

fetchVars == <<pc, frame, sends, announced>>
vars == <<limiterVars, fetchVars>>

Phases == {"idle", "acquiring", "admitted", "inflight", "backoff",
           "answered", "limited", "failed"}
Settled == {"answered", "limited", "failed"}

-----------------------------------------------------------------------------
(* classify429.  A body states its limit_source or not; its text may carry *)
(* the wording of a daily or a per-minute limit; the headers may be those  *)
(* of the platform's own edge.                                             *)

Evidence == [source    : {"absent", "upstream", "account", "other"},
             wording   : {"daily", "per-minute", "neither"},
             edge      : BOOLEAN]

Classify429(e) ==
  CASE e.source = "account" /\ e.wording = "daily"      -> "account-per-day"
    [] e.source = "account" /\ e.wording # "daily"      -> "account-per-minute"
    [] e.source = "absent"  /\ e.wording = "daily"      -> "account-per-day"
    [] e.source = "absent"  /\ e.wording = "per-minute" -> "account-per-minute"
    [] e.source = "absent"  /\ e.wording = "neither" /\ e.edge
                                                        -> "account-per-minute"
    [] OTHER                                            -> "upstream"

Scopes == {Classify429(e) : e \in Evidence}

-----------------------------------------------------------------------------

NoFrame == [deadline |-> 0, model |-> NoModel, timer |-> 0,
            upstreamAttempts |-> 0, accountRetried |-> FALSE]

Init ==
  /\ LimiterInit
  /\ pc = [c \in Callers |-> "idle"]
  /\ frame = [c \in Callers |-> NoFrame]
  /\ sends = [c \in Callers |-> 0]
  /\ announced = {}

Goto(c, phase) == pc' = [pc EXCEPT ![c] = phase]

\* The call returns or throws, and its locals are gone.
Settle(c, phase) ==
  /\ Goto(c, phase)
  /\ frame' = [frame EXCEPT ![c] = NoFrame]

Start(c, budget, m) ==
  /\ pc[c] = "idle"
  /\ now <= LastArrival
  /\ frame' = [frame EXCEPT ![c].deadline = now + budget, ![c].model = m]
  /\ Acquire(c, now + budget, m)
  /\ Goto(c, "acquiring")
  /\ UNCHANGED <<sends, announced>>

Admitted(k) ==
  /\ AdmitDispatch(k)
  /\ Goto(Head(line).caller, "admitted")
  /\ UNCHANGED <<frame, sends, announced>>

Refused(k, t) ==
  /\ AdmitRefuse(k, t)
  /\ Settle(Head(line).caller, "limited")
  /\ UNCHANGED <<sends, announced>>

Sleeps(k, t) == AdmitSleep(k, t) /\ UNCHANGED fetchVars

\* The head of the line runs one turn of admit.
Admission ==
  /\ line # << >>
  /\ \E k \in forgotten .. Len(log) :
       \/ Admitted(k)
       \/ \E t \in Releases(k, Head(line).model) : Refused(k, t) \/ Sleeps(k, t)

Send(c) ==
  /\ pc[c] = "admitted"
  /\ Goto(c, "inflight")
  /\ frame' = [frame EXCEPT ![c].timer = now + MaxLatency]
  /\ sends' = [sends EXCEPT ![c] = @ + 1]
  /\ UNCHANGED <<limiterVars, announced>>

\* Mutant: a success lifts the account limit.
AnswerLiftsLimit(c) ==
  /\ pc[c] = "inflight"
  /\ headerlessStep' = HeaderlessStart
  /\ blockedUntil' = 0
  /\ UNCHANGED <<now, log, forgotten, line, wakeAt, cooldownUntil>>
  /\ Settle(c, "answered")
  /\ UNCHANGED <<sends, announced>>

\* Any status but 429.
Answer(c) ==
  /\ pc[c] = "inflight"
  /\ NoteSuccess
  /\ Settle(c, "answered")
  /\ UNCHANGED <<sends, announced>>

\* doFetch throws: the network failed, or the turn was aborted.
Fail(c) ==
  /\ pc[c] = "inflight"
  /\ Settle(c, "failed")
  /\ UNCHANGED <<limiterVars, sends, announced>>

\* The day's quota is gone: no retry, and nothing to note.
DailyLimit(c) ==
  /\ pc[c] = "inflight"
  /\ Settle(c, "limited")
  /\ UNCHANGED <<limiterVars, sends, announced>>

\* Mutant: retries as long as the deadline allows.
GivesUpLate(c, ms) == now + ms > frame[c].deadline

\* The retry is given up when it was used already, or would start too late.
GivesUp(c, ms) == frame[c].accountRetried \/ now + ms > frame[c].deadline

\* What the fetch does about an account-wide limit of ms once it is noted.
AnswerAccountLimit(c, ms) ==
  /\ pc[c] = "inflight"
  /\ announced' = announced \cup {[at |-> now, until |-> now + ms]}
  /\ IF GivesUp(c, ms)
       THEN Settle(c, "limited") /\ UNCHANGED line
       ELSE /\ Goto(c, "acquiring")
            /\ frame' = [frame EXCEPT ![c].accountRetried = TRUE]
            /\ Joins(c, frame[c].deadline, frame[c].model)
  /\ UNCHANGED sends

StatedLimit(c, ms) == NoteStatedLimit(ms) /\ AnswerAccountLimit(c, ms)

HeaderlessLimit(c, k) ==
  NoteHeaderlessLimit(k) /\ AnswerAccountLimit(c, HeaderlessBackoff(k))

\* A busy provider pool: two jittered sleeps, then a cooldown on the model.
UpstreamRetry(c) ==
  /\ pc[c] = "inflight"
  /\ frame[c].upstreamAttempts < Len(UpstreamDelays)
  /\ LET base == UpstreamDelays[frame[c].upstreamAttempts + 1]
     IN  \E jitter \in 0 .. base - 1 :
           frame' = [frame EXCEPT ![c].timer = now + base + jitter,
                                  ![c].upstreamAttempts = @ + 1]
  /\ Goto(c, "backoff")
  /\ UNCHANGED <<limiterVars, sends, announced>>

UpstreamGivesUp(c) ==
  /\ pc[c] = "inflight"
  /\ frame[c].upstreamAttempts = Len(UpstreamDelays)
  /\ IF frame[c].model \in Models
       THEN NoteModelCooldown(frame[c].model, ModelCooldown)
       ELSE UNCHANGED limiterVars
  /\ Settle(c, "limited")
  /\ UNCHANGED <<sends, announced>>

\* A 429 of this scope, stating the delay after (or none).
Limited429(c, scope, after) ==
  \/ scope = "account-per-day" /\ DailyLimit(c)
  \/ scope = "account-per-minute" /\ after # NoRetryAfter /\ StatedLimit(c, after)
  \/ /\ scope = "account-per-minute"
     /\ after = NoRetryAfter
     /\ \E k \in forgotten .. Len(log) : HeaderlessLimit(c, k)
  \/ scope = "upstream" /\ (UpstreamRetry(c) \/ UpstreamGivesUp(c))

\* The backoff sleep is over: back in line, behind whoever is waiting.
Resume(c) ==
  /\ pc[c] = "backoff"
  /\ frame[c].timer <= now
  /\ Acquire(c, frame[c].deadline, frame[c].model)
  /\ Goto(c, "acquiring")
  /\ UNCHANGED <<frame, sends, announced>>

-----------------------------------------------------------------------------

\* Time may pass: no promise is due, no timer later than TimerSlack, no
\* response later than MaxLatency.
MayTick ==
  /\ \A c \in Callers : pc[c] # "admitted"
  /\ line # << >> => wakeAt > 0 /\ now < wakeAt + TimerSlack
  /\ \A c \in Callers : pc[c] = "backoff" => now < frame[c].timer + TimerSlack
  /\ \A c \in Callers : pc[c] = "inflight" => now < frame[c].timer
  /\ now <= LastArrival \/ \E c \in Callers : pc[c] \notin Settled \cup {"idle"}

Pass == MayTick /\ Tick /\ UNCHANGED fetchVars

Respond(c) ==
  \/ Answer(c)
  \/ Fail(c)
  \/ \E scope \in Scopes, after \in RetryAfters \cup {NoRetryAfter} :
       Limited429(c, scope, after)

Next ==
  \/ Pass
  \/ Admission
  \/ \E c \in Callers :
       \/ \E b \in QueueBudgets, m \in Models \cup {NoModel} : Start(c, b, m)
       \/ Send(c)
       \/ Respond(c)
       \/ Resume(c)

\* Timers fire, responses arrive or time out, promises run, time passes; that
\* anybody starts a fetch is not assumed.
Fairness ==
  /\ WF_vars(Pass)
  /\ WF_vars(Admission)
  /\ \A c \in Callers : WF_vars(Send(c)) /\ WF_vars(Respond(c)) /\ WF_vars(Resume(c))

Spec == Init /\ [][Next]_vars /\ Fairness

-----------------------------------------------------------------------------

\* "so *every* queued request waits it out": once the service has announced an
\* account limit, no request that was already in line, asleep or not, and no
\* later one is admitted before that limit ends, however many limits overlap
\* and whichever is the shorter.
LimitsHonoured ==
  \A a \in announced, i \in 1 .. Len(log) : ~ (a.at < log[i] /\ log[i] < a.until)

\* One fetch is one request, two upstream retries and one account retry at
\* most, whatever mixture of 429s it meets.
AttemptsBounded ==
  \A c \in Callers : sends[c] <= 2 + Len(UpstreamDelays)

\* A fetch waits in line exactly once, and exactly when it says so: a refusal
\* or a failure of another fetch never drops it from the chain or leaves a
\* stale place behind.
OnePlaceInLine ==
  \A c \in Callers :
    Cardinality({i \in 1 .. Len(line) : line[i].caller = c})
      = (IF pc[c] = "acquiring" THEN 1 ELSE 0)

\* Every fetch that starts is answered, refused or fails: a refused admission
\* does not poison the chain, and no sleep is extended for ever.
EveryFetchSettles ==
  \A c \in Callers : pc[c] # "idle" ~> pc[c] \in Settled

\* Whatever its callers do, the limiter they share is the one of the theorems.
ImplementsLimiter == LimiterSpec

=============================================================================
