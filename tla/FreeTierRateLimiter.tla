------------------------ MODULE FreeTierRateLimiter ------------------------
(***************************************************************************)
(* The admission gate every free-tier OpenRouter request of the process    *)
(* passes (class FreeTierRateLimiter of agent/openRouterRateLimit.ts).     *)
(*                                                                         *)
(* The code keeps `dispatched`, an array of time stamps it shifts from the *)
(* front.  Here `log` is every stamp ever pushed and `forgotten` is how    *)
(* many were shifted off, so the array is log[forgotten+1 .. Len(log)]:    *)
(* the properties speak of the whole history, the code only of the rest.   *)
(*                                                                         *)
(* `acquire` chains every admission onto one promise; `line` is that       *)
(* chain, its head the admission that is running.  Only the head sleeps.   *)
(*                                                                         *)
(* LimiterNext leaves the callers free (any ticket, any note, any time);   *)
(* RateLimitedFetch supplies the callers the program has.                  *)
(***************************************************************************)
EXTENDS Integers, Sequences

CONSTANTS
  Callers,          \* identities of the pending fetches
  Models,           \* models a cooldown can be put on
  NoModel,          \* a request whose body names no model
  Times,            \* the deadlines and delays callers pass (in general, Nat)
  Limit,            \* limitPerWindow
  Window,           \* WINDOW_MS
  HeaderlessStart   \* HEADERLESS_BACKOFF_START_MS

ASSUME LimiterAssumption ==
  /\ Limit \in Nat \ {0}
  /\ Window \in Nat \ {0}
  /\ HeaderlessStart \in 1 .. Window
  /\ NoModel \notin Models
  /\ Times \subseteq Nat

VARIABLES
  now,              \* clock.now()
  log,              \* every dispatch stamp, oldest first
  forgotten,        \* how many stamps forgetOlderThan has shifted off
  line,             \* the admission chain
  wakeAt,           \* when the head's sleep ends; 0 when it does not sleep
  blockedUntil,     \* end of the account-wide block
  cooldownUntil,    \* modelCooldowns; 0 stands for a missing entry
  headerlessStep    \* next step of the headerless backoff

limiterVars == <<now, log, forgotten, line, wakeAt, blockedUntil,
                 cooldownUntil, headerlessStep>>

Ticket == [caller : Callers, deadline : Nat, model : Models \cup {NoModel}]

HeaderlessCap == Window

-----------------------------------------------------------------------------

\* Mutant: forgets stamps that are one tick short of a window old.
ForgetsTooSoon(k) ==
  /\ k \in forgotten .. Len(log)
  /\ \A i \in forgotten + 1 .. k : log[i] <= now - Window + 1
  /\ k < Len(log) => log[k + 1] > now - Window + 1

\* forgetOlderThan(now - WINDOW_MS): k stamps are gone once the loop stops.
ForgetsTo(k) ==
  /\ k \in forgotten .. Len(log)
  /\ \A i \in forgotten + 1 .. k : log[i] <= now - Window
  /\ k < Len(log) => log[k + 1] > now - Window

\* Mutant: one dispatch too many.
WindowOverfull(k) == Len(log) - k > Limit

WindowFull(k) == Len(log) - k >= Limit

CooldownEnd(m) == IF m \in Models THEN cooldownUntil[m] ELSE 0

\* The instants the head of the line has to wait for, when k stamps are gone.
Releases(k, m) ==
  {now, blockedUntil, CooldownEnd(m)}
    \cup (IF WindowFull(k) THEN {log[k + 1] + Window} ELSE {})

\* now + waitMs: the last of those instants.
IsRelease(t, k, m) ==
  /\ t \in Releases(k, m)
  /\ \A r \in Releases(k, m) : r <= t

-----------------------------------------------------------------------------

LimiterInit ==
  /\ now = 0
  /\ log = << >>
  /\ forgotten = 0
  /\ line = << >>
  /\ wakeAt = 0
  /\ blockedUntil = 0
  /\ cooldownUntil = [m \in Models |-> 0]
  /\ headerlessStep = HeaderlessStart

Tick ==
  /\ now' = now + 1
  /\ UNCHANGED <<log, forgotten, line, wakeAt, blockedUntil, cooldownUntil,
                 headerlessStep>>

\* acquire: chain an admission behind those already waiting.
Joins(c, deadline, m) ==
  line' = Append(line, [caller |-> c, deadline |-> deadline, model |-> m])

Acquire(c, deadline, m) ==
  /\ Joins(c, deadline, m)
  /\ UNCHANGED <<now, log, forgotten, wakeAt, blockedUntil, cooldownUntil,
                 headerlessStep>>

\* One turn of admit's loop for the head of the line, which has not slept yet
\* or whose sleep is over: it forgets, then dispatches, refuses or sleeps.
AdmitTurn(k) ==
  /\ line # << >>
  /\ wakeAt <= now
  /\ ForgetsTo(k)
  /\ forgotten' = k

AdmitDispatch(k) ==
  /\ AdmitTurn(k)
  /\ IsRelease(now, k, Head(line).model)
  /\ log' = Append(log, now)
  /\ line' = Tail(line)
  /\ wakeAt' = 0
  /\ UNCHANGED <<now, blockedUntil, cooldownUntil, headerlessStep>>

\* Mutant: the refused admission stays in the chain.
RefuseInPlace(k, t) ==
  /\ AdmitTurn(k)
  /\ IsRelease(t, k, Head(line).model)
  /\ t > now
  /\ t > Head(line).deadline
  /\ UNCHANGED <<now, log, line, wakeAt, blockedUntil, cooldownUntil, headerlessStep>>

AdmitRefuse(k, t) ==
  /\ AdmitTurn(k)
  /\ IsRelease(t, k, Head(line).model)
  /\ t > now
  /\ t > Head(line).deadline
  /\ line' = Tail(line)
  /\ wakeAt' = 0
  /\ UNCHANGED <<now, log, blockedUntil, cooldownUntil, headerlessStep>>

\* Mutant: neither refuses nor sleeps when the wait ends with the deadline.
SleepShortOfDeadline(k, t) ==
  /\ AdmitTurn(k)
  /\ IsRelease(t, k, Head(line).model)
  /\ t > now
  /\ t < Head(line).deadline
  /\ wakeAt' = t
  /\ UNCHANGED <<now, log, line, blockedUntil, cooldownUntil, headerlessStep>>

AdmitSleep(k, t) ==
  /\ AdmitTurn(k)
  /\ IsRelease(t, k, Head(line).model)
  /\ t > now
  /\ t <= Head(line).deadline
  /\ wakeAt' = t
  /\ UNCHANGED <<now, log, line, blockedUntil, cooldownUntil, headerlessStep>>

-----------------------------------------------------------------------------

Later(a, b) == IF a > b THEN a ELSE b
Sooner(a, b) == IF a < b THEN a ELSE b

\* headerlessBackoffMs: the escalating step, floored by the age-out of the
\* window, capped.
HeaderlessBackoff(k) ==
  LET ageOut == IF WindowFull(k) THEN log[k + 1] + Window - now ELSE 0
  IN  Sooner(Later(headerlessStep, ageOut), HeaderlessCap)

\* Mutant: the latest limit counts, even when an earlier one lasts longer.
OverwriteAccountLimit(ms) ==
  /\ blockedUntil' = now + ms
  /\ UNCHANGED <<now, log, wakeAt, cooldownUntil>>

\* noteAccountRateLimited.  The caller may call acquire again in the same
\* synchronous stretch of code, so `line` is left to it.
NoteAccountRateLimited(ms) ==
  /\ blockedUntil' = Later(blockedUntil, now + ms)
  /\ UNCHANGED <<now, log, wakeAt, cooldownUntil>>

\* A limit whose response stated its delay ...
NoteStatedLimit(ms) ==
  /\ NoteAccountRateLimited(ms)
  /\ UNCHANGED <<forgotten, headerlessStep>>

\* ... and one that stated none: the delay is headerlessBackoffMs().
NoteHeaderlessLimit(k) ==
  /\ ForgetsTo(k)
  /\ forgotten' = k
  /\ headerlessStep' = Sooner(2 * headerlessStep, HeaderlessCap)
  /\ NoteAccountRateLimited(HeaderlessBackoff(k))

NoteModelCooldown(m, ms) ==
  /\ m \in Models
  /\ cooldownUntil' = [cooldownUntil EXCEPT ![m] = Later(@, now + ms)]
  /\ UNCHANGED <<now, log, forgotten, line, wakeAt, blockedUntil,
                 headerlessStep>>

NoteSuccess ==
  /\ headerlessStep' = HeaderlessStart
  /\ UNCHANGED <<now, log, forgotten, line, wakeAt, blockedUntil,
                 cooldownUntil>>

-----------------------------------------------------------------------------

\* Any client at all, whose deadlines and delays are among these.
MayJoin(times) ==
  \/ UNCHANGED line
  \/ \E c \in Callers, d \in times, m \in Models \cup {NoModel} : Joins(c, d, m)

LimiterStep(times) ==
  \/ Tick
  \/ \E c \in Callers, d \in times, m \in Models \cup {NoModel} : Acquire(c, d, m)
  \/ \E k \in forgotten .. Len(log) :
       /\ line # << >>
       /\ \/ AdmitDispatch(k)
          \/ \E t \in Releases(k, Head(line).model) :
               AdmitRefuse(k, t) \/ AdmitSleep(k, t)
  \/ \E ms \in times : NoteStatedLimit(ms) /\ MayJoin(times)
  \/ \E k \in forgotten .. Len(log) : NoteHeaderlessLimit(k) /\ MayJoin(times)
  \/ \E m \in Models, ms \in times : NoteModelCooldown(m, ms)
  \/ NoteSuccess

LimiterNext == LimiterStep(Times)

LimiterSpec == LimiterInit /\ [][LimiterNext]_limiterVars

-----------------------------------------------------------------------------

LimiterTypeOK ==
  /\ now \in Nat
  /\ log \in Seq(Nat)
  /\ forgotten \in 0 .. Len(log)
  /\ line \in Seq(Ticket)
  /\ wakeAt \in Nat
  /\ blockedUntil \in Nat
  /\ cooldownUntil \in [Models -> Nat]
  /\ headerlessStep \in 1 .. HeaderlessCap

\* What the two representations of `dispatched` have in common with the clock:
\* the log is in order, nothing in it is in the future, and only stamps a
\* whole window old were forgotten.
LogInOrder ==
  /\ \A i, j \in 1 .. Len(log) : i <= j => log[i] <= log[j]
  /\ \A i \in 1 .. Len(log) : log[i] <= now
  /\ \A i \in 1 .. forgotten : log[i] <= now - Window

\* "A sliding-window admission gate": no window of the process's history, at
\* whatever instant it starts, holds more than Limit dispatches.  Any Limit+1
\* consecutive dispatches span at least a whole window.
WindowCap ==
  \A i \in 1 .. Len(log) :
    i + Limit <= Len(log) => log[i + Limit] - log[i] >= Window

\* The gate's promise to its callers, as a specification of its own.
Gate == INSTANCE SlidingWindowGate

ImplementsGate == Gate!GateSpec

=============================================================================
