------------------------- MODULE ChainHealthBreaker -------------------------
(***************************************************************************)
(* The rolling-window circuit breaker of the product fan-out               *)
(* (services/chainHealthBreaker.ts): per chain, an entry that is asked     *)
(* before a call (canAttempt) and fed its outcome afterwards (record).     *)
(*                                                                         *)
(* A chain with no entry behaves as one with NoEntry, so deleting an entry *)
(* is resetting it.  The failure rate is a fraction, RateNum / RateDen.    *)
(*                                                                         *)
(* BreakerNext lets anybody ask and record at any time; SearchFanout has   *)
(* the callers the program has.                                            *)
(***************************************************************************)
EXTENDS Integers, Sequences, FiniteSets

CONSTANTS
  Chains,
  Window,             \* windowMs
  MinimumVolume,      \* minimumVolume
  RateNum, RateDen,   \* failureRateThreshold
  Cooldown,           \* cooldownMs
  SuccessesToClose    \* successesToClose

ASSUME BreakerAssumption ==
  /\ Window \in Nat \ {0}
  /\ MinimumVolume \in Nat \ {0}
  /\ RateDen \in Nat \ {0}
  /\ RateNum \in 1 .. RateDen
  /\ Cooldown \in Nat \ {0}
  /\ SuccessesToClose \in Nat \ {0}

VARIABLES
  now,       \* clock.now()
  breaker    \* the Map of chain states

Outcome == [at : Nat, ok : BOOLEAN]

Entry == [phase : {"closed", "open", "half-open"}, outcomes : Seq(Outcome),
          openedAt : Nat, probeSuccesses : Nat]

NoEntry == [phase |-> "closed", outcomes |-> << >>, openedAt |-> 0,
            probeSuccesses |-> 0]

-----------------------------------------------------------------------------

Cooled(e) == now - e.openedAt >= Cooldown

\* What canAttempt answers ...
CanAttempt(c) == breaker[c].phase = "open" => Cooled(breaker[c])

\* ... and what asking does: an open entry whose cooldown is up half-opens.
AfterAsking(e) ==
  IF e.phase = "open" /\ Cooled(e)
    THEN [e EXCEPT !.phase = "half-open", !.probeSuccesses = 0]
    ELSE e

Failures(outcomes) == Cardinality({i \in 1 .. Len(outcomes) : ~ outcomes[i].ok})

TooManyFailures(outcomes) ==
  /\ Len(outcomes) >= MinimumVolume
  /\ Failures(outcomes) * RateDen >= RateNum * Len(outcomes)

\* The outcomes the filter keeps are the latest ones: time goes forward.
InWindow(outcomes) ==
  LET kept == {i \in 1 .. Len(outcomes) : now - outcomes[i].at < Window}
  IN  SubSeq(outcomes, Len(outcomes) - Cardinality(kept) + 1, Len(outcomes))

\* Mutant: one probe success more than asked for.
RecordedLate(e, ok) ==
  LET kept   == [e EXCEPT !.outcomes =
                   InWindow(Append(@, [at |-> now, ok |-> ok]))]
      opened == [phase |-> "open", outcomes |-> kept.outcomes,
                 openedAt |-> now, probeSuccesses |-> 0]
  IN  CASE e.phase = "half-open" /\ ~ ok -> opened
        [] e.phase = "half-open" /\ ok ->
             IF e.probeSuccesses + 1 > SuccessesToClose
               THEN NoEntry
               ELSE [kept EXCEPT !.probeSuccesses = @ + 1]
        [] e.phase = "closed" /\ TooManyFailures(kept.outcomes) -> opened
        [] OTHER -> kept

\* record(chain, ok): the entry after one more outcome.
Recorded(e, ok) ==
  LET kept   == [e EXCEPT !.outcomes =
                   InWindow(Append(@, [at |-> now, ok |-> ok]))]
      opened == [phase |-> "open", outcomes |-> kept.outcomes,
                 openedAt |-> now, probeSuccesses |-> 0]
  IN  CASE e.phase = "half-open" /\ ~ ok -> opened
        [] e.phase = "half-open" /\ ok ->
             IF e.probeSuccesses + 1 >= SuccessesToClose
               THEN NoEntry
               ELSE [kept EXCEPT !.probeSuccesses = @ + 1]
        [] e.phase = "closed" /\ TooManyFailures(kept.outcomes) -> opened
        [] OTHER -> kept

-----------------------------------------------------------------------------

BreakerInit ==
  /\ now = 0
  /\ breaker = [c \in Chains |-> NoEntry]

Tick == now' = now + 1

\* canAttempt or isOpen, for each chain of a set in the same stretch of code.
Ask(chains) ==
  breaker' = [c \in Chains |->
                IF c \in chains THEN AfterAsking(breaker[c]) ELSE breaker[c]]

Record(c, ok) == breaker' = [breaker EXCEPT ![c] = Recorded(@, ok)]

BreakerNext ==
  \/ Tick /\ UNCHANGED breaker
  \/ UNCHANGED now /\ \E chains \in SUBSET Chains : Ask(chains)
  \/ UNCHANGED now /\ \E c \in Chains, ok \in BOOLEAN : Record(c, ok)

BreakerSpec == BreakerInit /\ [][BreakerNext]_<<now, breaker>>

-----------------------------------------------------------------------------

BreakerTypeOK ==
  /\ now \in Nat
  /\ breaker \in [Chains -> Entry]

Consistent(e) ==
  /\ e.openedAt <= now
  /\ e.phase = "half-open" => Cooled(e) /\ e.probeSuccesses < SuccessesToClose
  /\ e.phase # "half-open" => e.probeSuccesses = 0
  /\ e.phase = "closed" => ~ TooManyFailures(e.outcomes)
  /\ \A i \in 1 .. Len(e.outcomes) : e.outcomes[i].at <= now

\* However asking and recording interleave, a chain is only half-open once it
\* has cooled and while it lacks a success, the count of successes never
\* survives a trip, a chain whose recorded rate is over the threshold is never
\* still closed, and nothing is recorded in the future.
EntriesConsistent == \A c \in Chains : Consistent(breaker[c])

=============================================================================
