------------------------ MODULE SourceCircuitBreaker ------------------------
(***************************************************************************)
(* The circuit breaker of the web-search providers                         *)
(* (services/sourceCircuitBreaker.ts): consecutive failures open the       *)
(* circuit of a source, and asking after the cooldown closes it again.     *)
(* Unlike the breaker of the chains it has no half-open phase and no       *)
(* window.                                                                 *)
(***************************************************************************)
EXTENDS Integers

CONSTANTS
  Sources,
  Threshold,   \* failureThreshold
  Pause        \* cooldownMs

ASSUME CircuitAssumption == Threshold \in Nat \ {0} /\ Pause \in Nat

VARIABLES
  now,         \* clock.now()
  circuit,     \* the Map of states; a missing entry is Closed
  refusals     \* history: the failures of a source since its last success

circuitVars == <<circuit, refusals>>

Shut == -1     \* openedAt is undefined

Closed == [failures |-> 0, openedAt |-> Shut]

CircuitTypeOK ==
  /\ now \in Nat
  /\ circuit \in [Sources -> [failures : Nat, openedAt : Nat \cup {Shut}]]
  /\ refusals \in [Sources -> Nat]

CircuitInit ==
  /\ circuit = [s \in Sources |-> Closed]
  /\ refusals = [s \in Sources |-> 0]

\* canAttempt, and isOpen, which calls it: an open circuit whose cooldown is up
\* is closed by the question.
AfterAsking(e) ==
  IF e.openedAt # Shut /\ now - e.openedAt >= Pause THEN Closed ELSE e

CanAttempt(s) == AfterAsking(circuit[s]).openedAt = Shut

Asked(sources) ==
  circuit' = [s \in Sources |->
                IF s \in sources THEN AfterAsking(circuit[s]) ELSE circuit[s]]

\* A circuit that is open already keeps the time it was opened.
OneMoreFailure(e) ==
  [failures |-> e.failures + 1,
   openedAt |-> IF e.failures + 1 >= Threshold /\ e.openedAt = Shut
                  THEN now ELSE e.openedAt]

\* Mutant: a success leaves the count of failures.
OnlyShut(e) == [e EXCEPT !.openedAt = Shut]

\* recordSuccess deletes the entry.
AfterSuccess(e) == Closed

-----------------------------------------------------------------------------
(* Anybody may ask and report at any time.                                 *)

RecordSuccess(s) ==
  /\ circuit' = [circuit EXCEPT ![s] = AfterSuccess(@)]
  /\ refusals' = [refusals EXCEPT ![s] = 0]

RecordFailure(s) ==
  /\ circuit' = [circuit EXCEPT ![s] = OneMoreFailure(@)]
  /\ refusals' = [refusals EXCEPT ![s] = @ + 1]

CircuitNext ==
  \/ now' = now + 1 /\ UNCHANGED circuitVars
  \/ /\ \/ \E sources \in SUBSET Sources : Asked(sources) /\ UNCHANGED refusals
        \/ \E s \in Sources : RecordSuccess(s) \/ RecordFailure(s)
     /\ UNCHANGED now

CircuitSpec == now = 0 /\ CircuitInit /\ [][CircuitNext]_<<now, circuitVars>>

\* An open circuit stands for Threshold failures in a row, and a closed one
\* for fewer that are remembered: whatever calls overlap, a source that has
\* just answered is not skipped, and one that keeps failing is.
OpenMeansRefused ==
  \A s \in Sources :
    /\ circuit[s].openedAt # Shut => refusals[s] >= Threshold
    /\ circuit[s].openedAt = Shut => circuit[s].failures < Threshold

=============================================================================
