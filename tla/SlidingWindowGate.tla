------------------------- MODULE SlidingWindowGate -------------------------
(***************************************************************************)
(* What the free-tier rate limiter promises, with nothing of how it does   *)
(* it: dispatches are stamped with a clock that never runs backwards, and  *)
(* one more is allowed only when the Limit-th most recent one is at least  *)
(* Window old.  FreeTierRateLimiter is shown to implement this.            *)
(***************************************************************************)
EXTENDS Naturals, Sequences

CONSTANTS
  Limit,   \* dispatches allowed in any window
  Window   \* length of the window, in ticks

VARIABLES
  now,     \* the clock
  log      \* the time of every dispatch so far, oldest first

HasRoom ==
  \/ Len(log) < Limit
  \/ log[Len(log) - Limit + 1] + Window <= now

GateInit ==
  /\ now = 0
  /\ log = << >>

Dispatch ==
  /\ HasRoom
  /\ log' = Append(log, now)
  /\ UNCHANGED now

Pass ==
  /\ now' = now + 1
  /\ UNCHANGED log

GateNext == Dispatch \/ Pass

GateSpec == GateInit /\ [][GateNext]_<<now, log>>

=============================================================================
