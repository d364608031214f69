----------------------- MODULE RateLimitedFetch_proofs -----------------------
(***************************************************************************)
(* The limiter of the free tier and the fetches that share it.  The        *)
(* limiter keeps its cap whatever its callers do, for any number of them,  *)
(* every limit and every window.  The fetches use it as its own            *)
(* specification allows, each has one place in line while it waits, none   *)
(* is admitted while an announced limit lasts, and none sends more often   *)
(* than its retries allow.                                                 *)
(***************************************************************************)
EXTENDS RateLimitedFetch, SequenceTheorems, FiniteSetTheorems, TLAPS

(***************************************************************************)
(* FreeTierRateLimiter: the limiter by itself.                             *)
(***************************************************************************)

\* What the head of a line and what is left behind it are.
LEMMA HeadIsTicket ==
  ASSUME LimiterTypeOK, line # << >>
  PROVE  Head(line) \in Ticket /\ Tail(line) \in Seq(Ticket)
BY HeadTailProperties DEF LimiterTypeOK

\* Joining the line, alone or in the stretch of code that notes a limit, adds a
\* ticket to it.
LEMMA JoinKeepsType ==
  ASSUME LimiterTypeOK, NEW c \in Callers, NEW d \in Nat,
         NEW m \in Models \cup {NoModel}, Joins(c, d, m)
  PROVE  line' \in Seq(Ticket)
<1>1. [caller |-> c, deadline |-> d, model |-> m] \in Ticket
  BY DEF Ticket
<1> QED BY <1>1 DEF LimiterTypeOK, Joins

LEMMA MayJoinKeepsType ==
  ASSUME LimiterTypeOK, MayJoin(Nat)
  PROVE  line' \in Seq(Ticket)
BY JoinKeepsType DEF MayJoin, LimiterTypeOK

\* headerlessBackoffMs is a number of ticks: the age-out it is floored by may be
\* any integer, the step it is compared with is positive.
LEMMA BackoffIsADelay ==
  ASSUME LimiterTypeOK, NEW k \in forgotten .. Len(log)
  PROVE  HeaderlessBackoff(k) \in Nat
<1> DEFINE ageOut == IF WindowFull(k) THEN log[k + 1] + Window - now ELSE 0
<1>1. ageOut \in Int
  <2>1. CASE WindowFull(k)
    <3>1. k + 1 \in 1 .. Len(log)
      BY <2>1, LimiterAssumption DEF WindowFull, LimiterTypeOK
    <3>2. log[k + 1] \in Nat
      BY <3>1, ElementOfSeq DEF LimiterTypeOK
    <3> QED BY <3>2, <2>1, LimiterAssumption DEF LimiterTypeOK
  <2>2. CASE ~ WindowFull(k)
    BY <2>2
  <2> QED BY <2>1, <2>2
<1>2. HeaderlessBackoff(k) = Sooner(Later(headerlessStep, ageOut), HeaderlessCap)
  BY DEF HeaderlessBackoff
<1>3. headerlessStep \in Nat /\ HeaderlessCap \in Nat
  BY LimiterAssumption DEF LimiterTypeOK, HeaderlessCap
<1> HIDE DEF ageOut
<1> QED BY <1>1, <1>2, <1>3 DEF Sooner, Later

-----------------------------------------------------------------------------

\* Whatever the delays of the clients are, they are numbers of ticks: the
\* lemmas are about clients that may use any.
LimiterMoves == LimiterStep(Nat)

LEMMA NextMoves == LimiterNext => LimiterMoves
BY LimiterAssumption DEF LimiterNext, LimiterMoves, LimiterStep, MayJoin

\* The initial state is well typed.
LEMMA TypeInit == LimiterInit => LimiterTypeOK
<1> SUFFICES ASSUME LimiterInit PROVE LimiterTypeOK
  OBVIOUS
<1>1. log \in Seq(Nat) /\ line \in Seq(Ticket) /\ Len(log) = 0
  BY EmptySeq DEF LimiterInit
<1> QED BY <1>1, LimiterAssumption DEF LimiterInit, LimiterTypeOK, HeaderlessCap

\* Every operation of the limiter keeps its types.
LEMMA TypeNext == LimiterTypeOK /\ [LimiterMoves]_limiterVars => LimiterTypeOK'
<1> SUFFICES ASSUME LimiterTypeOK, [LimiterMoves]_limiterVars
             PROVE  LimiterTypeOK'
  OBVIOUS
<1>0. /\ Limit \in Nat \ {0} /\ Window \in Nat \ {0}
      /\ HeaderlessStart \in 1 .. HeaderlessCap /\ HeaderlessCap \in Nat
      /\ Len(log) \in Nat
  BY LimiterAssumption DEF HeaderlessCap, LimiterTypeOK
<1>1. CASE Tick
  BY <1>1 DEF Tick, LimiterTypeOK
<1>2. ASSUME NEW c \in Callers, NEW d \in Nat, NEW m \in Models \cup {NoModel},
             Acquire(c, d, m)
      PROVE  LimiterTypeOK'
  <2>1. line' \in Seq(Ticket)
    BY <1>2, JoinKeepsType DEF Acquire
  <2> QED BY <1>2, <2>1 DEF Acquire, LimiterTypeOK
<1>3. ASSUME NEW k \in forgotten .. Len(log), AdmitDispatch(k)
      PROVE  LimiterTypeOK'
  <2>1. line # << >> /\ forgotten' = k /\ log' = Append(log, now)
    BY <1>3 DEF AdmitDispatch, AdmitTurn
  <2>2. line' \in Seq(Ticket)
    BY <1>3, <2>1, HeadIsTicket DEF AdmitDispatch
  <2>3. log' \in Seq(Nat) /\ Len(log') = Len(log) + 1
    BY <2>1 DEF LimiterTypeOK
  <2>4. forgotten' \in 0 .. Len(log')
    BY <2>1, <2>3, <1>0 DEF LimiterTypeOK
  <2> QED BY <1>3, <2>2, <2>3, <2>4 DEF AdmitDispatch, LimiterTypeOK
<1>4. ASSUME NEW k \in forgotten .. Len(log), NEW t,
             AdmitRefuse(k, t)
      PROVE  LimiterTypeOK'
  <2>1. line # << >> /\ forgotten' = k
    BY <1>4 DEF AdmitRefuse, AdmitTurn
  <2>2. line' \in Seq(Ticket)
    BY <1>4, <2>1, HeadIsTicket DEF AdmitRefuse
  <2> QED BY <1>4, <2>1, <2>2, <1>0 DEF AdmitRefuse, LimiterTypeOK
<1>5. ASSUME NEW k \in forgotten .. Len(log), NEW t, line # << >>,
             t \in Releases(k, Head(line).model), AdmitSleep(k, t)
      PROVE  LimiterTypeOK'
  <2>1. forgotten' = k
    BY <1>5 DEF AdmitSleep, AdmitTurn
  <2>2. t \in Nat
    <3>1. CooldownEnd(Head(line).model) \in Nat
      BY DEF CooldownEnd, LimiterTypeOK
    <3>2. WindowFull(k) => log[k + 1] + Window \in Nat
      <4> SUFFICES ASSUME WindowFull(k) PROVE log[k + 1] + Window \in Nat
        OBVIOUS
      <4>1. k + 1 \in 1 .. Len(log)
        BY <1>0 DEF WindowFull, LimiterTypeOK
      <4> QED BY <4>1, <1>0, ElementOfSeq DEF LimiterTypeOK
    <3> QED BY <1>5, <3>1, <3>2 DEF Releases, LimiterTypeOK
  <2> QED BY <1>5, <2>1, <2>2, <1>0 DEF AdmitSleep, LimiterTypeOK
<1>6. ASSUME NEW ms \in Nat, NoteStatedLimit(ms), MayJoin(Nat)
      PROVE  LimiterTypeOK'
  <2>1. line' \in Seq(Ticket)
    BY <1>6, MayJoinKeepsType
  <2>2. blockedUntil' \in Nat
    BY <1>6, LimiterAssumption
       DEF NoteStatedLimit, NoteAccountRateLimited, Later, LimiterTypeOK
  <2> QED BY <1>6, <2>1, <2>2
       DEF NoteStatedLimit, NoteAccountRateLimited, LimiterTypeOK
<1>7. ASSUME NEW k \in forgotten .. Len(log), NoteHeaderlessLimit(k), MayJoin(Nat)
      PROVE  LimiterTypeOK'
  <2>1. line' \in Seq(Ticket)
    BY <1>7, MayJoinKeepsType
  <2>2. HeaderlessBackoff(k) \in Nat
    BY BackoffIsADelay
  <2>3. blockedUntil' \in Nat
    BY <1>7, <2>2
       DEF NoteHeaderlessLimit, NoteAccountRateLimited, Later, LimiterTypeOK
  <2>4. headerlessStep' \in 1 .. HeaderlessCap
    BY <1>7, <1>0 DEF NoteHeaderlessLimit, Sooner, LimiterTypeOK
  <2> QED BY <1>7, <1>0, <2>1, <2>3, <2>4
       DEF NoteHeaderlessLimit, NoteAccountRateLimited, LimiterTypeOK
<1>8. ASSUME NEW m \in Models, NEW ms \in Nat, NoteModelCooldown(m, ms)
      PROVE  LimiterTypeOK'
  <2>1. Later(cooldownUntil[m], now + ms) \in Nat
    BY LimiterAssumption DEF Later, LimiterTypeOK
  <2> QED BY <1>8, <2>1 DEF NoteModelCooldown, LimiterTypeOK
<1>9. CASE NoteSuccess
  BY <1>9, <1>0 DEF NoteSuccess, LimiterTypeOK
<1>10. CASE UNCHANGED limiterVars
  BY <1>10 DEF limiterVars, LimiterTypeOK
<1> QED BY <1>1, <1>2, <1>3, <1>4, <1>5, <1>6, <1>7, <1>8, <1>9, <1>10
     DEF LimiterMoves, LimiterStep

\* The limiter's variables keep their types whatever its callers do.
THEOREM LimiterTypeCorrect == LimiterSpec => []LimiterTypeOK
<1>1. LimiterSpec => LimiterInit /\ [][LimiterNext]_limiterVars
  BY DEF LimiterSpec
<1> QED BY <1>1, TypeInit, TypeNext, NextMoves, PTL

-----------------------------------------------------------------------------

\* Most operations touch neither the log nor how much of it is forgotten.
LEMMA FewTouchTheLog ==
  ASSUME LimiterTypeOK, [LimiterMoves]_limiterVars
  PROVE  \/ Tick
         \/ \E k \in forgotten .. Len(log) : AdmitDispatch(k)
         \/ /\ UNCHANGED <<now, log>>
            /\ \E k \in forgotten .. Len(log) : ForgetsTo(k) /\ forgotten' = k
         \/ UNCHANGED <<now, log, forgotten>>
BY DEF LimiterMoves, LimiterStep, limiterVars, Acquire, AdmitRefuse, AdmitSleep, AdmitTurn,
       NoteStatedLimit, NoteHeaderlessLimit, NoteAccountRateLimited,
       NoteModelCooldown, NoteSuccess

\* A dispatch finds room in the array it has just shifted: a full one would
\* have a release in the future.
LEMMA DispatchHasRoom ==
  ASSUME LimiterTypeOK, NEW k \in forgotten .. Len(log), AdmitDispatch(k)
  PROVE  /\ Len(log) - k < Limit
         /\ ForgetsTo(k) /\ forgotten' = k
         /\ log' = Append(log, now) /\ now' = now
<1>1. ForgetsTo(k) /\ forgotten' = k /\ IsRelease(now, k, Head(line).model)
  BY DEF AdmitDispatch, AdmitTurn
<1>2. ~ WindowFull(k)
  <2> SUFFICES ASSUME WindowFull(k) PROVE FALSE
    OBVIOUS
  <2>1. k < Len(log) /\ k + 1 \in 1 .. Len(log)
    BY LimiterAssumption DEF WindowFull, LimiterTypeOK
  <2>2. log[k + 1] > now - Window
    BY <1>1, <2>1 DEF ForgetsTo
  <2>3. log[k + 1] + Window <= now
    BY <1>1 DEF IsRelease, Releases
  <2>4. log[k + 1] \in Nat /\ now \in Nat /\ Window \in Nat
    BY <2>1, ElementOfSeq, LimiterAssumption DEF LimiterTypeOK
  <2> QED BY <2>2, <2>3, <2>4
<1> QED BY <1>1, <1>2, LimiterAssumption DEF WindowFull, AdmitDispatch, LimiterTypeOK

\* The inductive invariant: the cap itself, and what ties the array to the log.
IInv == LimiterTypeOK /\ LogInOrder /\ WindowCap

\* It holds at the start ...
LEMMA IInvInit == LimiterInit => IInv
<1> SUFFICES ASSUME LimiterInit PROVE IInv
  OBVIOUS
<1>1. Len(log) = 0 /\ forgotten = 0
  BY EmptySeq DEF LimiterInit
<1> QED BY <1>1, TypeInit DEF IInv, LogInOrder, WindowCap

\* Forgetting keeps the log in order: what a turn shifts off is a window old.
LEMMA ForgettingKeepsOrder ==
  ASSUME IInv, NEW k \in forgotten .. Len(log), ForgetsTo(k)
  PROVE  \A i \in 1 .. k : log[i] <= now - Window
<1> SUFFICES ASSUME NEW i \in 1 .. k PROVE log[i] <= now - Window
  OBVIOUS
<1>1. CASE i <= forgotten
  BY <1>1 DEF IInv, LimiterTypeOK, LogInOrder
<1>2. CASE i > forgotten
  BY <1>2 DEF IInv, LimiterTypeOK, ForgetsTo
<1> QED BY <1>1, <1>2 DEF IInv, LimiterTypeOK

\* A dispatch keeps it: the entry Limit places back is among the forgotten.
LEMMA DispatchKeepsIInv ==
  ASSUME IInv, LimiterTypeOK', NEW k \in forgotten .. Len(log), AdmitDispatch(k)
  PROVE  IInv'
<1> DEFINE n == Len(log)
<1>0. LimiterTypeOK /\ LogInOrder /\ WindowCap /\ n \in Nat /\ k \in 0 .. n
  BY DEF IInv, LimiterTypeOK
<1>1. /\ n - k < Limit /\ ForgetsTo(k) /\ forgotten' = k
      /\ log' = Append(log, now) /\ now' = now
  BY <1>0, DispatchHasRoom
<1>2. /\ Len(log') = n + 1
      /\ log'[n + 1] = now
      /\ \A i \in 1 .. n : log'[i] = log[i] /\ log[i] \in Nat
  <2>1. log \in Seq(Nat) /\ now \in Nat
    BY <1>0 DEF LimiterTypeOK
  <2>2. \A i \in 1 .. n : log[i] \in Nat
    BY <2>1, ElementOfSeq
  <2>3. QED
    BY <1>1, <2>1, <2>2, AppendProperties
<1>3. \A i \in 1 .. k : log[i] <= now - Window
  BY <1>1, ForgettingKeepsOrder
<1>4. now \in Nat /\ Window \in Nat /\ Limit \in Nat \ {0}
  BY <1>0, LimiterAssumption DEF LimiterTypeOK
<1>5. LogInOrder'
  <2> HIDE DEF n
  <2>1. \A i \in 1 .. n : log[i] <= now
    BY <1>0 DEF LogInOrder, n
  <2>2. \A i, j \in 1 .. n : i <= j => log[i] <= log[j]
    BY <1>0 DEF LogInOrder, n
  <2>3. \A i \in 1 .. n + 1 : log'[i] <= now'
    BY <1>0, <1>1, <1>2, <1>4, <2>1
  <2>4. \A i, j \in 1 .. n + 1 : i <= j => log'[i] <= log'[j]
    <3> SUFFICES ASSUME NEW i \in 1 .. n + 1, NEW j \in 1 .. n + 1, i <= j
                 PROVE  log'[i] <= log'[j]
      OBVIOUS
    <3>1. CASE j = n + 1
      BY <3>1, <2>3, <1>1, <1>2
    <3>2. CASE j \in 1 .. n
      BY <3>2, <1>0, <1>2, <2>2
    <3> QED BY <3>1, <3>2, <1>0
  <2>5. \A i \in 1 .. forgotten' : log'[i] <= now' - Window
    BY <1>0, <1>1, <1>2, <1>3
  <2> QED BY <1>2, <2>3, <2>4, <2>5 DEF LogInOrder
<1>6. WindowCap'
  <2> HIDE DEF n
  <2> SUFFICES ASSUME NEW i \in 1 .. n + 1, i + Limit <= n + 1
               PROVE  log'[i + Limit] - log'[i] >= Window
    BY <1>2 DEF WindowCap
  <2>1. CASE i + Limit <= n
    <3>1. log[i + Limit] - log[i] >= Window
      BY <2>1, <1>0, <1>4 DEF WindowCap, n
    <3> QED BY <3>1, <2>1, <1>0, <1>2, <1>4
  <2>2. CASE i + Limit = n + 1
    <3>1. i \in 1 .. k /\ i \in 1 .. n
      BY <2>2, <1>0, <1>1, <1>4
    <3>2. log'[i + Limit] = now /\ log'[i] = log[i] /\ log[i] <= now - Window
      BY <3>1, <2>2, <1>2, <1>3
    <3>3. log[i] \in Nat
      BY <3>1, <1>2
    <3> QED BY <3>2, <3>3, <1>4
  <2> QED BY <2>1, <2>2, <1>0, <1>4
<1> QED BY <1>5, <1>6 DEF IInv

\* ... and every operation keeps it.
LEMMA IInvNext == IInv /\ [LimiterMoves]_limiterVars => IInv'
<1> SUFFICES ASSUME IInv, [LimiterMoves]_limiterVars PROVE IInv'
  OBVIOUS
<1>0. LimiterTypeOK /\ LimiterTypeOK'
  BY TypeNext DEF IInv
<1>1. CASE Tick
  <2>1. now' = now + 1 /\ UNCHANGED <<log, forgotten>>
    BY <1>1 DEF Tick
  <2>2. \A i \in 1 .. Len(log) : log[i] \in Nat
    BY <1>0, ElementOfSeq DEF LimiterTypeOK
  <2>3. now \in Nat /\ Window \in Nat /\ Len(log) \in Nat /\ forgotten \in 0 .. Len(log)
    BY <1>0, LimiterAssumption DEF LimiterTypeOK
  <2>4. \A i \in 1 .. Len(log) : log[i] <= now'
    BY <2>1, <2>2, <2>3 DEF IInv, LogInOrder
  <2>5. \A i \in 1 .. forgotten : log[i] <= now' - Window
    BY <2>1, <2>2, <2>3 DEF IInv, LogInOrder
  <2>6. LogInOrder'
    BY <2>1, <2>4, <2>5 DEF IInv, LogInOrder
  <2> QED BY <1>0, <2>1, <2>6 DEF IInv, WindowCap
<1>2. ASSUME NEW k \in forgotten .. Len(log), AdmitDispatch(k)
      PROVE  IInv'
  BY <1>0, <1>2, DispatchKeepsIInv
<1>3. ASSUME UNCHANGED <<now, log>>, NEW k \in forgotten .. Len(log),
             ForgetsTo(k), forgotten' = k
      PROVE  IInv'
  BY <1>0, <1>3, ForgettingKeepsOrder DEF IInv, LogInOrder, WindowCap
<1>4. CASE UNCHANGED <<now, log, forgotten>>
  BY <1>0, <1>4 DEF IInv, LogInOrder, WindowCap
<1> QED BY <1>0, <1>1, <1>2, <1>3, <1>4, FewTouchTheLog

\* So it always holds.
LEMMA IInvAlways == LimiterSpec => []IInv
<1>1. LimiterSpec => LimiterInit /\ [][LimiterNext]_limiterVars
  BY DEF LimiterSpec
<1> QED BY <1>1, IInvInit, IInvNext, NextMoves, PTL

\* The log of dispatches is ordered, never ahead of the clock, and what the
\* array has lost of it is a window old.
THEOREM LimiterLogInOrder == LimiterSpec => []LogInOrder
<1>1. IInv => LogInOrder
  BY DEF IInv
<1> QED BY <1>1, IInvAlways, PTL

\* "two concurrent callers cannot both read '19 used' and both proceed": no
\* window holds more than Limit dispatches, for any callers, limit and window.
THEOREM LimiterKeepsWindowCap == LimiterSpec => []WindowCap
<1>1. IInv => WindowCap
  BY DEF IInv
<1> QED BY <1>1, IInvAlways, PTL

-----------------------------------------------------------------------------

\* A dispatch of the limiter is one of the gate: whatever was forgotten, the
\* Limit-th most recent dispatch is a window old.
LEMMA DispatchRefines ==
  ASSUME IInv, NEW k \in forgotten .. Len(log), AdmitDispatch(k)
  PROVE  Gate!Dispatch
<1>1. /\ Len(log) - k < Limit /\ ForgetsTo(k)
      /\ log' = Append(log, now) /\ now' = now
  BY DispatchHasRoom DEF IInv
<1>2. Len(log) \in Nat /\ k \in 0 .. Len(log) /\ now \in Nat /\ Window \in Nat
      /\ Limit \in Nat \ {0}
  BY LimiterAssumption DEF IInv, LimiterTypeOK
<1>3. ASSUME Len(log) >= Limit
      PROVE  log[Len(log) - Limit + 1] + Window <= now
  <2>1. Len(log) - Limit + 1 \in 1 .. k
    BY <1>1, <1>2, <1>3
  <2>2. log[Len(log) - Limit + 1] <= now - Window
    BY <1>1, <2>1, ForgettingKeepsOrder
  <2>3. log[Len(log) - Limit + 1] \in Nat
    <3>1. Len(log) - Limit + 1 \in 1 .. Len(log)
      BY <2>1, <1>2
    <3> QED BY <3>1, ElementOfSeq DEF IInv, LimiterTypeOK
  <2> QED BY <2>2, <2>3, <1>2
<1>4. Gate!HasRoom
  BY <1>2, <1>3 DEF Gate!HasRoom
<1> QED BY <1>1, <1>4 DEF Gate!Dispatch

LEMMA MovesRefine == IInv /\ [LimiterMoves]_limiterVars => [Gate!GateNext]_<<now, log>>
<1> SUFFICES ASSUME IInv, [LimiterMoves]_limiterVars
             PROVE  [Gate!GateNext]_<<now, log>>
  OBVIOUS
<1>1. CASE Tick
  BY <1>1 DEF Tick, Gate!GateNext, Gate!Pass
<1>2. ASSUME NEW k \in forgotten .. Len(log), AdmitDispatch(k)
      PROVE  [Gate!GateNext]_<<now, log>>
  BY <1>2, DispatchRefines DEF Gate!GateNext
<1>3. CASE UNCHANGED <<now, log>>
  BY <1>3
<1> QED BY <1>1, <1>2, <1>3, FewTouchTheLog DEF IInv

LEMMA InitRefines == LimiterInit => Gate!GateInit
BY DEF LimiterInit, Gate!GateInit

\* The limiter implements the abstract gate: every operation is a dispatch the
\* gate allows, the passing of time, or nothing the gate can see.
THEOREM LimiterImplementsGate == LimiterSpec => ImplementsGate
<1>1. LimiterSpec => LimiterInit /\ [][LimiterNext]_limiterVars
  BY DEF LimiterSpec
<1> QED BY <1>1, InitRefines, MovesRefine, NextMoves, IInvAlways, PTL
     DEF ImplementsGate, Gate!GateSpec

-----------------------------------------------------------------------------
(***************************************************************************)
(* RateLimitedFetch: the fetches that share it.                            *)
(***************************************************************************)

Frame == [deadline : Nat, model : Models \cup {NoModel}, timer : Nat,
          upstreamAttempts : 0 .. Len(UpstreamDelays), accountRetried : BOOLEAN]

Limited == [at : Nat, until : Nat]

FetchTypeOK ==
  /\ LimiterTypeOK
  /\ pc \in [Callers -> Phases]
  /\ frame \in [Callers -> Frame]
  /\ sends \in [Callers -> Nat]
  /\ announced \subseteq Limited

-----------------------------------------------------------------------------
(* The limiter the fetches share                                           *)

LEMMA DelaysAreNumbers ==
  ASSUME FetchTypeOK
  PROVE  /\ now \in Nat
         /\ \A c \in Callers : /\ frame[c].deadline \in Nat
                               /\ frame[c].model \in Models \cup {NoModel}
         /\ Len(UpstreamDelays) \in Nat
         /\ \A i \in 1 .. Len(UpstreamDelays) : UpstreamDelays[i] \in Nat \ {0}
<1>1. /\ Len(UpstreamDelays) \in Nat
      /\ \A i \in 1 .. Len(UpstreamDelays) : UpstreamDelays[i] \in Nat \ {0}
  BY FetchAssumption, LenProperties, ElementOfSeq
<1>2. QED
  BY <1>1 DEF FetchTypeOK, LimiterTypeOK, Frame

\* After a noted limit the fetch leaves the line alone or joins it again.
LEMMA AnswersMayJoin ==
  ASSUME FetchTypeOK, NEW c \in Callers, NEW ms, AnswerAccountLimit(c, ms)
  PROVE  MayJoin(Nat)
BY DelaysAreNumbers DEF AnswerAccountLimit, MayJoin

LEMMA RespondMoves ==
  ASSUME FetchTypeOK, NEW c \in Callers, Respond(c)
  PROVE  [LimiterMoves]_limiterVars
<1>1. CASE Answer(c) \/ Fail(c) \/ DailyLimit(c) \/ UpstreamRetry(c)
  BY <1>1
  DEF Answer, Fail, DailyLimit, UpstreamRetry, LimiterMoves, LimiterStep
<1>2. CASE UpstreamGivesUp(c)
  BY <1>2, FetchAssumption, DelaysAreNumbers
  DEF UpstreamGivesUp, LimiterMoves, LimiterStep
<1>3. ASSUME NEW ms \in RetryAfters, StatedLimit(c, ms)
      PROVE  LimiterMoves
  <2>1. MayJoin(Nat) /\ ms \in Nat /\ NoteStatedLimit(ms)
    BY <1>3, AnswersMayJoin, FetchAssumption DEF StatedLimit
  <2>2. QED
    BY <2>1 DEF LimiterMoves, LimiterStep
<1>4. ASSUME NEW k \in forgotten .. Len(log), HeaderlessLimit(c, k)
      PROVE  LimiterMoves
  <2>1. MayJoin(Nat) /\ NoteHeaderlessLimit(k)
    BY <1>4, AnswersMayJoin DEF HeaderlessLimit
  <2>2. QED
    BY <2>1 DEF LimiterMoves, LimiterStep
<1>5. QED
  BY <1>1, <1>2, <1>3, <1>4 DEF Respond, Limited429

\* Every step of the fetches is one of the limiter's clients', or none.
LEMMA FetchesMove == FetchTypeOK /\ [Next]_vars => [LimiterMoves]_limiterVars
<1> SUFFICES ASSUME FetchTypeOK, [Next]_vars
             PROVE  [LimiterMoves]_limiterVars
  OBVIOUS
<1>1. CASE Pass
  BY <1>1 DEF Pass, LimiterMoves, LimiterStep
<1>2. CASE Admission
  BY <1>2 DEF Admission, Admitted, Refused, Sleeps, LimiterMoves, LimiterStep
<1>3. ASSUME NEW c \in Callers, NEW b \in QueueBudgets,
             NEW m \in Models \cup {NoModel}, Start(c, b, m)
      PROVE  LimiterMoves
  <2>1. now + b \in Nat /\ Acquire(c, now + b, m)
    BY <1>3, FetchAssumption, DelaysAreNumbers DEF Start
  <2>2. QED
    BY <2>1 DEF LimiterMoves, LimiterStep
<1>4. ASSUME NEW c \in Callers, Send(c)
      PROVE  UNCHANGED limiterVars
  BY <1>4 DEF Send
<1>5. ASSUME NEW c \in Callers, Respond(c)
      PROVE  [LimiterMoves]_limiterVars
  BY <1>5, RespondMoves
<1>6. ASSUME NEW c \in Callers, Resume(c)
      PROVE  LimiterMoves
  BY <1>6, DelaysAreNumbers DEF Resume, LimiterMoves, LimiterStep
<1>7. CASE UNCHANGED vars
  BY <1>7 DEF vars
<1>8. QED
  BY <1>1, <1>2, <1>3, <1>4, <1>5, <1>6, <1>7 DEF Next

-----------------------------------------------------------------------------
(* What the steps do to one fetch                                          *)

\* The fetch c goes from one phase to another with this frame and this count of
\* what it has sent.
Goes(c, from, to, f, sent) ==
  /\ pc[c] = from
  /\ pc' = [pc EXCEPT ![c] = to]
  /\ frame' = [frame EXCEPT ![c] = f]
  /\ sends' = [sends EXCEPT ![c] = sent]

Retrying(f) == [f EXCEPT !.accountRetried = TRUE]
Waiting(f, timer) == [f EXCEPT !.timer = timer]
BackingOff(f, timer) ==
  [f EXCEPT !.timer = timer, !.upstreamAttempts = @ + 1]

\* The ways a fetch may go, by the function or handler they are in.
Starts(c) ==
  \E b \in QueueBudgets, m \in Models \cup {NoModel} :
    /\ Goes(c, "idle", "acquiring",
            [frame[c] EXCEPT !.deadline = now + b, !.model = m], sends[c])
    /\ Joins(c, now + b, m)
    /\ UNCHANGED <<log, announced>>

HeadGoes(to, f) ==
  /\ line # << >>
  /\ \E c \in Callers :
       /\ c = Head(line).caller
       /\ pc' = [pc EXCEPT ![c] = to]
       /\ frame' = [frame EXCEPT ![c] = f[c]]
  /\ line' = Tail(line)
  /\ UNCHANGED <<sends, announced>>

Sends(c) ==
  /\ Goes(c, "admitted", "inflight", Waiting(frame[c], now + MaxLatency), sends[c] + 1)
  /\ UNCHANGED <<line, log, announced>>

Ends(c) ==
  /\ \E to \in Settled : Goes(c, "inflight", to, NoFrame, sends[c])
  /\ UNCHANGED <<line, log>>

Retries(c) ==
  /\ ~ frame[c].accountRetried
  /\ Goes(c, "inflight", "acquiring", Retrying(frame[c]), sends[c])
  /\ Joins(c, frame[c].deadline, frame[c].model)
  /\ UNCHANGED log

BacksOff(c) ==
  /\ frame[c].upstreamAttempts < Len(UpstreamDelays)
  /\ \E timer \in Nat :
       Goes(c, "inflight", "backoff", BackingOff(frame[c], timer), sends[c])
  /\ UNCHANGED <<line, log, announced>>

Resumes(c) ==
  /\ Goes(c, "backoff", "acquiring", frame[c], sends[c])
  /\ Joins(c, frame[c].deadline, frame[c].model)
  /\ UNCHANGED <<log, announced>>

LEMMA StartGoes ==
  ASSUME FetchTypeOK, NEW c \in Callers, NEW b \in QueueBudgets,
         NEW m \in Models \cup {NoModel}, Start(c, b, m)
  PROVE  Starts(c)
<1>1. frame' = [frame EXCEPT ![c] = [frame[c] EXCEPT !.deadline = now + b, !.model = m]]
  BY DEF Start
<1>2. sends' = [sends EXCEPT ![c] = sends[c]]
  BY DEF Start, FetchTypeOK
<1>3. QED
  BY <1>1, <1>2 DEF Start, Goto, Goes, Starts, Acquire

LEMMA AdmissionGoes ==
  ASSUME FetchTypeOK, Admission
  PROVE  \/ /\ HeadGoes("admitted", frame)
            /\ \E k \in forgotten .. Len(log) : AdmitDispatch(k)
         \/ HeadGoes("limited", [c \in Callers |-> NoFrame]) /\ UNCHANGED log
         \/ UNCHANGED <<line, log, fetchVars>>
<1>1. line # << >> /\ Head(line).caller \in Callers
  BY HeadIsTicket DEF Admission, FetchTypeOK, Ticket
<1>2. frame = [frame EXCEPT ![Head(line).caller] = frame[Head(line).caller]]
  BY DEF FetchTypeOK
<1>3. ASSUME NEW k \in forgotten .. Len(log), Admitted(k)
      PROVE  HeadGoes("admitted", frame) /\ AdmitDispatch(k)
  BY <1>1, <1>2, <1>3 DEF Admitted, AdmitDispatch, Goto, HeadGoes
<1>4. ASSUME NEW k \in forgotten .. Len(log), NEW t, Refused(k, t)
      PROVE  HeadGoes("limited", [c \in Callers |-> NoFrame]) /\ UNCHANGED log
  BY <1>1, <1>4 DEF Refused, AdmitRefuse, Settle, Goto, HeadGoes
<1>5. ASSUME NEW k \in forgotten .. Len(log), NEW t, Sleeps(k, t)
      PROVE  UNCHANGED <<line, log, fetchVars>>
  BY <1>5 DEF Sleeps, AdmitSleep
<1>6. QED
  BY <1>3, <1>4, <1>5 DEF Admission

LEMMA SendGoes ==
  ASSUME FetchTypeOK, NEW c \in Callers, Send(c)
  PROVE  Sends(c)
BY DEF Send, Goto, Goes, Waiting, Sends, limiterVars, FetchTypeOK

LEMMA ResumeGoes ==
  ASSUME FetchTypeOK, NEW c \in Callers, Resume(c)
  PROVE  Resumes(c)
<1>1. /\ frame' = [frame EXCEPT ![c] = frame[c]]
      /\ sends' = [sends EXCEPT ![c] = sends[c]]
  BY DEF Resume, FetchTypeOK
<1>2. QED
  BY <1>1 DEF Resume, Goto, Goes, Resumes, Acquire

Announces(ms) == announced' = announced \cup {[at |-> now, until |-> now + ms]}

LEMMA AccountLimitGoes ==
  ASSUME FetchTypeOK, NEW c \in Callers, NEW ms, AnswerAccountLimit(c, ms),
         UNCHANGED log
  PROVE  (Ends(c) \/ Retries(c)) /\ Announces(ms)
<1>1. sends' = [sends EXCEPT ![c] = sends[c]] /\ pc[c] = "inflight"
  BY DEF AnswerAccountLimit, FetchTypeOK
<1>2. CASE GivesUp(c, ms)
  BY <1>1, <1>2
  DEF AnswerAccountLimit, Settle, Goto, Goes, Ends, Settled, Announces
<1>3. CASE ~ GivesUp(c, ms)
  <2>1. frame' = [frame EXCEPT ![c] = [frame[c] EXCEPT !.accountRetried = TRUE]]
    BY <1>3 DEF AnswerAccountLimit
  <2>2. ~ frame[c].accountRetried
    BY <1>3 DEF GivesUp
  <2>3. QED
    BY <1>1, <1>3, <2>1, <2>2
    DEF AnswerAccountLimit, Goto, Goes, Retries, Retrying, Announces
<1>4. QED
  BY <1>2, <1>3

\* An account limit is announced for as long as the limiter blocks for it.
Blocks == \E ms \in Nat : Announces(ms) /\ NoteAccountRateLimited(ms)

LEMMA RespondGoes ==
  ASSUME FetchTypeOK, NEW c \in Callers, Respond(c)
  PROVE  \/ (Ends(c) \/ BacksOff(c)) /\ UNCHANGED announced
         \/ (Ends(c) \/ Retries(c)) /\ Blocks
<1>1. sends = [sends EXCEPT ![c] = sends[c]]
  BY DEF FetchTypeOK
<1>2. CASE Answer(c) \/ Fail(c) \/ DailyLimit(c)
  BY <1>1, <1>2
  DEF Answer, NoteSuccess, Fail, DailyLimit, limiterVars, Settle, Goto, Goes, Ends,
      Settled
<1>3. CASE UpstreamGivesUp(c)
  BY <1>1, <1>3
  DEF UpstreamGivesUp, NoteModelCooldown, limiterVars, Settle, Goto, Goes, Ends, Settled
<1>4. CASE UpstreamRetry(c)
  <2> DEFINE base == UpstreamDelays[frame[c].upstreamAttempts + 1]
  <2>1. frame[c].upstreamAttempts \in Nat /\ base \in Nat \ {0}
    <3>1. frame[c].upstreamAttempts \in 0 .. Len(UpstreamDelays)
      BY DEF FetchTypeOK, Frame
    <3>2. frame[c].upstreamAttempts < Len(UpstreamDelays)
      BY <1>4 DEF UpstreamRetry
    <3> DEFINE i == frame[c].upstreamAttempts + 1
    <3>3. i \in 1 .. Len(UpstreamDelays)
      BY <3>1, <3>2, DelaysAreNumbers
    <3> HIDE DEF i
    <3>4. UpstreamDelays[i] \in Nat \ {0}
      BY <3>3, DelaysAreNumbers
    <3>5. QED
      BY <3>1, <3>4 DEF i
  <2>2. PICK jitter \in 0 .. base - 1 :
          frame' = [frame EXCEPT ![c] = BackingOff(frame[c], now + base + jitter)]
    BY <1>4 DEF UpstreamRetry, BackingOff
  <2>3. now + base + jitter \in Nat
    <3>1. now \in Nat
      BY DelaysAreNumbers
    <3> HIDE DEF base
    <3>2. QED
      BY <2>1, <3>1
  <2>4. QED
    BY <1>1, <1>4, <2>2, <2>3 DEF UpstreamRetry, Goto, Goes, BacksOff, limiterVars
<1>5. ASSUME NEW ms \in RetryAfters, StatedLimit(c, ms)
      PROVE  (Ends(c) \/ Retries(c)) /\ Blocks
  <2>1. /\ AnswerAccountLimit(c, ms) /\ NoteAccountRateLimited(ms)
        /\ UNCHANGED log /\ ms \in Nat
    BY <1>5, FetchAssumption
    DEF StatedLimit, NoteStatedLimit, NoteAccountRateLimited
  <2>2. QED
    BY <2>1, AccountLimitGoes DEF Blocks
<1>6. ASSUME NEW k \in forgotten .. Len(log), HeaderlessLimit(c, k)
      PROVE  (Ends(c) \/ Retries(c)) /\ Blocks
  <2> DEFINE ms == HeaderlessBackoff(k)
  <2>1. /\ AnswerAccountLimit(c, ms) /\ NoteAccountRateLimited(ms) /\ UNCHANGED log
    BY <1>6 DEF HeaderlessLimit, NoteHeaderlessLimit, NoteAccountRateLimited
  <2>2. ms \in Nat
    BY BackoffIsADelay DEF FetchTypeOK
  <2> HIDE DEF ms
  <2>3. QED
    BY <2>1, <2>2, AccountLimitGoes DEF Blocks
<1>7. QED
  BY <1>2, <1>3, <1>4, <1>5, <1>6 DEF Respond, Limited429

\* All a step may do to the fetches, the line and the log.
LEMMA FetchSteps ==
  ASSUME FetchTypeOK, [Next]_vars
  PROVE  \/ UNCHANGED <<line, log, fetchVars>>
         \/ /\ HeadGoes("admitted", frame)
            /\ \E k \in forgotten .. Len(log) : AdmitDispatch(k)
         \/ HeadGoes("limited", [c \in Callers |-> NoFrame]) /\ UNCHANGED log
         \/ \E c \in Callers :
              \/ Starts(c) \/ Sends(c) \/ Resumes(c)
              \/ (Ends(c) \/ BacksOff(c)) /\ UNCHANGED announced
              \/ (Ends(c) \/ Retries(c)) /\ Blocks
<1>1. CASE Pass \/ UNCHANGED vars
  BY <1>1 DEF Pass, Tick, vars, limiterVars, fetchVars
<1>2. CASE Admission
  BY <1>2, AdmissionGoes
<1>3. ASSUME NEW c \in Callers, NEW b \in QueueBudgets,
             NEW m \in Models \cup {NoModel}, Start(c, b, m)
      PROVE  Starts(c)
  BY <1>3, StartGoes
<1>4. QED
  BY <1>1, <1>2, <1>3, SendGoes, ResumeGoes, RespondGoes DEF Next

-----------------------------------------------------------------------------
(* Types                                                                   *)

LEMMA NoFrameIsAFrame == NoFrame \in Frame
BY FetchAssumption, LenProperties DEF NoFrame, Frame

LEMMA GoesKeepsTypes ==
  ASSUME FetchTypeOK, NEW c \in Callers, NEW from, NEW to \in Phases,
         NEW f \in Frame, NEW sent \in Nat, Goes(c, from, to, f, sent)
  PROVE  /\ pc' \in [Callers -> Phases]
         /\ frame' \in [Callers -> Frame]
         /\ sends' \in [Callers -> Nat]
BY DEF FetchTypeOK, Goes

LEMMA FramesStayFrames ==
  ASSUME FetchTypeOK, NEW c \in Callers
  PROVE  /\ \A b \in QueueBudgets, m \in Models \cup {NoModel} :
              [frame[c] EXCEPT !.deadline = now + b, !.model = m] \in Frame
         /\ Waiting(frame[c], now + MaxLatency) \in Frame
         /\ Retrying(frame[c]) \in Frame
         /\ frame[c].upstreamAttempts < Len(UpstreamDelays) =>
              \A timer \in Nat : BackingOff(frame[c], timer) \in Frame
<1> DEFINE f == frame[c]
<1>1. f \in Frame /\ now \in Nat /\ MaxLatency \in Nat /\ Len(UpstreamDelays) \in Nat
  BY DelaysAreNumbers, FetchAssumption DEF FetchTypeOK
<1> HIDE DEF f
<1>2. \A b \in QueueBudgets, m \in Models \cup {NoModel} :
        [f EXCEPT !.deadline = now + b, !.model = m] \in Frame
  <2> SUFFICES ASSUME NEW b \in QueueBudgets, NEW m \in Models \cup {NoModel}
               PROVE  [f EXCEPT !.deadline = now + b, !.model = m] \in Frame
    OBVIOUS
  <2>1. now + b \in Nat
    BY <1>1, FetchAssumption
  <2>2. QED
    BY <1>1, <2>1 DEF Frame
<1>3. Waiting(f, now + MaxLatency) \in Frame
  <2>1. now + MaxLatency \in Nat
    BY <1>1
  <2>2. QED
    BY <1>1, <2>1 DEF Frame, Waiting
<1>4. Retrying(f) \in Frame
  BY <1>1 DEF Frame, Retrying
<1>5. ASSUME f.upstreamAttempts < Len(UpstreamDelays), NEW timer \in Nat
      PROVE  BackingOff(f, timer) \in Frame
  <2>1. f.upstreamAttempts + 1 \in 0 .. Len(UpstreamDelays)
    BY <1>1, <1>5 DEF Frame
  <2>2. QED
    BY <1>1, <2>1 DEF Frame, BackingOff
<1>6. QED
  BY <1>2, <1>3, <1>4, <1>5 DEF f

LEMMA FetchTypeStep == FetchTypeOK /\ [Next]_vars => FetchTypeOK'
<1> SUFFICES ASSUME FetchTypeOK, [Next]_vars
             PROVE  FetchTypeOK'
  OBVIOUS
<1>1. LimiterTypeOK'
  BY FetchesMove, TypeNext DEF FetchTypeOK
<1>2. announced' \subseteq Limited
  <2>1. CASE UNCHANGED announced
    BY <2>1 DEF FetchTypeOK
  <2>2. CASE Blocks
    BY <2>2, DelaysAreNumbers DEF Blocks, Announces, Limited, FetchTypeOK
  <2>3. QED
    BY <2>1, <2>2, FetchSteps DEF HeadGoes, Starts, Sends, Resumes, fetchVars
<1>3. /\ pc' \in [Callers -> Phases]
      /\ frame' \in [Callers -> Frame]
      /\ sends' \in [Callers -> Nat]
  <2>1. CASE UNCHANGED fetchVars
    BY <2>1 DEF FetchTypeOK, fetchVars
  <2>2. ASSUME NEW to \in Phases, NEW f \in [Callers -> Frame], HeadGoes(to, f)
        PROVE  /\ pc' \in [Callers -> Phases]
               /\ frame' \in [Callers -> Frame]
               /\ sends' \in [Callers -> Nat]
    BY <2>2 DEF HeadGoes, FetchTypeOK
  <2>3. CASE \/ HeadGoes("admitted", frame)
             \/ HeadGoes("limited", [c \in Callers |-> NoFrame])
    BY <2>2, <2>3, NoFrameIsAFrame DEF FetchTypeOK, Phases
  <2>4. ASSUME NEW c \in Callers, \/ Starts(c) \/ Sends(c) \/ Resumes(c)
                                  \/ Ends(c) \/ BacksOff(c) \/ Retries(c)
        PROVE  /\ pc' \in [Callers -> Phases]
               /\ frame' \in [Callers -> Frame]
               /\ sends' \in [Callers -> Nat]
    <3>1. /\ frame[c] \in Frame /\ sends[c] \in Nat /\ sends[c] + 1 \in Nat
          /\ {"acquiring", "inflight", "backoff"} \cup Settled \subseteq Phases
      BY DEF FetchTypeOK, Phases, Settled
    <3>2. CASE Starts(c)
      BY <3>1, <3>2, GoesKeepsTypes, FramesStayFrames DEF Starts
    <3>3. CASE Sends(c)
      BY <3>1, <3>3, GoesKeepsTypes, FramesStayFrames DEF Sends
    <3>4. CASE Resumes(c)
      BY <3>1, <3>4, GoesKeepsTypes DEF Resumes
    <3>5. CASE Ends(c)
      BY <3>1, <3>5, GoesKeepsTypes, NoFrameIsAFrame DEF Ends
    <3>6. CASE BacksOff(c)
      BY <3>1, <3>6, GoesKeepsTypes, FramesStayFrames DEF BacksOff
    <3>7. CASE Retries(c)
      BY <3>1, <3>7, GoesKeepsTypes, FramesStayFrames DEF Retries
    <3>8. QED
      BY <2>4, <3>2, <3>3, <3>4, <3>5, <3>6, <3>7
  <2>5. QED
    BY <2>1, <2>3, <2>4, FetchSteps
<1>4. QED
  BY <1>1, <1>2, <1>3 DEF FetchTypeOK

-----------------------------------------------------------------------------
(* The line                                                                *)

InLine(c) == \E i \in 1 .. Len(line) : line[i].caller = c

\* Nobody waits twice, and who waits says so.
LineIsOfWaiters ==
  /\ \A i, j \in 1 .. Len(line) : line[i].caller = line[j].caller => i = j
  /\ \A c \in Callers : InLine(c) <=> pc[c] = "acquiring"

LEMMA JoiningTheLine ==
  ASSUME FetchTypeOK, LineIsOfWaiters, NEW c \in Callers, NEW d \in Nat,
         NEW m \in Models \cup {NoModel}, Joins(c, d, m),
         pc[c] # "acquiring", pc' = [pc EXCEPT ![c] = "acquiring"]
  PROVE  LineIsOfWaiters'
<1> DEFINE n == Len(line)
           t == [caller |-> c, deadline |-> d, model |-> m]
<1>1. t \in Ticket /\ t.caller = c
  BY DEF Ticket
<1>2. /\ n \in Nat
      /\ Len(line') = n + 1
      /\ \A i \in 1 .. n : line'[i] = line[i]
      /\ line'[n + 1] = t
  BY <1>1, AppendProperties, LenProperties DEF Joins, FetchTypeOK, LimiterTypeOK
<1>3. \A i \in 1 .. n : line[i].caller # c
  BY DEF LineIsOfWaiters, InLine
<1>4. \A i \in 1 .. n + 1 : i \in 1 .. n \/ i = n + 1
  BY <1>2
<1> HIDE DEF t
<1>5. \A i, j \in 1 .. n + 1 : line'[i].caller = line'[j].caller => i = j
  <2> SUFFICES ASSUME NEW i \in 1 .. n + 1, NEW j \in 1 .. n + 1,
                      line'[i].caller = line'[j].caller
               PROVE  i = j
    OBVIOUS
  <2>1. CASE i \in 1 .. n /\ j \in 1 .. n
    BY <1>2, <2>1 DEF LineIsOfWaiters
  <2>2. CASE i = n + 1 \/ j = n + 1
    BY <1>1, <1>2, <1>3, <1>4, <2>2
  <2>3. QED
    BY <1>4, <2>1, <2>2
<1>6. \A u \in Callers : InLine(u)' <=> InLine(u) \/ u = c
  <2> SUFFICES ASSUME NEW u \in Callers
               PROVE  InLine(u)' <=> InLine(u) \/ u = c
    OBVIOUS
  <2>1. InLine(u)' => InLine(u) \/ u = c
    BY <1>1, <1>2, <1>4 DEF InLine
  <2>2. InLine(u) => InLine(u)'
    <3>1. \A i \in 1 .. n : i \in 1 .. n + 1
      BY <1>2
    <3>2. QED
      BY <1>2, <3>1 DEF InLine
  <2>3. InLine(c)'
    <3>1. n + 1 \in 1 .. n + 1
      BY <1>2
    <3>2. QED
      BY <1>1, <1>2, <3>1 DEF InLine
  <2>4. QED
    BY <2>1, <2>2, <2>3
<1>7. QED
  BY <1>2, <1>5, <1>6 DEF LineIsOfWaiters, FetchTypeOK

LEMMA LeavingTheLine ==
  ASSUME FetchTypeOK, LineIsOfWaiters, NEW to, to # "acquiring", NEW f, HeadGoes(to, f)
  PROVE  LineIsOfWaiters'
<1> DEFINE n == Len(line)
<1>1. PICK c \in Callers : c = Head(line).caller /\ pc' = [pc EXCEPT ![c] = to]
  BY DEF HeadGoes
<1>2. /\ n \in Nat \ {0}
      /\ Len(line') = n - 1
      /\ \A i \in 1 .. n - 1 : line'[i] = line[i + 1]
  BY HeadTailProperties, LenProperties, EmptySeq DEF HeadGoes, FetchTypeOK, LimiterTypeOK
<1>3. line[1].caller = c
  BY <1>1
<1>4. \A i \in 1 .. n - 1 : i + 1 \in 1 .. n /\ i + 1 # 1
  BY <1>2
<1>5. \A i, j \in 1 .. n - 1 : line'[i].caller = line'[j].caller => i = j
  <2> SUFFICES ASSUME NEW i \in 1 .. n - 1, NEW j \in 1 .. n - 1,
                      line'[i].caller = line'[j].caller
               PROVE  i = j
    OBVIOUS
  <2>1. i + 1 = j + 1
    BY <1>2, <1>4 DEF LineIsOfWaiters
  <2>2. QED
    BY <2>1
<1>6. \A u \in Callers : InLine(u)' <=> InLine(u) /\ u # c
  <2> SUFFICES ASSUME NEW u \in Callers
               PROVE  InLine(u)' <=> InLine(u) /\ u # c
    OBVIOUS
  <2>1. ASSUME NEW i \in 1 .. n - 1, line'[i].caller = u
        PROVE  InLine(u) /\ u # c
    <3>1. i + 1 \in 1 .. n /\ 1 \in 1 .. n /\ line[i + 1].caller = u
      BY <1>2, <1>4, <2>1
    <3>2. u # c
      BY <1>3, <1>4, <3>1 DEF LineIsOfWaiters
    <3>3. QED
      BY <3>1, <3>2 DEF InLine
  <2>2. ASSUME NEW i \in 1 .. n, line[i].caller = u, u # c
        PROVE  InLine(u)'
    <3>1. i - 1 \in 1 .. n - 1 /\ (i - 1) + 1 = i
      BY <1>2, <1>3, <2>2
    <3>2. line'[i - 1].caller = u
      BY <1>2, <2>2, <3>1
    <3>3. QED
      BY <1>2, <3>1, <3>2 DEF InLine
  <2>3. QED
    BY <1>2, <2>1, <2>2 DEF InLine
<1>7. \A u \in Callers : pc'[u] = "acquiring" <=> pc[u] = "acquiring" /\ u # c
  BY <1>1 DEF FetchTypeOK
<1>8. QED
  BY <1>2, <1>5, <1>6, <1>7 DEF LineIsOfWaiters

LEMMA LineStep == FetchTypeOK /\ LineIsOfWaiters /\ [Next]_vars => LineIsOfWaiters'
<1> SUFFICES ASSUME FetchTypeOK, LineIsOfWaiters, [Next]_vars
             PROVE  LineIsOfWaiters'
  OBVIOUS
<1>1. CASE UNCHANGED <<line, log, fetchVars>>
  BY <1>1 DEF LineIsOfWaiters, InLine, fetchVars
<1>2. ASSUME NEW to \in {"admitted", "limited"}, NEW f, HeadGoes(to, f)
      PROVE  LineIsOfWaiters'
  BY <1>2, LeavingTheLine
<1>3. ASSUME NEW c \in Callers, Starts(c) \/ Resumes(c) \/ Retries(c)
      PROVE  LineIsOfWaiters'
  <2>1. PICK d \in Nat, m \in Models \cup {NoModel} : Joins(c, d, m)
    <3>1. CASE Starts(c)
      <4>1. PICK b \in QueueBudgets, m \in Models \cup {NoModel} : Joins(c, now + b, m)
        BY <3>1 DEF Starts
      <4>2. now + b \in Nat
        BY DelaysAreNumbers, FetchAssumption
      <4>3. QED
        BY <4>1, <4>2
    <3>2. CASE Resumes(c) \/ Retries(c)
      BY <3>2, DelaysAreNumbers DEF Resumes, Retries
    <3>3. QED
      BY <1>3, <3>1, <3>2
  <2>2. pc[c] # "acquiring" /\ pc' = [pc EXCEPT ![c] = "acquiring"]
    BY <1>3 DEF Starts, Resumes, Retries, Goes
  <2>3. QED
    BY <2>1, <2>2, JoiningTheLine
<1>4. ASSUME NEW c \in Callers, Sends(c) \/ Ends(c) \/ BacksOff(c)
      PROVE  LineIsOfWaiters'
  <2>1. UNCHANGED line
    BY <1>4 DEF Sends, Ends, BacksOff
  <2>2. \A u \in Callers : pc'[u] = "acquiring" <=> pc[u] = "acquiring"
    BY <1>4 DEF Sends, Ends, BacksOff, Goes, FetchTypeOK, Settled
  <2>3. QED
    BY <2>1, <2>2 DEF LineIsOfWaiters, InLine
<1>5. QED
  BY <1>1, <1>2, <1>3, <1>4, FetchSteps

LEMMA WaitersHaveOnePlace == FetchTypeOK /\ LineIsOfWaiters => OnePlaceInLine
<1> SUFFICES ASSUME FetchTypeOK, LineIsOfWaiters, NEW c \in Callers
             PROVE  Cardinality({i \in 1 .. Len(line) : line[i].caller = c})
                      = (IF pc[c] = "acquiring" THEN 1 ELSE 0)
  BY DEF OnePlaceInLine
<1> DEFINE places == {i \in 1 .. Len(line) : line[i].caller = c}
<1>1. CASE pc[c] = "acquiring"
  <2>1. PICK i \in 1 .. Len(line) : line[i].caller = c
    BY <1>1 DEF LineIsOfWaiters, InLine
  <2>2. places = {i}
    BY <2>1 DEF LineIsOfWaiters
  <2> HIDE DEF places
  <2>3. Cardinality(places) = 1
    BY <2>2, FS_Singleton
  <2>4. QED
    BY <1>1, <2>3 DEF places
<1>2. CASE pc[c] # "acquiring"
  <2>1. places = {}
    BY <1>2 DEF LineIsOfWaiters, InLine
  <2> HIDE DEF places
  <2>2. Cardinality(places) = 0
    BY <2>1, FS_EmptySet
  <2>3. QED
    BY <1>2, <2>2 DEF places
<1>3. QED
  BY <1>1, <1>2

-----------------------------------------------------------------------------
(* What was sent                                                           *)

\* The retries a fetch has used, of both kinds.
Spent(f) == f.upstreamAttempts + (IF f.accountRetried THEN 1 ELSE 0)

\* A fetch has sent once for every retry it used, and once more when a response
\* is due.
SentAsAccounted(phase, f, sent) ==
  /\ phase = "idle" => f = NoFrame /\ sent = 0
  /\ phase \in {"acquiring", "admitted", "backoff"} => sent = Spent(f)
  /\ phase = "inflight" => sent = Spent(f) + 1
  /\ sent <= 2 + Len(UpstreamDelays)

SendsAccounted == \A c \in Callers : SentAsAccounted(pc[c], frame[c], sends[c])

LEMMA RetriesAreFew ==
  ASSUME NEW f \in Frame
  PROVE  Spent(f) \in Nat /\ Spent(f) <= 1 + Len(UpstreamDelays)
BY FetchAssumption, LenProperties DEF Frame, Spent

LEMMA GoesAlone ==
  ASSUME FetchTypeOK, SendsAccounted, NEW c \in Callers, NEW from, NEW to,
         NEW f, NEW sent, Goes(c, from, to, f, sent), SentAsAccounted(to, f, sent)
  PROVE  SendsAccounted'
<1>1. \A u \in Callers \ {c} :
        pc'[u] = pc[u] /\ frame'[u] = frame[u] /\ sends'[u] = sends[u]
  BY DEF Goes, FetchTypeOK
<1>2. pc'[c] = to /\ frame'[c] = f /\ sends'[c] = sent
  BY DEF Goes, FetchTypeOK
<1>3. QED
  BY <1>1, <1>2 DEF SendsAccounted, SentAsAccounted

LEMMA SendsStep ==
  FetchTypeOK /\ LineIsOfWaiters /\ SendsAccounted /\ [Next]_vars => SendsAccounted'
<1> SUFFICES ASSUME FetchTypeOK, LineIsOfWaiters, SendsAccounted, [Next]_vars
             PROVE  SendsAccounted'
  OBVIOUS
<1>1. CASE UNCHANGED fetchVars
  BY <1>1 DEF SendsAccounted, SentAsAccounted, fetchVars
<1>2. ASSUME NEW to \in {"admitted", "limited"}, NEW f, HeadGoes(to, f),
             to = "admitted" => f = frame
      PROVE  SendsAccounted'
  <2>1. PICK c \in Callers : /\ c = Head(line).caller
                             /\ pc' = [pc EXCEPT ![c] = to]
                             /\ frame' = [frame EXCEPT ![c] = f[c]]
    BY <1>2 DEF HeadGoes
  <2>2. pc[c] = "acquiring"
    <3>1. 1 \in 1 .. Len(line) /\ line[1].caller = c
      BY <1>2, <2>1, LenProperties, EmptySeq DEF HeadGoes, FetchTypeOK, LimiterTypeOK
    <3>2. QED
      BY <3>1 DEF LineIsOfWaiters, InLine
  <2>3. Goes(c, "acquiring", to, f[c], sends[c])
    BY <1>2, <2>1, <2>2 DEF HeadGoes, Goes, FetchTypeOK
  <2>4. SentAsAccounted(to, f[c], sends[c])
    BY <1>2, <2>2 DEF SendsAccounted, SentAsAccounted
  <2>5. QED
    BY <2>3, <2>4, GoesAlone
<1>3. ASSUME NEW c \in Callers, \/ Starts(c) \/ Sends(c) \/ Resumes(c)
                                \/ Ends(c) \/ BacksOff(c) \/ Retries(c)
      PROVE  SendsAccounted'
  <2> DEFINE f == frame[c]
             s == sends[c]
             max == Len(UpstreamDelays)
  <2>1. /\ f \in Frame /\ s \in Nat /\ Spent(f) \in Nat /\ max \in Nat
        /\ Spent(f) <= 1 + max /\ SentAsAccounted(pc[c], f, s)
    BY RetriesAreFew, DelaysAreNumbers DEF FetchTypeOK, SendsAccounted
  <2> HIDE DEF f, s, max
  <2>2. CASE Starts(c)
    <3>1. PICK b \in QueueBudgets, m \in Models \cup {NoModel} :
            Goes(c, "idle", "acquiring", [f EXCEPT !.deadline = now + b, !.model = m], s)
      BY <2>2 DEF Starts, f, s
    <3>2. f = NoFrame /\ s = 0
      BY <2>1, <3>1 DEF Goes, SentAsAccounted
    <3>3. SentAsAccounted("acquiring", [f EXCEPT !.deadline = now + b, !.model = m], s)
      BY <2>1, <3>2 DEF SentAsAccounted, Spent, NoFrame, max
    <3>4. QED
      BY <3>1, <3>3, GoesAlone
  <2>3. CASE Sends(c)
    <3> DEFINE g == Waiting(f, now + MaxLatency)
    <3>1. Goes(c, "admitted", "inflight", g, s + 1)
      BY <2>3 DEF Sends, f, s
    <3>2. s = Spent(f)
      BY <2>1, <3>1 DEF Goes, SentAsAccounted
    <3>3. Spent(g) = Spent(f)
      BY <2>1 DEF Spent, Waiting, Frame
    <3> HIDE DEF g
    <3>4. SentAsAccounted("inflight", g, s + 1)
      BY <2>1, <3>2, <3>3 DEF SentAsAccounted, max
    <3>5. QED
      BY <3>1, <3>4, GoesAlone
  <2>4. CASE Resumes(c)
    <3>1. Goes(c, "backoff", "acquiring", f, s)
      BY <2>4 DEF Resumes, f, s
    <3>2. SentAsAccounted("acquiring", f, s)
      BY <2>1, <3>1 DEF Goes, SentAsAccounted
    <3>3. QED
      BY <3>1, <3>2, GoesAlone
  <2>5. CASE Ends(c)
    <3>1. PICK to \in Settled : Goes(c, "inflight", to, NoFrame, s)
      BY <2>5 DEF Ends, s
    <3>2. SentAsAccounted(to, NoFrame, s)
      BY <2>1 DEF SentAsAccounted, Settled
    <3>3. QED
      BY <3>1, <3>2, GoesAlone
  <2>6. CASE BacksOff(c)
    <3>1. PICK timer \in Nat : Goes(c, "inflight", "backoff", BackingOff(f, timer), s)
      BY <2>6 DEF BacksOff, f, s
    <3> DEFINE g == BackingOff(f, timer)
    <3>2. s = Spent(f) + 1
      BY <2>1, <3>1 DEF Goes, SentAsAccounted
    <3>3. Spent(g) = Spent(f) + 1
      BY <2>1 DEF Spent, BackingOff, Frame
    <3> HIDE DEF g
    <3>4. SentAsAccounted("backoff", g, s)
      BY <2>1, <3>2, <3>3 DEF SentAsAccounted
    <3>5. QED
      BY <3>1, <3>4, GoesAlone DEF g
  <2>7. CASE Retries(c)
    <3>1. /\ Goes(c, "inflight", "acquiring", Retrying(f), s)
          /\ ~ f.accountRetried
      BY <2>7 DEF Retries, f, s
    <3> DEFINE g == Retrying(f)
    <3>2. s = Spent(f) + 1
      BY <2>1, <3>1 DEF Goes, SentAsAccounted
    <3>3. Spent(g) = Spent(f) + 1
      BY <2>1, <3>1 DEF Spent, Retrying, Frame
    <3> HIDE DEF g
    <3>4. SentAsAccounted("acquiring", g, s)
      BY <2>1, <3>2, <3>3 DEF SentAsAccounted
    <3>5. QED
      BY <3>1, <3>4, GoesAlone DEF g
  <2>8. QED
    BY <1>3, <2>2, <2>3, <2>4, <2>5, <2>6, <2>7
<1>4. QED
  BY <1>1, <1>2, <1>3, FetchSteps

-----------------------------------------------------------------------------
(* Account limits                                                          *)

\* The limiter blocks until the end of every limit announced so far.
LimitsKept ==
  /\ \A a \in announced : a.at <= now /\ a.until <= blockedUntil
  /\ LimitsHonoured

\* Neither the clock nor the block goes back, whatever the callers note.
LEMMA BlockGrows ==
  ASSUME LimiterTypeOK, [LimiterMoves]_limiterVars
  PROVE  now' >= now /\ blockedUntil' >= blockedUntil
<1>1. now \in Nat /\ blockedUntil \in Nat
  BY DEF LimiterTypeOK
<1>2. ASSUME NEW ms \in Nat, NoteAccountRateLimited(ms)
      PROVE  now' >= now /\ blockedUntil' >= blockedUntil
  BY <1>1, <1>2 DEF NoteAccountRateLimited, Later
<1>3. ASSUME NEW ms \in Nat, NoteStatedLimit(ms)
      PROVE  now' >= now /\ blockedUntil' >= blockedUntil
  BY <1>2, <1>3 DEF NoteStatedLimit
<1>4. ASSUME NEW k \in forgotten .. Len(log), NoteHeaderlessLimit(k)
      PROVE  now' >= now /\ blockedUntil' >= blockedUntil
  <2>1. HeaderlessBackoff(k) \in Nat /\ NoteAccountRateLimited(HeaderlessBackoff(k))
    BY <1>4, BackoffIsADelay DEF NoteHeaderlessLimit
  <2> HIDE DEF HeaderlessBackoff
  <2>2. QED
    BY <1>2, <2>1
<1>5. CASE \/ \E ms \in Nat : NoteStatedLimit(ms)
           \/ \E k \in forgotten .. Len(log) : NoteHeaderlessLimit(k)
  BY <1>3, <1>4, <1>5
<1>6. CASE Tick
  BY <1>1, <1>6 DEF Tick
<1>7. CASE UNCHANGED <<now, blockedUntil>>
  BY <1>1, <1>7
<1>8. QED
  BY <1>5, <1>6, <1>7
  DEF LimiterMoves, LimiterStep, Acquire, AdmitDispatch, AdmitRefuse, AdmitSleep,
      NoteModelCooldown, NoteSuccess, limiterVars

LEMMA LimitsStep ==
  FetchTypeOK /\ IInv /\ LimitsKept /\ [Next]_vars => LimitsKept'
<1> SUFFICES ASSUME FetchTypeOK, IInv, LimitsKept, [Next]_vars
             PROVE  LimitsKept'
  OBVIOUS
<1>1. /\ now \in Nat /\ now' \in Nat /\ now' >= now
      /\ blockedUntil \in Nat /\ blockedUntil' \in Nat
      /\ blockedUntil' >= blockedUntil
      /\ \A a \in announced : a.at \in Nat /\ a.until \in Nat
  BY BlockGrows, FetchesMove, FetchTypeStep DEF FetchTypeOK, LimiterTypeOK, Limited
<1>2. \A a \in announced : a.at <= now' /\ a.until <= blockedUntil'
  <2> SUFFICES ASSUME NEW a \in announced
               PROVE  a.at <= now' /\ a.until <= blockedUntil'
    OBVIOUS
  <2>1. /\ a.at <= now /\ a.until <= blockedUntil
        /\ a.at \in Nat /\ a.until \in Nat
    BY <1>1 DEF LimitsKept
  <2>2. QED
    BY <1>1, <2>1
<1>3. CASE UNCHANGED <<log, announced>>
  BY <1>2, <1>3 DEF LimitsKept, LimitsHonoured
<1>4. ASSUME NEW k \in forgotten .. Len(log), AdmitDispatch(k), UNCHANGED announced
      PROVE  LimitsKept'
  <2> DEFINE n == Len(log)
  <2>1. /\ n \in Nat /\ Len(log') = n + 1 /\ log'[n + 1] = now
        /\ \A i \in 1 .. n : log'[i] = log[i]
    BY <1>4, AppendProperties, LenProperties
    DEF AdmitDispatch, FetchTypeOK, LimiterTypeOK
  <2>2. blockedUntil <= now
    BY <1>4 DEF AdmitDispatch, IsRelease, Releases
  <2>3. ASSUME NEW a \in announced', NEW i \in 1 .. n + 1
        PROVE  ~ (a.at < log'[i] /\ log'[i] < a.until)
    <3>1. a \in announced /\ a.until <= blockedUntil /\ a.until \in Nat
      BY <1>1, <1>4, <2>3 DEF LimitsKept
    <3>2. CASE i \in 1 .. n
      BY <2>1, <3>1, <3>2 DEF LimitsKept, LimitsHonoured
    <3>3. CASE i = n + 1
      <4>1. log'[i] = now
        BY <2>1, <3>3
      <4>2. QED
        BY <1>1, <2>2, <3>1, <4>1
    <3>4. QED
      BY <2>1, <3>2, <3>3
  <2>4. QED
    BY <1>2, <1>4, <2>1, <2>3 DEF LimitsKept, LimitsHonoured
<1>5. CASE Blocks /\ UNCHANGED log
  <2>1. PICK ms \in Nat : Announces(ms) /\ NoteAccountRateLimited(ms)
    BY <1>5 DEF Blocks
  <2> DEFINE b == [at |-> now, until |-> now + ms]
  <2>2. announced' = announced \cup {b} /\ b.at = now /\ b.until = now + ms
    BY <2>1 DEF Announces
  <2>3. b.at <= now' /\ b.until <= blockedUntil'
    BY <1>1, <2>1, <2>2 DEF NoteAccountRateLimited, Later
  <2>4. \A i \in 1 .. Len(log) : log[i] \in Nat /\ log[i] <= now
    BY ElementOfSeq DEF IInv, LimiterTypeOK, LogInOrder
  <2>5. \A i \in 1 .. Len(log) : ~ (b.at < log[i])
    BY <1>1, <2>2, <2>4
  <2> HIDE DEF b
  <2>6. LimitsHonoured'
    BY <1>5, <2>2, <2>5 DEF LimitsKept, LimitsHonoured
  <2>7. QED
    BY <1>2, <2>2, <2>3, <2>6 DEF LimitsKept
<1>6. QED
  BY <1>3, <1>4, <1>5, FetchSteps
  DEF HeadGoes, Starts, Sends, Resumes, Ends, BacksOff, Retries, fetchVars

-----------------------------------------------------------------------------
(* Theorems                                                                *)

FetchIInv ==
  FetchTypeOK /\ IInv /\ LineIsOfWaiters /\ SendsAccounted /\ LimitsKept

LEMMA FetchIInvInit == Init => FetchIInv
<1> SUFFICES ASSUME Init PROVE FetchIInv
  OBVIOUS
<1>1. LimiterInit /\ IInv /\ LimiterTypeOK
  BY IInvInit DEF Init, IInv
<1>2. Len(log) = 0 /\ Len(line) = 0
  BY <1>1, EmptySeq DEF LimiterInit
<1>3. FetchTypeOK
  BY <1>1, NoFrameIsAFrame DEF Init, FetchTypeOK, Phases
<1>4. LineIsOfWaiters
  BY <1>2 DEF Init, LineIsOfWaiters, InLine
<1>5. SendsAccounted
  <2>1. Len(UpstreamDelays) \in Nat
    BY FetchAssumption, LenProperties
  <2>2. SentAsAccounted("idle", NoFrame, 0)
    BY <2>1 DEF SentAsAccounted
  <2>3. QED
    BY <2>2 DEF Init, SendsAccounted
<1>6. LimitsKept
  BY DEF Init, LimitsKept, LimitsHonoured
<1>7. QED
  BY <1>1, <1>3, <1>4, <1>5, <1>6 DEF FetchIInv

LEMMA FetchIInvStep == FetchIInv /\ [Next]_vars => FetchIInv'
BY FetchTypeStep, FetchesMove, IInvNext, LineStep, SendsStep, LimitsStep DEF FetchIInv

LEMMA FetchIInvAlways == Spec => []FetchIInv
<1>1. Spec => Init /\ [][Next]_vars
  BY DEF Spec
<1>2. QED
  BY <1>1, FetchIInvInit, FetchIInvStep, PTL

\* A fetch waits in line exactly once, and exactly while it is in acquire,
\* however its own retries and the refusals of others interleave.
THEOREM WaitersWaitOnce == Spec => []OnePlaceInLine
<1>1. FetchIInv => OnePlaceInLine
  BY WaitersHaveOnePlace DEF FetchIInv
<1>2. QED
  BY <1>1, FetchIInvAlways, PTL

\* One request, two upstream retries and one account retry are the most a fetch
\* ever sends: every send but the first is paid for by a retry.
THEOREM AttemptsAreBounded == Spec => []AttemptsBounded
<1>1. FetchIInv => AttemptsBounded
  BY DEF FetchIInv, SendsAccounted, SentAsAccounted, AttemptsBounded
<1>2. QED
  BY <1>1, FetchIInvAlways, PTL

\* Whatever limits the service announces, in whatever order and however they
\* overlap, no request is admitted while one of them lasts.
THEOREM AnnouncedLimitsHold == Spec => []LimitsHonoured
<1>1. FetchIInv => LimitsHonoured
  BY DEF FetchIInv, LimitsKept
<1>2. QED
  BY <1>1, FetchIInvAlways, PTL

\* The fetches of all turns together keep the window's cap.
THEOREM FetchesKeepWindowCap == Spec => []WindowCap
<1>1. FetchIInv => WindowCap
  BY DEF FetchIInv, IInv
<1>2. QED
  BY <1>1, FetchIInvAlways, PTL

\* Composed with its callers, the limiter still implements the abstract gate.
THEOREM FetchesImplementGate == Spec => ImplementsGate
<1>1. Init => Gate!GateInit
  BY InitRefines DEF Init
<1>2. FetchIInv /\ [Next]_vars => [Gate!GateNext]_<<now, log>>
  BY FetchesMove, MovesRefine DEF FetchIInv
<1>3. Spec => Init /\ [][Next]_vars
  BY DEF Spec
<1>4. QED
  BY <1>1, <1>2, <1>3, FetchIInvAlways, PTL DEF ImplementsGate, Gate!GateSpec

\* The callers the program has use the limiter only as LimiterSpec allows any
\* caller to, so every theorem about it is one about them.  (Times bounds the
\* delays for TLC alone.)
THEOREM FetchesImplementLimiter ==
  ASSUME Times = Nat
  PROVE  Spec => ImplementsLimiter
<1>1. Init => LimiterInit
  BY DEF Init
<1>2. FetchIInv /\ [Next]_vars => [LimiterNext]_limiterVars
  BY FetchesMove DEF FetchIInv, LimiterNext, LimiterMoves
<1>3. Spec => Init /\ [][Next]_vars
  BY DEF Spec
<1>4. QED
  BY <1>1, <1>2, <1>3, FetchIInvAlways, PTL DEF ImplementsLimiter, LimiterSpec

=============================================================================
