------------------------ MODULE SearchService_proofs ------------------------
(***************************************************************************)
(* The product search, from the inside out.  The breaker keeps its entries *)
(* as it should whoever asks it and records with it; the fan-out uses it   *)
(* as it allows, reports nothing after its end, and only probes decide a   *)
(* half-open chain; the result cache in front of the fan-out stores what   *)
(* every chain has answered, and refreshes a query once at a time.  All    *)
(* this for any number of searches, queries and chains, and any window,    *)
(* volume, rate, cooldown and number of successes; the one fact about the  *)
(* numbers that is needed is that no chain's budget is as long as the      *)
(* cooldown.                                                               *)
(***************************************************************************)
EXTENDS SearchService, FiniteSetTheorems, SequenceTheorems, TLAPS

(***************************************************************************)
(* ChainHealthBreaker: what one operation makes of one entry.              *)
(***************************************************************************)

-----------------------------------------------------------------------------
(* The window                                                              *)

LEMMA CardinalityOfRange ==
  ASSUME NEW n \in Nat
  PROVE  IsFiniteSet(1 .. n) /\ Cardinality(1 .. n) = n
<1>1. 1 \in Int /\ n \in Int
  OBVIOUS
<1>2. /\ IsFiniteSet(1 .. n)
      /\ Cardinality(1 .. n) = IF 1 > n THEN 0 ELSE n - 1 + 1
  BY <1>1, FS_Interval, Zenon
<1>3. QED
  BY <1>2

\* Filtering by age drops the first outcomes and keeps the rest in place.
LEMMA InWindowIsASuffix ==
  ASSUME NEW s \in Seq(Outcome)
  PROVE  \E d \in Nat :
           /\ InWindow(s) \in Seq(Outcome)
           /\ Len(InWindow(s)) + d = Len(s)
           /\ \A i \in 1 .. Len(InWindow(s)) : InWindow(s)[i] = s[d + i]
<1> DEFINE kept == {i \in 1 .. Len(s) : now - s[i].at < Window}
           d == Len(s) - Cardinality(kept)
<1>1. Len(s) \in Nat
  BY LenProperties
<1>2. IsFiniteSet(1 .. Len(s)) /\ Cardinality(1 .. Len(s)) = Len(s)
  BY <1>1, CardinalityOfRange
<1>3. Cardinality(kept) \in Nat /\ Cardinality(kept) <= Len(s)
  <2>1. kept \subseteq 1 .. Len(s)
    OBVIOUS
  <2> HIDE DEF kept
  <2>2. IsFiniteSet(kept) /\ Cardinality(kept) <= Cardinality(1 .. Len(s))
    BY <1>2, <2>1, FS_Subset, Zenon
  <2>3. Cardinality(kept) \in Nat
    BY <2>2, FS_CardinalityType, Zenon
  <2>4. QED
    BY <1>2, <2>2, <2>3
<1>4. d \in 0 .. Len(s)
  BY <1>1, <1>3
<1>5. InWindow(s) = SubSeq(s, d + 1, Len(s))
  BY DEF InWindow
<1> HIDE DEF d, kept
<1>6. \A i \in d + 1 .. Len(s) : s[i] \in Outcome
  BY <1>1, <1>4, ElementOfSeq
<1>7. /\ SubSeq(s, d + 1, Len(s)) \in Seq(Outcome)
      /\ Len(SubSeq(s, d + 1, Len(s))) =
           IF d + 1 <= Len(s) THEN Len(s) - (d + 1) + 1 ELSE 0
      /\ \A i \in 1 .. Len(s) - (d + 1) + 1 :
           SubSeq(s, d + 1, Len(s))[i] = s[(d + 1) + i - 1]
  BY <1>1, <1>4, <1>6, SubSeqProperties
<1>8. QED
  BY <1>1, <1>4, <1>5, <1>7

\* So it yields outcomes that were there before.
LEMMA InWindowKeepsOutcomes ==
  ASSUME NEW s \in Seq(Outcome)
  PROVE  /\ InWindow(s) \in Seq(Outcome)
         /\ \A i \in 1 .. Len(InWindow(s)) :
              \E j \in 1 .. Len(s) : InWindow(s)[i] = s[j]
<1> DEFINE w == InWindow(s)
<1>1. PICK d \in Nat : /\ w \in Seq(Outcome)
                       /\ Len(w) + d = Len(s)
                       /\ \A i \in 1 .. Len(w) : w[i] = s[d + i]
  BY InWindowIsASuffix
<1>2. Len(w) \in Nat
  BY <1>1, LenProperties
<1> HIDE DEF w
<1>3. \A i \in 1 .. Len(w) : d + i \in 1 .. Len(s) /\ w[i] = s[d + i]
  BY <1>1, <1>2
<1>4. QED
  BY <1>1, <1>3 DEF w

\* The failures among some outcomes, which Failures counts.
FailedAt(outcomes) == {i \in 1 .. Len(outcomes) : ~ outcomes[i].ok}

LEMMA FailuresAreCounted ==
  ASSUME NEW s \in Seq(Outcome)
  PROVE  /\ Failures(s) = Cardinality(FailedAt(s))
         /\ IsFiniteSet(FailedAt(s))
         /\ Failures(s) \in Nat
<1>1. IsFiniteSet(1 .. Len(s))
  BY LenProperties, CardinalityOfRange
<1>2. FailedAt(s) \subseteq 1 .. Len(s)
  BY DEF FailedAt
<1>3. IsFiniteSet(FailedAt(s))
  BY <1>1, <1>2, FS_Subset, Zenon
<1>4. Failures(s) = Cardinality(FailedAt(s))
  BY DEF Failures, FailedAt
<1>5. QED
  BY <1>3, <1>4, FS_CardinalityType, Zenon

\* Filtering by age adds no failure.
LEMMA WindowAddsNoFailure ==
  ASSUME NEW s \in Seq(Outcome)
  PROVE  Failures(InWindow(s)) <= Failures(s)
<1> DEFINE w == InWindow(s)
<1>1. w \in Seq(Outcome) /\ Len(w) \in Nat /\ Len(s) \in Nat
  BY InWindowKeepsOutcomes, LenProperties
<1>2. PICK d \in Nat : /\ Len(w) + d = Len(s)
                       /\ \A i \in 1 .. Len(w) : w[i] = s[d + i]
  BY InWindowIsASuffix
<1> HIDE DEF w
<1> DEFINE f == [i \in FailedAt(w) |-> d + i]
<1>3. f \in Injection(FailedAt(w), FailedAt(s))
  <2>1. \A i \in FailedAt(w) : d + i \in FailedAt(s)
    BY <1>1, <1>2 DEF FailedAt
  <2>2. \A i, j \in FailedAt(w) : d + i = d + j => i = j
    BY <1>1, <1>2 DEF FailedAt
  <2>3. f \in [FailedAt(w) -> FailedAt(s)] /\ IsInjective(f)
    BY <2>1, <2>2 DEF IsInjective
  <2>4. QED
    BY <2>3 DEF Injection
<1> HIDE DEF f
<1>4. Cardinality(FailedAt(w)) <= Cardinality(FailedAt(s))
  BY <1>3, FailuresAreCounted, FS_Injection
<1>5. Failures(w) <= Failures(s)
  BY <1>1, <1>4, FailuresAreCounted
<1>6. QED
  BY <1>5 DEF w

LEMMA AppendCountsFailure ==
  ASSUME NEW s \in Seq(Outcome), NEW x \in Outcome
  PROVE  Failures(Append(s, x)) = Failures(s) + (IF x.ok THEN 0 ELSE 1)
<1> DEFINE all == Append(s, x)
           n == Len(s)
<1>1. /\ all \in Seq(Outcome) /\ Len(all) = n + 1 /\ n \in Nat
      /\ \A i \in 1 .. n : all[i] = s[i]
      /\ all[n + 1] = x
  BY AppendProperties, LenProperties
<1> HIDE DEF all
<1>2. FailedAt(all) = FailedAt(s) \cup (IF x.ok THEN {} ELSE {n + 1})
  BY <1>1 DEF FailedAt
<1>3. n + 1 \notin FailedAt(s)
  BY <1>1 DEF FailedAt
<1>4. CASE x.ok
  <2>1. FailedAt(all) = FailedAt(s)
    BY <1>2, <1>4
  <2>2. Failures(all) = Failures(s) /\ Failures(s) \in Nat
    BY <1>1, <2>1, FailuresAreCounted
  <2>3. QED
    BY <1>4, <2>2 DEF all
<1>5. CASE ~ x.ok
  <2>1. FailedAt(all) = FailedAt(s) \cup {n + 1}
    BY <1>2, <1>5
  <2>2. IsFiniteSet(FailedAt(s))
    BY FailuresAreCounted
  <2>3. Cardinality(FailedAt(s) \cup {n + 1}) = Cardinality(FailedAt(s)) + 1
    BY <1>3, <2>2, FS_AddElement
  <2>4. Failures(all) = Failures(s) + 1
    BY <1>1, <2>1, <2>3, FailuresAreCounted
  <2>5. QED
    BY <1>5, <2>4 DEF all
<1>6. QED
  BY <1>4, <1>5

-----------------------------------------------------------------------------
(* One entry                                                               *)

LEMMA NoEntryIsConsistent ==
  ASSUME now \in Nat
  PROVE  NoEntry \in Entry /\ Consistent(NoEntry)
<1>1. << >> \in Seq(Outcome) /\ Len(<< >>) = 0
  BY EmptySeq
<1>2. ~ TooManyFailures(<< >>)
  BY <1>1, BreakerAssumption DEF TooManyFailures
<1>3. QED
  BY <1>1, <1>2 DEF NoEntry, Entry, Consistent

LEMMA AskingKeepsConsistent ==
  ASSUME now \in Nat, NEW e \in Entry, Consistent(e)
  PROVE  AfterAsking(e) \in Entry /\ Consistent(AfterAsking(e))
<1>1. CASE e.phase = "open" /\ Cooled(e)
  <2> DEFINE f == [phase |-> "half-open", outcomes |-> e.outcomes,
                   openedAt |-> e.openedAt, probeSuccesses |-> 0]
  <2>1. AfterAsking(e) = f
    BY <1>1 DEF AfterAsking, Entry
  <2>2. f \in Entry
    BY DEF Entry
  <2>3. Cooled(f)
    BY <1>1 DEF Cooled
  <2>4. Consistent(f)
    BY <2>3, BreakerAssumption DEF Consistent
  <2>5. QED
    BY <2>1, <2>2, <2>4
<1>2. CASE ~ (e.phase = "open" /\ Cooled(e))
  BY <1>2 DEF AfterAsking
<1>3. QED
  BY <1>1, <1>2

\* The outcomes of an entry once one more is recorded.
Kept(e, ok) == InWindow(Append(e.outcomes, [at |-> now, ok |-> ok]))

LEMMA KeptOutcomes ==
  ASSUME now \in Nat, NEW e \in Entry, Consistent(e), NEW ok \in BOOLEAN
  PROVE  /\ Kept(e, ok) \in Seq(Outcome)
         /\ \A i \in 1 .. Len(Kept(e, ok)) : Kept(e, ok)[i].at <= now
<1> DEFINE last == [at |-> now, ok |-> ok]
           all == Append(e.outcomes, last)
<1>1. e.outcomes \in Seq(Outcome) /\ last \in Outcome
  BY DEF Entry, Outcome
<1>2. /\ all \in Seq(Outcome)
      /\ Len(all) = Len(e.outcomes) + 1
      /\ \A i \in 1 .. Len(e.outcomes) : all[i] = e.outcomes[i]
      /\ all[Len(e.outcomes) + 1] = last
  BY <1>1, AppendProperties
<1>3. \A i \in 1 .. Len(all) : all[i].at <= now
  <2> TAKE i \in 1 .. Len(all)
  <2>1. Len(e.outcomes) \in Nat
    BY <1>1, LenProperties
  <2>2. CASE i \in 1 .. Len(e.outcomes)
    BY <1>2, <2>2 DEF Consistent
  <2>3. CASE i = Len(e.outcomes) + 1
    BY <1>2, <2>3
  <2>4. QED
    BY <1>2, <2>1, <2>2, <2>3
<1>4. QED
  BY <1>2, <1>3, InWindowKeepsOutcomes DEF Kept

LEMMA RecordingKeepsConsistent ==
  ASSUME now \in Nat, NEW e \in Entry, Consistent(e), NEW ok \in BOOLEAN
  PROVE  Recorded(e, ok) \in Entry /\ Consistent(Recorded(e, ok))
<1> DEFINE kept   == [e EXCEPT !.outcomes = Kept(e, ok)]
           opened == [phase |-> "open", outcomes |-> kept.outcomes,
                      openedAt |-> now, probeSuccesses |-> 0]
<1>1. /\ Kept(e, ok) \in Seq(Outcome)
      /\ \A i \in 1 .. Len(Kept(e, ok)) : Kept(e, ok)[i].at <= now
  BY KeptOutcomes
<1>2. opened \in Entry /\ Consistent(opened)
  <2>1. kept.outcomes = Kept(e, ok)
    BY DEF Entry
  <2>2. opened \in Entry
    BY <1>1, <2>1 DEF Entry
  <2>3. Consistent(opened)
    BY <1>1, <2>1 DEF Consistent
  <2>4. QED
    BY <2>2, <2>3
<1>3. CASE e.phase = "half-open" /\ ~ ok
  BY <1>2, <1>3 DEF Recorded, Kept
<1>4. CASE e.phase = "half-open" /\ ok
  <2>1. CASE e.probeSuccesses + 1 >= SuccessesToClose
    <3>1. Recorded(e, ok) = NoEntry
      BY <1>4, <2>1 DEF Recorded
    <3>2. QED
      BY <3>1, NoEntryIsConsistent
  <2>2. CASE ~ (e.probeSuccesses + 1 >= SuccessesToClose)
    <3>1. Recorded(e, ok) = [kept EXCEPT !.probeSuccesses = @ + 1]
      BY <1>4, <2>2 DEF Recorded, Kept
    <3> DEFINE f == [phase |-> e.phase, outcomes |-> Kept(e, ok),
                     openedAt |-> e.openedAt,
                     probeSuccesses |-> e.probeSuccesses + 1]
    <3>2. Recorded(e, ok) = f
      BY <3>1 DEF Entry
    <3>3. f \in Entry
      BY <1>1 DEF Entry
    <3>4. Cooled(f)
      BY <1>4 DEF Consistent, Cooled
    <3>5. e.probeSuccesses + 1 < SuccessesToClose
      BY <2>2, BreakerAssumption DEF Entry
    <3>6. Consistent(f)
      BY <1>1, <1>4, <3>4, <3>5 DEF Consistent
    <3>7. QED
      BY <3>2, <3>3, <3>6
  <2>3. QED
    BY <2>1, <2>2
<1>5. CASE e.phase = "closed" /\ TooManyFailures(Kept(e, ok))
  <2>1. Recorded(e, ok) = opened
    BY <1>5 DEF Recorded, Kept, Entry
  <2>2. QED
    BY <1>2, <2>1
<1>6. CASE \/ e.phase = "open"
           \/ e.phase = "closed" /\ ~ TooManyFailures(Kept(e, ok))
  <2>1. Recorded(e, ok) = kept
    BY <1>6 DEF Recorded, Kept, Entry
  <2> DEFINE f == [phase |-> e.phase, outcomes |-> Kept(e, ok),
                   openedAt |-> e.openedAt, probeSuccesses |-> e.probeSuccesses]
  <2>2. kept = f
    BY DEF Entry
  <2>3. f \in Entry
    BY <1>1 DEF Entry
  <2>4. Consistent(f)
    BY <1>1, <1>6 DEF Consistent
  <2>5. QED
    BY <2>1, <2>2, <2>3, <2>4
<1>7. QED
  BY <1>3, <1>4, <1>5, <1>6 DEF Entry

-----------------------------------------------------------------------------
(* All entries                                                             *)

BreakerInv == BreakerTypeOK /\ EntriesConsistent

LEMMA BreakerInitially == BreakerInit => BreakerInv
<1> SUFFICES ASSUME BreakerInit PROVE BreakerInv
  OBVIOUS
<1>1. now \in Nat /\ \A c \in Chains : breaker[c] = NoEntry
  BY DEF BreakerInit
<1>2. \A c \in Chains : breaker[c] \in Entry /\ Consistent(breaker[c])
  BY <1>1, NoEntryIsConsistent
<1>3. QED
  BY <1>1, <1>2 DEF BreakerInit, BreakerInv, BreakerTypeOK, EntriesConsistent

\* Time only makes an entry cooler.
LEMMA TickKeepsBreakerInv ==
  ASSUME BreakerInv, Tick, UNCHANGED breaker
  PROVE  BreakerInv'
<1>1. now \in Nat /\ now' = now + 1
  BY DEF BreakerInv, BreakerTypeOK, Tick
<1>2. ASSUME NEW c \in Chains
      PROVE  Consistent(breaker[c])'
  <2> DEFINE e == breaker[c]
  <2>1. e \in Entry /\ Consistent(e)
    BY DEF BreakerInv, BreakerTypeOK, EntriesConsistent
  <2>2. \A i \in 1 .. Len(e.outcomes) : e.outcomes[i].at \in Nat
    <3>1. e.outcomes \in Seq(Outcome)
      BY <2>1 DEF Entry
    <3>2. \A i \in 1 .. Len(e.outcomes) : e.outcomes[i] \in Outcome
      BY <3>1, ElementOfSeq
    <3>3. QED
      BY <3>2 DEF Outcome
  <2>3. Cooled(e) => Cooled(e)'
    BY <1>1, <2>1, BreakerAssumption DEF Entry, Cooled
  <2>4. e.openedAt <= now'
    BY <1>1, <2>1 DEF Entry, Consistent
  <2>5. \A i \in 1 .. Len(e.outcomes) : e.outcomes[i].at <= now'
    BY <1>1, <2>1, <2>2 DEF Consistent
  <2>6. QED
    BY <2>1, <2>3, <2>4, <2>5 DEF Consistent, TooManyFailures, Failures
<1>3. QED
  BY <1>1, <1>2 DEF BreakerInv, BreakerTypeOK, EntriesConsistent

LEMMA AskKeepsBreakerInv ==
  ASSUME BreakerInv, NEW chains, Ask(chains), UNCHANGED now
  PROVE  BreakerInv'
<1>1. ASSUME NEW c \in Chains
      PROVE  breaker'[c] \in Entry /\ Consistent(breaker'[c])
  <2>1. breaker[c] \in Entry /\ Consistent(breaker[c]) /\ now \in Nat
    BY DEF BreakerInv, BreakerTypeOK, EntriesConsistent
  <2>2. breaker'[c] = breaker[c] \/ breaker'[c] = AfterAsking(breaker[c])
    BY DEF Ask
  <2>3. QED
    BY <2>1, <2>2, AskingKeepsConsistent
<1>2. QED
  BY <1>1 DEF BreakerInv, BreakerTypeOK, EntriesConsistent, Ask, Consistent,
              Cooled, TooManyFailures, Failures

LEMMA RecordKeepsBreakerInv ==
  ASSUME BreakerInv, NEW d \in Chains, NEW ok \in BOOLEAN,
         Record(d, ok), UNCHANGED now
  PROVE  BreakerInv'
<1>1. ASSUME NEW c \in Chains
      PROVE  breaker'[c] \in Entry /\ Consistent(breaker'[c])
  <2>1. breaker[c] \in Entry /\ Consistent(breaker[c]) /\ now \in Nat
    BY DEF BreakerInv, BreakerTypeOK, EntriesConsistent
  <2>2. breaker'[c] = breaker[c] \/ breaker'[c] = Recorded(breaker[c], ok)
    BY DEF Record, BreakerInv, BreakerTypeOK
  <2>3. QED
    BY <2>1, <2>2, RecordingKeepsConsistent
<1>2. QED
  BY <1>1 DEF BreakerInv, BreakerTypeOK, EntriesConsistent, Record, Consistent,
              Cooled, TooManyFailures, Failures

LEMMA BreakerStep == BreakerInv /\ [BreakerNext]_<<now, breaker>> => BreakerInv'
<1> SUFFICES ASSUME BreakerInv, [BreakerNext]_<<now, breaker>>
             PROVE  BreakerInv'
  OBVIOUS
<1>1. CASE Tick /\ UNCHANGED breaker
  BY <1>1, TickKeepsBreakerInv
<1>2. ASSUME UNCHANGED now, NEW chains \in SUBSET Chains, Ask(chains)
      PROVE  BreakerInv'
  BY <1>2, AskKeepsBreakerInv
<1>3. ASSUME UNCHANGED now, NEW c \in Chains, NEW ok \in BOOLEAN, Record(c, ok)
      PROVE  BreakerInv'
  BY <1>3, RecordKeepsBreakerInv
<1>4. CASE UNCHANGED <<now, breaker>>
  BY <1>4 DEF BreakerInv, BreakerTypeOK, EntriesConsistent, Consistent, Cooled,
              TooManyFailures, Failures
<1>5. QED
  BY <1>1, <1>2, <1>3, <1>4 DEF BreakerNext

\* The breaker's entries are well-formed whoever uses it (record, canAttempt).
THEOREM BreakerTypeCorrect == BreakerSpec => []BreakerTypeOK
<1>1. BreakerInit => BreakerInv
  BY BreakerInitially
<1>2. BreakerInv /\ [BreakerNext]_<<now, breaker>> => BreakerInv'
  BY BreakerStep
<1>3. BreakerInv => BreakerTypeOK
  BY DEF BreakerInv
<1>4. QED
  BY <1>1, <1>2, <1>3, PTL DEF BreakerSpec

\* And they are consistent with the clock, the threshold and the number of
\* successes asked for, in every order of asking and recording.
THEOREM BreakerKeepsConsistent == BreakerSpec => []EntriesConsistent
<1>1. BreakerInit => BreakerInv
  BY BreakerInitially
<1>2. BreakerInv /\ [BreakerNext]_<<now, breaker>> => BreakerInv'
  BY BreakerStep
<1>3. BreakerInv => EntriesConsistent
  BY DEF BreakerInv
<1>4. QED
  BY <1>1, <1>2, <1>3, PTL DEF BreakerSpec

-----------------------------------------------------------------------------
(***************************************************************************)
(* SearchFanout: the searches that share the breaker.                      *)
(***************************************************************************)

-----------------------------------------------------------------------------
(* The steps, sorted by what they do to the breaker and to the calls       *)

Timely(s, c) ==
  /\ call[s][c] = "running" =>
       search[s].phase = "vendors" /\ now <= search[s].startedAt + Budget[c]
  /\ Called(s, c) => search[s].startedAt <= now
  /\ search[s].phase = "idle" => call[s][c] = "idle"

CallsTimely == \A s \in Searches, c \in Chains : Timely(s, c)

\* A step that only moves searches on.
Moves ==
  /\ UNCHANGED <<now, breaker, call>>
  /\ search' \in [Searches -> Search]
  /\ \A s \in Searches :
       /\ search'[s].startedAt = search[s].startedAt
       /\ search'[s].phase = "idle" => search[s].phase = "idle"
       /\ search'[s].phase = "vendors" \/ search'[s].phase = search[s].phase
            \/ \A c \in Chains : call[s][c] # "running"

SettlesSomehow(s, c) == \E how \in Ended \ {"skipped"} : Settles(s, c, how)

LEMMA CallStepSettles ==
  ASSUME NEW s \in Searches, NEW c \in Chains, CallStep(s, c)
  PROVE  SettlesSomehow(s, c)
BY DEF CallStep, VendorAnswers, VendorFails, CacheFails, NoticesAbort, OnAbort,
       NoticesBudget, RaceEnds, SettlesSomehow, Ended, Thrown, Okay


LEMMA LeaveMoves ==
  ASSUME TypeOK, NEW s \in Searches, Leave(s)
  PROVE  Moves
<1>1. search \in [Searches -> Search]
  BY DEF TypeOK
<1> DEFINE r == [search[s] EXCEPT !.aborted = TRUE]
<1>2. r \in Search /\ r.phase = search[s].phase /\ r.startedAt = search[s].startedAt
  BY <1>1 DEF Search
<1>3. search' = [search EXCEPT ![s] = r]
  BY DEF Leave
<1>4. UNCHANGED <<now, breaker, call>>
  BY DEF Leave
<1> HIDE DEF r
<1>5. QED
  BY <1>1, <1>2, <1>3, <1>4 DEF Moves

LEMMA JoinsMoves ==
  ASSUME TypeOK, NEW s \in Searches, Joins(s)
  PROVE  Moves
<1>1. search \in [Searches -> Search]
  BY DEF TypeOK
<1>2. PICK phase \in {"rejected", "augmenting", "hydrating"} :
        search' = [search EXCEPT ![s] = [search[s] EXCEPT !.phase = phase]]
  BY DEF Joins, Reject, TryWeb, SkipWeb, Goto
<1>3. /\ UNCHANGED <<now, breaker, call>>
      /\ \A c \in Chains : call[s][c] # "running"
  BY DEF Joins, Reject, TryWeb, SkipWeb, AllSettled
<1>4. phase \in Phases /\ phase # "idle"
  BY DEF Phases
<1> DEFINE r == [search[s] EXCEPT !.phase = phase]
<1>5. r \in Search /\ r.phase = phase /\ r.startedAt = search[s].startedAt
  BY <1>1, <1>4 DEF Search
<1> HIDE DEF r
<1>6. QED
  BY <1>1, <1>2, <1>3, <1>4, <1>5 DEF Moves, r

LEMMA WebEndsMoves ==
  ASSUME TypeOK, CallsTimely, NEW s \in Searches, WebEnds(s)
  PROVE  Moves
<1>1. search \in [Searches -> Search]
  BY DEF TypeOK
<1>2. \A c \in Chains : call[s][c] # "running"
  BY DEF WebEnds, CallsTimely, Timely
<1> DEFINE r == [search[s] EXCEPT !.phase = "hydrating"]
<1>3. r \in Search /\ r.phase = "hydrating" /\ r.startedAt = search[s].startedAt
  BY <1>1 DEF Search, Phases
<1>4. search' = [search EXCEPT ![s] = r] /\ UNCHANGED <<now, breaker, call>>
  BY DEF WebEnds, Goto
<1> HIDE DEF r
<1>5. QED
  BY <1>1, <1>2, <1>3, <1>4 DEF Moves

LEMMA FinishMoves ==
  ASSUME TypeOK, CallsTimely, NEW s \in Searches, Finish(s)
  PROVE  Moves
<1>1. search \in [Searches -> Search]
  BY DEF TypeOK
<1>2. PICK phase \in {"complete", "partial"} :
        search' = [search EXCEPT ![s] = [search[s] EXCEPT !.phase = phase,
                                                          !.aborted = FALSE]]
  BY DEF Finish
<1>3. \A c \in Chains : call[s][c] # "running"
  BY DEF Finish, CallsTimely, Timely
<1>4. phase \in Phases /\ phase # "idle"
  BY DEF Phases
<1> DEFINE r == [search[s] EXCEPT !.phase = phase, !.aborted = FALSE]
<1>5. r \in Search /\ r.phase = phase /\ r.startedAt = search[s].startedAt
  BY <1>1, <1>4 DEF Search
<1>6. search' = [search EXCEPT ![s] = r]
  BY <1>2
<1>7. UNCHANGED <<now, breaker, call>>
  BY DEF Finish
<1> HIDE DEF r
<1>8. QED
  BY <1>1, <1>3, <1>4, <1>5, <1>6, <1>7 DEF Moves

-----------------------------------------------------------------------------
(* The breaker the searches share                                          *)

LEMMA SettlesUsesBreaker ==
  ASSUME NEW s \in Searches, NEW c \in Chains, NEW how, Settles(s, c, how)
  PROVE  \/ UNCHANGED <<now, breaker>>
         \/ UNCHANGED now /\ \E ok \in BOOLEAN : Record(c, ok)
<1>1. (how \in Okay) \in BOOLEAN
  OBVIOUS
<1>2. QED
  BY <1>1 DEF Settles

LEMMA NextUsesBreaker == [Next]_vars => [BreakerNext]_<<now, breaker>>
<1> SUFFICES ASSUME [Next]_vars
             PROVE  [BreakerNext]_<<now, breaker>>
  OBVIOUS
<1>1. CASE Pass
  BY <1>1 DEF Pass, BreakerNext
<1>2. ASSUME NEW q \in Queries, Ask(ChainsOf[q]), UNCHANGED now
      PROVE  BreakerNext
  BY <1>2, FanoutAssumption DEF BreakerNext
<1>3. ASSUME NEW s \in Searches, NEW c \in Chains, CallStep(s, c)
      PROVE  [BreakerNext]_<<now, breaker>>
  BY <1>3, CallStepSettles, SettlesUsesBreaker DEF SettlesSomehow, BreakerNext
<1>4. ASSUME NEW s \in Searches, Leave(s) \/ Joins(s) \/ WebEnds(s) \/ Finish(s)
      PROVE  UNCHANGED <<now, breaker>>
  BY <1>4 DEF Leave, Joins, Reject, TryWeb, SkipWeb, AllSettled, WebEnds, Finish
<1>5. CASE UNCHANGED vars
  BY <1>5 DEF vars
<1>6. QED
  BY <1>1, <1>2, <1>3, <1>4, <1>5 DEF Next, Announce, Start, SearchStep

\* The fan-out asks and records only as the breaker's own specification says
\* anybody may (runSearch, canAttempt, record).
LEMMA FanoutImplementsBreaker == Spec => BreakerSpec
<1>1. Init => BreakerInit
  BY DEF Init
<1>2. [Next]_vars => [BreakerNext]_<<now, breaker>>
  BY NextUsesBreaker
<1>3. QED
  BY <1>1, <1>2, PTL DEF Spec, BreakerSpec

\* So what is proved of the breaker holds of it here.
THEOREM FanoutKeepsEntriesConsistent == Spec => []EntriesConsistent
BY FanoutImplementsBreaker, BreakerKeepsConsistent, PTL

\* What asking and recording make of an entry's phase and trip.
LEMMA AskedEntry ==
  ASSUME NEW e \in Entry
  PROVE  /\ AfterAsking(e).openedAt = e.openedAt
         /\ AfterAsking(e).phase = "open" => e.phase = "open" /\ ~ Cooled(e)
         /\ AfterAsking(e).phase = "half-open" =>
              \/ e.phase = "half-open" /\ AfterAsking(e) = e
              \/ e.phase = "open" /\ Cooled(e) /\ AfterAsking(e).probeSuccesses = 0
BY DEF AfterAsking, Entry

LEMMA RecordedEntry ==
  ASSUME NEW e \in Entry, NEW ok \in BOOLEAN
  PROVE  /\ Recorded(e, ok).phase = "open" =>
              \/ Recorded(e, ok).openedAt = now
              \/ e.phase = "open" /\ Recorded(e, ok).openedAt = e.openedAt
         /\ Recorded(e, ok).phase = "half-open" =>
              /\ e.phase = "half-open" /\ ok
              /\ Recorded(e, ok).openedAt = e.openedAt
              /\ Recorded(e, ok).probeSuccesses = e.probeSuccesses + 1
<1>1. CASE e.phase = "half-open" /\ ~ ok
  BY <1>1 DEF Recorded
<1>2. CASE e.phase = "half-open" /\ ok /\ e.probeSuccesses + 1 >= SuccessesToClose
  <2>1. Recorded(e, ok) = NoEntry
    BY <1>2 DEF Recorded
  <2>2. QED
    BY <2>1 DEF NoEntry
<1>3. CASE e.phase = "half-open" /\ ok /\ ~ (e.probeSuccesses + 1 >= SuccessesToClose)
  BY <1>3 DEF Recorded, Entry
<1>4. CASE e.phase \in {"open", "closed"}
  BY <1>4 DEF Recorded, Entry
<1>5. QED
  BY <1>1, <1>2, <1>3, <1>4 DEF Entry

-----------------------------------------------------------------------------
(* The invariant.  While a chain is open every call made on it started     *)
(* before its trip; when it half-opens, a cooldown later, those calls are  *)
(* over, and the calls that follow are the probes.                         *)

StartedBeforeTrip(s, c) ==
  breaker[c].phase = "open" /\ Called(s, c) =>
    search[s].startedAt <= breaker[c].openedAt

OpenAfterCalls == \A s \in Searches, c \in Chains : StartedBeforeTrip(s, c)

FanoutInv ==
  TypeOK /\ EntriesConsistent /\ CallsTimely /\ OpenAfterCalls /\ ProbesDecide

LEMMA FanoutTyped ==
  ASSUME TypeOK, NEW s \in Searches, NEW c \in Chains
  PROVE  /\ now \in Nat
         /\ breaker[c] \in Entry
         /\ breaker[c].openedAt \in Nat
         /\ breaker[c].phase \in {"closed", "open", "half-open"}
         /\ breaker[c].probeSuccesses \in Nat
         /\ search[s].startedAt \in Nat
         /\ Budget[c] \in Nat /\ Budget[c] < Cooldown
         /\ Cooldown \in Nat
BY FanoutAssumption, BreakerAssumption
DEF TypeOK, BreakerTypeOK, Entry, Search

LEMMA FanoutInitially == Init => FanoutInv
<1> SUFFICES ASSUME Init PROVE FanoutInv
  OBVIOUS
<1>1. BreakerTypeOK /\ EntriesConsistent
  BY BreakerInitially DEF Init, BreakerInv
<1>2. NoSearch \in Search /\ NoSearch.phase = "idle"
  <2>1. (CHOOSE q \in Queries : TRUE) \in Queries
    BY FanoutAssumption
  <2>2. QED
    BY <2>1 DEF NoSearch, Search, Phases
<1>3. TypeOK
  BY <1>1, <1>2 DEF Init, TypeOK
<1>4. \A s \in Searches, c \in Chains : call[s][c] = "idle"
  BY DEF Init
<1>5. CallsTimely /\ OpenAfterCalls
  BY <1>4 DEF CallsTimely, Timely, OpenAfterCalls, StartedBeforeTrip, Called
<1>6. ProbesDecide
  BY DEF Init, BreakerInit, NoEntry, ProbesDecide, DecidedByProbes
<1>7. QED
  BY <1>1, <1>3, <1>5, <1>6 DEF FanoutInv

LEMMA PassKeepsFanoutInv ==
  ASSUME FanoutInv, Pass, BreakerInv'
  PROVE  FanoutInv'
<1>1. TypeOK' /\ EntriesConsistent'
  BY DEF FanoutInv, TypeOK, Pass, BreakerInv
<1>2. CallsTimely'
  <2> SUFFICES ASSUME NEW s \in Searches, NEW c \in Chains
               PROVE  Timely(s, c)'
    BY DEF CallsTimely
  <2>1. Timely(s, c) /\ now' = now + 1 /\ UNCHANGED <<search, call>>
    BY DEF FanoutInv, CallsTimely, Pass, Tick
  <2>2. call[s][c] = "running" => now < search[s].startedAt + Budget[c]
    BY FanoutTyped DEF FanoutInv, Pass, MayTick, OverBudget
  <2>3. QED
    BY <2>1, <2>2, FanoutTyped DEF FanoutInv, Timely, Called
<1>3. OpenAfterCalls' /\ ProbesDecide'
  BY DEF FanoutInv, Pass, OpenAfterCalls, StartedBeforeTrip, Called, ProbesDecide,
         DecidedByProbes, Probes, ProbesThat
<1>4. QED
  BY <1>1, <1>2, <1>3 DEF FanoutInv

LEMMA MovesKeepsFanoutInv ==
  ASSUME FanoutInv, Moves, BreakerInv'
  PROVE  FanoutInv'
<1>1. TypeOK' /\ EntriesConsistent'
  BY DEF FanoutInv, TypeOK, Moves, BreakerInv
<1>2. CallsTimely'
  BY DEF FanoutInv, CallsTimely, Timely, Called, Moves
<1>3. OpenAfterCalls'
  BY DEF FanoutInv, OpenAfterCalls, StartedBeforeTrip, Called, Moves
<1>4. ASSUME NEW c \in Chains
      PROVE  DecidedByProbes(c)'
  <2>1. Probes(c)' = Probes(c)
    BY DEF Probes, Called, Moves
  <2>2. \A hows : ProbesThat(c, hows)' = ProbesThat(c, hows)
    BY <2>1 DEF ProbesThat, Moves
  <2>3. DecidedByProbes(c) /\ UNCHANGED <<breaker, call>>
    BY DEF FanoutInv, ProbesDecide, Moves
  <2>4. QED
    BY <2>1, <2>2, <2>3 DEF DecidedByProbes
<1>5. QED
  BY <1>1, <1>2, <1>3, <1>4 DEF FanoutInv, ProbesDecide

-----------------------------------------------------------------------------
(* Asking, with or without a search that starts                            *)

SameCall(s, c) ==
  call'[s][c] = call[s][c] /\ search'[s].startedAt = search[s].startedAt

NewCall(s, c) ==
  /\ call[s][c] = "idle"
  /\ call'[s][c] \in {"idle", "skipped", "running"}
  /\ search'[s].startedAt = now
  /\ call'[s][c] = "running" => breaker'[c].phase # "open"

LEMMA AskingKeepsProbes ==
  ASSUME FanoutInv, NEW chains, Ask(chains), UNCHANGED now, NEW c \in Chains,
         \A s \in Searches : SameCall(s, c) \/ NewCall(s, c)
  PROVE  /\ DecidedByProbes(c)'
         /\ \A s \in Searches : StartedBeforeTrip(s, c)'
<1> DEFINE e == breaker[c]
<1>1. e \in Entry /\ Consistent(e) /\ now \in Nat
  BY DEF FanoutInv, TypeOK, BreakerTypeOK, EntriesConsistent
<1>2. breaker'[c] = e \/ breaker'[c] = AfterAsking(e)
  BY DEF Ask
<1>3. /\ breaker'[c].openedAt = e.openedAt
      /\ breaker'[c].phase = "open" => e.phase = "open"
      /\ breaker'[c].phase = "half-open" =>
           \/ e.phase = "half-open" /\ breaker'[c] = e
           \/ e.phase = "open" /\ Cooled(e) /\ breaker'[c].probeSuccesses = 0
  BY <1>1, <1>2, AskedEntry
<1>4. \A s \in Searches : StartedBeforeTrip(s, c)'
  <2> SUFFICES ASSUME NEW s \in Searches PROVE StartedBeforeTrip(s, c)'
    OBVIOUS
  <2>1. CASE SameCall(s, c)
    BY <1>3, <2>1 DEF FanoutInv, OpenAfterCalls, StartedBeforeTrip, SameCall, Called
  <2>2. CASE NewCall(s, c)
    BY <2>2 DEF StartedBeforeTrip, NewCall, Called
  <2>3. QED
    BY <2>1, <2>2
<1>5. DecidedByProbes(c)'
  <2>1. CASE e.phase = "half-open" /\ breaker'[c] = e
    <3>1. now >= e.openedAt + Cooldown
      BY <1>1, <2>1, BreakerAssumption DEF Consistent, Cooled, Entry
    <3>2. ProbesThat(c, Okay)' = ProbesThat(c, Okay)
      BY <2>1 DEF ProbesThat, Probes, Called, SameCall, NewCall, Okay
    <3>3. ProbesThat(c, {"failed", "timedOut", "gaveUp"})'
            = ProbesThat(c, {"failed", "timedOut", "gaveUp"})
      BY <2>1 DEF ProbesThat, Probes, Called, SameCall, NewCall
    <3>4. ASSUME NEW s \in Searches, call'[s][c] = "running"
          PROVE  s \in Probes(c)'
      <4>1. CASE SameCall(s, c)
        BY <2>1, <3>4, <4>1
        DEF FanoutInv, ProbesDecide, DecidedByProbes, Probes, Called, SameCall
      <4>2. CASE NewCall(s, c)
        BY <2>1, <3>1, <3>4, <4>2 DEF Probes, Called, NewCall
      <4>3. QED
        BY <4>1, <4>2
    <3>5. DecidedByProbes(c)
      BY DEF FanoutInv, ProbesDecide
    <3>6. QED
      BY <2>1, <3>2, <3>3, <3>4, <3>5 DEF DecidedByProbes
  <2>2. CASE e.phase = "open" /\ Cooled(e) /\ breaker'[c].probeSuccesses = 0
    <3>1. now >= e.openedAt + Cooldown
      BY <1>1, <2>2, BreakerAssumption DEF Cooled, Entry
    <3>2. ASSUME NEW s \in Searches, Called(s, c)
          PROVE  /\ search[s].startedAt < e.openedAt + Cooldown
                 /\ call[s][c] # "running"
      <4>1. search[s].startedAt <= e.openedAt
        BY <2>2, <3>2 DEF FanoutInv, OpenAfterCalls, StartedBeforeTrip
      <4>2. call[s][c] = "running" => now <= search[s].startedAt + Budget[c]
        BY DEF FanoutInv, CallsTimely, Timely
      <4>3. QED
        BY <3>1, <4>1, <4>2, FanoutTyped, BreakerAssumption DEF FanoutInv
    <3>3. ASSUME NEW s \in Searches, call'[s][c] = "running"
          PROVE  s \in Probes(c)'
      <4>1. ~ SameCall(s, c)
        BY <3>2, <3>3 DEF SameCall, Called
      <4>2. NewCall(s, c)
        BY <4>1
      <4>3. QED
        BY <1>3, <3>1, <3>3, <4>2 DEF NewCall, Probes, Called
    <3>4. ASSUME NEW s \in Probes(c)'
          PROVE  call'[s][c] = "running"
      <4>1. s \in Searches /\ Called(s, c)'
            /\ search'[s].startedAt >= e.openedAt + Cooldown
        BY <1>3, <3>4 DEF Probes
      <4>2. ~ SameCall(s, c)
        BY <3>2, <4>1, FanoutTyped, BreakerAssumption DEF FanoutInv, SameCall, Called
      <4>3. QED
        BY <4>1, <4>2 DEF NewCall, Called
    <3>5. /\ ProbesThat(c, Okay)' = {}
          /\ ProbesThat(c, {"failed", "timedOut", "gaveUp"})' = {}
      BY <3>4 DEF ProbesThat, Okay
    <3>6. QED
      BY <2>2, <3>3, <3>5, FS_EmptySet DEF DecidedByProbes
  <2>3. QED
    BY <1>3, <2>1, <2>2 DEF DecidedByProbes
<1>6. QED
  BY <1>4, <1>5

LEMMA AnnounceKeepsFanoutInv ==
  ASSUME FanoutInv, NEW q \in Queries, Announce(q), BreakerInv'
  PROVE  FanoutInv'
<1>1. TypeOK' /\ EntriesConsistent'
  BY DEF FanoutInv, TypeOK, Announce, BreakerInv
<1>2. CallsTimely'
  BY DEF FanoutInv, CallsTimely, Timely, Called, Announce
<1>3. ASSUME NEW c \in Chains
      PROVE  /\ DecidedByProbes(c)'
             /\ \A s \in Searches : StartedBeforeTrip(s, c)'
  <2>1. \A s \in Searches : SameCall(s, c)
    BY DEF Announce, SameCall
  <2>2. QED
    BY <2>1, AskingKeepsProbes DEF Announce
<1>4. QED
  BY <1>1, <1>2, <1>3 DEF FanoutInv, OpenAfterCalls, ProbesDecide

LEMMA StartKeepsFanoutInv ==
  ASSUME FanoutInv, NEW s \in Searches, NEW q \in Queries, Start(s, q), BreakerInv'
  PROVE  FanoutInv'
<1>1. search \in [Searches -> Search] /\ now \in Nat
  BY DEF FanoutInv, TypeOK, BreakerTypeOK
<1>2. Begun(q) \in Search /\ Begun(q).phase = "vendors" /\ Begun(q).startedAt = now
  BY <1>1 DEF Begun, Search, Phases
<1>3. /\ \A c \in Chains : Dispatched(q)[c] \in {"idle", "skipped", "running"}
      /\ \A c \in Chains : Dispatched(q)[c] = "running" =>
           c \in ChainsOf[q] /\ CanAttempt(c)
      /\ Dispatched(q) \in [Chains -> {"idle", "skipped", "running"}]
  BY DEF Dispatched
<1>4. /\ search' = [search EXCEPT ![s] = Begun(q)]
      /\ call' = [call EXCEPT ![s] = Dispatched(q)]
      /\ search[s].phase = "idle" /\ UNCHANGED now
      /\ call \in [Searches -> [Chains -> Ended \cup {"idle", "running"}]]
  BY DEF Start, FanoutInv, TypeOK
<1>5. /\ search'[s] = Begun(q) /\ call'[s] = Dispatched(q)
      /\ \A u \in Searches \ {s} : search'[u] = search[u] /\ call'[u] = call[u]
  BY <1>1, <1>4
<1>6. TypeOK' /\ EntriesConsistent'
  BY <1>1, <1>2, <1>3, <1>4 DEF TypeOK, BreakerInv, Ended
<1>7. \A c \in Chains : call[s][c] = "idle"
  BY <1>4 DEF FanoutInv, CallsTimely, Timely
<1>8. CallsTimely'
  <2> SUFFICES ASSUME NEW u \in Searches, NEW c \in Chains
               PROVE  Timely(u, c)'
    BY DEF CallsTimely
  <2>1. CASE u = s
    BY <1>1, <1>2, <1>4, <1>5, <2>1, FanoutTyped DEF FanoutInv, Timely
  <2>2. CASE u # s
    BY <1>4, <1>5, <2>2 DEF FanoutInv, CallsTimely, Timely, Called
  <2>3. QED
    BY <2>1, <2>2
<1>9. ASSUME NEW c \in Chains
      PROVE  /\ DecidedByProbes(c)'
             /\ \A u \in Searches : StartedBeforeTrip(u, c)'
  <2>1. \A u \in Searches \ {s} : SameCall(u, c)
    BY <1>5 DEF SameCall
  <2>2. Dispatched(q)[c] = "running" => breaker'[c].phase # "open"
    <3>1. breaker[c] \in Entry
      BY DEF FanoutInv, TypeOK, BreakerTypeOK
    <3>2. c \in ChainsOf[q] => breaker'[c] = AfterAsking(breaker[c])
      BY DEF Start, Ask
    <3>3. QED
      BY <1>3, <3>1, <3>2, AskedEntry DEF CanAttempt
  <2>3. NewCall(s, c)
    BY <1>2, <1>3, <1>5, <1>7, <2>2 DEF NewCall
  <2>4. QED
    BY <1>4, <2>1, <2>3, AskingKeepsProbes DEF Start
<1>10. QED
  BY <1>6, <1>8, <1>9 DEF FanoutInv, OpenAfterCalls, ProbesDecide

-----------------------------------------------------------------------------
(* A call that settles                                                     *)

LEMMA SettlesKeepsFanoutInv ==
  ASSUME FanoutInv, NEW s \in Searches, NEW c \in Chains,
         NEW how \in Ended \ {"skipped"}, Settles(s, c, how), BreakerInv'
  PROVE  FanoutInv'
<1>1. /\ call \in [Searches -> [Chains -> Ended \cup {"idle", "running"}]]
      /\ call[s][c] = "running" /\ call' = [call EXCEPT ![s][c] = how]
      /\ UNCHANGED <<now, search>>
  BY DEF FanoutInv, TypeOK, Settles
<1>2. /\ call'[s][c] = how
      /\ \A u \in Searches, d \in Chains :
           u # s \/ d # c => call'[u][d] = call[u][d]
  BY <1>1
<1>3. how \notin {"idle", "running", "skipped"}
  BY DEF Ended, Thrown, Okay
<1>4. TypeOK' /\ EntriesConsistent'
  BY <1>1 DEF FanoutInv, TypeOK, BreakerInv
<1>5. \A u \in Searches, d \in Chains : Called(u, d)' = Called(u, d)
  BY <1>1, <1>2, <1>3 DEF Called
<1>6. CallsTimely'
  <2> SUFFICES ASSUME NEW u \in Searches, NEW d \in Chains
               PROVE  Timely(u, d)'
    BY DEF CallsTimely
  <2>1. Timely(u, d)
    BY DEF FanoutInv, CallsTimely
  <2>2. QED
    BY <1>1, <1>2, <1>3, <1>5, <2>1 DEF Timely
<1>7. \A d \in Chains \ {c} : breaker'[d] = breaker[d]
  BY DEF Settles, Record, FanoutInv, TypeOK, BreakerTypeOK
<1>8. ASSUME NEW d \in Chains \ {c}
      PROVE  /\ DecidedByProbes(d)'
             /\ \A u \in Searches : StartedBeforeTrip(u, d)'
  <2>1. DecidedByProbes(d) /\ \A u \in Searches : StartedBeforeTrip(u, d)
    BY DEF FanoutInv, ProbesDecide, OpenAfterCalls
  <2>2. \A u \in Searches : call'[u][d] = call[u][d]
    BY <1>2
  <2>3. Probes(d)' = Probes(d)
    BY <1>1, <1>5, <1>7 DEF Probes
  <2>4. \A hows : ProbesThat(d, hows)' = ProbesThat(d, hows)
    BY <2>2, <2>3 DEF ProbesThat, Probes
  <2>5. QED
    BY <1>1, <1>5, <1>7, <2>1, <2>2, <2>3, <2>4 DEF DecidedByProbes, StartedBeforeTrip
<1> DEFINE e == breaker[c]
<1>9. e \in Entry /\ now \in Nat
  BY DEF FanoutInv, TypeOK, BreakerTypeOK
<1>10. /\ how \in Thrown => breaker'[c] = e
       /\ how \notin Thrown /\ how \in Okay => breaker'[c] = Recorded(e, TRUE)
       /\ how \notin Thrown /\ how \notin Okay => breaker'[c] = Recorded(e, FALSE)
  <2>1. breaker \in [Chains -> Entry]
    BY DEF FanoutInv, TypeOK, BreakerTypeOK
  <2>2. CASE how \in Thrown
    BY <2>2 DEF Settles
  <2>3. CASE how \notin Thrown /\ how \in Okay
    <3>1. Record(c, TRUE)
      BY <2>3 DEF Settles
    <3>2. QED
      BY <2>1, <2>3, <3>1 DEF Record
  <2>4. CASE how \notin Thrown /\ how \notin Okay
    <3>1. Record(c, FALSE)
      <4>1. (how \in Okay) = FALSE
        BY <2>4
      <4>2. Record(c, how \in Okay)
        BY <2>4 DEF Settles
      <4>3. QED
        BY <4>1, <4>2
    <3>2. QED
      BY <2>1, <2>4, <3>1 DEF Record
  <2>5. QED
    BY <2>2, <2>3, <2>4
<1>11. /\ breaker'[c].phase = "open" =>
            \/ breaker'[c].openedAt = now
            \/ e.phase = "open" /\ breaker'[c].openedAt = e.openedAt
       /\ breaker'[c].phase = "half-open" =>
            /\ e.phase = "half-open" /\ breaker'[c].openedAt = e.openedAt
            /\ \/ how \in Thrown /\ breaker'[c].probeSuccesses = e.probeSuccesses
               \/ how \in Okay /\ breaker'[c].probeSuccesses = e.probeSuccesses + 1
  <2>1. CASE how \in Thrown
    BY <1>10, <2>1
  <2>2. CASE how \notin Thrown /\ how \in Okay
    <3>1. breaker'[c] = Recorded(e, TRUE)
      BY <1>10, <2>2
    <3>2. QED
      BY <1>9, <2>2, <3>1, RecordedEntry
  <2>3. CASE how \notin Thrown /\ how \notin Okay
    <3>1. breaker'[c] = Recorded(e, FALSE)
      BY <1>10, <2>3
    <3>2. QED
      BY <1>9, <2>3, <3>1, RecordedEntry
  <2>4. QED
    BY <2>1, <2>2, <2>3
<1>12. \A u \in Searches : StartedBeforeTrip(u, c)'
  <2> SUFFICES ASSUME NEW u \in Searches, breaker'[c].phase = "open", Called(u, c)
               PROVE  search[u].startedAt <= breaker'[c].openedAt
    BY <1>1, <1>5 DEF StartedBeforeTrip
  <2>1. search[u].startedAt <= now
    BY DEF FanoutInv, CallsTimely, Timely
  <2>2. e.phase = "open" => search[u].startedAt <= e.openedAt
    BY DEF FanoutInv, OpenAfterCalls, StartedBeforeTrip
  <2>3. QED
    BY <1>11, <2>1, <2>2
<1>13. DecidedByProbes(c)'
  <2> SUFFICES ASSUME breaker'[c].phase = "half-open"
               PROVE  /\ \A u \in Searches : call'[u][c] = "running" => u \in Probes(c)'
                      /\ breaker'[c].probeSuccesses = Cardinality(ProbesThat(c, Okay)')
                      /\ ProbesThat(c, {"failed", "timedOut", "gaveUp"})' = {}
    BY DEF DecidedByProbes
  <2>1. /\ e.phase = "half-open"
        /\ DecidedByProbes(c)
    BY <1>11 DEF FanoutInv, ProbesDecide
  <2>2. Probes(c)' = Probes(c)
    BY <1>1, <1>5, <1>11 DEF Probes
  <2>3. s \in Probes(c) /\ s \notin ProbesThat(c, Okay)
    BY <1>1, <2>1 DEF DecidedByProbes, ProbesThat, Okay
  <2>4. \A u \in Searches : call'[u][c] = "running" => u \in Probes(c)'
    BY <1>2, <1>3, <2>1, <2>2 DEF DecidedByProbes
  <2>5. how \notin {"failed", "timedOut", "gaveUp"}
    BY <1>11 DEF Thrown, Okay
  <2>6. ProbesThat(c, {"failed", "timedOut", "gaveUp"})' = {}
    BY <1>2, <2>1, <2>2, <2>5 DEF DecidedByProbes, ProbesThat, Probes
  <2>7. IsFiniteSet(ProbesThat(c, Okay))
    BY FanoutAssumption, FS_Subset DEF ProbesThat, Probes
  <2>8. CASE how \in Thrown /\ breaker'[c].probeSuccesses = e.probeSuccesses
    <3>1. how \notin Okay
      BY <2>8 DEF Thrown, Okay
    <3>2. ProbesThat(c, Okay)' = ProbesThat(c, Okay)
      BY <1>2, <2>2, <2>3, <3>1 DEF ProbesThat, Probes
    <3>3. QED
      BY <2>1, <2>4, <2>6, <2>8, <3>2 DEF DecidedByProbes
  <2>9. CASE how \in Okay /\ breaker'[c].probeSuccesses = e.probeSuccesses + 1
    <3>1. ProbesThat(c, Okay)' = ProbesThat(c, Okay) \cup {s}
      BY <1>2, <2>2, <2>3, <2>9 DEF ProbesThat, Probes
    <3>2. Cardinality(ProbesThat(c, Okay) \cup {s}) = Cardinality(ProbesThat(c, Okay)) + 1
      BY <2>3, <2>7, FS_AddElement
    <3>3. QED
      BY <2>1, <2>4, <2>6, <2>9, <3>1, <3>2 DEF DecidedByProbes
  <2>10. QED
    BY <1>11, <2>8, <2>9
<1>14. QED
  BY <1>4, <1>6, <1>8, <1>12, <1>13 DEF FanoutInv, OpenAfterCalls, ProbesDecide

-----------------------------------------------------------------------------
(* The theorems                                                            *)

LEMMA FanoutStep == FanoutInv /\ [Next]_vars => FanoutInv'
<1> SUFFICES ASSUME FanoutInv, [Next]_vars
             PROVE  FanoutInv'
  OBVIOUS
<1>1. BreakerInv'
  BY NextUsesBreaker, BreakerStep DEF FanoutInv, TypeOK, BreakerInv
<1>2. CASE Pass
  BY <1>1, <1>2, PassKeepsFanoutInv
<1>3. ASSUME NEW q \in Queries, Announce(q)
      PROVE  FanoutInv'
  BY <1>1, <1>3, AnnounceKeepsFanoutInv
<1>4. ASSUME NEW s \in Searches, NEW q \in Queries, Start(s, q)
      PROVE  FanoutInv'
  BY <1>1, <1>4, StartKeepsFanoutInv
<1>5. ASSUME NEW s \in Searches, NEW c \in Chains, CallStep(s, c)
      PROVE  FanoutInv'
  BY <1>1, <1>5, CallStepSettles, SettlesKeepsFanoutInv DEF SettlesSomehow
<1>6. ASSUME NEW s \in Searches, Leave(s) \/ Joins(s) \/ WebEnds(s) \/ Finish(s)
      PROVE  FanoutInv'
  <2>1. Moves
    BY <1>6, LeaveMoves, JoinsMoves, WebEndsMoves, FinishMoves DEF FanoutInv
  <2>2. QED
    BY <1>1, <2>1, MovesKeepsFanoutInv
<1>7. CASE UNCHANGED vars
  <2>1. Moves
    BY <1>7 DEF vars, Moves, FanoutInv, TypeOK
  <2>2. QED
    BY <1>1, <2>1, MovesKeepsFanoutInv
<1>8. QED
  BY <1>2, <1>3, <1>4, <1>5, <1>6, <1>7 DEF Next, SearchStep

LEMMA FanoutInvariant == Spec => []FanoutInv
<1>1. Init => FanoutInv
  BY FanoutInitially
<1>2. FanoutInv /\ [Next]_vars => FanoutInv'
  BY FanoutStep
<1>3. QED
  BY <1>1, <1>2, PTL DEF Spec

\* Every search, call and entry is well-formed (runSearch, searchOneChain).
THEOREM FanoutTypeCorrect == Spec => []TypeOK
BY FanoutInvariant, PTL DEF FanoutInv

\* While a chain is half-open, the calls that can decide it are the probes,
\* all the probes and only the probes (canAttempt, record, searchOneChain): no
\* straggler from before the trip closes it or trips it again.
THEOREM OnlyProbesDecide == Spec => []ProbesDecide
BY FanoutInvariant, PTL DEF FanoutInv

-----------------------------------------------------------------------------
(* A chain is not skipped for nothing.  Each failure in an entry's window  *)
(* is that of another search whose call failed or overran, and such a call *)
(* stays what it is: so the searches behind a trip are never fewer than    *)
(* the failures that caused it.                                            *)

Failing(c) == {s \in Searches : call[s][c] \in {"failed", "timedOut"}}

FailuresCovered(c) == Failures(breaker[c].outcomes) <= Cardinality(Failing(c))

EnoughFailing(c) ==
  breaker[c].phase # "closed" =>
    Cardinality(Failing(c)) * RateDen >= RateNum * MinimumVolume

TripsCovered ==
  \A c \in Chains \ Converting : FailuresCovered(c) /\ EnoughFailing(c)

LEMMA FailingFinite ==
  ASSUME NEW c
  PROVE  IsFiniteSet(Failing(c)) /\ Cardinality(Failing(c)) \in Nat
<1>1. Failing(c) \subseteq Searches
  BY DEF Failing
<1>2. QED
  BY <1>1, FanoutAssumption, FS_Subset, FS_CardinalityType

\* Nobody's entry is tripped or blamed, and no failure is taken back.
LEMMA TripsStayCovered ==
  ASSUME TripsCovered, NEW c \in Chains \ Converting, Failing(c)' = Failing(c),
         breaker'[c].outcomes = breaker[c].outcomes,
         breaker[c].phase = "closed" => breaker'[c].phase = "closed"
  PROVE  FailuresCovered(c)' /\ EnoughFailing(c)'
BY DEF TripsCovered, FailuresCovered, EnoughFailing, Failures

\* Only an adapter that converts an abort gives up with a failure.
LEMMA CallStepSettlesAs ==
  ASSUME NEW s \in Searches, NEW c \in Chains \ Converting, CallStep(s, c)
  PROVE  \E how \in Thrown \cup Okay \cup {"failed", "timedOut"} : Settles(s, c, how)
BY DEF CallStep, VendorAnswers, VendorFails, CacheFails, NoticesAbort, OnAbort,
       NoticesBudget, RaceEnds, Thrown, Okay

\* What recording makes of an entry's failures, and when it trips it.
LEMMA RecordedFailures ==
  ASSUME now \in Nat, NEW e \in Entry, Consistent(e), NEW ok \in BOOLEAN
  PROVE  /\ Failures(Recorded(e, ok).outcomes) \in Nat
         /\ Failures(Recorded(e, ok).outcomes) <=
              Failures(e.outcomes) + (IF ok THEN 0 ELSE 1)
         /\ e.phase = "closed" /\ Recorded(e, ok).phase # "closed" =>
              TooManyFailures(Recorded(e, ok).outcomes)
<1> DEFINE last == [at |-> now, ok |-> ok]
           kept == [e EXCEPT !.outcomes = Kept(e, ok)]
<1>1. e.outcomes \in Seq(Outcome) /\ last \in Outcome /\ last.ok = ok
  BY DEF Entry, Outcome
<1>2. Append(e.outcomes, last) \in Seq(Outcome)
  BY <1>1, AppendProperties
<1>3. Failures(Append(e.outcomes, last)) = Failures(e.outcomes) + (IF ok THEN 0 ELSE 1)
  BY <1>1, AppendCountsFailure
<1>4. Kept(e, ok) \in Seq(Outcome)
  BY KeptOutcomes
<1>5. /\ Failures(Kept(e, ok)) <= Failures(e.outcomes) + (IF ok THEN 0 ELSE 1)
      /\ Failures(Kept(e, ok)) \in Nat
      /\ Failures(e.outcomes) \in Nat
  BY <1>1, <1>2, <1>3, <1>4, WindowAddsNoFailure, FailuresAreCounted DEF Kept
<1>6. Recorded(e, ok) = NoEntry \/ Recorded(e, ok).outcomes = Kept(e, ok)
  <2>1. kept.outcomes = Kept(e, ok)
    BY DEF Entry
  <2>2. [kept EXCEPT !.probeSuccesses = @ + 1].outcomes = Kept(e, ok)
    BY DEF Entry
  <2>3. CASE e.phase = "half-open" /\ ~ ok
    BY <2>1, <2>3 DEF Recorded, Kept
  <2>4. CASE e.phase = "half-open" /\ ok /\ e.probeSuccesses + 1 >= SuccessesToClose
    BY <2>4 DEF Recorded
  <2>5. CASE e.phase = "half-open" /\ ok /\ ~ (e.probeSuccesses + 1 >= SuccessesToClose)
    BY <2>2, <2>5 DEF Recorded, Kept
  <2>6. CASE e.phase = "closed" /\ TooManyFailures(Kept(e, ok))
    BY <2>1, <2>6 DEF Recorded, Kept, Entry
  <2>7. CASE \/ e.phase = "open"
             \/ e.phase = "closed" /\ ~ TooManyFailures(Kept(e, ok))
    BY <2>1, <2>7 DEF Recorded, Kept, Entry
  <2>8. CASE e.phase = "half-open"
    BY <2>3, <2>4, <2>5, <2>8
  <2>9. CASE e.phase = "closed"
    BY <2>6, <2>7, <2>9
  <2>10. e.phase = "half-open" \/ e.phase = "closed" \/ e.phase = "open"
    BY DEF Entry
  <2>11. QED
    BY <2>7, <2>8, <2>9, <2>10
<1>7. Failures(NoEntry.outcomes) = 0
  <2>1. 1 .. Len(<< >>) = {}
    BY EmptySeq
  <2>2. {i \in 1 .. Len(<< >>) : ~ << >>[i].ok} = {}
    BY <2>1
  <2>3. QED
    BY <2>2, FS_EmptySet DEF Failures, NoEntry
<1>8. ASSUME e.phase = "closed", Recorded(e, ok).phase # "closed"
      PROVE  TooManyFailures(Recorded(e, ok).outcomes)
  <2>1. TooManyFailures(Kept(e, ok))
    BY <1>8 DEF Recorded, Kept, Entry
  <2>2. Recorded(e, ok).outcomes = Kept(e, ok)
    BY <1>6, <1>8 DEF NoEntry
  <2>3. QED
    BY <2>1, <2>2
<1>9. QED
  BY <1>5, <1>6, <1>7, <1>8

LEMMA ProductMonotone ==
  ASSUME NEW a \in Nat, NEW b \in Nat, NEW k \in Nat, a <= b
  PROVE  b * k >= a * k /\ k * b >= k * a
OBVIOUS

LEMMA ProductsAreNatural == \A a, b \in Nat : a * b \in Nat
OBVIOUS

\* The numbers of a trip: as many failures as the rate of the minimum volume.
LEMMA TripIsCovered ==
  ASSUME NEW outcomes \in Seq(Outcome), TooManyFailures(outcomes),
         NEW n \in Nat, Failures(outcomes) <= n
  PROVE  n * RateDen >= RateNum * MinimumVolume
<1>1. Failures(outcomes) \in Nat /\ Len(outcomes) \in Nat
  BY FailuresAreCounted, LenProperties
<1>2. /\ RateNum \in Nat /\ RateDen \in Nat /\ MinimumVolume \in Nat
      /\ Len(outcomes) >= MinimumVolume
      /\ Failures(outcomes) * RateDen >= RateNum * Len(outcomes)
  BY BreakerAssumption DEF TooManyFailures
<1> DEFINE f == Failures(outcomes)
           l == Len(outcomes)
<1>3. f \in Nat /\ l \in Nat /\ f <= n /\ l >= MinimumVolume /\ f * RateDen >= RateNum * l
  BY <1>1, <1>2
<1> HIDE DEF f, l
<1>4. n * RateDen >= f * RateDen
  BY <1>2, <1>3, ProductMonotone
<1>5. RateNum * l >= RateNum * MinimumVolume
  BY <1>2, <1>3, ProductMonotone
<1>6. QED
  BY <1>2, <1>3, <1>4, <1>5, ProductsAreNatural

LEMMA SettlesKeepsTripsCovered ==
  ASSUME FanoutInv, TripsCovered, NEW s \in Searches, NEW c \in Chains,
         CallStep(s, c)
  PROVE  TripsCovered'
<1>1. PICK how \in Ended \ {"skipped"} :
        /\ Settles(s, c, how)
        /\ c \notin Converting => how \in Thrown \cup Okay \cup {"failed", "timedOut"}
  <2>1. CASE c \in Converting
    BY <2>1, CallStepSettles DEF SettlesSomehow
  <2>2. CASE c \notin Converting
    <3>1. PICK how \in Thrown \cup Okay \cup {"failed", "timedOut"} : Settles(s, c, how)
      BY <2>2, CallStepSettlesAs
    <3>2. how \in Ended \ {"skipped"}
      BY DEF Ended, Thrown, Okay
    <3>3. QED
      BY <3>1, <3>2
  <2>3. QED
    BY <2>1, <2>2
<1>2. /\ call \in [Searches -> [Chains -> Ended \cup {"idle", "running"}]]
      /\ breaker \in [Chains -> Entry] /\ now \in Nat
      /\ call[s][c] = "running" /\ call' = [call EXCEPT ![s][c] = how]
  BY <1>1 DEF FanoutInv, TypeOK, BreakerTypeOK, Settles
<1>3. /\ call'[s][c] = how
      /\ \A u \in Searches, d \in Chains :
           u # s \/ d # c => call'[u][d] = call[u][d]
  BY <1>2
<1> SUFFICES ASSUME NEW d \in Chains \ Converting
             PROVE  FailuresCovered(d)' /\ EnoughFailing(d)'
  BY DEF TripsCovered
<1>4. CASE d # c
  <2>1. Failing(d)' = Failing(d)
    BY <1>3, <1>4 DEF Failing
  <2>2. breaker'[d] = breaker[d]
    BY <1>1, <1>2, <1>4 DEF Settles, Record
  <2>3. QED
    BY <2>1, <2>2, TripsStayCovered
<1>5. CASE d = c /\ how \in Thrown
  <2>1. Failing(d)' = Failing(d)
    BY <1>2, <1>3, <1>5 DEF Failing, Thrown
  <2>2. breaker'[d] = breaker[d]
    BY <1>1, <1>5 DEF Settles
  <2>3. QED
    BY <2>1, <2>2, TripsStayCovered
<1>6. CASE d = c /\ how \notin Thrown
  <2> DEFINE e == breaker[c]
             ok == how \in Okay
             more == IF ok THEN 0 ELSE 1
             n == Cardinality(Failing(c))
  <2>1. e \in Entry /\ Consistent(e) /\ ok \in BOOLEAN
    BY <1>2 DEF FanoutInv, EntriesConsistent
  <2>2. breaker'[c] = Recorded(e, ok)
    <3>1. Record(c, ok)
      BY <1>1, <1>6 DEF Settles
    <3>2. QED
      BY <1>2, <3>1 DEF Record
  <2>3. n \in Nat /\ Cardinality(Failing(c)') = n + more
    <3>1. IsFiniteSet(Failing(c)) /\ n \in Nat
      BY FailingFinite
    <3>2. CASE ok
      <4>1. Failing(c)' = Failing(c)
        BY <1>2, <1>3, <3>2 DEF Failing, Okay
      <4>2. QED
        BY <3>1, <3>2, <4>1
    <3>3. CASE ~ ok
      <4>1. how \in {"failed", "timedOut"}
        BY <1>1, <1>6, <3>3
      <4>2. Failing(c)' = Failing(c) \cup {s} /\ s \notin Failing(c)
        BY <1>2, <1>3, <4>1 DEF Failing
      <4>3. Cardinality(Failing(c) \cup {s}) = n + 1
        BY <3>1, <4>2, FS_AddElement
      <4>4. QED
        BY <3>1, <3>3, <4>2, <4>3
    <3>4. QED
      BY <3>2, <3>3
  <2> DEFINE old == Failures(e.outcomes)
             new == Failures(Recorded(e, ok).outcomes)
  <2>4. /\ new \in Nat /\ old \in Nat /\ new <= old + more
        /\ e.phase = "closed" /\ Recorded(e, ok).phase # "closed" =>
             TooManyFailures(Recorded(e, ok).outcomes)
        /\ Recorded(e, ok) \in Entry
    <3>1. e.outcomes \in Seq(Outcome)
      BY <2>1 DEF Entry
    <3>2. old \in Nat
      BY <3>1, FailuresAreCounted
    <3>3. Recorded(e, ok) \in Entry
      BY <1>2, <2>1, RecordingKeepsConsistent
    <3>4. QED
      BY <1>2, <2>1, <3>2, <3>3, RecordedFailures
  <2>5. old <= n /\ EnoughFailing(c)
    BY <1>6 DEF TripsCovered, FailuresCovered
  <2>6. new <= n + more
    <3> HIDE DEF old, new, n, ok
    <3>1. QED
      BY <2>3, <2>4, <2>5
  <2>7. FailuresCovered(c)'
    BY <2>2, <2>3, <2>6 DEF FailuresCovered, Failures
  <2>8. EnoughFailing(c)'
    <3> SUFFICES ASSUME Recorded(e, ok).phase # "closed"
                 PROVE  (n + more) * RateDen >= RateNum * MinimumVolume
      BY <2>2, <2>3 DEF EnoughFailing
    <3>1. n + more \in Nat
      BY <2>3
    <3>2. CASE e.phase = "closed"
      <4>1. Recorded(e, ok).outcomes \in Seq(Outcome)
        BY <2>4 DEF Entry
      <4>2. QED
        BY <2>4, <2>6, <3>1, <3>2, <4>1, TripIsCovered
    <3>3. CASE e.phase # "closed"
      <4>1. n * RateDen >= RateNum * MinimumVolume
        BY <2>5, <3>3 DEF EnoughFailing
      <4> HIDE DEF n, more
      <4>2. more \in Nat
        BY DEF more
      <4>3. (n + more) * RateDen >= n * RateDen
        BY <2>3, <4>2, BreakerAssumption, ProductMonotone
      <4>4. QED
        BY <2>3, <4>1, <4>2, <4>3, BreakerAssumption, ProductsAreNatural
    <3>4. QED
      BY <3>2, <3>3
  <2>9. QED
    BY <1>6, <2>7, <2>8
<1>7. QED
  BY <1>4, <1>5, <1>6

\* Asking changes neither an entry's outcomes nor a closed one.
LEMMA AskingTripsNothing ==
  ASSUME FanoutInv, NEW chains, Ask(chains), NEW c \in Chains
  PROVE  /\ breaker'[c].outcomes = breaker[c].outcomes
         /\ breaker[c].phase = "closed" => breaker'[c].phase = "closed"
<1>1. breaker[c] \in Entry
  BY DEF FanoutInv, TypeOK, BreakerTypeOK
<1>2. breaker'[c] = breaker[c] \/ breaker'[c] = AfterAsking(breaker[c])
  BY DEF Ask
<1>3. QED
  BY <1>1, <1>2 DEF AfterAsking, Entry

LEMMA StartsKeepTripsCovered ==
  ASSUME FanoutInv, TripsCovered, NEW s \in Searches, NEW q \in Queries, Start(s, q)
  PROVE  TripsCovered'
<1> SUFFICES ASSUME NEW c \in Chains \ Converting
             PROVE  FailuresCovered(c)' /\ EnoughFailing(c)'
  BY DEF TripsCovered
<1>1. /\ call \in [Searches -> [Chains -> Ended \cup {"idle", "running"}]]
      /\ call' = [call EXCEPT ![s] = Dispatched(q)]
      /\ call[s][c] = "idle"
  BY DEF FanoutInv, TypeOK, Start, CallsTimely, Timely
<1>2. Dispatched(q)[c] \in {"idle", "skipped", "running"}
  BY DEF Dispatched
<1>3. Failing(c)' = Failing(c)
  BY <1>1, <1>2 DEF Failing
<1>4. QED
  BY <1>3, AskingTripsNothing, TripsStayCovered DEF Start

LEMMA TripsStep == FanoutInv /\ TripsCovered /\ [Next]_vars => TripsCovered'
<1> SUFFICES ASSUME FanoutInv, TripsCovered, [Next]_vars
             PROVE  TripsCovered'
  OBVIOUS
<1>1. CASE UNCHANGED <<breaker, call>>
  BY <1>1 DEF TripsCovered, FailuresCovered, EnoughFailing, Failing, Failures
<1>2. ASSUME NEW q \in Queries, Announce(q)
      PROVE  TripsCovered'
  BY <1>2, AskingTripsNothing, TripsStayCovered DEF TripsCovered, Announce, Failing
<1>3. ASSUME NEW s \in Searches, NEW q \in Queries, Start(s, q)
      PROVE  TripsCovered'
  BY <1>3, StartsKeepTripsCovered
<1>4. ASSUME NEW s \in Searches, NEW c \in Chains, CallStep(s, c)
      PROVE  TripsCovered'
  BY <1>4, SettlesKeepsTripsCovered
<1>5. QED
  BY <1>1, <1>2, <1>3, <1>4
  DEF Next, vars, Pass, SearchStep, Leave, Joins, Reject, TryWeb, SkipWeb, AllSettled,
      WebEnds, Finish

LEMMA TripsInitially == Init => TripsCovered
<1> SUFFICES ASSUME Init, NEW c \in Chains
             PROVE  FailuresCovered(c) /\ EnoughFailing(c)
  BY DEF TripsCovered
<1>1. breaker[c].phase = "closed" /\ breaker[c].outcomes = << >>
  BY DEF Init, BreakerInit, NoEntry
<1>2. FailedAt(<< >>) = {} /\ << >> \in Seq(Outcome)
  BY EmptySeq DEF FailedAt
<1>3. Failures(<< >>) = 0
  BY <1>2, FailuresAreCounted, FS_EmptySet
<1>4. QED
  BY <1>1, <1>3, FailingFinite DEF FailuresCovered, EnoughFailing

\* However many callers leave, and whatever order the outcomes arrive in, a
\* chain whose adapter lets an abort through is not open or half-open without
\* as many searches whose call failed or overran as the rate of the minimum
\* volume asks for (record and TooManyFailures, fed by searchOneChain).
THEOREM TripsAreEarned == Spec => []OpenMeansFailing
<1>1. FanoutInv /\ [Next]_vars => FanoutInv'
  BY FanoutStep
<1>2. TripsCovered => OpenMeansFailing
  BY DEF TripsCovered, EnoughFailing, Failing, OpenMeansFailing
<1>3. QED
  BY <1>1, <1>2, FanoutInitially, TripsInitially, TripsStep, PTL DEF Spec

-----------------------------------------------------------------------------
(***************************************************************************)
(* SearchService: the cache in front of them.                              *)
(***************************************************************************)

CacheEntry == [key : Queries, value : Searches, storedAt : Nat]

ServiceTyped ==
  /\ entries \in Seq(CacheEntry)
  /\ refreshing \subseteq Queries
  /\ background \subseteq Searches

(* A run that is behind a cached result is over, and was whole.             *)
WholeRun(s, q) ==
  /\ search[s].phase = "complete"
  /\ Query(s) = q
  /\ \A c \in Requested(s) \ Masking : call[s][c] = "answered"

EntryWhole(e) == WholeRun(e.value, e.key)

EntriesWhole == \A i \in 1 .. Len(entries) : EntryWhole(entries[i])

OnlyMaskingMasks ==
  \A s \in Searches, c \in Chains : call[s][c] = "masked" => c \in Masking

BackgroundRuns == \A s \in background : search[s].phase # "idle"

(* What makes StoredIsWhole and OneRefreshPerQuery inductive: a stored run   *)
(* is over, so nothing changes it, and a run is started in the background   *)
(* once.                                                                    *)
ServiceInv ==
  /\ FanoutInv
  /\ ServiceTyped
  /\ EntriesWhole
  /\ OnlyMaskingMasks
  /\ BackgroundRuns
  /\ OneRefreshPerQuery

-----------------------------------------------------------------------------
(* The service's steps are steps of the fan-out                            *)

LEMMA ServiceStepsFanout == [ServiceNext]_serviceVars => [Next]_vars
<1> SUFFICES ASSUME [ServiceNext]_serviceVars
             PROVE  [Next]_vars
  OBVIOUS
<1>1. CASE UNCHANGED serviceVars
  BY <1>1 DEF serviceVars
<1>2. CASE Pass \/ \E q \in Queries : Announce(q)
  BY <1>2 DEF Next
<1>3. ASSUME NEW s \in Searches, NEW q \in Queries, now <= LastArrival,
             Miss(s, q) \/ StaleHit(s, q)
      PROVE  Next
  BY <1>3 DEF Next, Miss, StaleHit
<1>4. ASSUME NEW s \in Searches, \/ Leave(s)
                                 \/ \E c \in Chains : CallStep(s, c)
                                 \/ JoinOrThrow(s)
                                 \/ WebEnds(s)
                                 \/ Return(s)
      PROVE  Next
  BY <1>4 DEF Next, SearchStep, JoinOrThrow, Return
<1>5. QED
  BY <1>1, <1>2, <1>3, <1>4 DEF ServiceNext

\* A run that is complete is left alone.
LEMMA CompleteIsOver ==
  ASSUME FanoutInv, [Next]_vars, NEW u \in Searches, search[u].phase = "complete"
  PROVE  search'[u] = search[u] /\ call'[u] = call[u]
<1>1. /\ search \in [Searches -> Search]
      /\ call \in [Searches -> [Chains -> Ended \cup {"idle", "running"}]]
  BY DEF FanoutInv, TypeOK
<1>2. \A c \in Chains : call[u][c] # "running"
  BY DEF FanoutInv, CallsTimely, Timely
<1>3. CASE Pass \/ (\E q \in Queries : Announce(q)) \/ UNCHANGED vars
  BY <1>3 DEF Pass, Announce, vars
<1>4. ASSUME NEW s \in Searches, NEW q \in Queries, Start(s, q)
      PROVE  search'[u] = search[u] /\ call'[u] = call[u]
  BY <1>1, <1>4 DEF Start
<1>5. ASSUME NEW s \in Searches, NEW c \in Chains, CallStep(s, c)
      PROVE  search'[u] = search[u] /\ call'[u] = call[u]
  <2>1. PICK how \in Ended \ {"skipped"} : Settles(s, c, how)
    BY <1>5, CallStepSettles DEF SettlesSomehow
  <2>2. s # u
    BY <1>2, <2>1 DEF Settles
  <2>3. QED
    BY <1>1, <2>1, <2>2 DEF Settles
<1>6. ASSUME NEW s \in Searches, Leave(s) \/ Joins(s) \/ WebEnds(s) \/ Finish(s)
      PROVE  search'[u] = search[u] /\ call'[u] = call[u]
  BY <1>1, <1>6
  DEF Leave, Active, Raced, Joins, Reject, TryWeb, SkipWeb, AllSettled, Goto,
      WebEnds, Finish
<1>7. QED
  BY <1>3, <1>4, <1>5, <1>6 DEF Next, SearchStep

LEMMA WholeRunStays ==
  ASSUME FanoutInv, [Next]_vars, NEW u \in Searches, NEW q, WholeRun(u, q)
  PROVE  WholeRun(u, q)'
BY CompleteIsOver DEF WholeRun, Query, Requested

\* Only the adapters of Masking hide a failure or an abort.
LEMMA MaskingStays ==
  ASSUME FanoutInv, OnlyMaskingMasks, [Next]_vars
  PROVE  OnlyMaskingMasks'
<1>1. call \in [Searches -> [Chains -> Ended \cup {"idle", "running"}]]
  BY DEF FanoutInv, TypeOK
<1> SUFFICES ASSUME NEW u \in Searches, NEW d \in Chains, call'[u][d] = "masked"
             PROVE  d \in Masking
  BY DEF OnlyMaskingMasks
<1>2. CASE call'[u][d] = call[u][d]
  BY <1>2 DEF OnlyMaskingMasks
<1>3. ASSUME NEW s \in Searches, NEW q \in Queries, Start(s, q)
      PROVE  call'[u][d] = call[u][d]
  <2>1. Dispatched(q)[d] # "masked"
    BY DEF Dispatched
  <2>2. QED
    BY <1>1, <1>3, <2>1 DEF Start
<1>4. ASSUME NEW s \in Searches, NEW c \in Chains, CallStep(s, c)
      PROVE  d \in Masking
  <2>1. PICK how \in Ended : /\ Settles(s, c, how)
                             /\ how = "masked" => c \in Masking
    BY <1>4
    DEF CallStep, VendorAnswers, VendorFails, CacheFails, NoticesAbort, OnAbort,
        NoticesBudget, RaceEnds, Ended, Thrown, Okay
  <2>2. CASE u = s /\ d = c
    BY <1>1, <2>1, <2>2 DEF Settles
  <2>3. CASE ~ (u = s /\ d = c)
    BY <1>1, <1>2, <2>1, <2>3 DEF Settles
  <2>4. QED
    BY <2>2, <2>3
<1>5. CASE UNCHANGED call
  BY <1>2, <1>5
<1>6. QED
  BY <1>2, <1>3, <1>4, <1>5
  DEF Next, vars, Pass, Announce, SearchStep, Leave, Joins, Reject, TryWeb, SkipWeb,
      AllSettled, WebEnds, Finish

-----------------------------------------------------------------------------
(* What the cache's operations make of its entries                         *)

OldEntries ==
  \A j \in 1 .. Len(entries') : \E i \in 1 .. Len(entries) : entries'[j] = entries[i]

NewEntry(k, v) == [key |-> k, value |-> v, storedAt |-> now]

NewOrOldEntries(k, v) ==
  \A j \in 1 .. Len(entries') :
    \/ entries'[j] = NewEntry(k, v)
    \/ \E i \in 1 .. Len(entries) : entries'[j] = entries[i]

LEMMA PlaceIsAPlace ==
  ASSUME NEW k, Cache!Has(k)
  PROVE  Cache!Place(k) \in 1 .. Len(entries) /\ entries[Cache!Place(k)].key = k
BY DEF Cache!Has, Cache!Place, Cache!Places

\* A lookup drops an entry or none.
LEMMA GetKeepsOldEntries ==
  ASSUME entries \in Seq(CacheEntry), NEW k, Cache!Get(k)
  PROVE  entries' \in Seq(CacheEntry) /\ OldEntries
<1>1. CASE entries' = entries
  BY <1>1 DEF OldEntries
<1>2. CASE Cache!Status(k) = "expired"
  <2> DEFINE n == Len(entries)
             p == Cache!Place(k)
             before == SubSeq(entries, 1, p - 1)
             after == SubSeq(entries, p + 1, n)
  <2>1. Cache!Has(k)
    BY <1>2, Zenon DEF Cache!Status
  <2>2. p \in 1 .. n /\ n \in Nat
    BY <2>1, PlaceIsAPlace, LenProperties
  <2>3. entries' = before \o after
    BY <1>2 DEF Cache!Get, Cache!Without
  <2>4. \A i \in 1 .. n : entries[i] \in CacheEntry
    BY ElementOfSeq
  <2> HIDE DEF p
  <2>5. /\ before \in Seq(CacheEntry) /\ Len(before) = p - 1
        /\ \A i \in 1 .. p - 1 : before[i] = entries[i]
    <3>1. \A i \in 1 .. p - 1 : entries[i] \in CacheEntry
      BY <2>2, <2>4
    <3>2. /\ SubSeq(entries, 1, p - 1) \in Seq(CacheEntry)
          /\ Len(SubSeq(entries, 1, p - 1)) =
               IF 1 <= p - 1 THEN (p - 1) - 1 + 1 ELSE 0
          /\ \A i \in 1 .. (p - 1) - 1 + 1 :
               SubSeq(entries, 1, p - 1)[i] = entries[1 + i - 1]
      BY <2>2, <3>1, SubSeqProperties
    <3>3. QED
      BY <2>2, <3>2
  <2>6. /\ after \in Seq(CacheEntry) /\ Len(after) = n - p
        /\ \A i \in 1 .. n - p : after[i] = entries[p + i]
    <3>1. \A i \in p + 1 .. n : entries[i] \in CacheEntry
      BY <2>2, <2>4
    <3>2. /\ SubSeq(entries, p + 1, n) \in Seq(CacheEntry)
          /\ Len(SubSeq(entries, p + 1, n)) =
               IF p + 1 <= n THEN n - (p + 1) + 1 ELSE 0
          /\ \A i \in 1 .. n - (p + 1) + 1 :
               SubSeq(entries, p + 1, n)[i] = entries[(p + 1) + i - 1]
      BY <2>2, <3>1, SubSeqProperties
    <3>3. QED
      BY <2>2, <3>2
  <2> HIDE DEF before, after
  <2>7. /\ before \o after \in Seq(CacheEntry)
        /\ Len(before \o after) = n - 1
        /\ \A i \in 1 .. n - 1 : (before \o after)[i] =
             IF i <= p - 1 THEN before[i] ELSE after[i - (p - 1)]
    <3>1. /\ before \o after \in Seq(CacheEntry)
          /\ Len(before \o after) = Len(before) + Len(after)
          /\ \A i \in 1 .. Len(before) + Len(after) : (before \o after)[i] =
               IF i <= Len(before) THEN before[i] ELSE after[i - Len(before)]
      BY <2>5, <2>6, ConcatProperties
    <3>2. Len(before) + Len(after) = n - 1 /\ Len(before) = p - 1
      BY <2>2, <2>5, <2>6
    <3>3. QED
      BY <3>1, <3>2
  <2>8. ASSUME NEW j \in 1 .. n - 1
        PROVE  \E i \in 1 .. n : (before \o after)[j] = entries[i]
    <3>1. CASE j <= p - 1
      BY <2>2, <2>5, <2>7, <3>1
    <3>2. CASE ~ (j <= p - 1)
      <4>1. (before \o after)[j] = entries[j + 1]
        BY <2>2, <2>6, <2>7, <3>2
      <4>2. QED
        BY <2>2, <4>1
    <3>3. QED
      BY <3>1, <3>2
  <2>9. QED
    BY <2>3, <2>7, <2>8 DEF OldEntries
<1>3. QED
  BY <1>1, <1>2 DEF Cache!Get

LEMMA EvictedIsOld ==
  ASSUME entries \in Seq(CacheEntry)
  PROVE  /\ Cache!Evicted \in Seq(CacheEntry)
         /\ \A j \in 1 .. Len(Cache!Evicted) :
              \E i \in 1 .. Len(entries) : Cache!Evicted[j] = entries[i]
<1>1. CASE Cache!Evicted = entries
  BY <1>1
<1>2. CASE Cache!Evicted # entries
  <2>1. Cache!Evicted = Tail(entries) /\ Len(entries) >= MaxEntries
    BY <1>2 DEF Cache!Evicted
  <2>2. entries # << >>
    BY <2>1, EmptySeq, ServiceAssumption
  <2>3. QED
    BY <2>1, <2>2, HeadTailProperties, LenProperties
<1>3. QED
  BY <1>1, <1>2

\* Storing adds the new entry, in the place of one or at the end.
LEMMA SetAddsEntry ==
  ASSUME entries \in Seq(CacheEntry), now \in Nat,
         NEW k \in Queries, NEW v \in Searches, NEW complete,
         Cache!Set(k, v, complete)
  PROVE  /\ entries' \in Seq(CacheEntry)
         /\ NewOrOldEntries(k, v)
         /\ ~ complete => OldEntries
<1>1. NewEntry(k, v) \in CacheEntry
  BY DEF NewEntry, CacheEntry
<1>2. CASE ~ complete
  BY <1>2 DEF Cache!Set, OldEntries, NewOrOldEntries
<1>3. CASE complete /\ Cache!Has(k)
  <2>1. entries' = [entries EXCEPT ![Cache!Place(k)] = NewEntry(k, v)]
    BY <1>3 DEF Cache!Set, Cache!Stored, NewEntry
  <2>2. Cache!Place(k) \in 1 .. Len(entries)
    BY <1>3, PlaceIsAPlace
  <2>3. QED
    BY <1>1, <1>3, <2>1, <2>2, ExceptSeq DEF NewOrOldEntries
<1>4. CASE complete /\ ~ Cache!Has(k)
  <2>1. entries' = Append(Cache!Evicted, NewEntry(k, v))
    BY <1>4 DEF Cache!Set, Cache!Stored, NewEntry
  <2> DEFINE ev == Cache!Evicted
  <2>2. /\ ev \in Seq(CacheEntry)
        /\ \A j \in 1 .. Len(ev) : \E i \in 1 .. Len(entries) : ev[j] = entries[i]
    BY EvictedIsOld
  <2> HIDE DEF ev
  <2>3. /\ entries' \in Seq(CacheEntry)
        /\ Len(entries') = Len(ev) + 1
        /\ \A j \in 1 .. Len(ev) : entries'[j] = ev[j]
        /\ entries'[Len(ev) + 1] = NewEntry(k, v)
    BY <1>1, <2>1, <2>2, AppendProperties DEF ev
  <2>4. Len(ev) \in Nat
    BY <2>2, LenProperties
  <2>5. QED
    BY <1>4, <2>2, <2>3, <2>4 DEF NewOrOldEntries
<1>5. QED
  BY <1>2, <1>3, <1>4

-----------------------------------------------------------------------------
(* One background run for a key that is being refreshed                    *)

LEMMA ServiceTypes ==
  ASSUME ServiceInv
  PROVE  /\ now \in Nat
         /\ search \in [Searches -> Search]
         /\ call \in [Searches -> [Chains -> Ended \cup {"idle", "running"}]]
         /\ entries \in Seq(CacheEntry)
         /\ refreshing \subseteq Queries
         /\ background \subseteq Searches
         /\ \A s \in Searches : Query(s) \in Queries
         /\ \A s \in background : search[s].phase # "idle"
BY DEF ServiceInv, FanoutInv, TypeOK, BreakerTypeOK, ServiceTyped, BackgroundRuns,
       Search, Query

LEMMA RefreshesFinite ==
  ASSUME ServiceInv, NEW q
  PROVE  IsFiniteSet(Refreshes(q)) /\ Refreshes(q) \subseteq Searches
<1>1. Refreshes(q) \subseteq Searches
  BY ServiceTypes DEF Refreshes
<1>2. QED
  BY <1>1, FanoutAssumption, FS_Subset

RefreshesHold(q) ==
  Cardinality(Refreshes(q)) = (IF q \in refreshing THEN 1 ELSE 0)

\* A step that leaves every background run in its phase, or as active.
LEMMA QuietKeepsRefreshes ==
  ASSUME ServiceInv, UNCHANGED <<refreshing, background>>,
         \A s \in background :
           /\ Query(s)' = Query(s)
           /\ search'[s].phase \in Active <=> search[s].phase \in Active
  PROVE  OneRefreshPerQuery'
<1>1. \A q \in Queries : Refreshes(q)' = Refreshes(q)
  BY DEF Refreshes
<1>2. QED
  BY <1>1 DEF ServiceInv, OneRefreshPerQuery

\* A run that ends releases the key it was started for.
LEMMA EndKeepsRefreshes ==
  ASSUME ServiceInv, NEW s \in Searches, Released(s), UNCHANGED background,
         search[s].phase \in Active, search'[s].phase \notin Active,
         \A u \in Searches \ {s} : search'[u] = search[u]
  PROVE  OneRefreshPerQuery'
<1>1. CASE s \notin background
  BY <1>1, QuietKeepsRefreshes, ServiceTypes DEF Released, Query
<1>2. CASE s \in background
  <2> DEFINE k == Query(s)
  <2>1. refreshing' = refreshing \ {k} /\ k \in Queries
    BY <1>2, ServiceTypes DEF Released, Cache!Release
  <2>2. \A u \in background \ {s} : Query(u)' = Query(u) /\ search'[u] = search[u]
    BY ServiceTypes DEF Query
  <2> SUFFICES ASSUME NEW q \in Queries
               PROVE  Cardinality(Refreshes(q)') = (IF q \in refreshing' THEN 1 ELSE 0)
    BY DEF OneRefreshPerQuery
  <2>3. Refreshes(q)' = Refreshes(q) \ {s}
    BY <2>2 DEF Refreshes
  <2>4. RefreshesHold(q)
    BY DEF ServiceInv, OneRefreshPerQuery, RefreshesHold
  <2>5. CASE q = k
    <3>1. s \in Refreshes(q)
      BY <1>2, <2>5 DEF Refreshes
    <3>2. Cardinality(Refreshes(q)) = 1
      BY <2>4, <3>1, RefreshesFinite, FS_EmptySet DEF RefreshesHold
    <3>3. Cardinality(Refreshes(q) \ {s}) = 0
      <4>1. IsFiniteSet(Refreshes(q))
        BY RefreshesFinite
      <4>2. Cardinality(Refreshes(q) \ {s}) = Cardinality(Refreshes(q)) - 1
        BY <3>1, <4>1, FS_RemoveElement
      <4>3. QED
        BY <3>2, <4>2
    <3>4. QED
      BY <2>1, <2>3, <2>5, <3>3
  <2>6. CASE q # k
    <3>1. s \notin Refreshes(q)
      BY <2>6 DEF Refreshes
    <3>2. Refreshes(q)' = Refreshes(q)
      BY <2>3, <3>1
    <3>3. q \in refreshing' <=> q \in refreshing
      BY <2>1, <2>6
    <3>4. QED
      BY <2>4, <3>2, <3>3 DEF RefreshesHold
  <2>7. QED
    BY <2>5, <2>6
<1>3. QED
  BY <1>1, <1>2

LEMMA StartedSearch ==
  ASSUME ServiceInv, NEW s \in Searches, NEW q \in Queries, Start(s, q)
  PROVE  /\ s \notin background
         /\ search'[s].phase = "vendors" /\ Query(s)' = q
         /\ \A u \in Searches \ {s} : search'[u] = search[u] /\ Query(u)' = Query(u)
<1>1. search \in [Searches -> Search] /\ search' = [search EXCEPT ![s] = Begun(q)]
  BY ServiceTypes DEF Start
<1>2. s \notin background
  BY ServiceTypes DEF Start
<1>3. QED
  BY <1>1, <1>2 DEF Begun, Query

LEMMA StaleHitKeepsRefreshes ==
  ASSUME ServiceInv, NEW s \in Searches, NEW k \in Queries, StaleHit(s, k)
  PROVE  OneRefreshPerQuery'
<1>1. /\ s \notin background
      /\ search'[s].phase \in Active /\ Query(s)' = k
      /\ \A u \in Searches \ {s} : search'[u] = search[u] /\ Query(u)' = Query(u)
  BY StartedSearch DEF StaleHit, Active, Raced
<1>2. /\ background' = background \cup {s}
      /\ k \notin refreshing /\ refreshing' = refreshing \cup {k}
      /\ background \subseteq Searches
  BY ServiceTypes DEF StaleHit, Cache!Revalidate
<1> SUFFICES ASSUME NEW q \in Queries
             PROVE  Cardinality(Refreshes(q)') = (IF q \in refreshing' THEN 1 ELSE 0)
  BY DEF OneRefreshPerQuery
<1>3. RefreshesHold(q) /\ IsFiniteSet(Refreshes(q))
  BY RefreshesFinite DEF ServiceInv, OneRefreshPerQuery, RefreshesHold
<1>4. Refreshes(q)' = Refreshes(q) \cup (IF q = k THEN {s} ELSE {})
  BY <1>1, <1>2 DEF Refreshes
<1>5. CASE q = k
  <2>1. Refreshes(q) = {}
    BY <1>2, <1>3, <1>5, FS_EmptySet DEF RefreshesHold
  <2>2. Refreshes(q)' = {s}
    BY <1>4, <1>5, <2>1
  <2>3. QED
    BY <1>2, <1>5, <2>2, FS_Singleton
<1>6. CASE q # k
  BY <1>2, <1>3, <1>4, <1>6 DEF RefreshesHold
<1>7. QED
  BY <1>5, <1>6

LEMMA JoinedSearch ==
  ASSUME ServiceInv, NEW s \in Searches, Joins(s)
  PROVE  /\ search[s].phase = "vendors"
         /\ search'[s].phase \in {"rejected", "augmenting", "hydrating"}
         /\ \A u \in Searches : Query(u)' = Query(u)
         /\ \A u \in Searches \ {s} : search'[u] = search[u]
<1>1. PICK phase \in {"rejected", "augmenting", "hydrating"} :
        search' = [search EXCEPT ![s] = [search[s] EXCEPT !.phase = phase]]
  BY DEF Joins, Reject, TryWeb, SkipWeb, Goto
<1>2. search[s].phase = "vendors"
  BY DEF Joins, Reject, TryWeb, SkipWeb, AllSettled
<1>3. search \in [Searches -> Search]
  BY ServiceTypes
<1>4. QED
  BY <1>1, <1>2, <1>3 DEF Query, Search

LEMMA FinishedSearch ==
  ASSUME ServiceInv, NEW s \in Searches, Finish(s)
  PROVE  /\ search[s].phase = "hydrating"
         /\ search'[s].phase = IF ChainsComplete(s) THEN "complete" ELSE "partial"
         /\ \A u \in Searches : Query(u)' = Query(u)
         /\ \A u \in Searches \ {s} : search'[u] = search[u]
<1>1. search \in [Searches -> Search]
  BY ServiceTypes
<1>2. QED
  BY <1>1 DEF Finish, Query, Search

LEMMA ServiceKeepsRefreshes ==
  ASSUME ServiceInv, [ServiceNext]_serviceVars
  PROVE  OneRefreshPerQuery'
<1>1. CASE UNCHANGED serviceVars
  BY <1>1, QuietKeepsRefreshes DEF serviceVars, vars, Query
<1>2. CASE (Pass \/ \E q \in Queries : Announce(q)) /\ Untouched
  BY <1>2, QuietKeepsRefreshes DEF Pass, Announce, Untouched, Query
<1>3. ASSUME NEW s \in Searches, NEW q \in Queries, Miss(s, q)
      PROVE  OneRefreshPerQuery'
  <2>1. /\ s \notin background /\ background \subseteq Searches
        /\ \A u \in Searches \ {s} : search'[u] = search[u] /\ Query(u)' = Query(u)
    BY <1>3, StartedSearch, ServiceTypes DEF Miss
  <2>2. UNCHANGED <<refreshing, background>>
    BY <1>3 DEF Miss, Cache!Get
  <2>3. QED
    BY <2>1, <2>2, QuietKeepsRefreshes
<1>4. ASSUME NEW s \in Searches, NEW q \in Queries, StaleHit(s, q)
      PROVE  OneRefreshPerQuery'
  BY <1>4, StaleHitKeepsRefreshes
<1>5. ASSUME NEW s \in Searches, Leave(s), Untouched
      PROVE  OneRefreshPerQuery'
  <2>1. search' = [search EXCEPT ![s] = [search[s] EXCEPT !.aborted = TRUE]]
    BY <1>5 DEF Leave
  <2>2. \A u \in Searches : /\ search'[u].phase = search[u].phase
                            /\ Query(u)' = Query(u)
    BY <2>1, ServiceTypes DEF Search, Query
  <2>3. QED
    BY <1>5, <2>2, QuietKeepsRefreshes, ServiceTypes DEF Untouched
<1>6. ASSUME NEW s \in Searches, NEW c \in Chains, CallStep(s, c), Untouched
      PROVE  OneRefreshPerQuery'
  <2>1. UNCHANGED search
    BY <1>6, CallStepSettles DEF SettlesSomehow, Settles
  <2>2. QED
    BY <1>6, <2>1, QuietKeepsRefreshes DEF Untouched, Query
<1>7. ASSUME NEW s \in Searches, JoinOrThrow(s)
      PROVE  OneRefreshPerQuery'
  <2>1. /\ search[s].phase = "vendors"
        /\ search'[s].phase \in {"rejected", "augmenting", "hydrating"}
        /\ \A u \in Searches : Query(u)' = Query(u)
        /\ \A u \in Searches \ {s} : search'[u] = search[u]
    BY <1>7, JoinedSearch DEF JoinOrThrow
  <2>2. CASE search'[s].phase = "rejected"
    BY <1>7, <2>1, <2>2, EndKeepsRefreshes DEF JoinOrThrow, Active, Raced
  <2>3. CASE search'[s].phase # "rejected"
    BY <1>7, <2>1, <2>3, QuietKeepsRefreshes, ServiceTypes DEF JoinOrThrow, Active, Raced
  <2>4. QED
    BY <2>2, <2>3
<1>8. ASSUME NEW s \in Searches, Return(s)
      PROVE  OneRefreshPerQuery'
  BY <1>8, FinishedSearch, EndKeepsRefreshes DEF Return, Active, Raced
<1>9. ASSUME NEW s \in Searches, WebEnds(s), Untouched
      PROVE  OneRefreshPerQuery'
  <2>1. /\ search[s].phase \in Active
        /\ search' = [search EXCEPT ![s] = [search[s] EXCEPT !.phase = "hydrating"]]
    BY <1>9 DEF WebEnds, Goto, Active, Raced
  <2>2. \A u \in Searches :
          /\ search'[u].phase \in Active <=> search[u].phase \in Active
          /\ Query(u)' = Query(u)
    BY <2>1, ServiceTypes DEF Search, Query, Active, Raced
  <2>3. QED
    BY <1>9, <2>2, QuietKeepsRefreshes, ServiceTypes DEF Untouched
<1>10. QED
  BY <1>1, <1>2, <1>3, <1>4, <1>5, <1>6, <1>7, <1>8, <1>9 DEF ServiceNext

-----------------------------------------------------------------------------
(* What is stored                                                          *)

\* A step adds no entry, or that of a run that has just become complete.
LEMMA ServiceEntries ==
  ASSUME ServiceInv, [ServiceNext]_serviceVars
  PROVE  /\ entries' \in Seq(CacheEntry)
         /\ \/ OldEntries
            \/ \E s \in Searches :
                 NewOrOldEntries(Query(s), s) /\ Finish(s) /\ ChainsComplete(s)
<1>1. CASE UNCHANGED entries
  BY <1>1, ServiceTypes DEF OldEntries
<1>2. ASSUME NEW s \in Searches, NEW q \in Queries, Miss(s, q)
      PROVE  entries' \in Seq(CacheEntry) /\ OldEntries
  BY <1>2, ServiceTypes, GetKeepsOldEntries DEF Miss
<1>3. ASSUME NEW s \in Searches, Return(s)
      PROVE  /\ entries' \in Seq(CacheEntry)
             /\ OldEntries \/ (/\ NewOrOldEntries(Query(s), s)
                               /\ Finish(s) /\ ChainsComplete(s))
  <2>1. Query(s) \in Queries /\ now \in Nat /\ entries \in Seq(CacheEntry)
    BY ServiceTypes
  <2>2. Cache!Set(Query(s), s, ChainsComplete(s))
    BY <1>3 DEF Return
  <2>3. /\ entries' \in Seq(CacheEntry)
        /\ NewOrOldEntries(Query(s), s)
        /\ ~ ChainsComplete(s) => OldEntries
    BY <2>1, <2>2, SetAddsEntry
  <2>4. QED
    BY <1>3, <2>3 DEF Return
<1>4. QED
  BY <1>1, <1>2, <1>3 DEF ServiceNext, serviceVars, Untouched, StaleHit, JoinOrThrow

LEMMA ServiceKeepsWhole ==
  ASSUME ServiceInv, [ServiceNext]_serviceVars
  PROVE  EntriesWhole'
<1>1. /\ entries' \in Seq(CacheEntry)
      /\ \/ OldEntries
         \/ \E s \in Searches :
              NewOrOldEntries(Query(s), s) /\ Finish(s) /\ ChainsComplete(s)
  BY ServiceEntries
<1>2. FanoutInv /\ [Next]_vars
  BY ServiceStepsFanout DEF ServiceInv
<1>3. \A u \in Searches, q \in Queries : WholeRun(u, q) => WholeRun(u, q)'
  BY <1>2, WholeRunStays
<1> SUFFICES ASSUME NEW j \in 1 .. Len(entries')
             PROVE  EntryWhole(entries[j])'
  BY DEF EntriesWhole
<1>4. PICK u \in Searches, q \in Queries : entries'[j].value = u /\ entries'[j].key = q
  <2>1. entries'[j] \in CacheEntry
    BY <1>1, ElementOfSeq
  <2>2. QED
    BY <2>1 DEF CacheEntry
<1>5. WholeRun(u, q)'
  <2>1. ASSUME NEW i \in 1 .. Len(entries), entries'[j] = entries[i]
        PROVE  WholeRun(u, q)'
    <3>1. EntryWhole(entries[i])
      BY DEF ServiceInv, EntriesWhole
    <3>2. WholeRun(u, q)
      BY <1>4, <2>1, <3>1 DEF EntryWhole
    <3>3. QED
      BY <1>3, <3>2
  <2>2. ASSUME NEW s \in Searches, Finish(s), ChainsComplete(s),
               entries'[j] = NewEntry(Query(s), s)
        PROVE  WholeRun(u, q)'
    <3>1. u = s /\ q = Query(s)
      BY <1>4, <2>2 DEF NewEntry
    <3>2. search'[s].phase = "complete" /\ Query(s)' = Query(s)
      BY <2>2, FinishedSearch
    <3>3. Requested(s)' = Requested(s) /\ call' = call
      BY <2>2, <3>2 DEF Requested, Query, Finish
    <3>4. \A c \in Requested(s) : c \in Chains
      BY ServiceTypes, FanoutAssumption DEF Requested, Query
    <3>5. \A c \in Requested(s) \ Masking : call[s][c] = "answered"
      BY <2>2, <3>4 DEF ChainsComplete, Okay, ServiceInv, OnlyMaskingMasks
    <3>6. QED
      BY <3>1, <3>2, <3>3, <3>5 DEF WholeRun
  <2>3. QED
    BY <1>1, <2>1, <2>2 DEF OldEntries, NewOrOldEntries
<1>6. QED
  BY <1>4, <1>5 DEF EntryWhole, WholeRun, Query, Requested

LEMMA ServiceKeepsBackground ==
  ASSUME ServiceInv, [ServiceNext]_serviceVars
  PROVE  /\ refreshing' \subseteq Queries
         /\ background' \subseteq Searches
         /\ BackgroundRuns'
<1>1. \A s \in Searches : search'[s].phase = "idle" => search[s].phase = "idle"
  <2>1. [Next]_vars
    BY ServiceStepsFanout
  <2>2. CASE UNCHANGED search
    BY <2>2
  <2>3. ASSUME NEW s \in Searches, NEW q \in Queries, Start(s, q)
        PROVE  \A u \in Searches : search'[u].phase = "idle" => search[u].phase = "idle"
    BY <2>3, StartedSearch
  <2>4. ASSUME NEW s \in Searches, Leave(s) \/ Joins(s) \/ WebEnds(s) \/ Finish(s)
        PROVE  \A u \in Searches : search'[u].phase = "idle" => search[u].phase = "idle"
    BY <2>4, LeaveMoves, JoinsMoves, WebEndsMoves, FinishMoves DEF ServiceInv, FanoutInv, Moves
  <2>5. ASSUME NEW s \in Searches, NEW c \in Chains, CallStep(s, c)
        PROVE  UNCHANGED search
    BY <2>5, CallStepSettles DEF SettlesSomehow, Settles
  <2>6. QED
    BY <2>1, <2>2, <2>3, <2>4, <2>5 DEF Next, SearchStep, vars, Pass, Announce
<1>2. CASE UNCHANGED <<refreshing, background>>
  BY <1>1, <1>2, ServiceTypes DEF BackgroundRuns
<1>3. ASSUME NEW s \in Searches, NEW q \in Queries, StaleHit(s, q)
      PROVE  /\ refreshing' = refreshing \cup {q}
             /\ background' = background \cup {s} /\ search'[s].phase # "idle"
  BY <1>3, StartedSearch DEF StaleHit, Cache!Revalidate
<1>4. ASSUME NEW s \in Searches, JoinOrThrow(s) \/ Return(s)
      PROVE  refreshing' \subseteq refreshing /\ background' = background
  BY <1>4 DEF JoinOrThrow, Return, Released, Cache!Release
<1>5. QED
  BY <1>1, <1>2, <1>3, <1>4, ServiceTypes
  DEF ServiceNext, serviceVars, Untouched, Miss, Cache!Get, BackgroundRuns

-----------------------------------------------------------------------------
(* The theorems                                                            *)

LEMMA ServiceInitially == ServiceInit => ServiceInv
<1> SUFFICES ASSUME ServiceInit
             PROVE  ServiceInv
  OBVIOUS
<1>1. FanoutInv
  BY FanoutInitially DEF ServiceInit
<1>2. entries \in Seq(CacheEntry) /\ Len(entries) = 0
  BY EmptySeq DEF ServiceInit
<1>3. ServiceTyped /\ EntriesWhole /\ BackgroundRuns
  BY <1>2 DEF ServiceInit, ServiceTyped, EntriesWhole, BackgroundRuns
<1>4. OnlyMaskingMasks
  BY DEF ServiceInit, Init, OnlyMaskingMasks
<1>5. OneRefreshPerQuery
  <2>1. \A q \in Queries : Refreshes(q) = {} /\ q \notin refreshing
    BY DEF ServiceInit, Refreshes
  <2>2. QED
    BY <2>1, FS_EmptySet DEF OneRefreshPerQuery
<1>6. QED
  BY <1>1, <1>3, <1>4, <1>5 DEF ServiceInv

LEMMA ServiceStep == ServiceInv /\ [ServiceNext]_serviceVars => ServiceInv'
<1> SUFFICES ASSUME ServiceInv, [ServiceNext]_serviceVars
             PROVE  ServiceInv'
  OBVIOUS
<1>1. FanoutInv /\ OnlyMaskingMasks /\ [Next]_vars
  BY ServiceStepsFanout DEF ServiceInv
<1>2. FanoutInv' /\ OnlyMaskingMasks'
  BY <1>1, FanoutStep, MaskingStays
<1>3. entries' \in Seq(CacheEntry) /\ EntriesWhole'
  BY ServiceEntries, ServiceKeepsWhole
<1>4. ServiceTyped' /\ BackgroundRuns'
  BY <1>3, ServiceKeepsBackground DEF ServiceTyped
<1>5. QED
  BY <1>2, <1>3, <1>4, ServiceKeepsRefreshes DEF ServiceInv

LEMMA ServiceInvariant == ServiceSpec => []ServiceInv
BY ServiceInitially, ServiceStep, PTL DEF ServiceSpec

\* In front of the fan-out the cache decides who searches when, and nothing
\* else: what is proved of the fan-out's steps holds here (searchProducts,
\* which calls runSearch).
THEOREM ServiceImplementsFanout == ServiceSpec => Init /\ [][Next]_vars
<1>1. ServiceInit => Init
  BY DEF ServiceInit
<1>2. QED
  BY <1>1, ServiceStepsFanout, PTL DEF ServiceSpec

\* Behind every stored result is a run of that very query that every chain
\* answered, as far as its adapter lets that be seen (set in searchProducts,
\* after chainsComplete of runSearch).
THEOREM OnlyWholeResultsStored == ServiceSpec => []StoredIsWhole
<1>1. ServiceInv => StoredIsWhole
  BY DEF ServiceInv, EntriesWhole, EntryWhole, WholeRun, StoredIsWhole
<1>2. QED
  BY <1>1, ServiceInvariant, PTL

\* A key is marked exactly while one background run for it is active, however
\* that run ends (revalidate and its finally).
THEOREM OneRefreshAtATime == ServiceSpec => []OneRefreshPerQuery
BY ServiceInvariant, PTL DEF ServiceInv

=============================================================================
