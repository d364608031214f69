------------------------ MODULE VendorSessions_proofs ------------------------
(***************************************************************************)
(* What the program keeps to when it reaches others, for any number of     *)
(* requests, callers and texts and any distances: requests to a host and   *)
(* to OpenStreetMap keep their distance, and a vendor has one browser.     *)
(* The three ways share nothing; each has an invariant of its own.         *)
(***************************************************************************)
EXTENDS VendorSessions, SequenceTheorems, FiniteSetTheorems, TLAPS

-----------------------------------------------------------------------------
(* The requests to a host                                                  *)

Results == {"none", "data", "aborted", "SourceRateLimited", "SourceUnavailable",
            "SourceParseFailed"}

Request ==
  [at : {"idle", "queued", "flying", "reading", "backoff", "over"},
   attempt : Nat, wake : Int, looked : Nat, result : Results]

LEMMA WaitingRequest ==
  ASSUME NEW state \in Request, NEW w \in Int,
         NEW at \in {"idle", "queued", "flying", "reading", "backoff", "over"}
  PROVE  LET waiting == [state EXCEPT !.at = at, !.wake = w]
         IN  /\ waiting \in Request
             /\ waiting.at = at /\ waiting.wake = w /\ waiting.looked = state.looked
BY DEF Request

LEMMA OverIsOver ==
  ASSUME NEW state, NEW result \in Results
  PROVE  Over(state, result) \in Request /\ Over(state, result).at = "over"
<1>1. Unasked \in Request
  BY DEF Unasked, Request, Results
<1>2. \A x \in Request : LET over == [x EXCEPT !.at = "over", !.result = result]
                         IN  over \in Request /\ over.at = "over"
  BY DEF Request, Results
<1> QED BY <1>1, <1>2 DEF Over

HttpTypeOK ==
  /\ clock \in Nat /\ lastRequest \in Int
  /\ request \in [Requests -> Request]
  /\ sent \in Seq([at : Nat, looked : Nat])

\* What was sent is in order, and lastRequestByHost is the last of it.
SentInOrder ==
  /\ \A i \in DOMAIN sent : sent[i].at <= clock
  /\ \A i, j \in DOMAIN sent : i < j => sent[i].at <= sent[j].at
  /\ sent = <<>> => lastRequest = -1
  /\ sent # <<>> => lastRequest = sent[Len(sent)].at

\* Who sleeps wakes at a distance to all that had been sent when it looked.
SleepersKeepAway ==
  \A r \in Requests : request[r].at = "queued" =>
    /\ request[r].looked <= Len(sent)
    /\ \A i \in DOMAIN sent : i <= request[r].looked => request[r].wake - sent[i].at >= Spacing

HttpInv == HttpTypeOK /\ SentInOrder /\ SleepersKeepAway /\ HostsAreSpared

LEMMA InitHttp == HttpInit => HttpInv
<1> SUFFICES ASSUME HttpInit PROVE HttpInv
  OBVIOUS
<1>1. sent = <<>> /\ DOMAIN sent = {} /\ <<>> \in Seq([at : Nat, looked : Nat])
  BY EmptySeq DEF HttpInit
<1>2. Unasked \in Request
  BY DEF Unasked, Request, Results
<1>3. HttpTypeOK
  BY <1>1, <1>2 DEF HttpInit, HttpTypeOK
<1>4. SleepersKeepAway
  BY DEF HttpInit, SleepersKeepAway, Unasked
<1> QED BY <1>1, <1>3, <1>4 DEF HttpInit, HttpInv, SentInOrder, HostsAreSpared

\* A request that goes out at a distance to all it knows of.
LEMMA GoesKeepsHttp ==
  ASSUME HttpInv, NEW r \in Requests, NEW state \in Request, NEW slept,
         Goes(r, state, slept), UNCHANGED clock,
         \A i \in DOMAIN sent : i <= state.looked => clock - sent[i].at >= Spacing
  PROVE  HttpInv'
<1> DEFINE entry == [at |-> clock, looked |-> state.looked]
           going == [state EXCEPT !.at = "flying", !.wake = clock + Timeout]
           Entry == [at : Nat, looked : Nat]
           n == Len(sent)
<1>0. clock \in Nat /\ Timeout \in Nat
  BY HttpAssumption DEF HttpInv, HttpTypeOK
<1>1. /\ clock \in Nat /\ request \in [Requests -> Request] /\ sent \in Seq(Entry)
      /\ Spacing \in Nat /\ Timeout \in Nat
      /\ DOMAIN sent = 1 .. n /\ n \in Nat
      /\ \A i \in 1 .. n : sent[i].at \in Nat /\ sent[i].looked \in Nat
  <2>1. \A i \in 1 .. n : sent[i] \in Entry
    BY ElementOfSeq DEF HttpInv, HttpTypeOK
  <2> QED BY <2>1, HttpAssumption, LenProperties DEF HttpInv, HttpTypeOK
<1>2. /\ request' = [request EXCEPT ![r] = going]
      /\ lastRequest' = clock /\ sent' = Append(sent, entry)
  BY DEF Goes, Becomes, Stamp
<1>3. entry \in Entry /\ entry.at = clock /\ entry.looked = state.looked
  BY <1>1 DEF Request
<1>4. going \in Request /\ going.at = "flying"
  <2>1. clock + Timeout \in Int
    BY <1>0
  <2> QED BY <2>1, WaitingRequest
<1> HIDE DEF entry, going
<1>4a. n = Len(sent)
  OBVIOUS
<1> HIDE DEF n
<1>4b. n \in Nat
  BY <1>1
<1>4c. \A k \in 1 .. n + 1 : k \in 1 .. n \/ k = n + 1
  BY <1>4b
<1>5. /\ sent' \in Seq(Entry) /\ sent' # <<>> /\ Len(sent') = n + 1
      /\ DOMAIN sent' = 1 .. n + 1
      /\ \A i \in 1 .. n : sent'[i] = sent[i]
      /\ sent'[n + 1] = entry
  <2>1. /\ Append(sent, entry) \in Seq(Entry) /\ Append(sent, entry) # <<>>
        /\ Len(Append(sent, entry)) = n + 1
        /\ \A i \in 1 .. n : Append(sent, entry)[i] = sent[i]
        /\ Append(sent, entry)[n + 1] = entry
    BY <1>1, <1>3, <1>4a, AppendProperties
  <2> QED BY <1>1, <1>2, <2>1, LenProperties
<1>6. \A q \in Requests : request'[q] = IF q = r THEN going ELSE request[q]
  BY <1>1, <1>2
<1>7. HttpTypeOK'
  BY <1>1, <1>2, <1>4, <1>5 DEF HttpTypeOK
<1>8. SentInOrder'
  <2>1. \A i \in 1 .. n : sent[i].at <= clock
    BY <1>1 DEF HttpInv, SentInOrder
  <2>2. \A i, j \in 1 .. n : i < j => sent[i].at <= sent[j].at
    BY <1>1 DEF HttpInv, SentInOrder
  <2>3. \A i \in 1 .. n + 1 : sent'[i].at <= clock'
    BY <1>1, <1>3, <1>5, <2>1
  <2>4. \A i, j \in 1 .. n + 1 : i < j => sent'[i].at <= sent'[j].at
    <3> SUFFICES ASSUME NEW i \in 1 .. n + 1, NEW j \in 1 .. n + 1, i < j
                 PROVE  sent'[i].at <= sent'[j].at
      OBVIOUS
    <3>1. i \in 1 .. n /\ (j \in 1 .. n \/ j = n + 1)
      BY <1>4b, <1>4c
    <3> QED BY <1>1, <1>3, <1>5, <2>1, <2>2, <3>1
  <2>5. lastRequest' = sent'[Len(sent')].at
    BY <1>2, <1>3, <1>5
  <2> QED BY <1>5, <2>3, <2>4, <2>5 DEF SentInOrder
<1>9. SleepersKeepAway'
  <2> SUFFICES ASSUME NEW q \in Requests, request'[q].at = "queued"
               PROVE  /\ request'[q].looked <= Len(sent')
                      /\ \A i \in DOMAIN sent' : i <= request'[q].looked =>
                           request'[q].wake - sent'[i].at >= Spacing
    BY DEF SleepersKeepAway
  <2>1. request'[q] = request[q] /\ request[q] \in Request
    BY <1>1, <1>4, <1>6
  <2>2. request[q].looked \in Nat /\ request[q].looked <= n
        /\ \A i \in 1 .. n : i <= request[q].looked => request[q].wake - sent[i].at >= Spacing
    BY <1>1, <1>4a, <2>1 DEF HttpInv, SleepersKeepAway, Request
  <2>3. \A i \in 1 .. n + 1 : i <= request[q].looked => i \in 1 .. n
    BY <1>4b, <2>2
  <2>4. request'[q].looked <= Len(sent')
    BY <1>4b, <1>5, <2>1, <2>2
  <2>5. ASSUME NEW i \in DOMAIN sent', i <= request'[q].looked
        PROVE  request'[q].wake - sent'[i].at >= Spacing
    <3>1. i \in 1 .. n /\ i <= request[q].looked
      BY <1>5, <2>1, <2>3, <2>5
    <3>2. sent'[i] = sent[i]
      BY <1>5, <3>1
    <3> QED BY <2>1, <2>2, <3>1, <3>2
  <2> QED BY <2>4, <2>5
<1>10. HostsAreSpared'
  <2> SUFFICES ASSUME NEW i \in 1 .. n + 1, NEW j \in 1 .. n + 1,
                      i <= sent'[j].looked, i < j
               PROVE  sent'[j].at - sent'[i].at >= Spacing
    BY <1>5 DEF HostsAreSpared
  <2>1. i \in 1 .. n
    BY <1>4b, <1>4c
  <2>2. CASE j \in 1 .. n
    BY <1>1, <1>5, <2>1, <2>2 DEF HttpInv, HostsAreSpared
  <2>3. CASE j = n + 1
    <3>1. sent'[j].at = clock /\ i <= state.looked /\ sent'[i] = sent[i]
      BY <1>3, <1>5, <2>1, <2>3
    <3> QED BY <1>1, <2>1, <3>1
  <2>4. j \in 1 .. n \/ j = n + 1
    BY <1>4b, <1>4c
  <2> QED BY <2>2, <2>3, <2>4
<1> QED BY <1>7, <1>8, <1>9, <1>10 DEF HttpInv

\* A request that changes its state without going out or queueing.
LEMMA BecomesKeepsHttp ==
  ASSUME HttpInv, NEW r \in Requests, NEW state \in Request, Becomes(r, state),
         UNCHANGED <<clock, lastRequest, sent>>,
         state.at = "queued" =>
           /\ state.looked <= Len(sent)
           /\ \A i \in DOMAIN sent : i <= state.looked => state.wake - sent[i].at >= Spacing
  PROVE  HttpInv'
<1>1. request \in [Requests -> Request] /\ request' = [request EXCEPT ![r] = state]
  BY DEF HttpInv, HttpTypeOK, Becomes
<1>2. \A q \in Requests : request'[q] = IF q = r THEN state ELSE request[q]
  BY <1>1
<1>3. HttpTypeOK'
  BY <1>1 DEF HttpInv, HttpTypeOK
<1>4. SentInOrder' /\ HostsAreSpared'
  BY DEF HttpInv, SentInOrder, HostsAreSpared
<1>5. SleepersKeepAway'
  BY <1>2 DEF HttpInv, SleepersKeepAway
<1> QED BY <1>3, <1>4, <1>5 DEF HttpInv

LEMMA LooksKeepsHttp ==
  ASSUME HttpInv, NEW r \in Requests, NEW state \in Request,
         LooksForTurn(r, state), UNCHANGED clock
  PROVE  HttpInv'
<1> DEFINE looking == [state EXCEPT !.looked = Len(sent)]
           turn == lastRequest + Spacing
           n == Len(sent)
<1>1. /\ clock \in Nat /\ lastRequest \in Int /\ Spacing \in Nat
      /\ DOMAIN sent = 1 .. n /\ n \in Nat
      /\ \A i \in 1 .. n : sent[i].at \in Nat
  <2>1. \A i \in 1 .. n : sent[i] \in [at : Nat, looked : Nat]
    BY ElementOfSeq DEF HttpInv, HttpTypeOK
  <2> QED BY <2>1, HttpAssumption, LenProperties DEF HttpInv, HttpTypeOK
<1>2. looking \in Request /\ looking.looked = n
  BY <1>1 DEF Request
<1>3. \A i \in 1 .. n : sent[i].at <= lastRequest /\ lastRequest # -1
  <2> SUFFICES ASSUME NEW i \in 1 .. n PROVE sent[i].at <= lastRequest /\ lastRequest # -1
    OBVIOUS
  <2>1. sent # <<>> /\ n \in 1 .. n
    BY <1>1, EmptySeq
  <2>2. lastRequest = sent[n].at /\ (i < n => sent[i].at <= sent[n].at)
    BY <1>1, <2>1 DEF HttpInv, SentInOrder
  <2> QED BY <1>1, <2>1, <2>2
<1>4. CASE lastRequest = -1 \/ turn <= clock
  <2>1. Goes(r, looking, FALSE)
    BY <1>4 DEF LooksForTurn
  <2>2. \A i \in DOMAIN sent : i <= looking.looked => clock - sent[i].at >= Spacing
    BY <1>1, <1>3, <1>4
  <2> HIDE DEF looking
  <2> QED BY <1>2, <2>1, <2>2, GoesKeepsHttp
<1>5. CASE ~ (lastRequest = -1 \/ turn <= clock)
  <2> DEFINE queued == [looking EXCEPT !.at = "queued", !.wake = turn]
  <2>1. Becomes(r, queued) /\ UNCHANGED <<clock, lastRequest, sent>>
    BY <1>5 DEF LooksForTurn
  <2>2. queued \in Request /\ queued.looked = n /\ queued.wake = turn
    <3>1. turn \in Int
      BY <1>1
    <3> HIDE DEF looking, turn
    <3>2. queued \in Request /\ queued.wake = turn /\ queued.looked = looking.looked
      <4>1. \A x \in Request, w \in Int :
              LET waiting == [x EXCEPT !.at = "queued", !.wake = w]
              IN  waiting \in Request /\ waiting.wake = w /\ waiting.looked = x.looked
        BY DEF Request
      <4> QED BY <1>2, <3>1, <4>1
    <3> QED BY <1>2, <3>2
  <2>3. \A i \in DOMAIN sent : i <= queued.looked => queued.wake - sent[i].at >= Spacing
    BY <1>1, <1>3, <2>2
  <2> HIDE DEF queued
  <2>4. queued.looked <= Len(sent)
    BY <1>1, <2>2
  <2> QED BY <2>1, <2>2, <2>3, <2>4, BecomesKeepsHttp
<1> QED BY <1>4, <1>5


\* The catch of an attempt neither sends nor queues.
LEMMA CaughtKeepsHttp ==
  ASSUME HttpInv, NEW r \in Requests,
         NEW code \in {"SourceRateLimited", "SourceUnavailable", "SourceParseFailed"},
         Caught(r, code), UNCHANGED <<clock, lastRequest, sent>>
  PROVE  HttpInv'
<1> DEFINE later == [request[r] EXCEPT !.at = "backoff",
                       !.wake = clock + Backoff * (request[r].attempt + 1)]
           over == Over(request[r], code)
<1>1. request[r] \in Request /\ clock \in Nat /\ Backoff \in Nat /\ request[r].attempt \in Nat
  BY HttpAssumption DEF HttpInv, HttpTypeOK, Request
<1>2. later \in Request /\ later.at = "backoff"
  <2>1. clock + Backoff * (request[r].attempt + 1) \in Int
    BY <1>1
  <2>2. \A w \in Int : LET state == [request[r] EXCEPT !.at = "backoff", !.wake = w]
                       IN  state \in Request /\ state.at = "backoff"
    BY <1>1 DEF Request
  <2> QED BY <2>1, <2>2
<1>3. over \in Request /\ over.at = "over"
  BY OverIsOver DEF Results
<1>4. Becomes(r, later) \/ Becomes(r, over)
  BY DEF Caught
<1> HIDE DEF later, over
<1> QED BY <1>2, <1>3, <1>4, BecomesKeepsHttp

LEMMA HttpStep == HttpInv /\ [HttpNext]_httpVars => HttpInv'
<1> SUFFICES ASSUME HttpInv, [HttpNext]_httpVars PROVE HttpInv'
  OBVIOUS
<1>1. /\ clock \in Nat /\ request \in [Requests -> Request]
  BY DEF HttpInv, HttpTypeOK
<1>2. ASSUME NEW r \in Requests, Ask(r) PROVE HttpInv'
  BY <1>1, <1>2, LooksKeepsHttp DEF Ask
<1>3. ASSUME NEW r \in Requests, TurnComes(r) PROVE HttpInv'
  <2>1. /\ Goes(r, request[r], TRUE) /\ clock' = clock
        /\ request[r].at = "queued" /\ clock >= request[r].wake
    BY <1>3 DEF TurnComes
  <2>2. request[r].looked <= Len(sent)
        /\ \A i \in DOMAIN sent : i <= request[r].looked => request[r].wake - sent[i].at >= Spacing
    BY <2>1 DEF HttpInv, SleepersKeepAway
  <2>3. ASSUME NEW i \in DOMAIN sent, i <= request[r].looked
        PROVE  clock - sent[i].at >= Spacing
    <3>1. sent[i] \in [at : Nat, looked : Nat] /\ request[r].wake \in Int /\ Spacing \in Nat
      BY <1>1, LenProperties, ElementOfSeq, HttpAssumption DEF HttpInv, HttpTypeOK, Request
    <3>2. request[r].wake - sent[i].at >= Spacing
      BY <2>2, <2>3
    <3>3. sent[i].at \in Nat
      BY <3>1
    <3> QED BY <1>1, <2>1, <3>1, <3>2, <3>3
  <2> QED BY <1>1, <2>1, <2>3, GoesKeepsHttp
<1>4. ASSUME NEW r \in Requests, NoAnswer(r) PROVE HttpInv'
  BY <1>4, CaughtKeepsHttp DEF NoAnswer
<1>5. ASSUME NEW r \in Requests, Headers(r) PROVE HttpInv'
  <2> DEFINE reading == [request[r] EXCEPT !.at = "reading"]
  <2>1. reading \in Request /\ reading.at = "reading"
    BY <1>1 DEF Request
  <2>2. Becomes(r, reading) /\ UNCHANGED <<clock, lastRequest, sent>>
    BY <1>5 DEF Headers
  <2> HIDE DEF reading
  <2> QED BY <2>1, <2>2, BecomesKeepsHttp
<1>6. ASSUME NEW r \in Requests, Body(r) PROVE HttpInv'
  <2> DEFINE over == Over(request[r], "data")
  <2>1. over \in Request /\ over.at = "over"
    BY OverIsOver DEF Results
  <2>2. UNCHANGED <<clock, lastRequest, sent>>
        /\ (Becomes(r, over) \/ Caught(r, "SourceParseFailed"))
    BY <1>6 DEF Body
  <2> HIDE DEF over
  <2> QED BY <2>1, <2>2, BecomesKeepsHttp, CaughtKeepsHttp
<1>7. ASSUME NEW r \in Requests, Again(r) PROVE HttpInv'
  <2> DEFINE again == [request[r] EXCEPT !.attempt = @ + 1]
  <2>1. again \in Request
    BY <1>1 DEF Request
  <2>2. LooksForTurn(r, again) /\ clock' = clock
    BY <1>7 DEF Again
  <2> HIDE DEF again
  <2> QED BY <2>1, <2>2, LooksKeepsHttp
<1>8. ASSUME NEW r \in Requests, Leave(r) PROVE HttpInv'
  <2> DEFINE left == Over(request[r], AbortSeenAs(request[r].at))
  <2>1. left \in Request /\ left.at = "over"
    BY OverIsOver DEF Results, AbortSeenAs
  <2>2. Becomes(r, left) /\ UNCHANGED <<clock, lastRequest, sent>>
    BY <1>8 DEF Leave
  <2> HIDE DEF left
  <2> QED BY <2>1, <2>2, BecomesKeepsHttp
<1>9. CASE HttpTick
  <2>1. clock' = clock + 1 /\ UNCHANGED <<lastRequest, request, sent>>
    BY <1>9 DEF HttpTick
  <2>2. \A i \in DOMAIN sent : sent[i].at <= clock'
    <3> SUFFICES ASSUME NEW i \in DOMAIN sent PROVE sent[i].at <= clock'
      OBVIOUS
    <3>1. sent[i] \in [at : Nat, looked : Nat]
      BY LenProperties, ElementOfSeq DEF HttpInv, HttpTypeOK
    <3>2. sent[i].at \in Nat /\ sent[i].at <= clock
      BY <3>1 DEF HttpInv, SentInOrder
    <3> QED BY <1>1, <2>1, <3>2
  <2> QED BY <1>1, <2>1, <2>2 DEF HttpInv, HttpTypeOK, SentInOrder, SleepersKeepAway, HostsAreSpared
<1>10. CASE UNCHANGED httpVars
  BY <1>10 DEF httpVars, HttpInv, HttpTypeOK, SentInOrder, SleepersKeepAway, HostsAreSpared
<1> QED BY <1>2, <1>3, <1>4, <1>5, <1>6, <1>7, <1>8, <1>9, <1>10 DEF HttpNext

-----------------------------------------------------------------------------
(* The requests to OpenStreetMap                                           *)

Sources == {"none", "place", "gazetteer", "address", "interest", "table", "nowhere"}

Lookup ==
  [at : {"idle", "official", "interest", "inLine", "sleeping", "asking", "over"},
   text : Texts, stage : 1 .. 3, wake : Int, looked : Nat, result : Sources]

Asking == [at : Nat, looked : Nat, by : {"lookup", "suggestion"}]

GeoTypeOK ==
  /\ moment \in Nat
  /\ points \in [Texts -> Sources] /\ interests \in [Texts -> {"none", "found", "nothing"}]
  /\ lastAsked \in Int /\ asked \in Seq(Asking)
  /\ inLine \in Seq(Lookups) /\ lookup \in [Lookups -> Lookup]
  /\ keystroke \in [Keystrokes -> {"idle", "over"}]

\* What was asked is in order, and nominatimLastRequestAt is the last of it.
AskedInOrder ==
  /\ \A i \in DOMAIN asked : asked[i].at <= lastAsked /\ asked[i].at <= moment
  /\ asked # <<>> => lastAsked <= moment
  /\ \A i, j \in DOMAIN asked : i < j => asked[i].at <= asked[j].at

\* Only the first in line looks at the time, sleeps and asks.
OneInFront ==
  \A l \in Lookups : lookup[l].at \in {"sleeping", "asking"} =>
    inLine # <<>> /\ Head(inLine) = l

\* Who sleeps wakes at a distance to all it knows of; what it does not know of
\* are suggestions that went past the line.
SleeperIsOvertakenBySuggestions ==
  \A l \in Lookups : lookup[l].at = "sleeping" =>
    /\ lookup[l].looked <= Len(asked)
    /\ \A i \in DOMAIN asked :
         /\ i <= lookup[l].looked => lookup[l].wake - asked[i].at >= Interval
         /\ i > lookup[l].looked => asked[i].by = "suggestion"

GeoInv == /\ GeoTypeOK /\ AskedInOrder /\ OneInFront
          /\ SleeperIsOvertakenBySuggestions /\ InterestsAreSpared

LEMMA InitGeocoder == GeocoderInit => GeoInv
<1> SUFFICES ASSUME GeocoderInit PROVE GeoInv
  OBVIOUS
<1>1. /\ <<>> \in Seq(Asking) /\ <<>> \in Seq(Lookups)
      /\ (CHOOSE t \in Texts : TRUE) \in Texts /\ - Interval \in Int
  BY EmptySeq, GeocoderAssumption
<1>2. GeoTypeOK
  BY <1>1 DEF GeocoderInit, GeoTypeOK, Lookup, Sources
<1>3. \A l \in Lookups : lookup[l].at = "idle"
  BY DEF GeocoderInit
<1>4. asked = <<>> /\ DOMAIN asked = {}
  BY DEF GeocoderInit
<1> QED BY <1>2, <1>3, <1>4
        DEF GeoInv, AskedInOrder, OneInFront, SleeperIsOvertakenBySuggestions,
            InterestsAreSpared

\* A request at a distance to all of its kind and all it knows of.
LEMMA AsksKeepDistance ==
  ASSUME GeoInv, NEW by \in {"lookup", "suggestion"}, NEW looked \in Nat,
         AsksInterests(by, looked), UNCHANGED moment,
         \A i \in DOMAIN asked :
           asked[i].by = by \/ i <= looked => moment - asked[i].at >= Interval
  PROVE  /\ lastAsked' \in Int /\ asked' \in Seq(Asking)
         /\ AskedInOrder' /\ InterestsAreSpared'
         /\ Len(asked') = Len(asked) + 1 /\ DOMAIN asked' = DOMAIN asked \cup {Len(asked) + 1}
         /\ \A i \in DOMAIN asked : asked'[i] = asked[i]
         /\ asked'[Len(asked) + 1].by = by
<1> DEFINE entry == [at |-> moment, looked |-> looked, by |-> by]
           n == Len(asked)
<1>1. /\ moment \in Nat /\ asked \in Seq(Asking) /\ Interval \in Nat
      /\ n \in Nat /\ DOMAIN asked = 1 .. n
      /\ \A i \in 1 .. n : asked[i].at \in Nat /\ asked[i].looked \in Nat
  <2>1. \A i \in 1 .. n : asked[i] \in Asking
    BY ElementOfSeq DEF GeoInv, GeoTypeOK
  <2> QED BY <2>1, GeocoderAssumption, LenProperties DEF GeoInv, GeoTypeOK, Asking
<1>2. entry \in Asking /\ entry.at = moment /\ entry.looked = looked /\ entry.by = by
  BY <1>1 DEF Asking
<1>3. lastAsked' = moment /\ asked' = Append(asked, entry)
  BY DEF AsksInterests
<1>4. n = Len(asked)
  OBVIOUS
<1> HIDE DEF entry, n
<1>5. /\ asked' \in Seq(Asking) /\ Len(asked') = n + 1 /\ DOMAIN asked' = 1 .. n + 1
      /\ \A i \in 1 .. n : asked'[i] = asked[i]
      /\ asked'[n + 1] = entry
  <2>1. /\ Append(asked, entry) \in Seq(Asking) /\ Len(Append(asked, entry)) = n + 1
        /\ \A i \in 1 .. n : Append(asked, entry)[i] = asked[i]
        /\ Append(asked, entry)[n + 1] = entry
    BY <1>1, <1>2, <1>4, AppendProperties
  <2> QED BY <1>3, <2>1, LenProperties
<1>6. AskedInOrder'
  <2>1. /\ \A i \in 1 .. n : asked[i].at <= moment
        /\ \A i, j \in 1 .. n : i < j => asked[i].at <= asked[j].at
    BY <1>1 DEF GeoInv, AskedInOrder
  <2>2. \A i \in 1 .. n + 1 : i \in 1 .. n \/ i = n + 1
    BY <1>1
  <2>3. \A i \in 1 .. n + 1 : asked'[i].at <= moment
    BY <1>1, <1>2, <1>5, <2>1, <2>2
  <2>4. ASSUME NEW i \in 1 .. n + 1, NEW j \in 1 .. n + 1, i < j
        PROVE  asked'[i].at <= asked'[j].at
    <3>1. i \in 1 .. n
      BY <1>1, <2>4
    <3>2. CASE j \in 1 .. n
      BY <1>5, <2>1, <2>4, <3>1, <3>2
    <3>3. CASE j = n + 1
      BY <1>2, <1>5, <2>1, <3>1, <3>3
    <3> QED BY <2>2, <3>2, <3>3
  <2> QED BY <1>1, <1>3, <1>5, <2>3, <2>4 DEF AskedInOrder
<1>7. InterestsAreSpared'
  <2> SUFFICES ASSUME NEW i \in 1 .. n + 1, NEW j \in 1 .. n + 1, i < j,
                      asked'[i].by = asked'[j].by \/ i <= asked'[j].looked
               PROVE  asked'[j].at - asked'[i].at >= Interval
    BY <1>5 DEF InterestsAreSpared
  <2>1. i \in 1 .. n /\ (j \in 1 .. n \/ j = n + 1)
    BY <1>1
  <2>2. CASE j \in 1 .. n
    BY <1>1, <1>5, <2>1, <2>2 DEF GeoInv, InterestsAreSpared
  <2>3. CASE j = n + 1
    <3>1. asked'[j].at = moment /\ asked'[i] = asked[i]
          /\ (asked[i].by = by \/ i <= looked)
      BY <1>2, <1>5, <2>1, <2>3
    <3> QED BY <1>1, <2>1, <3>1
  <2> QED BY <2>1, <2>2, <2>3
<1>8. 1 .. n + 1 = 1 .. n \cup {n + 1}
  BY <1>1
<1> QED BY <1>1, <1>2, <1>3, <1>4, <1>5, <1>6, <1>7, <1>8

\* A look-up that moves on without looking at the time, and joins the line at most.
LEMMA MovesKeepGeocoder ==
  ASSUME GeoInv, NEW l \in Lookups, NEW state \in Lookup,
         lookup[l].at \notin {"sleeping", "asking"}, state.at \notin {"sleeping", "asking"},
         Moves(l, state), inLine' = inLine \/ inLine' = Append(inLine, l),
         points' \in [Texts -> Sources],
         UNCHANGED <<moment, interests, lastAsked, keystroke, asked>>
  PROVE  GeoInv'
<1>1. lookup' = [lookup EXCEPT ![l] = state] /\ lookup \in [Lookups -> Lookup]
      /\ inLine \in Seq(Lookups)
  BY DEF Moves, GeoInv, GeoTypeOK
<1>2. \A k \in Lookups : lookup'[k] = IF k = l THEN state ELSE lookup[k]
  BY <1>1
<1>3. /\ inLine' \in Seq(Lookups)
      /\ inLine # <<>> => inLine' # <<>> /\ Head(inLine') = Head(inLine)
  BY <1>1, AppendProperties, HeadTailAppend
<1>4. GeoTypeOK'
  BY <1>1, <1>3 DEF GeoInv, GeoTypeOK
<1>5. AskedInOrder' /\ InterestsAreSpared'
  BY DEF GeoInv, AskedInOrder, InterestsAreSpared
<1>6. OneInFront'
  BY <1>2, <1>3 DEF GeoInv, OneInFront
<1>7. SleeperIsOvertakenBySuggestions'
  BY <1>2 DEF GeoInv, SleeperIsOvertakenBySuggestions
<1> QED BY <1>4, <1>5, <1>6, <1>7 DEF GeoInv


\* Facts about what was asked, as the steps need them.
LEMMA AskedFacts ==
  ASSUME GeoInv
  PROVE  /\ moment \in Nat /\ lastAsked \in Int /\ Interval \in Nat
         /\ Len(asked) \in Nat /\ DOMAIN asked = 1 .. Len(asked)
         /\ \A i \in DOMAIN asked : /\ asked[i].at \in Nat /\ asked[i].by \in {"lookup", "suggestion"}
                                    /\ asked[i].at <= lastAsked
<1>1. /\ moment \in Nat /\ lastAsked \in Int /\ Interval \in Nat
      /\ Len(asked) \in Nat /\ DOMAIN asked = 1 .. Len(asked)
  BY GeocoderAssumption, LenProperties DEF GeoInv, GeoTypeOK
<1>2. \A i \in DOMAIN asked : asked[i] \in Asking
  BY <1>1, ElementOfSeq DEF GeoInv, GeoTypeOK
<1>3. \A i \in DOMAIN asked : asked[i].at <= lastAsked
  BY DEF GeoInv, AskedInOrder
<1> QED BY <1>1, <1>2, <1>3 DEF Asking

LEMMA TurnKeepsGeocoder ==
  ASSUME GeoInv, NEW l \in Lookups, Turn(l)
  PROVE  GeoInv'
<1> DEFINE looking == [lookup[l] EXCEPT !.looked = Len(asked)]
           sleeping == [looking EXCEPT !.at = "sleeping", !.wake = lastAsked + Interval]
           asking == [looking EXCEPT !.at = "asking"]
<1>1. /\ inLine # <<>> /\ Head(inLine) = l /\ lookup[l].at = "inLine"
      /\ UNCHANGED <<moment, points, interests, inLine, keystroke>>
      /\ lookup \in [Lookups -> Lookup]
  BY DEF Turn, GeoInv, GeoTypeOK
<1>2. /\ moment \in Nat /\ lastAsked \in Int /\ Interval \in Nat
      /\ Len(asked) \in Nat /\ DOMAIN asked = 1 .. Len(asked)
      /\ \A i \in DOMAIN asked : asked[i].at \in Nat /\ asked[i].at <= lastAsked
  BY AskedFacts
<1>3. \A k \in Lookups : lookup[k].at \notin {"sleeping", "asking"}
  BY <1>1 DEF GeoInv, OneInFront
<1>4. looking \in Lookup /\ looking.looked = Len(asked)
  BY <1>1, <1>2 DEF Lookup
<1>5. CASE lastAsked + Interval > moment
  <2>1. lookup' = [lookup EXCEPT ![l] = sleeping] /\ UNCHANGED <<lastAsked, asked>>
    BY <1>5 DEF Turn, Moves
  <2>2. /\ sleeping \in Lookup /\ sleeping.at = "sleeping"
        /\ sleeping.looked = Len(asked) /\ sleeping.wake = lastAsked + Interval
    <3>1. \A x \in Lookup, w \in Int :
            LET state == [x EXCEPT !.at = "sleeping", !.wake = w]
            IN  /\ state \in Lookup /\ state.at = "sleeping" /\ state.looked = x.looked
                /\ state.wake = w
      BY DEF Lookup
    <3>2. lastAsked + Interval \in Int
      BY <1>2
    <3> HIDE DEF looking
    <3> QED BY <1>4, <3>1, <3>2
  <2> HIDE DEF sleeping
  <2>3. \A k \in Lookups : lookup'[k] = IF k = l THEN sleeping ELSE lookup[k]
    BY <1>1, <2>1
  <2>4. GeoTypeOK'
    BY <1>1, <2>1, <2>2 DEF GeoInv, GeoTypeOK
  <2>5. AskedInOrder' /\ InterestsAreSpared'
    BY <1>1, <2>1 DEF GeoInv, AskedInOrder, InterestsAreSpared
  <2>6. OneInFront'
    BY <1>1, <1>3, <2>3 DEF OneInFront
  <2>7. /\ sleeping.looked <= Len(asked)
        /\ \A i \in DOMAIN asked : /\ sleeping.wake - asked[i].at >= Interval
                                   /\ ~ (i > sleeping.looked)
    BY <1>2, <2>2
  <2>8. SleeperIsOvertakenBySuggestions'
    BY <1>3, <2>1, <2>3, <2>7 DEF SleeperIsOvertakenBySuggestions
  <2> QED BY <2>4, <2>5, <2>6, <2>8 DEF GeoInv
<1>6. CASE ~ (lastAsked + Interval > moment)
  <2>1. lookup' = [lookup EXCEPT ![l] = asking] /\ AsksInterests("lookup", Len(asked))
    BY <1>6 DEF Turn, Moves
  <2>2. asking \in Lookup /\ asking.at = "asking"
    <3>1. \A x \in Lookup : LET state == [x EXCEPT !.at = "asking"]
                            IN  state \in Lookup /\ state.at = "asking"
      BY DEF Lookup
    <3> HIDE DEF looking
    <3> QED BY <1>4, <3>1
  <2> HIDE DEF asking, looking
  <2>3. \A k \in Lookups : lookup'[k] = IF k = l THEN asking ELSE lookup[k]
    BY <1>1, <2>1
  <2>4. \A i \in DOMAIN asked : moment - asked[i].at >= Interval
    BY <1>2, <1>6
  <2>5. /\ lastAsked' \in Int /\ asked' \in Seq(Asking) /\ AskedInOrder' /\ InterestsAreSpared'
    BY <1>1, <1>2, <2>1, <2>4, AsksKeepDistance
  <2>6. GeoTypeOK'
    BY <1>1, <2>1, <2>2, <2>5 DEF GeoInv, GeoTypeOK
  <2>7. OneInFront'
    BY <1>1, <1>3, <2>3 DEF OneInFront
  <2>8. SleeperIsOvertakenBySuggestions'
    BY <1>3, <2>2, <2>3 DEF SleeperIsOvertakenBySuggestions
  <2> QED BY <2>5, <2>6, <2>7, <2>8 DEF GeoInv
<1> QED BY <1>5, <1>6

LEMMA WokenKeepsGeocoder ==
  ASSUME GeoInv, NEW l \in Lookups, Woken(l)
  PROVE  GeoInv'
<1> DEFINE asking == [lookup[l] EXCEPT !.at = "asking"]
<1>1. /\ lookup[l].at = "sleeping" /\ moment >= lookup[l].wake
      /\ lookup' = [lookup EXCEPT ![l] = asking]
      /\ AsksInterests("lookup", lookup[l].looked)
      /\ UNCHANGED <<moment, points, interests, inLine, keystroke>>
      /\ lookup \in [Lookups -> Lookup]
  BY DEF Woken, Moves, GeoInv, GeoTypeOK
<1>2. /\ moment \in Nat /\ Interval \in Nat
      /\ \A i \in DOMAIN asked : asked[i].at \in Nat /\ i \in Nat
  BY AskedFacts
<1>3. lookup[l] \in Lookup /\ lookup[l].looked \in Nat /\ lookup[l].wake \in Int
  BY <1>1 DEF Lookup
<1>4. inLine # <<>> /\ Head(inLine) = l
      /\ \A k \in Lookups : k # l => lookup[k].at \notin {"sleeping", "asking"}
  BY <1>1 DEF GeoInv, OneInFront
<1>5. asking \in Lookup /\ asking.at = "asking"
  BY <1>3 DEF Lookup
<1> HIDE DEF asking
<1>6. \A k \in Lookups : lookup'[k] = IF k = l THEN asking ELSE lookup[k]
  BY <1>1
<1>7. ASSUME NEW i \in DOMAIN asked, asked[i].by = "lookup" \/ i <= lookup[l].looked
      PROVE  moment - asked[i].at >= Interval
  <2>1. /\ i <= lookup[l].looked => lookup[l].wake - asked[i].at >= Interval
        /\ i > lookup[l].looked => asked[i].by = "suggestion"
    BY <1>1 DEF GeoInv, SleeperIsOvertakenBySuggestions
  <2>2. i <= lookup[l].looked
    BY <1>2, <1>3, <1>7, <2>1
  <2>3. asked[i].at \in Nat /\ lookup[l].wake - asked[i].at >= Interval
    BY <1>2, <2>1, <2>2
  <2> QED BY <1>1, <1>2, <1>3, <2>3
<1>8. /\ lastAsked' \in Int /\ asked' \in Seq(Asking) /\ AskedInOrder' /\ InterestsAreSpared'
  BY <1>1, <1>3, <1>7, AsksKeepDistance
<1>9. GeoTypeOK'
  BY <1>1, <1>5, <1>8 DEF GeoInv, GeoTypeOK
<1>10. OneInFront'
  BY <1>1, <1>4, <1>6 DEF OneInFront
<1>11. SleeperIsOvertakenBySuggestions'
  BY <1>4, <1>5, <1>6 DEF SleeperIsOvertakenBySuggestions
<1> QED BY <1>8, <1>9, <1>10, <1>11 DEF GeoInv

\* The answer lets the next of the line go on; nobody else was asking.
LEMMA AnswerKeepsGeocoder ==
  ASSUME GeoInv, NEW l \in Lookups, NEW state \in Lookup, lookup[l].at = "asking",
         state.at = "over", Moves(l, state), inLine' = Tail(inLine),
         points' \in [Texts -> Sources],
         interests' \in [Texts -> {"none", "found", "nothing"}],
         UNCHANGED <<moment, lastAsked, keystroke, asked>>
  PROVE  GeoInv'
<1>1. lookup' = [lookup EXCEPT ![l] = state] /\ lookup \in [Lookups -> Lookup]
      /\ inLine \in Seq(Lookups)
  BY DEF Moves, GeoInv, GeoTypeOK
<1>2. \A k \in Lookups : lookup'[k] = IF k = l THEN state ELSE lookup[k]
  BY <1>1
<1>3. inLine # <<>>
      /\ \A k \in Lookups : k # l => lookup[k].at \notin {"sleeping", "asking"}
  BY DEF GeoInv, OneInFront
<1>4. inLine' \in Seq(Lookups)
  BY <1>1, <1>3, HeadTailProperties
<1>5. \A k \in Lookups : lookup'[k].at \notin {"sleeping", "asking"}
  BY <1>2, <1>3
<1>6. GeoTypeOK'
  BY <1>1, <1>4 DEF GeoInv, GeoTypeOK
<1>7. AskedInOrder' /\ InterestsAreSpared'
  BY DEF GeoInv, AskedInOrder, InterestsAreSpared
<1>8. OneInFront' /\ SleeperIsOvertakenBySuggestions'
  BY <1>5 DEF OneInFront, SleeperIsOvertakenBySuggestions
<1> QED BY <1>6, <1>7, <1>8 DEF GeoInv

LEMMA SuggestKeepsGeocoder ==
  ASSUME GeoInv, NEW k \in Keystrokes, Suggest(k)
  PROVE  GeoInv'
<1>1. /\ UNCHANGED <<moment, points, interests, inLine, lookup>>
      /\ keystroke' \in [Keystrokes -> {"idle", "over"}]
  BY DEF Suggest, GeoInv, GeoTypeOK
<1>2. /\ moment \in Nat /\ lastAsked \in Int /\ Interval \in Nat
      /\ Len(asked) \in Nat /\ DOMAIN asked = 1 .. Len(asked)
      /\ \A i \in DOMAIN asked : asked[i].at \in Nat /\ asked[i].at <= lastAsked
  BY AskedFacts
<1>3. OneInFront'
  BY <1>1 DEF GeoInv, OneInFront
<1>4. CASE Free /\ AsksInterests("suggestion", Len(asked))
  <2>1. \A i \in DOMAIN asked : moment - asked[i].at >= Interval
    BY <1>2, <1>4 DEF Free
  <2>2. /\ lastAsked' \in Int /\ asked' \in Seq(Asking) /\ AskedInOrder' /\ InterestsAreSpared'
        /\ Len(asked') = Len(asked) + 1 /\ DOMAIN asked' = DOMAIN asked \cup {Len(asked) + 1}
        /\ \A i \in DOMAIN asked : asked'[i] = asked[i]
        /\ asked'[Len(asked) + 1].by = "suggestion"
    BY <1>1, <1>2, <1>4, <2>1, AsksKeepDistance
  <2>3. GeoTypeOK'
    BY <1>1, <2>2 DEF GeoInv, GeoTypeOK
  <2>4. SleeperIsOvertakenBySuggestions'
    <3> SUFFICES ASSUME NEW l \in Lookups, lookup[l].at = "sleeping"
                 PROVE  /\ lookup[l].looked <= Len(asked')
                        /\ \A i \in DOMAIN asked' :
                             /\ i <= lookup[l].looked => lookup[l].wake - asked'[i].at >= Interval
                             /\ i > lookup[l].looked => asked'[i].by = "suggestion"
      BY <1>1 DEF SleeperIsOvertakenBySuggestions
    <3>1. lookup[l].looked \in Nat /\ lookup[l].looked <= Len(asked)
      BY DEF GeoInv, GeoTypeOK, Lookup, SleeperIsOvertakenBySuggestions
    <3>2. lookup[l].looked <= Len(asked')
      BY <1>2, <2>2, <3>1
    <3>3. ASSUME NEW i \in DOMAIN asked'
          PROVE  /\ i <= lookup[l].looked => lookup[l].wake - asked'[i].at >= Interval
                 /\ i > lookup[l].looked => asked'[i].by = "suggestion"
      <4>1. CASE i \in DOMAIN asked
        BY <2>2, <4>1 DEF GeoInv, SleeperIsOvertakenBySuggestions
      <4>2. CASE i = Len(asked) + 1
        BY <1>2, <2>2, <3>1, <4>2
      <4> QED BY <2>2, <4>1, <4>2
    <3> QED BY <3>2, <3>3
  <2> QED BY <1>3, <2>2, <2>3, <2>4 DEF GeoInv
<1>5. CASE UNCHANGED <<lastAsked, asked>>
  <2>1. GeoTypeOK'
    BY <1>1, <1>5 DEF GeoInv, GeoTypeOK
  <2>2. AskedInOrder' /\ InterestsAreSpared' /\ SleeperIsOvertakenBySuggestions'
    BY <1>1, <1>5 DEF GeoInv, AskedInOrder, InterestsAreSpared, SleeperIsOvertakenBySuggestions
  <2> QED BY <1>3, <2>1, <2>2 DEF GeoInv
<1> QED BY <1>4, <1>5 DEF Suggest


LEMMA GeocoderStep == GeoInv /\ [GeocoderNext]_geoVars => GeoInv'
<1> SUFFICES ASSUME GeoInv, [GeocoderNext]_geoVars PROVE GeoInv'
  OBVIOUS
<1>1. /\ points \in [Texts -> Sources] /\ interests \in [Texts -> {"none", "found", "nothing"}]
      /\ lookup \in [Lookups -> Lookup]
      /\ \A l \in Lookups : lookup[l].text \in Texts /\ lookup[l].stage \in 1 .. 3
  BY DEF GeoInv, GeoTypeOK, Lookup
<1>2. \A x \in Lookup, source \in Sources :
        LET state == [x EXCEPT !.at = "over", !.result = source]
        IN  state \in Lookup /\ state.at = "over"
  BY DEF Lookup
<1>3. \A x \in Lookup : \E state \in Lookup :
        state.at = "over" /\ \A l : FromTable(l, x) => Moves(l, state)
  <2> SUFFICES ASSUME NEW x \in Lookup
               PROVE  \E state \in Lookup :
                        state.at = "over" /\ \A l : FromTable(l, x) => Moves(l, state)
    OBVIOUS
  <2> DEFINE source == IF "table" \in KnownAt[x.text] THEN "table" ELSE "nowhere"
             state == [x EXCEPT !.at = "over", !.result = source]
  <2>1. source \in Sources
    BY DEF Sources
  <2>2. state \in Lookup /\ state.at = "over"
    BY <1>2, <2>1
  <2>3. \A l : FromTable(l, x) => Moves(l, state)
    BY DEF FromTable, Found
  <2> HIDE DEF state
  <2> QED BY <2>2, <2>3
<1>4. ASSUME NEW l \in Lookups, NEW t \in Texts, Resolve(l, t) PROVE GeoInv'
  <2> DEFINE named == [lookup[l] EXCEPT !.text = t]
             over == [named EXCEPT !.at = "over", !.result = points[t]]
             official == [named EXCEPT !.at = "official"]
  <2>1. named \in Lookup
    BY <1>1 DEF Lookup
  <2>2. over \in Lookup /\ over.at = "over"
    BY <1>1, <1>2, <2>1
  <2>3. official \in Lookup /\ official.at = "official"
    <3>1. \A x \in Lookup : LET state == [x EXCEPT !.at = "official"]
                            IN  state \in Lookup /\ state.at = "official"
      BY DEF Lookup
    <3> HIDE DEF named
    <3> QED BY <2>1, <3>1
  <2>4. /\ lookup[l].at = "idle" /\ (Moves(l, over) \/ Moves(l, official))
        /\ UNCHANGED <<moment, points, interests, lastAsked, inLine, keystroke, asked>>
    BY <1>4 DEF Resolve, Found
  <2> HIDE DEF over, official
  <2> QED BY <1>1, <2>2, <2>3, <2>4, MovesKeepGeocoder
<1>5. ASSUME NEW l \in Lookups, Official(l) PROVE GeoInv'
  <2> DEFINE state == lookup[l]
             stage == Stages[state.stage]
             found == [state EXCEPT !.at = "over", !.result = stage]
             next == [state EXCEPT !.stage = @ + 1]
             interest == [state EXCEPT !.at = "interest"]
  <2>1. state \in Lookup /\ stage \in Sources
    BY <1>1 DEF Stages, Sources
  <2>2. found \in Lookup /\ found.at = "over"
    <3> HIDE DEF stage
    <3> QED BY <1>2, <2>1
  <2>3. interest \in Lookup /\ interest.at = "interest"
    BY <2>1 DEF Lookup
  <2>4. /\ state.at = "official"
        /\ UNCHANGED <<moment, interests, lastAsked, inLine, keystroke, asked>>
    BY <1>5 DEF Official
  <2>5. state.stage < Len(Stages) => next \in Lookup /\ next.at = "official"
    <3>1. Len(Stages) = 3
      BY DEF Stages
    <3>2. ASSUME state.stage < 3 PROVE state.stage + 1 \in 1 .. 3
      BY <1>1, <3>2
    <3> QED BY <2>1, <2>4, <3>1, <3>2 DEF Lookup
  <2>6. PICK over \in Lookup : over.at = "over" /\ (FromTable(l, state) => Moves(l, over))
    BY <1>3, <2>1
  <2>7. \/ points' = [points EXCEPT ![state.text] = stage] /\ Moves(l, found)
        \/ state.stage < Len(Stages) /\ Moves(l, next) /\ UNCHANGED points
        \/ Moves(l, interest) /\ UNCHANGED points
        \/ FromTable(l, state) /\ UNCHANGED points
    BY <1>5 DEF Official, Found
  <2>8. points' \in [Texts -> Sources]
    BY <1>1, <2>1, <2>7
  <2> HIDE DEF found, next, interest
  <2> QED BY <2>2, <2>3, <2>4, <2>5, <2>6, <2>7, <2>8, MovesKeepGeocoder
<1>6. ASSUME NEW l \in Lookups, Interest(l) PROVE GeoInv'
  <2> DEFINE state == lookup[l]
             found == [state EXCEPT !.at = "over", !.result = "interest"]
             joined == [state EXCEPT !.at = "inLine"]
  <2>1. state \in Lookup /\ "interest" \in Sources
    BY <1>1 DEF Sources
  <2>2. found \in Lookup /\ found.at = "over"
    BY <1>2, <2>1
  <2>3. joined \in Lookup /\ joined.at = "inLine"
    BY <2>1 DEF Lookup
  <2>4. /\ state.at = "interest"
        /\ UNCHANGED <<moment, interests, lastAsked, keystroke, asked>>
    BY <1>6 DEF Interest
  <2>5. PICK over \in Lookup : over.at = "over" /\ (FromTable(l, state) => Moves(l, over))
    BY <1>3, <2>1
  <2>6. \/ /\ points' = [points EXCEPT ![state.text] = "interest"] /\ Moves(l, found)
           /\ UNCHANGED inLine
        \/ FromTable(l, state) /\ UNCHANGED <<points, inLine>>
        \/ Moves(l, joined) /\ inLine' = Append(inLine, l) /\ UNCHANGED points
    <3>1. CASE interests[state.text] = "found"
      BY <1>6, <3>1 DEF Interest, IsInterest, Found
    <3>2. CASE interests[state.text] = "nothing"
      BY <1>6, <3>2 DEF Interest
    <3>3. CASE interests[state.text] \notin {"found", "nothing"}
      BY <1>6, <3>3 DEF Interest
    <3> QED BY <3>1, <3>2, <3>3
  <2>7. points' \in [Texts -> Sources]
    BY <1>1, <2>1, <2>6
  <2> HIDE DEF found, joined
  <2> QED BY <2>2, <2>3, <2>4, <2>5, <2>6, <2>7, MovesKeepGeocoder
<1>7. ASSUME NEW l \in Lookups, InterestAnswered(l) PROVE GeoInv'
  <2> DEFINE state == lookup[l]
             found == [state EXCEPT !.at = "over", !.result = "interest"]
  <2>1. state \in Lookup /\ "interest" \in Sources
    BY <1>1 DEF Sources
  <2>2. found \in Lookup /\ found.at = "over"
    BY <1>2, <2>1
  <2>3. /\ state.at = "asking" /\ inLine' = Tail(inLine)
        /\ UNCHANGED <<moment, lastAsked, keystroke, asked>>
    BY <1>7 DEF InterestAnswered
  <2>4. PICK over \in Lookup : over.at = "over" /\ (FromTable(l, state) => Moves(l, over))
    BY <1>3, <2>1
  <2>5. \/ /\ interests' = [interests EXCEPT ![state.text] = "found"]
           /\ points' = [points EXCEPT ![state.text] = "interest"] /\ Moves(l, found)
        \/ /\ interests' = [interests EXCEPT ![state.text] = "nothing"]
           /\ FromTable(l, state) /\ UNCHANGED points
        \/ FromTable(l, state) /\ UNCHANGED <<points, interests>>
    BY <1>7 DEF InterestAnswered, IsInterest, Found
  <2>6. /\ points' \in [Texts -> Sources]
        /\ interests' \in [Texts -> {"none", "found", "nothing"}]
    BY <1>1, <2>1, <2>5
  <2> HIDE DEF found
  <2> QED BY <2>2, <2>3, <2>4, <2>5, <2>6, AnswerKeepsGeocoder
<1>8. CASE MomentPasses
  <2>1. /\ moment' = moment + 1
        /\ UNCHANGED <<points, interests, lastAsked, inLine, lookup, keystroke, asked>>
    BY <1>8 DEF MomentPasses
  <2>2. AskedInOrder'
    <3>1. /\ moment \in Nat /\ lastAsked \in Int
          /\ \A i \in DOMAIN asked : asked[i].at \in Nat
      BY AskedFacts
    <3>2. /\ \A i \in DOMAIN asked : asked[i].at <= moment
          /\ asked # <<>> => lastAsked <= moment
      BY DEF GeoInv, AskedInOrder
    <3>3. /\ \A i \in DOMAIN asked : asked[i].at <= moment'
          /\ asked # <<>> => lastAsked <= moment'
      BY <2>1, <3>1, <3>2
    <3> QED BY <2>1, <3>3 DEF GeoInv, AskedInOrder
  <2>3. GeoTypeOK' /\ OneInFront' /\ SleeperIsOvertakenBySuggestions' /\ InterestsAreSpared'
    BY <2>1 DEF GeoInv, GeoTypeOK, OneInFront, SleeperIsOvertakenBySuggestions,
                InterestsAreSpared
  <2> QED BY <2>2, <2>3 DEF GeoInv
<1>9. CASE UNCHANGED geoVars
  BY <1>9 DEF geoVars, GeoInv, GeoTypeOK, AskedInOrder, OneInFront,
              SleeperIsOvertakenBySuggestions, InterestsAreSpared
<1> QED BY <1>4, <1>5, <1>6, <1>7, <1>8, <1>9, TurnKeepsGeocoder, WokenKeepsGeocoder,
           SuggestKeepsGeocoder DEF GeocoderNext

-----------------------------------------------------------------------------
(* The browser of a vendor                                                 *)

\* Who is on a page has one.
Caller ==
  {x \in [at : {"outside", "waiting", "starting", "on page", "loading", "looking",
                "answered", "refused"},
          start : Nat, page : Starts \cup {0}, got : Callers \cup {None}] :
     x.at \in {"on page", "loading", "looking"} => x.page \in Starts}

Working == {"launching", "opening context", "opening page", "going", "done"}

\* Before anything goes wrong there is at most one start, the one everybody
\* waits for, and all there is of a browser is of its making: its process from
\* the launch on, its page from the time it is opened.  In between no page can
\* be found closed, so nobody has a reason to start another.
OneStart ==
  mishaps = 0 =>
    /\ shut = {}
    /\ promise \in Starts \cup {0}
    /\ {browser, context, page} \subseteq {0, promise}
    /\ \A s \in Starts : s # promise => start[s] = "none"
    /\ promise = 0 => running = {}
    /\ promise # 0 =>
         /\ start[promise] \in Working
         /\ start[promise] = "launching" => running = {}
         /\ start[promise] # "launching" => running = {promise}
         /\ start[promise] \in {"launching", "opening context", "opening page"}
              \/ page = promise
    /\ \A c \in Callers : caller[c].at = "waiting" => promise # 0 /\ caller[c].start = promise

BrowserInv ==
  /\ mishaps \in Nat
  /\ caller \in [Callers -> Caller]
  /\ shown \in [Starts -> Callers \cup {None}]
  /\ start \in [Starts -> {"none", "failed", "done"} \cup Steps]
  /\ running \in SUBSET Starts
  /\ {browser, context, page, promise} \subseteq Starts \cup {0}
  /\ OneStart

LEMMA StartsArePositive == Starts \subseteq Nat /\ 0 \notin Starts
BY BrowserAssumption DEF Starts

LEMMA InitBrowser == BrowserInit => BrowserInv
<1> SUFFICES ASSUME BrowserInit PROVE BrowserInv
  OBVIOUS
<1>1. caller \in [Callers -> Caller] /\ \A c \in Callers : caller[c].at = "outside"
  BY DEF BrowserInit, Outside, Caller
<1>2. \A s \in Starts : start[s] = "none"
  BY DEF BrowserInit
<1>3. OneStart
  BY <1>1, <1>2 DEF BrowserInit, OneStart
<1> QED BY <1>1, <1>3 DEF BrowserInit, BrowserInv


\* What a caller comes to is recorded of it alone.
LEMMA CallerBecomes ==
  ASSUME BrowserInv, NEW c, NEW x \in Caller, caller' = [caller EXCEPT ![c] = x]
  PROVE  /\ caller' \in [Callers -> Caller]
         /\ \A d \in Callers : caller'[d] = IF d = c THEN x ELSE caller[d]
BY DEF BrowserInv

LEMMA EndedIsCaller ==
  ASSUME NEW how \in {"answered", "refused"}, NEW got \in Callers \cup {None}
  PROVE  Ended(how, got) \in Caller /\ Ended(how, got).at = how
<1>1. Outside \in Caller
  BY DEF Outside, Caller
<1>2. \A x \in Caller : LET over == [x EXCEPT !.at = how, !.got = got]
                        IN  over \in Caller /\ over.at = how
  BY DEF Caller
<1> QED BY <1>1, <1>2 DEF Ended

\* A caller that is refused or gets a page waits no longer.
LEMMA GetsMovesOne ==
  ASSUME BrowserInv, NEW c, Gets(c, page) \/ Refused(c)
  PROVE  /\ caller' \in [Callers -> Caller]
         /\ \A d \in Callers : caller'[d].at = "waiting" => caller'[d] = caller[d]
<1> DEFINE refused == Ended("refused", None)
           onPage == [Outside EXCEPT !.at = "on page", !.page = page]
<1>1. refused \in Caller /\ refused.at = "refused"
  BY EndedIsCaller
<1>2. page # 0 => onPage \in Caller /\ onPage.at = "on page"
  <2>1. Outside \in Caller
    BY DEF Outside, Caller
  <2>2. \A x \in Caller, p \in Starts : LET on == [x EXCEPT !.at = "on page", !.page = p]
                                        IN  on \in Caller /\ on.at = "on page"
    BY DEF Caller
  <2>3. page # 0 => page \in Starts
    BY DEF BrowserInv
  <2> QED BY <2>1, <2>2, <2>3
<1>3. \/ caller' = [caller EXCEPT ![c] = refused]
      \/ page # 0 /\ caller' = [caller EXCEPT ![c] = onPage]
  BY DEF Gets, Refused
<1> HIDE DEF refused, onPage
<1> QED BY <1>1, <1>2, <1>3, CallerBecomes

LEMMA TurnsMovesOne ==
  ASSUME BrowserInv, NEW c, NEW at \in {"waiting", "starting"}, NEW s \in Nat, Turns(c, at, s)
  PROVE  /\ caller' \in [Callers -> Caller]
         /\ \A d \in Callers : d # c => caller'[d] = caller[d]
         /\ c \in Callers => caller'[c].at = at /\ caller'[c].start = s
<1>1. caller \in [Callers -> Caller]
  BY DEF BrowserInv
<1>2. CASE c \in Callers
  <2> DEFINE turned == [caller[c] EXCEPT !.at = at, !.start = s]
  <2>1. turned \in Caller /\ turned.at = at /\ turned.start = s
    <3>1. \A x \in Caller : LET y == [x EXCEPT !.at = at, !.start = s]
                            IN  y \in Caller /\ y.at = at /\ y.start = s
      BY DEF Caller
    <3> QED BY <1>1, <1>2, <3>1
  <2>2. caller' = [caller EXCEPT ![c] = turned]
    BY <1>1, <1>2 DEF Turns
  <2> HIDE DEF turned
  <2> QED BY <1>2, <2>1, <2>2, CallerBecomes
<1>3. CASE c \notin Callers
  <2>1. caller' = caller
    BY <1>1, <1>3 DEF Turns
  <2> QED BY <1>1, <1>3, <2>1
<1> QED BY <1>2, <1>3

\* Steps of callers that begin to wait for nothing and leave the browser alone.
LEMMA CallersKeepBrowser ==
  ASSUME BrowserInv, caller' \in [Callers -> Caller],
         \A d \in Callers : caller'[d].at = "waiting" =>
           \/ caller[d].at = "waiting" /\ caller'[d].start = caller[d].start
           \/ promise # 0 /\ caller'[d].start = promise,
         shown' \in [Starts -> Callers \cup {None}],
         UNCHANGED <<browser, context, page, promise, start, running, shut, mishaps>>
  PROVE  BrowserInv'
<1>1. OneStart'
  BY DEF BrowserInv, OneStart
<1> QED BY <1>1 DEF BrowserInv

\* A start is begun when there is none, or when something has gone wrong.
LEMMA BeginsKeepsBrowser ==
  ASSUME BrowserInv, NEW c \in Callers, Begins(c), mishaps = 0 => promise = 0,
         UNCHANGED <<browser, context, page, shown, mishaps>>
  PROVE  BrowserInv'
<1>1. PICK s \in Starts :
        /\ start[s] = "none" /\ promise' = s /\ Turns(c, "starting", s)
        /\ \/ /\ vendor = "migros" /\ context # 0
              /\ start' = [start EXCEPT ![s] = "closing context"]
              /\ shut' = shut \cup {context}
              /\ UNCHANGED running
           \/ /\ vendor = "migros" => context = 0
              /\ Relaunches(s)
  BY DEF Begins
<1>2. /\ start \in [Starts -> {"none", "failed", "done"} \cup Steps]
      /\ running \in SUBSET Starts /\ mishaps \in Nat
  BY DEF BrowserInv
<1>3. s \in Nat /\ s # 0
  BY StartsArePositive
<1>4. /\ caller' \in [Callers -> Caller]
      /\ \A d \in Callers : d # c => caller'[d] = caller[d]
      /\ caller'[c].at = "starting"
  BY <1>1, <1>3, TurnsMovesOne
<1>5. /\ start' \in [Starts -> {"none", "failed", "done"} \cup Steps]
      /\ running' \in SUBSET Starts
  BY <1>1, <1>2 DEF Relaunches, Steps
<1>6. ASSUME mishaps = 0 PROVE OneStart'
  <2>1. /\ promise = 0 /\ shut = {} /\ running = {} /\ browser = 0 /\ context = 0 /\ page = 0
        /\ \A t \in Starts : t # promise => start[t] = "none"
        /\ \A d \in Callers : caller[d].at # "waiting"
    BY <1>6 DEF BrowserInv, OneStart
  <2>2. start' = [start EXCEPT ![s] = "launching"] /\ UNCHANGED <<running, shut>>
    BY <1>1, <2>1 DEF Relaunches
  <2>3. \A t \in Starts : start'[t] = IF t = s THEN "launching" ELSE "none"
    BY <1>2, <1>3, <2>1, <2>2, StartsArePositive
  <2>4. \A d \in Callers : caller'[d].at # "waiting"
    BY <1>4, <2>1
  <2> QED BY <1>1, <1>3, <2>1, <2>2, <2>3, <2>4 DEF OneStart, Working
<1>7. OneStart'
  BY <1>6 DEF OneStart
<1> QED BY <1>1, <1>2, <1>4, <1>5, <1>7 DEF BrowserInv

\* When something has gone wrong, the types are all that is left to keep.
LEMMA AfterMishaps ==
  ASSUME mishaps' \in Nat, mishaps' # 0, caller' \in [Callers -> Caller],
         shown' \in [Starts -> Callers \cup {None}],
         start' \in [Starts -> {"none", "failed", "done"} \cup Steps],
         running' \in SUBSET Starts,
         {browser', context', page', promise'} \subseteq Starts \cup {0}
  PROVE  BrowserInv'
BY DEF BrowserInv, OneStart

\* The one start, as it goes from step to step.
LEMMA StartGoesOn ==
  ASSUME BrowserInv, NEW s \in Starts,
         NEW to \in {"opening context", "opening page", "going", "done"},
         start[s] \in Working, start' = [start EXCEPT ![s] = to],
         caller' \in [Callers -> Caller],
         \A d \in Callers : caller'[d].at = "waiting" => caller'[d] = caller[d],
         running' = running \/ running' = running \cup {s},
         {browser', context', page'} \subseteq Starts \cup {0},
         {browser', context', page'} \subseteq {browser, context, page, s},
         mishaps = 0 /\ promise = s =>
           /\ running' = {s}
           /\ to \in {"opening context", "opening page"} \/ page' = s,
         UNCHANGED <<promise, shut, shown, mishaps>>
  PROVE  BrowserInv'
<1>1. /\ start \in [Starts -> {"none", "failed", "done"} \cup Steps]
      /\ running' \in SUBSET Starts /\ mishaps \in Nat /\ promise \in Starts \cup {0}
  BY DEF BrowserInv
<1>2. /\ start' \in [Starts -> {"none", "failed", "done"} \cup Steps]
      /\ \A t \in Starts : start'[t] = IF t = s THEN to ELSE start[t]
  BY <1>1 DEF Steps
<1>3. ASSUME mishaps = 0 PROVE OneStart'
  <2>1. promise = s
    <3>1. \A t \in Starts : t # promise => start[t] = "none"
      BY <1>3 DEF BrowserInv, OneStart
    <3> QED BY <3>1 DEF Working
  <2>2. /\ shut = {} /\ {browser, context, page} \subseteq {0, promise}
        /\ \A t \in Starts : t # promise => start[t] = "none"
        /\ \A d \in Callers : caller[d].at = "waiting" => promise # 0 /\ caller[d].start = promise
    BY <1>3 DEF BrowserInv, OneStart
  <2>3. {browser', context', page'} \subseteq {0, promise'}
    BY <2>1, <2>2
  <2>4. \A t \in Starts : t # promise' => start'[t] = "none"
    BY <1>2, <2>1, <2>2
  <2>5. promise' = s /\ s # 0 /\ start'[s] = to
    BY <1>2, <2>1, StartsArePositive
  <2>6. \A d \in Callers : caller'[d].at = "waiting" => promise' # 0 /\ caller'[d].start = promise'
    BY <2>1, <2>2, <2>5
  <2>7. /\ start'[promise'] \in Working /\ start'[promise'] # "launching"
        /\ running' = {promise'}
        /\ start'[promise'] \in {"launching", "opening context", "opening page"} \/ page' = promise'
    BY <1>3, <2>1, <2>5 DEF Working
  <2>8. shut' = {} /\ promise' \in Starts \cup {0} /\ promise' # 0
    BY <1>1, <2>2, <2>5
  <2> QED BY <2>3, <2>4, <2>6, <2>7, <2>8 DEF OneStart
<1>4. OneStart'
  BY <1>3 DEF OneStart
<1>5. {browser', context', page', promise'} \subseteq Starts \cup {0}
  BY <1>1
<1> QED BY <1>1, <1>2, <1>4, <1>5 DEF BrowserInv

\* Before anything goes wrong a start under way is the one everybody waits for.
LEMMA TheOneStart ==
  ASSUME BrowserInv, mishaps = 0, NEW s \in Starts, start[s] # "none"
  PROVE  /\ s = promise /\ s # 0 /\ shut = {}
         /\ start[s] \in Working
         /\ start[s] = "launching" => running = {}
         /\ start[s] # "launching" => running = {s}
         /\ start[s] \in {"going", "done"} => page = s
<1>1. s = promise /\ s # 0 /\ shut = {}
  BY StartsArePositive DEF BrowserInv, OneStart
<1> QED BY <1>1 DEF BrowserInv, OneStart

LEMMA EnsureKeepsBrowser ==
  ASSUME BrowserInv, NEW c \in Callers, Ensure(c)
  PROVE  BrowserInv'
<1>1. UNCHANGED <<browser, context, page, shown, mishaps>> /\ shown' \in [Starts -> Callers \cup {None}]
  BY DEF Ensure, instances, BrowserInv
<1>2. CASE Gets(c, page) /\ UNCHANGED processes
  <2>1. /\ caller' \in [Callers -> Caller]
        /\ \A d \in Callers : caller'[d].at = "waiting" => caller'[d] = caller[d]
    BY <1>2, GetsMovesOne
  <2>2. \A d \in Callers : caller'[d].at = "waiting" =>
           caller[d].at = "waiting" /\ caller'[d].start = caller[d].start
    BY <2>1
  <2> QED BY <1>1, <1>2, <2>1, <2>2, CallersKeepBrowser DEF processes
<1>3. CASE WaitsForStart /\ Turns(c, "waiting", promise) /\ UNCHANGED processes
  <2>1. promise # 0 /\ promise \in Nat
    BY <1>3, StartsArePositive DEF WaitsForStart, BrowserInv
  <2>2. /\ caller' \in [Callers -> Caller]
        /\ \A d \in Callers : d # c => caller'[d] = caller[d]
        /\ caller'[c].at = "waiting" /\ caller'[c].start = promise
    BY <1>3, <2>1, TurnsMovesOne
  <2>3. \A d \in Callers : caller'[d].at = "waiting" =>
           \/ caller[d].at = "waiting" /\ caller'[d].start = caller[d].start
           \/ promise # 0 /\ caller'[d].start = promise
    BY <2>1, <2>2
  <2> QED BY <1>1, <1>3, <2>2, <2>3, CallersKeepBrowser DEF processes
<1>4. CASE ~ WaitsForStart /\ Begins(c)
  <2>1. promise = 0
    BY <1>4 DEF WaitsForStart
  <2> QED BY <1>1, <1>4, <2>1, BeginsKeepsBrowser
<1> QED BY <1>2, <1>3, <1>4 DEF Ensure

\* A second start of one caller after another's has ended needs a page that was
\* lost in between.
LEMMA ResumeKeepsBrowser ==
  ASSUME BrowserInv, NEW c \in Callers, Resume(c)
  PROVE  BrowserInv'
<1>1. UNCHANGED <<browser, context, page, shown, mishaps>> /\ shown' \in [Starts -> Callers \cup {None}]
  BY DEF Resume, instances, BrowserInv
<1>2. CASE (Refused(c) \/ Gets(c, page)) /\ UNCHANGED processes
  <2>1. /\ caller' \in [Callers -> Caller]
        /\ \A d \in Callers : caller'[d].at = "waiting" => caller'[d] = caller[d]
    BY <1>2, GetsMovesOne
  <2>2. \A d \in Callers : caller'[d].at = "waiting" =>
           caller[d].at = "waiting" /\ caller'[d].start = caller[d].start
    BY <2>1
  <2> QED BY <1>1, <1>2, <2>1, <2>2, CallersKeepBrowser DEF processes
<1>3. CASE /\ caller[c].at = "waiting" /\ start[caller[c].start] = "done"
           /\ ~ IsOpen(page) /\ StartsAnother(c)
  <2>1. mishaps # 0
    <3>1. SUFFICES ASSUME mishaps = 0 PROVE FALSE
      OBVIOUS
    <3>2. promise # 0 /\ caller[c].start = promise /\ shut = {}
      BY <1>3, <3>1 DEF BrowserInv, OneStart
    <3>3. page = promise
      BY <1>3, <3>1, <3>2 DEF BrowserInv, OneStart
    <3> QED BY <1>3, <3>2, <3>3 DEF IsOpen
  <2> QED BY <1>1, <1>3, <2>1, BeginsKeepsBrowser DEF StartsAnother
<1> QED BY <1>2, <1>3 DEF Resume

LEMMA StartStepKeepsBrowser ==
  ASSUME BrowserInv, NEW s \in Starts, StepOf(s)
  PROVE  BrowserInv'
<1>1. /\ start \in [Starts -> {"none", "failed", "done"} \cup Steps]
      /\ running \in SUBSET Starts /\ mishaps \in Nat
      /\ {browser, context, page, promise} \subseteq Starts \cup {0}
      /\ caller \in [Callers -> Caller] /\ shown \in [Starts -> Callers \cup {None}]
  BY DEF BrowserInv
<1>2. CASE ContextClosed(s) \/ BrowserClosed(s)
  <2>1. start[s] \in {"closing context", "closing browser"}
    BY <1>2 DEF ContextClosed, BrowserClosed, Step
  <2>2. mishaps # 0
    BY <2>1, TheOneStart DEF Working
  <2>3. /\ start' \in [Starts -> {"none", "failed", "done"} \cup Steps]
        /\ running' \in SUBSET Starts
    BY <1>1, <1>2 DEF ContextClosed, BrowserClosed, Relaunches, Step, Steps
  <2>4. UNCHANGED <<browser, context, page, promise, caller, shown, mishaps>>
    BY <1>2 DEF ContextClosed, BrowserClosed, instances
  <2> QED BY <1>1, <2>2, <2>3, <2>4, AfterMishaps
<1>3. CASE Launch(s)
  <2>1. /\ start[s] = "launching" /\ start' = [start EXCEPT ![s] = "opening context"]
        /\ browser' = s /\ running' = running \cup {s}
        /\ UNCHANGED <<context, page, promise, shut, caller, shown, mishaps>>
    BY <1>3 DEF Launch, Step
  <2>2. mishaps = 0 => running' = {s}
    BY <2>1, TheOneStart
  <2> QED BY <1>1, <2>1, <2>2, StartGoesOn DEF Working
<1>4. CASE OpenContext(s)
  <2>1. /\ start[s] = "opening context" /\ start' = [start EXCEPT ![s] = "opening page"]
        /\ context' = s
        /\ UNCHANGED <<browser, page, promise, running, shut, caller, shown, mishaps>>
    BY <1>4 DEF OpenContext, Step
  <2>2. mishaps = 0 => running' = {s}
    BY <2>1, TheOneStart
  <2> QED BY <1>1, <2>1, <2>2, StartGoesOn DEF Working
<1>5. CASE OpenPage(s)
  <2>1. /\ start[s] = "opening page" /\ start' = [start EXCEPT ![s] = "going"]
        /\ page' = s
        /\ UNCHANGED <<browser, context, promise, running, shut, caller, shown, mishaps>>
    BY <1>5 DEF OpenPage, Step
  <2>2. mishaps = 0 => running' = {s}
    BY <2>1, TheOneStart
  <2> QED BY <1>1, <2>1, <2>2, StartGoesOn DEF Working
<1>6. CASE Arrive(s)
  <2>1. /\ start[s] = "going" /\ start' = [start EXCEPT ![s] = "done"]
        /\ Gets(Creator(s), page)
        /\ UNCHANGED <<browser, context, page, promise, running, shut, shown, mishaps>>
    BY <1>6 DEF Arrive, Step, instances
  <2>2. mishaps = 0 => running' = {s} /\ page' = s
    BY <2>1, TheOneStart
  <2>3. /\ caller' \in [Callers -> Caller]
        /\ \A d \in Callers : caller'[d].at = "waiting" => caller'[d] = caller[d]
    BY <2>1, GetsMovesOne
  <2> QED BY <1>1, <2>1, <2>2, <2>3, StartGoesOn DEF Working
<1>7. CASE FailStart(s)
  <2>1. /\ start[s] \in {"launching", "opening context", "opening page", "going"}
        /\ start' = [start EXCEPT ![s] = "failed"]
        /\ Refused(Creator(s))
        /\ UNCHANGED <<running, shut, shown>>
    BY <1>7 DEF FailStart
  <2>2. {browser', context', page', promise'} \subseteq Starts \cup {0}
    BY <1>1, <1>7 DEF FailStart, instances
  <2>3. mishaps = 0 => ~ Doomed(s)
    <3>1. ASSUME mishaps = 0 PROVE ~ Doomed(s)
      <4>1. /\ s # 0 /\ shut = {}
            /\ start[s] # "launching" => running = {s}
            /\ start[s] = "going" => page = s
        BY <2>1, <3>1, TheOneStart
      <4> QED BY <4>1 DEF Doomed
    <3> QED BY <3>1
  <2>4. mishaps' \in Nat /\ mishaps' # 0
    <3>1. \/ Doomed(s) /\ mishaps' = mishaps
          \/ mishaps' = mishaps + 1
      BY <1>7 DEF FailStart, Mishap
    <3>2. mishaps \in Nat /\ (Doomed(s) => mishaps # 0)
      BY <1>1, <2>3
    <3>3. CASE Doomed(s) /\ mishaps' = mishaps
      BY <3>2, <3>3
    <3>4. CASE mishaps' = mishaps + 1
      BY <3>2, <3>4
    <3> QED BY <3>1, <3>3, <3>4
  <2>5. start' \in [Starts -> {"none", "failed", "done"} \cup Steps]
    BY <1>1, <2>1
  <2>6. caller' \in [Callers -> Caller]
    BY <2>1, GetsMovesOne
  <2> QED BY <1>1, <2>1, <2>2, <2>4, <2>5, <2>6, AfterMishaps
<1> QED BY <1>2, <1>3, <1>4, <1>5, <1>6, <1>7 DEF StepOf

LEMMA LoseKeepsBrowser ==
  ASSUME BrowserInv, NEW b \in Starts, Lose(b)
  PROVE  BrowserInv'
<1>1. mishaps \in Nat /\ mishaps' = mishaps + 1
  BY DEF BrowserInv, Lose, Mishap
<1>2. mishaps' \in Nat /\ mishaps' # 0
  BY <1>1
<1>3. /\ running \in SUBSET Starts /\ running' \in {running, running \ {b}}
      /\ UNCHANGED <<browser, context, page, promise, start, caller, shown>>
  BY DEF BrowserInv, Lose, instances
<1> QED BY <1>2, <1>3, AfterMishaps DEF BrowserInv

\* Callers of which none begins to wait.
LEMMA NobodyWaits ==
  ASSUME BrowserInv, caller' \in [Callers -> Caller],
         \A d \in Callers : caller'[d].at = "waiting" => caller'[d] = caller[d],
         shown' \in [Starts -> Callers \cup {None}],
         UNCHANGED <<instances, processes, mishaps>>
  PROVE  BrowserInv'
<1>1. \A d \in Callers : caller'[d].at = "waiting" =>
           caller[d].at = "waiting" /\ caller'[d].start = caller[d].start
  OBVIOUS
<1> QED BY <1>1, CallersKeepBrowser DEF instances, processes

LEMMA UseKeepsBrowser ==
  ASSUME BrowserInv, NEW c \in Callers, Use(c)
  PROVE  BrowserInv'
<1>1. caller \in [Callers -> Caller] /\ shown \in [Starts -> Callers \cup {None}]
  BY DEF BrowserInv
<1>2. UNCHANGED <<instances, processes, mishaps>> /\ (~ Navigate(c) => UNCHANGED shown)
  BY DEF Use, Evaluate, EvaluateFails, Navigate, Loaded, ReadOff, Thrown
<1>3. caller[c].at \in {"on page", "loading", "looking"} => caller[c].page \in Starts
  BY <1>1 DEF Caller
<1>4. CASE EvaluateFails(c) \/ Thrown(c)
  <2>1. Refused(c)
    BY <1>4 DEF EvaluateFails, Thrown
  <2>2. shown' \in [Starts -> Callers \cup {None}]
    BY <1>1, <1>4 DEF EvaluateFails, Thrown
  <2> QED BY <1>2, <2>1, <2>2, GetsMovesOne, NobodyWaits
<1>5. CASE Evaluate(c) \/ ReadOff(c)
  <2>1. PICK got \in Callers \cup {None} : caller' = [caller EXCEPT ![c] = Ended("answered", got)]
    <3>1. CASE Evaluate(c)
      BY <3>1 DEF Evaluate
    <3>2. CASE ReadOff(c)
      <4>1. PICK got \in {shown[caller[c].page], None} :
              caller' = [caller EXCEPT ![c] = Ended("answered", got)]
        BY <3>2 DEF ReadOff
      <4>2. caller[c].page \in Starts
        BY <1>3, <3>2 DEF ReadOff
      <4>3. got \in Callers \cup {None}
        BY <1>1, <4>1, <4>2
      <4> QED BY <4>1, <4>3
    <3> QED BY <1>5, <3>1, <3>2
  <2> DEFINE answered == Ended("answered", got)
  <2>2. answered \in Caller /\ answered.at = "answered"
    BY <2>1, EndedIsCaller
  <2>3. caller' = [caller EXCEPT ![c] = answered]
    BY <2>1
  <2> HIDE DEF answered
  <2>4. /\ caller' \in [Callers -> Caller]
        /\ \A d \in Callers : caller'[d].at = "waiting" => caller'[d] = caller[d]
    BY <2>2, <2>3, CallerBecomes
  <2>5. shown' \in [Starts -> Callers \cup {None}]
    BY <1>1, <1>5 DEF Evaluate, ReadOff
  <2> QED BY <1>2, <2>4, <2>5, NobodyWaits
<1>6. CASE Loaded(c)
  <2> DEFINE looking == [caller[c] EXCEPT !.at = "looking"]
  <2>1. looking \in Caller /\ looking.at = "looking"
    <3>1. \A x \in Caller : LET y == [x EXCEPT !.at = "looking"]
                            IN  x.page \in Starts => y \in Caller /\ y.at = "looking"
      BY DEF Caller
    <3> QED BY <1>1, <1>3, <1>6, <3>1 DEF Loaded
  <2>2. caller' = [caller EXCEPT ![c] = looking]
    BY <1>1, <1>6 DEF Loaded
  <2> HIDE DEF looking
  <2>3. /\ caller' \in [Callers -> Caller]
        /\ \A d \in Callers : caller'[d].at = "waiting" => caller'[d] = caller[d]
    BY <2>1, <2>2, CallerBecomes
  <2>4. shown' \in [Starts -> Callers \cup {None}]
    BY <1>1, <1>6 DEF Loaded
  <2> QED BY <1>2, <2>3, <2>4, NobodyWaits
<1>7. CASE Navigate(c)
  <2> DEFINE p == caller[c].page
             loading(d) == [caller[d] EXCEPT !.at = "loading"]
             refused == Ended("refused", None)
  <2>1. refused \in Caller /\ refused.at = "refused"
    BY EndedIsCaller
  <2>2. p \in Starts /\ loading(c) \in Caller /\ loading(c).at = "loading"
    <3>1. \A x \in Caller : LET y == [x EXCEPT !.at = "loading"]
                            IN  x.page \in Starts => y \in Caller /\ y.at = "loading"
      BY DEF Caller
    <3> QED BY <1>1, <1>3, <1>7, <3>1 DEF Navigate
  <2>3. caller' = [d \in Callers |->
           CASE d = c -> loading(d)
             [] caller[d].at = "loading" /\ caller[d].page = p -> refused
             [] OTHER -> caller[d]]
    BY <1>7 DEF Navigate
  <2>4. shown' = [shown EXCEPT ![p] = c]
    BY <1>7 DEF Navigate
  <2> HIDE DEF refused, loading
  <2>5. \A d \in Callers : \/ d = c /\ caller'[d] = loading(c)
                           \/ caller'[d] \in {refused, caller[d]}
    BY <2>3
  <2>6. /\ caller' \in [Callers -> Caller]
        /\ \A d \in Callers : caller'[d].at = "waiting" => caller'[d] = caller[d]
    BY <1>1, <2>1, <2>2, <2>3, <2>5
  <2>7. shown' \in [Starts -> Callers \cup {None}]
    BY <1>1, <2>2, <2>4
  <2> QED BY <1>2, <2>6, <2>7, NobodyWaits
<1> QED BY <1>4, <1>5, <1>6, <1>7 DEF Use

LEMMA BrowserStep == BrowserInv /\ [BrowserNext]_browserVars => BrowserInv'
<1>1. ASSUME BrowserInv, UNCHANGED browserVars PROVE BrowserInv'
  <2>1. UNCHANGED <<browser, context, page, promise, start, running, shut, caller, shown, mishaps>>
    BY <1>1 DEF browserVars
  <2>2. \A d \in Callers : caller'[d].at = "waiting" => caller'[d] = caller[d]
    BY <2>1
  <2> QED BY <1>1, <2>1, <2>2, NobodyWaits DEF instances, processes, BrowserInv
<1> QED BY <1>1, EnsureKeepsBrowser, ResumeKeepsBrowser, UseKeepsBrowser,
           StartStepKeepsBrowser, LoseKeepsBrowser DEF BrowserNext

-----------------------------------------------------------------------------
(* The three together                                                      *)

SessionsInv == HttpInv /\ GeoInv /\ BrowserInv

\* The parts that a behaviour does not follow stand still.
LEMMA SessionsKeep == Spec => []SessionsInv
<1>1. Init => SessionsInv
  BY InitHttp, InitGeocoder, InitBrowser DEF Init, SessionsInv
<1>2. SessionsInv /\ [Next]_vars => SessionsInv'
  <2> SUFFICES ASSUME SessionsInv, [Next]_vars PROVE SessionsInv'
    OBVIOUS
  <2>1. [HttpNext]_httpVars /\ [GeocoderNext]_geoVars /\ [BrowserNext]_browserVars
    BY DEF Next, vars
  <2> QED BY <2>1, HttpStep, GeocoderStep, BrowserStep DEF SessionsInv
<1> QED BY <1>1, <1>2, PTL DEF Spec

\* However many requests to a host sleep, retry or leave, one that goes out has
\* its distance to all that had gone when it looked (sourceClient.ts).
THEOREM HostsKeepSpared == Spec => []HostsAreSpared
<1>1. SessionsInv => HostsAreSpared
  BY DEF SessionsInv, HttpInv
<1> QED BY <1>1, SessionsKeep, PTL

\* Between two look-ups in OpenStreetMap, and two suggestions, there is the
\* interval, and between a look-up and a suggestion unless the look-up slept
\* when the suggestion went (geo.ts).
THEOREM InterestsKeepSpared == Spec => []InterestsAreSpared
<1>1. SessionsInv => InterestsAreSpared
  BY DEF SessionsInv, GeoInv
<1> QED BY <1>1, SessionsKeep, PTL

\* ensureBrowser starts one browser for all of a vendor's callers as long as
\* Playwright fails at nothing: nobody finds a closed page to replace, since
\* the page of the one start there is stays open.
THEOREM CallersShareABrowser == Spec => []OneBrowser
<1>1. BrowserInv => OneBrowser
  <2> SUFFICES ASSUME BrowserInv, mishaps = 0
               PROVE  Cardinality(running) <= 1 /\ Cardinality(Pending) <= 1
    BY DEF OneBrowser
  <2>1. running \subseteq {promise}
    BY DEF BrowserInv, OneStart
  <2>2. Pending \subseteq {promise}
    BY DEF BrowserInv, OneStart, Pending, Steps
  <2>3. ASSUME NEW S, S \subseteq {promise} PROVE Cardinality(S) <= 1
    <3>1. IsFiniteSet({promise}) /\ Cardinality({promise}) = 1
      BY FS_Singleton
    <3>2. Cardinality(S) <= Cardinality({promise})
      BY <2>3, <3>1, FS_Subset
    <3> QED BY <3>1, <3>2
  <2> QED BY <2>1, <2>2, <2>3
<1>2. SessionsInv => OneBrowser
  BY <1>1 DEF SessionsInv
<1> QED BY <1>2, SessionsKeep, PTL

=============================================================================
