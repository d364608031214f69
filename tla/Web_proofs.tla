------------------------------ MODULE Web_proofs ----------------------------
(***************************************************************************)
(* The web search and the web discovery, for any providers, products,      *)
(* chains, callers and bounds.                                             *)
(*                                                                         *)
(* First WebSearch: the circuits by themselves, whoever reports to them;   *)
(* then what the searches do to circuits and daily budgets and what they   *)
(* return.  After it WebDiscovery: what the catalogue keeps by itself, and *)
(* what the discoveries of several callers do to it and to one another.    *)
(***************************************************************************)
EXTENDS WebSearch, WebDiscovery, SequenceTheorems, FiniteSetTheorems, TLAPS

-----------------------------------------------------------------------------
(* The circuits by themselves, for any sources, threshold and pause        *)

CircuitVars == <<now, circuitVars>>

(* What a circuit remembers never exceeds what was refused in a row: the    *)
(* strengthening that makes OpenMeansRefused inductive.                     *)
CircuitInv ==
  /\ CircuitTypeOK
  /\ OpenMeansRefused
  /\ \A s \in Sources : circuit[s].failures <= refusals[s]

(* A fresh breaker is all closed, and nothing was refused yet.              *)
LEMMA InitCircuitInv == now = 0 /\ CircuitInit => CircuitInv
  BY CircuitAssumption
     DEF CircuitInit, CircuitInv, CircuitTypeOK, OpenMeansRefused, Closed, Shut

(* One entry is well-formed, and stays so when it is asked.                 *)
LEMMA AskedEntry ==
  ASSUME CircuitInv, NEW s \in Sources
  PROVE  /\ AfterAsking(circuit[s]) \in [failures : Nat, openedAt : Nat \cup {Shut}]
         /\ AfterAsking(circuit[s]).failures <= refusals[s]
         /\ AfterAsking(circuit[s]).openedAt # Shut => refusals[s] >= Threshold
         /\ AfterAsking(circuit[s]).openedAt = Shut
              => AfterAsking(circuit[s]).failures < Threshold
  <1>1. CASE AfterAsking(circuit[s]) = circuit[s]
    BY <1>1 DEF CircuitInv, CircuitTypeOK, OpenMeansRefused
  <1>2. CASE AfterAsking(circuit[s]) = Closed
    BY <1>2, CircuitAssumption DEF CircuitInv, CircuitTypeOK, Closed, Shut
  <1> QED BY <1>1, <1>2 DEF AfterAsking

(* Every step of the breaker keeps the invariant.                           *)
LEMMA NextCircuitInv == CircuitInv /\ [CircuitNext]_CircuitVars => CircuitInv'
  <1> SUFFICES ASSUME CircuitInv, [CircuitNext]_CircuitVars PROVE CircuitInv'
    OBVIOUS
  <1>1. ASSUME now' = now + 1, UNCHANGED circuitVars PROVE CircuitInv'
    BY <1>1 DEF CircuitInv, CircuitTypeOK, OpenMeansRefused, circuitVars
  <1>2. ASSUME NEW sources \in SUBSET Sources, Asked(sources),
               UNCHANGED <<now, refusals>>
        PROVE  CircuitInv'
    <2>1. \A s \in Sources :
            circuit'[s] = IF s \in sources THEN AfterAsking(circuit[s]) ELSE circuit[s]
      BY <1>2 DEF Asked
    <2>2. circuit' \in [Sources -> [failures : Nat, openedAt : Nat \cup {Shut}]]
      BY <1>2, AskedEntry DEF Asked, CircuitInv, CircuitTypeOK
    <2>3. OpenMeansRefused'
      BY <2>1, <1>2, AskedEntry DEF CircuitInv, OpenMeansRefused
    <2>4. \A s \in Sources : circuit'[s].failures <= refusals'[s]
      BY <2>1, <1>2, AskedEntry DEF CircuitInv
    <2> QED BY <1>2, <2>2, <2>3, <2>4 DEF CircuitInv, CircuitTypeOK
  <1>3. ASSUME NEW s \in Sources, RecordSuccess(s), UNCHANGED now
        PROVE  CircuitInv'
    BY <1>3, CircuitAssumption
       DEF RecordSuccess, AfterSuccess, CircuitInv, CircuitTypeOK, OpenMeansRefused,
           Closed, Shut
  <1>4. ASSUME NEW s \in Sources, RecordFailure(s), UNCHANGED now
        PROVE  CircuitInv'
    <2>1. /\ OneMoreFailure(circuit[s]) \in [failures : Nat, openedAt : Nat \cup {Shut}]
          /\ OneMoreFailure(circuit[s]).failures <= refusals[s] + 1
          /\ OneMoreFailure(circuit[s]).openedAt # Shut => refusals[s] + 1 >= Threshold
          /\ OneMoreFailure(circuit[s]).openedAt = Shut
               => OneMoreFailure(circuit[s]).failures < Threshold
      BY CircuitAssumption
         DEF OneMoreFailure, CircuitInv, CircuitTypeOK, OpenMeansRefused, Shut
    <2> QED
      BY <1>4, <2>1 DEF RecordFailure, CircuitInv, CircuitTypeOK, OpenMeansRefused
  <1>5. ASSUME UNCHANGED CircuitVars PROVE CircuitInv'
    BY <1>5 DEF CircuitVars, circuitVars, CircuitInv, CircuitTypeOK, OpenMeansRefused
  <1> QED
    BY <1>1, <1>2, <1>3, <1>4, <1>5 DEF CircuitNext

(* The breaker's entries keep their types whoever asks and reports.         *)
THEOREM CircuitTypeCorrect == CircuitSpec => []CircuitTypeOK
  <1>1. CircuitInv => CircuitTypeOK
    BY DEF CircuitInv
  <1> QED BY <1>1, InitCircuitInv, NextCircuitInv, PTL DEF CircuitSpec, CircuitVars

(* However calls overlap and however late they report, an open circuit      *)
(* stands for Threshold failures in a row and a closed one for fewer.       *)
THEOREM OpenCircuitsWereRefused == CircuitSpec => []OpenMeansRefused
  <1>1. CircuitInv => OpenMeansRefused
    BY DEF CircuitInv
  <1> QED BY <1>1, InitCircuitInv, NextCircuitInv, PTL DEF CircuitSpec, CircuitVars

-----------------------------------------------------------------------------
(* What the searches do to them                                            *)

(* A report about one source, with the questions of the same stretch of     *)
(* code: the source's entry is replaced, and others may be asked.           *)
LEMMA ReportedCircuit ==
  ASSUME CircuitInv, NEW c, NEW s, NEW entry, NEW count \in Nat,
         Reported(c, s, entry), now' = now,
         refusals' = [refusals EXCEPT ![Provider(c)] = count],
         Provider(c) \in Sources =>
           /\ entry \in [failures : Nat, openedAt : Nat \cup {Shut}]
           /\ entry.failures <= count
           /\ entry.openedAt # Shut => count >= Threshold
           /\ entry.openedAt = Shut => entry.failures < Threshold
  PROVE  CircuitInv'
  <1> DEFINE asked == IF Moves(s) THEN PassedBy(s.place + 1) ELSE {}
  <1>1. circuit' = [p \in Sources |-> IF p = Provider(c) THEN entry
                                      ELSE IF p \in asked THEN AfterAsking(circuit[p])
                                      ELSE circuit[p]]
    BY DEF Reported
  <1>2. refusals' \in [Sources -> Nat]
    BY DEF CircuitInv, CircuitTypeOK
  <1>3. ASSUME NEW p \in Sources
        PROVE  /\ circuit'[p] \in [failures : Nat, openedAt : Nat \cup {Shut}]
               /\ circuit'[p].failures <= refusals'[p]
               /\ circuit'[p].openedAt # Shut => refusals'[p] >= Threshold
               /\ circuit'[p].openedAt = Shut => circuit'[p].failures < Threshold
    <2>1. CASE p = Provider(c)
      <3>1. circuit'[p] = entry /\ refusals'[p] = count
        BY <1>1, <2>1 DEF CircuitInv, CircuitTypeOK
      <3> QED BY <3>1, <2>1
    <2>2. CASE p # Provider(c) /\ p \in asked
      <3>1. circuit'[p] = AfterAsking(circuit[p]) /\ refusals'[p] = refusals[p]
        BY <1>1, <2>2 DEF CircuitInv, CircuitTypeOK
      <3> QED BY <3>1, AskedEntry
    <2>3. CASE p # Provider(c) /\ p \notin asked
      <3>1. circuit'[p] = circuit[p] /\ refusals'[p] = refusals[p]
        BY <1>1, <2>3 DEF CircuitInv, CircuitTypeOK
      <3> QED BY <3>1 DEF CircuitInv, CircuitTypeOK, OpenMeansRefused
    <2> QED BY <2>1, <2>2, <2>3
  <1>4. circuit' \in [Sources -> [failures : Nat, openedAt : Nat \cup {Shut}]]
    <2>1. circuit' = [p \in Sources |-> circuit'[p]]
      BY <1>1
    <2> QED BY <2>1, <1>3
  <1> QED
    BY <1>2, <1>3, <1>4 DEF CircuitInv, CircuitTypeOK, OpenMeansRefused

(* Every step of the searches keeps the breaker's invariant.                *)
LEMMA NextKeepsCircuits == CircuitInv /\ [WebNext]_searchVars => CircuitInv'
  <1> SUFFICES ASSUME CircuitInv, [WebNext]_searchVars PROVE CircuitInv'
    OBVIOUS
  <1>1. ASSUME NEW c \in Calls, NEW q \in Queries, SearchFor(c, q) PROVE CircuitInv'
    <2>1. UNCHANGED <<now, refusals>>
      BY <1>1 DEF SearchFor
    <2>2. UNCHANGED circuit \/ Asked(PassedBy(1))
      BY <1>1 DEF SearchFor
    <2>3. CASE UNCHANGED circuit
      BY <2>1, <2>3 DEF CircuitInv, CircuitTypeOK, OpenMeansRefused
    <2>4. CASE Asked(PassedBy(1))
      <3>1. Asked(PassedBy(1) \cap Sources)
        BY <2>4 DEF Asked
      <3>2. CircuitNext
        BY <3>1, <2>1 DEF CircuitNext
      <3> QED BY <3>2, NextCircuitInv
    <2> QED BY <2>2, <2>3, <2>4
  <1>2. ASSUME NEW c \in Calls, NEW outcome, Answer(c, outcome) PROVE CircuitInv'
    <2> DEFINE s == [search[c] EXCEPT !.answered = TRUE, !.sites = @ - 1,
                                      !.found = @ \/ outcome = "results"]
    <2>1. /\ Reported(c, s, AfterSuccess(circuit[Provider(c)]))
          /\ refusals' = [refusals EXCEPT ![Provider(c)] = 0]
          /\ now' = now
      BY <1>2 DEF Answer
    <2> DEFINE entry == AfterSuccess(circuit[Provider(c)])
               count == 0
    <2>2. /\ count \in Nat
          /\ entry \in [failures : Nat, openedAt : Nat \cup {Shut}]
          /\ entry.failures <= count
          /\ entry.openedAt # Shut => count >= Threshold
          /\ entry.openedAt = Shut => entry.failures < Threshold
      BY CircuitAssumption DEF AfterSuccess, Closed, Shut
    <2>3. Reported(c, s, entry) /\ refusals' = [refusals EXCEPT ![Provider(c)] = count]
      BY <2>1
    <2> HIDE DEF entry, count, s
    <2> QED BY <2>1, <2>2, <2>3, ReportedCircuit
  <1>3. ASSUME NEW c \in Calls, Refuse(c) PROVE CircuitInv'
    <2> DEFINE p == Provider(c)
               s == [search[c] EXCEPT !.refused = TRUE, !.sites = @ - 1]
    <2>1. /\ Reported(c, s, OneMoreFailure(circuit[p]))
          /\ refusals' = [refusals EXCEPT ![p] = @ + 1]
          /\ now' = now
      BY <1>3 DEF Refuse
    <2>2. CASE p \in Sources
      <3> DEFINE entry == OneMoreFailure(circuit[p])
                 count == refusals[p] + 1
      <3>1. /\ count \in Nat
            /\ entry \in [failures : Nat, openedAt : Nat \cup {Shut}]
            /\ entry.failures <= count
            /\ entry.openedAt # Shut => count >= Threshold
            /\ entry.openedAt = Shut => entry.failures < Threshold
        BY <2>2, CircuitAssumption
           DEF OneMoreFailure, CircuitInv, CircuitTypeOK, OpenMeansRefused, Shut
      <3>2. refusals' = [refusals EXCEPT ![Provider(c)] = count]
        BY <2>1
      <3>3. Reported(c, s, entry)
        BY <2>1
      <3> HIDE DEF entry, count, s
      <3> QED BY <2>1, <3>1, <3>2, <3>3, ReportedCircuit
    <2>3. CASE p \notin Sources
      <3>1. refusals' = [refusals EXCEPT ![Provider(c)] = 0]
        BY <2>1, <2>3 DEF CircuitInv, CircuitTypeOK
      <3> QED BY <2>1, <2>3, <3>1, ReportedCircuit
    <2> QED BY <2>2, <2>3
  <1>4. ASSUME NEW c \in Calls, Fail(c) PROVE CircuitInv'
    BY <1>4 DEF Fail, circuitVars, CircuitInv, CircuitTypeOK, OpenMeansRefused
  <1>5. ASSUME Restart PROVE CircuitInv'
    BY <1>5, CircuitAssumption
       DEF Restart, CircuitInv, CircuitTypeOK, OpenMeansRefused, Closed, Shut
  <1>6. ASSUME Tick PROVE CircuitInv'
    BY <1>6 DEF Tick, circuitVars, CircuitInv, CircuitTypeOK, OpenMeansRefused
  <1>7. ASSUME UNCHANGED searchVars PROVE CircuitInv'
    BY <1>7 DEF searchVars, circuitVars, CircuitInv, CircuitTypeOK, OpenMeansRefused
  <1> QED
    BY <1>1, <1>2, <1>3, <1>4, <1>5, <1>6, <1>7 DEF WebNext, Reply

(* Of the searches themselves, whatever their number and however they fail  *)
(* over: a provider's circuit is open only after Threshold refusals in a    *)
(* row, and no circuit remembers that many and is closed.                   *)
THEOREM SearchesOpenRefusedCircuits == WebSpec => []OpenMeansRefused
  <1>1. WebInit => CircuitInv
    BY InitCircuitInv DEF WebInit
  <1>2. CircuitInv => OpenMeansRefused
    BY DEF CircuitInv
  <1> QED BY <1>1, <1>2, NextKeepsCircuits, PTL DEF WebSpec

-----------------------------------------------------------------------------
(* What the searches return                                                 *)

SearchState ==
  [at : {"idle", "asking", "done"}, number : Nat, query : Queries \cup {"none"},
   place : Nat, sites : Int, found : BOOLEAN, refused : BOOLEAN, asked : BOOLEAN,
   result : {"none", "results", "nothing", "refused", "fatal"}, answered : BOOLEAN]

(* What is found was answered by somebody, and so is what an aggregated      *)
(* search returns; a provider that is not asked site by site is asked once.  *)
SearchOK(s) ==
  /\ s.found => s.answered
  /\ s.result \in {"results", "nothing"} /\ Aggregated(s.query) => s.answered
  /\ s.at = "asking" =>
       /\ s.query \in Queries
       /\ s.place \in 1 .. Len(Chain)
       /\ s.sites >= 1
       /\ s.result = "none"
       /\ Chain[s.place] \notin Serial => s.sites = 1 /\ ~ s.refused

(* The entries of a cache that keeps only what searches returned.            *)
Entry == [query : Queries, result : {"results", "nothing"}, until : Nat,
          answered : BOOLEAN]

Honest == {e \in Entry : Aggregated(e.query) => e.answered}

WebInv ==
  /\ now \in Nat
  /\ search \in [Calls -> SearchState]
  /\ kept \in Seq(Honest)
  /\ \A c \in Calls : SearchOK(search[c])

(* A set of numbers has the minimum that Min chooses.                        *)
LEMMA SetsHaveMinima ==
  ASSUME NEW S \in SUBSET Nat, S # {}
  PROVE  Min(S) \in S
  <1> DEFINE R == {p \in Nat \X Nat : p[1] < p[2]}
  <1>1. IsWellFoundedOn(R, Nat)
    BY NatLessThanWellFounded DEF OpToRel
  <1>2. PICK x \in S : \A y \in S : ~ (<<y, x>> \in R)
    BY <1>1, WFMin
  <1>3. \A y \in S : x <= y
    <2> SUFFICES ASSUME NEW y \in S PROVE x <= y
      OBVIOUS
    <2>1. x \in Nat /\ y \in Nat
      OBVIOUS
    <2>2. ~ (y < x)
      BY <1>2, <2>1
    <2> QED BY <2>1, <2>2
  <1> QED BY <1>3 DEF Min

(* The next provider is one of the chain that can be asked.                  *)
LEMMA NextIsUsable ==
  ASSUME NEW from \in Nat \ {0}, FirstUsable(from) <= Len(Chain)
  PROVE  /\ FirstUsable(from) \in 1 .. Len(Chain)
         /\ Usable(Chain[FirstUsable(from)])
  <1> DEFINE usable == {i \in from .. Len(Chain) : Usable(Chain[i])}
  <1>1. Len(Chain) \in Nat /\ usable \in SUBSET Nat
    BY WebAssumption, LenProperties
  <1>2. FirstUsable(from) = IF usable = {} THEN Len(Chain) + 1 ELSE Min(usable)
    BY DEF FirstUsable
  <1>3. usable # {}
    BY <1>1, <1>2
  <1>4. FirstUsable(from) \in usable
    BY <1>1, <1>2, <1>3, SetsHaveMinima
  <1> QED BY <1>1, <1>4

(* Looking forgets, keeping replaces: the cache stays one of such entries.   *)
LEMMA LookedIsHonest ==
  ASSUME kept \in Seq(Honest), NEW q
  PROVE  Looked(q) \in Seq(Honest)
  <1> DEFINE past == {i \in 1 .. Len(kept) : kept[i].query = q /\ kept[i].until <= now}
             m == Min(past)
  <1>1. CASE past = {}
    BY <1>1 DEF Looked
  <1>2. CASE past # {}
    <2>1. Len(kept) \in Nat /\ past \in SUBSET Nat
      BY LenProperties
    <2>2. m \in past
      BY <1>2, <2>1, SetsHaveMinima
    <2>3. \A i \in 1 .. Len(kept) : kept[i] \in Honest
      BY ElementOfSeq
    <2>4. Looked(q) = SubSeq(kept, 1, m - 1) \o SubSeq(kept, m + 1, Len(kept))
      BY <1>2 DEF Looked, RemoveAt
    <2>5. m \in 1 .. Len(kept)
      BY <2>2
    <2> HIDE DEF m, past
    <2>6. SubSeq(kept, 1, m - 1) \in Seq(Honest)
      <3>1. 1 \in Int /\ m - 1 \in Int /\ \A i \in 1 .. m - 1 : kept[i] \in Honest
        BY <2>1, <2>3, <2>5
      <3> QED BY <3>1, SubSeqProperties
    <2>7. SubSeq(kept, m + 1, Len(kept)) \in Seq(Honest)
      <3>1. m + 1 \in Int /\ Len(kept) \in Int
            /\ \A i \in m + 1 .. Len(kept) : kept[i] \in Honest
        BY <2>1, <2>3, <2>5
      <3> QED BY <3>1, SubSeqProperties
    <2> QED BY <2>4, <2>6, <2>7, ConcatProperties
  <1> QED BY <1>1, <1>2

LEMMA KeepIsHonest ==
  ASSUME NEW s \in Seq(Honest), NEW e \in Honest
  PROVE  Keep(s, e) \in Seq(Honest)
  <1> DEFINE room == IF Len(s) >= MaxKept THEN Tail(s) ELSE s
             own == {i \in 1 .. Len(room) : room[i].query = e.query}
             replaced == [i \in 1 .. Len(room) |-> IF i \in own THEN e ELSE room[i]]
  <1>1. room \in Seq(Honest)
    <2>1. CASE Len(s) >= MaxKept
      <3>1. s # << >>
        BY <2>1, WebAssumption, EmptySeq
      <3> QED BY <2>1, <3>1, HeadTailProperties
    <2>2. CASE ~ (Len(s) >= MaxKept)
      BY <2>2
    <2> QED BY <2>1, <2>2
  <1>2. Keep(s, e) = IF own = {} THEN Append(room, e) ELSE replaced
    BY DEF Keep
  <1> HIDE DEF room
  <1>3. Append(room, e) \in Seq(Honest)
    BY <1>1, AppendProperties
  <1>4. replaced \in Seq(Honest)
    <2>1. Len(room) \in Nat /\ \A i \in 1 .. Len(room) : room[i] \in Honest
      BY <1>1, LenProperties, ElementOfSeq
    <2>2. replaced \in [1 .. Len(room) -> Honest]
      BY <2>1
    <2> QED BY <2>1, <2>2, SeqDef
  <1> QED BY <1>2, <1>3, <1>4

(* A caller's search becomes t, which is over, or asks a provider that could *)
(* be asked just now, or asks its serial one about the next site.            *)
Goes(c, t) ==
  /\ search' = [search EXCEPT ![c] = t]
  /\ t.at \in {"asking", "done"}
  /\ SearchOK(t)
  /\ kept' \in Seq(Honest)

Asks(t) == t.at = "asking" => Usable(Chain[t.place])

(* A search of this query that has not returned yet.                         *)
Draft(s) ==
  s \in SearchState /\ s.query \in Queries /\ s.result = "none"

LEMMA ReturnGoes ==
  ASSUME now \in Nat, NEW c, NEW s, Draft(s), NEW result \in {"results", "nothing"},
         Aggregated(s.query) \/ result = "results" => s.answered,
         s.found => s.answered,
         NEW cached \in Seq(Honest), Returns(c, s, result, cached)
  PROVE  \E t \in SearchState : Goes(c, t) /\ t.at = "done"
  <1> DEFINE t == [s EXCEPT !.at = "done", !.result = result]
             e == [query |-> s.query, result |-> result,
                   until |-> now + KeepFor, answered |-> s.answered]
  <1>1. search' = [search EXCEPT ![c] = t] /\ kept' = Keep(cached, e)
    BY DEF Returns, Ends
  <1>2. t \in SearchState /\ t.at = "done" /\ SearchOK(t)
    BY DEF Draft, SearchState, SearchOK
  <1>3. e \in Honest
    BY WebAssumption DEF Draft, SearchState, Honest, Entry
  <1> HIDE DEF t, e
  <1>4. kept' \in Seq(Honest)
    BY <1>1, <1>3, KeepIsHonest
  <1> QED BY <1>1, <1>2, <1>4 DEF Goes

LEMMA ThrowGoes ==
  ASSUME NEW c, NEW s, Draft(s), NEW result \in {"refused", "fatal"},
         s.found => s.answered,
         NEW cached \in Seq(Honest), Throws(c, s, result, cached)
  PROVE  \E t \in SearchState : Goes(c, t) /\ t.at = "done"
  <1> DEFINE t == [s EXCEPT !.at = "done", !.result = result]
  <1>1. search' = [search EXCEPT ![c] = t] /\ kept' = cached
    BY DEF Throws, Ends
  <1>2. t \in SearchState /\ t.at = "done" /\ SearchOK(t)
    BY DEF Draft, SearchState, SearchOK
  <1> HIDE DEF t
  <1> QED BY <1>1, <1>2 DEF Goes

LEMMA TurnGoes ==
  ASSUME now \in Nat, NEW c, NEW s, Draft(s), s.found => s.answered,
         NEW from \in Nat \ {0}, NEW cached \in Seq(Honest), TurnTo(c, s, from, cached)
  PROVE  \E t \in SearchState : Goes(c, t) /\ Asks(t)
  <1> DEFINE next == FirstUsable(from)
  <1>1. CASE next > Len(Chain)
    <2>1. NobodyLeft(c, s, cached)
      BY <1>1 DEF TurnTo
    <2>2. CASE s.asked \/ Aggregated(s.query)
      BY <2>1, <2>2, ThrowGoes DEF NobodyLeft, Asks
    <2>3. CASE ~ (s.asked \/ Aggregated(s.query))
      <3>1. Returns(c, s, "nothing", cached)
        BY <2>1, <2>3 DEF NobodyLeft
      <3> QED BY <2>3, <3>1, ReturnGoes DEF Asks
    <2> QED BY <2>2, <2>3
  <1>2. CASE ~ (next > Len(Chain))
    <2> DEFINE sites == IF Chain[next] \in Serial THEN SitesOf[s.query] ELSE 1
               t == [s EXCEPT !.at = "asking", !.place = next, !.asked = TRUE,
                              !.found = FALSE, !.refused = FALSE, !.sites = sites]
    <2>1. search' = [search EXCEPT ![c] = t] /\ kept' = cached
      BY <1>2 DEF TurnTo
    <2>2. next <= Len(Chain)
      <3>1. Len(Chain) \in Nat
        BY WebAssumption, LenProperties
      <3>2. next \in Int
        <4> DEFINE usable == {i \in from .. Len(Chain) : Usable(Chain[i])}
        <4>1. usable \in SUBSET Nat
          BY <3>1
        <4>2. usable # {} => Min(usable) \in usable
          BY <4>1, SetsHaveMinima
        <4> QED BY <3>1, <4>1, <4>2 DEF FirstUsable
      <3> HIDE DEF next
      <3> QED BY <1>2, <3>1, <3>2
    <2>3. next \in 1 .. Len(Chain) /\ Usable(Chain[next])
      BY <2>2, NextIsUsable
    <2>4. Len(Chain) \in Nat
      BY WebAssumption, LenProperties
    <2> HIDE DEF next
    <2>5. sites \in Nat \ {0} /\ (Chain[next] \notin Serial => sites = 1)
      BY WebAssumption DEF Draft
    <2> HIDE DEF sites
    <2>6. t \in SearchState /\ t.at = "asking" /\ t.place = next
      <3>1. next \in Nat /\ sites \in Int
        BY <2>3, <2>4, <2>5
      <3>2. s \in SearchState
        BY DEF Draft
      <3> QED BY <3>1, <3>2 DEF SearchState
    <2>7. SearchOK(t)
      BY <2>3, <2>4, <2>5 DEF Draft, SearchState, SearchOK
    <2> HIDE DEF t
    <2> QED BY <2>1, <2>3, <2>6, <2>7 DEF Goes, Asks
  <1> QED BY <1>1, <1>2

(* What becomes of a search whose provider was heard about one more site:    *)
(* only a serial provider is asked again without being chosen again.         *)
LEMMA HeardGoes ==
  ASSUME now \in Nat, kept \in Seq(Honest), NEW c,
         NEW old \in SearchState, SearchOK(old), old.at = "asking",
         NEW s \in SearchState, s.at = "asking", s.result = "none",
         s.query = old.query, s.place = old.place, s.sites = old.sites - 1,
         s.found => s.answered, s.answered \/ s.refused,
         Heard(c, s)
  PROVE  /\ \E t \in SearchState :
              /\ Goes(c, t)
              /\ Asks(t) \/ (t.place = s.place /\ Chain[s.place] \in Serial)
         /\ Chain[s.place] \notin Serial /\ s.refused = old.refused =>
              \E t \in SearchState : Goes(c, t) /\ t.at = "done"
  <1>1. Draft(s) /\ s.place \in 1 .. Len(Chain) /\ s.place \in Nat \ {0} /\ s.sites >= 0
    <2>1. Len(Chain) \in Nat
      BY WebAssumption, LenProperties
    <2> QED BY <2>1 DEF Draft, SearchOK, SearchState
  <1>2. CASE s.sites > 0
    <2>0. ~ Moves(s)
      BY <1>2 DEF Moves
    <2>1. search' = [search EXCEPT ![c] = s] /\ kept' = kept
      BY <1>2, <2>0, Zenon DEF Heard
    <2>2. Chain[s.place] \in Serial
      BY <1>2 DEF SearchOK, SearchState
    <2>3. SearchOK(s)
      BY <1>1, <1>2, <2>2 DEF SearchOK, SearchState, Draft
    <2> QED BY <2>1, <2>2, <2>3 DEF Goes
  <1>3. CASE ~ (s.sites > 0) /\ Moves(s)
    <2>1. TurnTo(c, s, s.place + 1, kept)
      BY <1>3, Zenon DEF Heard
    <2>2. s.place + 1 \in Nat \ {0}
      BY <1>1
    <2>3. \E t \in SearchState : Goes(c, t) /\ Asks(t)
      BY <1>1, <2>1, <2>2, TurnGoes
    <2>4. ~ (Chain[s.place] \notin Serial /\ s.refused = old.refused)
      BY <1>3 DEF Moves, SearchOK
    <2> QED BY <2>3, <2>4
  <1>4. CASE ~ (s.sites > 0) /\ ~ Moves(s)
    <2> DEFINE result == IF s.found THEN "results" ELSE "nothing"
    <2>1. Returns(c, s, result, kept)
      BY <1>4, Zenon DEF Heard
    <2>2. s.sites = 0
      BY <1>1, <1>4 DEF SearchState
    <2>3. s.answered
      BY <1>4, <2>2 DEF Moves, SearchState
    <2>4. \E t \in SearchState : Goes(c, t) /\ t.at = "done"
      BY <1>1, <2>1, <2>3, ReturnGoes
    <2> QED BY <2>4 DEF Asks
  <1> QED BY <1>2, <1>3, <1>4

(* A caller that only counts its searches has not asked anybody.             *)
LEMMA IdleIsOK ==
  ASSUME NEW n \in Nat
  PROVE  /\ Idle \in SearchState /\ SearchOK(Idle)
         /\ [Idle EXCEPT !.number = n] \in SearchState
         /\ SearchOK([Idle EXCEPT !.number = n])
  <1>1. Idle \in SearchState
    BY DEF Idle, SearchState
  <1>2. [Idle EXCEPT !.number = n] \in SearchState
    BY <1>1 DEF SearchState
  <1>3. SearchOK(Idle) /\ SearchOK([Idle EXCEPT !.number = n])
    BY DEF Idle, SearchOK
  <1> QED BY <1>1, <1>2, <1>3

LEMMA SearchForGoes ==
  ASSUME WebInv, NEW c \in Calls, NEW q \in Queries, SearchFor(c, q)
  PROVE  \E t \in SearchState : Goes(c, t) /\ Asks(t)
  <1>1. PICK n \in Nat : n = search[c].number + 1
    BY DEF WebInv, SearchState
  <1> DEFINE s == [Idle EXCEPT !.query = q, !.number = n]
  <1>2. /\ Draft(s) /\ ~ s.found /\ s.query = q
        /\ now \in Nat /\ kept \in Seq(Honest) /\ Looked(q) \in Seq(Honest)
    <2>1. s \in SearchState
      <3>1. Idle \in SearchState
        BY IdleIsOK
      <3> QED BY <3>1 DEF SearchState
    <2>2. ~ s.found /\ s.query = q /\ s.result = "none"
      BY DEF Idle
    <2> QED BY <2>1, <2>2, LookedIsHonest DEF Draft, WebInv
  <1> DEFINE hits == {e \in ToSet(Looked(q)) : e.query = q}
  <1>3. \/ \E e \in hits : /\ Ends(c, [s EXCEPT !.answered = e.answered], e.result)
                           /\ UNCHANGED kept
        \/ TurnTo(c, s, 1, Looked(q))
    BY <1>1 DEF SearchFor
  <1> HIDE DEF s
  <1>4. ASSUME NEW e \in hits, Ends(c, [s EXCEPT !.answered = e.answered], e.result),
               UNCHANGED kept
        PROVE  \E t \in SearchState : Goes(c, t) /\ Asks(t)
    <2>1. e \in Honest /\ e.query = q
      BY <1>2, LenProperties, ElementOfSeq DEF ToSet
    <2> DEFINE t == [s EXCEPT !.at = "done", !.answered = e.answered,
                              !.result = e.result]
    <2>2. search' = [search EXCEPT ![c] = t]
      BY <1>2, <1>4 DEF Ends, Draft, SearchState
    <2>3. t \in SearchState /\ SearchOK(t) /\ t.at = "done"
      BY <1>2, <2>1 DEF Draft, SearchState, SearchOK, Honest, Entry
    <2> HIDE DEF t
    <2> QED BY <1>2, <1>4, <2>2, <2>3 DEF Goes, Asks
  <1>5. CASE TurnTo(c, s, 1, Looked(q))
    BY <1>2, <1>5, TurnGoes
  <1> QED BY <1>3, <1>4, <1>5

(* A provider's answer, one site's or all its own: only a serial provider    *)
(* has more sites to be asked about, and one that answered hands over only   *)
(* if it is serial too.                                                      *)
LEMMA AnswerGoes ==
  ASSUME WebInv, NEW c \in Calls, search[c].at = "asking", NEW outcome,
         Answer(c, outcome)
  PROVE  /\ \E t \in SearchState :
              /\ Goes(c, t)
              /\ Asks(t) \/ (t.place = search[c].place /\ Provider(c) \in Serial)
         /\ Provider(c) \notin Serial =>
              \E t \in SearchState : Goes(c, t) /\ t.at = "done"
  <1>1. PICK old \in SearchState : old = search[c] /\ SearchOK(old) /\ old.at = "asking"
    BY DEF WebInv
  <1> DEFINE s == [old EXCEPT !.answered = TRUE, !.sites = @ - 1,
                              !.found = @ \/ outcome = "results"]
  <1>2. s \in SearchState
    <2>1. old.sites - 1 \in Int /\ (old.found \/ outcome = "results") \in BOOLEAN
      BY DEF SearchState
    <2> QED BY <2>1 DEF SearchState
  <1>3. Heard(c, s)
    BY <1>1 DEF Answer
  <1>4. /\ s.at = "asking" /\ s.result = "none" /\ s.query = old.query
        /\ s.place = old.place /\ s.sites = old.sites - 1 /\ s.answered
        /\ s.refused = old.refused
    BY <1>1 DEF SearchState, SearchOK
  <1> HIDE DEF s
  <1>5. /\ \E t \in SearchState :
             /\ Goes(c, t)
             /\ Asks(t) \/ (t.place = s.place /\ Chain[s.place] \in Serial)
        /\ Chain[s.place] \notin Serial =>
             \E t \in SearchState : Goes(c, t) /\ t.at = "done"
    BY <1>1, <1>2, <1>3, <1>4, HeardGoes DEF WebInv
  <1> QED BY <1>1, <1>4, <1>5 DEF Provider

LEMMA RefuseGoes ==
  ASSUME WebInv, NEW c \in Calls, search[c].at = "asking", Refuse(c)
  PROVE  \E t \in SearchState :
           /\ Goes(c, t)
           /\ Asks(t) \/ (t.place = search[c].place /\ Provider(c) \in Serial)
  <1>1. PICK old \in SearchState : old = search[c] /\ SearchOK(old) /\ old.at = "asking"
    BY DEF WebInv
  <1> DEFINE s == [old EXCEPT !.refused = TRUE, !.sites = @ - 1]
  <1>2. s \in SearchState
    <2>1. old.sites - 1 \in Int
      BY DEF SearchState
    <2> QED BY <2>1 DEF SearchState
  <1>3. Heard(c, s)
    BY <1>1 DEF Refuse
  <1>4. /\ s.at = "asking" /\ s.result = "none" /\ s.query = old.query
        /\ s.place = old.place /\ s.sites = old.sites - 1 /\ s.refused
        /\ s.found => s.answered
    BY <1>1 DEF SearchState, SearchOK
  <1> HIDE DEF s
  <1>5. \E t \in SearchState :
          /\ Goes(c, t)
          /\ Asks(t) \/ (t.place = s.place /\ Chain[s.place] \in Serial)
    BY <1>1, <1>2, <1>3, <1>4, HeardGoes DEF WebInv
  <1> QED BY <1>1, <1>4, <1>5 DEF Provider

LEMMA FailGoes ==
  ASSUME WebInv, NEW c \in Calls, search[c].at = "asking", Fail(c)
  PROVE  \E t \in SearchState : Goes(c, t) /\ t.at = "done"
  <1>1. PICK s \in SearchState : s = search[c] /\ SearchOK(s) /\ s.at = "asking"
    BY DEF WebInv
  <1>2. Throws(c, s, "fatal", kept) /\ kept \in Seq(Honest)
    BY <1>1 DEF Fail, WebInv
  <1>3. Draft(s) /\ (s.found => s.answered)
    BY <1>1 DEF Draft, SearchOK
  <1> QED BY <1>2, <1>3, ThrowGoes

(* What a step does to the searches, the counters and the clock.             *)
WebStep ==
  \/ \E c \in Calls, t \in SearchState :
       /\ Goes(c, t)
       /\ UNCHANGED now
       /\ \/ /\ Asks(t) \/ /\ search[c].at = "asking"
                           /\ t.place = search[c].place
                           /\ Provider(c) \in Serial
             /\ \/ UNCHANGED <<requests, day>>
                \/ search[c].at = "asking" /\ Provider(c) \in Serial
                     /\ RecordRequest(Provider(c))
          \/ /\ search[c].at = "asking" /\ t.at = "done"
             /\ RecordRequest(Provider(c))
  \/ Restart
  \/ Tick \/ UNCHANGED <<now, search, kept, requests, day>>

LEMMA NextIsWebStep == WebInv /\ [WebNext]_searchVars => WebStep
  <1> SUFFICES ASSUME WebInv, [WebNext]_searchVars PROVE WebStep
    OBVIOUS
  <1>1. ASSUME NEW c \in Calls, NEW q \in Queries, SearchFor(c, q) PROVE WebStep
    BY <1>1, SearchForGoes DEF WebStep, SearchFor
  <1>2. ASSUME NEW c \in Calls, search[c].at = "asking", NEW outcome,
               Answer(c, outcome)
        PROVE  WebStep
    <2>1. RecordRequest(Provider(c)) /\ UNCHANGED now
      BY <1>2 DEF Answer
    <2>2. CASE Provider(c) \in Serial
      BY <1>2, <2>1, <2>2, AnswerGoes DEF WebStep
    <2>3. CASE Provider(c) \notin Serial
      BY <1>2, <2>1, <2>3, AnswerGoes DEF WebStep
    <2> QED BY <2>2, <2>3
  <1>3. ASSUME NEW c \in Calls, search[c].at = "asking", Refuse(c) PROVE WebStep
    BY <1>3, RefuseGoes DEF WebStep, Refuse
  <1>4. ASSUME NEW c \in Calls, search[c].at = "asking", Fail(c) PROVE WebStep
    BY <1>4, FailGoes DEF WebStep, Fail, Asks
  <1>5. CASE Restart \/ Tick
    BY <1>5 DEF WebStep
  <1>6. CASE UNCHANGED searchVars
    BY <1>6 DEF searchVars, webVars, WebStep
  <1> QED BY <1>1, <1>2, <1>3, <1>4, <1>5, <1>6 DEF WebNext, Reply

LEMMA NextKeepsWebInv == WebInv /\ [WebNext]_searchVars => WebInv'
  <1> SUFFICES ASSUME WebInv, WebStep PROVE WebInv'
    BY NextIsWebStep
  <1>1. ASSUME NEW c \in Calls, NEW t \in SearchState, Goes(c, t), UNCHANGED now
        PROVE  WebInv'
    BY <1>1 DEF Goes, WebInv
  <1>2. CASE Restart
    <2>1. ASSUME NEW c \in Calls
          PROVE  /\ [Idle EXCEPT !.number = search[c].number] \in SearchState
                 /\ SearchOK([Idle EXCEPT !.number = search[c].number])
      <3>1. search[c].number \in Nat
        BY DEF WebInv, SearchState
      <3> QED BY <3>1, IdleIsOK
    <2>2. search' = [c \in Calls |-> [Idle EXCEPT !.number = search[c].number]]
          /\ kept' = << >> /\ now' = now
      BY <1>2 DEF Restart
    <2>3. << >> \in Seq(Honest)
      BY EmptySeq
    <2> QED BY <2>1, <2>2, <2>3 DEF WebInv
  <1>3. CASE Tick \/ UNCHANGED <<now, search, kept, requests, day>>
    BY <1>3 DEF Tick, webVars, WebInv
  <1> QED BY <1>1, <1>2, <1>3 DEF WebStep

LEMMA InitWebInv == WebInit => WebInv
  <1>1. 0 \in Nat /\ Idle \in SearchState /\ SearchOK(Idle) /\ << >> \in Seq(Honest)
    BY IdleIsOK, EmptySeq
  <1> QED BY <1>1 DEF WebInit, WebInv

(* Whatever the providers answer and whoever is skipped, an aggregated       *)
(* search that returns was answered: an exhausted chain is never mistaken    *)
(* for an empty web, neither by the search nor by those its entry serves.    *)
THEOREM AggregatedSearchesWereAnswered == WebSpec => []AnswersAreSomebodys
  <1>1. WebInv => AnswersAreSomebodys
    BY DEF WebInv, SearchOK, AnswersAreSomebodys
  <1> QED BY <1>1, InitWebInv, NextKeepsWebInv, PTL DEF WebSpec

-----------------------------------------------------------------------------
(* The daily budgets                                                        *)

(* The callers whose request of provider p is under way.                     *)
Asking(p) == {c \in Calls : search[c].at = "asking" /\ Provider(c) = p}

Allowance(p) == Budget[p] - Reserve(p)

(* Whoever asks was let in while the allowance lasted, so what is spent and  *)
(* what is under way together exceed it by less than the callers' number.    *)
BudgetKept ==
  /\ requests \in [Budgeted -> Nat]
  /\ day \in Nat /\ day <= Today
  /\ \A p \in Budgeted :
       Spent[p] > 0 \/ Asking(p) # {} =>
         /\ Allowance(p) >= 1
         /\ Spent[p] + Cardinality(Asking(p)) < Allowance(p) + Cardinality(Calls)

(* Days follow one another.                                                  *)
LEMMA DaysGoOn ==
  ASSUME NEW n \in Nat
  PROVE  n \div DayLength \in Nat /\ (n + 1) \div DayLength >= n \div DayLength
  BY WebAssumption

LEMMA BudgetNumbers ==
  ASSUME BudgetKept, NEW p \in Budgeted
  PROVE  /\ Spent \in [Budgeted -> Nat] /\ Spent[p] \in Nat
         /\ Allowance(p) \in Int
         /\ Cardinality(Asking(p)) \in Nat /\ Cardinality(Calls) \in Nat
         /\ Cardinality(Asking(p)) <= Cardinality(Calls)
         /\ IsFiniteSet(Asking(p))
  <1>1. Spent \in [Budgeted -> Nat]
    BY DEF Spent, BudgetKept
  <1>2. Allowance(p) \in Int
    BY WebAssumption DEF Allowance, Reserve
  <1>3. Asking(p) \in SUBSET Calls /\ IsFiniteSet(Calls)
    BY WebAssumption DEF Asking
  <1>4. IsFiniteSet(Asking(p)) /\ Cardinality(Asking(p)) <= Cardinality(Calls)
    BY <1>3, FS_Subset
  <1>5. Cardinality(Calls) \in Nat
    BY <1>3, FS_CardinalityType
  <1>6. Cardinality(Asking(p)) \in Nat
    BY <1>4, FS_CardinalityType
  <1> QED BY <1>1, <1>2, <1>4, <1>5, <1>6

(* Counting a request adds one to its provider's count of the day.           *)
LEMMA RecordingCounts ==
  ASSUME now \in Nat, BudgetKept, NEW q, RecordRequest(q), UNCHANGED now
  PROVE  /\ requests' \in [Budgeted -> Nat] /\ day' \in Nat /\ day' <= Today'
         /\ \A p \in Budgeted :
              Spent'[p] = IF p = q THEN Spent[p] + 1 ELSE Spent[p]
  <1>1. Today' = Today /\ Today \in Nat
    BY DaysGoOn DEF Today
  <1>2. CASE q \in Budgeted
    <2>1. requests' = [Spent EXCEPT ![q] = @ + 1] /\ day' = Today
      BY <1>2 DEF RecordRequest
    <2>2. Spent \in [Budgeted -> Nat]
      BY DEF Spent, BudgetKept
    <2>3. Spent' = requests'
      BY <1>1, <2>1 DEF Spent
    <2>4. requests' \in [Budgeted -> Nat]
      <3>1. Spent[q] + 1 \in Nat
        BY <1>2, <2>2
      <3> QED BY <1>2, <2>1, <2>2, <3>1
    <2>5. \A p \in Budgeted :
            requests'[p] = IF p = q THEN Spent[p] + 1 ELSE Spent[p]
      BY <2>1, <2>2
    <2>6. day' \in Nat /\ day' <= Today'
      BY <1>1, <2>1
    <2> QED BY <2>3, <2>4, <2>5, <2>6
  <1>3. CASE q \notin Budgeted
    <2>1. UNCHANGED <<requests, day>>
      BY <1>3 DEF RecordRequest
    <2> QED BY <1>1, <1>3, <2>1 DEF Spent, BudgetKept
  <1> QED BY <1>2, <1>3

LEMMA StepKeepsBudget ==
  ASSUME WebInv, BudgetKept, NEW c \in Calls, NEW t \in SearchState,
         search' = [search EXCEPT ![c] = t], NEW p \in Budgeted,
         \/ /\ Asks(t) \/ /\ search[c].at = "asking"
                          /\ t.place = search[c].place
                          /\ Provider(c) \in Serial
            /\ Spent'[p] = Spent[p]
         \/ /\ search[c].at = "asking" /\ t.at = "done"
            /\ Spent'[p] = IF p = Provider(c) THEN Spent[p] + 1 ELSE Spent[p]
  PROVE  Spent'[p] > 0 \/ Asking(p)' # {} =>
           /\ Allowance(p) >= 1
           /\ Spent'[p] + Cardinality(Asking(p)') < Allowance(p) + Cardinality(Calls)
  <1> DEFINE n == Cardinality(Asking(p))
             m == Cardinality(Asking(p)')
             all == Cardinality(Calls)
             a == Allowance(p)
             q == Chain[t.place]
  <1>1. /\ Spent[p] \in Nat /\ a \in Int /\ n \in Nat /\ all \in Nat
        /\ n <= all /\ IsFiniteSet(Asking(p)) /\ p \notin Serial
    BY BudgetNumbers, WebAssumption
  <1>2. /\ search'[c] = t
        /\ \A u \in Calls \ {c} : search'[u] = search[u]
    BY DEF WebInv
  <1>3. /\ \A u \in Calls \ {c} : u \in Asking(p)' <=> u \in Asking(p)
        /\ c \in Asking(p)' <=> t.at = "asking" /\ q = p
        /\ Asking(p)' \subseteq Calls /\ Asking(p) \subseteq Calls
    BY <1>2 DEF Asking, Provider
  <1>4. Asking(p)' \in SUBSET Calls /\ IsFiniteSet(Calls)
    BY <1>3, WebAssumption
  <1>5. IsFiniteSet(Asking(p)') /\ m <= all
    BY <1>4, FS_Subset
  <1>6. m \in Nat
    BY <1>5, FS_CardinalityType
  <1>7. Spent[p] > 0 \/ Asking(p) # {} => a >= 1 /\ Spent[p] + n < a + all
    BY DEF BudgetKept
  <1>8. CASE /\ c \in Asking(p)' /\ c \notin Asking(p)
    <2>1. t.at = "asking" /\ q = p
      BY <1>3, <1>8
    <2>2. Usable(q) /\ Spent'[p] = Spent[p]
      BY <1>1, <1>8, <2>1 DEF Asks, Asking, Provider
    <2>3. Spent[p] < a
      <3>1. ~ Low(p)
        BY <2>1, <2>2 DEF Usable
      <3>2. Budget[p] \in Nat /\ Reserve(p) \in Int
        BY WebAssumption DEF Reserve
      <3> QED BY <1>1, <3>1, <3>2 DEF Low, Allowance
    <2> HIDE DEF n, m, all, a, q
    <2> QED BY <1>1, <1>5, <1>6, <2>2, <2>3 DEF a, m, all
  <1>9. CASE ~ (c \in Asking(p)' /\ c \notin Asking(p))
    <2>1. Asking(p)' \in SUBSET Asking(p)
      BY <1>3, <1>9
    <2>2. m <= n
      BY <1>1, <2>1, FS_Subset
    <2>3. CASE Spent'[p] = Spent[p]
      <3>1. Asking(p)' # {} => Asking(p) # {}
        BY <2>1
      <3> HIDE DEF n, m, all, a, q
      <3>2. CASE Spent[p] > 0 \/ Asking(p) # {}
        <4>1. a >= 1 /\ Spent[p] + m < a + all
          BY <1>1, <1>6, <1>7, <2>2, <3>2
        <4> QED BY <2>3, <4>1 DEF a, m, all
      <3> QED BY <2>3, <3>1, <3>2
    <2>4. CASE /\ search[c].at = "asking" /\ t.at = "done" /\ p = Provider(c)
               /\ Spent'[p] = Spent[p] + 1
      <3>1. c \in Asking(p) /\ Asking(p)' = Asking(p) \ {c}
        BY <1>3, <2>4 DEF Asking
      <3>2. m = n - 1
        BY <1>1, <3>1, FS_RemoveElement
      <3> HIDE DEF n, m, all, a, q
      <3>3. a >= 1 /\ Spent[p] + 1 + m < a + all
        BY <1>1, <1>6, <1>7, <3>1, <3>2
      <3> QED BY <2>4, <3>3 DEF a, m, all
    <2> QED BY <2>3, <2>4
  <1> QED BY <1>8, <1>9

LEMMA NextKeepsBudget == WebInv /\ BudgetKept /\ [WebNext]_searchVars => BudgetKept'
  <1> SUFFICES ASSUME WebInv, BudgetKept, WebStep PROVE BudgetKept'
    BY NextIsWebStep
  <1>0. now \in Nat /\ Today \in Nat
    BY DaysGoOn DEF WebInv, Today
  <1>1. ASSUME NEW c \in Calls, NEW t \in SearchState, Goes(c, t), UNCHANGED now,
               \/ /\ Asks(t) \/ /\ search[c].at = "asking"
                                /\ t.place = search[c].place
                                /\ Provider(c) \in Serial
                  /\ \/ UNCHANGED <<requests, day>>
                     \/ search[c].at = "asking" /\ Provider(c) \in Serial
                          /\ RecordRequest(Provider(c))
               \/ /\ search[c].at = "asking" /\ t.at = "done"
                  /\ RecordRequest(Provider(c))
        PROVE  BudgetKept'
    <2>1. search' = [search EXCEPT ![c] = t]
      BY <1>1 DEF Goes
    <2>2. /\ requests' \in [Budgeted -> Nat] /\ day' \in Nat /\ day' <= Today'
          /\ \A p \in Budgeted :
               \/ /\ Asks(t) \/ /\ search[c].at = "asking"
                                /\ t.place = search[c].place
                                /\ Provider(c) \in Serial
                  /\ Spent'[p] = Spent[p]
               \/ /\ search[c].at = "asking" /\ t.at = "done"
                  /\ Spent'[p] = IF p = Provider(c) THEN Spent[p] + 1 ELSE Spent[p]
      <3>1. CASE UNCHANGED <<requests, day>> /\ ~ RecordRequest(Provider(c))
        <4>1. Today' = Today /\ Spent' = Spent
          BY <1>1, <3>1 DEF Today, Spent
        <4>2. requests' \in [Budgeted -> Nat] /\ day' \in Nat /\ day' <= Today'
          BY <3>1, <4>1 DEF BudgetKept
        <4> QED BY <1>1, <3>1, <4>1, <4>2
      <3>2. CASE RecordRequest(Provider(c))
        <4>1. /\ requests' \in [Budgeted -> Nat] /\ day' \in Nat /\ day' <= Today'
              /\ \A p \in Budgeted :
                   Spent'[p] = IF p = Provider(c) THEN Spent[p] + 1 ELSE Spent[p]
          BY <1>0, <1>1, <3>2, RecordingCounts
        <4>2. Provider(c) \in Serial => \A p \in Budgeted : p # Provider(c)
          BY WebAssumption
        <4> HIDE DEF Serial
        <4>3. CASE search[c].at = "asking" /\ t.at = "done"
          BY <4>1, <4>3
        <4>4. CASE ~ (search[c].at = "asking" /\ t.at = "done")
          <5>1. /\ Asks(t) \/ /\ search[c].at = "asking"
                              /\ t.place = search[c].place
                              /\ Provider(c) \in Serial
                /\ UNCHANGED <<requests, day>> \/ Provider(c) \in Serial
            BY <1>1, <4>4
          <5>2. UNCHANGED <<requests, day>> => Spent' = Spent
            BY <1>1 DEF Today, Spent
          <5>3. \A p \in Budgeted : Spent'[p] = Spent[p]
            BY <4>1, <4>2, <5>1, <5>2
          <5> QED BY <4>1, <5>1, <5>3
        <4> QED BY <4>3, <4>4
      <3> QED BY <1>1, <3>1, <3>2
    <2>3. \A p \in Budgeted :
            Spent'[p] > 0 \/ Asking(p)' # {} =>
              /\ Allowance(p) >= 1
              /\ Spent'[p] + Cardinality(Asking(p)')
                   < Allowance(p) + Cardinality(Calls)
      BY <2>1, <2>2, StepKeepsBudget
    <2> QED BY <2>2, <2>3 DEF BudgetKept, Allowance, Reserve
  <1>2. CASE Restart
    <2>1. Today' = Today /\ Spent' = [p \in Budgeted |-> 0]
      BY <1>2 DEF Restart, Today, Spent
    <2>2. \A p \in Budgeted : Asking(p)' = {}
      BY <1>2 DEF Restart, Asking, Idle
    <2>3. requests' \in [Budgeted -> Nat] /\ day' \in Nat /\ day' <= Today'
      BY <1>0, <1>2, <2>1 DEF Restart
    <2> QED BY <2>1, <2>2, <2>3 DEF BudgetKept
  <1>3. CASE Tick \/ UNCHANGED <<now, search, kept, requests, day>>
    <2>1. UNCHANGED <<search, requests, day>> /\ Today' >= Today /\ Today' \in Nat
      <3>1. now' = now \/ now' = now + 1
        BY <1>3 DEF Tick
      <3>2. now' \in Nat /\ Today' = now' \div DayLength
        BY <1>0, <3>1 DEF Today
      <3> QED BY <1>0, <1>3, <3>1, <3>2, DaysGoOn DEF Tick, webVars, Today
    <2>2. \A p \in Budgeted : Asking(p)' = Asking(p)
      BY <2>1 DEF Asking, Provider
    <2>3. Spent' = Spent \/ Spent' = [p \in Budgeted |-> 0]
      <3>1. CASE day = Today'
        <4>1. day = Today
          BY <1>0, <2>1, <3>1 DEF BudgetKept
        <4> QED BY <2>1, <3>1, <4>1 DEF Spent
      <3>2. CASE day # Today'
        BY <2>1, <3>2 DEF Spent
      <3> QED BY <3>1, <3>2
    <2>4. ASSUME NEW p \in Budgeted, Spent'[p] > 0 \/ Asking(p)' # {}
          PROVE  /\ Allowance(p) >= 1
                 /\ Spent'[p] + Cardinality(Asking(p)')
                      < Allowance(p) + Cardinality(Calls)
      <3>1. Spent[p] > 0 \/ Asking(p) # {}
        BY <2>2, <2>3, <2>4
      <3>2. /\ Allowance(p) >= 1
            /\ Spent[p] + Cardinality(Asking(p)) < Allowance(p) + Cardinality(Calls)
        BY <3>1 DEF BudgetKept
      <3>3. Spent'[p] <= Spent[p] /\ Spent'[p] \in Nat
        BY <2>3, BudgetNumbers
      <3> QED BY <2>2, <3>2, <3>3, BudgetNumbers
    <2>5. requests' \in [Budgeted -> Nat] /\ day' \in Nat /\ day' <= Today'
      BY <1>0, <2>1 DEF BudgetKept
    <2> QED BY <2>4, <2>5 DEF BudgetKept, Allowance, Reserve
  <1> QED BY <1>1, <1>2, <1>3 DEF WebStep

LEMMA InitBudget == WebInit => BudgetKept
  <1> SUFFICES ASSUME WebInit PROVE BudgetKept
    OBVIOUS
  <1>1. Today \in Nat
    BY DaysGoOn DEF WebInit, Today
  <1>2. Spent = [p \in Budgeted |-> 0] /\ \A p \in Budgeted : Asking(p) = {}
    BY DEF WebInit, BudgetInit, Spent, Asking, Idle
  <1> QED BY <1>1, <1>2 DEF WebInit, BudgetInit, BudgetKept

(* What the processes of a day have counted together: this one its Spent,    *)
(* those before it a share each.                                             *)
DayKept ==
  /\ counted \in [Budgeted -> Nat] /\ lives \in Nat \ {0}
  /\ \A p \in Budgeted :
       counted[p] > 0 =>
         Allowance(p) >= 1 /\ counted[p] <= Spent[p] + (lives - 1) * Share(p)

LEMMA SharesAddUp ==
  ASSUME NEW n \in Nat, NEW share \in Nat
  PROVE  n * share + share = (n + 1) * share /\ n * share \in Nat
  OBVIOUS

(* Within a process what is spent of a day is at most a share.               *)
LEMMA SpentIsAShare ==
  ASSUME BudgetKept, NEW p \in Budgeted, Allowance(p) >= 1
  PROVE  Share(p) \in Nat /\ Spent[p] <= Share(p)
  <1>1. Share(p) = Allowance(p) + Cardinality(Calls) - 1
    BY BudgetNumbers DEF Share, Allowance
  <1>2. Spent[p] > 0 => Spent[p] < Allowance(p) + Cardinality(Calls)
    BY BudgetNumbers DEF BudgetKept
  <1> QED BY <1>1, <1>2, BudgetNumbers

LEMMA NextKeepsDay ==
  ASSUME WebInv, BudgetKept, DayKept, [WebNext]_searchVars
  PROVE  DayKept'
  <1>0. \A p \in Budgeted : Allowance(p)' = Allowance(p) /\ Share(p)' = Share(p)
    BY DEF Allowance, Share, Reserve
  <1>1. ASSUME UNCHANGED <<now, requests, day, counted, lives>> PROVE DayKept'
    BY <1>0, <1>1 DEF DayKept, Spent, Today
  <1>2. ASSUME NEW c \in Calls, search[c].at = "asking", NEW q, q = Provider(c),
               RecordRequest(q), UNCHANGED <<now, lives>>
        PROVE  DayKept'
    <2>1. CASE q \notin Budgeted
      BY <1>1, <1>2, <2>1 DEF RecordRequest
    <2>2. CASE q \in Budgeted
      <3>1. \A p \in Budgeted : Spent'[p] = IF p = q THEN Spent[p] + 1 ELSE Spent[p]
        BY <1>2, RecordingCounts DEF WebInv
      <3>2. counted' = [counted EXCEPT ![q] = @ + 1] /\ counted \in [Budgeted -> Nat]
        BY <1>2, <2>2 DEF RecordRequest, DayKept
      <3>3. /\ counted' \in [Budgeted -> Nat]
            /\ \A p \in Budgeted :
                 counted'[p] = IF p = q THEN counted[p] + 1 ELSE counted[p]
        BY <2>2, <3>2
      <3>4. c \in Asking(q)
        BY <1>2 DEF Asking
      <3>5. Allowance(q) >= 1
        BY <2>2, <3>4 DEF BudgetKept
      <3>6. ASSUME NEW p \in Budgeted, counted'[p] > 0
            PROVE  Allowance(p) >= 1 /\ counted'[p] <= Spent'[p] + (lives - 1) * Share(p)
        <4>1. CASE p # q
          BY <3>1, <3>3, <3>6, <4>1 DEF DayKept
        <4>2. CASE p = q
          <5>1. Share(q) \in Nat /\ Spent[q] \in Nat /\ lives - 1 \in Nat
            BY <2>2, <3>5, SpentIsAShare, BudgetNumbers DEF DayKept
          <5> DEFINE before == (lives - 1) * Share(q)
          <5>2. before \in Nat
            BY <5>1, SharesAddUp
          <5>3. counted[q] <= Spent[q] + before
            <6>1. CASE counted[q] > 0
              BY <2>2, <6>1 DEF DayKept
            <6>2. CASE counted[q] = 0
              <7> HIDE DEF before
              <7> QED BY <5>1, <5>2, <6>2
            <6> QED BY <6>1, <6>2, <2>2, <3>2
          <5>4. counted'[q] = counted[q] + 1 /\ Spent'[q] = Spent[q] + 1
                  /\ counted[q] \in Nat
            BY <2>2, <3>1, <3>2, <3>3
          <5>5. counted'[q] <= Spent'[q] + before
            <6> HIDE DEF before
            <6> QED BY <5>1, <5>2, <5>3, <5>4
          <5> QED BY <3>5, <4>2, <5>5
        <4> QED BY <4>1, <4>2
      <3> QED BY <1>0, <1>2, <3>3, <3>6 DEF DayKept
    <2> QED BY <2>1, <2>2
  <1>3. CASE Restart
    <2>1. /\ UNCHANGED <<now, counted>> /\ lives' = lives + 1
          /\ Spent' = [p \in Budgeted |-> 0]
      BY <1>3 DEF Restart, Spent, Today
    <2>2. ASSUME NEW p \in Budgeted, counted[p] > 0
          PROVE  Allowance(p) >= 1 /\ counted[p] <= 0 + (lives' - 1) * Share(p)
      <3>1. Allowance(p) >= 1 /\ counted[p] <= Spent[p] + (lives - 1) * Share(p)
        BY <2>2 DEF DayKept
      <3>2. /\ Share(p) \in Nat /\ Spent[p] \in Nat /\ Spent[p] <= Share(p)
            /\ lives \in Nat /\ lives - 1 \in Nat /\ counted[p] \in Nat
        BY <3>1, SpentIsAShare, BudgetNumbers DEF DayKept
      <3>3. /\ (lives - 1) * Share(p) + Share(p) = lives * Share(p)
            /\ (lives - 1) * Share(p) \in Nat
        <4>1. (lives - 1) + 1 = lives
          BY <3>2
        <4> QED BY <3>2, <4>1, SharesAddUp
      <3>4. lives' - 1 = lives
        BY <2>1, <3>2
      <3>5. counted[p] <= lives * Share(p)
        <4> DEFINE before == (lives - 1) * Share(p)
                   all == lives * Share(p)
        <4>1. before \in Nat /\ before + Share(p) = all /\ counted[p] <= Spent[p] + before
          BY <3>1, <3>3
        <4> HIDE DEF before, all
        <4>2. counted[p] <= all
          BY <3>2, <4>1
        <4> QED BY <4>2 DEF all
      <3>6. lives * Share(p) \in Nat
        BY <3>2, SharesAddUp DEF DayKept
      <3> QED BY <3>1, <3>4, <3>5, <3>6
    <2> QED BY <1>0, <2>1, <2>2 DEF DayKept
  <1>4. CASE Tick
    <2>1. CASE Today' = Today
      <3>1. UNCHANGED <<requests, day, counted, lives>>
        BY <1>4, <2>1 DEF Tick
      <3> QED BY <1>0, <2>1, <3>1 DEF DayKept, Spent
    <2>2. CASE Today' # Today
      BY <1>4, <2>2 DEF Tick, DayKept
    <2> QED BY <2>1, <2>2
  <1>5. ASSUME NEW c \in Calls, Reply(c) PROVE DayKept'
    BY <1>1, <1>2, <1>5 DEF Reply, Answer, Refuse, Fail
  <1>6. ASSUME NEW c \in Calls, NEW q \in Queries, SearchFor(c, q) PROVE DayKept'
    BY <1>1, <1>6 DEF SearchFor
  <1>7. CASE UNCHANGED searchVars
    BY <1>1, <1>7 DEF searchVars, webVars
  <1> QED BY <1>3, <1>4, <1>5, <1>6, <1>7 DEF WebNext

(* For any budgets, callers and chain, a process that looks at a provider's  *)
(* budget before each request and counts the request after it takes no more  *)
(* of a day than its share, and a day costs at most a share for every        *)
(* process it sees (canUseProvider, recordRequest; nothing calls load).      *)
THEOREM BudgetsAreHonoured == WebSpec => []BudgetHonoured
  <1>1. ASSUME BudgetKept, DayKept PROVE BudgetHonoured
    <2> SUFFICES ASSUME NEW p \in Budgeted, counted[p] > 0
                 PROVE  counted[p] <= lives * Share(p)
      BY DEF BudgetHonoured
    <2>1. Allowance(p) >= 1 /\ counted[p] <= Spent[p] + (lives - 1) * Share(p)
      BY <1>1 DEF DayKept
    <2>2. /\ Share(p) \in Nat /\ Spent[p] \in Nat /\ Spent[p] <= Share(p)
          /\ lives \in Nat /\ lives - 1 \in Nat /\ counted[p] \in Nat
      BY <1>1, <2>1, SpentIsAShare, BudgetNumbers DEF DayKept
    <2>3. /\ (lives - 1) * Share(p) + Share(p) = lives * Share(p)
          /\ (lives - 1) * Share(p) \in Nat
      <3>1. (lives - 1) + 1 = lives
        BY <2>2
      <3> QED BY <2>2, <3>1, SharesAddUp
    <2> DEFINE before == (lives - 1) * Share(p)
               all == lives * Share(p)
    <2>4. before \in Nat /\ before + Share(p) = all /\ counted[p] <= Spent[p] + before
      BY <2>1, <2>3
    <2> HIDE DEF before, all
    <2>5. counted[p] <= all
      BY <2>2, <2>4
    <2> QED BY <2>5 DEF all
  <1>2. WebInit => DayKept
    BY DEF WebInit, BudgetInit, DayKept
  <1> QED
    BY <1>1, <1>2, InitWebInv, NextKeepsWebInv, InitBudget, NextKeepsBudget, NextKeepsDay,
       PTL DEF WebSpec

-----------------------------------------------------------------------------
(* The catalogue by itself, and under the web discovery.                     *)

(* What is known of a product is earned, and well-formed.                   *)
Earned(row) ==
  /\ row \in Row
  /\ row.status \in {"unknown", "active"} => row.transient < Limit /\ row.gone < Limit
  /\ row.status = "suspected_removed" => row.transient >= Limit
  /\ row.status = "removed" => row.gone >= Limit

CatalogueInv == CatalogueTypeOK /\ StatusEarned

LEMMA EarnedRows ==
  /\ CatalogueInv <=> product \in [Products -> Row] /\ \A p \in Products : Earned(product[p])
  /\ CatalogueInv' <=> product' \in [Products -> Row] /\ \A p \in Products : Earned(product'[p])
  BY DEF CatalogueInv, CatalogueTypeOK, StatusEarned, Earned

(* A sighting, a miss and an absence leave a product's status earned.       *)
LEMMA RowsStayEarned ==
  ASSUME NEW row, Earned(row), NEW kind
  PROVE  Earned(Seen(row)) /\ Earned(AfterMiss(row, kind))
  <1>1. Earned(Seen(row))
    BY CatalogueAssumption DEF Earned, Seen, Row, Statuses
  <1>2. row.status # "unknown" => Earned(Missed(row))
    <2>0. /\ row \in Row /\ row.transient + 1 \in Nat
          /\ (IF row.transient + 1 >= Limit THEN "suspected_removed" ELSE row.status) \in Statuses
      BY DEF Earned, Row, Statuses
    <2>1. row \in Row /\ Missed(row) \in Row
      BY <2>0 DEF Missed, Row
    <2>2. /\ Missed(row).transient = row.transient + 1 /\ Missed(row).gone = row.gone
          /\ Missed(row).status =
               IF row.transient + 1 >= Limit THEN "suspected_removed" ELSE row.status
      BY <2>1 DEF Missed, Row
    <2> QED BY <2>1, <2>2, CatalogueAssumption DEF Earned, Row, Statuses
  <1>3. row.status # "unknown" => Earned(Gone(row))
    <2>0. /\ row \in Row /\ row.gone + 1 \in Nat
          /\ (IF row.gone + 1 >= Limit THEN "removed" ELSE row.status) \in Statuses
      BY DEF Earned, Row, Statuses
    <2>1. row \in Row /\ Gone(row) \in Row
      BY <2>0 DEF Gone, Row
    <2>2. /\ Gone(row).transient = row.transient /\ Gone(row).gone = row.gone + 1
          /\ Gone(row).status = IF row.gone + 1 >= Limit THEN "removed" ELSE row.status
      BY <2>1 DEF Gone, Row
    <2> QED BY <2>1, <2>2, CatalogueAssumption DEF Earned, Row, Statuses
  <1> QED BY <1>1, <1>2, <1>3 DEF AfterMiss

LEMMA InitCatalogueInv == CatalogueInit => CatalogueInv
  BY CatalogueAssumption
     DEF CatalogueInit, CatalogueInv, CatalogueTypeOK, StatusEarned, Row, Statuses

(* A batch of look-ups does too.                                            *)
LEMMA RecordKeeps ==
  ASSUME CatalogueInv, NEW seen, NEW missed, NEW kind, NEW reading, NEW within,
         Record(seen, missed, kind, reading, within)
  PROVE  CatalogueInv'
  <1>1. product' = [p \in Products |->
                      IF p \in seen THEN Seen(product[p])
                      ELSE IF p \in missed THEN AfterMiss(product[p], kind) ELSE product[p]]
    BY DEF Record
  <1>2. \A p \in Products : Earned(product'[p])
    BY <1>1, EarnedRows, RowsStayEarned
  <1> QED BY <1>1, <1>2, EarnedRows DEF Earned

LEMMA UnchangedCatalogue == CatalogueInv /\ UNCHANGED product => CatalogueInv'
  BY DEF CatalogueInv, CatalogueTypeOK, StatusEarned

LEMMA NextCatalogueInv == CatalogueInv /\ [CatalogueNext]_catalogueVars => CatalogueInv'
  <1> SUFFICES ASSUME CatalogueInv, [CatalogueNext]_catalogueVars PROVE CatalogueInv'
    OBVIOUS
  <1>1. ASSUME NEW p \in Products, NEW reading \in Readings, NEW within \in BOOLEAN,
               Upsert(p, reading, within)
        PROVE  CatalogueInv'
    BY <1>1, RecordKeeps DEF Upsert
  <1>2. ASSUME NEW p \in Products, NEW kind \in {"transient", "gone"},
               RecordHydrationFailure(p, kind)
        PROVE  CatalogueInv'
    <2>1. product' = [product EXCEPT ![p] = AfterMiss(@, kind)]
      BY <1>2 DEF RecordHydrationFailure
    <2>2. \A q \in Products : Earned(product'[q])
      BY <2>1, EarnedRows, RowsStayEarned
    <2> QED BY <2>1, <2>2, EarnedRows DEF Earned
  <1>3. CASE UNCHANGED catalogueVars
    BY <1>3, UnchangedCatalogue DEF catalogueVars
  <1> QED BY <1>1, <1>2, <1>3 DEF CatalogueNext

(* Whatever is recorded of whatever products, a status is earned.           *)
THEOREM CatalogueStatusesEarned == CatalogueSpec => [](CatalogueTypeOK /\ StatusEarned)
  BY InitCatalogueInv, NextCatalogueInv, PTL DEF CatalogueSpec, CatalogueInv

-----------------------------------------------------------------------------
(* The catalogue under the discoveries and look-ups of any callers.         *)

LEMMA NextKeepsCatalogue == CatalogueInv /\ [DiscoveryNext]_queryVars => CatalogueInv'
  <1> SUFFICES ASSUME CatalogueInv, [DiscoveryNext]_queryVars PROVE CatalogueInv'
    OBVIOUS
  <1>1. ASSUME NEW c \in Callers, NEW k \in Chains, Hydrate(c, k) PROVE CatalogueInv'
    BY <1>1, RecordKeeps, UnchangedCatalogue DEF Hydrate, Told, catalogueVars
  <1>2. ASSUME NEW c \in Callers, NEW k \in Chains, HydrateHits(c, k) PROVE CatalogueInv'
    BY <1>2, RecordKeeps, UnchangedCatalogue DEF HydrateHits, Told, catalogueVars
  <1>3. ASSUME NEW p \in Products, VendorSees(p) PROVE CatalogueInv'
    BY <1>3, RecordKeeps, UnchangedCatalogue DEF VendorSees, Upsert
  <1>4. ASSUME NEW l \in Lookers, LookedUp(l) PROVE CatalogueInv'
    BY <1>4, RecordKeeps, UnchangedCatalogue DEF LookedUp
  <1>5. ASSUME UNCHANGED catalogueVars PROVE CatalogueInv'
    BY <1>5, RecordKeeps, UnchangedCatalogue DEF catalogueVars
  <1>6. CASE UNCHANGED queryVars
    BY <1>6, <1>5 DEF queryVars
  <1>7. ASSUME NEW c \in Callers, Advance(c) \/ Hydrates(c) PROVE CatalogueInv'
    BY <1>1, <1>2, <1>5, <1>7 DEF Advance, Hydrates
  <1>8. ASSUME NEW k \in Chains, Age(k) PROVE CatalogueInv'
    BY <1>5, <1>8 DEF Age
  <1>9. ASSUME NEW l \in Lookers, LookUp(l) PROVE CatalogueInv'
    BY <1>5, <1>9 DEF LookUp
  <1> QED
    BY <1>3, <1>4, <1>5, <1>6, <1>7, <1>8, <1>9 DEF DiscoveryNext

(* Discoveries, vendor searches and look-ups of catalogue hits together call *)
(* no product removed, suspected or active that has not earned it.          *)
THEOREM DiscoveryStatusesEarned == DiscoverySpec => []StatusEarned
  <1>1. DiscoveryInit => CatalogueInv
    BY InitCatalogueInv DEF DiscoveryInit
  <1>2. CatalogueInv => StatusEarned
    BY DEF CatalogueInv
  <1> QED BY <1>1, <1>2, NextKeepsCatalogue, PTL DEF DiscoverySpec

-----------------------------------------------------------------------------
(* One discovery of a chain at a time.                                      *)

Mapping == [age : {"none", "usable", "fallback"}, ids : SUBSET Products]
Task == [at : {"idle", "hits", "waiting", "reading", "searching", "storing",
               "hydrating", "deleting", "done"},
         again : BOOLEAN, ids : SUBSET Products, old : Mapping, found : BOOLEAN]

Calm(t) == ~ Busy(t) /\ t.at # "waiting"

TypeOK ==
  /\ inFlight \in [Chains -> Callers \cup {"nobody"}]
  /\ caller \in [Callers -> [at : {"idle", "aggregating", "hits", "each"}, searches : Nat]]
  /\ task \in [Callers -> [Chains -> Task]]
  /\ mapping \in [Chains -> Mapping]

(* Who has not begun to search its chains is at none of them, and nobody is *)
(* ever at a chain it did not ask for: the strengthening that makes         *)
(* OneDiscoveryPerChain inductive.                                          *)
FlightInv ==
  /\ TypeOK
  /\ \A c \in Callers : caller[c].at \in {"idle", "aggregating"} =>
       \A k \in Chains : task[c][k].at = "idle"
  /\ \A c \in Callers : \A k \in Chains \ Wanted[c] : task[c][k].at = "idle"
  /\ OneDiscoveryPerChain

LEMMA InitFlightInv == DiscoveryInit => FlightInv
  <1> SUFFICES ASSUME DiscoveryInit PROVE FlightInv
    OBVIOUS
  <1>1. /\ inFlight = [k \in Chains |-> "nobody"]
        /\ caller = [c \in Callers |-> [at |-> "idle", searches |-> 0]]
        /\ task = [c \in Callers |-> [k \in Chains |-> NoTask]]
        /\ mapping = [k \in Chains |-> Unmapped]
    BY DEF DiscoveryInit
  <1>2. NoTask \in Task /\ Unmapped \in Mapping /\ NoTask.at = "idle" /\ ~ Busy(NoTask)
    BY DEF Task, Mapping, Unmapped, NoTask, Busy
  <1>3. TypeOK
    BY <1>1, <1>2 DEF TypeOK
  <1> QED
    BY <1>1, <1>2, <1>3, DiscoveryAssumption DEF FlightInv, OneDiscoveryPerChain

(* A caller's own state changes, and all its tasks at once.                 *)
LEMMA CallerMoves ==
  ASSUME TypeOK, NEW c \in Callers, NEW at \in {"idle", "aggregating", "hits", "each"},
         caller' = [caller EXCEPT ![c].at = at]
  PROVE  /\ caller' \in [Callers -> [at : {"idle", "aggregating", "hits", "each"}, searches : Nat]]
         /\ caller'[c].at = at
         /\ \A d \in Callers \ {c} : caller'[d] = caller[d]
  BY DEF TypeOK

LEMMA TasksMove ==
  ASSUME TypeOK, NEW c \in Callers, NEW tasks \in [Chains -> Task],
         task' = [task EXCEPT ![c] = tasks]
  PROVE  task' \in [Callers -> [Chains -> Task]]
  BY DEF TypeOK

(* One task takes a step from which it is as far from a discovery as before. *)
LEMMA CalmStep ==
  ASSUME FlightInv, NEW c \in Callers, NEW k \in Chains, NEW t \in Task,
         task' = [task EXCEPT ![c][k] = t],
         UNCHANGED <<caller, inFlight, mapping>>, k \in Wanted[c],
         caller[c].at \notin {"idle", "aggregating"},
         Busy(t) <=> Busy(task[c][k]), t.at = "waiting" <=> task[c][k].at = "waiting"
  PROVE  FlightInv'
  <1>1. /\ task'[c][k] = t
        /\ \A d \in Callers, h \in Chains : d # c \/ h # k => task'[d][h] = task[d][h]
    BY DEF FlightInv, TypeOK
  <1>2. TypeOK'
    BY DEF FlightInv, TypeOK
  <1>3. OneDiscoveryPerChain'
    BY <1>1 DEF FlightInv, OneDiscoveryPerChain, Busy
  <1> QED BY <1>1, <1>2, <1>3 DEF FlightInv

(* A task enters a discovery, its own or another's.                         *)
LEMMA Entering ==
  ASSUME NEW t \in Task, NEW k \in Chains, NEW c \in Callers, NEW again \in BOOLEAN
  PROVE  /\ Discovering(t, k, c, again) \in Task
         /\ inFlight[k] = "nobody" =>
              /\ Discovering(t, k, c, again).at = "reading"
              /\ Busy(Discovering(t, k, c, again))
         /\ inFlight[k] # "nobody" =>
              /\ Discovering(t, k, c, again).at = "waiting"
              /\ ~ Busy(Discovering(t, k, c, again))
  BY DEF Task, Discovering, Busy

(* A discovery lands: nobody is at the chain any more.                      *)
LEMMA LandKeeps ==
  ASSUME FlightInv, NEW c \in Callers, NEW k \in Chains, NEW ids \in SUBSET Products,
         Busy(task[c][k]), Land(c, k, ids), UNCHANGED caller,
         mapping' \in [Chains -> Mapping]
  PROVE  FlightInv'
  <1>1. \A t \in Task : Pursue(t, ids) \in Task /\ Calm(Pursue(t, ids))
    BY DEF Task, Pursue, Calm, Busy
  <1>2. task' = [d \in Callers |->
                   IF d = c \/ task[d][k].at = "waiting"
                     THEN [task[d] EXCEPT ![k] = Pursue(task[d][k], ids)] ELSE task[d]]
    BY DEF Land
  <1>3. /\ \A d \in Callers : d = c \/ task[d][k].at = "waiting" =>
             task'[d][k] = Pursue(task[d][k], ids)
        /\ \A d \in Callers : d # c /\ task[d][k].at # "waiting" =>
             task'[d][k] = task[d][k]
        /\ \A d \in Callers, h \in Chains : h # k => task'[d][h] = task[d][h]
    BY <1>2 DEF FlightInv, TypeOK
  <1>4. inFlight' = [inFlight EXCEPT ![k] = "nobody"] /\ inFlight[k] = c
    BY DEF Land, FlightInv, OneDiscoveryPerChain
  <1>5. TypeOK'
    BY <1>1, <1>2, <1>4 DEF FlightInv, TypeOK
  <1>6. OneDiscoveryPerChain'
    <2> SUFFICES ASSUME NEW h \in Chains, NEW d \in Callers
                 PROVE  /\ Busy(task'[d][h]) <=> inFlight'[h] = d
                        /\ task'[d][h].at = "waiting" => inFlight'[h] \in Callers
      BY DEF OneDiscoveryPerChain, Busy
    <2>1. CASE h = k
      <3>1. ASSUME d = c \/ task[d][k].at = "waiting" PROVE Calm(task'[d][k])
        <4>1. task[d][k] \in Task
          BY DEF FlightInv, TypeOK
        <4>2. Calm(Pursue(task[d][k], ids)) /\ task'[d][k] = Pursue(task[d][k], ids)
          BY <1>1, <1>3, <3>1, <4>1
        <4> QED BY <4>2
      <3>2. ASSUME d # c, task[d][k].at # "waiting" PROVE Calm(task'[d][k])
        <4>1. ~ Busy(task[d][k]) /\ task'[d][k] = task[d][k]
          BY <1>3, <1>4, <3>2 DEF FlightInv, OneDiscoveryPerChain
        <4> QED BY <3>2, <4>1 DEF Calm
      <3>3. Calm(task'[d][k])
        BY <3>1, <3>2
      <3> QED BY <2>1, <3>3, <1>4, DiscoveryAssumption DEF Calm, FlightInv, TypeOK
    <2>2. CASE h # k
      BY <2>2, <1>3, <1>4 DEF FlightInv, TypeOK, OneDiscoveryPerChain
    <2> QED BY <2>1, <2>2
  <1>7. \A d \in Callers : d = c \/ task[d][k].at = "waiting" =>
          caller[d].at \notin {"idle", "aggregating"} /\ k \in Wanted[d]
    BY DEF FlightInv, Busy
  <1> QED BY <1>3, <1>5, <1>6, <1>7 DEF FlightInv

(* A caller enters the discoveries of some of its chains.                   *)
LEMMA SearchingKeeps ==
  ASSUME FlightInv, NEW c \in Callers, NEW chains \in SUBSET Wanted[c],
         SearchChains(c, chains), UNCHANGED mapping,
         \A k \in Chains : Calm(task[c][k]),
         caller' \in [Callers -> [at : {"idle", "aggregating", "hits", "each"}, searches : Nat]],
         caller'[c].at = "each", \A d \in Callers \ {c} : caller'[d] = caller[d]
  PROVE  FlightInv'
  <1> DEFINE Enter(k) == Discovering(NoTask, k, c, FALSE)
  <1>0. NoTask \in Task /\ chains \subseteq Chains
    BY DiscoveryAssumption DEF NoTask, Task, Unmapped, Mapping
  <1>1. \A k \in Chains :
          /\ Enter(k) \in Task
          /\ inFlight[k] = "nobody" => Enter(k).at = "reading" /\ Busy(Enter(k))
          /\ inFlight[k] # "nobody" => Enter(k).at = "waiting" /\ ~ Busy(Enter(k))
    BY <1>0, Entering
  <1> HIDE DEF Enter
  <1>2. /\ task' = [task EXCEPT ![c] = [k \in Chains |->
                      IF k \in chains THEN Enter(k) ELSE task[c][k]]]
        /\ inFlight' = [k \in Chains |->
                          IF k \in chains THEN Flying(task'[c][k], k, c)[k] ELSE inFlight[k]]
    BY DEF SearchChains, FlightInv, TypeOK, Enter
  <1>3. /\ \A k \in Chains : task'[c][k] = IF k \in chains THEN Enter(k) ELSE task[c][k]
        /\ \A d \in Callers \ {c} : task'[d] = task[d]
    BY <1>2 DEF FlightInv, TypeOK
  <1>4. \A k \in Chains :
          inFlight'[k] = IF k \in chains /\ inFlight[k] = "nobody" THEN c ELSE inFlight[k]
    BY <1>1, <1>2, <1>3 DEF Flying, FlightInv, TypeOK
  <1>5. TypeOK'
    <2>1. task' \in [Callers -> [Chains -> Task]]
      BY <1>1, <1>2 DEF FlightInv, TypeOK
    <2>2. inFlight' \in [Chains -> Callers \cup {"nobody"}]
      BY <1>2, <1>4 DEF FlightInv, TypeOK
    <2> QED BY <2>1, <2>2 DEF FlightInv, TypeOK
  <1>6. OneDiscoveryPerChain'
    <2> SUFFICES ASSUME NEW h \in Chains, NEW d \in Callers
                 PROVE  /\ Busy(task'[d][h]) <=> inFlight'[h] = d
                        /\ task'[d][h].at = "waiting" => inFlight'[h] \in Callers
      BY DEF OneDiscoveryPerChain, Busy
    <2>1. Busy(task[d][h]) <=> inFlight[h] = d
      BY DEF FlightInv, OneDiscoveryPerChain
    <2>2. task[d][h].at = "waiting" => inFlight[h] \in Callers
      BY DEF FlightInv, OneDiscoveryPerChain
    <2>3. CASE d = c /\ h \in chains
      BY <2>3, <2>1, <1>1, <1>3, <1>4, DiscoveryAssumption DEF Calm, FlightInv, TypeOK, Busy
    <2>4. CASE d # c \/ h \notin chains
      <3>1. task'[d][h] = task[d][h]
        BY <2>4, <1>3
      <3> QED BY <3>1, <2>1, <2>2, <2>4, <1>4, DiscoveryAssumption DEF Calm
    <2> QED BY <2>3, <2>4
  <1> QED BY <1>0, <1>3, <1>5, <1>6 DEF FlightInv

(* Every step keeps at most one discovery of a chain.                       *)
LEMMA NextFlightInv == FlightInv /\ [DiscoveryNext]_queryVars => FlightInv'
  <1> SUFFICES ASSUME FlightInv, [DiscoveryNext]_queryVars PROVE FlightInv'
    OBVIOUS
  <1>1. ASSUME NEW c \in Callers, Start(c) PROVE FlightInv'
    <2>0. \A k \in Chains : task[c][k].at = "idle" /\ Calm(task[c][k])
      BY <1>1 DEF Start, FlightInv, Calm, Busy
    <2>1. CASE Composite /\ Cardinality(Wanted[c]) > 1
      <3>1. /\ caller' = [caller EXCEPT ![c] = [at |-> "aggregating",
                                               searches |-> caller[c].searches + 1]]
            /\ UNCHANGED <<task, inFlight, mapping>>
        BY <1>1, <2>1 DEF Start
      <3>2. TypeOK'
        BY <3>1 DEF FlightInv, TypeOK
      <3>3. \A d \in Callers \ {c} : caller'[d] = caller[d]
        BY <3>1 DEF FlightInv, TypeOK
      <3> QED BY <2>0, <3>1, <3>2, <3>3 DEF FlightInv, OneDiscoveryPerChain
    <2>2. CASE ~ (Composite /\ Cardinality(Wanted[c]) > 1)
      <3>1. /\ caller' = [caller EXCEPT ![c] = [at |-> "each", searches |-> caller[c].searches + 1]]
            /\ SearchChains(c, Wanted[c]) /\ UNCHANGED mapping
        BY <1>1, <2>2 DEF Start
      <3>2. /\ caller' \in [Callers -> [at : {"idle", "aggregating", "hits", "each"}, searches : Nat]]
            /\ caller'[c].at = "each" /\ \A d \in Callers \ {c} : caller'[d] = caller[d]
        BY <3>1 DEF FlightInv, TypeOK
      <3> QED BY <2>0, <3>1, <3>2, SearchingKeeps
    <2> QED BY <2>1, <2>2
  <1>2. ASSUME NEW c \in Callers, Aggregate(c) PROVE FlightInv'
    <2>1. PICK hits \in [Wanted[c] -> SUBSET Products] :
            task' = [task EXCEPT ![c] = [k \in Chains |-> IF k \notin Wanted[c] THEN NoTask ELSE
                      [NoTask EXCEPT !.at = IF hits[k] = {} THEN "done" ELSE "hits",
                                     !.ids = hits[k]]]]
      BY <1>2 DEF Aggregate
    <2>2. NoTask \in Task /\ NoTask.at = "idle"
      BY DEF NoTask, Task, Unmapped, Mapping
    <2> DEFINE Named(k) == [NoTask EXCEPT !.at = IF hits[k] = {} THEN "done" ELSE "hits",
                                          !.ids = hits[k]]
    <2>3. \A k \in Wanted[c] : Named(k) \in Task /\ Named(k).at \in {"done", "hits"}
      BY <2>2 DEF Task
    <2> HIDE DEF Named
    <2>4. task' = [task EXCEPT ![c] = [k \in Chains |->
                     IF k \notin Wanted[c] THEN NoTask ELSE Named(k)]]
      BY <2>1 DEF Named
    <2>5. /\ \A k \in Chains : task'[c][k] = IF k \notin Wanted[c] THEN NoTask ELSE Named(k)
          /\ \A d \in Callers \ {c} : task'[d] = task[d]
      BY <2>4 DEF FlightInv, TypeOK
    <2>6. caller' = [caller EXCEPT ![c].at = "hits"] /\ UNCHANGED <<inFlight, mapping>>
      BY <1>2 DEF Aggregate
    <2>7. TypeOK'
      <3>1. [k \in Chains |-> IF k \notin Wanted[c] THEN NoTask ELSE Named(k)]
              \in [Chains -> Task]
        BY <2>2, <2>3
      <3>2. task' \in [Callers -> [Chains -> Task]]
        BY <2>4, <3>1, TasksMove DEF FlightInv
      <3>3. caller' \in [Callers -> [at : {"idle", "aggregating", "hits", "each"}, searches : Nat]]
        BY <2>6, CallerMoves DEF FlightInv
      <3> QED BY <3>2, <3>3, <2>6 DEF FlightInv, TypeOK
    <2>8. \A k \in Chains : ~ Busy(task[c][k])
      BY <1>2 DEF Aggregate, FlightInv, Busy
    <2>9. OneDiscoveryPerChain'
      BY <2>2, <2>3, <2>5, <2>6, <2>8 DEF FlightInv, OneDiscoveryPerChain, Busy
    <2>10. caller'[c].at = "hits" /\ \A d \in Callers \ {c} : caller'[d] = caller[d]
      BY <2>6 DEF FlightInv, TypeOK
    <2>11. \A d \in Callers : caller'[d].at \in {"idle", "aggregating"} =>
             \A k \in Chains : task'[d][k].at = "idle"
      BY <2>5, <2>10 DEF FlightInv
    <2>12. \A d \in Callers : \A k \in Chains \ Wanted[d] : task'[d][k].at = "idle"
      BY <2>2, <2>5 DEF FlightInv
    <2> QED BY <2>7, <2>9, <2>11, <2>12 DEF FlightInv
  <1>3. ASSUME NEW c \in Callers, SearchMissing(c) PROVE FlightInv'
    <2>1. \A k \in Chains : Calm(task[c][k])
      BY <1>3 DEF SearchMissing, AllDone, FlightInv, Calm, Busy
    <2>2. /\ caller' = [caller EXCEPT ![c].at = "each"] /\ UNCHANGED mapping
          /\ SearchChains(c, {k \in Wanted[c] : ~ task[c][k].found})
      BY <1>3 DEF SearchMissing
    <2>3. /\ caller' \in [Callers -> [at : {"idle", "aggregating", "hits", "each"}, searches : Nat]]
          /\ caller'[c].at = "each" /\ \A d \in Callers \ {c} : caller'[d] = caller[d]
      BY <2>2, CallerMoves DEF FlightInv
    <2> QED BY <2>1, <2>2, <2>3, SearchingKeeps
  <1>4. ASSUME NEW c \in Callers, Finish(c) PROVE FlightInv'
    <2>1. \A k \in Chains : ~ Busy(task[c][k])
      BY <1>4 DEF Finish, AllDone, FlightInv, Busy
    <2>2. NoTask \in Task /\ NoTask.at = "idle"
      BY DEF NoTask, Task, Unmapped, Mapping
    <2>3. /\ caller' = [caller EXCEPT ![c].at = "idle"] /\ UNCHANGED <<inFlight, mapping>>
          /\ task' = [task EXCEPT ![c] = [k \in Chains |-> NoTask]]
      BY <1>4 DEF Finish
    <2>4. TypeOK'
      <3>1. [k \in Chains |-> NoTask] \in [Chains -> Task]
        BY <2>2
      <3>2. task' \in [Callers -> [Chains -> Task]]
        BY <2>3, <3>1, TasksMove DEF FlightInv
      <3>3. caller' \in [Callers -> [at : {"idle", "aggregating", "hits", "each"}, searches : Nat]]
        BY <2>3, CallerMoves DEF FlightInv
      <3> QED BY <2>3, <3>2, <3>3 DEF FlightInv, TypeOK
    <2>5. /\ \A k \in Chains : task'[c][k] = NoTask
          /\ \A d \in Callers \ {c} : task'[d] = task[d]
      BY <2>3 DEF FlightInv, TypeOK
    <2>6. OneDiscoveryPerChain'
      BY <2>1, <2>2, <2>3, <2>5 DEF FlightInv, OneDiscoveryPerChain, Busy
    <2>7. \A d \in Callers \ {c} : caller'[d] = caller[d]
      BY <2>3 DEF FlightInv, TypeOK
    <2>8. \A d \in Callers : caller'[d].at \in {"idle", "aggregating"} =>
            \A k \in Chains : task'[d][k].at = "idle"
      BY <2>2, <2>5, <2>7 DEF FlightInv
    <2>9. \A d \in Callers : \A k \in Chains \ Wanted[d] : task'[d][k].at = "idle"
      BY <2>2, <2>5 DEF FlightInv
    <2> QED BY <2>4, <2>6, <2>8, <2>9 DEF FlightInv
  <1>5. ASSUME NEW c \in Callers, NEW k \in Chains, ReadMapping(c, k) PROVE FlightInv'
    <2>1. Busy(task[c][k]) /\ UNCHANGED <<caller, mapping>>
      BY <1>5 DEF ReadMapping, Busy
    <2>2. CASE mapping[k].age = "usable" /\ Land(c, k, mapping[k].ids)
      BY <2>1, <2>2, LandKeeps DEF FlightInv, TypeOK, Mapping
    <2>4. CASE Land(c, k, {})
      BY <2>1, <2>4, LandKeeps DEF FlightInv, TypeOK
    <2>3. CASE /\ task' = [task EXCEPT ![c][k].at = "searching", ![c][k].old = mapping[k]]
               /\ UNCHANGED inFlight
      <3> DEFINE t == [task[c][k] EXCEPT !.at = "searching", !.old = mapping[k]]
      <3>0. task[c][k] \in Task /\ mapping[k] \in Mapping /\ task[c][k].at = "reading"
        BY <1>5 DEF FlightInv, TypeOK, ReadMapping
      <3>1. t \in Task /\ t.at = "searching" /\ task[c][k].at = "reading"
        BY <3>0 DEF Task
      <3>2. task' = [task EXCEPT ![c][k] = t]
        BY <2>3 DEF FlightInv, TypeOK
      <3>3. k \in Wanted[c] /\ caller[c].at \notin {"idle", "aggregating"}
        BY <3>1 DEF FlightInv
      <3> HIDE DEF t
      <3> QED BY <2>1, <2>3, <3>1, <3>2, <3>3, CalmStep DEF Busy
    <2> QED BY <1>5, <2>2, <2>3, <2>4 DEF ReadMapping
  <1>6. ASSUME NEW c \in Callers, NEW k \in Chains, SearchTheWeb(c, k) PROVE FlightInv'
    <2>1. Busy(task[c][k]) /\ UNCHANGED <<caller, mapping>> /\ task[c][k] \in Task
      BY <1>6 DEF SearchTheWeb, Busy, FlightInv, TypeOK
    <2>2. CASE Land(c, k, task[c][k].old.ids)
      <3>1. task[c][k].old.ids \in SUBSET Products
        BY <2>1 DEF Task, Mapping
      <3> QED BY <2>1, <2>2, <3>1, LandKeeps DEF FlightInv, TypeOK
    <2>3. ASSUME NEW ids \in Finds(k), UNCHANGED inFlight,
                 task' = [task EXCEPT ![c][k].at = "storing", ![c][k].ids = ids]
          PROVE  FlightInv'
      <3> DEFINE t == [task[c][k] EXCEPT !.at = "storing", !.ids = ids]
      <3>0. ids \in SUBSET Products
        BY DEF Finds, PagesOf
      <3>1. t \in Task /\ t.at = "storing" /\ task[c][k].at = "searching"
        BY <1>6, <2>1, <3>0 DEF Task, SearchTheWeb
      <3>2. task' = [task EXCEPT ![c][k] = t]
        BY <2>3 DEF FlightInv, TypeOK
      <3>3. k \in Wanted[c] /\ caller[c].at \notin {"idle", "aggregating"}
        BY <3>1 DEF FlightInv
      <3> HIDE DEF t
      <3> QED BY <2>1, <2>3, <3>1, <3>2, <3>3, CalmStep DEF Busy
    <2> QED BY <1>6, <2>2, <2>3 DEF SearchTheWeb
  <1>7. ASSUME NEW c \in Callers, NEW k \in Chains, StoreMapping(c, k) PROVE FlightInv'
    <2>1. Busy(task[c][k]) /\ UNCHANGED caller /\ task[c][k].ids \in SUBSET Products
      BY <1>7 DEF StoreMapping, Busy, FlightInv, TypeOK, Task
    <2>2. mapping' \in [Chains -> Mapping]
      <3>1. [age |-> "usable", ids |-> task[c][k].ids] \in Mapping
        BY <2>1 DEF Mapping
      <3> QED BY <1>7, <3>1 DEF StoreMapping, FlightInv, TypeOK
    <2> QED BY <1>7, <2>1, <2>2, LandKeeps DEF StoreMapping
  <1>8. ASSUME NEW c \in Callers, NEW k \in Chains, Hydrate(c, k) PROVE FlightInv'
    <2>1. PICK at \in {"done", "deleting"}, found \in BOOLEAN :
            task' = [task EXCEPT ![c][k] = [@ EXCEPT !.at = at, !.found = found]]
      BY <1>8 DEF Hydrate
    <2> DEFINE t == [task[c][k] EXCEPT !.at = at, !.found = found]
    <2>0. task[c][k] \in Task /\ task[c][k].at = "hydrating"
      <3>1. task[c][k].at = "hydrating"
        BY <1>8, Zenon DEF Hydrate
      <3> QED BY <3>1 DEF FlightInv, TypeOK
    <2>2. t \in Task /\ t.at = at /\ task[c][k].at = "hydrating"
      BY <2>0 DEF Task
    <2>3. task' = [task EXCEPT ![c][k] = t] /\ UNCHANGED <<caller, inFlight, mapping>>
      BY <1>8, <2>1 DEF FlightInv, TypeOK, Hydrate
    <2>4. k \in Wanted[c] /\ caller[c].at \notin {"idle", "aggregating"}
      BY <2>2 DEF FlightInv
    <2> HIDE DEF t
    <2> QED BY <2>2, <2>3, <2>4, CalmStep DEF Busy
  <1>9. ASSUME NEW c \in Callers, NEW k \in Chains, HydrateHits(c, k) PROVE FlightInv'
    <2>1. PICK found \in BOOLEAN :
            task' = [task EXCEPT ![c][k] = [@ EXCEPT !.at = "done", !.found = found]]
      BY <1>9 DEF HydrateHits
    <2> DEFINE t == [task[c][k] EXCEPT !.at = "done", !.found = found]
    <2>0. task[c][k] \in Task /\ task[c][k].at = "hits"
      <3>1. task[c][k].at = "hits"
        BY <1>9, Zenon DEF HydrateHits
      <3> QED BY <3>1 DEF FlightInv, TypeOK
    <2>2. t \in Task /\ t.at = "done" /\ task[c][k].at = "hits"
      BY <2>0 DEF Task
    <2>3. task' = [task EXCEPT ![c][k] = t] /\ UNCHANGED <<caller, inFlight, mapping>>
      BY <1>9, <2>1 DEF FlightInv, TypeOK, HydrateHits
    <2>4. k \in Wanted[c] /\ caller[c].at \notin {"idle", "aggregating"}
      BY <2>2 DEF FlightInv
    <2> HIDE DEF t
    <2> QED BY <2>2, <2>3, <2>4, CalmStep DEF Busy
  <1>10. ASSUME NEW c \in Callers, NEW k \in Chains, Rediscover(c, k) PROVE FlightInv'
    <2> DEFINE t == Discovering(task[c][k], k, c, TRUE)
    <2>1. /\ task[c][k].at = "deleting" /\ task[c][k] \in Task
          /\ mapping' = [mapping EXCEPT ![k] = Unmapped] /\ UNCHANGED caller
          /\ task' = [task EXCEPT ![c][k] = t] /\ inFlight' = Flying(t, k, c)
      BY <1>10 DEF Rediscover, FlightInv, TypeOK
    <2>2. /\ t \in Task
          /\ inFlight[k] = "nobody" => t.at = "reading" /\ Busy(t)
          /\ inFlight[k] # "nobody" => t.at = "waiting" /\ ~ Busy(t)
      BY <2>1, Entering
    <2> HIDE DEF t
    <2>3. /\ task'[c][k] = t
          /\ \A d \in Callers, h \in Chains : d # c \/ h # k => task'[d][h] = task[d][h]
      BY <2>1 DEF FlightInv, TypeOK
    <2>4. inFlight' = IF inFlight[k] = "nobody" THEN [inFlight EXCEPT ![k] = c] ELSE inFlight
      BY <2>1, <2>2 DEF Flying
    <2>5. TypeOK'
      BY <2>1, <2>2, <2>4 DEF FlightInv, TypeOK, Unmapped, Mapping
    <2>6. OneDiscoveryPerChain'
      <3> SUFFICES ASSUME NEW h \in Chains, NEW d \in Callers
                   PROVE  /\ Busy(task'[d][h]) <=> inFlight'[h] = d
                          /\ task'[d][h].at = "waiting" => inFlight'[h] \in Callers
        BY DEF OneDiscoveryPerChain, Busy
      <3>1. /\ Busy(task[d][h]) <=> inFlight[h] = d
            /\ task[d][h].at = "waiting" => inFlight[h] \in Callers
        BY DEF FlightInv, OneDiscoveryPerChain
      <3>2. CASE d = c /\ h = k
        BY <3>1, <3>2, <2>1, <2>2, <2>3, <2>4, DiscoveryAssumption DEF FlightInv, TypeOK, Busy
      <3>3. CASE d # c \/ h # k
        <4>1. task'[d][h] = task[d][h]
          BY <3>3, <2>3
        <4> QED BY <4>1, <3>1, <3>3, <2>4, DiscoveryAssumption DEF FlightInv, TypeOK
      <3> QED BY <3>2, <3>3
    <2>7. k \in Wanted[c] /\ caller[c].at \notin {"idle", "aggregating"}
      BY <2>1 DEF FlightInv
    <2> QED BY <2>1, <2>3, <2>5, <2>6, <2>7 DEF FlightInv
  <1>11. ASSUME NEW k \in Chains, Age(k) PROVE FlightInv'
    <2>1. mapping' \in [Chains -> Mapping]
      BY <1>11 DEF Age, FlightInv, TypeOK, Mapping, Unmapped
    <2> QED BY <1>11, <2>1 DEF Age, FlightInv, TypeOK, OneDiscoveryPerChain
  <1>12. ASSUME UNCHANGED <<caller, task, inFlight, mapping>> PROVE FlightInv'
    BY <1>12 DEF FlightInv, TypeOK, OneDiscoveryPerChain
  <1>13. CASE UNCHANGED queryVars
    BY <1>12, <1>13 DEF queryVars, discoveryVars
  <1> QED
    BY <1>1, <1>2, <1>3, <1>4, <1>5, <1>6, <1>7, <1>8, <1>9, <1>10, <1>11, <1>12, <1>13
       DEF DiscoveryNext, Advance, Hydrates, VendorSees, LookUp, LookedUp, discoveryVars

(* However many callers meet, a chain's pages are read, searched for and     *)
(* written by one of them at a time.                                        *)
THEOREM DiscoveriesAreShared == DiscoverySpec => []OneDiscoveryPerChain
  <1>1. FlightInv => OneDiscoveryPerChain
    BY DEF FlightInv
  <1> QED BY <1>1, InitFlightInv, NextFlightInv, PTL DEF DiscoverySpec

-----------------------------------------------------------------------------
(* A mapping is rediscovered once in a cycle.                               *)

Deleting(c, k) == task[c][k].at = "deleting"

(* Who is about to rediscover a chain is the only one, and the first: what   *)
(* the count of rediscoveries cannot say before the mapping is deleted.      *)
RediscoveryInv ==
  /\ rediscoveries \in [Chains -> Nat]
  /\ \A k \in Chains :
       /\ rediscoveries[k] <= 1
       /\ k \notin rediscoveryDone =>
            rediscoveries[k] = 0 /\ \A c \in Callers : ~ Deleting(c, k)
       /\ rediscoveries[k] = 1 => \A c \in Callers : ~ Deleting(c, k)
       /\ \A c, d \in Callers : Deleting(c, k) /\ Deleting(d, k) => c = d

LEMMA InitRediscoveryInv == DiscoveryInit => RediscoveryInv
  <1> SUFFICES ASSUME DiscoveryInit PROVE RediscoveryInv
    OBVIOUS
  <1>1. /\ task = [c \in Callers |-> [k \in Chains |-> NoTask]]
        /\ rediscoveries = [k \in Chains |-> 0]
    BY DEF DiscoveryInit
  <1>2. NoTask.at # "deleting"
    BY DEF NoTask
  <1> QED BY <1>1, <1>2 DEF RediscoveryInv, Deleting

(* Nobody comes to delete a mapping, and none is deleted.                    *)
Quiet ==
  /\ UNCHANGED <<rediscoveryDone, rediscoveries>>
  /\ \A c \in Callers, k \in Chains : Deleting(c, k)' => Deleting(c, k)

LEMMA QuietKeeps == RediscoveryInv /\ Quiet => RediscoveryInv'
  BY DEF RediscoveryInv, Quiet

LEMMA NextRediscoveryInv == FlightInv /\ RediscoveryInv /\ [DiscoveryNext]_queryVars => RediscoveryInv'
  <1> SUFFICES ASSUME FlightInv, RediscoveryInv, [DiscoveryNext]_queryVars PROVE RediscoveryInv'
    OBVIOUS
  <1>a. task \in [Callers -> [Chains -> Task]]
    BY DEF FlightInv, TypeOK
  <1>b. ASSUME NEW c \in Callers, NEW k \in Chains, NEW ids, Land(c, k, ids)
        PROVE  \A d \in Callers, h \in Chains : Deleting(d, h)' => Deleting(d, h)
    <2>1. \A t \in Task : Pursue(t, ids).at # "deleting"
      BY DEF Task, Pursue
    <2>2. task' = [d \in Callers |->
                     IF d = c \/ task[d][k].at = "waiting"
                       THEN [task[d] EXCEPT ![k] = Pursue(task[d][k], ids)] ELSE task[d]]
      BY <1>b DEF Land
    <2> QED BY <1>a, <2>1, <2>2 DEF Deleting
  <1>c. ASSUME NEW c \in Callers, NEW chains \in SUBSET Chains, SearchChains(c, chains)
        PROVE  \A d \in Callers, h \in Chains : Deleting(d, h)' => Deleting(d, h)
    <2>1. NoTask \in Task
      BY DEF NoTask, Task, Unmapped, Mapping
    <2>2. \A h \in Chains : Discovering(NoTask, h, c, FALSE).at # "deleting"
      BY <2>1, Entering
    <2>3. task' = [task EXCEPT ![c] = [h \in Chains |->
                     IF h \in chains THEN Discovering(NoTask, h, c, FALSE) ELSE task[c][h]]]
      BY <1>a, <1>c DEF SearchChains
    <2> QED BY <1>a, <2>2, <2>3 DEF Deleting
  <1>d. ASSUME NEW c \in Callers, NEW k \in Chains, NEW t \in Task, t.at # "deleting",
               task' = [task EXCEPT ![c][k] = t]
        PROVE  \A d \in Callers, h \in Chains : Deleting(d, h)' => Deleting(d, h)
    BY <1>a, <1>d DEF Deleting
  <1>1. ASSUME NEW c \in Callers, Start(c) PROVE Quiet
    <2>1. Wanted[c] \subseteq Chains
      BY DiscoveryAssumption
    <2> QED BY <1>1, <2>1, <1>c DEF Start, Quiet, Deleting
  <1>2. ASSUME NEW c \in Callers, Aggregate(c) PROVE Quiet
    <2>1. PICK hits \in [Wanted[c] -> SUBSET Products] :
            task' = [task EXCEPT ![c] = [k \in Chains |-> IF k \notin Wanted[c] THEN NoTask ELSE
                      [NoTask EXCEPT !.at = IF hits[k] = {} THEN "done" ELSE "hits",
                                     !.ids = hits[k]]]]
      BY <1>2 DEF Aggregate
    <2>2. NoTask \in Task /\ NoTask.at # "deleting"
      BY DEF NoTask, Task, Unmapped, Mapping
    <2>3. \A k \in Wanted[c] :
            [NoTask EXCEPT !.at = IF hits[k] = {} THEN "done" ELSE "hits",
                           !.ids = hits[k]].at # "deleting"
      BY <2>2 DEF Task
    <2>4. \A d \in Callers, h \in Chains : Deleting(d, h)' => Deleting(d, h)
      BY <1>a, <2>1, <2>2, <2>3 DEF Deleting
    <2> QED BY <1>2, <2>4 DEF Aggregate, Quiet
  <1>3. ASSUME NEW c \in Callers, SearchMissing(c) PROVE Quiet
    <2>1. {k \in Wanted[c] : ~ task[c][k].found} \subseteq Chains
      BY DiscoveryAssumption
    <2> QED BY <1>3, <2>1, <1>c DEF SearchMissing, Quiet
  <1>4. ASSUME NEW c \in Callers, Finish(c) PROVE Quiet
    <2>1. NoTask.at # "deleting"
      BY DEF NoTask
    <2>2. task' = [task EXCEPT ![c] = [k \in Chains |-> NoTask]]
      BY <1>4 DEF Finish
    <2> QED BY <1>4, <1>a, <2>1, <2>2 DEF Finish, Quiet, Deleting
  <1>5. ASSUME NEW c \in Callers, NEW k \in Chains, ReadMapping(c, k) PROVE Quiet
    <2>1. ASSUME NEW ids, Land(c, k, ids) PROVE Quiet
      BY <1>5, <1>b, <2>1 DEF ReadMapping, Quiet
    <2>2. CASE task' = [task EXCEPT ![c][k].at = "searching", ![c][k].old = mapping[k]]
      <3> DEFINE t == [task[c][k] EXCEPT !.at = "searching", !.old = mapping[k]]
      <3>0. task[c][k] \in Task /\ mapping[k] \in Mapping
        BY DEF FlightInv, TypeOK
      <3>1. t \in Task /\ t.at # "deleting"
        BY <3>0 DEF Task
      <3>2. task' = [task EXCEPT ![c][k] = t]
        BY <2>2, <1>a
      <3> HIDE DEF t
      <3> QED BY <1>5, <1>d, <3>1, <3>2 DEF ReadMapping, Quiet
    <2> QED BY <1>5, <2>1, <2>2 DEF ReadMapping
  <1>6. ASSUME NEW c \in Callers, NEW k \in Chains, SearchTheWeb(c, k) PROVE Quiet
    <2>1. CASE Land(c, k, task[c][k].old.ids)
      BY <1>6, <1>b, <2>1 DEF SearchTheWeb, Quiet
    <2>2. ASSUME NEW ids \in Finds(k),
                 task' = [task EXCEPT ![c][k].at = "storing", ![c][k].ids = ids]
          PROVE  Quiet
      <3> DEFINE t == [task[c][k] EXCEPT !.at = "storing", !.ids = ids]
      <3>0. task[c][k] \in Task /\ ids \in SUBSET Products
        BY <1>a DEF Finds, PagesOf
      <3>1. t \in Task /\ t.at # "deleting"
        BY <3>0 DEF Task
      <3>2. task' = [task EXCEPT ![c][k] = t]
        BY <2>2, <1>a
      <3> HIDE DEF t
      <3> QED BY <1>6, <1>d, <3>1, <3>2 DEF SearchTheWeb, Quiet
    <2> QED BY <1>6, <2>1, <2>2 DEF SearchTheWeb
  <1>7. ASSUME NEW c \in Callers, NEW k \in Chains, StoreMapping(c, k) PROVE Quiet
    BY <1>7, <1>b DEF StoreMapping, Quiet
  <1>8. ASSUME NEW c \in Callers, NEW k \in Chains, Hydrate(c, k) PROVE RediscoveryInv'
    <2>0. UNCHANGED rediscoveries
      BY <1>8 DEF Hydrate
    <2>1. CASE /\ k \notin rediscoveryDone /\ rediscoveryDone' = rediscoveryDone \cup {k}
               /\ \E found \in BOOLEAN : task' =
                    [task EXCEPT ![c][k] = [@ EXCEPT !.at = "deleting", !.found = found]]
      <3>1. \A d \in Callers, h \in Chains : d # c \/ h # k => task'[d][h] = task[d][h]
        BY <2>1, <1>a
      <3> QED BY <2>0, <2>1, <3>1 DEF RediscoveryInv, Deleting
    <2>2. ASSUME UNCHANGED rediscoveryDone, NEW found \in BOOLEAN,
                 task' = [task EXCEPT ![c][k] = [task[c][k] EXCEPT !.at = "done", !.found = found]]
          PROVE  RediscoveryInv'
      <3> DEFINE t == [task[c][k] EXCEPT !.at = "done", !.found = found]
      <3>0. task[c][k] \in Task
        BY <1>a
      <3>1. t \in Task /\ t.at # "deleting"
        BY <3>0 DEF Task
      <3>2. task' = [task EXCEPT ![c][k] = t]
        BY <2>2
      <3> HIDE DEF t
      <3> QED BY <2>0, <2>2, <1>d, <3>1, <3>2, QuietKeeps DEF Quiet
    <2>3. \/ /\ k \notin rediscoveryDone /\ rediscoveryDone' = rediscoveryDone \cup {k}
             /\ \E found \in BOOLEAN : task' =
                  [task EXCEPT ![c][k] = [@ EXCEPT !.at = "deleting", !.found = found]]
          \/ /\ UNCHANGED rediscoveryDone
             /\ \E found \in BOOLEAN : task' =
                  [task EXCEPT ![c][k] = [@ EXCEPT !.at = "done", !.found = found]]
      BY <1>8 DEF Hydrate, Poor
    <2> QED BY <2>1, <2>2, <2>3
  <1>9. ASSUME NEW c \in Callers, NEW k \in Chains, HydrateHits(c, k) PROVE Quiet
    <2>1. PICK found \in BOOLEAN :
            task' = [task EXCEPT ![c][k] = [@ EXCEPT !.at = "done", !.found = found]]
      BY <1>9 DEF HydrateHits
    <2> DEFINE t == [task[c][k] EXCEPT !.at = "done", !.found = found]
    <2>0. task[c][k] \in Task
      BY <1>a
    <2>2. t \in Task /\ t.at # "deleting"
      BY <2>0 DEF Task
    <2>3. task' = [task EXCEPT ![c][k] = t] /\ UNCHANGED <<rediscoveryDone, rediscoveries>>
      BY <1>9, <2>1, <1>a DEF HydrateHits
    <2> HIDE DEF t
    <2> QED BY <2>2, <2>3, <1>d DEF Quiet
  <1>10. ASSUME NEW c \in Callers, NEW k \in Chains, Rediscover(c, k)
         PROVE  RediscoveryInv'
    <2> DEFINE t == Discovering(task[c][k], k, c, TRUE)
    <2>1. /\ Deleting(c, k) /\ rediscoveries' = [rediscoveries EXCEPT ![k] = @ + 1]
          /\ task' = [task EXCEPT ![c][k] = t] /\ UNCHANGED rediscoveryDone
      BY <1>10 DEF Rediscover, Deleting
    <2>2. t.at # "deleting"
      BY <1>a, Entering
    <2> HIDE DEF t
    <2>3. /\ ~ Deleting(c, k)'
          /\ \A d \in Callers, h \in Chains : Deleting(d, h)' => Deleting(d, h)
      BY <1>a, <2>1, <2>2 DEF Deleting
    <2>4. rediscoveries[k] = 0
      BY <2>1 DEF RediscoveryInv
    <2> QED BY <2>1, <2>3, <2>4 DEF RediscoveryInv
  <1>11. ASSUME UNCHANGED <<task, rediscoveryDone, rediscoveries>> PROVE Quiet
    BY <1>11 DEF Quiet, Deleting
  <1>13. ASSUME NEW k \in Chains, Age(k) PROVE RediscoveryInv'
    <2>1. /\ rediscoveries' = [rediscoveries EXCEPT ![k] = 0]
          /\ UNCHANGED <<task, rediscoveryDone>>
      BY <1>13 DEF Age
    <2> QED BY <2>1 DEF RediscoveryInv, Deleting
  <1>12. CASE UNCHANGED queryVars
    BY <1>11, <1>12, QuietKeeps DEF queryVars, discoveryVars
  <1> QED
    BY <1>1, <1>2, <1>3, <1>4, <1>5, <1>6, <1>7, <1>8, <1>9, <1>10, <1>11, <1>12, <1>13,
       QuietKeeps
       DEF DiscoveryNext, Advance, Hydrates, VendorSees, LookUp, LookedUp, discoveryVars

(* However many searches find the pages of a chain poor together, the mapping *)
(* is deleted and found anew once in a cycle.                               *)
THEOREM RediscoveriesAreSingle == DiscoverySpec => []RediscoveredOnce
  <1>1. RediscoveryInv => RediscoveredOnce
    BY DEF RediscoveryInv, RediscoveredOnce
  <1> QED
    BY <1>1, InitFlightInv, NextFlightInv, InitRediscoveryInv, NextRediscoveryInv, PTL DEF DiscoverySpec

=============================================================================
