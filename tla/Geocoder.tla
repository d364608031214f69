------------------------------ MODULE Geocoder ------------------------------
(***************************************************************************)
(* The geocoding of util/geo.ts: the stages in which a text is looked up   *)
(* at the federal gazetteer, then among the points of interest of          *)
(* OpenStreetMap, then in the table the program carries, with the caches   *)
(* of what was found, and the suggestions made while a shopper types.      *)
(*                                                                         *)
(* OpenStreetMap allows a request per interval.  Look-ups stand in line    *)
(* for it; suggestions go at once or not at all, past the line.            *)
(***************************************************************************)
EXTENDS Integers, Sequences

CONSTANTS
  Lookups,     \* calls of resolveLocationAsync
  Keystrokes,  \* calls of suggestLocationsAsync
  Texts,
  KnownAt,     \* where a text has a label that is relevant to it: a subset of
               \* Stages, "interest" and "table"
  Interval,    \* NOMINATIM_MIN_INTERVAL_MS
  LastMoment   \* bound: when the clock stops

Stages == << "place", "gazetteer", "address" >>

ASSUME GeocoderAssumption ==
  /\ Texts # {}
  /\ KnownAt \in [Texts -> SUBSET {"place", "gazetteer", "address", "interest", "table"}]
  /\ Interval \in Nat \ {0} /\ LastMoment \in Nat

VARIABLES
  moment,
  points,      \* asyncCache: where the point of a text is from, "none" without
  interests,   \* poiCache: "found" or "nothing", "none" without
  lastAsked,   \* nominatimLastRequestAt
  inLine,      \* nominatimQueue: the look-ups that wait for those before them
  lookup,      \* [at, text, stage, wake, looked, result]
  keystroke,
  asked        \* history: [at, looked, by] of the requests to OpenStreetMap

geoVars == <<moment, points, interests, lastAsked, inLine, lookup, keystroke, asked>>

GeocoderInit ==
  /\ moment = 0 /\ lastAsked = - Interval
  /\ points = [t \in Texts |-> "none"] /\ interests = [t \in Texts |-> "none"]
  /\ inLine = << >> /\ asked = << >>
  /\ lookup = [l \in Lookups |->
       [at |-> "idle", text |-> CHOOSE t \in Texts : TRUE, stage |-> 1, wake |-> 0,
        looked |-> 0, result |-> "none"]]
  /\ keystroke = [k \in Keystrokes |-> "idle"]

Moves(l, state) == lookup' = [lookup EXCEPT ![l] = state]

Found(l, state, source) == Moves(l, [state EXCEPT !.at = "over", !.result = source])

\* resolveLocation, which every failure falls back on and nobody remembers.
FromTable(l, state) ==
  Found(l, state, IF "table" \in KnownAt[state.text] THEN "table" ELSE "nowhere")

-----------------------------------------------------------------------------
(* resolveLocationAsync.                                                   *)

Resolve(l, t) ==
  /\ lookup[l].at = "idle"
  /\ LET state == [lookup[l] EXCEPT !.text = t]
     IN  IF points[t] # "none" THEN Found(l, state, points[t])
                               ELSE Moves(l, [state EXCEPT !.at = "official"])
  /\ UNCHANGED <<moment, points, interests, lastAsked, inLine, keystroke, asked>>

\* geoAdminMatch: a stage that has no relevant label, or whose answer is an
\* error, is followed by the next, and an error by the points of interest at
\* the end.  A timeout or a broken connection ends it all.
Official(l) ==
  LET state == lookup[l]
      stage == Stages[state.stage]
  IN  /\ state.at = "official"
      /\ \/ /\ stage \in KnownAt[state.text]
            /\ points' = [points EXCEPT ![state.text] = stage]
            /\ Found(l, state, stage)
         \/ /\ Moves(l, IF state.stage < Len(Stages)
                          THEN [state EXCEPT !.stage = @ + 1]
                          ELSE [state EXCEPT !.at = "interest"])
            /\ UNCHANGED points
         \/ FromTable(l, state) /\ UNCHANGED points
      /\ UNCHANGED <<moment, interests, lastAsked, inLine, keystroke, asked>>

\* resolvePoiAsync, whose finding is remembered twice.
IsInterest(l, state) ==
  /\ points' = [points EXCEPT ![state.text] = "interest"]
  /\ Found(l, state, "interest")

Interest(l) ==
  LET state == lookup[l]
  IN  /\ state.at = "interest"
      /\ CASE interests[state.text] = "found" -> IsInterest(l, state) /\ UNCHANGED inLine
           [] interests[state.text] = "nothing" ->
                FromTable(l, state) /\ UNCHANGED <<points, inLine>>
           [] OTHER -> /\ Moves(l, [state EXCEPT !.at = "inLine"])
                       /\ inLine' = Append(inLine, l)
                       /\ UNCHANGED points
      /\ UNCHANGED <<moment, interests, lastAsked, keystroke, asked>>

-----------------------------------------------------------------------------
(* The requests to OpenStreetMap.                                          *)

\* Mutant: a suggestion does not take the time of its request.
AsksUnstamped(by, looked) ==
  /\ lastAsked' = IF by = "suggestion" THEN lastAsked ELSE moment
  /\ asked' = Append(asked, [at |-> moment, looked |-> looked, by |-> by])

AsksInterests(by, looked) ==
  /\ lastAsked' = moment
  /\ asked' = Append(asked, [at |-> moment, looked |-> looked, by |-> by])

\* throttledPoiRequest, when those before it are done: it looks at the time of
\* the last request once, and sleeps.
Turn(l) ==
  /\ inLine # << >> /\ Head(inLine) = l /\ lookup[l].at = "inLine"
  /\ LET state == [lookup[l] EXCEPT !.looked = Len(asked)]
     IN  IF lastAsked + Interval > moment
           THEN /\ Moves(l, [state EXCEPT !.at = "sleeping", !.wake = lastAsked + Interval])
                /\ UNCHANGED <<lastAsked, asked>>
           ELSE /\ Moves(l, [state EXCEPT !.at = "asking"])
                /\ AsksInterests("lookup", Len(asked))
  /\ UNCHANGED <<moment, points, interests, inLine, keystroke>>

Woken(l) ==
  /\ lookup[l].at = "sleeping" /\ moment >= lookup[l].wake
  /\ Moves(l, [lookup[l] EXCEPT !.at = "asking"])
  /\ AsksInterests("lookup", lookup[l].looked)
  /\ UNCHANGED <<moment, points, interests, inLine, keystroke>>

\* Nothing is remembered of a request that throws; one that is refused counts
\* as one that found nothing.
InterestAnswered(l) ==
  LET state == lookup[l]
  IN  /\ state.at = "asking" /\ inLine' = Tail(inLine)
      /\ \/ /\ "interest" \in KnownAt[state.text]
            /\ interests' = [interests EXCEPT ![state.text] = "found"]
            /\ IsInterest(l, state)
         \/ /\ interests' = [interests EXCEPT ![state.text] = "nothing"]
            /\ FromTable(l, state) /\ UNCHANGED points
         \/ FromTable(l, state) /\ UNCHANGED <<points, interests>>
      /\ UNCHANGED <<moment, lastAsked, keystroke, asked>>

-----------------------------------------------------------------------------
(* suggestLocationsAsync.                                                  *)

Free == moment - lastAsked >= Interval

\* When the gazetteer suggests nothing, the points of interest are asked if it
\* is free to ask them.
Suggest(k) ==
  /\ keystroke[k] = "idle"
  /\ keystroke' = [keystroke EXCEPT ![k] = "over"]
  /\ \/ Free /\ AsksInterests("suggestion", Len(asked))
     \/ UNCHANGED <<lastAsked, asked>>
  /\ UNCHANGED <<moment, points, interests, inLine, lookup>>

MomentPasses ==
  /\ moment < LastMoment /\ moment' = moment + 1
  /\ UNCHANGED <<points, interests, lastAsked, inLine, lookup, keystroke, asked>>

GeocoderNext ==
  \/ \E l \in Lookups :
       \/ \E t \in Texts : Resolve(l, t)
       \/ Official(l) \/ Interest(l) \/ Turn(l) \/ Woken(l) \/ InterestAnswered(l)
  \/ \E k \in Keystrokes : Suggest(k)
  \/ MomentPasses

-----------------------------------------------------------------------------

\* Requests to OpenStreetMap of one kind keep the interval, however many stand
\* in line or go past it, and so does a request to all that had gone out when
\* it looked at the time.  This is less than "at most one request per second.
\* Both are honoured here" (geo.ts:511-512): a look-up whose sleep is over does
\* not look again, and a suggestion may have gone out as its timer rings.
InterestsAreSpared ==
  \A i, j \in DOMAIN asked :
    i < j /\ (asked[i].by = asked[j].by \/ i <= asked[j].looked) =>
      asked[j].at - asked[i].at >= Interval

=============================================================================
