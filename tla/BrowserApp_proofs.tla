-------------------------- MODULE BrowserApp_proofs --------------------------
(***************************************************************************)
(* What the pages of the app keep true while the shopper and the answers   *)
(* come in any order, for any number of windows, conversations, texts,     *)
(* searches and chains.  Nothing the shopper said is lost but for a        *)
(* reason; what was deleted stays deleted; a form asks with coordinates of *)
(* the place it names, and not for one that was refused; the progress that *)
(* is shown is that of the search that runs.                               *)
(***************************************************************************)
EXTENDS BrowserApp, SequenceTheorems, TLAPS

(***************************************************************************)
(* SearchPage.                                                             *)
(***************************************************************************)

\* There is one stream while a search is followed and none otherwise, and what
\* is on the screen is what that stream has told.
OneStream ==
  IF fetching.open
    THEN \E s \in streams :
           /\ streams = {s} /\ s = [of |-> fetching.of, told |-> s.told]
           /\ shownOf # Nothing => shownOf = [of |-> s.of, pending |-> s.told]
    ELSE streams = {}

PageInv ==
  /\ fetching \in [of : Queries \cup {Nothing}, retry : BOOLEAN, open : BOOLEAN]
  /\ OneStream

LEMMA InitPage == SearchInit => PageInv
BY DEF SearchInit, PageInv, OneStream, NoFetch

LEMMA FetchOpensOne ==
  ASSUME NEW q \in Queries \cup {Nothing}, NEW retry \in BOOLEAN, Fetch(q, retry, {})
  PROVE  PageInv'
<1> DEFINE s == [of |-> q, told |-> Nothing]
<1>1. /\ fetching' = [of |-> q, retry |-> retry, open |-> TRUE]
      /\ streams' = {s} /\ shownOf' = Nothing
  BY DEF Fetch
<1>2. s = [of |-> fetching'.of, told |-> s.told]
  BY <1>1
<1> HIDE DEF s
<1> QED BY <1>1, <1>2 DEF PageInv, OneStream

LEMMA PageStep == PageInv /\ [SearchNext]_searchVars => PageInv'
<1> SUFFICES ASSUME PageInv, [SearchNext]_searchVars PROVE PageInv'
  OBVIOUS
<1>1. fetching \in [of : Queries \cup {Nothing}, retry : BOOLEAN, open : BOOLEAN]
  BY DEF PageInv
<1>2. CASE UNCHANGED <<fetching, streams, shownOf>>
  BY <1>2 DEF PageInv, OneStream
<1>3. ASSUME fetching' = NoFetch, streams' = {} PROVE PageInv'
  BY <1>3 DEF PageInv, OneStream, NoFetch
<1>4. ASSUME NEW q \in Queries, SearchFor(q) PROVE PageInv'
  <2>1. \/ UNCHANGED <<fetching, streams, shownOf>>
        \/ fetching' = NoFetch /\ streams' = {}
        \/ Fetch(q, FALSE, {})
    BY <1>4 DEF SearchFor, AfterAbort
  <2> QED BY <2>1, <1>2, <1>3, FetchOpensOne
<1>5. ASSUME NEW s \in streams, Opened(s) \/ Reported(s) \/ Done(s) \/ Broken(s) PROVE PageInv'
  <2>1. /\ fetching.open /\ streams = {s} /\ s = [of |-> fetching.of, told |-> s.told]
        /\ s.of = fetching.of
        /\ shownOf # Nothing => shownOf = [of |-> s.of, pending |-> s.told]
    BY DEF PageInv, OneStream
  <2>2. ASSUME NEW told, Follows(s, told), UNCHANGED fetching,
               shownOf' = [of |-> s.of, pending |-> told]
        PROVE  PageInv'
    <3> DEFINE next == [of |-> fetching.of, told |-> told]
    <3>1. [s EXCEPT !.told = told] = next
      BY <2>1
    <3>2. streams' = {next} /\ next.told = told /\ next.of = s.of
      BY <2>1, <2>2, <3>1 DEF Follows
    <3> HIDE DEF next
    <3>3. next = [of |-> fetching'.of, told |-> next.told]
      BY <2>2, <3>2 DEF next
    <3> QED BY <1>1, <2>1, <2>2, <3>2, <3>3 DEF PageInv, OneStream
  <2>3. CASE Opened(s)
    BY <2>2, <2>3 DEF Opened
  <2>4. CASE Reported(s)
    <3>1. PICK v \in s.told : /\ Follows(s, s.told \ {v})
                              /\ shownOf' = [of |-> s.of, pending |-> Pending(s) \ {v}]
      BY <2>4 DEF Reported
    <3>2. Pending(s) = s.told
      BY <2>1 DEF Pending
    <3> QED BY <2>2, <2>4, <3>1, <3>2 DEF Reported
  <2>5. CASE Done(s)
    <3>1. fetching' = NoFetch /\ streams' = {}
      BY <2>1, <2>5 DEF Done
    <3> QED BY <1>3, <3>1
  <2>6. CASE Broken(s)
    <3>1. streams' = {}
      BY <2>1, <2>6 DEF Broken
    <3>2. \/ fetching' = [fetching EXCEPT !.retry = TRUE, !.open = FALSE]
          \/ fetching' = NoFetch
      BY <2>1, <2>6 DEF Broken
    <3>3. /\ fetching' \in [of : Queries \cup {Nothing}, retry : BOOLEAN, open : BOOLEAN]
          /\ fetching'.open = FALSE
      <4>1. CASE fetching' = NoFetch
        BY <4>1 DEF NoFetch
      <4>2. CASE fetching' = [fetching EXCEPT !.retry = TRUE, !.open = FALSE]
        BY <1>1, <4>2
      <4> QED BY <3>2, <4>1, <4>2
    <3> QED BY <3>1, <3>3 DEF PageInv, OneStream
  <2> QED BY <1>5, <2>3, <2>4, <2>5, <2>6
<1>6. CASE Retry
  <2>1. streams = {} /\ Fetch(fetching.of, TRUE, streams) /\ fetching.of \in Queries \cup {Nothing}
    BY <1>1, <1>6 DEF Retry, PageInv, OneStream
  <2> QED BY <2>1, FetchOpensOne
<1>7. CASE Reload
  BY <1>3, <1>7 DEF Reload
<1>8. CASE (\E q \in Queries : Stale(q)) \/ Hydrate \/ Mirror
  BY <1>2, <1>8 DEF Stale, Hydrate, Mirror
<1>9. CASE UNCHANGED searchVars
  BY <1>2, <1>9 DEF searchVars
<1> QED BY <1>4, <1>5, <1>6, <1>7, <1>8, <1>9 DEF SearchNext

LEMMA PageShowsItsSearch == PageInv => ProgressIsOfTheSearch
BY DEF PageInv, OneStream, ProgressIsOfTheSearch

(***************************************************************************)
(* AvailabilityForm.                                                       *)
(***************************************************************************)

\* Coordinates are those of the text, and a verdict that still stands on a text
\* that has none is a refusal.
VerdictStands ==
  ~ retyped /\ typed # None /\ checked = typed /\ typed \notin Known /\ coords = None
    => status = "invalid"

FormInv ==
  /\ coords \in {None, typed}
  /\ VerdictStands
  /\ \A k \in checks : k.text # None
  /\ CoordsAreOfThePlace

LEMMA InitForm == FormInit => FormInv
BY DEF FormInit, FormInv, VerdictStands, CoordsAreOfThePlace

\* The text is checked when there is one that has no verdict.
LEMMA CallsAreNamed ==
  ASSUME FormInv, NEW purposes, Calls(purposes), NoVerdict \/ purposes = {}
  PROVE  \A k \in checks' : k.text # None
BY DEF FormInv, Calls, NoVerdict

\* What only calls for checks, or moves what surrounds the text.
LEMMA TextStays ==
  ASSUME FormInv, UNCHANGED <<typed, coords, verdict, params>>,
         \A k \in checks' : k.text # None
  PROVE  FormInv'
BY DEF FormInv, verdict, VerdictStands, CoordsAreOfThePlace

\* A new text has coordinates and a verdict of its own, or neither.
LEMMA TextMoves ==
  ASSUME FormInv, UNCHANGED <<checks, params>>,
         \/ coords' = None /\ retyped' = TRUE
         \/ coords' = typed'
  PROVE  FormInv'
BY DEF FormInv, VerdictStands, CoordsAreOfThePlace

LEMMA SubmitKeepsForm ==
  ASSUME FormInv, Submit
  PROVE  /\ FormInv'
         /\ params' # params /\ params'.coords = None => /\ typed # None /\ checked = typed
                                                        /\ params'.location = typed
                                                        /\ coords = None /\ status # "invalid"
<1>1. PICK focused \in BOOLEAN :
        Calls({why \in {"blur", "submit"} :
                 /\ NoVerdict
                 /\ why = "blur" => focused /\ editing
                 /\ why = "submit" => coords = None})
  BY DEF Submit
<1> DEFINE purposes == {why \in {"blur", "submit"} :
                          /\ NoVerdict
                          /\ why = "blur" => focused /\ editing
                          /\ why = "submit" => coords = None}
<1>2. NoVerdict \/ purposes = {}
  OBVIOUS
<1>3. Calls(purposes)
  BY <1>1
<1> HIDE DEF purposes
<1>4. \A k \in checks' : k.text # None
  BY <1>2, <1>3, CallsAreNamed
<1>5. /\ typed # None /\ UNCHANGED <<typed, coords, status, checked, retyped>>
      /\ \/ params' = params
         \/ /\ params' = [location |-> typed, coords |-> coords]
            /\ coords # None \/ (checked = typed /\ status # "invalid")
  BY DEF Submit, verdict, NoVerdict, Params
<1>6. CoordsAreOfThePlace'
  BY <1>5 DEF FormInv, CoordsAreOfThePlace
<1> QED BY <1>4, <1>5, <1>6 DEF FormInv, VerdictStands

\* An answer to a check of what was submitted asks for it without coordinates,
\* and not if the geocoder does not find it.
LEMMA AnswerKeepsForm ==
  ASSUME FormInv, NEW k \in checks, Answered(k)
  PROVE  /\ FormInv'
         /\ params' # params /\ checked' = params'.location => params'.location \in Known
<1>1. PICK answers \in BOOLEAN, found \in {k.text \in Known, FALSE} :
        /\ checked' = IF answers THEN k.text ELSE CheckedAfterFailure
        /\ status' = CASE ~ answers -> "unchecked"
                       [] answers /\ (answers => found) -> "valid"
                       [] OTHER -> "invalid"
        /\ retyped' = FALSE
        /\ params' = IF k.why = "submit" /\ (answers => found) THEN Params(k.text, None) ELSE params
  BY DEF Answered
<1>2. UNCHANGED <<typed, coords>> /\ checks' = checks \ {k} /\ k.text # None
  BY DEF Answered, FormInv
<1>3. answers /\ k.text \notin Known => ~ found /\ status' = "invalid"
  BY <1>1
<1>4. checked' = None \/ (answers /\ checked' = k.text)
  BY <1>1 DEF CheckedAfterFailure
<1>5. VerdictStands'
  BY <1>2, <1>3, <1>4 DEF VerdictStands
<1>6. \/ params' = params
      \/ params' = [location |-> k.text, coords |-> None] /\ (answers => found)
  BY <1>1 DEF Params
<1>7. CoordsAreOfThePlace'
  BY <1>6 DEF FormInv, CoordsAreOfThePlace
<1>8. params' # params /\ checked' = params'.location => params'.location \in Known
  <2> SUFFICES ASSUME params' # params, checked' = params'.location PROVE k.text \in Known
    BY <1>6
  <2>1. params'.location = k.text /\ (answers => found)
    BY <1>6
  <2>2. answers
    BY <1>2, <1>4, <2>1
  <2> QED BY <1>3, <2>1, <2>2
<1> QED BY <1>2, <1>5, <1>7, <1>8 DEF FormInv

RefusedIsNotAsked ==
  /\ params' # params /\ params'.coords = None
  /\ checked' = params'.location /\ params'.location \notin Known
  => retyped

LEMMA FormStep ==
  ASSUME FormInv, [FormNext]_formVars
  PROVE  FormInv' /\ RefusedIsNotAsked
<1>1. ASSUME NEW purposes, Calls(purposes), NoVerdict,
             UNCHANGED <<typed, coords, verdict, params>>
      PROVE  FormInv' /\ RefusedIsNotAsked
  <2>1. \A k \in checks' : k.text # None
    BY <1>1, CallsAreNamed
  <2>2. FormInv'
    BY <1>1, <2>1, TextStays
  <2> QED BY <1>1, <2>2 DEF RefusedIsNotAsked
<1>2. ASSUME UNCHANGED <<typed, coords, verdict, params, checks>> PROVE FormInv' /\ RefusedIsNotAsked
  BY <1>2, TextStays DEF FormInv, RefusedIsNotAsked
<1>3. CASE Debounced \/ Suggested \/ Locate \/ Reopen
  BY <1>2, <1>3 DEF Debounced, Suggested, Locate, Reopen, progress
<1>4. CASE Located
  <2>1. UNCHANGED <<checks, params>>
    BY <1>4 DEF Located, progress
  <2>2. CASE UNCHANGED <<typed, coords, verdict>>
    BY <1>2, <2>1, <2>2
  <2>3. CASE typed' = Here /\ Settle(Here)
    BY <2>1, <2>3, TextMoves DEF Settle, RefusedIsNotAsked
  <2> QED BY <1>4, <2>2, <2>3 DEF Located
<1>5. ASSUME NEW text, Type(text) PROVE FormInv' /\ RefusedIsNotAsked
  BY <1>5, TextMoves DEF Type, CoordsWhenTyped, progress, RefusedIsNotAsked
<1>6. ASSUME NEW label, Pick(label) PROVE FormInv' /\ RefusedIsNotAsked
  BY <1>6, TextMoves DEF Pick, Settle, progress, RefusedIsNotAsked
<1>7. CASE Blur
  BY <1>1, <1>7 DEF Blur
<1>8. CASE BlurEmpty
  <2>1. typed = None /\ UNCHANGED <<typed, coords, checks, params>>
    BY <1>8 DEF BlurEmpty, progress
  <2> QED BY <2>1 DEF FormInv, VerdictStands, CoordsAreOfThePlace, RefusedIsNotAsked
<1>9. CASE Finish
  <2>1. CASE NoVerdict
    BY <1>1, <1>9, <2>1 DEF Finish
  <2>2. CASE ~ NoVerdict
    BY <1>2, <1>9, <2>2 DEF Finish, progress
  <2> QED BY <2>1, <2>2
<1>10. CASE Submit
  <2>1. UNCHANGED retyped
    BY <1>10 DEF Submit, verdict
  <2> QED BY <1>10, <2>1, SubmitKeepsForm DEF FormInv, VerdictStands, RefusedIsNotAsked
<1>11. ASSUME NEW k \in checks, Answered(k) PROVE FormInv' /\ RefusedIsNotAsked
  BY <1>11, AnswerKeepsForm DEF RefusedIsNotAsked
<1>12. CASE UNCHANGED formVars
  BY <1>2, <1>12 DEF formVars, verdict
<1> QED BY <1>3, <1>4, <1>5, <1>6, <1>7, <1>8, <1>9, <1>10, <1>11, <1>12 DEF FormNext
(***************************************************************************)
(* ChatThreads.                                                            *)
(*                                                                         *)
(* What is known of a window is a predicate of its record and of what it   *)
(* is compared with: the number of the next message, what was erased and   *)
(* ever saved of each thread, and the threads that have an excuse.         *)
(***************************************************************************)
Msg == [from : {"user", "model"}, n : Nat, place : Places \cup {"none"}]

Before(k) == {m \in Msg : m.n < k}

Fields == {"at", "url", "visited", "bootTo", "thread", "messages", "dirty", "running",
           "abandoned", "place", "bootPlace", "nav", "pruning", "doomed"}

\* A way of a window, and what was loaded on it.
NavTyped(nav, k) ==
  nav.to \in Threads \cup {"none"} /\ nav.found \in Seq(Msg) /\ Said(nav.found) \subseteq Before(k)

WindowTyped(x, k) ==
  /\ DOMAIN x = Fields /\ DOMAIN x.nav = Slots
  /\ x.url \in Threads \cup {"none"} /\ x.visited \subseteq Threads
  /\ x.thread \in Threads \cup {"none"} /\ (x.at = "open" <=> x.thread # "none")
  /\ x.messages \in Seq(Msg) /\ Said(x.messages) \subseteq Before(k)
  /\ \A i \in Slots : /\ NavTyped(x.nav[i], k)
                      /\ x.nav[i].kind # "none" => x.at = "open"

\* Nothing in messages, which are of thread t, was erased.
Clean(messages, t, gone) == t \in Threads => Said(messages) \cap gone[t] = {}

\* What was erased of a thread a window neither writes nor is about to show.
HasNothingOf(x, gone) ==
  /\ x.abandoned \/ Clean(x.messages, x.thread, gone)
  /\ \A i \in Slots : Clean(x.nav[i].found, x.nav[i].to, gone)

\* Of a thread that has no excuse a window shows all that was ever saved.
HasAllOf(x, spared, ever) ==
  x.thread \in Threads \ spared => ever[x.thread] \subseteq Said(x.messages)

WindowOK(x, k, gone, spared, ever) ==
  WindowTyped(x, k) /\ HasNothingOf(x, gone) /\ HasAllOf(x, spared, ever)

ThreadOK(messages, said, gone, isSpared) ==
  Said(messages) \cap gone = {} /\ (isSpared \/ said \subseteq Said(messages))

StoreTyped ==
  /\ used \subseteq Threads /\ kept \subseteq Threads /\ asks \in Nat
  /\ saved \in [Threads -> Seq(Msg)] /\ DOMAIN everSaved = Threads
  /\ DOMAIN erased = Threads /\ DOMAIN window = Windows
  /\ \A t \in Threads : Said(saved[t]) \subseteq Before(asks) /\ erased[t] \subseteq Before(asks)

\* A thread that two windows show has an excuse.
HeldOnce ==
  \A v, w \in Windows, t \in Threads :
    v # w /\ window[v].thread = t /\ window[w].thread = t => t \in excused

ThreadsInv ==
  /\ StoreTyped
  /\ \A t \in Threads : ThreadOK(saved[t], everSaved[t], erased[t], t \in excused)
  /\ \A w \in Windows : WindowOK(window[w], asks, erased, excused, everSaved)
  /\ HeldOnce

-----------------------------------------------------------------------------
(* Messages and windows                                                    *)

LEMMA SaidOfEmpty == <<>> \in Seq(Msg) /\ Said(<<>>) = {}
BY DEF Said, ToSet

LEMMA SaidGrows ==
  ASSUME NEW s \in Seq(Msg), NEW m \in Msg
  PROVE  /\ Append(s, m) \in Seq(Msg)
         /\ Said(s) \subseteq Said(Append(s, m))
         /\ Said(Append(s, m)) \subseteq Said(s) \cup {m}
         /\ m.from = "model" => Said(Append(s, m)) = Said(s)
<1> DEFINE a == Append(s, m)
<1>1. /\ a \in Seq(Msg) /\ Len(a) = Len(s) + 1 /\ a[Len(s) + 1] = m
      /\ \A i \in 1 .. Len(s) : a[i] = s[i]
  OBVIOUS
<1>2. DOMAIN s = 1 .. Len(s) /\ DOMAIN a = 1 .. Len(s) + 1 /\ Len(s) \in Nat
  BY <1>1
<1>3. ToSet(s) \subseteq ToSet(a)
  BY <1>1, <1>2 DEF ToSet
<1>4. ToSet(a) \subseteq ToSet(s) \cup {m}
  <2> SUFFICES ASSUME NEW i \in 1 .. Len(s) + 1 PROVE a[i] \in ToSet(s) \cup {m}
    BY <1>2 DEF ToSet
  <2>1. i \in 1 .. Len(s) \/ i = Len(s) + 1
    BY <1>2
  <2> QED BY <1>1, <1>2, <2>1 DEF ToSet
<1> HIDE DEF a
<1>5. /\ Said(s) \subseteq Said(a) /\ Said(a) \subseteq Said(s) \cup {m}
      /\ m.from = "model" => Said(a) = Said(s)
  BY <1>3, <1>4 DEF Said
<1> QED BY <1>1, <1>5 DEF a

LEMMA BelowTheLast ==
  ASSUME NEW n \in Nat, NEW i \in 1 .. n, i # n
  PROVE  i \in 1 .. n - 1
OBVIOUS

LEMMA SaidWithoutReply ==
  ASSUME NEW s \in Seq(Msg), s # <<>>, Last(s).from = "model"
  PROVE  Front(s) \in Seq(Msg) /\ Said(Front(s)) = Said(s)
<1>1. Len(s) \in Nat /\ Len(s) # 0 /\ DOMAIN s = 1 .. Len(s)
  BY EmptySeq, LenProperties
<1>2. /\ Front(s) \in Seq(Msg) /\ Len(Front(s)) = Len(s) - 1
      /\ \A i \in 1 .. Len(s) - 1 : Front(s)[i] = s[i]
  BY <1>1 DEF Front
<1>3. DOMAIN Front(s) = 1 .. Len(s) - 1
  BY <1>2, LenProperties
<1>4. ASSUME NEW m \in Said(s) PROVE m \in Said(Front(s))
  <2>1. PICK i \in 1 .. Len(s) : m = s[i]
    BY <1>1 DEF Said, ToSet
  <2>2. i # Len(s)
    BY <1>1, <2>1 DEF Said, Last
  <2>3. i \in 1 .. Len(s) - 1
    BY <1>1, <2>2, BelowTheLast
  <2> QED BY <1>2, <1>3, <2>1, <2>3 DEF Said, ToSet
<1>5. ASSUME NEW m \in Said(Front(s)) PROVE m \in Said(s)
  <2>1. PICK i \in 1 .. Len(s) - 1 : m = Front(s)[i]
    BY <1>3 DEF Said, ToSet
  <2>2. i \in 1 .. Len(s)
    BY <1>1
  <2> QED BY <1>1, <1>2, <2>1, <2>2 DEF Said, ToSet
<1> QED BY <1>2, <1>4, <1>5

\* What a reply adds is not said by the shopper.
LEMMA SaidAfterReply ==
  ASSUME NEW s \in Seq(Msg), NEW p \in Places \cup {"none"}
  PROVE  LET told == IF p = "none" THEN <<>> ELSE <<Message("model", 0, p)>>
         IN  s \o told \in Seq(Msg) /\ Said(s \o told) = Said(s)
<1> DEFINE m == Message("model", 0, p)
<1>1. m \in Msg /\ m.from = "model"
  BY DEF Message, Msg
<1> HIDE DEF m
<1>2. s \o <<>> = s
  BY ConcatEmptySeq
<1>3. s \o <<m>> = Append(s, m)
  BY <1>1, AppendIsConcat
<1>4. Append(s, m) \in Seq(Msg) /\ Said(Append(s, m)) = Said(s)
  BY <1>1, SaidGrows
<1> QED BY <1>2, <1>3, <1>4 DEF m

\* Windows that differ in what none of this is about.
Alike(y, x) ==
  /\ DOMAIN y = Fields
  /\ y.at = x.at /\ y.url = x.url /\ y.visited = x.visited /\ y.thread = x.thread
  /\ y.messages = x.messages /\ y.abandoned = x.abandoned /\ y.nav = x.nav

LEMMA WrittenIsAlike ==
  ASSUME NEW x, DOMAIN x = Fields, NEW up
  PROVE  Alike(Written(x, up), x)
BY DEF Written, Alike, Fields

LEMMA WatchedIsAlike ==
  ASSUME NEW x, DOMAIN x = Fields
  PROVE  Alike(Watched(x), x)
BY DEF Watched, Alike, Fields

LEMMA LeftIsAlike ==
  ASSUME NEW x, DOMAIN x = Fields
  PROVE  Alike(Left(x), x)
BY DEF Left, Alike, Fields

LEMMA AlikeIsOK ==
  ASSUME NEW x, NEW y, NEW k, NEW gone, NEW spared, NEW ever, Alike(y, x),
         WindowOK(x, k, gone, spared, ever)
  PROVE  WindowOK(y, k, gone, spared, ever)
BY DEF WindowOK, WindowTyped, HasNothingOf, HasAllOf, Alike

\* A window has nothing of a thread, on screen or on the way.
Clear(x, t) ==
  /\ x.thread # t
  /\ \A i \in Slots : x.nav[i].to = t => x.nav[i].found = <<>>

LEMMA CleanStays ==
  ASSUME NEW messages, NEW t, NEW gone, NEW gone2, Clean(messages, t, gone),
         t \in Threads => gone2[t] = gone[t] \/ messages = <<>>
  PROVE  Clean(messages, t, gone2)
BY SaidOfEmpty DEF Clean

\* What a window is compared with may change, but for what it has.
LEMMA StaysOK ==
  ASSUME NEW x, NEW k, NEW gone, NEW spared, NEW ever,
         NEW k2, NEW gone2, NEW spared2, NEW ever2,
         WindowOK(x, k, gone, spared, ever),
         Before(k) \subseteq Before(k2), spared \subseteq spared2,
         \A t \in Threads \ spared2 : x.thread = t => ever2[t] = ever[t],
         \A t \in Threads : gone2[t] = gone[t] \/ Clear(x, t)
  PROVE  WindowOK(x, k2, gone2, spared2, ever2)
<1>1. WindowTyped(x, k2)
  BY DEF WindowOK, WindowTyped, NavTyped
<1>2. x.abandoned \/ Clean(x.messages, x.thread, gone2)
  BY CleanStays DEF WindowOK, HasNothingOf, Clear
<1>3. ASSUME NEW i \in Slots PROVE Clean(x.nav[i].found, x.nav[i].to, gone2)
  BY CleanStays DEF WindowOK, HasNothingOf, Clear
<1>4. HasAllOf(x, spared2, ever2)
  BY DEF WindowOK, HasAllOf
<1> QED BY <1>1, <1>2, <1>3, <1>4 DEF WindowOK, HasNothingOf

-----------------------------------------------------------------------------
(* Steps of one window                                                     *)

\* Only this window is another one after the step.
Moves(w) == DOMAIN window' = Windows /\ \A v \in Windows \ {w} : window'[v] = window[v]

LEMMA OneWindowMoves ==
  ASSUME ThreadsInv, NEW w \in Windows, Moves(w),
         StoreTyped', Before(asks) \subseteq Before(asks'), excused \subseteq excused',
         \A t \in Threads : ThreadOK(saved'[t], everSaved'[t], erased'[t], t \in excused'),
         WindowOK(window'[w], asks', erased', excused', everSaved'),
         \A v \in Windows \ {w}, t \in Threads \ excused' : window[v].thread = t =>
           everSaved'[t] = everSaved[t] /\ window'[w].thread # t,
         \A v \in Windows \ {w}, t \in Threads : erased'[t] = erased[t] \/ Clear(window[v], t)
  PROVE  ThreadsInv'
<1>1. ASSUME NEW v \in Windows
      PROVE  WindowOK(window'[v], asks', erased', excused', everSaved')
  <2>1. CASE v = w
    BY <2>1
  <2>2. CASE v # w
    <3>1. window'[v] = window[v] /\ WindowOK(window[v], asks, erased, excused, everSaved)
      BY <2>2 DEF Moves, ThreadsInv
    <3>2. WindowOK(window[v], asks', erased', excused', everSaved')
      BY <2>2, <3>1, StaysOK
    <3> QED BY <3>1, <3>2
  <2> QED BY <2>1, <2>2
<1>2. HeldOnce'
  <2> SUFFICES ASSUME NEW u \in Windows, NEW v \in Windows, NEW t \in Threads, u # v,
                      window'[u].thread = t, window'[v].thread = t, t \notin excused'
               PROVE  FALSE
    BY DEF HeldOnce
  <2>1. CASE u # w /\ v # w
    BY <2>1 DEF Moves, ThreadsInv, HeldOnce
  <2>2. CASE u = w
    <3>1. window'[v] = window[v] /\ v \in Windows \ {w}
      BY <2>2 DEF Moves
    <3> QED BY <2>2, <3>1
  <2>3. CASE v = w
    <3>1. window'[u] = window[u] /\ u \in Windows \ {w}
      BY <2>3 DEF Moves
    <3> QED BY <2>3, <3>1
  <2> QED BY <2>1, <2>2, <2>3
<1> QED BY <1>1, <1>2 DEF ThreadsInv

\* A step that stores nothing, and after which the window shows what it showed.
LEMMA OnlyShows ==
  ASSUME ThreadsInv, NEW w \in Windows, Moves(w),
         UNCHANGED <<store, asks, everSaved, excused, erased>>, used' \subseteq Threads,
         WindowOK(window'[w], asks, erased, excused, everSaved),
         window'[w].thread \in {window[w].thread, "none"}
  PROVE  ThreadsInv'
<1>1. /\ kept' = kept /\ saved' = saved /\ everSaved' = everSaved /\ excused' = excused
      /\ asks' = asks /\ erased' = erased
  BY DEF store
<1>2. StoreTyped'
  BY <1>1 DEF ThreadsInv, StoreTyped, Moves
<1>3. \A t \in Threads : ThreadOK(saved'[t], everSaved'[t], erased'[t], t \in excused')
  BY <1>1 DEF ThreadsInv
<1>4. \A v \in Windows \ {w}, t \in Threads \ excused' : window[v].thread = t =>
           everSaved'[t] = everSaved[t] /\ window'[w].thread # t
  BY <1>1, ThreadsAssumption DEF ThreadsInv, HeldOnce
<1> QED BY <1>1, <1>2, <1>3, <1>4, OneWindowMoves

LEMMA WindowIsOK ==
  ASSUME ThreadsInv, NEW w \in Windows
  PROVE  /\ DOMAIN window = Windows
         /\ WindowOK(window[w], asks, erased, excused, everSaved)
         /\ WindowTyped(window[w], asks) /\ DOMAIN window[w] = Fields
         /\ asks \in Nat /\ used \subseteq Threads /\ kept \subseteq Threads
         /\ "none" \notin Threads
BY ThreadsAssumption DEF ThreadsInv, StoreTyped, WindowOK, WindowTyped

LEMMA Replaced ==
  ASSUME ThreadsInv, NEW w \in Windows, NEW x, window' = [window EXCEPT ![w] = x]
  PROVE  Moves(w) /\ window'[w] = x
BY WindowIsOK DEF Moves

\* A step after which the window is as it was in all that matters here.
LEMMA AlikeKeepsThreads ==
  ASSUME ThreadsInv, NEW w \in Windows, NEW x, Alike(x, window[w]),
         window' = [window EXCEPT ![w] = x],
         UNCHANGED <<store, asks, everSaved, excused, erased>>, used' \subseteq Threads
  PROVE  ThreadsInv'
<1>1. Moves(w) /\ window'[w] = x
  BY Replaced
<1>2. WindowOK(x, asks, erased, excused, everSaved)
  BY WindowIsOK, AlikeIsOK
<1> QED BY <1>1, <1>2, OnlyShows DEF Alike

\* What is said, or said again, is in the window only.
NewsOf(y, x, messages) ==
  /\ DOMAIN y = Fields
  /\ y.at = x.at /\ y.url = x.url /\ y.visited = x.visited /\ y.thread = x.thread
  /\ y.messages = messages /\ y.abandoned = x.abandoned /\ y.nav = x.nav

LEMMA NewsIsNewsOf ==
  ASSUME NEW x, DOMAIN x = Fields, NEW messages, NEW running
  PROVE  NewsOf(News(x, messages, running), x, messages)
BY DEF News, NewsOf, Fields

LEMMA NewsAreOK ==
  ASSUME NEW x, NEW y, NEW messages \in Seq(Msg), NEW k, NEW gone, NEW spared, NEW ever,
         NewsOf(y, x, messages), WindowOK(x, k, gone, spared, ever),
         Said(x.messages) \subseteq Said(messages), Said(messages) \subseteq Before(k),
         x.thread \in Threads => (Said(messages) \ Said(x.messages)) \cap gone[x.thread] = {}
  PROVE  WindowOK(y, k, gone, spared, ever)
<1>1. WindowTyped(y, k)
  BY DEF WindowOK, WindowTyped, NewsOf
<1>2. HasNothingOf(y, gone)
  BY DEF WindowOK, HasNothingOf, Clean, NewsOf
<1>3. HasAllOf(y, spared, ever)
  BY DEF WindowOK, HasAllOf, NewsOf
<1> QED BY <1>1, <1>2, <1>3 DEF WindowOK

\* A new message was never erased: it has a number of its own.
LEMMA AskKeepsThreads ==
  ASSUME ThreadsInv, NEW w \in Windows, Ask(w)
  PROVE  ThreadsInv'
<1> DEFINE r == window[w]
           m == Message("user", asks, "none")
           messages == Append(r.messages, m)
           x == News(r, messages, TRUE)
<1>1. /\ WindowOK(r, asks, erased, excused, everSaved) /\ DOMAIN r = Fields /\ asks \in Nat
      /\ r.messages \in Seq(Msg) /\ Said(r.messages) \subseteq Before(asks)
  BY WindowIsOK DEF WindowTyped
<1>2. m \in Msg /\ m.n = asks
  BY <1>1 DEF Message, Msg
<1>3. Before(asks) \subseteq Before(asks + 1) /\ m \in Before(asks + 1) /\ m \notin Before(asks)
  <2>1. \A d \in Msg : d.n \in Nat
    BY DEF Msg
  <2> QED BY <1>1, <1>2, <2>1 DEF Before
<1>4. /\ window' = [window EXCEPT ![w] = x] /\ asks' = asks + 1
      /\ UNCHANGED <<kept, saved, used, everSaved, excused, erased>>
  BY DEF Ask, store, history, deletions
<1> HIDE DEF m
<1>5. /\ messages \in Seq(Msg) /\ Said(r.messages) \subseteq Said(messages)
      /\ Said(messages) \subseteq Said(r.messages) \cup {m}
  BY <1>1, <1>2, SaidGrows
<1>6. NewsOf(x, r, messages)
  BY <1>1, NewsIsNewsOf
<1> HIDE DEF messages, x
<1>7. Moves(w) /\ window'[w] = x
  BY <1>4, Replaced
<1>8. StoreTyped'
  BY <1>1, <1>3, <1>4, <1>7 DEF ThreadsInv, StoreTyped, Moves
<1>9. WindowOK(r, asks', erased, excused, everSaved)
  BY <1>1, <1>3, <1>4, StaysOK
<1>10. r.thread \in Threads => (Said(messages) \ Said(r.messages)) \cap erased[r.thread] = {}
  BY <1>3, <1>5 DEF ThreadsInv, StoreTyped
<1>11. Said(messages) \subseteq Before(asks')
  BY <1>1, <1>3, <1>4, <1>5
<1>12. WindowOK(x, asks', erased', excused', everSaved')
  BY <1>4, <1>5, <1>6, <1>9, <1>10, <1>11, NewsAreOK
<1>13. \A t \in Threads : ThreadOK(saved'[t], everSaved'[t], erased'[t], t \in excused')
  BY <1>4 DEF ThreadsInv
<1>14. \A v \in Windows \ {w}, t \in Threads \ excused' : window[v].thread = t =>
           everSaved'[t] = everSaved[t] /\ window'[w].thread # t
  BY <1>4, <1>6, <1>7 DEF ThreadsInv, HeldOnce, NewsOf
<1> QED BY <1>3, <1>4, <1>7, <1>8, <1>12, <1>13, <1>14, OneWindowMoves

LEMMA ReplyKeepsThreads ==
  ASSUME ThreadsInv, NEW w \in Windows, Reply(w)
  PROVE  ThreadsInv'
<1> DEFINE r == window[w]
           Told(p) == IF p = "none" THEN <<>> ELSE <<Message("model", 0, p)>>
<1>1. /\ WindowOK(r, asks, erased, excused, everSaved) /\ DOMAIN r = Fields
      /\ r.messages \in Seq(Msg) /\ Said(r.messages) \subseteq Before(asks)
      /\ used \subseteq Threads
  BY WindowIsOK DEF WindowTyped
<1>2. PICK p \in Places \cup {"none"} :
        window' = [window EXCEPT ![w] = Watched(News(r, r.messages \o Told(p), FALSE))]
  BY DEF Reply
<1> DEFINE messages == r.messages \o Told(p)
           y == News(r, messages, FALSE)
           x == Watched(y)
<1>3. messages \in Seq(Msg) /\ Said(messages) = Said(r.messages)
  BY <1>1, SaidAfterReply
<1>4. UNCHANGED <<store, asks, everSaved, excused, erased, used>>
  BY DEF Reply, history, deletions
<1> HIDE DEF messages
<1>5. NewsOf(y, r, messages)
  BY <1>1, NewsIsNewsOf
<1>6. Moves(w) /\ window'[w] = x
  BY <1>2, Replaced DEF messages
<1> HIDE DEF y
<1>7. WindowOK(y, asks, erased, excused, everSaved)
  BY <1>1, <1>3, <1>5, NewsAreOK
<1>8. Alike(x, y)
  BY <1>5, WatchedIsAlike DEF NewsOf
<1> HIDE DEF x
<1>9. WindowOK(x, asks, erased, excused, everSaved)
  BY <1>7, <1>8, AlikeIsOK
<1> QED BY <1>1, <1>4, <1>5, <1>6, <1>8, <1>9, OnlyShows DEF Alike, NewsOf

LEMMA RegenerateKeepsThreads ==
  ASSUME ThreadsInv, NEW w \in Windows, Regenerate(w)
  PROVE  ThreadsInv'
<1> DEFINE r == window[w]
           messages == IF Last(r.messages).from = "model" THEN Front(r.messages) ELSE r.messages
           x == News(r, messages, TRUE)
<1>1. /\ WindowOK(r, asks, erased, excused, everSaved) /\ DOMAIN r = Fields
      /\ r.messages \in Seq(Msg) /\ r.messages # <<>> /\ Said(r.messages) \subseteq Before(asks)
      /\ used \subseteq Threads
  BY WindowIsOK DEF Regenerate, WindowTyped
<1>2. messages \in Seq(Msg) /\ Said(messages) = Said(r.messages)
  BY <1>1, SaidWithoutReply
<1>3. /\ window' = [window EXCEPT ![w] = x]
      /\ UNCHANGED <<store, asks, everSaved, excused, erased, used>>
  BY DEF Regenerate, history, deletions
<1>4. NewsOf(x, r, messages)
  BY <1>1, NewsIsNewsOf
<1> HIDE DEF messages, x
<1>5. Moves(w) /\ window'[w] = x
  BY <1>3, Replaced
<1>6. WindowOK(x, asks, erased, excused, everSaved)
  BY <1>1, <1>2, <1>4, NewsAreOK
<1> QED BY <1>1, <1>3, <1>4, <1>5, <1>6, OnlyShows DEF NewsOf

LEMMA FailKeepsThreads ==
  ASSUME ThreadsInv, NEW w \in Windows, Fail(w)
  PROVE  ThreadsInv'
<1>1. Alike(Left(window[w]), window[w]) /\ DOMAIN window = Windows /\ used \subseteq Threads
  BY WindowIsOK, LeftIsAlike
<1>2. /\ window' = [window EXCEPT ![w] = Left(window[w])]
      /\ UNCHANGED <<store, asks, everSaved, excused, erased, used>>
  BY <1>1 DEF Fail, Left, history, deletions
<1> QED BY <1>1, <1>2, AlikeKeepsThreads

LEMMA ListForPruneKeepsThreads ==
  ASSUME ThreadsInv, NEW w \in Windows, ListForPrune(w)
  PROVE  ThreadsInv'
<1> DEFINE r == window[w]
           old == {t \in kept : Cardinality(newer[t]) >= MaxKept}
           x == [r EXCEPT !.pruning = FALSE, !.doomed = @ \cup old]
<1>1. DOMAIN r = Fields /\ DOMAIN window = Windows /\ used \subseteq Threads
  BY WindowIsOK
<1>2. /\ window' = [window EXCEPT ![w] = x]
      /\ UNCHANGED <<store, asks, everSaved, excused, erased, used>>
  BY <1>1 DEF ListForPrune, history, deletions
<1>3. Alike(x, r)
  BY <1>1 DEF Alike, Fields
<1> HIDE DEF x
<1> QED BY <1>1, <1>2, <1>3, AlikeKeepsThreads

\* A window that is not open has nothing.
LEMMA NothingIsOK ==
  ASSUME NEW x, NEW k, NEW gone, NEW spared, NEW ever, DOMAIN x = Fields,
         x.at # "open", x.url \in Threads \cup {"none"}, x.visited = {}, x.thread = "none",
         x.messages = <<>>, x.nav = [i \in Slots |-> NoNav]
  PROVE  WindowOK(x, k, gone, spared, ever)
<1>1. "none" \notin Threads
  BY ThreadsAssumption
<1>2. \A i \in Slots : x.nav[i].kind = "none" /\ x.nav[i].to = "none" /\ x.nav[i].found = <<>>
  BY DEF NoNav
<1>3. WindowTyped(x, k)
  BY <1>2, SaidOfEmpty DEF WindowTyped, NavTyped
<1>4. HasNothingOf(x, gone) /\ HasAllOf(x, spared, ever)
  BY <1>1, <1>2 DEF HasNothingOf, HasAllOf, Clean
<1> QED BY <1>3, <1>4 DEF WindowOK

LEMMA LaunchKeepsThreads ==
  ASSUME ThreadsInv, NEW w \in Windows, Launch(w)
  PROVE  ThreadsInv'
<1>1. window[w].url \in Threads \cup {"none"} /\ used \subseteq Threads
  BY WindowIsOK DEF WindowTyped
<1>2. PICK up, t :
        window' = [window EXCEPT ![w] = [Closed EXCEPT
          !.at = "booting", !.url = window[w].url,
          !.bootPlace = IF up THEN location ELSE "none", !.bootTo = t]]
  BY DEF Launch
<1> DEFINE x == [Closed EXCEPT !.at = "booting", !.url = window[w].url,
                               !.bootPlace = IF up THEN location ELSE "none", !.bootTo = t]
<1>3. /\ DOMAIN x = Fields /\ x.at = "booting" /\ x.url = window[w].url /\ x.visited = {}
      /\ x.thread = "none" /\ x.messages = <<>> /\ x.nav = [i \in Slots |-> NoNav]
  BY DEF Closed, Fields
<1>4. UNCHANGED <<store, asks, everSaved, excused, erased, used>>
  BY DEF Launch, history, deletions
<1>5. window' = [window EXCEPT ![w] = x]
  BY <1>2
<1> HIDE DEF x
<1>6. Moves(w) /\ window'[w] = x
  BY <1>5, Replaced
<1>7. WindowOK(x, asks, erased, excused, everSaved)
  BY <1>1, <1>3, NothingIsOK
<1> QED BY <1>1, <1>3, <1>4, <1>6, <1>7, OnlyShows

-----------------------------------------------------------------------------
(* Steps of one window that may write what it shows                        *)

\* What a window stores is of its own thread, and of that it has everything.
Keeps(w) ==
  LET r == window[w]
  IN  /\ kept' \subseteq Threads /\ saved' \in [Threads -> Seq(Msg)]
      /\ DOMAIN everSaved' = Threads
      /\ \A t \in Threads \ {r.thread} : saved'[t] = saved[t] /\ everSaved'[t] = everSaved[t]
      /\ \A t \in Threads : /\ Said(saved'[t]) \subseteq Before(asks)
                            /\ ThreadOK(saved'[t], everSaved'[t], erased[t], t \in excused)
      /\ r.thread \in Threads \ excused => everSaved'[r.thread] \subseteq Said(r.messages)

LEMMA RestKeeps ==
  ASSUME ThreadsInv, NEW w \in Windows, UNCHANGED <<store, everSaved>>
  PROVE  Keeps(w)
BY DEF Keeps, ThreadsInv, StoreTyped, WindowOK, HasAllOf, store

LEMMA PersistKeeps ==
  ASSUME ThreadsInv, NEW w \in Windows, window[w].at = "open", NEW x, NEW up,
         x.messages = window[w].messages, x.abandoned = window[w].abandoned,
         PersistAs(window[w].thread, x, up)
  PROVE  Keeps(w)
<1> DEFINE r == window[w]
           t == window[w].thread
<1>1. /\ WindowOK(r, asks, erased, excused, everSaved) /\ t \in Threads
      /\ r.messages \in Seq(Msg) /\ Said(r.messages) \subseteq Before(asks)
  BY WindowIsOK DEF WindowTyped
<1>2. CASE ~ (Persists(x) /\ up)
  BY <1>2, RestKeeps DEF PersistAs
<1>3. CASE Persists(x) /\ up
  <2>1. Said(r.messages) \cap erased[t] = {}
    BY <1>1, <1>3 DEF Persists, WindowOK, HasNothingOf, Clean
  <2>2. /\ kept' = kept \cup {t} /\ saved' = [saved EXCEPT ![t] = r.messages]
        /\ everSaved' = [everSaved EXCEPT ![t] = @ \cup Said(r.messages)]
    BY <1>3 DEF PersistAs, Save
  <2>3. /\ kept \subseteq Threads /\ saved \in [Threads -> Seq(Msg)] /\ DOMAIN everSaved = Threads
        /\ \A s \in Threads : Said(saved[s]) \subseteq Before(asks)
    BY DEF ThreadsInv, StoreTyped
  <2>4. /\ kept' \subseteq Threads /\ saved' \in [Threads -> Seq(Msg)]
        /\ DOMAIN everSaved' = Threads
        /\ \A s \in Threads \ {t} : saved'[s] = saved[s] /\ everSaved'[s] = everSaved[s]
        /\ saved'[t] = r.messages /\ everSaved'[t] = everSaved[t] \cup Said(r.messages)
    BY <1>1, <2>2, <2>3
  <2>5. t \notin excused => everSaved'[t] \subseteq Said(r.messages)
    BY <1>1, <2>4 DEF WindowOK, HasAllOf
  <2>6. \A s \in Threads : /\ Said(saved'[s]) \subseteq Before(asks)
                           /\ ThreadOK(saved'[s], everSaved'[s], erased[s], s \in excused)
    BY <1>1, <2>1, <2>3, <2>4, <2>5 DEF ThreadsInv, ThreadOK
  <2> QED BY <2>4, <2>5, <2>6 DEF Keeps
<1> QED BY <1>2, <1>3

LEMMA KeeperIsOK ==
  ASSUME ThreadsInv, NEW w \in Windows, Keeps(w)
  PROVE  WindowOK(window[w], asks, erased, excused, everSaved')
<1>1. WindowOK(window[w], asks, erased, excused, everSaved)
  BY WindowIsOK
<1>2. HasAllOf(window[w], excused, everSaved')
  BY DEF HasAllOf, Keeps
<1> QED BY <1>1, <1>2 DEF WindowOK

LEMMA KeepsAndMoves ==
  ASSUME ThreadsInv, NEW w \in Windows, Moves(w), Keeps(w), UNCHANGED <<erased, asks>>,
         used' \subseteq Threads, excused \subseteq excused',
         WindowOK(window'[w], asks, erased, excused', everSaved'),
         \A t \in Threads \ excused', v \in Windows \ {w} :
           window'[w].thread = t => window[v].thread # t \/ window[w].thread = t
  PROVE  ThreadsInv'
<1>1. StoreTyped'
  BY DEF ThreadsInv, StoreTyped, Keeps, Moves
<1>2. \A t \in Threads : ThreadOK(saved'[t], everSaved'[t], erased'[t], t \in excused')
  BY DEF Keeps, ThreadOK
<1>3. ASSUME NEW v \in Windows \ {w}, NEW t \in Threads \ excused', window[v].thread = t
      PROVE  everSaved'[t] = everSaved[t] /\ window'[w].thread # t
  <2>1. window[w].thread # t
    BY <1>3 DEF ThreadsInv, HeldOnce
  <2> QED BY <1>3, <2>1 DEF Keeps
<1> QED BY <1>1, <1>2, <1>3, OneWindowMoves

LEMMA FlushKeepsThreads ==
  ASSUME ThreadsInv, NEW w \in Windows, Flush(w)
  PROVE  ThreadsInv'
<1> DEFINE r == window[w]
<1>1. DOMAIN r = Fields /\ used \subseteq Threads
  BY WindowIsOK
<1>2. PICK up \in BOOLEAN : PersistAs(r.thread, r, up) /\ window' = [window EXCEPT ![w] = Written(r, up)]
  BY DEF Flush
<1>3. r.at = "open" /\ UNCHANGED <<used, asks, excused, erased>>
  BY DEF Flush, deletions
<1>4. Keeps(w)
  BY <1>2, <1>3, PersistKeeps
<1> DEFINE x == Written(r, up)
<1>5. Alike(x, r)
  BY <1>1, WrittenIsAlike
<1> HIDE DEF x
<1>6. Moves(w) /\ window'[w] = x
  BY <1>2, Replaced DEF x
<1>7. WindowOK(x, asks, erased, excused, everSaved')
  BY <1>4, <1>5, KeeperIsOK, AlikeIsOK
<1> QED BY <1>1, <1>3, <1>4, <1>5, <1>6, <1>7, KeepsAndMoves DEF Alike

LEMMA CloseKeepsThreads ==
  ASSUME ThreadsInv, NEW w \in Windows, Close(w)
  PROVE  ThreadsInv'
<1> DEFINE r == window[w]
           x == [Closed EXCEPT !.url = r.url]
<1>1. used \subseteq Threads /\ r.url \in Threads \cup {"none"} /\ "none" \notin Threads
  BY WindowIsOK DEF WindowTyped
<1>2. PICK up \in BOOLEAN : PersistAs(r.thread, r, up)
  BY DEF Close
<1>3. r.at = "open" /\ window' = [window EXCEPT ![w] = x] /\ UNCHANGED <<used, asks, excused, erased>>
  BY DEF Close, deletions
<1>4. Keeps(w)
  BY <1>2, <1>3, PersistKeeps
<1>5. /\ DOMAIN x = Fields /\ x.at = "closed" /\ x.url = r.url /\ x.visited = {}
      /\ x.thread = "none" /\ x.messages = <<>> /\ x.nav = [i \in Slots |-> NoNav]
  BY DEF Closed, Fields
<1> HIDE DEF x
<1>6. Moves(w) /\ window'[w] = x
  BY <1>3, Replaced
<1>7. WindowOK(x, asks, erased, excused, everSaved')
  BY <1>1, <1>5, NothingIsOK
<1> QED BY <1>1, <1>3, <1>4, <1>5, <1>6, <1>7, KeepsAndMoves

-----------------------------------------------------------------------------
(* Going from thread to thread                                             *)

\* A window like another but for its URL, its history and one of its ways.
GoesOf(y, x, i, nav) ==
  /\ DOMAIN y = Fields
  /\ y.at = x.at /\ y.thread = x.thread /\ y.messages = x.messages /\ y.abandoned = x.abandoned
  /\ y.url \in Threads \cup {"none"} /\ y.visited \subseteq Threads
  /\ y.nav = [x.nav EXCEPT ![i] = nav]

\* What is loaded on a way is clean.
NavOK(x, nav, k, gone) ==
  NavTyped(nav, k) /\ Clean(nav.found, nav.to, gone) /\ (nav.kind # "none" => x.at = "open")

LEMMA GoingIsOK ==
  ASSUME NEW x, NEW y, NEW i \in Slots, NEW nav, NEW k, NEW gone, NEW spared, NEW ever,
         GoesOf(y, x, i, nav), NavOK(x, nav, k, gone), WindowOK(x, k, gone, spared, ever)
  PROVE  WindowOK(y, k, gone, spared, ever)
<1>1. DOMAIN x.nav = Slots
  BY DEF WindowOK, WindowTyped
<1>2. DOMAIN y.nav = Slots /\ \A j \in Slots : y.nav[j] = IF j = i THEN nav ELSE x.nav[j]
  BY <1>1 DEF GoesOf
<1>3. \A j \in Slots : /\ NavTyped(y.nav[j], k) /\ Clean(y.nav[j].found, y.nav[j].to, gone)
                       /\ y.nav[j].kind # "none" => y.at = "open"
  BY <1>2 DEF GoesOf, NavOK, WindowOK, WindowTyped, HasNothingOf
<1>4. WindowTyped(y, k)
  BY <1>2, <1>3 DEF WindowOK, WindowTyped, GoesOf
<1>5. HasNothingOf(y, gone)
  BY <1>3 DEF WindowOK, HasNothingOf, GoesOf
<1>6. HasAllOf(y, spared, ever)
  BY DEF WindowOK, HasAllOf, GoesOf
<1> QED BY <1>4, <1>5, <1>6 DEF WindowOK

\* What is stored of a thread is clean, and so is what is loaded of it.
LEMMA LoadsAreOK ==
  ASSUME ThreadsInv, NEW x, NEW kind, NEW t \in Threads \cup {"none"}, NEW up, x.at = "open"
  PROVE  NavOK(x, Going(kind, t, up), asks, erased)
<1>1. /\ saved \in [Threads -> Seq(Msg)] /\ "none" \notin Threads
      /\ \A s \in Threads : /\ Said(saved[s]) \subseteq Before(asks)
                            /\ Said(saved[s]) \cap erased[s] = {}
  BY ThreadsAssumption DEF ThreadsInv, StoreTyped, ThreadOK
<1>2. Found(t, up) = <<>> \/ (t \in Threads /\ Found(t, up) = saved[t])
  BY DEF Found
<1>3. /\ Found(t, up) \in Seq(Msg) /\ Said(Found(t, up)) \subseteq Before(asks)
      /\ Clean(Found(t, up), t, erased)
  BY <1>1, <1>2, SaidOfEmpty DEF Clean
<1> QED BY <1>3 DEF NavOK, NavTyped, Going

LEMMA EmptyIsOK ==
  ASSUME NEW x, NEW nav, NEW k, NEW gone, nav.to \in Threads \cup {"none"}, nav.found = <<>>,
         nav.kind # "none" => x.at = "open"
  PROVE  NavOK(x, nav, k, gone)
BY SaidOfEmpty DEF NavOK, NavTyped, Clean

\* The window takes a way, and shows what it showed.
LEMMA GoesAStep ==
  ASSUME ThreadsInv, NEW w \in Windows, Keeps(w), NEW x, NEW y, NEW i \in Slots, NEW nav,
         Alike(x, window[w]), GoesOf(y, x, i, nav), NavOK(x, nav, asks, erased),
         used' \subseteq Threads, UNCHANGED <<asks, excused, erased>>,
         window' = [window EXCEPT ![w] = y]
  PROVE  ThreadsInv'
<1>1. Moves(w) /\ window'[w] = y
  BY Replaced
<1>2. WindowOK(x, asks, erased, excused, everSaved')
  BY KeeperIsOK, AlikeIsOK
<1>3. WindowOK(y, asks, erased, excused, everSaved')
  BY <1>2, GoingIsOK
<1>4. y.thread = window[w].thread
  BY DEF GoesOf, Alike
<1> QED BY <1>1, <1>3, <1>4, KeepsAndMoves

LEMMA GoesIsGoesOf ==
  ASSUME NEW x, NEW k, WindowTyped(x, k), NEW i \in Slots, NEW nav
  PROVE  GoesOf(Goes(x, i, nav), x, i, nav)
BY DEF Goes, GoesOf, WindowTyped, Fields

LEMMA AlikeIsTyped ==
  ASSUME NEW x, NEW y, NEW k, Alike(y, x), WindowTyped(x, k)
  PROVE  WindowTyped(y, k)
BY DEF Alike, WindowTyped

LEMMA SelfIsAlike ==
  ASSUME NEW x, DOMAIN x = Fields
  PROVE  Alike(x, x)
BY DEF Alike

LEMMA SelectKeepsThreads ==
  ASSUME ThreadsInv, NEW w \in Windows, NEW t \in used \cup {"none"}, Select(w, t)
  PROVE  ThreadsInv'
<1> DEFINE r == window[w]
           x == Left(r)
<1>1. WindowTyped(r, asks) /\ DOMAIN r = Fields /\ used \subseteq Threads
  BY WindowIsOK
<1>2. Alike(x, r)
  BY <1>1, LeftIsAlike
<1>3. PICK up \in BOOLEAN, i \in Slots :
        /\ PersistAs(x.thread, x, up)
        /\ window' = [window EXCEPT ![w] = Goes(Written(x, up), i, Going("select", t, up))]
  BY DEF Select
<1>4. x.at = "open" /\ UNCHANGED <<used, asks, excused, erased>>
  BY DEF Select, deletions
<1> HIDE DEF x
<1>5. Keeps(w)
  BY <1>2, <1>3, <1>4, PersistKeeps DEF Alike
<1> DEFINE z == Written(x, up)
           nav == Going("select", t, up)
           y == Goes(z, i, nav)
<1>6. Alike(z, x)
  BY <1>2, WrittenIsAlike DEF Alike
<1> HIDE DEF z
<1>7. Alike(z, r)
  BY <1>2, <1>6 DEF Alike
<1>8. WindowTyped(z, asks) /\ z.at = "open"
  BY <1>1, <1>4, <1>6, <1>7, AlikeIsTyped DEF Alike
<1>9. NavOK(z, nav, asks, erased)
  BY <1>1, <1>8, LoadsAreOK
<1> HIDE DEF nav
<1>10. GoesOf(y, z, i, nav)
  BY <1>8, GoesIsGoesOf
<1>11. window' = [window EXCEPT ![w] = y]
  BY <1>3 DEF z, nav
<1> HIDE DEF y
<1> QED BY <1>1, <1>4, <1>5, <1>7, <1>9, <1>10, <1>11, GoesAStep

LEMMA BackKeepsThreads ==
  ASSUME ThreadsInv, NEW w \in Windows, Back(w)
  PROVE  ThreadsInv'
<1> DEFINE r == window[w]
<1>1. /\ WindowTyped(r, asks) /\ DOMAIN r = Fields /\ r.at = "open" /\ used \subseteq Threads
      /\ r.visited \subseteq Threads
  BY WindowIsOK DEF Back, WindowTyped
<1>2. UNCHANGED <<store, asks, everSaved, excused, erased, used>>
  BY DEF Back, history, deletions
<1>3. PICK t \in r.visited :
        LET there == [r EXCEPT !.url = t]
        IN  IF t = r.thread
              THEN window' = [window EXCEPT ![w] = there]
              ELSE \E up \in BOOLEAN, i \in Slots :
                     window' = [window EXCEPT ![w] = Goes(there, i, Going("back", t, up))]
  BY DEF Back
<1> DEFINE there == [r EXCEPT !.url = t]
<1>4. /\ DOMAIN there = Fields /\ there.url = t
      /\ there.at = r.at /\ there.thread = r.thread /\ there.messages = r.messages
      /\ there.abandoned = r.abandoned /\ there.visited = r.visited /\ there.nav = r.nav
  BY <1>1 DEF Fields
<1>5. (window' = [window EXCEPT ![w] = there])
      \/ \E up \in BOOLEAN, i \in Slots :
           window' = [window EXCEPT ![w] = Goes(there, i, Going("back", t, up))]
  BY <1>3
<1> HIDE DEF there
<1>6. WindowTyped(there, asks)
  BY <1>1, <1>4 DEF WindowTyped
<1>7. CASE window' = [window EXCEPT ![w] = there]
  <2>1. Moves(w) /\ window'[w] = there
    BY <1>7, Replaced
  <2>2. WindowOK(there, asks, erased, excused, everSaved)
    BY <1>4, <1>6, WindowIsOK DEF WindowOK, HasNothingOf, HasAllOf
  <2> QED BY <1>1, <1>2, <1>4, <2>1, <2>2, OnlyShows
<1>8. ASSUME NEW up \in BOOLEAN, NEW i \in Slots,
             window' = [window EXCEPT ![w] = Goes(there, i, Going("back", t, up))]
      PROVE  ThreadsInv'
  <2> DEFINE nav == Going("back", t, up)
             y == Goes(there, i, nav)
  <2>1. NavOK(r, nav, asks, erased)
    BY <1>1, LoadsAreOK
  <2> HIDE DEF nav
  <2>2. GoesOf(y, there, i, nav)
    BY <1>6, GoesIsGoesOf
  <2>3. window' = [window EXCEPT ![w] = y]
    BY <1>8 DEF nav
  <2> HIDE DEF y
  <2>4. GoesOf(y, r, i, nav)
    BY <1>4, <2>2 DEF GoesOf
  <2>5. Keeps(w) /\ Alike(r, r)
    BY <1>1, <1>2, RestKeeps, SelfIsAlike
  <2> QED BY <1>1, <1>2, <2>1, <2>3, <2>4, <2>5, GoesAStep
<1> QED BY <1>5, <1>7, <1>8

LEMMA NewestIsAThread ==
  ASSUME ThreadsInv, NEW list, list \subseteq kept, NEW t \in Newest(list)
  PROVE  t \in Threads \cup {"none"}
BY DEF Newest, ThreadsInv, StoreTyped

LEMMA RelistKeepsThreads ==
  ASSUME ThreadsInv, NEW w \in Windows, NEW i \in Slots, Relist(w, i)
  PROVE  ThreadsInv'
<1> DEFINE r == window[w]
<1>1. /\ WindowTyped(r, asks) /\ DOMAIN r = Fields /\ r.at = "open" /\ used \subseteq Threads
  BY WindowIsOK DEF Relist, WindowTyped
<1>2. PICK up \in BOOLEAN : \E t \in Newest(IF up THEN kept ELSE {}) :
        window' = [window EXCEPT ![w] = Goes(r, i, [NoNav EXCEPT !.kind = "listed", !.to = t])]
  BY WindowIsOK DEF Relist
<1>3. PICK t \in Newest(IF up THEN kept ELSE {}) :
        window' = [window EXCEPT ![w] = Goes(r, i, [NoNav EXCEPT !.kind = "listed", !.to = t])]
  BY <1>2
<1>4. t \in Threads \cup {"none"}
  BY NewestIsAThread
<1>5. UNCHANGED <<store, asks, everSaved, excused, erased, used>>
  BY DEF Relist, history, deletions
<1> DEFINE nav == [NoNav EXCEPT !.kind = "listed", !.to = t]
           y == Goes(r, i, nav)
<1>6. nav.to = t /\ nav.found = <<>>
  BY DEF NoNav
<1>7. window' = [window EXCEPT ![w] = y]
  BY <1>3
<1> HIDE DEF nav
<1>8. NavOK(r, nav, asks, erased)
  BY <1>1, <1>4, <1>6, EmptyIsOK
<1>9. GoesOf(y, r, i, nav)
  BY <1>1, GoesIsGoesOf
<1> HIDE DEF y
<1>10. Keeps(w) /\ Alike(r, r)
  BY <1>1, <1>5, RestKeeps, SelfIsAlike
<1> QED BY <1>1, <1>5, <1>7, <1>8, <1>9, <1>10, GoesAStep

LEMMA LoadNewestKeepsThreads ==
  ASSUME ThreadsInv, NEW w \in Windows, NEW i \in Slots, LoadNewest(w, i)
  PROVE  ThreadsInv'
<1> DEFINE r == window[w]
           t == r.nav[i].to
<1>1. /\ WindowTyped(r, asks) /\ DOMAIN r = Fields /\ r.at = "open" /\ used \subseteq Threads
      /\ t \in Threads \cup {"none"}
  BY WindowIsOK DEF LoadNewest, WindowTyped, NavTyped
<1>2. PICK up \in BOOLEAN : window' = [window EXCEPT ![w] = Goes(r, i, Going("select", t, up))]
  BY WindowIsOK DEF LoadNewest
<1>3. UNCHANGED <<store, asks, everSaved, excused, erased, used>>
  BY DEF LoadNewest, history, deletions
<1> DEFINE nav == Going("select", t, up)
           y == Goes(r, i, nav)
<1>4. NavOK(r, nav, asks, erased)
  BY <1>1, LoadsAreOK
<1>5. window' = [window EXCEPT ![w] = y]
  BY <1>2
<1> HIDE DEF nav
<1>6. GoesOf(y, r, i, nav)
  BY <1>1, GoesIsGoesOf
<1> HIDE DEF y
<1>7. Keeps(w) /\ Alike(r, r)
  BY <1>1, <1>3, RestKeeps, SelfIsAlike
<1> QED BY <1>1, <1>3, <1>4, <1>5, <1>6, <1>7, GoesAStep

\* A component can be mounted for a thread and what was loaded of it.
Mountable(x, t, found, k, gone) ==
  /\ DOMAIN x = Fields /\ DOMAIN x.nav = Slots
  /\ x.url \in Threads \cup {"none"} /\ x.visited \subseteq Threads
  /\ \A i \in Slots : NavTyped(x.nav[i], k) /\ Clean(x.nav[i].found, x.nav[i].to, gone)
  /\ t \in Threads /\ found \in Seq(Msg) /\ Said(found) \subseteq Before(k)
  /\ Clean(found, t, gone)

LEMMA MountedIsOK ==
  ASSUME NEW x, NEW t, NEW found, NEW k, NEW gone, NEW spared, NEW ever,
         Mountable(x, t, found, k, gone), t \notin spared => ever[t] \subseteq Said(found)
  PROVE  LET m == Watched(Mounted(x, t, found))
         IN  WindowOK(m, k, gone, spared, ever) /\ m.thread = t
<1> USE DEF Mountable
<1> DEFINE z == Mounted(x, t, found)
           m == Watched(z)
<1>1. /\ DOMAIN z = Fields
      /\ z.at = "open" /\ z.url = x.url /\ z.visited = x.visited /\ z.thread = t
      /\ z.messages = found /\ z.abandoned = FALSE /\ z.nav = x.nav
  BY DEF Mounted, Fields
<1>2. Alike(m, z)
  BY <1>1, WatchedIsAlike
<1> HIDE DEF z, m
<1>3. t # "none"
  BY ThreadsAssumption
<1>4. WindowTyped(z, k)
  BY <1>1, <1>3 DEF WindowTyped
<1>5. HasNothingOf(z, gone) /\ HasAllOf(z, spared, ever)
  BY <1>1 DEF HasNothingOf, HasAllOf
<1>6. WindowOK(m, k, gone, spared, ever) /\ m.thread = t
  BY <1>1, <1>2, <1>4, <1>5, AlikeIsOK DEF WindowOK, Alike
<1> QED BY <1>6 DEF z, m

\* A thread that is shown has an excuse if another window shows it, or if what
\* was loaded of it is not all there is.
LEMMA ComesToThread ==
  ASSUME ThreadsInv, NEW w \in Windows, Keeps(w), NEW x, NEW t, NEW found,
         Mountable(x, t, found, asks, erased), Excuses(w, t, found),
         everSaved'[t] = everSaved[t], used' \subseteq Threads, UNCHANGED <<asks, erased>>,
         window' = [window EXCEPT ![w] = Watched(Mounted(x, t, found))]
  PROVE  ThreadsInv'
<1> DEFINE m == Watched(Mounted(x, t, found))
<1>1. Moves(w) /\ window'[w] = m
  BY Replaced
<1>2. excused \subseteq excused' /\ (ShownElsewhere(w, t) => t \in excused')
  BY DEF Excuses
<1>3. ASSUME t \notin excused' PROVE everSaved'[t] \subseteq Said(found)
  <2>1. Said(saved[t]) \subseteq Said(found)
    BY <1>3 DEF Excuses
  <2>2. everSaved[t] \subseteq Said(saved[t])
    BY <1>2, <1>3 DEF ThreadsInv, ThreadOK, Mountable
  <2> QED BY <2>1, <2>2
<1>4. WindowOK(m, asks, erased, excused', everSaved') /\ m.thread = t
  BY <1>3, MountedIsOK
<1> HIDE DEF m
<1>5. \A s \in Threads \ excused', v \in Windows \ {w} :
        window'[w].thread = s => window[v].thread # s
  BY <1>1, <1>2, <1>4 DEF ShownElsewhere
<1> QED BY <1>1, <1>2, <1>4, <1>5, KeepsAndMoves

LEMMA BootKeepsThreads ==
  ASSUME ThreadsInv, NEW w \in Windows, Boot(w)
  PROVE  ThreadsInv'
<1> DEFINE r == window[w]
           t == r.bootTo
           x == [r EXCEPT !.bootTo = "none"]
           Read(up) == IF up /\ t # "none" THEN saved[t] ELSE <<>>
<1>1. /\ WindowTyped(r, asks) /\ HasNothingOf(r, erased) /\ DOMAIN r = Fields
      /\ used \subseteq Threads
  BY WindowIsOK DEF WindowOK
<1>2. PICK up \in BOOLEAN, next \in Threads :
        /\ IF Read(up) # <<>> THEN next = t ELSE Fresh(next)
        /\ window' = [window EXCEPT ![w] = Watched(Mounted(x, next, Read(up)))]
        /\ Excuses(w, next, Read(up)) /\ used' = used \cup {next}
  BY DEF Boot
<1> DEFINE found == Read(up)
<1>3. UNCHANGED <<store, everSaved, asks, erased>>
  BY DEF Boot, deletions
<1>4. Keeps(w) /\ everSaved' = everSaved
  BY <1>3, RestKeeps
<1>5. found = <<>> \/ (next = t /\ found = saved[next])
  BY <1>2
<1>6. Excuses(w, next, found) /\ window' = [window EXCEPT ![w] = Watched(Mounted(x, next, found))]
  BY <1>2
<1> HIDE DEF Read, found
<1>7. /\ saved[next] \in Seq(Msg) /\ Said(saved[next]) \subseteq Before(asks)
      /\ Said(saved[next]) \cap erased[next] = {}
  BY DEF ThreadsInv, StoreTyped, ThreadOK
<1>8. /\ found \in Seq(Msg) /\ Said(found) \subseteq Before(asks) /\ Clean(found, next, erased)
  BY <1>5, <1>7, SaidOfEmpty DEF Clean
<1>9. /\ DOMAIN x = Fields /\ x.url = r.url /\ x.visited = r.visited /\ x.nav = r.nav
  BY <1>1 DEF Fields
<1> HIDE DEF x
<1>10. Mountable(x, next, found, asks, erased)
  BY <1>1, <1>8, <1>9 DEF Mountable, WindowTyped, HasNothingOf
<1>11. used' \subseteq Threads
  BY <1>1, <1>2
<1> QED BY <1>3, <1>4, <1>6, <1>10, <1>11, ComesToThread

LEMMA LandKeepsThreads ==
  ASSUME ThreadsInv, NEW w \in Windows, NEW i \in Slots, Land(w, i)
  PROVE  ThreadsInv'
<1> DEFINE r == window[w]
           nav == r.nav[i]
           here == Goes(r, i, NoNav)
           Url(next) == IF nav.kind = "back" THEN here ELSE Pushed(here, next)
<1>1. /\ WindowTyped(r, asks) /\ HasNothingOf(r, erased) /\ DOMAIN r = Fields /\ r.at = "open"
      /\ used \subseteq Threads /\ "none" \notin Threads
      /\ WindowOK(r, asks, erased, excused, everSaved)
  BY WindowIsOK DEF Land, WindowOK, WindowTyped
<1>2. PICK up \in BOOLEAN, next \in Threads :
        /\ IF nav.kind = "back" \/ nav.found # <<>> THEN next = nav.to ELSE Fresh(next)
        /\ used' = used \cup {next}
        /\ IF next = r.thread
             THEN /\ window' = [window EXCEPT ![w] = Url(next)]
                  /\ UNCHANGED <<store, location, failures, everSaved, excused>>
             ELSE /\ PersistAs(TheLast(r, next), r, up)
                  /\ window' = [window EXCEPT ![w] =
                       Watched(Mounted(Written(Url(next), up), next, nav.found))]
                  /\ Excuses(w, next, nav.found)
  BY DEF Land
<1>3. UNCHANGED <<asks, erased>> /\ used' \subseteq Threads
  BY <1>1, <1>2 DEF Land, deletions
<1> DEFINE x == Url(next)
           z == Written(x, up)
<1>4. GoesOf(here, r, i, NoNav) /\ here.url = r.url /\ here.visited = r.visited
  BY <1>1, GoesIsGoesOf DEF Goes, Fields
<1>5. GoesOf(x, r, i, NoNav)
  <2> HIDE DEF here
  <2>1. CASE nav.kind = "back"
    BY <1>4, <2>1
  <2>2. CASE nav.kind # "back"
    <3>1. /\ DOMAIN x = Fields /\ x.url = next
          /\ x.visited = (here.visited \cup {here.url, next}) \ {"none"}
          /\ x.at = here.at /\ x.thread = here.thread /\ x.messages = here.messages
          /\ x.abandoned = here.abandoned /\ x.nav = here.nav
      BY <1>4, <2>2 DEF Pushed, GoesOf, Fields
    <3>2. x.visited \subseteq Threads
      BY <1>1, <1>4, <3>1 DEF WindowTyped
    <3> HIDE DEF x
    <3> QED BY <1>4, <3>1, <3>2 DEF GoesOf
  <2> QED BY <2>1, <2>2
<1>6. IF next = r.thread
        THEN window' = [window EXCEPT ![w] = x] /\ UNCHANGED <<store, everSaved, excused>>
        ELSE /\ PersistAs(r.thread, r, up) /\ Excuses(w, next, nav.found)
             /\ window' = [window EXCEPT ![w] = Watched(Mounted(z, next, nav.found))]
  BY <1>2 DEF TheLast
<1> HIDE DEF here, Url, x
<1>7. NavOK(r, NoNav, asks, erased)
  BY EmptyIsOK DEF NoNav
<1>8. CASE next = r.thread
  <2>1. Keeps(w) /\ Alike(r, r)
    BY <1>1, <1>6, <1>8, RestKeeps, SelfIsAlike
  <2> QED BY <1>3, <1>5, <1>6, <1>7, <1>8, <2>1, GoesAStep
<1>9. CASE next # r.thread
  <2>1. Keeps(w)
    BY <1>1, <1>6, <1>9, PersistKeeps
  <2>2. everSaved'[next] = everSaved[next]
    BY <1>9, <2>1 DEF Keeps
  <2>3. WindowOK(x, asks, erased, excused, everSaved)
    BY <1>1, <1>5, <1>7, GoingIsOK
  <2>4. Alike(z, x)
    BY <1>5, WrittenIsAlike DEF GoesOf
  <2>5. NavTyped(nav, asks) /\ Clean(nav.found, nav.to, erased)
    BY <1>1 DEF WindowTyped, HasNothingOf
  <2>6. Clean(nav.found, next, erased)
    BY <1>2, <2>5, SaidOfEmpty DEF Clean
  <2> HIDE DEF z, nav
  <2>7. WindowOK(z, asks, erased, excused, everSaved)
    BY <2>3, <2>4, AlikeIsOK
  <2>8. Mountable(z, next, nav.found, asks, erased)
    BY <2>5, <2>6, <2>7 DEF Mountable, WindowOK, WindowTyped, HasNothingOf, NavTyped
  <2> QED BY <1>3, <1>6, <1>9, <2>1, <2>2, <2>8, ComesToThread
<1> QED BY <1>8, <1>9

-----------------------------------------------------------------------------
(* Deleting and pruning                                                    *)

\* Threads that are forgotten leave nothing in the store, and have an excuse.
LEMMA ForgetKeepsStore ==
  ASSUME ThreadsInv, NEW gone, Forget(gone), UNCHANGED <<everSaved, asks, used>>,
         DOMAIN erased' = Threads, DOMAIN window' = Windows,
         \A t \in Threads : /\ erased'[t] \subseteq Before(asks)
                            /\ erased'[t] = erased[t] \/ t \in gone
  PROVE  /\ StoreTyped' /\ excused \subseteq excused'
         /\ \A t \in Threads : ThreadOK(saved'[t], everSaved'[t], erased'[t], t \in excused')
<1>1. /\ kept' = kept \ gone /\ excused' = excused \cup gone
      /\ saved' = [t \in Threads |-> IF t \in gone THEN <<>> ELSE saved[t]]
  BY DEF Forget
<1>2. saved \in [Threads -> Seq(Msg)] /\ \A t \in Threads : Said(saved[t]) \subseteq Before(asks)
  BY DEF ThreadsInv, StoreTyped
<1>3. saved' \in [Threads -> Seq(Msg)] /\ \A t \in Threads : Said(saved'[t]) \subseteq Before(asks)
  BY <1>1, <1>2, SaidOfEmpty
<1>4. StoreTyped'
  BY <1>1, <1>3 DEF ThreadsInv, StoreTyped
<1>5. ASSUME NEW t \in Threads
      PROVE  ThreadOK(saved'[t], everSaved'[t], erased'[t], t \in excused')
  <2>1. ThreadOK(saved[t], everSaved[t], erased[t], t \in excused)
    BY DEF ThreadsInv
  <2>2. CASE t \in gone
    BY <1>1, <2>2, SaidOfEmpty DEF ThreadOK
  <2>3. CASE t \notin gone
    BY <1>1, <2>1, <2>3 DEF ThreadOK
  <2> QED BY <2>2, <2>3
<1> QED BY <1>1, <1>4, <1>5

LEMMA PruneKeepsThreads ==
  ASSUME ThreadsInv, NEW w \in Windows, Prune(w)
  PROVE  ThreadsInv'
<1> DEFINE r == window[w]
           x == [r EXCEPT !.doomed = {}]
<1>1. DOMAIN r = Fields /\ DOMAIN window = Windows
  BY WindowIsOK
<1>2. /\ Forget(r.doomed) /\ UNCHANGED <<everSaved, used, asks, erased>>
      /\ window' = [window EXCEPT ![w] = x]
  BY <1>1 DEF Prune, deletions
<1>3. Alike(x, r)
  BY <1>1 DEF Alike, Fields
<1> HIDE DEF x
<1>4. Moves(w) /\ window'[w] = x
  BY <1>2, Replaced
<1>5. DOMAIN erased = Threads /\ \A t \in Threads : erased[t] \subseteq Before(asks)
  BY DEF ThreadsInv, StoreTyped
<1>6. /\ StoreTyped' /\ excused \subseteq excused'
      /\ \A t \in Threads : ThreadOK(saved'[t], everSaved'[t], erased'[t], t \in excused')
  BY <1>2, <1>4, <1>5, ForgetKeepsStore DEF Moves
<1>7. WindowOK(x, asks, erased, excused, everSaved)
  BY <1>3, WindowIsOK, AlikeIsOK
<1>8. WindowOK(x, asks', erased', excused', everSaved')
  BY <1>2, <1>6, <1>7, StaysOK
<1>9. \A v \in Windows \ {w}, t \in Threads \ excused' : window[v].thread = t => x.thread # t
  BY <1>3, <1>6 DEF ThreadsInv, HeldOnce, Alike
<1> QED BY <1>2, <1>4, <1>6, <1>8, <1>9, OneWindowMoves

\* What is erased is what no window has any more, but for the one that deleted
\* it, which has abandoned it.
LEMMA ErasesWhatIsGone ==
  ASSUME ThreadsInv, NEW w \in Windows, NEW t \in Threads, Erases(w, t)
  PROVE  /\ DOMAIN erased' = Threads
         /\ \A s \in Threads : /\ erased'[s] \subseteq Before(asks)
                               /\ erased'[s] = erased[s] \/ s = t
         /\ erased'[t] # erased[t] =>
              /\ \A v \in Windows \ {w} : Clear(window[v], t)
              /\ \A i \in Slots : window[w].nav[i].to = t => window[w].nav[i].found = <<>>
<1> DEFINE more == Said(saved[t]) \cup (IF t = window[w].thread THEN Said(window[w].messages) ELSE {})
<1>1. /\ DOMAIN erased = Threads /\ \A s \in Threads : erased[s] \subseteq Before(asks)
      /\ Said(saved[t]) \subseteq Before(asks) /\ Said(window[w].messages) \subseteq Before(asks)
  BY WindowIsOK DEF ThreadsInv, StoreTyped, WindowTyped
<1>2. \/ erased' = erased
      \/ /\ ~ ShownElsewhere(w, t) /\ ~ HasLoaded(w, t)
         /\ \A v \in Windows \ {w} : ~ HasLoaded(v, t)
         /\ erased' = [erased EXCEPT ![t] = @ \cup more]
  BY DEF Erases, deletions
<1>3. more \subseteq Before(asks)
  BY <1>1
<1> HIDE DEF more
<1>4. CASE erased' = erased
  BY <1>1, <1>4
<1>5. CASE /\ ~ ShownElsewhere(w, t) /\ ~ HasLoaded(w, t)
           /\ \A v \in Windows \ {w} : ~ HasLoaded(v, t)
           /\ erased' = [erased EXCEPT ![t] = @ \cup more]
  <2>1. \A v \in Windows \ {w} : Clear(window[v], t)
    BY <1>5 DEF ShownElsewhere, HasLoaded, Clear
  <2>2. \A i \in Slots : window[w].nav[i].to = t => window[w].nav[i].found = <<>>
    BY <1>5 DEF HasLoaded
  <2>3. DOMAIN erased' = Threads
    BY <1>1, <1>5
  <2>4. \A s \in Threads : erased'[s] = IF s = t THEN erased[s] \cup more ELSE erased[s]
    BY <1>1, <1>5
  <2> QED BY <1>1, <1>3, <2>1, <2>2, <2>3, <2>4
<1> QED BY <1>2, <1>4, <1>5

\* The window that deletes the thread it shows.
AbandonedOf(y, x, t) ==
  /\ DOMAIN y = Fields
  /\ y.at = x.at /\ y.url = x.url /\ y.visited = x.visited /\ y.thread = x.thread
  /\ y.messages = x.messages /\ y.nav = x.nav
  /\ IF t = x.thread THEN y.abandoned ELSE y.abandoned = x.abandoned

LEMMA AbandonedIsOK ==
  ASSUME NEW x, NEW y, NEW t, NEW k, NEW gone, NEW spared, NEW ever,
         AbandonedOf(y, x, t), WindowOK(x, k, gone, spared, ever)
  PROVE  WindowOK(y, k, gone, spared, ever)
BY DEF AbandonedOf, WindowOK, WindowTyped, HasNothingOf, HasAllOf

LEMMA DeleteKeepsThreads ==
  ASSUME ThreadsInv, NEW w \in Windows, NEW t \in used, Delete(w, t)
  PROVE  ThreadsInv'
<1> DEFINE r == window[w]
           a == Abandoned(r, t)
           removed == [NoNav EXCEPT !.kind = "removed"]
<1>1. /\ DOMAIN r = Fields /\ WindowOK(r, asks, erased, excused, everSaved)
      /\ WindowTyped(r, asks) /\ DOMAIN window = Windows /\ used \subseteq Threads
      /\ t \in Threads
  BY WindowIsOK
<1>2. AbandonedOf(a, r, t)
  BY <1>1 DEF Abandoned, AbandonedOf, Left, Fields
<1>3. UNCHANGED <<used, asks, everSaved>> /\ a.at = "open"
  BY DEF Delete
<1>4. \/ Forget({t}) /\ Erases(w, t)
      \/ UNCHANGED <<store, excused, erased>>
  BY DEF Delete, deletions
<1>5. IF t = a.thread
        THEN \E i \in Slots : window' = [window EXCEPT ![w] = Goes(a, i, removed)]
        ELSE window' = window
  BY DEF Delete
<1> HIDE DEF a
<1>6. WindowOK(a, asks, erased, excused, everSaved) /\ WindowTyped(a, asks) /\ a.thread = r.thread
  BY <1>1, <1>2, AbandonedIsOK DEF AbandonedOf, WindowOK
<1>7. removed.to = "none" /\ removed.found = <<>>
  BY DEF NoNav
<1> HIDE DEF removed
<1>8. NavOK(a, removed, asks, erased)
  BY <1>3, <1>7, EmptyIsOK
<1>9. PICK x : /\ Moves(w) /\ window'[w] = x
               /\ WindowOK(x, asks, erased, excused, everSaved) /\ x.thread = r.thread
               /\ t = r.thread => x.abandoned
               /\ \A i \in Slots : x.nav[i] = r.nav[i] \/ x.nav[i].found = <<>>
  <2>1. CASE t = r.thread
    <3>1. PICK i \in Slots : window' = [window EXCEPT ![w] = Goes(a, i, removed)]
      BY <1>5, <1>6, <2>1
    <3> DEFINE y == Goes(a, i, removed)
    <3>2. GoesOf(y, a, i, removed)
      BY <1>6, GoesIsGoesOf
    <3> HIDE DEF y
    <3>3. WindowOK(y, asks, erased, excused, everSaved)
      BY <1>6, <1>8, <3>2, GoingIsOK
    <3>4. y.thread = r.thread /\ y.abandoned
      BY <1>2, <2>1, <3>2 DEF GoesOf, AbandonedOf
    <3>5. DOMAIN a.nav = Slots /\ a.nav = r.nav
      BY <1>2, <1>6 DEF AbandonedOf, WindowTyped
    <3>6. \A j \in Slots : y.nav[j] = IF j = i THEN removed ELSE r.nav[j]
      BY <3>2, <3>5 DEF GoesOf
    <3>7. \A j \in Slots : y.nav[j] = r.nav[j] \/ y.nav[j].found = <<>>
      BY <1>7, <3>6
    <3>8. Moves(w) /\ window'[w] = y
      BY <3>1, Replaced DEF y
    <3> QED BY <3>3, <3>4, <3>7, <3>8
  <2>2. CASE t # r.thread
    <3>1. Moves(w) /\ window'[w] = r
      BY <1>1, <1>5, <1>6, <2>2 DEF Moves
    <3> QED BY <1>1, <2>2, <3>1
  <2> QED BY <2>1, <2>2
<1>10. Moves(w) /\ window'[w] = x
  BY <1>9
<1>11. CASE UNCHANGED <<store, excused, erased>>
  BY <1>1, <1>3, <1>9, <1>10, <1>11, OnlyShows
<1>12. CASE Forget({t}) /\ Erases(w, t)
  <2>1. /\ DOMAIN erased' = Threads
        /\ \A s \in Threads : /\ erased'[s] \subseteq Before(asks)
                              /\ erased'[s] = erased[s] \/ s = t
        /\ erased'[t] # erased[t] =>
             /\ \A v \in Windows \ {w} : Clear(window[v], t)
             /\ \A i \in Slots : r.nav[i].to = t => r.nav[i].found = <<>>
    BY <1>1, <1>12, ErasesWhatIsGone
  <2>2. /\ StoreTyped' /\ excused \subseteq excused'
        /\ \A s \in Threads : ThreadOK(saved'[s], everSaved'[s], erased'[s], s \in excused')
    BY <1>3, <1>10, <1>12, <2>1, ForgetKeepsStore DEF Moves
  <2>3. HasNothingOf(x, erased')
    <3>1. x.abandoned \/ Clean(x.messages, x.thread, erased')
      <4>1. CASE t = r.thread
        BY <1>9, <4>1
      <4>2. CASE t # r.thread
        BY <1>9, <2>1, <4>2 DEF WindowOK, HasNothingOf, Clean
      <4> QED BY <4>1, <4>2
    <3>2. ASSUME NEW i \in Slots PROVE Clean(x.nav[i].found, x.nav[i].to, erased')
      <4>1. x.nav[i].found = <<>> \/ x.nav[i].to # t \/ erased'[t] = erased[t]
        BY <1>9, <2>1
      <4>2. Clean(x.nav[i].found, x.nav[i].to, erased)
        BY <1>9 DEF WindowOK, HasNothingOf
      <4> QED BY <2>1, <4>1, <4>2, CleanStays
    <3> QED BY <3>1, <3>2 DEF HasNothingOf
  <2>4. HasAllOf(x, excused', everSaved')
    BY <1>3, <1>9, <2>2 DEF WindowOK, HasAllOf
  <2>5. WindowOK(x, asks', erased', excused', everSaved')
    BY <1>3, <1>9, <2>3, <2>4 DEF WindowOK
  <2>6. \A v \in Windows \ {w}, s \in Threads \ excused' : window[v].thread = s =>
           everSaved'[s] = everSaved[s] /\ x.thread # s
    BY <1>3, <1>9, <2>2 DEF ThreadsInv, HeldOnce
  <2>7. \A v \in Windows \ {w}, s \in Threads : erased'[s] = erased[s] \/ Clear(window[v], s)
    BY <2>1
  <2>8. Before(asks) \subseteq Before(asks')
    BY <1>3
  <2> QED BY <1>10, <2>2, <2>5, <2>6, <2>7, <2>8, OneWindowMoves
<1> QED BY <1>4, <1>11, <1>12

LEMMA InitThreads == Init => ThreadsInv
<1> SUFFICES ASSUME Init PROVE ThreadsInv
  OBVIOUS
<1>1. StoreTyped
  BY SaidOfEmpty DEF Init, StoreTyped
<1>2. ASSUME NEW w \in Windows
      PROVE  WindowOK(window[w], asks, erased, excused, everSaved) /\ window[w].thread = "none"
  <2>1. window[w] = Closed
    BY DEF Init
  <2>2. /\ DOMAIN Closed = Fields /\ Closed.at = "closed" /\ Closed.url = "none" /\ Closed.visited = {}
        /\ Closed.thread = "none" /\ Closed.messages = <<>>
        /\ Closed.nav = [i \in Slots |-> NoNav]
    BY DEF Closed, Fields
  <2> QED BY <2>1, <2>2, NothingIsOK
<1>3. \A t \in Threads : ThreadOK(saved[t], everSaved[t], erased[t], t \in excused)
  BY SaidOfEmpty DEF Init, ThreadOK
<1>4. HeldOnce
  BY <1>2, ThreadsAssumption DEF HeldOnce
<1> QED BY <1>1, <1>2, <1>3, <1>4 DEF ThreadsInv

LEMMA ThreadsStep == ThreadsInv /\ [Next]_vars => ThreadsInv'
<1> SUFFICES ASSUME ThreadsInv, [Next]_vars PROVE ThreadsInv'
  OBVIOUS
<1>1. CASE UNCHANGED vars
  <2>1. UNCHANGED <<kept, saved, window, used, asks, everSaved, excused, erased>>
    BY <1>1 DEF vars, store, history, deletions
  <2> QED BY <2>1 DEF ThreadsInv, StoreTyped, HeldOnce
<1>2. ASSUME NEW w \in Windows,
             \/ Launch(w) \/ Boot(w) \/ Ask(w) \/ Reply(w) \/ Fail(w) \/ Regenerate(w)
             \/ Flush(w) \/ ListForPrune(w) \/ Prune(w) \/ Close(w)
             \/ \E t \in used \cup {"none"} : Select(w, t)
             \/ \E t \in used : Delete(w, t)
             \/ Back(w)
             \/ \E i \in Slots : Relist(w, i) \/ LoadNewest(w, i) \/ Land(w, i)
      PROVE  ThreadsInv'
  BY <1>2, LaunchKeepsThreads, BootKeepsThreads, AskKeepsThreads, ReplyKeepsThreads,
     FailKeepsThreads, RegenerateKeepsThreads, FlushKeepsThreads, ListForPruneKeepsThreads,
     PruneKeepsThreads, CloseKeepsThreads, SelectKeepsThreads, DeleteKeepsThreads,
     BackKeepsThreads, RelistKeepsThreads, LoadNewestKeepsThreads, LandKeepsThreads
<1> QED BY <1>1, <1>2 DEF Next

-----------------------------------------------------------------------------
(***************************************************************************)
(* BrowserApp: the tabs share nothing.                                     *)
(***************************************************************************)
AppInv == ThreadsInv /\ FormInv /\ PageInv

LEMMA AppKeeps ==
  /\ AppInit => AppInv
  /\ AppInv /\ [AppNext]_appVars => AppInv' /\ [RefusedIsNotAsked]_formVars
<1>1. AppInit => AppInv
  BY InitThreads, InitForm, InitPage DEF AppInit, AppInv
<1>2. ASSUME AppInv, [AppNext]_appVars PROVE AppInv' /\ [RefusedIsNotAsked]_formVars
  <2>1. [Next]_vars /\ [FormNext]_formVars /\ [SearchNext]_searchVars
    BY <1>2 DEF AppNext, appVars
  <2> QED BY <1>2, <2>1, ThreadsStep, FormStep, PageStep DEF AppInv
<1> QED BY <1>1, <1>2

LEMMA AppStaysSo == AppSpec => []AppInv
BY AppKeeps, PTL DEF AppSpec

\* What the shopper said and the database has kept (ChatView.tsx and
\* chatHistory.ts) stays there through every change of threads, back, reload
\* and failed transaction, however the ways between threads overlap, but for a
\* deletion, pruning, another window that shows the thread, or a load of it that
\* failed or that a write overtook.
THEOREM NothingSaidIsLost == AppSpec => []LostForAReason
<1>1. AppInv => LostForAReason
  BY DEF AppInv, ThreadsInv, ThreadOK, LostForAReason
<1> QED BY <1>1, AppStaysSo, PTL

\* removeConversation: no write that was due, no reply that was under way, no
\* component that is unmounted later and no way to another thread brings back
\* what was said in a thread that its window deleted.  Of a thread whose load was
\* under way when it was deleted it says nothing: that one may come back.
THEOREM NothingComesBack == AppSpec => []DeletedStaysDeleted
<1>1. AppInv => DeletedStaysDeleted
  BY DEF AppInv, ThreadsInv, StoreTyped, ThreadOK, DeletedStaysDeleted
<1> QED BY <1>1, AppStaysSo, PTL

\* AvailabilityView.tsx: whichever of the checks, suggestions and positions
\* comes back late, the stores are ranked by coordinates of the place named.
THEOREM CoordsFollowTheText == AppSpec => []CoordsAreOfThePlace
<1>1. AppInv => CoordsAreOfThePlace
  BY DEF AppInv, FormInv
<1> QED BY <1>1, AppStaysSo, PTL

\* A verdict that the geocoder does not know the place holds a search for it
\* back until the text has been changed.
THEOREM RefusalsHold == AppSpec => RefusedOnlyIfRetyped
<1>1. AppInv /\ [AppNext]_appVars => [RefusedIsNotAsked]_formVars
  BY AppKeeps
<1> QED BY <1>1, AppStaysSo, PTL DEF AppSpec, RefusedOnlyIfRetyped, RefusedIsNotAsked

\* SearchView.tsx: no stream that was given up, broke or came to its end moves
\* the progress of the search that is followed now.
THEOREM ProgressFollowsTheSearch == AppSpec => []ProgressIsOfTheSearch
<1>1. AppInv => ProgressIsOfTheSearch
  BY PageShowsItsSearch DEF AppInv
<1> QED BY <1>1, AppStaysSo, PTL

=============================================================================
