--------------------------- MODULE BrowserSession ---------------------------
(***************************************************************************)
(* The headless browsers of Migros and Lidl (migrosBrowser.ts and          *)
(* lidlBrowser.ts of adapters/live): ensureBrowser, which starts one for   *)
(* all of a vendor's callers, and what they do with the page they share.   *)
(*                                                                         *)
(* A start is named by its number, and so are the browser, the context and *)
(* the page it opens.  Its steps wait for Playwright, which closes, opens  *)
(* and navigates or fails by a timeout of its own.  The two vendors differ *)
(* in that Lidl neither closes the old browser nor forgets a failed start. *)
(*                                                                         *)
(* Whoever waits for a start goes on before anything else happens: between *)
(* the promise and its continuations the program does not yield.           *)
(***************************************************************************)
EXTENDS Integers, FiniteSets

CONSTANTS
  None,
  Callers,      \* each with a query of its own
  MaxStarts,    \* bound: how often a browser may be started
  MaxMishaps    \* bound: failures of Playwright and lost pages

ASSUME BrowserAssumption == {MaxStarts, MaxMishaps} \subseteq Nat

VARIABLES
  vendor,
  browser, context, page,  \* browserInstance, contextInstance, migrosPage: 0 is null
  promise,                 \* initializationPromise: the start, 0 is null
  start,                   \* how far each start is
  running,                 \* the browsers whose process runs
  shut,                    \* the pages that are closed
  caller,                  \* [at, start, page, got]
  shown,                   \* whose search each page shows or loads
  mishaps                  \* how often Playwright failed or a page was lost

browserVars == <<vendor, browser, context, page, promise, start, running, shut, caller,
                 shown, mishaps>>
instances == <<browser, context, page>>
processes == <<promise, start, running, shut>>

Starts == 1 .. MaxStarts
Steps == {"closing context", "closing browser", "launching", "opening context",
          "opening page", "going"}
Pending == {s \in Starts : start[s] \in Steps}

Outside == [at |-> "outside", start |-> 0, page |-> 0, got |-> None]

BrowserInit ==
  /\ vendor \in {"migros", "lidl"}
  /\ browser = 0 /\ context = 0 /\ page = 0 /\ promise = 0
  /\ start = [s \in Starts |-> "none"]
  /\ running = {} /\ shut = {}
  /\ caller = [c \in Callers |-> Outside]
  /\ shown = [s \in Starts |-> None] /\ mishaps = 0

IsOpen(p) == p # 0 /\ p \notin shut

\* No caller has yet to go on from a promise that is settled.
Quiet == \A c \in Callers : caller[c].at = "waiting" => caller[c].start \in Pending

\* The browser there is by now is closed before another is launched.
Relaunches(s) ==
  IF vendor = "migros" /\ browser # 0
    THEN /\ start' = [start EXCEPT ![s] = "closing browser"]
         /\ running' = running \ {browser} /\ shut' = shut \cup {browser}
    ELSE /\ start' = [start EXCEPT ![s] = "launching"]
         /\ UNCHANGED <<running, shut>>

Turns(c, at, s) == caller' = [caller EXCEPT ![c].at = at, ![c].start = s]
Ended(how, got) == [Outside EXCEPT !.at = how, !.got = got]
Gets(c, p) ==
  caller' = [caller EXCEPT ![c] = IF p = 0 THEN Ended("refused", None)
                                  ELSE [Outside EXCEPT !.at = "on page", !.page = p]]
Refused(c) == caller' = [caller EXCEPT ![c] = Ended("refused", None)]

-----------------------------------------------------------------------------
(* ensureBrowser.                                                          *)

\* A new start.  Migros first closes what it still has: its context, if there
\* is one, and then its browser.
Begins(c) ==
  \E s \in Starts :
    /\ start[s] = "none" /\ \A older \in 1 .. s - 1 : start[older] # "none"
    /\ promise' = s
    /\ Turns(c, "starting", s)
    /\ \/ /\ vendor = "migros" /\ context # 0
          /\ start' = [start EXCEPT ![s] = "closing context"]
          /\ shut' = shut \cup {context}
          /\ UNCHANGED running
       \/ /\ vendor = "migros" => context = 0
          /\ Relaunches(s)

\* Mutant: nobody waits for a start that another caller began.
WaitsForNothing == FALSE

\* Whether there is a start to wait for.
WaitsForStart == promise # 0

Ensure(c) ==
  /\ caller[c].at = "outside"
  /\ \/ IsOpen(page) /\ Gets(c, page) /\ UNCHANGED processes
     \/ ~ IsOpen(page) /\ WaitsForStart /\ Turns(c, "waiting", promise) /\ UNCHANGED processes
     \/ ~ IsOpen(page) /\ ~ WaitsForStart /\ Begins(c)
  /\ UNCHANGED <<vendor, instances, shown, mishaps>>

\* Mutant: as long as there is a promise, it is waited for.
WaitsOnceMore(c) == Turns(c, "waiting", promise) /\ UNCHANGED processes

\* A start that is over and has left no page is followed by another, even if
\* a caller that waited for the same one has begun it already.
StartsAnother(c) == Begins(c)

\* What comes after waiting: the failed start's error, the page, or a start.
Resume(c) ==
  LET s == caller[c].start
  IN  /\ caller[c].at = "waiting" /\ s \notin Pending
      /\ \/ start[s] = "failed" /\ Refused(c) /\ UNCHANGED processes
         \/ start[s] = "done" /\ IsOpen(page) /\ Gets(c, page) /\ UNCHANGED processes
         \/ start[s] = "done" /\ ~ IsOpen(page) /\ StartsAnother(c)
      /\ UNCHANGED <<vendor, instances, shown, mishaps>>

-----------------------------------------------------------------------------
(* The steps of a start.                                                   *)

Step(s, from, to) == Quiet /\ start[s] = from /\ start' = [start EXCEPT ![s] = to]

ContextClosed(s) ==
  /\ Quiet /\ start[s] = "closing context"
  /\ Relaunches(s)
  /\ UNCHANGED <<vendor, instances, promise, caller, shown, mishaps>>

BrowserClosed(s) ==
  /\ Step(s, "closing browser", "launching")
  /\ UNCHANGED <<vendor, instances, promise, running, shut, caller, shown, mishaps>>

Launch(s) ==
  /\ Step(s, "launching", "opening context")
  /\ browser' = s /\ running' = running \cup {s}
  /\ UNCHANGED <<vendor, context, page, promise, shut, caller, shown, mishaps>>

OpenContext(s) ==
  /\ Step(s, "opening context", "opening page") /\ s \in running
  /\ context' = s
  /\ UNCHANGED <<vendor, browser, page, promise, running, shut, caller, shown, mishaps>>

\* From here on whoever asks is given the page, although it shows nothing yet.
OpenPage(s) ==
  /\ Step(s, "opening page", "going") /\ s \notin shut
  /\ page' = s
  /\ UNCHANGED <<vendor, browser, context, promise, running, shut, caller, shown, mishaps>>

\* The caller that began a start gets the page there is when it ends.
Creator(s) == CHOOSE c \in Callers : caller[c].at = "starting" /\ caller[c].start = s

Arrive(s) ==
  /\ Step(s, "going", "done") /\ s \notin shut
  /\ Gets(Creator(s), page)
  /\ UNCHANGED <<vendor, instances, promise, running, shut, shown, mishaps>>

\* What another start closed, or forgot, makes a start fail for sure.
Doomed(s) == \/ start[s] \in {"opening context", "opening page", "going"} /\ s \notin running
             \/ start[s] \in {"opening page", "going"} /\ s \in shut
             \/ start[s] = "going" /\ page = 0

Mishap == mishaps < MaxMishaps /\ mishaps' = mishaps + 1

\* Migros then forgets what it has, whoever's it is; Lidl keeps it all.
FailStart(s) ==
  /\ Quiet /\ s \in Pending
  /\ start[s] \in {"launching", "opening context", "opening page", "going"}
  /\ IF Doomed(s) THEN UNCHANGED mishaps ELSE Mishap
  /\ start' = [start EXCEPT ![s] = "failed"]
  /\ Refused(Creator(s))
  /\ IF vendor = "migros"
       THEN browser' = 0 /\ context' = 0 /\ page' = 0 /\ promise' = 0
       ELSE UNCHANGED <<instances, promise>>
  /\ UNCHANGED <<vendor, running, shut, shown>>

\* A page crashes or a browser goes away.
Lose(b) ==
  /\ Quiet /\ b \in running /\ Mishap
  /\ \/ b \notin shut /\ page = b /\ UNCHANGED running
     \/ running' = running \ {b}
  /\ shut' = shut \cup {b}
  /\ UNCHANGED <<vendor, instances, promise, start, caller, shown>>

-----------------------------------------------------------------------------
(* The page in use.  Migros runs a request in it and looks at its status;  *)
(* Lidl makes it show the results of a search and reads them off.          *)

Evaluate(c) ==
  /\ Quiet /\ vendor = "migros" /\ caller[c].at = "on page"
  /\ IsOpen(caller[c].page)
  /\ caller' = [caller EXCEPT ![c] = Ended("answered", None)]
  /\ UNCHANGED <<vendor, instances, processes, shown, mishaps>>

\* The page goes away, shows nothing of Migros yet, or is answered by another
\* status than 200, which each of the requests throws.
EvaluateFails(c) ==
  /\ Quiet /\ vendor = "migros" /\ caller[c].at = "on page"
  /\ Refused(c)
  /\ UNCHANGED <<vendor, instances, processes, shown, mishaps>>

\* page.goto of the search; another that is under way is broken off.
Navigate(c) ==
  LET p == caller[c].page
  IN  /\ Quiet /\ vendor = "lidl" /\ caller[c].at = "on page" /\ IsOpen(p)
      /\ shown' = [shown EXCEPT ![p] = c]
      /\ caller' = [d \in Callers |->
           CASE d = c -> [caller[d] EXCEPT !.at = "loading"]
             [] caller[d].at = "loading" /\ caller[d].page = p
                  -> Ended("refused", None)
             [] OTHER -> caller[d]]
      /\ UNCHANGED <<vendor, instances, processes, mishaps>>

Loaded(c) ==
  /\ Quiet /\ caller[c].at = "loading" /\ IsOpen(caller[c].page)
  /\ caller' = [caller EXCEPT ![c].at = "looking"]
  /\ UNCHANGED <<vendor, instances, processes, shown, mishaps>>

\* The products are those the page shows by now; if no grid appears there are
\* none.
ReadOff(c) ==
  /\ Quiet /\ caller[c].at = "looking"
  /\ \E got \in {shown[caller[c].page], None} :
       /\ got # None => IsOpen(caller[c].page)
       /\ caller' = [caller EXCEPT ![c] = Ended("answered", got)]
  /\ UNCHANGED <<vendor, instances, processes, shown, mishaps>>

\* goto and evaluate fail with the page, and by their timeouts; that of another
\* search may break off an evaluate.
Thrown(c) ==
  /\ Quiet /\ vendor = "lidl" /\ caller[c].at \in {"on page", "loading", "looking"}
  /\ Refused(c)
  /\ UNCHANGED <<vendor, instances, processes, shown, mishaps>>

-----------------------------------------------------------------------------

StepOf(s) == \/ ContextClosed(s) \/ BrowserClosed(s) \/ Launch(s) \/ OpenContext(s)
             \/ OpenPage(s) \/ Arrive(s) \/ FailStart(s)

Use(c) == Evaluate(c) \/ EvaluateFails(c) \/ Navigate(c) \/ Loaded(c) \/ ReadOff(c) \/ Thrown(c)

BrowserNext ==
  \/ \E c \in Callers : Ensure(c) \/ Resume(c) \/ Use(c)
  \/ \E s \in Starts : StepOf(s) \/ Lose(s)

\* Playwright's launch and goto and Lidl's waits have timeouts; the request that
\* Migros' page makes has none.
BrowserFairness ==
  /\ \A c \in Callers : WF_browserVars(Resume(c)) /\ WF_browserVars(vendor = "lidl" /\ Use(c))
  /\ \A s \in Starts : WF_browserVars(StepOf(s))

-----------------------------------------------------------------------------

\* "Prevent multiple concurrent initializations": while nothing has gone wrong
\* with one, a vendor has one browser, however many callers came at once.
OneBrowser == mishaps = 0 => Cardinality(running) <= 1 /\ Cardinality(Pending) <= 1

\* Whoever waits for a browser gets the page or an error, whether the start it
\* waits for ends well, fails or leaves a page that is gone; and so a search at
\* Lidl ends.
SessionsAnswer ==
  \A c \in Callers :
    /\ caller[c].at \in {"waiting", "starting"} ~> caller[c].at \notin {"waiting", "starting"}
    /\ vendor = "lidl" /\ caller[c].at = "on page" ~> caller[c].at \in {"answered", "refused"}

=============================================================================
