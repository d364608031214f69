----------------------------- MODULE VendorLoads ----------------------------
(***************************************************************************)
(* How the vendor adapters (adapters/live) and the web discovery load what *)
(* they need through the file cache: read the cache; unless that was good  *)
(* enough, ask the vendor; store the answer; and where anything in between *)
(* throws, fall back on what the cache had.                                *)
(*                                                                         *)
(* The methods are variations of one theme, and a Kind says which:         *)
(*   abort     what becomes of the caller's abort: "thrown", "hidden" by   *)
(*             the fallback, or "unheard": no signal is passed             *)
(*   token     the request needs a guest token, and is retried with a new  *)
(*             one when the vendor refuses it                              *)
(*   nothing   an answer that holds nothing is "stored" like any other,    *)
(*             stored as "negative", or not stored and reported as "empty" *)
(*             or as "failed"                                              *)
(*   masks     a failure is reported as an empty ok                        *)
(*   enriches  the products are completed by more requests after the set   *)
(*   serves    which cache hits do without a request; `stale` is allowStale *)
(***************************************************************************)
EXTENDS FileTtlCache

CONSTANTS
  KindOf,       \* the kind of load that uses a key
  MaxIncidents  \* bound: how many prunes, crashes and aborts a behaviour has

Adapter(abort, nothing) ==
  [abort |-> abort, nothing |-> nothing, token |-> FALSE, enriches |-> FALSE,
   masks |-> FALSE, serves |-> {"fresh", "soft"}, stale |-> TRUE, tier |-> "ttl"]

LoadJson == Adapter("thrown", "stored")
CoopSearch == [Adapter("hidden", "stored") EXCEPT !.enriches = TRUE]
CoopStores == Adapter("unheard", "stored")
CoopProduct == Adapter("unheard", "stored")
LidlSearch == Adapter("thrown", "stored")
LidlProduct == Adapter("unheard", "empty")
LidlStores == Adapter("unheard", "stored")
MigrosSearch == [Adapter("thrown", "stored") EXCEPT !.token = TRUE]
MigrosCards == [Adapter("unheard", "stored") EXCEPT !.token = TRUE]
MigrosPromotions == [Adapter("unheard", "stored") EXCEPT !.token = TRUE]
MigrosStores == [Adapter("unheard", "stored") EXCEPT !.token = TRUE]
DennerPromotions == Adapter("hidden", "stored")
DennerOffers == [DennerPromotions EXCEPT !.masks = TRUE]
DennerSearch == [Adapter("hidden", "empty") EXCEPT !.masks = TRUE]
AldiSitemap == Adapter("hidden", "stored")
AldiProduct == Adapter("hidden", "failed")
AldiStores == Adapter("unheard", "stored")
OttosSearch == LoadJson
OttosStores == [LoadJson EXCEPT !.abort = "unheard"]
VolgSearch == LoadJson

\* The mapping of a query to products: what is stale also "needs a refresh",
\* and is served for that.
Discovery == [Adapter("unheard", "negative") EXCEPT
               !.serves = {"fresh", "soft", "stale"}, !.stale = FALSE,
               !.tier = "discovery"]

Kinds == {LoadJson, CoopSearch, CoopStores, CoopProduct, LidlSearch, LidlProduct,
          LidlStores, MigrosSearch, MigrosCards, MigrosPromotions, MigrosStores,
          DennerPromotions, DennerOffers, DennerSearch, AldiSitemap, AldiProduct,
          AldiStores, OttosSearch, OttosStores, VolgSearch, Discovery}

ASSUME KindsAssumption ==
  KindOf \in [Keys -> Kinds] /\ {"ttl", "discovery", "empty"} = Tiers

VARIABLES
  load,         \* the load of each call: [at, aborted, vendor, signedIn, retried, result]
  auth          \* each process's guest token: MigrosLiveAdapter's two fields

loadVars == <<load, auth>>
vars == <<fileVars, load, auth>>

Kind(o) == KindOf[op[o].key]

Init ==
  /\ FilesInit([k \in Keys |-> KindOf[k].tier])
  /\ load = [o \in Ops |->
              [at |-> "idle", aborted |-> FALSE, vendor |-> "unasked",
               signedIn |-> FALSE, retried |-> FALSE, result |-> "none"]]
  /\ auth = [p \in Procs |-> "none"]

-----------------------------------------------------------------------------

Incidents ==
  Cardinality({p \in Prunes : prune[p].at # "idle"})
    + Cardinality({o \in Ops : load[o].aborted})
    + Cardinality({op[o].proc : o \in {n \in Ops : op[n].at = "over"}})

MayHappen == Incidents < MaxIncidents

Active(o) == load[o].at \notin {"idle", "done"}

\* A discovery under way is shared by whoever asks for the same.
Shared(k, p) ==
  /\ KindOf[k] = Discovery
  /\ \E o \in Ops : Active(o) /\ op[o].key = k /\ op[o].proc = p

Done(o, result) ==
  load' = [load EXCEPT ![o].at = "done", ![o].result = result]

\* Products, live or from the cache, may have to be enriched yet.
Delivered(o, result) ==
  IF Kind(o).enriches THEN load' = [load EXCEPT ![o].at = "enriching"]
                      ELSE Done(o, result)

\* The cache read is outside every try.
Start(o, k, p) ==
  /\ load[o].at = "idle" /\ ~ Shared(k, p)
  /\ Get(o, k, p)
  /\ IF op'[o].at = "threw" THEN Done(o, "threw")
                             ELSE load' = [load EXCEPT ![o].at = "loading"]
  /\ UNCHANGED auth

\* What is good enough is delivered.
Read(o) ==
  /\ Judge(o, Kind(o).stale)
  /\ IF op'[o].at = "caller" /\ op'[o].found \in Kind(o).serves
       THEN Delivered(o, "hit") ELSE UNCHANGED load
  /\ UNCHANGED auth

Asking(o) == load[o].at = "loading" /\ op[o].at = "caller"

Leave(o) ==
  /\ Active(o) /\ ~ load[o].aborted /\ Kind(o).abort # "unheard" /\ MayHappen
  /\ load' = [load EXCEPT ![o].aborted = TRUE]
  /\ UNCHANGED <<fileVars, auth>>

\* What was thrown on the way is a warning; the cached copy is served, if any.
FallBack(o, vendor) ==
  load' = [load EXCEPT ![o].at = "done", ![o].vendor = vendor,
    ![o].result = IF op[o].found # "none" THEN "stale"
                  ELSE IF Kind(o).masks THEN "empty" ELSE "failed"]

-----------------------------------------------------------------------------
(* The vendor's side.                                                      *)

\* ensureAuth: a token known to be good, or a new one, which may not be had.
SignIn(o) ==
  LET p == op[o].proc
  IN  /\ Asking(o) /\ Kind(o).token /\ ~ load[o].signedIn
      /\ \/ /\ auth' = [auth EXCEPT ![p] = "token"]
            /\ load' = [load EXCEPT ![o].signedIn = TRUE]
         \/ /\ auth[p] # "token"
            /\ auth' = [auth EXCEPT ![p] = "failed"]
            /\ FallBack(o, "failed")
      /\ UNCHANGED fileVars

Ready(o) == Asking(o) /\ (Kind(o).token => load[o].signedIn)

VendorAnswers(o) ==
  /\ Ready(o)
  /\ load' = [load EXCEPT ![o].vendor = "answered"]
  /\ Open(o, Kind(o).tier)
  /\ UNCHANGED auth

VendorHasNothing(o) ==
  /\ Ready(o) /\ Kind(o).nothing # "stored"
  /\ IF Kind(o).nothing = "negative"
       THEN /\ load' = [load EXCEPT ![o].vendor = "answered"]
            /\ Open(o, "empty")
       ELSE Done(o, Kind(o).nothing) /\ UNCHANGED fileVars
  /\ UNCHANGED auth

VendorFails(o) == Ready(o) /\ FallBack(o, "failed") /\ UNCHANGED <<fileVars, auth>>

\* A refused token is replaced once, unless somebody just failed to get one.
TokenRefused(o) ==
  LET p == op[o].proc
  IN  /\ Ready(o) /\ Kind(o).token
      /\ ~ load[o].retried /\ auth[p] # "failed"
      /\ auth' = [auth EXCEPT ![p] = "none"]
      /\ load' = [load EXCEPT ![o].retried = TRUE, ![o].signedIn = FALSE]
      /\ UNCHANGED fileVars

\* The retry swallows an abort like any other failure.
AbortNoticed(o) ==
  /\ Asking(o) /\ load[o].aborted
  /\ IF Kind(o).abort = "hidden" \/ load[o].retried
       THEN FallBack(o, "aborted") ELSE Done(o, "cancelled")
  /\ UNCHANGED <<fileVars, auth>>

-----------------------------------------------------------------------------
(* After the set.                                                          *)

\* A set that throws is taken for a failure of the vendor.
Publish(o) ==
  /\ Rename(o)
  /\ IF op'[o].at = "stored" THEN Delivered(o, "live") ELSE FallBack(o, "answered")
  /\ UNCHANGED auth

Enriched(o) ==
  /\ load[o].at = "enriching"
  /\ Done(o, IF op[o].at = "stored" THEN "live" ELSE "hit")
  /\ UNCHANGED <<fileVars, auth>>

\* Live products are enriched inside the try, cached ones outside.
EnrichmentAborted(o) ==
  /\ load[o].at = "enriching" /\ load[o].aborted
  /\ IF op[o].at = "stored" THEN FallBack(o, "aborted") ELSE Done(o, "cancelled")
  /\ UNCHANGED <<fileVars, auth>>

Killed(p) ==
  /\ Crash(p) /\ MayHappen
  /\ load' = [o \in Ops |-> IF op[o].proc = p /\ Active(o)
                              THEN [load[o] EXCEPT !.at = "done"] ELSE load[o]]
  /\ auth' = [auth EXCEPT ![p] = "none"]

\* Each cache of a process prunes at its start and every hour, whoever else does.
PeriodicPrune(p) == MayHappen /\ Prune(p) /\ UNCHANGED loadVars

Proceeds(o) ==
  \/ Read(o) \/ Publish(o)
  \/ (Delete(o) \/ Write(o)) /\ UNCHANGED loadVars
  \/ SignIn(o) \/ VendorFails(o) \/ Enriched(o)

LoadStep(o) ==
  \/ Proceeds(o)
  \/ VendorAnswers(o) \/ VendorHasNothing(o) \/ TokenRefused(o)
  \/ Leave(o) \/ AbortNoticed(o) \/ EnrichmentAborted(o)

Next ==
  \/ \E o \in Ops :
       \/ \E k \in Keys, p \in Procs : Start(o, k, p)
       \/ LoadStep(o)
  \/ \E p \in Procs : Killed(p)
  \/ \E p \in Prunes : PeriodicPrune(p)
  \/ \E p \in Prunes : PruneStep(p) /\ UNCHANGED loadVars
  \/ Elapses /\ UNCHANGED loadVars

Spec == Init /\ [][Next]_vars

-----------------------------------------------------------------------------

\* What the vendor answered reaches the caller: a load that reports a failure
\* or serves a stale copy had a vendor that failed, a caller that left, or a
\* twin in its own process that took its temporary file away.  Nothing another
\* process, a prune or a crash does can have that effect.
FallbackIsExplained ==
  \A o \in Ops :
    load[o].result \in {"stale", "failed", "empty"} /\ load[o].vendor = "answered" =>
      <<op[o].key, op[o].proc>> \in twins

=============================================================================
