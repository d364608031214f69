--------------------------- MODULE ProductServices --------------------------
(***************************************************************************)
(* What searches for products ask of the vendors beside the fan-out: the   *)
(* discovery of a query's products on the web                              *)
(* (services/webProductSearchService.ts), and the requests that run in     *)
(* waves (services/searchService.ts, services/priceComparisonService.ts).  *)
(* They share nothing: a behaviour follows one of them.                    *)
(***************************************************************************)
EXTENDS WebDiscovery, StoreLookups

VARIABLE service

serviceVars == <<service, queryVars, vars>>

ServicesInit == service \in {"discovery", "lookups"} /\ DiscoveryInit /\ Init

ServicesNext ==
  \/ service = "discovery" /\ DiscoveryNext /\ UNCHANGED <<service, vars>>
  \/ service = "lookups" /\ Next /\ UNCHANGED <<service, queryVars>>

ServicesSpec ==
  ServicesInit /\ [][ServicesNext]_serviceVars /\ DiscoveryFairness /\ Fairness

=============================================================================
