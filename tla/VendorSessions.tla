--------------------------- MODULE VendorSessions ---------------------------
(***************************************************************************)
(* The ways in which the program reaches others: HTTP requests to a host,  *)
(* the pages of a browser and the geocoders.  They share nothing: each     *)
(* behaviour is followed on one of them.                                   *)
(***************************************************************************)
EXTENDS SourceHttpClient, BrowserSession, Geocoder

VARIABLE way

vars == <<way, httpVars, browserVars, geoVars>>

Init ==
  /\ way \in {"http", "browser", "geocoder"}
  /\ HttpInit /\ BrowserInit /\ (way # "browser" => vendor = "lidl") /\ GeocoderInit

Next ==
  \/ way = "http" /\ HttpNext /\ UNCHANGED <<way, browserVars, geoVars>>
  \/ way = "browser" /\ BrowserNext /\ UNCHANGED <<way, httpVars, geoVars>>
  \/ way = "geocoder" /\ GeocoderNext /\ UNCHANGED <<way, httpVars, browserVars>>

Spec == Init /\ [][Next]_vars /\ BrowserFairness

=============================================================================
