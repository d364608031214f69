----------------------------- MODULE BrowserApp -----------------------------
(***************************************************************************)
(* The progressive web app (pwa/src/App.tsx): its tabs stay mounted once   *)
(* they have been visited and share nothing but the screen, so what one of *)
(* them does is a behaviour of the app in which the others rest.           *)
(***************************************************************************)
EXTENDS ChatThreads, AvailabilityForm, SearchPage

VARIABLE tab

appVars == <<tab, vars, formVars, searchVars>>

AppInit == tab \in {"chat", "availability", "search"} /\ Init /\ FormInit /\ SearchInit

AppNext ==
  \/ tab = "chat" /\ Next /\ UNCHANGED <<tab, formVars, searchVars>>
  \/ tab = "availability" /\ FormNext /\ UNCHANGED <<tab, vars, searchVars>>
  \/ tab = "search" /\ SearchNext /\ UNCHANGED <<tab, vars, formVars>>

AppSpec == AppInit /\ [][AppNext]_appVars

=============================================================================
