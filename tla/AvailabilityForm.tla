-------------------------- MODULE AvailabilityForm --------------------------
(***************************************************************************)
(* The form of the page "In der Naehe" (pwa/src/components/                *)
(* AvailabilityView.tsx and ui/suggest-input.tsx): the place the shopper   *)
(* types, picks from the suggestions or takes from the device, and the     *)
(* checks that run against it.  Checks, suggestions and the device's place *)
(* are answered in any order while the shopper goes on.                    *)
(*                                                                         *)
(* A place is the text that names it; coordinates are named by the place   *)
(* they belong to.                                                         *)
(***************************************************************************)
EXTENDS Integers, FiniteSets

CONSTANTS
  None,
  Towns,        \* what may be typed; the empty text is None
  Known,        \* the towns the geocoder finds
  Offered,      \* what is suggested for a text
  Here,         \* where the device is
  MaxEdits,     \* bound: how often the shopper changes the text by typing
  MaxChecks     \* bound: calls of checkLocation

VARIABLES
  typed,        \* location
  coords,       \* userCoords
  status,       \* locationStatus
  checked,      \* checkedLocationRef: the text of the last verdict
  editing,      \* whether the field is shown, or only the pill
  validating, locating,
  checks,       \* the calls of checkLocation that are not answered
  suggest,      \* [timer, asked, options, listed, picked]
  params,       \* what was last asked for: [location, coords]
  edits, calls,
  retyped       \* history: the text has been changed since the last verdict

formVars == <<typed, coords, status, checked, editing, validating, locating, checks,
              suggest, params, edits, calls, retyped>>
verdict == <<status, checked, retyped>>
progress == <<validating, checks, calls>>

\* timer: the text of the debounced request; asked: the requests under way,
\* [text, newest], of which requestIdRef tells the newest; options: the
\* drop-down; listed: locationSuggestions; picked: justSelectedRef.
NoSuggestions ==
  [timer |-> None, asked |-> {}, options |-> {}, listed |-> {}, picked |-> FALSE]

FormInit ==
  /\ typed = None /\ coords = None /\ status = "unchecked" /\ checked = None
  /\ editing = TRUE /\ validating = FALSE /\ locating = FALSE
  /\ checks = {} /\ suggest = NoSuggestions /\ params = None
  /\ edits = 0 /\ calls = 0 /\ retyped = FALSE

-----------------------------------------------------------------------------
(* The suggestions under the field.                                        *)

\* The effect on a changed text: the timer starts anew, unless the text was
\* picked or is too short, which leaves the requests under way as they are.
TextChanged(s, text) ==
  CASE s.picked -> [s EXCEPT !.picked = FALSE, !.timer = None]
    [] ~ s.picked /\ text = None -> [s EXCEPT !.timer = None, !.options = {}]
    [] OTHER -> [s EXCEPT !.timer = text,
                          !.asked = {[a EXCEPT !.newest = FALSE] : a \in @}]

Debounced ==
  /\ suggest.timer # None
  /\ suggest' = [suggest EXCEPT !.timer = None,
                !.asked = @ \cup {[text |-> suggest.timer, newest |-> TRUE]}]
  /\ UNCHANGED <<typed, coords, verdict, editing, progress, locating, params, edits>>

\* An answer is listed whenever it comes, and shown if nothing was asked since.
Suggested ==
  /\ \E a \in suggest.asked, found \in BOOLEAN :
       LET results == IF found THEN Offered[a.text] ELSE {}
           shown == [suggest EXCEPT
             !.asked = @ \ {a},
             !.options = IF a.newest THEN results ELSE @]
       IN  suggest' = IF found THEN [shown EXCEPT !.listed = results] ELSE shown
  /\ UNCHANGED <<typed, coords, verdict, editing, progress, locating, params, edits>>

-----------------------------------------------------------------------------
(* The text.                                                               *)

\* Mutant: the coordinates stay when the text is changed.
CoordsKept == coords

CoordsWhenTyped == None

Type(text) ==
  /\ editing /\ text # typed /\ edits < MaxEdits
  /\ typed' = text /\ coords' = CoordsWhenTyped
  /\ status' = "unchecked" /\ retyped' = TRUE
  /\ suggest' = TextChanged(suggest, text)
  /\ edits' = edits + 1
  /\ UNCHANGED <<checked, editing, progress, locating, params>>

\* A place with coordinates of its own needs no check.
Settle(text) ==
  /\ coords' = text /\ checked' = text /\ status' = "valid" /\ retyped' = FALSE

\* Picking changes the text like typing does, and then looks its coordinates
\* up in the answer that came last, which may be another than the one shown.
Pick(label) ==
  /\ editing /\ label \in suggest.options
  /\ typed' = label
  /\ IF label \in suggest.listed
       THEN Settle(label)
       ELSE coords' = None /\ status' = "unchecked" /\ retyped' = TRUE /\ UNCHANGED checked
  /\ suggest' = LET s == [suggest EXCEPT !.options = {}, !.picked = TRUE]
                IN  IF label = typed THEN s ELSE TextChanged(s, label)
  /\ UNCHANGED <<editing, progress, locating, params, edits>>

Locate ==
  /\ editing /\ ~ locating
  /\ locating' = TRUE
  /\ UNCHANGED <<typed, coords, verdict, editing, progress, suggest, params, edits>>

\* The device's place has a name, found by the geocoder; or something failed.
Located ==
  /\ locating /\ locating' = FALSE
  /\ \/ /\ typed' = Here /\ Settle(Here) /\ editing' = FALSE
        /\ suggest' = IF typed = Here THEN suggest ELSE TextChanged(suggest, Here)
     \/ UNCHANGED <<typed, coords, verdict, editing, suggest>>
  /\ UNCHANGED <<progress, params, edits>>

-----------------------------------------------------------------------------
(* The checks.                                                             *)

\* validateLocation for some purposes, of which each that finds no verdict for
\* the text calls the service.
NoVerdict == typed # None /\ checked # typed

Calls(purposes) ==
  /\ calls + Cardinality(purposes) <= MaxChecks
  /\ calls' = calls + Cardinality(purposes)
  /\ checks' = checks \cup {[text |-> typed, why |-> why] : why \in purposes}
  /\ validating' = (validating \/ purposes # {})

Params(place, at) == [location |-> place, coords |-> at]

Blur ==
  /\ editing /\ NoVerdict
  /\ Calls({"blur"})
  /\ UNCHANGED <<typed, coords, verdict, editing, locating, suggest, params, edits>>

\* A field without text has nothing to be blamed for.
BlurEmpty ==
  /\ editing /\ typed = None /\ status # "unchecked"
  /\ status' = "unchecked"
  /\ UNCHANGED <<typed, coords, checked, retyped, editing, progress, locating, suggest,
                 params, edits>>

\* submit takes the focus from the field first, which may start a check of its
\* own.  What has coordinates, or a verdict that is not bad, is asked for.
Submit ==
  /\ typed # None /\ ~ validating
  /\ \E focused \in BOOLEAN :
       LET purposes == {why \in {"blur", "submit"} :
                          /\ NoVerdict
                          /\ why = "blur" => focused /\ editing
                          /\ why = "submit" => coords = None}
       IN  Calls(purposes)
  /\ params' = IF coords # None \/ (~ NoVerdict /\ status # "invalid")
                 THEN Params(typed, coords) ELSE params
  /\ UNCHANGED <<typed, coords, verdict, editing, locating, suggest, edits>>

\* The button "Fertig" turns the field into the pill.
Finish ==
  /\ editing /\ typed # None /\ status # "invalid" /\ ~ validating
  /\ IF NoVerdict
       THEN Calls({"finish"}) /\ UNCHANGED editing
       ELSE editing' = FALSE /\ UNCHANGED progress
  /\ UNCHANGED <<typed, coords, verdict, locating, suggest, params, edits>>

\* A field that is mounted anew asks for what it shows; what the one before it
\* asked for is still listed, but not shown.
Remounted(s, text) ==
  [NoSuggestions EXCEPT !.timer = text, !.listed = s.listed,
                        !.asked = {[a EXCEPT !.newest = FALSE] : a \in s.asked}]

\* The button of the pill; the field was gone by then.
Reopen ==
  /\ ~ editing /\ editing' = TRUE
  /\ suggest' = Remounted(suggest, typed)
  /\ UNCHANGED <<typed, coords, verdict, progress, locating, params, edits>>

\* Mutant: what was checked before is still thought to be.
StillChecked == checked

CheckedAfterFailure == None

\* The verdict, whatever the text is by now.  A service that cannot be reached
\* is no obstacle; one that answers with an error finds nothing.
Answered(k) ==
  /\ k \in checks /\ checks' = checks \ {k} /\ validating' = FALSE
  /\ \E answers \in BOOLEAN, found \in {k.text \in Known, FALSE} :
       LET passes == answers => found
       IN  /\ checked' = IF answers THEN k.text ELSE CheckedAfterFailure
           /\ status' = CASE ~ answers -> "unchecked"
                          [] answers /\ passes -> "valid"
                          [] OTHER -> "invalid"
           /\ retyped' = FALSE
           /\ params' = IF k.why = "submit" /\ passes THEN Params(k.text, None) ELSE params
           /\ editing' = (editing /\ ~ (k.why = "finish" /\ passes))
  /\ UNCHANGED <<typed, coords, locating, suggest, edits, calls>>

FormNext ==
  \/ Debounced \/ Suggested \/ Locate \/ Located \/ Blur \/ BlurEmpty \/ Submit \/ Finish
  \/ Reopen
  \/ \E text \in Towns \cup {None} : Type(text) \/ Pick(text)
  \/ \E k \in checks : Answered(k)

-----------------------------------------------------------------------------

\* The stores are ranked by coordinates when there are some, whatever the text
\* says: what is asked for has none but those of the place it names.
CoordsAreOfThePlace == params # None => params.coords \in {None, params.location}

\* A place whose last verdict is that the geocoder does not find it is asked
\* for only if the text was changed, and changed back, since.
RefusedOnlyIfRetyped ==
  [][ /\ params' # params /\ params'.coords = None
      /\ checked' = params'.location /\ params'.location \notin Known
      => retyped ]_formVars

=============================================================================
