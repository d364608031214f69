--------------------------- MODULE ProductCatalogue -------------------------
(***************************************************************************)
(* CatalogService (catalog/catalogService.ts), a SQLite table of every     *)
(* product seen and what was last read of it, whose calls are synchronous. *)
(* A product keeps its status and two counts of failed look-ups: those in  *)
(* which the vendor could not be asked (transient) and those in which it   *)
(* did not have the product (gone).                                        *)
(*                                                                         *)
(* catalog/observationValidation.ts decides whether a reading is accepted. *)
(* A label stands for the name and the package size of a product, which    *)
(* are similar enough for it or not.                                       *)
(***************************************************************************)
EXTENDS Integers, Sequences, FiniteSets

CONSTANTS
  Products,
  Limit,       \* failures that change the status: 3
  Readings     \* [price, promo, label]; a promo of 0 is none

ASSUME CatalogueAssumption ==
  /\ Limit \in Nat \ {0}
  /\ Readings \subseteq [price : Int, promo : Nat, label : STRING]

VARIABLES
  product,     \* products
  latest       \* the latest of a product's product_observations

catalogueVars == <<product, latest>>

Statuses == {"unknown", "active", "suspected_removed", "removed"}
Row == [status : Statuses, transient : Nat, gone : Nat]

Unread == [price |-> 0, promo |-> 0, label |-> "none", status |-> "none"]

CatalogueInit ==
  /\ product = [p \in Products |-> [status |-> "unknown", transient |-> 0, gone |-> 0]]
  /\ latest = [p \in Products |-> Unread]

-----------------------------------------------------------------------------
(* Readings.                                                               *)

\* normalizedSimilarity, and the comparison of sizes.
Alike(new, old) == new.label = old.label

\* validateObservation: rules 3 to 6 need an accepted baseline.
Suspicious(new, old) ==
  /\ old.status = "accepted"
  /\ \/ new.promo > new.price
     \/ 4 * new.price < old.price
     \/ new.price > 2 * old.price
     \/ ~ Alike(new, old)

\* resolveWithPriorPending: a second suspicious reading in a row is believed.
Judged(new, old) ==
  IF Suspicious(new, old) /\ old.status # "pending" THEN "pending" ELSE "accepted"

\* Within the deduplication window a reading like the last one is not stored.
SameAs(new, old) ==
  /\ old.status = "accepted"
  /\ <<new.price, new.promo, new.label>> = <<old.price, old.promo, old.label>>

\* The baseline's name and size are the product's own, whether or not its last
\* reading was stored.
Stored(p, new, within) ==
  LET old == latest[p]
  IN  IF new.price <= 0 \/ (within /\ SameAs(new, old)) THEN [old EXCEPT !.label = new.label]
      ELSE [price |-> new.price, promo |-> new.promo, label |-> new.label,
            status |-> Judged(new, old)]

-----------------------------------------------------------------------------
(* Sightings and failures.                                                 *)

\* Mutant: a sighting forgets what failed, and not that the product was gone.
SeenForgetful(row) == [row EXCEPT !.status = "active", !.transient = 0]

Seen(row) == [status |-> "active", transient |-> 0, gone |-> 0]

Missed(row) ==
  [row EXCEPT !.transient = @ + 1,
              !.status = IF row.transient + 1 >= Limit THEN "suspected_removed" ELSE @]

Gone(row) ==
  [row EXCEPT !.gone = @ + 1,
              !.status = IF row.gone + 1 >= Limit THEN "removed" ELSE @]

\* recordHydrationFailure knows only the products it has.
AfterMiss(row, kind) ==
  IF row.status = "unknown" THEN row
  ELSE IF kind = "transient" THEN Missed(row) ELSE Gone(row)

\* A batch of look-ups: some products seen, some missed in one way.
Record(seen, missed, kind, reading, within) ==
  /\ product' = [p \in Products |->
                   IF p \in seen THEN Seen(product[p])
                   ELSE IF p \in missed THEN AfterMiss(product[p], kind) ELSE product[p]]
  /\ latest' = [p \in Products |->
                   IF p \in seen THEN Stored(p, reading, within) ELSE latest[p]]

\* upsertFromNormalizedProduct
Upsert(p, reading, within) == Record({p}, {}, "none", reading, within)

RecordHydrationFailure(p, kind) ==
  /\ product' = [product EXCEPT ![p] = AfterMiss(@, kind)]
  /\ UNCHANGED latest

\* search: removed products are not found any more.
Searchable(p) == product[p].status \in {"active", "suspected_removed"}

CatalogueNext ==
  \E p \in Products :
    \/ \E reading \in Readings, within \in BOOLEAN : Upsert(p, reading, within)
    \/ \E kind \in {"transient", "gone"} : RecordHydrationFailure(p, kind)

CatalogueSpec == CatalogueInit /\ [][CatalogueNext]_catalogueVars

-----------------------------------------------------------------------------

CatalogueTypeOK == product \in [Products -> Row]

\* What is said of a product has been earned since it was last seen: a product
\* under suspicion was missed Limit times, a removed one was gone as often, an
\* active one neither.
StatusEarned ==
  \A p \in Products :
    /\ product[p].status \in {"unknown", "active"}
         => product[p].transient < Limit /\ product[p].gone < Limit
    /\ product[p].status = "suspected_removed" => product[p].transient >= Limit
    /\ product[p].status = "removed" => product[p].gone >= Limit

=============================================================================
