--------------------------- MODULE PriceComparison --------------------------
(***************************************************************************)
(* What PriceComparisonService (services/priceComparisonService.ts) makes  *)
(* of the products and promotions the chains answered with: offers on a    *)
(* common base unit (util/units.ts), one per chain, name and size, the     *)
(* cheapest, the dearest and the difference between them.  No state.       *)
(*                                                                         *)
(* Money is in Rappen.  A product's content is [value, per], what its      *)
(* price buys; its vendor's unit price is [value, per] too, or None.       *)
(* Names and sizes are compared, never read.                               *)
(***************************************************************************)
EXTENDS Integers, Sequences, FiniteSets, SequencesExt

CONSTANTS
  None,
  Rank         \* the order of texts: localeCompare

\* What vendors write: chains, names, sizes and units.
Texts == DOMAIN Rank

Measure == [value : Nat, per : Texts]

Promotions ==
  [chain : Texts, name : Texts, size : Texts \cup {None}, price : Nat \cup {None},
   content : Measure \cup {None}, vendorUnit : Measure \cup {None}]

PricedProducts == {p \in Promotions : p.price # None}

UnitPrices == [unit : Texts, price : Nat]

Offers ==
  [chain : Texts, name : Texts, size : Texts \cup {None},
   basis : {"product", "promotion"}, total : Nat, unit : UnitPrices \cup {None}]

ASSUME ComparisonAssumption ==
  /\ Rank \in [Texts -> Int]
  /\ {"kg", "l", "piece"} \subseteq Texts
  /\ None \notin Nat \cup Promotions \cup Offers

\* SelectSeq, of which the provers know nothing, by way of flatMap.
Kept(s, Test(_)) ==
  FlattenSeq([i \in DOMAIN s |-> IF Test(s[i]) THEN <<s[i]>> ELSE << >>])

-----------------------------------------------------------------------------
(* Offers.                                                                 *)

\* Math.round(value * 100) / 100, of the quotient of two naturals.
RoundCurrency(n, d) == (2 * n + d) \div (2 * d)

\* What getBaseUnitPrice recognises: the base unit, and how many thousandths
\* of it one of these is.
BaseUnits ==
  [kg    |-> [unit |-> "kg", thousandths |-> 1000],
   hg    |-> [unit |-> "kg", thousandths |-> 100],
   g     |-> [unit |-> "kg", thousandths |-> 1],
   l     |-> [unit |-> "l", thousandths |-> 1000],
   dl    |-> [unit |-> "l", thousandths |-> 100],
   piece |-> [unit |-> "piece", thousandths |-> 1000]]

Recognised(per) == per \in DOMAIN BaseUnits

BaseUnitPrice(price, value, per) ==
  [unit  |-> BaseUnits[per].unit,
   price |-> RoundCurrency(1000 * price, value * BaseUnits[per].thousandths)]

\* The vendor's own unit price, an unknown denomination as it stands.
VendorUnitPrice(p) ==
  IF p.vendorUnit = None \/ p.vendorUnit.value <= 0 THEN None
  ELSE IF Recognised(p.vendorUnit.per)
       THEN BaseUnitPrice(p.vendorUnit.value, 1, p.vendorUnit.per)
       ELSE [unit |-> p.vendorUnit.per, price |-> p.vendorUnit.value]

\* The computed one replaces a vendor's that is missing or rounds to nothing.
UnitPrice(p) ==
  LET vendor == VendorUnitPrice(p) IN
  IF /\ vendor = None \/ vendor.price = 0
     /\ p.content # None
     /\ p.content.value > 0
     /\ Recognised(p.content.per)
  THEN BaseUnitPrice(p.price, p.content.value, p.content.per)
  ELSE vendor

Offer(p, quantity, basis) ==
  [chain |-> p.chain, name |-> p.name, size |-> p.size, basis |-> basis,
   total |-> p.price * quantity, unit |-> UnitPrice(p)]

\* A promotion without a price is no offer, and one above the caller's limit is
\* left out; the adapters do so with products.
Affordable(p, maxPrice) ==
  /\ p.price # None
  /\ \/ maxPrice = None
     \/ p.price <= maxPrice

OffersOf(products, promotions, quantity, maxPrice) ==
  [i \in DOMAIN products |-> Offer(products[i], quantity, "product")]
  \o LET counting == Kept(promotions, LAMBDA p : Affordable(p, maxPrice))
     IN [i \in DOMAIN counting |-> Offer(counting[i], quantity, "promotion")]

-----------------------------------------------------------------------------
(* One offer per chain, name and size.                                     *)

\* Packs whose size nobody states share a key, or their base unit's.
DedupeKey(o) ==
  <<o.chain, o.name,
    IF o.size # None THEN o.size ELSE IF o.unit # None THEN o.unit.unit ELSE None>>

\* Mutant: the last offer of a key is kept.
AlwaysReplaces(new, old) == TRUE

Replaces(new, old) ==
  \/ new.total < old.total
  \/ new.total = old.total /\ new.basis = "promotion"

\* What a pass over the offers with a Map leaves: an offer that replaced those
\* of its key before it, and was replaced by none after it.
Survives(offers, i) ==
  \A j \in DOMAIN offers : DedupeKey(offers[j]) = DedupeKey(offers[i]) =>
    /\ j < i => Replaces(offers[i], offers[j])
    /\ i < j => ~Replaces(offers[j], offers[i])

Dedupe(offers) == {i \in DOMAIN offers : Survives(offers, i)}

-----------------------------------------------------------------------------
(* Comparing.                                                              *)

\* The most frequent base unit, the first in the alphabet of several.
PrimaryUnit(offers, kept) ==
  LET priced == {i \in kept : offers[i].unit # None}
      units == {offers[i].unit.unit : i \in priced}
      count == [u \in units |-> Cardinality({i \in priced : offers[i].unit.unit = u})]
  IN IF units = {} THEN None
     ELSE CHOOSE u \in units : \A v \in units \ {u} :
            \/ count[u] > count[v]
            \/ count[u] = count[v] /\ Rank[u] < Rank[v]

Eligible(o, basis, primary) ==
  \/ basis = "packPrice"
  \/ o.unit # None /\ o.unit.unit = primary

ComparisonPrice(o, basis) == IF basis = "packPrice" THEN o.total ELSE o.unit.price

\* sortOffers(a, b) < 0
Before(a, b, basis, primary) ==
  LET ea == Eligible(a, basis, primary)
      eb == Eligible(b, basis, primary)
      ByPack == \/ a.total < b.total
                \/ a.total = b.total /\ Rank[a.name] < Rank[b.name]
  IN IF basis = "unitPrice" /\ ea # eb THEN ea
     ELSE IF basis = "unitPrice" /\ ea /\ a.unit.price # b.unit.price
          THEN a.unit.price < b.unit.price
          ELSE ByPack

\* The first and the last of the offers sorted; equals stay in their order.
\* There are no savings where nothing can be compared or only one offer is.
Comparison(offers, ask) ==
  LET kept == Dedupe(offers)
      primary == IF ask.basis = "packPrice" THEN "pack" ELSE PrimaryUnit(offers, kept)
      comparable == {i \in kept : Eligible(offers[i], ask.basis, primary)}
      Precedes(i, j) == \/ Before(offers[i], offers[j], ask.basis, primary)
                        \/ ~Before(offers[j], offers[i], ask.basis, primary) /\ i < j
      first == CHOOSE i \in kept : \A j \in kept \ {i} : Precedes(i, j)
      last == CHOOSE i \in comparable : \A j \in comparable \ {i} : Precedes(j, i)
      Price(i) == ComparisonPrice(offers[i], ask.basis)
  IN [offers   |-> {offers[i] : i \in kept},
      unit     |-> primary,
      cheapest |-> IF kept = {} THEN None ELSE offers[first],
      dearest  |-> IF comparable = {} THEN None ELSE offers[last],
      savings  |-> IF comparable = {} \/ first = last THEN None ELSE Price(last) - Price(first)]

=============================================================================
