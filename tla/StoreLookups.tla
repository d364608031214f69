----------------------------- MODULE StoreLookups ---------------------------
(***************************************************************************)
(* The requests that ask several vendors in waves: findStores,             *)
(* searchPromotions, lookupAvailabilityByLocation (stores first) and       *)
(* lookupAvailabilityByLocationProductsFirst of services/searchService.ts, *)
(* and comparePrices of services/priceComparisonService.ts, as the HTTP    *)
(* handlers of web/server.ts call them.                                    *)
(*                                                                         *)
(* A wave is a Promise.all of calls, each raced with a timeout             *)
(* (util/timeout.ts): a call ends with the vendor's answer, with the       *)
(* timeout or by throwing.  An answer after the timeout is not looked at.  *)
(* The next wave starts when every call of the last one has ended.         *)
(*                                                                         *)
(* One request is followed, from its start to its outcome.                 *)
(***************************************************************************)
EXTENDS PriceComparison

CONSTANTS
  Adapters,    \* the chains in the order of their adapters
  ByStore,     \* chains whose adapter asks about one store (Migros); others
               \* ask for an area (Coop)
  ByPoint,     \* or for the service points of one, each by itself (Aldi)
  StoresOf,    \* a chain's stores, in its vendor's order
  OpenNow,     \* isStoreOpen of a store: TRUE, FALSE or None
  Found,       \* what searchProducts of a chain may answer: sequences
  Promoted,    \* what searchPromotions may answer
  Requests,    \* [kind, chains, limit, inStockOnly, openNow, promotions,
               \*  quantity, maxPrice, basis]
  Running,     \* a call that has not ended
  Failed       \* one that ended with ok: false, the timeout included

SetOf(s) == {s[i] : i \in DOMAIN s}

Vendors == SetOf(Adapters)

Kinds == {"compare", "promotions", "stores", "storesFirst", "productsFirst"}

ASSUME LookupsAssumption ==
  /\ Adapters \in Seq(Texts)
  /\ \A c \in Vendors :
       /\ Found[c] \subseteq Seq({p \in PricedProducts : p.chain = c})
       /\ Promoted[c] \subseteq Seq(Promotions)
       /\ StoresOf[c] \in Seq(Texts)
       /\ \A d \in Vendors \ {c} : SetOf(StoresOf[c]) \cap SetOf(StoresOf[d]) = {}
  /\ \A r \in Requests :
       /\ r.kind \in Kinds
       /\ r.chains \subseteq Vendors
       /\ r.limit \in Nat \cup {None}
       /\ r.quantity \in Nat
       /\ r.basis \in {"packPrice", "unitPrice"}
  /\ None \notin Requests

VARIABLES
  request,
  wave,        \* [what, product, calls]: how each call of the wave ended
  products,    \* what the wave "products" gave: a sequence
  promotions,  \* and the wave "promotions"
  listed,      \* the stores the last wave "stores" gave
  rows,        \* [product, store, answer], once a wave "stock" is over
  left,        \* products first: the products whose stock is not yet asked for
  outcome,     \* [how, what]: what, unless it is a Comparison or
               \* in rows
  stock        \* which product is in stock in which store: <<product, store>>

vars == <<request, wave, products, promotions, listed, rows, left, outcome, stock>>

NoWave == [what |-> "none", product |-> None, calls |-> << >>]

Wave(what, product, targets) ==
  [what |-> what, product |-> product, calls |-> [t \in targets |-> Running]]

Init ==
  /\ request = None
  /\ wave = NoWave
  /\ products = << >>
  /\ promotions = << >>
  /\ listed = {}
  /\ rows = {}
  /\ left = << >>
  /\ outcome = None
  /\ stock = {}

StoresOfAll == UNION {SetOf(StoresOf[c]) : c \in Vendors}
StoreChain(store) == CHOOSE c \in Vendors : store \in SetOf(StoresOf[c])
ProductsOf(c) == UNION {SetOf(s) : s \in Found[c]}

-----------------------------------------------------------------------------
(* A request starts with the wave of its kind.  What is in stock meanwhile *)
(* matters only to the requests that ask.                                  *)

FirstWave(kind) ==
  CASE kind \in {"compare", "productsFirst"} -> "products"
    [] kind = "promotions" -> "promotions"
    [] OTHER -> "stores"

StartRequest(r) ==
  /\ request = None
  /\ request' = r
  /\ wave' = Wave(FirstWave(r.kind), None, r.chains)
  /\ stock' \in IF r.kind \in {"storesFirst", "productsFirst"}
                THEN SUBSET UNION {ProductsOf(c) \X SetOf(StoresOf[c]) : c \in r.chains}
                ELSE {{}}
  /\ UNCHANGED <<products, promotions, listed, rows, left, outcome>>

-----------------------------------------------------------------------------
(* Calls.                                                                  *)

(* What an adapter's lookupStoreProductAvailability makes of a product.    *)

\* Migros asks about the store, and its match does not name it.
StockAtStore(p, s) == {[supported |-> TRUE, at |-> << >>, is |-> <<p, s>> \in stock]}

\* Others ask for the stores of an area, which need not be around the store.
Area(at) == [supported |-> TRUE, at |-> at, is |-> \E x \in DOMAIN at : at[x]]

StockInArea(c, p) ==
  {Area([x \in area |-> <<p, x>> \in stock]) : area \in SUBSET SetOf(StoresOf[c])}

\* Aldi asks each of them again; one whose answer fails counts as without.
StockOfPoints(c, p) ==
  UNION {{Area([x \in area |-> x \in answering /\ <<p, x>> \in stock]) :
            answering \in SUBSET area} : area \in SUBSET SetOf(StoresOf[c])}

StockOf(c, p, s) ==
  IF c \in ByStore THEN StockAtStore(p, s)
  ELSE IF c \in ByPoint THEN StockOfPoints(c, p) ELSE StockInArea(c, p)

\* Nothing found, or an error: the adapters answer ok, supported or not.
NoStock == {[supported |-> b, at |-> << >>, is |-> FALSE] : b \in BOOLEAN}

\* Mutant: the caller's product is not passed on.
PassedNothing(p) == None

\* The product a "stock" call passes to the adapter.
Passed(p) == p

\* Without a product the adapter takes the first hit of its own search.
Asked(c, p) == IF Passed(p) # None THEN {Passed(p)} ELSE ProductsOf(c)

StockAnswers(s) ==
  LET c == StoreChain(s) IN
  NoStock \cup UNION {StockOf(c, p, s) : p \in Asked(c, wave.product)}

\* searchProducts of an adapter.
ProductsAnswered(c) ==
  {Kept(s, LAMBDA p : Affordable(p, request.maxPrice)) : s \in Found[c]}

\* findStores of an adapter, from its cache or its vendor.
StoresAnswered(c) == {StoresOf[c], << >>, Failed}

Answers(t) ==
  CASE wave.what = "products" -> ProductsAnswered(t) \cup {Failed}
    [] wave.what = "promotions" -> Promoted[t] \cup {Failed}
    [] wave.what = "stores" -> StoresAnswered(t)
    [] OTHER -> StockAnswers(t)

Ends(t, a) ==
  /\ wave.calls[t] = Running
  /\ wave' = [wave EXCEPT !.calls[t] = a]
  /\ UNCHANGED <<request, products, promotions, listed, rows, left, stock>>

Active == outcome = None /\ wave.what # "none"

Answer(t) ==
  /\ Active
  /\ \E a \in Answers(t) : Ends(t, a)
  /\ UNCHANGED outcome

\* Mutant: the stock of a store is waited for.
RacedButStock == wave.what \in {"promotions", "stores"}

\* The search of the products-first look-up is the service's own, which is
\* not raced once more.
Raced == ~(request.kind = "productsFirst" /\ wave.what = "products")

Overrun(t) ==
  /\ Active
  /\ Raced
  /\ Ends(t, Failed)
  /\ UNCHANGED outcome

\* An adapter that throws, a damaged cache file for one.  Only the look-ups of
\* stock catch it; elsewhere Promise.all rejects at once, and the request.
Throw(t) ==
  /\ Active
  /\ Ends(t, Failed)
  /\ outcome' = IF wave.what = "stock" THEN None ELSE [how |-> "rejected", what |-> None]

-----------------------------------------------------------------------------
(* The end of a wave.                                                      *)

Over == Active /\ \A t \in DOMAIN wave.calls : wave.calls[t] # Running

Succeeded == {c \in DOMAIN wave.calls : wave.calls[c] # Failed}

Cut(s, n) == IF n # None /\ n < Len(s) THEN SubSeq(s, 1, n) ELSE s

\* What they answered with, in the order of the adapters, up to n of each.
FirstOfEach(n) ==
  FlattenSeq([i \in DOMAIN Adapters |->
    IF Adapters[i] \in Succeeded THEN Cut(wave.calls[Adapters[i]], n) ELSE << >>])

Gathered == FirstOfEach(None)

\* The first n when they are sorted by name; equals stay in their order.
FirstByName(stores, n) ==
  LET Precede(j) == {i \in DOMAIN stores :
                      \/ Rank[stores[i]] < Rank[stores[j]]
                      \/ Rank[stores[i]] = Rank[stores[j]] /\ i < j}
  IN {stores[j] : j \in {k \in DOMAIN stores : n # None => Cardinality(Precede(k)) < n}}

\* findStores: with a limit, every chain that answered gets an equal share,
\* at least one store; without one, and of a single chain, all are sorted.  What
\* was found is bound, so that TLC computes it once.
FoundStores(limit) ==
  LET n == Cardinality(Succeeded)
      share == IF limit # None /\ n > 1
               THEN IF limit \div n > 1 THEN limit \div n ELSE 1
               ELSE None
  IN UNION {FirstByName(found, limit) : found \in {FirstOfEach(share)}}

Ended(how, what) ==
  /\ outcome' = [how |-> how, what |-> what]
  /\ wave' = NoWave

Done(what) == Ended("answered", what)

Continue == UNCHANGED <<request, stock>>

\* comparePrices: the offers of the products, then those of the promotions.
RawOffers == OffersOf(products, promotions, request.quantity, request.maxPrice)

ProductsCompared ==
  /\ Over /\ request.kind = "compare" /\ wave.what = "products"
  /\ products' = Gathered
  /\ IF request.promotions
     THEN wave' = Wave("promotions", None, request.chains) /\ UNCHANGED outcome
     ELSE Done(None)
  /\ Continue /\ UNCHANGED <<promotions, listed, rows, left>>

\* The promotions of a comparison, or of searchPromotions.
PromotionsFound ==
  /\ Over /\ wave.what = "promotions"
  /\ promotions' = Gathered
  /\ Done(IF request.kind = "compare" THEN None ELSE Cut(promotions', request.limit))
  /\ Continue /\ UNCHANGED <<products, listed, rows, left>>

\* findStores alone.
StoresFound ==
  /\ Over /\ request.kind = "stores"
  /\ Done(FoundStores(request.limit))
  /\ Continue /\ UNCHANGED <<products, promotions, listed, rows, left>>

\* Stores first: the stock of each store found.
StoresListed ==
  /\ Over /\ request.kind = "storesFirst" /\ wave.what = "stores"
  /\ listed' = FoundStores(request.limit)
  /\ wave' = Wave("stock", None, listed')
  /\ Continue /\ UNCHANGED <<products, promotions, rows, left, outcome>>

\* The answer for a store: its own match where the request knows the store's,
\* and the answer as a whole otherwise.
Available(kind, a, s) ==
  /\ a # Failed
  /\ a.supported
  /\ IF kind = "productsFirst" /\ s \in DOMAIN a.at THEN a.at[s] ELSE a.is

StoreShown(s) ==
  /\ request.inStockOnly => Available(request.kind, wave.calls[s], s)
  /\ request.openNow => OpenNow[s] # FALSE

StoresChecked ==
  /\ Over /\ request.kind = "storesFirst" /\ wave.what = "stock"
  /\ Done({s \in listed : StoreShown(s)})
  /\ Continue /\ UNCHANGED <<products, promotions, listed, rows, left>>

\* Products first: the products of every chain; of none, an error.
\* The chain of the next product; without one, the answer.
ToChain(todo) ==
  IF todo = << >> THEN Done(None)
  ELSE wave' = Wave("stores", None, {Head(todo).chain}) /\ UNCHANGED outcome

ProductsFound ==
  /\ Over /\ request.kind = "productsFirst" /\ wave.what = "products"
  /\ products' = Gathered
  /\ left' = products'
  /\ IF products' = << >> THEN Ended("no products", None) ELSE ToChain(products')
  /\ Continue /\ UNCHANGED <<promotions, listed, rows>>

\* One chain after the other, and of a chain one product after the other.  A
\* chain without stores is passed over.
ChainStores ==
  /\ Over /\ request.kind = "productsFirst" /\ wave.what = "stores"
  /\ listed' = FoundStores(request.limit)
  /\ IF listed' = {}
     THEN /\ left' = Kept(left, LAMBDA p : p.chain # Head(left).chain)
          /\ ToChain(left')
     ELSE /\ wave' = Wave("stock", Head(left), listed')
          /\ UNCHANGED <<left, outcome>>
  /\ Continue /\ UNCHANGED <<products, promotions, rows>>

ProductChecked ==
  /\ Over /\ request.kind = "productsFirst" /\ wave.what = "stock"
  /\ rows' = rows \cup {[product |-> wave.product, store |-> s, answer |-> wave.calls[s]] :
                         s \in DOMAIN wave.calls}
  /\ left' = Tail(left)
  /\ IF left' # << >> /\ Head(left').chain = wave.product.chain
     THEN wave' = Wave("stock", Head(left'), listed) /\ UNCHANGED outcome
     ELSE ToChain(left')
  /\ Continue /\ UNCHANGED <<products, promotions, listed>>

EndOfWave ==
  \/ ProductsCompared
  \/ PromotionsFound
  \/ StoresFound
  \/ StoresListed
  \/ StoresChecked
  \/ ProductsFound
  \/ ChainStores
  \/ ProductChecked

Targets == Vendors \cup StoresOfAll

Next ==
  \/ \E r \in Requests : StartRequest(r)
  \/ \E t \in DOMAIN wave.calls : Answer(t) \/ Overrun(t) \/ Throw(t)
  \/ EndOfWave

-----------------------------------------------------------------------------
(* Fairness: timers fire and the event loop goes on.  No vendor has to     *)
(* answer, and the service's own product search need not end               *)
(* (SearchFanout!RacesEnd).                                                *)

OverrunOf(t) == t \in DOMAIN wave.calls /\ Overrun(t)

Fairness == WF_vars(EndOfWave) /\ \A t \in Targets : WF_vars(OverrunOf(t))

Spec == Init /\ [][Next]_vars /\ Fairness

-----------------------------------------------------------------------------
(* Properties.                                                             *)

\* By the pack, no product or promotion that any chain answered with in time
\* costs less than the offer called cheapest, whatever was merged away; by the
\* unit, no offer kept has a lower price of the same unit, the cheapest can be
\* compared when any can, and nothing is ever "saved" backwards.
CheapestIsCheapest ==
  outcome # None /\ outcome.how = "answered" /\ request.kind = "compare" =>
    \A raw \in {RawOffers} : \A result \in {Comparison(raw, request)} :
    LET c == result.cheapest
        comparable == {o \in result.offers : Eligible(o, request.basis, result.unit)}
    IN /\ (c = None) <=> (raw = << >>)
       /\ request.basis = "packPrice" => \A o \in SetOf(raw) : c.total <= o.total
       /\ comparable # {} =>
            /\ c \in comparable
            /\ \A o \in comparable :
                 /\ ComparisonPrice(c, request.basis) <= ComparisonPrice(o, request.basis)
                 /\ ComparisonPrice(o, request.basis) <= ComparisonPrice(result.dearest, request.basis)
       /\ result.savings # None => result.savings >= 0

\* A product is shown as available in a store only if that product, and not
\* another hit of the query, is in stock in that store, and not in another;
\* except where the vendor's answer for an area left the store out, which is
\* then judged by the other stores of the area (searchService.ts:1141).
OwnStock ==
  request # None /\ request.kind = "productsFirst" =>
    \A r \in rows :
      Available(request.kind, r.answer, r.store) =>
        \/ <<r.product, r.store>> \in stock
        \/ /\ r.product.chain \notin ByStore
           /\ r.store \notin DOMAIN r.answer.at

\* However few vendors answer, and however many waves a request has, it ends,
\* unless it is one of products first that never gets the products: it awaits
\* searchProducts of the service without a race of its own.
AwaitsProducts == wave.what = "products" /\ ~ Raced

LookupsEnd == (request # None) ~> (outcome # None \/ AwaitsProducts)

=============================================================================
