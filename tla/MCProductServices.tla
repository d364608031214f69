-------------------------- MODULE MCProductServices -------------------------
(* An instance of ProductServices: Coop with two stores and two kinds of   *)
(* butter, Migros with a store, Aldi with two for look-ups of stock alone. *)
EXTENDS ProductServices

\* A product read at the same price whenever it is.
Plain == {[price |-> 4, promo |-> 0, label |-> "as before"]}

\* The chain a product is named after.
Homes == [p \in Products |-> IF p \in {"coop1", "coop2"} THEN "coop" ELSE "lidl"]

\* One caller asks for both chains, the others for one.
Wants == [c \in Callers |-> IF c = "c1" THEN Chains ELSE {"coop"}]

Caps == [k \in Chains |-> 2]

Both == {"coop", "migros"}

Order == <<"aldi", "coop", "migros">>

Ranked == <<"aarau", "aldi", "basel", "bern", "butter", "chur", "coop", "cream", "dl",
            "g", "hg", "kg", "l", "large", "migros", "piece", "scoop", "small", "zurich">>

Places == [text \in SetOf(Ranked) |-> CHOOSE i \in DOMAIN Ranked : Ranked[i] = text]

Product(chain, name, price, size, content, vendorUnit) ==
  [chain |-> chain, name |-> name, price |-> price, size |-> size,
   content |-> content, vendorUnit |-> vendorUnit]

\* Nobody states the size of the first two.
Small == Product("coop", "butter", 300, None, [value |-> 200, per |-> "g"], None)
Large == Product("coop", "butter", 500, None, None, [value |-> 110, per |-> "hg"])
Other == Product("migros", "butter", 330, "large", [value |-> 250, per |-> "g"],
                 [value |-> 0, per |-> "kg"])
Cream == Product("migros", "cream", 300, "small", [value |-> 2, per |-> "dl"], None)
Milk == Product("aldi", "cream", 290, None, None, None)
Offered == Product("coop", "butter", 300, None, None, None)
Unpriced == Product("coop", "cream", None, "small", None, None)
Cheaper == Product("migros", "butter", 270, "large", None, [value |-> 90, per |-> "scoop"])

FoundIn == [aldi |-> {<<Milk>>},
            coop |-> {<< >>, <<Small>>, <<Small, Large>>},
            migros |-> {<<Other>>, <<Cream>>}]

PromotedIn == [aldi |-> {<< >>},
               coop |-> {<<Offered, Unpriced>>, << >>},
               migros |-> {<<Cheaper>>}]

Stores == [aldi |-> <<"basel", "aarau">>,
           coop |-> <<"zurich", "bern">>,
           migros |-> <<"chur">>]

Hours == [basel |-> TRUE, aarau |-> FALSE, zurich |-> TRUE, bern |-> FALSE, chur |-> None]

Request(kind, chains, limit) ==
  [kind |-> kind, chains |-> chains, limit |-> limit, inStockOnly |-> FALSE,
   openNow |-> FALSE, promotions |-> FALSE, quantity |-> 1, maxPrice |-> None,
   basis |-> "packPrice"]

Comparisons ==
  {[Request("compare", Both, None) EXCEPT
      !.promotions = p, !.quantity = q, !.maxPrice = m, !.basis = b] :
     p \in BOOLEAN, q \in {1, 2}, m \in {None, 280}, b \in {"packPrice", "unitPrice"}}

Lookups ==
  {Request("stores", Both, l) : l \in {None, 1, 2, 3}}
  \cup {Request("promotions", Both, l) : l \in {None, 1}}
  \cup {[Request("storesFirst", {c}, 20) EXCEPT !.inStockOnly = i, !.openNow = o] :
          c \in Both, i \in BOOLEAN, o \in BOOLEAN}
  \cup {Request("productsFirst", {"aldi"}, 10), Request("productsFirst", {"coop"}, 10),
        Request("productsFirst", Both, 1)}

AllRequests == Comparisons \cup Lookups

=============================================================================
