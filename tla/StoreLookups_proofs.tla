------------------------- MODULE StoreLookups_proofs ------------------------
(***************************************************************************)
(* The requests that ask several vendors in waves, for any chains, stores, *)
(* answers and requests: what is shown as in stock is that product in that *)
(* store, and what is called cheapest is.                                  *)
(*                                                                         *)
(* FlattenSeq and the CHOOSE of a first element need induction on their    *)
(* length; the least number for which they would fail stands in for it.    *)
(***************************************************************************)
EXTENDS StoreLookups, SequenceTheorems, FiniteSetTheorems, WellFoundedInduction,
        NaturalsInduction, TLAPS

-----------------------------------------------------------------------------
(* Numbers, sequences and orders.                                            *)

(* A set of numbers that has an element has a smallest one.                  *)
LEMMA SmallestNumber ==
  ASSUME NEW S \in SUBSET Nat, S # {}
  PROVE  \E n \in S : \A m \in S : n <= m
  <1> DEFINE R == {p \in Nat \X Nat : p[1] < p[2]}
  <1>1. IsWellFoundedOn(R, Nat)
    BY NatLessThanWellFounded DEF OpToRel
  <1>2. PICK n \in S : \A m \in S : ~ (<<m, n>> \in R)
    BY <1>1, WFMin
  <1>3. \A m \in S : n <= m
    <2> SUFFICES ASSUME NEW m \in S PROVE n <= m
      OBVIOUS
    <2>1. n \in Nat /\ m \in Nat
      OBVIOUS
    <2>2. ~ (m < n)
      BY <1>2, <2>1
    <2> QED BY <2>1, <2>2
  <1> QED BY <1>3

(* Flattening is what appending one sequence after the other leads to.       *)
LEMMA FlattenSeqUnfolds ==
  ASSUME NEW S, NEW q \in Seq(Seq(S)), Len(q) # 0
  PROVE  \E f \in [1 .. Len(q) -> Seq(S)] :
           /\ FlattenSeq(q) = f[Len(q)]
           /\ \A i \in 1 .. Len(q) : f[i] = IF i = 1 THEN q[i] ELSE f[i - 1] \o q[i]
  <1> DEFINE Step(f, i) == IF i = 1 THEN q[i] ELSE f[i - 1] \o q[i]
             Flat(f, n) == \A i \in 1 .. n : f[i] = Step(f, i)
             short == {n \in 1 .. Len(q) : ~ \E f \in [1 .. n -> Seq(S)] : Flat(f, n)}
  <1>1. Len(q) \in Nat /\ \A i \in 1 .. Len(q) : q[i] \in Seq(S)
    BY LenProperties, ElementOfSeq
  <1>2. short = {}
    <2> SUFFICES ASSUME short # {} PROVE FALSE
      OBVIOUS
    <2>1. short \in SUBSET Nat
      BY <1>1
    <2>2. PICK n \in short : \A m \in short : n <= m
      BY <2>1, SmallestNumber
    <2>3. n \in 1 .. Len(q) /\ n \in Nat
      BY <1>1
    <2>4. CASE n = 1
      <3> DEFINE f == [i \in 1 .. 1 |-> q[1]]
      <3>1. f \in [1 .. n -> Seq(S)]
        BY <1>1, <2>3, <2>4
      <3>2. Flat(f, n)
        BY <2>4
      <3> QED BY <3>1, <3>2
    <2>5. CASE n # 1
      <3>1. n - 1 \in 1 .. Len(q) /\ ~ (n <= n - 1)
        BY <1>1, <2>3, <2>5
      <3>2. n - 1 \notin short
        BY <2>2, <3>1
      <3>3. PICK g \in [1 .. n - 1 -> Seq(S)] : Flat(g, n - 1)
        BY <3>1, <3>2
      <3> DEFINE f == [i \in 1 .. n |-> IF i = n THEN g[n - 1] \o q[n] ELSE g[i]]
      <3>4. g[n - 1] \in Seq(S) /\ q[n] \in Seq(S)
        BY <1>1, <2>3, <3>1
      <3>5. g[n - 1] \o q[n] \in Seq(S)
        BY <3>4, ConcatProperties
      <3>6. \A i \in 1 .. n : i # n => i \in 1 .. n - 1
        BY <2>3
      <3>7. f \in [1 .. n -> Seq(S)]
        BY <3>5, <3>6
      <3>8. Flat(f, n)
        <4> SUFFICES ASSUME NEW i \in 1 .. n PROVE f[i] = Step(f, i)
          OBVIOUS
        <4>1. CASE i = n
          <5>1. n - 1 \in 1 .. n /\ n - 1 # n /\ n \in 1 .. n
            BY <2>3, <3>1
          <5>2. f[n - 1] = g[n - 1]
            BY <5>1
          <5> QED BY <2>5, <4>1, <5>1, <5>2
        <4>2. CASE i # n
          <5>1. i \in 1 .. n - 1 /\ f[i] = g[i] /\ g[i] = Step(g, i)
            BY <3>3, <3>6, <4>2
          <5>2. i # 1 => i - 1 \in 1 .. n /\ i - 1 # n
            BY <2>3, <5>1
          <5>3. i # 1 => f[i - 1] = g[i - 1]
            BY <5>2
          <5> QED BY <5>1, <5>3
        <4> QED BY <4>1, <4>2
      <3> HIDE DEF f
      <3> QED BY <3>7, <3>8
    <2> QED BY <2>4, <2>5
  <1>3. Len(q) \in 1 .. Len(q)
    BY <1>1
  <1>4. PICK f \in [1 .. Len(q) -> Seq(S)] : Flat(f, Len(q))
    BY <1>2, <1>3
  <1> DEFINE flatten == CHOOSE g : g = [i \in 1 .. Len(q) |-> Step(g, i)]
  <1>5. f = [i \in 1 .. Len(q) |-> Step(f, i)]
    BY <1>4
  <1>6. flatten = [i \in 1 .. Len(q) |-> Step(flatten, i)]
    BY <1>5
  <1>7. FlattenSeq(q) = flatten[Len(q)]
    BY DEF FlattenSeq
  <1> HIDE DEF flatten
  <1>8. \A n \in 1 .. Len(q) : flatten[n] = Step(flatten, n)
    <2> HIDE DEF Step
    <2> QED BY <1>6
  <1> DEFINE wrong == {n \in 1 .. Len(q) : flatten[n] \notin Seq(S)}
  <1>9. wrong = {}
    <2> SUFFICES ASSUME wrong # {} PROVE FALSE
      OBVIOUS
    <2>1. wrong \in SUBSET Nat
      BY <1>1
    <2>2. PICK n \in wrong : \A m \in wrong : n <= m
      BY <2>1, SmallestNumber
    <2>3. n \in 1 .. Len(q) /\ n \in Nat /\ flatten[n] = Step(flatten, n)
      BY <1>1, <1>8
    <2>4. n # 1
      BY <1>1, <2>3
    <2>5. n - 1 \in 1 .. Len(q) /\ ~ (n <= n - 1)
      BY <1>1, <2>3, <2>4
    <2>6. flatten[n - 1] \in Seq(S)
      BY <2>2, <2>5
    <2>7. q[n] \in Seq(S) /\ flatten[n] = flatten[n - 1] \o q[n]
      BY <1>1, <2>3, <2>4
    <2>8. flatten[n] \in Seq(S)
      BY <2>6, <2>7, ConcatProperties
    <2> QED BY <2>8
  <1>10. flatten \in [1 .. Len(q) -> Seq(S)]
    <2> HIDE DEF Step
    <2>1. \A n \in 1 .. Len(q) : flatten[n] \in Seq(S)
      BY <1>9
    <2>2. flatten = [n \in 1 .. Len(q) |-> flatten[n]]
      BY <1>6
    <2> QED BY <2>1, <2>2
  <1> QED BY <1>7, <1>8, <1>10

(* Flattening sequences of a set's elements gives a sequence of them.        *)
LEMMA FlattenSeqType ==
  ASSUME NEW S, NEW q \in Seq(Seq(S))
  PROVE  FlattenSeq(q) \in Seq(S)
  <1>1. CASE Len(q) = 0
    <2>1. q = << >>
      BY <1>1, EmptySeq
    <2> QED BY <1>1, <2>1, EmptySeq DEF FlattenSeq
  <1>2. CASE Len(q) # 0
    <2>1. PICK f \in [1 .. Len(q) -> Seq(S)] : FlattenSeq(q) = f[Len(q)]
      BY <1>2, FlattenSeqUnfolds
    <2>2. Len(q) \in 1 .. Len(q)
      BY <1>2, LenProperties
    <2> QED BY <2>1, <2>2
  <1> QED BY <1>1, <1>2

(* Of sequences of no more than one element each, the first of them empty,   *)
(* fewer elements than sequences are left.                                   *)
LEMMA FlattenSeqShortens ==
  ASSUME NEW S, NEW q \in Seq(Seq(S)), Len(q) # 0, q[1] = << >>,
         \A i \in 1 .. Len(q) : Len(q[i]) <= 1
  PROVE  Len(FlattenSeq(q)) < Len(q)
  <1>1. Len(q) \in Nat /\ Len(q) \in 1 .. Len(q) /\ \A i \in 1 .. Len(q) : q[i] \in Seq(S)
    BY LenProperties, ElementOfSeq
  <1>2. PICK f \in [1 .. Len(q) -> Seq(S)] :
          /\ FlattenSeq(q) = f[Len(q)]
          /\ \A i \in 1 .. Len(q) : f[i] = IF i = 1 THEN q[i] ELSE f[i - 1] \o q[i]
    BY FlattenSeqUnfolds
  <1> DEFINE long == {n \in 1 .. Len(q) : ~ (Len(f[n]) < n)}
  <1>3. long = {}
    <2> SUFFICES ASSUME long # {} PROVE FALSE
      OBVIOUS
    <2>1. long \in SUBSET Nat
      BY <1>1
    <2>2. PICK n \in long : \A m \in long : n <= m
      BY <2>1, SmallestNumber
    <2>3. n \in 1 .. Len(q) /\ n \in Nat /\ ~ (Len(f[n]) < n)
      BY <1>1
    <2>4. n # 1
      <3>1. Len(<< >>) = 0
        OBVIOUS
      <3>2. 1 \in 1 .. Len(q) => f[1] = << >>
        BY <1>2
      <3> QED BY <2>3, <3>1, <3>2
    <2>5. n - 1 \in 1 .. Len(q) /\ ~ (n <= n - 1)
      BY <1>1, <2>3, <2>4
    <2>6. Len(f[n - 1]) < n - 1
      BY <2>2, <2>5
    <2>7. f[n] = f[n - 1] \o q[n] /\ f[n - 1] \in Seq(S) /\ q[n] \in Seq(S)
      BY <1>1, <1>2, <2>3, <2>4, <2>5
    <2>8. Len(f[n]) = Len(f[n - 1]) + Len(q[n])
      BY <2>7, ConcatProperties
    <2>9. Len(q[n]) <= 1 /\ Len(q[n]) \in Nat /\ Len(f[n - 1]) \in Nat
      BY <2>3, <2>7, LenProperties
    <2>10. \A a, b \in Nat : a < n - 1 /\ b <= 1 => a + b < n
      BY <2>3
    <2> QED BY <2>3, <2>6, <2>8, <2>9, <2>10
  <1> QED BY <1>1, <1>2, <1>3

(* Of the numbered elements of a set, an order that compares any two has a   *)
(* first.                                                                    *)
LEMMA OrdersHaveAFirst ==
  ASSUME NEW n \in Nat, NEW K \in SUBSET (1 .. n), K # {}, NEW R,
         \A i, j \in K : i # j => <<i, j>> \in R \/ <<j, i>> \in R,
         \A i, j, k \in K : <<i, j>> \in R /\ <<j, k>> \in R /\ i # k => <<i, k>> \in R
  PROVE  \E i \in K : \A j \in K \ {i} : <<i, j>> \in R
  <1> DEFINE Part(m) == K \cap (1 .. m)
             First(m) == \E i \in Part(m) : \A j \in Part(m) \ {i} : <<i, j>> \in R
             without == {m \in 0 .. n : Part(m) # {} /\ ~ First(m)}
  <1>1. without = {}
    <2> SUFFICES ASSUME without # {} PROVE FALSE
      OBVIOUS
    <2>1. without \in SUBSET Nat
      OBVIOUS
    <2>2. PICK m \in without : \A l \in without : m <= l
      BY <2>1, SmallestNumber
    <2>3. m \in Nat /\ m \in 0 .. n /\ Part(m) # {} /\ ~ First(m)
      BY <2>1, <2>2
    <2>4. m # 0
      BY <2>3
    <2>5. m - 1 \in 0 .. n /\ ~ (m <= m - 1)
      BY <2>3, <2>4
    <2>6. Part(m - 1) = {} \/ First(m - 1)
      BY <2>2, <2>5
    <2>7. \A i \in Part(m) : i \in K /\ (i = m \/ i \in Part(m - 1))
      BY <2>3
    <2>8. m \in Part(m)
      <3>1. CASE Part(m - 1) = {}
        BY <2>3, <2>7, <3>1
      <3>2. CASE First(m - 1)
        <4>1. PICK i \in Part(m - 1) : \A j \in Part(m - 1) \ {i} : <<i, j>> \in R
          BY <3>2
        <4>2. i \in Part(m)
          BY <2>3, <4>1
        <4>3. PICK j \in Part(m) \ {i} : <<i, j>> \notin R
          BY <2>3, <4>2
        <4> QED BY <2>7, <4>1, <4>3
      <3> QED BY <2>6, <3>1, <3>2
    <2>9. CASE Part(m - 1) = {}
      <3>1. \A j \in Part(m) : j = m
        BY <2>7, <2>9
      <3> QED BY <2>3, <2>8, <3>1
    <2>10. CASE First(m - 1)
      <3>1. PICK i \in Part(m - 1) : \A j \in Part(m - 1) \ {i} : <<i, j>> \in R
        BY <2>10
      <3>2. i \in Part(m) /\ i # m /\ i \in K /\ m \in K
        BY <2>3, <2>8, <3>1
      <3> HIDE DEF Part
      <3>3. CASE <<i, m>> \in R
        <4>1. \A j \in Part(m) \ {i} : <<i, j>> \in R
          BY <2>7, <3>1, <3>3
        <4> QED BY <2>3, <3>2, <4>1
      <3>4. CASE <<m, i>> \in R
        <4>1. \A j \in Part(m) \ {m} : <<m, j>> \in R
          BY <2>7, <3>1, <3>2, <3>4
        <4> QED BY <2>3, <2>8, <4>1
      <3> QED BY <3>2, <3>3, <3>4
    <2> QED BY <2>6, <2>9, <2>10
  <1>2. Part(n) = K /\ n \in 0 .. n
    <2>1. n \in 0 .. n
      OBVIOUS
    <2>2. Part(n) = K
      BY Zenon
    <2> QED BY <2>1, <2>2
  <1>3. First(n)
    BY <1>1, <1>2
  <1> QED BY <1>2, <1>3

-----------------------------------------------------------------------------
(* The inductive invariant of a request.                                     *)

Offered == {p \in PricedProducts : p.chain \in Vendors}

(* What an answer about a product and a store says of them, if it says that  *)
(* the product is there.                                                     *)
Honest(p, s, a) ==
  Available("productsFirst", a, s) =>
    \/ <<p, s>> \in stock
    \/ p.chain \notin ByStore /\ s \notin DOMAIN a.at

(* What the earlier waves left is products and promotions, every product of  *)
(* a chain that is there.                                                    *)
Gatherings ==
  /\ request \in Requests \cup {None}
  /\ products \in Seq(Offered)
  /\ promotions \in Seq(Promotions)
  /\ left \in Seq(Offered)

(* A call that has ended otherwise than by failing, ended with what its      *)
(* vendor may say.                                                           *)
Fits(t, a) ==
  /\ wave.what = "products" => a \in Seq(Offered)
  /\ wave.what = "promotions" => a \in Seq(Promotions)
  /\ wave.what = "stores" => a \in {StoresOf[t], << >>}
  /\ wave.what = "stock" /\ request.kind = "productsFirst" => Honest(wave.product, t, a)

(* A wave is well-formed, and its calls ended as they could.                 *)
WaveInv ==
  /\ wave = [what |-> wave.what, product |-> wave.product,
             calls |-> [t \in DOMAIN wave.calls |-> wave.calls[t]]]
  /\ wave.what \in {"products", "promotions", "stores"} => DOMAIN wave.calls \subseteq Vendors
  /\ \A t \in DOMAIN wave.calls : wave.calls[t] \notin {Running, Failed} => Fits(t, wave.calls[t])

(* Products first, the wave is about the chain of the next product, or about *)
(* that product and stores of its chain.                                     *)
TurnInv ==
  request # None /\ request.kind = "productsFirst" =>
    /\ wave.what = "stores" => left # << >> /\ DOMAIN wave.calls = {Head(left).chain}
    /\ wave.what = "stock" =>
         /\ left # << >>
         /\ wave.product = Head(left)
         /\ DOMAIN wave.calls = listed
         /\ listed \subseteq SetOf(StoresOf[Head(left).chain])

(* Every row that products first has collected says what is so.              *)
RowsInv ==
  request # None /\ request.kind = "productsFirst" =>
    \A r \in rows : Honest(r.product, r.store, r.answer)

(* A request for stores has no other wave.                                   *)
KindInv ==
  request # None /\ request.kind = "stores" => wave.what \in {"stores", "none"}

LookupsInv ==
  /\ Gatherings
  /\ WaveInv
  /\ KindInv
  /\ TurnInv
  /\ RowsInv
  /\ request = None => rows = {} /\ wave = NoWave /\ outcome = None

(* What the chains offer is priced, and of one of them.                      *)
LEMMA OfferedIsTyped ==
  /\ Offered \subseteq PricedProducts
  /\ PricedProducts \subseteq Promotions
  /\ \A p \in Offered : p # None /\ p.chain \in Vendors
  BY ComparisonAssumption DEF Offered, PricedProducts

(* A filter leaves a sequence of the same products.                          *)
LEMMA FlatMapType ==
  ASSUME NEW T, NEW S, NEW s \in Seq(T), NEW keep,
         \A i \in DOMAIN s : keep[i] => s[i] \in S
  PROVE  FlattenSeq([i \in DOMAIN s |-> IF keep[i] THEN <<s[i]>> ELSE << >>]) \in Seq(S)
  <1> DEFINE q == [i \in DOMAIN s |-> IF keep[i] THEN <<s[i]>> ELSE << >>]
  <1>1. Len(s) \in Nat /\ DOMAIN s = 1 .. Len(s)
    BY LenProperties
  <1>2. \A i \in 1 .. Len(s) : (keep[i] => <<s[i]>> \in Seq(S)) /\ << >> \in Seq(S)
    BY <1>1
  <1>3. \A i \in 1 .. Len(s) : q[i] \in Seq(S)
    BY <1>1, <1>2
  <1>4. q \in Seq(Seq(S))
    BY <1>1, <1>3, IsASeq
  <1> QED BY <1>4, FlattenSeqType

(* A chain's search finds products of that chain.                            *)
LEMMA SearchFindsOffered ==
  ASSUME NEW c \in Vendors, NEW a \in ProductsAnswered(c)
  PROVE  a \in Seq(Offered)
  <1>1. PICK s \in Found[c] : a = Kept(s, LAMBDA p : Affordable(p, request.maxPrice))
    BY DEF ProductsAnswered
  <1>2. s \in Seq(Offered)
    <2>1. s \in Seq({p \in PricedProducts : p.chain = c})
      BY <1>1, LookupsAssumption
    <2>2. {p \in PricedProducts : p.chain = c} \subseteq Offered
      BY DEF Offered
    <2> QED BY <2>1, <2>2, SeqMonotonic
  <1> DEFINE keep == [i \in DOMAIN s |-> Affordable(s[i], request.maxPrice)]
  <1>3. a = FlattenSeq([i \in DOMAIN s |-> IF keep[i] THEN <<s[i]>> ELSE << >>])
    <2>1. [i \in DOMAIN s |-> IF Affordable(s[i], request.maxPrice) THEN <<s[i]>> ELSE << >>]
          = [i \in DOMAIN s |-> IF keep[i] THEN <<s[i]>> ELSE << >>]
      OBVIOUS
    <2> QED BY <1>1, <2>1 DEF Kept
  <1>4. \A i \in DOMAIN s : s[i] \in Offered
    BY <1>2, LenProperties, ElementOfSeq
  <1> HIDE DEF keep
  <1> QED BY <1>2, <1>3, <1>4, FlatMapType

(* What a wave gathers, in the order of the adapters.                        *)
LEMMA GatheredType ==
  ASSUME NEW S, Over,
         \A t \in DOMAIN wave.calls :
           wave.calls[t] \notin {Running, Failed} => wave.calls[t] \in Seq(S)
  PROVE  Gathered \in Seq(S)
  <1> DEFINE q == [i \in DOMAIN Adapters |->
                    IF Adapters[i] \in Succeeded THEN Cut(wave.calls[Adapters[i]], None) ELSE << >>]
  <1>1. Len(Adapters) \in Nat /\ DOMAIN Adapters = 1 .. Len(Adapters)
    BY LookupsAssumption, LenProperties
  <1>2. \A t \in Succeeded : wave.calls[t] \in Seq(S)
    BY DEF Succeeded, Over
  <1>3. << >> \in Seq(S)
    OBVIOUS
  <1>4. \A i \in 1 .. Len(Adapters) : q[i] \in Seq(S)
    BY <1>1, <1>2, <1>3 DEF Cut
  <1>5. q \in Seq(Seq(S))
    BY <1>1, <1>4, IsASeq
  <1> QED BY <1>5, FlattenSeqType DEF Gathered, FirstOfEach

(* The stores of a wave for one chain are stores of that chain.              *)
LEMMA StoresOfTheChain ==
  ASSUME NEW c \in Vendors, WaveInv, Over, wave.what = "stores", DOMAIN wave.calls = {c},
         NEW limit
  PROVE  FoundStores(limit) \subseteq SetOf(StoresOf[c])
  <1>1. Succeeded \subseteq {c} /\ \A d \in Succeeded : wave.calls[d] \in {StoresOf[c], << >>}
    BY DEF Succeeded, Over, WaveInv, Fits
  <1>2. Cardinality(Succeeded) \in Nat /\ Cardinality(Succeeded) <= 1
    <2>1. IsFiniteSet({c}) /\ Cardinality({c}) = 1
      BY FS_Singleton
    <2> QED BY <1>1, <2>1, FS_Subset, FS_CardinalityType
  <1>3. Gathered \in Seq(SetOf(StoresOf[c]))
    <2>1. \A t \in DOMAIN wave.calls : wave.calls[t] \notin {Running, Failed} =>
            wave.calls[t] \in {StoresOf[c], << >>}
      BY DEF WaveInv, Fits
    <2>2. StoresOf[c] \in Seq(SetOf(StoresOf[c])) /\ << >> \in Seq(SetOf(StoresOf[c]))
      <3>1. /\ Len(StoresOf[c]) \in Nat /\ DOMAIN StoresOf[c] = 1 .. Len(StoresOf[c])
            /\ StoresOf[c] = [i \in 1 .. Len(StoresOf[c]) |-> StoresOf[c][i]]
        BY LookupsAssumption, LenProperties
      <3>2. \A i \in 1 .. Len(StoresOf[c]) : StoresOf[c][i] \in SetOf(StoresOf[c])
        BY <3>1 DEF SetOf
      <3> QED BY <3>1, <3>2, IsASeq
    <2> QED BY <2>1, <2>2, GatheredType
  <1>4. FoundStores(limit) = FirstByName(Gathered, limit)
    BY <1>2 DEF FoundStores, Gathered
  <1>5. \A i \in DOMAIN Gathered : Gathered[i] \in SetOf(StoresOf[c])
    BY <1>3, LenProperties, ElementOfSeq
  <1> QED BY <1>4, <1>5 DEF FirstByName

LEMMA ChainOfItsStore ==
  ASSUME NEW c \in Vendors, NEW s \in SetOf(StoresOf[c])
  PROVE  StoreChain(s) = c
  <1>1. \A d \in Vendors : s \in SetOf(StoresOf[d]) => d = c
    BY LookupsAssumption
  <1> QED BY <1>1 DEF StoreChain

(* Asked about a product, a vendor answers about that product.               *)
LEMMA StockAnswersAreHonest ==
  ASSUME NEW p \in Offered, wave.product = p, NEW s \in SetOf(StoresOf[p.chain]),
         NEW a \in StockAnswers(s)
  PROVE  Honest(p, s, a)
  <1>1. StoreChain(s) = p.chain /\ Asked(p.chain, wave.product) = {p}
    BY OfferedIsTyped, ChainOfItsStore DEF Asked, Passed
  <1>2. a \in NoStock \/ a \in StockOf(p.chain, p, s)
    BY <1>1 DEF StockAnswers
  <1>3. CASE a \in NoStock
    <2>1. a.at = << >> /\ a.is = FALSE
      BY <1>3 DEF NoStock
    <2> QED BY <2>1 DEF Honest, Available
  <1>4. CASE p.chain \in ByStore /\ a \in StockAtStore(p, s)
    <2> DEFINE there == <<p, s>> \in stock
    <2>0. a = [supported |-> TRUE, at |-> << >>, is |-> there]
      BY <1>4 DEF StockAtStore
    <2> HIDE DEF there
    <2>1. a.at = << >> /\ a.is = there
      BY <2>0
    <2>2. Available("productsFirst", a, s) => there
      BY <2>1 DEF Available
    <2> QED BY <2>2, Zenon DEF Honest, there
  <1>5. CASE p.chain \notin ByStore /\ a \in StockInArea(p.chain, p)
    <2>1. s \in DOMAIN a.at => a.at[s] = (<<p, s>> \in stock)
      BY <1>5 DEF StockInArea, Area
    <2> QED BY <1>5, <2>1 DEF Honest, Available
  <1>6. CASE p.chain \notin ByStore /\ a \in StockOfPoints(p.chain, p)
    <2>0. PICK area \in SUBSET SetOf(StoresOf[p.chain]) : \E answering \in SUBSET area :
            a = Area([x \in area |-> x \in answering /\ <<p, x>> \in stock])
      BY <1>6 DEF StockOfPoints
    <2>1. PICK answering \in SUBSET area :
            a = Area([x \in area |-> x \in answering /\ <<p, x>> \in stock])
      BY <2>0
    <2>2. s \in DOMAIN a.at => (a.at[s] => <<p, s>> \in stock)
      BY <2>1 DEF Area
    <2> QED BY <1>6, <2>2 DEF Honest, Available
  <1> QED BY <1>2, <1>3, <1>4, <1>5, <1>6 DEF StockOf

-----------------------------------------------------------------------------
(* A call that ends leaves all of it true.                                   *)
LEMMA AnswersFit ==
  ASSUME LookupsInv, Active, NEW t \in DOMAIN wave.calls, NEW a \in Answers(t), a # Failed
  PROVE  Fits(t, a)
  <1>1. CASE wave.what = "products"
    <2>1. t \in Vendors /\ a \in ProductsAnswered(t)
      BY <1>1 DEF LookupsInv, WaveInv, Answers
    <2> QED BY <1>1, <2>1, SearchFindsOffered DEF Fits
  <1>2. CASE wave.what = "promotions"
    <2>1. t \in Vendors /\ a \in Promoted[t]
      BY <1>2 DEF LookupsInv, WaveInv, Answers
    <2> QED BY <1>2, <2>1, LookupsAssumption DEF Fits
  <1>3. CASE wave.what = "stores"
    BY <1>3 DEF Answers, StoresAnswered, Fits
  <1>4. CASE wave.what = "stock" /\ request.kind = "productsFirst"
    <2>1. a \in StockAnswers(t)
      BY <1>4 DEF Answers
    <2>2. request # None
      BY <1>4 DEF LookupsInv, NoWave
    <2>3. left # << >> /\ wave.product = Head(left) /\ t \in SetOf(StoresOf[Head(left).chain])
      BY <1>4, <2>2 DEF LookupsInv, TurnInv
    <2>4. Head(left) \in Offered
      BY <2>3, HeadTailProperties DEF LookupsInv, Gatherings
    <2> QED BY <1>4, <2>1, <2>3, <2>4, StockAnswersAreHonest DEF Fits
  <1> QED BY <1>1, <1>2, <1>3, <1>4 DEF Fits

LEMMA EndsKeepsInv ==
  ASSUME LookupsInv, Active, NEW t \in DOMAIN wave.calls, NEW a, Ends(t, a),
         a # Failed => a \in Answers(t)
  PROVE  LookupsInv'
  <1> DEFINE calls == [wave.calls EXCEPT ![t] = a]
  <1>1. wave' = [what |-> wave.what, product |-> wave.product, calls |-> calls]
        /\ DOMAIN calls = DOMAIN wave.calls
        /\ \A u \in DOMAIN wave.calls : calls[u] = IF u = t THEN a ELSE wave.calls[u]
    <2>1. wave = [what |-> wave.what, product |-> wave.product, calls |-> wave.calls]
          /\ wave.calls = [u \in DOMAIN wave.calls |-> wave.calls[u]]
      BY DEF LookupsInv, WaveInv
    <2>2. wave' = [wave EXCEPT !.calls[t] = a]
      BY DEF Ends
    <2> QED BY <2>1, <2>2
  <1> HIDE DEF calls
  <1>2. wave'.what = wave.what /\ wave'.product = wave.product /\ wave'.calls = calls
    BY <1>1
  <1>3. UNCHANGED <<request, products, promotions, listed, rows, left, stock>>
    BY DEF Ends
  <1>4. request # None
    BY DEF LookupsInv, Active, NoWave
  <1>5. Gatherings' /\ RowsInv'
    BY <1>3 DEF LookupsInv, Gatherings, KindInv, RowsInv, Honest
  <1>6. WaveInv'
    <2>1. \A u \in DOMAIN wave'.calls :
            wave'.calls[u] \notin {Running, Failed} => Fits(u, wave'.calls[u])
      BY <1>1, <1>2, AnswersFit DEF LookupsInv, WaveInv
    <2>2. \A u, b : Fits(u, b) => Fits(u, b)'
      BY <1>2, <1>3 DEF Fits, Honest
    <2>3. \A u \in DOMAIN wave'.calls :
            wave'.calls[u] \notin {Running, Failed} => Fits(u, wave.calls[u])'
      BY <2>1, <2>2
    <2>4. wave'.calls = [u \in DOMAIN wave'.calls |-> wave'.calls[u]]
      BY <1>2 DEF calls
    <2>5. wave' = [what |-> wave'.what, product |-> wave'.product,
                   calls |-> [u \in DOMAIN wave'.calls |-> wave'.calls[u]]]
      BY <1>1, <1>2, <2>4
    <2> QED BY <1>1, <1>2, <2>3, <2>5 DEF LookupsInv, WaveInv
  <1>7. TurnInv' /\ KindInv'
    BY <1>1, <1>2, <1>3 DEF LookupsInv, TurnInv, KindInv
  <1> QED BY <1>3, <1>4, <1>5, <1>6, <1>7 DEF LookupsInv

(* A wave that starts.                                                       *)
LEMMA FreshWave ==
  ASSUME NEW what, NEW p, NEW T, wave' = Wave(what, p, T),
         what \in {"products", "promotions", "stores"} => T \subseteq Vendors
  PROVE  /\ WaveInv'
         /\ wave'.what = what /\ wave'.product = p /\ DOMAIN wave'.calls = T
  <1>1. /\ wave' = [what |-> what, product |-> p, calls |-> [t \in T |-> Running]]
        /\ wave'.what = what /\ wave'.product = p
        /\ wave'.calls = [t \in T |-> Running]
    BY DEF Wave
  <1>2. DOMAIN wave'.calls = T /\ \A t \in T : wave'.calls[t] = Running
    BY <1>1
  <1>3. wave'.calls = [t \in DOMAIN wave'.calls |-> wave'.calls[t]]
    BY <1>1
  <1>4. wave' = [what |-> wave'.what, product |-> wave'.product,
                 calls |-> [t \in DOMAIN wave'.calls |-> wave'.calls[t]]]
    BY <1>1, <1>3
  <1> QED BY <1>1, <1>2, <1>4 DEF WaveInv

(* No wave is left once the request is answered.                             *)
LEMMA WithoutAWave ==
  ASSUME wave' = NoWave
  PROVE  WaveInv' /\ KindInv' /\ TurnInv'
  <1>1. wave' = [what |-> "none", product |-> None, calls |-> << >>]
    BY DEF NoWave
  <1>2. wave'.what = "none" /\ wave'.product = None /\ wave'.calls = << >>
    BY <1>1
  <1>3. DOMAIN << >> = {} /\ << >> = [t \in DOMAIN << >> |-> wave'.calls[t]]
    OBVIOUS
  <1>4. wave'.calls = [t \in DOMAIN wave'.calls |-> wave'.calls[t]]
    BY <1>2, <1>3
  <1>5. wave' = [what |-> wave'.what, product |-> wave'.product,
                 calls |-> [t \in DOMAIN wave'.calls |-> wave'.calls[t]]]
    BY <1>1, <1>2, <1>4
  <1> QED BY <1>2, <1>3, <1>5 DEF WaveInv, KindInv, TurnInv

(* The next chain of products first, or the answer.                          *)
LEMMA ToChainKeeps ==
  ASSUME NEW todo \in Seq(Offered), ToChain(todo), left' = todo
  PROVE  WaveInv' /\ TurnInv'
  <1>1. CASE todo = << >>
    BY <1>1, WithoutAWave DEF ToChain, Done, Ended
  <1>2. CASE todo # << >>
    <2>1. Head(todo) \in Offered
      BY <1>2, HeadTailProperties
    <2>2. wave' = Wave("stores", None, {Head(todo).chain}) /\ {Head(todo).chain} \subseteq Vendors
      BY <1>2, <2>1, OfferedIsTyped DEF ToChain
    <2>3. WaveInv' /\ wave'.what = "stores" /\ DOMAIN wave'.calls = {Head(todo).chain}
      BY <2>2, FreshWave
    <2> QED BY <1>2, <2>3 DEF TurnInv
  <1> QED BY <1>1, <1>2

-----------------------------------------------------------------------------
(* Every action keeps the invariant.                                         *)

(* A request starts, with nothing gathered and no row.                       *)
LEMMA StartKeepsInv ==
  ASSUME LookupsInv, NEW r \in Requests, StartRequest(r)
  PROVE  LookupsInv'
  <1>1. /\ request = None /\ request' = r /\ r # None /\ rows = {} /\ rows' = rows
        /\ UNCHANGED <<products, promotions, left>>
    BY LookupsAssumption DEF StartRequest, LookupsInv
  <1>2. WaveInv' /\ wave'.what \in {"products", "promotions", "stores"}
        /\ wave'.what = FirstWave(r.kind)
    <2>1. wave' = Wave(FirstWave(r.kind), None, r.chains) /\ r.chains \subseteq Vendors
      BY LookupsAssumption DEF StartRequest
    <2>2. FirstWave(r.kind) \in {"products", "promotions", "stores"}
      BY DEF FirstWave
    <2> QED BY <2>1, <2>2, FreshWave
  <1>3. TurnInv' /\ KindInv'
    BY <1>1, <1>2 DEF TurnInv, KindInv, FirstWave
  <1>4. Gatherings' /\ RowsInv'
    BY <1>1 DEF LookupsInv, Gatherings, RowsInv
  <1> QED BY <1>1, <1>2, <1>3, <1>4 DEF LookupsInv

(* What the waves of a request that is not one of products first leave.      *)
LEMMA OtherKindsKeepInv ==
  ASSUME LookupsInv, Active, request' = request,
         request.kind # "productsFirst", request.kind = "stores" => wave' = NoWave,
         rows' = rows, left' = left,
         products' \in Seq(Offered), promotions' \in Seq(Promotions), WaveInv'
  PROVE  LookupsInv'
  <1>1. request # None
    BY DEF LookupsInv, Active, NoWave
  <1>2. KindInv'
    BY WithoutAWave DEF KindInv
  <1> QED BY <1>1, <1>2 DEF LookupsInv, Gatherings, TurnInv, RowsInv

(* comparePrices gathers its products.                                       *)
LEMMA ProductsComparedKeepsInv ==
  ASSUME LookupsInv, ProductsCompared
  PROVE  LookupsInv'
  <1>1. /\ Active /\ Over /\ request' = request /\ request.kind = "compare"
        /\ wave.what = "products" /\ products' = Gathered
        /\ UNCHANGED <<promotions, rows, left>>
    BY DEF ProductsCompared, Over, Continue
  <1>2. products' \in Seq(Offered)
    BY <1>1, GatheredType DEF LookupsInv, WaveInv, Fits
  <1>3. request.chains \subseteq Vendors
    BY <1>1, LookupsAssumption DEF LookupsInv, Gatherings, Active, NoWave
  <1>4. WaveInv'
    <2>1. CASE request.promotions
      BY <1>3, <2>1, FreshWave DEF ProductsCompared
    <2>2. CASE ~ request.promotions
      BY <2>2, WithoutAWave DEF ProductsCompared, Done, Ended
    <2> QED BY <2>1, <2>2
  <1> QED BY <1>1, <1>2, <1>4, OtherKindsKeepInv DEF LookupsInv, Gatherings

(* searchPromotions ends, or a comparison has its promotions.                *)
LEMMA PromotionsFoundKeepsInv ==
  ASSUME LookupsInv, PromotionsFound
  PROVE  LookupsInv'
  <1>1. /\ Active /\ Over /\ request' = request /\ stock' = stock
        /\ wave.what = "promotions" /\ promotions' = Gathered /\ wave' = NoWave
        /\ UNCHANGED <<products, rows, left>>
    BY DEF PromotionsFound, Over, Continue, Done, Ended
  <1>2. promotions' \in Seq(Promotions)
    BY <1>1, GatheredType DEF LookupsInv, WaveInv, Fits
  <1>3. request # None
    BY <1>1 DEF LookupsInv, Active, NoWave
  <1> QED BY <1>1, <1>2, <1>3, WithoutAWave DEF LookupsInv, Gatherings, KindInv, RowsInv, Honest

(* findStores ends.                                                          *)
LEMMA StoresFoundKeepsInv ==
  ASSUME LookupsInv, StoresFound
  PROVE  LookupsInv'
  <1>1. /\ Active /\ request' = request /\ request.kind = "stores" /\ wave' = NoWave
        /\ UNCHANGED <<products, promotions, rows, left>>
    BY DEF StoresFound, Over, Continue, Done, Ended
  <1> QED BY <1>1, WithoutAWave, OtherKindsKeepInv DEF LookupsInv, Gatherings

(* Stores first has its stores.                                              *)
LEMMA StoresListedKeepsInv ==
  ASSUME LookupsInv, StoresListed
  PROVE  LookupsInv'
  <1>1. /\ Active /\ request' = request /\ request.kind = "storesFirst"
        /\ wave' = Wave("stock", None, listed')
        /\ UNCHANGED <<products, promotions, rows, left>>
    BY DEF StoresListed, Over, Continue
  <1>2. WaveInv'
    BY <1>1, FreshWave
  <1> QED BY <1>1, <1>2, OtherKindsKeepInv DEF LookupsInv, Gatherings

(* Stores first ends.                                                        *)
LEMMA StoresCheckedKeepsInv ==
  ASSUME LookupsInv, StoresChecked
  PROVE  LookupsInv'
  <1>1. /\ Active /\ request' = request /\ request.kind = "storesFirst" /\ wave' = NoWave
        /\ UNCHANGED <<products, promotions, rows, left>>
    BY DEF StoresChecked, Over, Continue, Done, Ended
  <1> QED BY <1>1, WithoutAWave, OtherKindsKeepInv DEF LookupsInv, Gatherings

(* Products first has its products.                                          *)
LEMMA ProductsFoundKeepsInv ==
  ASSUME LookupsInv, ProductsFound
  PROVE  LookupsInv'
  <1>1. /\ Active /\ Over /\ request' = request /\ stock' = stock
        /\ wave.what = "products" /\ products' = Gathered /\ left' = products'
        /\ UNCHANGED <<promotions, rows>>
    BY DEF ProductsFound, Over, Continue
  <1>2. products' \in Seq(Offered)
    BY <1>1, GatheredType DEF LookupsInv, WaveInv, Fits
  <1>3. request # None
    BY <1>1 DEF LookupsInv, Active, NoWave
  <1>4. WaveInv' /\ TurnInv'
    <2>1. CASE products' = << >>
      BY <2>1, WithoutAWave DEF ProductsFound, Ended
    <2>2. CASE products' # << >>
      BY <1>1, <1>2, <2>2, ToChainKeeps DEF ProductsFound
    <2> QED BY <2>1, <2>2
  <1> QED BY <1>1, <1>2, <1>3, <1>4 DEF LookupsInv, Gatherings, KindInv, RowsInv, Honest

(* Products first has the stores of a chain, or passes over the chain.       *)
LEMMA ChainStoresKeepsInv ==
  ASSUME LookupsInv, ChainStores
  PROVE  LookupsInv'
  <1>1. /\ Active /\ Over /\ request' = request /\ stock' = stock
        /\ request.kind = "productsFirst" /\ wave.what = "stores"
        /\ listed' = FoundStores(request.limit)
        /\ UNCHANGED <<products, promotions, rows>>
    BY DEF ChainStores, Over, Continue
  <1>2. request # None
    BY <1>1 DEF LookupsInv, Active, NoWave
  <1>3. left \in Seq(Offered) /\ left # << >> /\ DOMAIN wave.calls = {Head(left).chain}
    BY <1>1, <1>2 DEF LookupsInv, TurnInv, Gatherings
  <1>4. Head(left) \in Offered /\ Head(left).chain \in Vendors
    BY <1>3, HeadTailProperties, OfferedIsTyped
  <1>5. WaveInv' /\ TurnInv' /\ left' \in Seq(Offered)
    <2>1. CASE listed' = {}
      <3> DEFINE keep == [i \in DOMAIN left |-> left[i].chain # Head(left).chain]
      <3>1. /\ left' = Kept(left, LAMBDA p : p.chain # Head(left).chain)
            /\ ToChain(left')
        BY <2>1 DEF ChainStores
      <3>2. left' = FlattenSeq([i \in DOMAIN left |->
                                 IF keep[i] THEN <<left[i]>> ELSE << >>])
        <4>1. [i \in DOMAIN left |->
                 IF left[i].chain # Head(left).chain THEN <<left[i]>> ELSE << >>]
              = [i \in DOMAIN left |-> IF keep[i] THEN <<left[i]>> ELSE << >>]
          OBVIOUS
        <4> QED BY <3>1, <4>1 DEF Kept
      <3> HIDE DEF keep
      <3>3. \A i \in DOMAIN left : left[i] \in Offered
        BY <1>3, LenProperties, ElementOfSeq
      <3>4. left' \in Seq(Offered)
        BY <1>3, <3>2, <3>3, FlatMapType
      <3> QED BY <3>1, <3>4, ToChainKeeps
    <2>2. CASE listed' # {}
      <3>1. wave' = Wave("stock", Head(left), listed') /\ left' = left
        BY <2>2 DEF ChainStores
      <3>2. WaveInv' /\ wave'.what = "stock" /\ wave'.product = Head(left)
            /\ DOMAIN wave'.calls = listed'
        BY <3>1, FreshWave
      <3>3. listed' \subseteq SetOf(StoresOf[Head(left).chain])
        BY <1>1, <1>3, <1>4, StoresOfTheChain DEF LookupsInv
      <3> QED BY <1>3, <3>1, <3>2, <3>3 DEF TurnInv
    <2> QED BY <2>1, <2>2
  <1> QED BY <1>1, <1>2, <1>5 DEF LookupsInv, Gatherings, KindInv, RowsInv, Honest

(* Products first has asked about one product.                               *)
LEMMA ProductCheckedKeepsInv ==
  ASSUME LookupsInv, ProductChecked
  PROVE  LookupsInv'
  <1>1. /\ Active /\ Over /\ request' = request /\ stock' = stock
        /\ request.kind = "productsFirst" /\ wave.what = "stock"
        /\ left' = Tail(left)
        /\ UNCHANGED <<products, promotions, listed>>
    BY DEF ProductChecked, Over, Continue
  <1>2. request # None
    BY <1>1 DEF LookupsInv, Active, NoWave
  <1>3. /\ left \in Seq(Offered) /\ left # << >> /\ wave.product = Head(left)
        /\ DOMAIN wave.calls = listed /\ listed \subseteq SetOf(StoresOf[Head(left).chain])
    BY <1>1, <1>2 DEF LookupsInv, TurnInv, Gatherings
  <1>4. left' \in Seq(Offered)
    BY <1>1, <1>3, HeadTailProperties
  <1>5. RowsInv'
    <2>1. \A s \in DOMAIN wave.calls : Honest(wave.product, s, wave.calls[s])
      <3>1. \A s, a : a = Failed => Honest(wave.product, s, a)
        BY DEF Honest, Available
      <3> QED BY <1>1, <3>1 DEF LookupsInv, WaveInv, Fits, Over
    <2>2. \A r \in rows : Honest(r.product, r.store, r.answer)
      BY <1>1, <1>2 DEF LookupsInv, RowsInv
    <2>3. \A r \in rows' : Honest(r.product, r.store, r.answer)
      <3>1. rows' = rows \cup {[product |-> wave.product, store |-> s, answer |-> wave.calls[s]] :
                               s \in DOMAIN wave.calls}
        BY DEF ProductChecked
      <3> QED BY <2>1, <2>2, <3>1
    <2>4. \A p, s, a : Honest(p, s, a) => Honest(p, s, a)'
      BY <1>1 DEF Honest
    <2> QED BY <2>3, <2>4 DEF RowsInv
  <1>6. WaveInv' /\ TurnInv'
    <2>1. CASE left' # << >> /\ Head(left').chain = wave.product.chain
      <3>1. wave' = Wave("stock", Head(left'), listed)
        BY <2>1 DEF ProductChecked
      <3>2. WaveInv' /\ wave'.what = "stock" /\ wave'.product = Head(left')
            /\ DOMAIN wave'.calls = listed
        BY <3>1, FreshWave
      <3> QED BY <1>1, <1>3, <2>1, <3>2 DEF TurnInv
    <2>2. CASE ~ (left' # << >> /\ Head(left').chain = wave.product.chain)
      <3>1. ToChain(left')
        BY <2>2 DEF ProductChecked
      <3> QED BY <1>4, <3>1, ToChainKeeps
    <2> QED BY <2>1, <2>2
  <1> QED BY <1>1, <1>2, <1>4, <1>5, <1>6 DEF LookupsInv, Gatherings, KindInv

(* So every step keeps it.                                                   *)
LEMMA NextKeepsInv == LookupsInv /\ [Next]_vars => LookupsInv'
  <1> SUFFICES ASSUME LookupsInv, [Next]_vars PROVE LookupsInv'
    OBVIOUS
  <1>1. ASSUME NEW r \in Requests, StartRequest(r) PROVE LookupsInv'
    BY <1>1, StartKeepsInv
  <1>2. ASSUME NEW t \in DOMAIN wave.calls, Answer(t) PROVE LookupsInv'
    BY <1>2, EndsKeepsInv DEF Answer
  <1>3. ASSUME NEW t \in DOMAIN wave.calls, Overrun(t) \/ Throw(t) PROVE LookupsInv'
    BY <1>3, EndsKeepsInv DEF Overrun, Throw
  <1>4. CASE EndOfWave
    BY <1>4, ProductsComparedKeepsInv, PromotionsFoundKeepsInv, StoresFoundKeepsInv,
       StoresListedKeepsInv, StoresCheckedKeepsInv, ProductsFoundKeepsInv,
       ChainStoresKeepsInv, ProductCheckedKeepsInv DEF EndOfWave
  <1>5. CASE UNCHANGED vars
    BY <1>5 DEF vars, LookupsInv, Gatherings, WaveInv, KindInv, TurnInv, RowsInv, Fits, Honest
  <1> QED BY <1>1, <1>2, <1>3, <1>4, <1>5 DEF Next

(* Throughout a request of searchService.ts or priceComparisonService.ts,    *)
(* the wave's calls ended with what their vendors may say, products first is *)
(* at the chain and the product it says it is at, and its rows are honest.   *)
THEOREM LookupsInductive == Spec => []LookupsInv
  <1>1. Init => LookupsInv
    <2> SUFFICES ASSUME Init PROVE LookupsInv
      OBVIOUS
    <2>1. wave = [what |-> "none", product |-> None, calls |-> << >>]
      BY DEF Init, NoWave
    <2>2. wave.what = "none" /\ wave.product = None /\ wave.calls = << >>
      BY <2>1
    <2>3. DOMAIN << >> = {} /\ << >> = [t \in DOMAIN << >> |-> wave.calls[t]]
      OBVIOUS
    <2>4. wave.calls = [t \in DOMAIN wave.calls |-> wave.calls[t]]
      BY <2>2, <2>3
    <2>5. wave = [what |-> wave.what, product |-> wave.product,
                  calls |-> [t \in DOMAIN wave.calls |-> wave.calls[t]]]
      BY <2>1, <2>2, <2>4
    <2>6. WaveInv
      BY <2>2, <2>3, <2>5 DEF WaveInv
    <2>7. Gatherings /\ KindInv /\ TurnInv /\ RowsInv /\ request = None /\ rows = {} /\ wave = NoWave
          /\ outcome = None
      BY DEF Init, Gatherings, KindInv, TurnInv, RowsInv
    <2> QED BY <2>6, <2>7 DEF LookupsInv
  <1> QED BY <1>1, NextKeepsInv, PTL DEF Spec

(* lookupAvailabilityByLocationProductsFirst, for any chains, stores, search *)
(* results and stock: a product is shown in a store only if that product is  *)
(* in stock there, or the vendor's answer for an area left the store out.    *)
THEOREM LookupsTellOwnStock == Spec => []OwnStock
  <1>1. LookupsInv => OwnStock
    BY DEF LookupsInv, RowsInv, Honest, OwnStock
  <1> QED BY <1>1, LookupsInductive, PTL

-----------------------------------------------------------------------------
(* How many waves are still to come.                                         *)

Stage ==
  CASE wave.what \in {"stores", "promotions"} -> 2
    [] wave.what = "stock" -> 1
    [] OTHER -> 0

ToDo == 2 * Len(left) + Stage

(* Whatever the vendors answer, no wave comes back: the products are found   *)
(* once, and after them there is less to do at the end of every wave.        *)
WavesRunOut ==
  [][EndOfWave => IF wave.what = "products" THEN wave'.what # "products" ELSE ToDo' < ToDo]_vars

LEMMA StagesOfWaves ==
  /\ Stage \in 0 .. 2 /\ Stage' \in 0 .. 2
  /\ wave.what \in {"stores", "promotions"} => Stage = 2
  /\ wave'.what \in {"stores", "promotions"} => Stage' = 2
  /\ wave.what = "stock" => Stage = 1
  /\ wave'.what = "stock" => Stage' = 1
  /\ wave' = NoWave => Stage' = 0 /\ wave'.what = "none"
  BY DEF Stage, NoWave

(* With the chain of the next product its other products go too.             *)
LEMMA ChainPassedOver ==
  ASSUME left \in Seq(Offered), left # << >>
  PROVE  Len(Kept(left, LAMBDA p : p.chain # Head(left).chain)) < Len(left)
  <1> DEFINE q == [i \in DOMAIN left |->
                    IF left[i].chain # Head(left).chain THEN <<left[i]>> ELSE << >>]
  <1>1. Len(left) \in Nat /\ Len(left) # 0 /\ DOMAIN left = 1 .. Len(left)
    BY LenProperties, EmptySeq
  <1>2. \A i \in 1 .. Len(left) : left[i] \in Offered /\ q[i] \in Seq(Offered) /\ Len(q[i]) <= 1
    <2> SUFFICES ASSUME NEW i \in 1 .. Len(left)
                 PROVE  left[i] \in Offered /\ q[i] \in Seq(Offered) /\ Len(q[i]) <= 1
      OBVIOUS
    <2>1. left[i] \in Offered
      BY ElementOfSeq
    <2>2. q[i] = <<left[i]>> \/ q[i] = << >>
      BY <1>1
    <2>3. <<left[i]>> \in Seq(Offered) /\ << >> \in Seq(Offered)
          /\ Len(<<left[i]>>) <= 1 /\ Len(<< >>) <= 1
      BY <2>1
    <2> HIDE DEF q
    <2> QED BY <2>1, <2>2, <2>3, Zenon
  <1>3. q \in Seq(Seq(Offered)) /\ Len(q) = Len(left)
    <2>1. q \in Seq(Seq(Offered))
      BY <1>1, <1>2, IsASeq
    <2>2. DOMAIN q = 1 .. Len(left)
      BY <1>1
    <2> HIDE DEF q
    <2>3. DOMAIN q = 1 .. Len(q) /\ Len(q) \in Nat
      BY <2>1, LenProperties
    <2> QED BY <1>1, <2>1, <2>2, <2>3
  <1>4. q[1] = << >>
    <2>1. Head(left) = left[1]
      BY <1>1
    <2> QED BY <1>1, <2>1
  <1>5. Len(FlattenSeq(q)) < Len(q)
    <2> HIDE DEF q
    <2> QED BY <1>1, <1>2, <1>3, <1>4, FlattenSeqShortens
  <1> QED BY <1>3, <1>5 DEF Kept

(* What products first does next has stores to ask for, or is nothing.       *)
LEMMA NextChain ==
  ASSUME NEW todo, ToChain(todo)
  PROVE  wave'.what = "stores" \/ wave' = NoWave
  BY DEF ToChain, Done, Ended, Wave

LEMMA WavesShorten ==
  ASSUME LookupsInv, EndOfWave
  PROVE  IF wave.what = "products" THEN wave'.what # "products" ELSE ToDo' < ToDo
  <1>1. Active /\ Over /\ request # None /\ left \in Seq(Offered) /\ Len(left) \in Nat
    <2>1. Active /\ Over
      BY DEF EndOfWave, ProductsCompared, PromotionsFound, StoresFound, StoresListed,
             StoresChecked, ProductsFound, ChainStores, ProductChecked, Over
    <2> QED BY <2>1, LenProperties DEF LookupsInv, Gatherings, Active, NoWave
  <1>2. CASE ProductsCompared \/ ProductsFound
    <2>1. wave.what = "products"
      BY <1>2 DEF ProductsCompared, ProductsFound
    <2>2. wave'.what \in {"promotions", "stores", "none"}
      <3>1. wave' = NoWave => wave'.what = "none"
        BY StagesOfWaves
      <3>2. CASE ProductsCompared
        BY <3>1, <3>2 DEF ProductsCompared, Done, Ended, Wave
      <3>3. CASE ProductsFound
        BY <3>1, <3>3, NextChain DEF ProductsFound, Ended
      <3> QED BY <1>2, <3>2, <3>3
    <2> QED BY <2>1, <2>2
  <1>3. CASE PromotionsFound \/ StoresFound \/ StoresChecked
    <2>1. wave' = NoWave /\ left' = left
      BY <1>3 DEF PromotionsFound, StoresFound, StoresChecked, Done, Ended
    <2>2. wave.what \in {"promotions", "stores", "stock"}
      <3>1. CASE StoresFound
        BY <1>1, <3>1 DEF StoresFound, LookupsInv, KindInv, Active
      <3> QED BY <1>3, <3>1 DEF PromotionsFound, StoresChecked
    <2> QED BY <1>1, <2>1, <2>2, StagesOfWaves DEF ToDo
  <1>4. CASE StoresListed
    <2>1. wave.what = "stores" /\ wave'.what = "stock" /\ left' = left
      BY <1>4 DEF StoresListed, Wave
    <2> QED BY <1>1, <2>1, StagesOfWaves DEF ToDo
  <1>5. CASE ChainStores
    <2>1. wave.what = "stores" /\ left # << >>
      BY <1>1, <1>5 DEF ChainStores, LookupsInv, TurnInv
    <2>2. CASE listed' = {}
      <3>1. left' = Kept(left, LAMBDA p : p.chain # Head(left).chain) /\ ToChain(left')
        BY <1>5, <2>2 DEF ChainStores
      <3>2. Len(left') < Len(left)
        BY <1>1, <2>1, <3>1, ChainPassedOver
      <3>3. Len(left') \in Nat
        <4>1. LookupsInv'
          BY <1>5, ChainStoresKeepsInv
        <4> QED BY <4>1, LenProperties DEF LookupsInv, Gatherings
      <3> QED BY <1>1, <2>1, <3>1, <3>2, <3>3, NextChain, StagesOfWaves DEF ToDo
    <2>3. CASE listed' # {}
      <3>1. wave'.what = "stock" /\ left' = left
        BY <1>5, <2>3 DEF ChainStores, Wave
      <3> QED BY <1>1, <2>1, <3>1, StagesOfWaves DEF ToDo
    <2> QED BY <2>2, <2>3
  <1>6. CASE ProductChecked
    <2>1. wave.what = "stock" /\ left # << >> /\ left' = Tail(left)
      BY <1>1, <1>6 DEF ProductChecked, LookupsInv, TurnInv
    <2>2. Len(left') = Len(left) - 1
      BY <1>1, <2>1, HeadTailProperties
    <2>3. wave'.what \in {"stock", "stores"} \/ wave' = NoWave
      BY <1>6, NextChain DEF ProductChecked, Wave
    <2> QED BY <1>1, <2>1, <2>2, <2>3, StagesOfWaves DEF ToDo
  <1> QED BY <1>2, <1>3, <1>4, <1>5, <1>6 DEF EndOfWave

(* Every request that asks in waves runs out of them, for any number of      *)
(* products, chains and stores: the part of LookupsEnd that is not about     *)
(* fairness.  Each call of a wave ends once.                                 *)
THEOREM RequestsRunOutOfWaves == Spec => WavesRunOut
  <1>1. LookupsInv /\ [Next]_vars =>
          (EndOfWave => IF wave.what = "products" THEN wave'.what # "products"
                                                  ELSE ToDo' < ToDo)
    BY WavesShorten
  <1> QED BY <1>1, LookupsInductive, PTL DEF Spec, WavesRunOut

-----------------------------------------------------------------------------
(* Comparing offers.                                                         *)

(* Rounding a quotient of naturals gives one.                                *)
LEMMA RoundCurrencyType ==
  ASSUME NEW n \in Nat, NEW d \in Nat \ {0}
  PROVE  RoundCurrency(n, d) \in Nat
  <1>1. 2 * n + d \in Nat /\ 2 * d \in Nat \ {0}
    OBVIOUS
  <1>2. \A a \in Nat, b \in Nat \ {0} : a \div b \in Nat
    OBVIOUS
  <1> QED BY <1>1, <1>2 DEF RoundCurrency

(* A product has a unit price in a known denomination, or none.              *)
LEMMA UnitPriceType ==
  ASSUME NEW p \in PricedProducts
  PROVE  UnitPrice(p) \in UnitPrices \cup {None}
  <1>1. \A per : \A price \in Nat, value \in Nat \ {0} :
          Recognised(per) => BaseUnitPrice(price, value, per) \in UnitPrices
    <2> SUFFICES ASSUME NEW price \in Nat, NEW value \in Nat \ {0}, NEW per, Recognised(per)
                 PROVE  BaseUnitPrice(price, value, per) \in UnitPrices
      OBVIOUS
    <2>1. BaseUnits[per].unit \in Texts /\ BaseUnits[per].thousandths \in Nat \ {0}
      <3>1. per \in {"kg", "hg", "g", "l", "dl", "piece"}
        BY DEF Recognised, BaseUnits
      <3> QED BY <3>1, ComparisonAssumption DEF BaseUnits
    <2>2. \A a, b \in Nat \ {0} : a * b \in Nat \ {0}
      OBVIOUS
    <2>3. 1000 * price \in Nat /\ value * BaseUnits[per].thousandths \in Nat \ {0}
      BY <2>1, <2>2
    <2>4. RoundCurrency(1000 * price, value * BaseUnits[per].thousandths) \in Nat
      BY <2>3, RoundCurrencyType
    <2> QED BY <2>1, <2>4 DEF BaseUnitPrice, UnitPrices
  <1>2. /\ p.price \in Nat
        /\ p.content # None => p.content.value \in Nat
        /\ p.vendorUnit # None => p.vendorUnit.value \in Nat /\ p.vendorUnit.per \in Texts
    BY DEF PricedProducts, Promotions, Measure
  <1>3. VendorUnitPrice(p) \in UnitPrices \cup {None}
    <2>1. CASE p.vendorUnit = None \/ p.vendorUnit.value <= 0
      BY <2>1 DEF VendorUnitPrice
    <2>2. CASE ~ (p.vendorUnit = None \/ p.vendorUnit.value <= 0)
      <3>1. p.vendorUnit.value \in Nat /\ p.vendorUnit.per \in Texts
        BY <1>2, <2>2
      <3>2. [unit |-> p.vendorUnit.per, price |-> p.vendorUnit.value] \in UnitPrices
        BY <3>1 DEF UnitPrices
      <3>3. Recognised(p.vendorUnit.per) =>
              BaseUnitPrice(p.vendorUnit.value, 1, p.vendorUnit.per) \in UnitPrices
        BY <1>1, <3>1
      <3> QED BY <2>2, <3>2, <3>3 DEF VendorUnitPrice
    <2> QED BY <2>1, <2>2
  <1>4. p.content # None /\ p.content.value > 0 /\ Recognised(p.content.per) =>
          BaseUnitPrice(p.price, p.content.value, p.content.per) \in UnitPrices
    BY <1>1, <1>2
  <1> QED BY <1>3, <1>4 DEF UnitPrice

(* A priced product makes an offer.                                          *)
LEMMA OfferType ==
  ASSUME NEW p \in PricedProducts, NEW quantity \in Nat, NEW basis \in {"product", "promotion"}
  PROVE  Offer(p, quantity, basis) \in Offers
  <1>1. /\ p.chain \in Texts /\ p.name \in Texts /\ p.size \in Texts \cup {None}
        /\ p.price \in Nat
    BY DEF PricedProducts, Promotions
  <1>2. p.price * quantity \in Nat
    BY <1>1
  <1>3. UnitPrice(p) \in UnitPrices \cup {None}
    BY UnitPriceType
  <1> QED BY <1>1, <1>2, <1>3 DEF Offer, Offers

(* Products and promotions make offers, those without a price left out.      *)
LEMMA OffersOfType ==
  ASSUME NEW found \in Seq(PricedProducts), NEW promoted \in Seq(Promotions),
         NEW quantity \in Nat, NEW maxPrice
  PROVE  OffersOf(found, promoted, quantity, maxPrice) \in Seq(Offers)
  <1> DEFINE keep == [i \in DOMAIN promoted |-> Affordable(promoted[i], maxPrice)]
             counting == Kept(promoted, LAMBDA p : Affordable(p, maxPrice))
             first == [i \in DOMAIN found |-> Offer(found[i], quantity, "product")]
             second == [i \in DOMAIN counting |-> Offer(counting[i], quantity, "promotion")]
  <1>1. counting \in Seq(PricedProducts)
    <2>1. counting = FlattenSeq([i \in DOMAIN promoted |->
                                  IF keep[i] THEN <<promoted[i]>> ELSE << >>])
      <3>1. [i \in DOMAIN promoted |->
               IF Affordable(promoted[i], maxPrice) THEN <<promoted[i]>> ELSE << >>]
            = [i \in DOMAIN promoted |-> IF keep[i] THEN <<promoted[i]>> ELSE << >>]
        OBVIOUS
      <3> QED BY <3>1 DEF Kept
    <2>2. \A i \in DOMAIN promoted : keep[i] => promoted[i] \in PricedProducts
      <3>1. \A i \in DOMAIN promoted : promoted[i] \in Promotions
        BY LenProperties, ElementOfSeq
      <3> QED BY <3>1 DEF Affordable, PricedProducts
    <2> QED BY <2>1, <2>2, FlatMapType
  <1> HIDE DEF counting
  <1>2. \A s \in Seq(PricedProducts) : \A b \in {"product", "promotion"} :
          [i \in DOMAIN s |-> Offer(s[i], quantity, b)] \in Seq(Offers)
    <2> SUFFICES ASSUME NEW s \in Seq(PricedProducts), NEW b \in {"product", "promotion"}
                 PROVE  [i \in DOMAIN s |-> Offer(s[i], quantity, b)] \in Seq(Offers)
      OBVIOUS
    <2>1. Len(s) \in Nat /\ DOMAIN s = 1 .. Len(s)
      BY LenProperties
    <2>2. \A i \in 1 .. Len(s) : Offer(s[i], quantity, b) \in Offers
      BY ElementOfSeq, OfferType
    <2> QED BY <2>1, <2>2, IsASeq
  <1>3. first \in Seq(Offers) /\ second \in Seq(Offers)
    BY <1>1, <1>2
  <1>4. OffersOf(found, promoted, quantity, maxPrice) = first \o second
    BY DEF OffersOf, counting
  <1> QED BY <1>3, <1>4, ConcatProperties

(* Whatever was merged away, an offer of its key that costs no more is kept. *)
LEMMA DedupeKeepsTheCheapest ==
  ASSUME NEW raw \in Seq(Offers), NEW j \in DOMAIN raw
  PROVE  \E i \in Dedupe(raw) : raw[i].total <= raw[j].total
  <1> DEFINE n == Len(raw)
             total == [i \in 1 .. n |-> raw[i].total]
             promoted == {i \in 1 .. n : raw[i].basis = "promotion"}
             K == {i \in 1 .. n : DedupeKey(raw[i]) = DedupeKey(raw[j])}
             Wins(i, k) == total[i] < total[k] \/ (total[i] = total[k] /\ i \in promoted)
             Goes(i, k) == (k < i => Wins(i, k)) /\ (i < k => ~ Wins(k, i))
             R == {p \in K \X K : Goes(p[1], p[2])}
  <1>1. n \in Nat /\ DOMAIN raw = 1 .. n
    BY LenProperties
  <1>2. total \in [1 .. n -> Nat]
    <2>1. \A i \in 1 .. n : raw[i] \in Offers
      BY ElementOfSeq
    <2> QED BY <2>1 DEF Offers
  <1>3. j \in K /\ K \in SUBSET (1 .. n)
    BY <1>1
  <1>4. \A i, k \in K : Wins(i, k) = Replaces(raw[i], raw[k])
    BY <1>1 DEF Replaces
  <1> HIDE DEF n, total, promoted, K, Goes
  <1>5. \A i, k \in K : <<i, k>> \in R <=> Goes(i, k)
    OBVIOUS
  <1> HIDE DEF R
  <1>6. \A i, k \in K : <<i, k>> \in R <=>
          (k < i => Wins(i, k)) /\ (i < k => ~ Wins(k, i))
    BY <1>5 DEF Goes
  <1>7. \A i \in K : i \in Nat /\ total[i] \in Nat
    BY <1>1, <1>2, <1>3
  <1>8. \A i, k \in K : i # k => <<i, k>> \in R \/ <<k, i>> \in R
    BY <1>6, <1>7
  <1>9. \A i, k, l \in K : <<i, k>> \in R /\ <<k, l>> \in R /\ i # l => <<i, l>> \in R
    BY <1>6, <1>7
  <1>10. PICK i \in K : \A k \in K \ {i} : <<i, k>> \in R
    <2>1. K # {}
      BY <1>3
    <2> QED BY <1>1, <1>3, <1>8, <1>9, <2>1, OrdersHaveAFirst, Zenon
  <1>11. i \in Dedupe(raw)
    <2>1. i \in DOMAIN raw
      BY <1>1, <1>3
    <2>2. ASSUME NEW k \in DOMAIN raw, DedupeKey(raw[k]) = DedupeKey(raw[i])
          PROVE  /\ k < i => Replaces(raw[i], raw[k])
                 /\ i < k => ~ Replaces(raw[k], raw[i])
      <3>1. k \in K
        BY <1>1, <2>2 DEF K
      <3>2. i # k => <<i, k>> \in R
        BY <1>10, <3>1
      <3>3. i = k => ~ (k < i) /\ ~ (i < k)
        BY <1>7
      <3> HIDE DEF Wins
      <3>4. i # k => (k < i => Wins(i, k)) /\ (i < k => ~ Wins(k, i))
        BY <1>6, <3>1, <3>2
      <3> QED BY <1>4, <3>1, <3>3, <3>4
    <2> QED BY <2>1, <2>2 DEF Dedupe, Survives
  <1>12. total[i] <= total[j]
    <2>1. i # j => <<i, j>> \in R
      BY <1>3, <1>10
    <2> QED BY <1>3, <1>6, <1>7, <2>1
  <1>13. total[i] = raw[i].total /\ total[j] = raw[j].total
    BY <1>3 DEF total
  <1> QED BY <1>11, <1>12, <1>13

(* One offer stands before another when sortOffers has sorted them.          *)
Precedes(raw, basis, primary, i, j) ==
  \/ Before(raw[i], raw[j], basis, primary)
  \/ ~Before(raw[j], raw[i], basis, primary) /\ i < j

(* By unit price, then by total, then by name.                               *)
Lower(u, t, r, v, s, q) == u < v \/ (u = v /\ (t < s \/ (t = s /\ r < q)))

(* That compares any two of the offers and is transitive, though the units   *)
(* of some can be compared and of others cannot.                             *)
LEMMA PrecedesOrders ==
  ASSUME NEW raw \in Seq(Offers), NEW basis \in {"packPrice", "unitPrice"}, NEW primary
  PROVE  /\ \A i, j \in DOMAIN raw : i # j =>
              Precedes(raw, basis, primary, i, j) \/ Precedes(raw, basis, primary, j, i)
         /\ \A i, j, k \in DOMAIN raw :
              /\ Precedes(raw, basis, primary, i, j)
              /\ Precedes(raw, basis, primary, j, k)
              /\ i # k
              => Precedes(raw, basis, primary, i, k)
  <1> DEFINE n == Len(raw)
             E == {i \in 1 .. n : Eligible(raw[i], basis, primary)}
             total == [i \in 1 .. n |-> raw[i].total]
             rank == [i \in 1 .. n |-> Rank[raw[i].name]]
             unit == [i \in 1 .. n |-> IF basis = "unitPrice" /\ i \in E
                                      THEN raw[i].unit.price ELSE 0]
             Less(i, j) ==
               IF basis = "unitPrice" /\ ~ (i \in E <=> j \in E) THEN i \in E
               ELSE IF basis = "unitPrice" /\ i \in E /\ unit[i] # unit[j]
                    THEN unit[i] < unit[j]
                    ELSE total[i] < total[j] \/ (total[i] = total[j] /\ rank[i] < rank[j])
  <1>1. n \in Nat /\ DOMAIN raw = 1 .. n
    BY LenProperties
  <1>2. \A i \in 1 .. n : raw[i] \in Offers
    BY <1>1, ElementOfSeq
  <1>3. \A i \in 1 .. n : total[i] \in Nat
    BY <1>2 DEF Offers
  <1>4. \A i \in 1 .. n : rank[i] \in Int
    BY <1>2, ComparisonAssumption DEF Offers
  <1>5. \A i \in 1 .. n : unit[i] \in Nat
    BY <1>2 DEF Offers, UnitPrices, Eligible
  <1>6. \A i, j \in 1 .. n : Before(raw[i], raw[j], basis, primary) <=> Less(i, j)
    <2> SUFFICES ASSUME NEW i \in 1 .. n, NEW j \in 1 .. n
                 PROVE  Before(raw[i], raw[j], basis, primary) <=> Less(i, j)
      OBVIOUS
    <2>1. /\ i \in E <=> Eligible(raw[i], basis, primary)
          /\ j \in E <=> Eligible(raw[j], basis, primary)
          /\ total[i] = raw[i].total /\ total[j] = raw[j].total
          /\ rank[i] = Rank[raw[i].name] /\ rank[j] = Rank[raw[j].name]
          /\ basis = "unitPrice" /\ i \in E => unit[i] = raw[i].unit.price
          /\ basis = "unitPrice" /\ j \in E => unit[j] = raw[j].unit.price
      OBVIOUS
    <2> HIDE DEF E, total, rank, unit
    <2>2. CASE basis = "packPrice"
      BY <2>1, <2>2 DEF Before
    <2>3. CASE basis = "unitPrice" /\ i \in E /\ j \in E
      BY <2>1, <2>3 DEF Before
    <2>4. CASE basis = "unitPrice" /\ i \in E /\ j \notin E
      BY <2>1, <2>4 DEF Before
    <2>5. CASE basis = "unitPrice" /\ i \notin E /\ j \in E
      BY <2>1, <2>5 DEF Before
    <2>6. CASE basis = "unitPrice" /\ i \notin E /\ j \notin E
      <3>1. \A o : Eligible(o, basis, primary) \in BOOLEAN
        BY DEF Eligible
      <3>2. Eligible(raw[i], basis, primary) = Eligible(raw[j], basis, primary)
        BY <2>1, <2>6, <3>1
      <3>3. Before(raw[i], raw[j], basis, primary) <=>
              \/ raw[i].total < raw[j].total
              \/ raw[i].total = raw[j].total /\ Rank[raw[i].name] < Rank[raw[j].name]
        BY <2>1, <2>6, <3>2, Zenon DEF Before
      <3> QED BY <2>1, <2>6, <3>3
    <2> QED BY <2>2, <2>3, <2>4, <2>5, <2>6
  <1> HIDE DEF n, E, total, rank, unit
  <1>7. \A i, j \in 1 .. n : Precedes(raw, basis, primary, i, j) <=>
          Less(i, j) \/ (~ Less(j, i) /\ i < j)
    BY <1>6 DEF Precedes
  <1>8. \A i \in 1 .. n : i \in Nat
    BY <1>1
  <1>9. \A i, j \in 1 .. n : i # j =>
          Precedes(raw, basis, primary, i, j) \/ Precedes(raw, basis, primary, j, i)
    BY <1>3, <1>4, <1>5, <1>7, <1>8
  <1>10. ASSUME NEW i \in 1 .. n, NEW j \in 1 .. n, NEW k \in 1 .. n, i # k,
                Precedes(raw, basis, primary, i, j), Precedes(raw, basis, primary, j, k)
         PROVE  Precedes(raw, basis, primary, i, k)
    <2>1. /\ Less(i, j) \/ (~ Less(j, i) /\ i < j)
          /\ Less(j, k) \/ (~ Less(k, j) /\ j < k)
      BY <1>7, <1>10
    <2>2. /\ total[i] \in Nat /\ total[j] \in Nat /\ total[k] \in Nat
          /\ rank[i] \in Int /\ rank[j] \in Int /\ rank[k] \in Int
          /\ unit[i] \in Nat /\ unit[j] \in Nat /\ unit[k] \in Nat
          /\ i \in Nat /\ j \in Nat /\ k \in Nat
      BY <1>3, <1>4, <1>5, <1>8
    <2>3. Less(i, k) \/ (~ Less(k, i) /\ i < k)
      <3>1. ASSUME basis = "unitPrice" => (i \in E <=> j \in E) /\ (j \in E <=> k \in E)
            PROVE  Less(i, k) \/ (~ Less(k, i) /\ i < k)
        <4> DEFINE Lows(a, b) == Lower(unit[a], total[a], rank[a], unit[b], total[b], rank[b])
        <4>1. \A a, b \in {i, j, k} : Less(a, b) <=> Lows(a, b)
          <5>1. \A a \in {i, j, k} : (basis = "unitPrice" => a \notin E) => unit[a] = 0
            BY DEF unit
          <5> SUFFICES ASSUME NEW a \in {i, j, k}, NEW b \in {i, j, k}
                       PROVE  Less(a, b) <=> Lows(a, b)
            OBVIOUS
          <5>2. /\ unit[a] \in Nat /\ unit[b] \in Nat
                /\ basis = "unitPrice" => (a \in E <=> b \in E)
            BY <2>2, <3>1
          <5>3. CASE basis = "unitPrice" /\ a \in E
            BY <5>2, <5>3 DEF Lower
          <5>4. CASE ~ (basis = "unitPrice" /\ a \in E)
            <6>1. unit[a] = 0 /\ unit[b] = 0
              BY <5>1, <5>2, <5>4
            <6> QED BY <5>2, <5>4, <6>1 DEF Lower
          <5> QED BY <5>3, <5>4
        <4> HIDE DEF Less
        <4>2. /\ Lows(i, j) \/ (~ Lows(j, i) /\ i < j)
              /\ Lows(j, k) \/ (~ Lows(k, j) /\ j < k)
          BY <2>1, <4>1
        <4>3. Lows(i, k) \/ (~ Lows(k, i) /\ i < k)
          <5>1. /\ total[i] \in Int /\ total[j] \in Int /\ total[k] \in Int
                /\ rank[i] \in Int /\ rank[j] \in Int /\ rank[k] \in Int
                /\ unit[i] \in Int /\ unit[j] \in Int /\ unit[k] \in Int
                /\ i \in Int /\ j \in Int /\ k \in Int
            BY <2>2
          <5>2. PICK u1, t1, r1, u2, t2, r2, u3, t3, r3 \in Int :
                  /\ u1 = unit[i] /\ t1 = total[i] /\ r1 = rank[i]
                  /\ u2 = unit[j] /\ t2 = total[j] /\ r2 = rank[j]
                  /\ u3 = unit[k] /\ t3 = total[k] /\ r3 = rank[k]
            BY <5>1, Zenon
          <5>3. /\ Lower(u1, t1, r1, u2, t2, r2) \/ (~ Lower(u2, t2, r2, u1, t1, r1) /\ i < j)
                /\ Lower(u2, t2, r2, u3, t3, r3) \/ (~ Lower(u3, t3, r3, u2, t2, r2) /\ j < k)
            BY <4>2, <5>2
          <5>4. Lower(u1, t1, r1, u3, t3, r3) \/ (~ Lower(u3, t3, r3, u1, t1, r1) /\ i < k)
            BY <5>1, <5>3 DEF Lower
          <5> QED BY <5>2, <5>4
        <4> QED BY <4>1, <4>3
      <3>4. CASE basis = "unitPrice" /\ i \in E /\ k \notin E
        BY <2>1, <2>2, <3>4
      <3>5. CASE basis = "unitPrice" /\ i \in E /\ j \notin E /\ k \in E
        BY <2>1, <2>2, <3>5
      <3>6. CASE basis = "unitPrice" /\ i \notin E /\ k \in E
        BY <2>1, <2>2, <3>6
      <3>7. CASE basis = "unitPrice" /\ i \notin E /\ j \in E /\ k \notin E
        BY <2>1, <2>2, <3>7
      <3> QED BY <3>1, <3>4, <3>5, <3>6, <3>7
    <2> QED BY <1>7, <2>3
  <1> QED BY <1>1, <1>9, <1>10

(* The comparison, whatever was found: nothing costs less than the cheapest. *)
LEMMA ComparisonIsRight ==
  ASSUME NEW raw \in Seq(Offers), NEW ask, ask.basis \in {"packPrice", "unitPrice"}
  PROVE  LET result == Comparison(raw, ask)
             c == result.cheapest
             comparable == {o \in result.offers : Eligible(o, ask.basis, result.unit)}
         IN /\ (c = None) <=> (raw = << >>)
            /\ ask.basis = "packPrice" => \A o \in SetOf(raw) : c.total <= o.total
            /\ comparable # {} =>
                 /\ c \in comparable
                 /\ \A o \in comparable :
                      /\ ComparisonPrice(c, ask.basis) <= ComparisonPrice(o, ask.basis)
                      /\ ComparisonPrice(o, ask.basis) <= ComparisonPrice(result.dearest, ask.basis)
            /\ result.savings # None => result.savings >= 0
  <1> DEFINE basis == ask.basis
             kept == Dedupe(raw)
             primary == IF basis = "packPrice" THEN "pack" ELSE PrimaryUnit(raw, kept)
             comparable == {i \in kept : Eligible(raw[i], basis, primary)}
             Goes(i, j) == Precedes(raw, basis, primary, i, j)
             first == CHOOSE i \in kept : \A j \in kept \ {i} : Goes(i, j)
             last == CHOOSE i \in comparable : \A j \in comparable \ {i} : Goes(j, i)
             Price(i) == ComparisonPrice(raw[i], basis)
             result == Comparison(raw, ask)
  <1>1. result =
          [offers   |-> {raw[i] : i \in kept},
           unit     |-> primary,
           cheapest |-> IF kept = {} THEN None ELSE raw[first],
           dearest  |-> IF comparable = {} THEN None ELSE raw[last],
           savings  |-> IF comparable = {} \/ first = last THEN None ELSE Price(last) - Price(first)]
    BY DEF Comparison, Precedes
  <1> HIDE DEF primary, first, last, result
  <1>2. /\ raw \in Seq(Offers) /\ Len(raw) \in Nat /\ DOMAIN raw = 1 .. Len(raw)
        /\ \A i \in DOMAIN raw : raw[i] \in Offers
    BY LenProperties, ElementOfSeq
  <1>3. kept \subseteq DOMAIN raw /\ (kept = {} <=> raw = << >>)
    <2>1. kept \subseteq DOMAIN raw
      BY DEF Dedupe
    <2>2. raw # << >> => 1 \in DOMAIN raw
      BY <1>2, EmptySeq
    <2>3. raw = << >> => DOMAIN raw = {}
      BY <1>2
    <2>4. raw # << >> => kept # {}
      BY <1>2, <2>2, DedupeKeepsTheCheapest
    <2> QED BY <2>1, <2>3, <2>4
  <1>4. ASSUME kept # {} PROVE first \in kept /\ \A j \in kept \ {first} : Goes(first, j)
    <2> DEFINE R == {p \in kept \X kept : Goes(p[1], p[2])}
    <2>1. \A i, j \in kept : <<i, j>> \in R <=> Goes(i, j)
      OBVIOUS
    <2>2. /\ \A i, j \in kept : i # j => <<i, j>> \in R \/ <<j, i>> \in R
          /\ \A i, j, k \in kept : <<i, j>> \in R /\ <<j, k>> \in R /\ i # k => <<i, k>> \in R
      <3>1. /\ \A i, j \in DOMAIN raw : i # j => Goes(i, j) \/ Goes(j, i)
            /\ \A i, j, k \in DOMAIN raw : Goes(i, j) /\ Goes(j, k) /\ i # k => Goes(i, k)
        BY <1>2, PrecedesOrders
      <3> HIDE DEF kept, Goes, R
      <3> QED BY <1>3, <2>1, <3>1
    <2> HIDE DEF R, kept
    <2>3. kept \in SUBSET (1 .. Len(raw))
      BY <1>2, <1>3
    <2>4. \E i \in kept : \A j \in kept \ {i} : <<i, j>> \in R
      BY <1>2, <1>4, <2>2, <2>3, OrdersHaveAFirst, Zenon
    <2>5. \E i \in kept : \A j \in kept \ {i} : Goes(i, j)
      BY <2>1, <2>4
    <2> QED BY <2>5 DEF first
  <1>5. ASSUME comparable # {}
        PROVE  last \in comparable /\ \A j \in comparable \ {last} : Goes(j, last)
    <2> DEFINE R == {p \in comparable \X comparable : Goes(p[2], p[1])}
    <2>1. \A i, j \in comparable : <<i, j>> \in R <=> Goes(j, i)
      OBVIOUS
    <2>2. /\ \A i, j \in comparable : i # j => <<i, j>> \in R \/ <<j, i>> \in R
          /\ \A i, j, k \in comparable :
               <<i, j>> \in R /\ <<j, k>> \in R /\ i # k => <<i, k>> \in R
      <3>1. /\ \A i, j \in DOMAIN raw : i # j => Goes(i, j) \/ Goes(j, i)
            /\ \A i, j, k \in DOMAIN raw : Goes(i, j) /\ Goes(j, k) /\ i # k => Goes(i, k)
        BY <1>2, PrecedesOrders
      <3>2. comparable \subseteq DOMAIN raw
        BY <1>3
      <3> HIDE DEF comparable, Goes, R
      <3> QED BY <2>1, <3>1, <3>2
    <2> HIDE DEF R
    <2>3. comparable \in SUBSET (1 .. Len(raw))
      BY <1>2, <1>3
    <2> HIDE DEF comparable
    <2>4. \E i \in comparable : \A j \in comparable \ {i} : <<i, j>> \in R
      BY <1>2, <1>5, <2>2, <2>3, OrdersHaveAFirst, Zenon
    <2>5. \E i \in comparable : \A j \in comparable \ {i} : Goes(j, i)
      BY <2>1, <2>4
    <2> QED BY <2>5 DEF last
  <1>6. /\ \A i \in DOMAIN raw : raw[i].total \in Nat
        /\ \A i \in comparable : Price(i) \in Nat
    <2>1. \A i \in DOMAIN raw :
            raw[i].total \in Nat /\ (raw[i].unit # None => raw[i].unit.price \in Nat)
      BY <1>2 DEF Offers, UnitPrices
    <2>2. comparable \subseteq DOMAIN raw
      BY <1>3
    <2> QED BY <2>1, <2>2 DEF Eligible, ComparisonPrice
  (* Of two comparable offers, the one that goes first has the lower price.  *)
  <1>7. ASSUME NEW i \in comparable, NEW j \in comparable, Goes(i, j)
        PROVE  Price(i) <= Price(j)
    <2>1. /\ i \in DOMAIN raw /\ j \in DOMAIN raw
          /\ Eligible(raw[i], basis, primary) /\ Eligible(raw[j], basis, primary)
      BY <1>3
    <2>2. /\ Price(i) \in Nat /\ Price(j) \in Nat
          /\ raw[i].total \in Nat /\ raw[j].total \in Nat
      BY <1>6, <2>1
    <2>3. CASE basis = "packPrice"
      BY <1>7, <2>2, <2>3 DEF Precedes, Before, ComparisonPrice
    <2>4. CASE basis = "unitPrice"
      <3>1. Price(i) = raw[i].unit.price /\ Price(j) = raw[j].unit.price
        BY <2>4 DEF ComparisonPrice
      <3>2. Price(i) # Price(j) =>
              /\ Before(raw[i], raw[j], basis, primary) <=> Price(i) < Price(j)
              /\ Before(raw[j], raw[i], basis, primary) <=> Price(j) < Price(i)
        BY <2>1, <2>4, <3>1 DEF Before
      <3> QED BY <1>7, <2>2, <3>2 DEF Precedes
    <2> QED BY <2>3, <2>4
  (* Where any offer can be compared, the first can.                         *)
  <1>8. ASSUME comparable # {} PROVE first \in comparable
    <2>1. PICK i \in comparable : TRUE
      BY <1>8
    <2>2. i \in kept /\ kept # {} /\ Eligible(raw[i], basis, primary)
      BY <2>1
    <2>3. first \in kept /\ (first # i => Goes(first, i))
      BY <1>4, <2>2
    <2>4. CASE basis = "packPrice"
      BY <2>3, <2>4 DEF Eligible
    <2>5. CASE basis = "unitPrice"
      <3>1. SUFFICES ASSUME ~ Eligible(raw[first], basis, primary) PROVE FALSE
        BY <2>3
      <3>2. ~ Before(raw[first], raw[i], basis, primary) /\ Before(raw[i], raw[first], basis, primary)
        BY <2>2, <2>5, <3>1 DEF Before
      <3> QED BY <2>2, <2>3, <3>1, <3>2 DEF Precedes
    <2> QED BY <2>4, <2>5
  <1> DEFINE c == result.cheapest
             some == {o \in result.offers : Eligible(o, basis, result.unit)}
  <1>9. some = {raw[i] : i \in comparable}
    BY <1>1
  <1>10. (c = None) <=> (raw = << >>)
    <2>1. kept # {} => raw[first] # None
      BY <1>2, <1>3, <1>4, ComparisonAssumption
    <2> QED BY <1>1, <1>3, <2>1
  <1>11. ASSUME basis = "packPrice", NEW o \in SetOf(raw)
         PROVE  c.total <= o.total
    <2>1. PICK j \in DOMAIN raw : o = raw[j]
      BY <1>11 DEF SetOf
    <2>2. PICK i \in kept : raw[i].total <= raw[j].total
      BY <1>2, DedupeKeepsTheCheapest
    <2>3. kept = comparable
      BY <1>11 DEF Eligible
    <2>4. first \in comparable /\ (i # first => Goes(first, i)) /\ c = raw[first]
      BY <1>1, <1>4, <2>2, <2>3
    <2>5. i # first => Price(first) <= Price(i)
      BY <1>7, <2>2, <2>3, <2>4
    <2>6. Price(first) = raw[first].total /\ Price(i) = raw[i].total
      BY <1>11 DEF ComparisonPrice
    <2>7. raw[first].total \in Nat /\ raw[i].total \in Nat /\ raw[j].total \in Nat
      BY <1>3, <1>6, <2>2, <2>4
    <2> QED BY <2>1, <2>2, <2>4, <2>5, <2>6, <2>7
  <1>12. ASSUME comparable # {}
         PROVE  /\ first \in comparable /\ last \in comparable
                /\ c = raw[first] /\ result.dearest = raw[last]
                /\ \A i \in comparable : Price(first) <= Price(i) /\ Price(i) <= Price(last)
    <2>1. /\ first \in comparable /\ last \in comparable /\ kept # {}
      BY <1>5, <1>8, <1>12
    <2>2. c = raw[first] /\ result.dearest = raw[last]
      BY <1>1, <1>12, <2>1
    <2>3. \A i \in comparable :
            (i # first => Goes(first, i)) /\ (i # last => Goes(i, last))
      BY <1>4, <1>5, <1>12, <2>1
    <2> HIDE DEF comparable, Goes
    <2>4. \A i \in comparable :
            (i # first => Price(first) <= Price(i)) /\ (i # last => Price(i) <= Price(last))
      BY <1>7, <2>1, <2>3
    <2> HIDE DEF Price
    <2> QED BY <1>6, <2>1, <2>2, <2>4
  <1>13. some # {} =>
           /\ c \in some
           /\ \A o \in some :
                /\ ComparisonPrice(c, basis) <= ComparisonPrice(o, basis)
                /\ ComparisonPrice(o, basis) <= ComparisonPrice(result.dearest, basis)
    <2> HIDE DEF comparable, c, some
    <2> QED BY <1>9, <1>12
  <1>14. result.savings # None => result.savings >= 0
    <2>1. CASE comparable = {} \/ first = last
      BY <1>1, <2>1
    <2>2. CASE comparable # {} /\ first # last
      <3>1. Price(first) <= Price(last) /\ Price(first) \in Nat /\ Price(last) \in Nat
        BY <1>6, <1>12, <2>2
      <3>2. result.savings = Price(last) - Price(first)
        BY <1>1, <2>2
      <3> HIDE DEF Price
      <3> QED BY <3>1, <3>2
    <2> QED BY <2>1, <2>2
  <1> QED BY <1>10, <1>11, <1>13, <1>14 DEF result

(* comparePrices, for any products, promotions, quantity, limit and basis:   *)
(* nothing a chain answered with costs less than the offer called cheapest,  *)
(* merged away or not, and savings are never negative.                       *)
THEOREM ComparisonsAreRight == Spec => []CheapestIsCheapest
  <1>1. LookupsInv => CheapestIsCheapest
    <2> SUFFICES ASSUME LookupsInv, outcome # None, outcome.how = "answered",
                        request.kind = "compare"
                 PROVE  CheapestIsCheapest
      BY DEF CheapestIsCheapest
    <2>0. request # None
      BY DEF LookupsInv
    <2>1. products \in Seq(PricedProducts)
      BY OfferedIsTyped, SeqMonotonic DEF LookupsInv, Gatherings
    <2>2. promotions \in Seq(Promotions)
      BY DEF LookupsInv, Gatherings
    <2>3. request.quantity \in Nat /\ request.basis \in {"packPrice", "unitPrice"}
      BY <2>0, LookupsAssumption DEF LookupsInv, Gatherings
    <2>4. RawOffers \in Seq(Offers)
      BY <2>1, <2>2, <2>3, OffersOfType DEF RawOffers
    <2> QED BY <2>3, <2>4, ComparisonIsRight DEF CheapestIsCheapest
  <1> QED BY <1>1, LookupsInductive, PTL
=============================================================================
