----------------------------- MODULE MCBrowserApp ---------------------------
(* An instance of BrowserApp: one window over two conversations of which   *)
(* one is kept, a form in which two towns are typed, two searches.         *)
EXTENDS BrowserApp, TLC

CONSTANTS w1, t1, t2, t3, s1, s2, zurich, aarau, bern, nowhere, milk, bread, coop, migros

ChatSymmetry == Permutations(Threads) \cup Permutations(Slots)

Offers == [t \in {aarau, bern, nowhere} |-> IF t = nowhere THEN {aarau, bern} ELSE {t}]

=============================================================================
