--------------------------- MODULE MCSearchService --------------------------
(* Instances of SearchService.                                             *)
EXTENDS SearchService, TLC

CONSTANTS s1, s2, s3, s4, coop, lidl, migros

\* One query is asked of an adapter that heeds its signal and of one that does
\* not, the other query of the first alone.
Shared == [q \in Queries |-> IF q = "milk" THEN {lidl, migros} ELSE {lidl}]

\* Every query is asked of every chain.
Everywhere == [q \in Queries |-> Chains]

OneTick == [c \in Chains |-> 1]

SearchSymmetry == Permutations(Searches)

=============================================================================
