-------------------------- MODULE MCVendorSessions --------------------------
(* An instance of VendorSessions: two HTTP requests of at most two         *)
(* attempts, three callers of a browser, two look-ups of two places and a  *)
(* keystroke.                                                              *)
EXTENDS VendorSessions

CONSTANTS c1, c2, c3, l1, l2, k1, town, mall

Gazetteers == [t \in {town, mall} |->
  IF t = town THEN {"place", "table"} ELSE {"interest"}]

=============================================================================
