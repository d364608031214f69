------------------------- MODULE MCRateLimitedFetch -------------------------
(* An instance of RateLimitedFetch.  One tick stands for about twenty seconds *)
(* of the real windows; the ratios of the constants, not their size, decide *)
(* which waits can overlap.                                                 *)
EXTENDS RateLimitedFetch

CONSTANTS c1, c2, m1

Instants == 0 .. 12

OneDelay == <<2>>

=============================================================================
