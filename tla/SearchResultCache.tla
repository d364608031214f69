------------------------- MODULE SearchResultCache -------------------------
(***************************************************************************)
(* The stale-while-revalidate cache in front of the product fan-out        *)
(* (services/searchResultCache.ts).  A Map iterates in insertion order and *)
(* keeps the place of a key that is set again, so it is a sequence of      *)
(* entries with one entry per key; `refreshing` is inFlightRefreshes.      *)
(* SearchService uses its operations as searchProducts does.               *)
(***************************************************************************)
EXTENDS Integers, Sequences

CONSTANTS
  FreshFor,      \* freshMs
  StaleFor,      \* staleMs
  MaxEntries     \* maxEntries

VARIABLES now, entries, refreshing

-----------------------------------------------------------------------------

Places(k) == {i \in 1 .. Len(entries) : entries[i].key = k}

Has(k) == Places(k) # {}

Place(k) == CHOOSE i \in Places(k) : TRUE

Age(k) == now - entries[Place(k)].storedAt

Status(k) ==
  CASE ~ Has(k)         -> "miss"
    [] Has(k) /\ Age(k) < FreshFor -> "fresh"
    [] Has(k) /\ Age(k) >= FreshFor /\ Age(k) < StaleFor -> "stale"
    [] OTHER            -> "expired"

Without(i) == SubSeq(entries, 1, i - 1) \o SubSeq(entries, i + 1, Len(entries))

\* get: an entry past its stale window is dropped, and is a miss like none.
Get(k) ==
  /\ entries' = IF Status(k) = "expired" THEN Without(Place(k)) ELSE entries
  /\ UNCHANGED refreshing

\* The first entry goes when a new key finds the cache full.  It need not be
\* "the oldest write" (searchResultCache.ts:112): a key that is written again
\* keeps its place.
Evicted == IF Len(entries) >= MaxEntries THEN Tail(entries) ELSE entries

\* set, of a result the caller calls complete.
Stored(k, v) ==
  LET entry == [key |-> k, value |-> v, storedAt |-> now]
  IN  IF Has(k) THEN [entries EXCEPT ![Place(k)] = entry]
                ELSE Append(Evicted, entry)

Set(k, v, complete) == entries' = IF complete THEN Stored(k, v) ELSE entries

\* Mutant: a burst of stale hits refreshes its key once each.
RevalidateEach(k) == refreshing' = refreshing \cup {k}

\* revalidate, and what its finally does.
Revalidate(k) ==
  /\ k \notin refreshing
  /\ refreshing' = refreshing \cup {k}

Release(k) == refreshing' = refreshing \ {k}

=============================================================================
