---------------------------- MODULE FileTtlCache ----------------------------
(***************************************************************************)
(* FileTtlCache (cache/fileTtlCache.ts): one file per key in a directory   *)
(* that the adapters and the web discovery share, read, written, deleted   *)
(* and pruned by calls that interleave between any two file operations.    *)
(*                                                                         *)
(* `file` and `temp` are the directory: the inode behind each key's file   *)
(* and behind each process's temporary file of that key.  `disk` is what   *)
(* the inodes hold.  A temporary file that exists is truncated and shared, *)
(* so two sets of one key in one process write to one inode.               *)
(*                                                                         *)
(* Record boundaries are those of cache/freshnessPolicy.ts.  A number      *)
(* instead of a tier makes the three boundaries one.                       *)
(***************************************************************************)
EXTENDS Naturals, FiniteSets

CONSTANTS
  Ops,          \* callers: each makes one get, and at most one set after it
  Procs,        \* the processes that use the directory
  Keys,         \* cache keys
  Prunes,       \* runs of prune
  Tiers,        \* what a set may be given for its boundaries
  Tier,         \* each of them as [soft, hard, stale], in ticks
  MaxFiles,     \* SWISS_SHOPPING_CACHE_MAX_FILES
  LastTick,     \* bound: the clock stops here
  None          \* no inode, no caller

ASSUME FilesAssumption ==
  /\ IsFiniteSet(Ops) /\ IsFiniteSet(Keys) /\ IsFiniteSet(Prunes)
  /\ Tier \in [Tiers -> [soft : Nat, hard : Nat \ {0}, stale : Nat]]
  /\ \A t \in Tiers : Tier[t].soft <= Tier[t].hard
  /\ {MaxFiles, LastTick} \subseteq Nat
  /\ None \notin Ops \cup Keys
  /\ Ops \cap Keys = {} /\ Keys # {} /\ Procs # {} /\ Tiers # {}

VARIABLES
  clock,        \* CacheClock
  file, temp,   \* the directory
  disk,         \* what each inode holds: [state, rec, mtime], of which state is
                \* "empty", "whole" or "torn"
  op,           \* the calls: [at, key, proc, found, rec, fd], of
                \* which rec is the record read or written: [at, tier]
  prune,        \* the prunes: [at, todo, doomed, seen, since]
  twins,        \* history: where two sets of a process and a key overlapped
  added         \* history: files created since the last prune listed them

fileVars == <<clock, file, temp, disk, op, prune, twins, added>>

Inodes == Ops \cup Keys   \* who created it; a key, if it was there before

AnyTier == CHOOSE t \in Tiers : TRUE
Empty == [state |-> "empty", rec |-> [at |-> 0, tier |-> AnyTier], mtime |-> clock]

RefreshAfter(r) == r.at + Tier[r.tier].soft
ExpiresAt(r) == r.at + Tier[r.tier].hard
StaleUntil(r) ==
  IF Tier[r.tier].stale > 0 THEN r.at + Tier[r.tier].stale ELSE ExpiresAt(r)
HasStaleWindow(r) == StaleUntil(r) > ExpiresAt(r)

FilesInit(tierOf) ==
  /\ clock = 0
  /\ \E there \in SUBSET Keys :
       /\ file = [k \in Keys |-> IF k \in there THEN k ELSE None]
       /\ added = Cardinality(there)
  /\ temp = [k \in Keys |-> [p \in Procs |-> None]]
  /\ disk = [i \in Inodes |->
               IF i \in Keys
                 THEN [Empty EXCEPT !.state = "whole", !.rec.tier = tierOf[i]]
                 ELSE Empty]
  /\ op = [o \in Ops |->
            [at |-> "idle", key |-> CHOOSE k \in Keys : TRUE,
             proc |-> CHOOSE p \in Procs : TRUE, found |-> "none",
             rec |-> [at |-> 0, tier |-> AnyTier], fd |-> None]]
  /\ prune = [p \in Prunes |->
               [at |-> "idle", todo |-> {}, doomed |-> {},
                seen |-> [k \in Keys |-> 0], since |-> 0]]
  /\ twins = {}

-----------------------------------------------------------------------------
(* get                                                                     *)

At(o, at) == op' = [op EXCEPT ![o].at = at]

\* readRecord: a missing file is a miss, a file that is not a record throws.
Get(o, k, p) ==
  /\ op[o].at = "idle"
  /\ op' = [op EXCEPT ![o].key = k, ![o].proc = p,
       ![o].at = IF file[k] = None THEN "caller"
                 ELSE IF disk[file[k]].state = "whole" THEN "judging" ELSE "threw",
       ![o].rec = IF file[k] = None THEN @ ELSE disk[file[k]].rec]
  /\ UNCHANGED <<clock, file, temp, disk, prune, twins, added>>

PastUse(r, allowStale) ==
  \/ clock >= ExpiresAt(r) /\ ~ HasStaleWindow(r) /\ ~ allowStale
  \/ HasStaleWindow(r) /\ clock >= StaleUntil(r)

Freshness(r) ==
  IF clock < RefreshAfter(r) THEN "fresh"
  ELSE IF clock < ExpiresAt(r) THEN "soft" ELSE "stale"

\* The file at the key's path by now is touched; what was read is judged.
Judge(o, allowStale) ==
  LET i == file[op[o].key]
      r == op[o].rec
  IN  /\ op[o].at = "judging"
      /\ disk' = IF i = None THEN disk ELSE [disk EXCEPT ![i].mtime = clock]
      /\ op' = [op EXCEPT
           ![o].at = IF PastUse(r, allowStale) THEN "deleting" ELSE "caller",
           ![o].found = IF PastUse(r, allowStale) THEN "none" ELSE Freshness(r)]
      /\ UNCHANGED <<clock, file, temp, prune, twins, added>>

\* Whatever is at the path by now is unlinked.
Delete(o) ==
  /\ op[o].at = "deleting"
  /\ file' = [file EXCEPT ![op[o].key] = None]
  /\ At(o, "caller")
  /\ UNCHANGED <<clock, temp, disk, prune, twins, added>>

-----------------------------------------------------------------------------
(* set                                                                     *)

Twin(o, n) ==
  /\ n # o /\ op[n].key = op[o].key /\ op[n].proc = op[o].proc
  /\ op[n].at \in {"writing", "renaming"}

\* Mutant: `${target}.tmp`, whatever the process.
SharedTempOf(o) == CHOOSE p \in Procs : TRUE

\* `${target}.${process.pid}.tmp`
TempOf(o) == op[o].proc

\* The record is stamped as the set begins, and writeFile creates or truncates
\* the temporary file ...
Open(o, t) ==
  LET k == op[o].key
      there == temp[k][TempOf(o)]
      i == IF there = None THEN o ELSE there
  IN  /\ op[o].at = "caller"
      /\ temp' = [temp EXCEPT ![k][TempOf(o)] = i]
      /\ disk' = [disk EXCEPT ![i] = Empty]
      /\ op' = [op EXCEPT ![o].at = "writing", ![o].fd = i,
                          ![o].rec = [at |-> clock, tier |-> t]]
      /\ twins' = IF \E n \in Ops : Twin(o, n)
                    THEN twins \cup {<<k, op[o].proc>>} ELSE twins
      /\ UNCHANGED <<clock, file, prune, added>>

\* ... and writes from its start: over another's text, if it is longer, the
\* tail of that stays ...
Write(o) ==
  LET i == op[o].fd
  IN  /\ op[o].at = "writing"
      /\ \E state \in {"whole"} \cup
                      (IF disk[i].state = "empty" THEN {} ELSE {"torn"}) :
           disk' = [disk EXCEPT ![i] =
                     [state |-> state, rec |-> op[o].rec, mtime |-> clock]]
      /\ At(o, "renaming")
      /\ UNCHANGED <<clock, file, temp, prune, twins, added>>

Created(k) == IF file[k] = None THEN 1 ELSE 0

\* Mutant: does not replace a file that is there.
RenameToNew(o) ==
  LET k == op[o].key
      i == temp[k][TempOf(o)]
  IN  /\ op[o].at = "renaming"
      /\ IF i = None \/ file[k] # None
           THEN At(o, "threw") /\ UNCHANGED <<file, temp, added>>
           ELSE /\ At(o, "stored")
                /\ file' = [file EXCEPT ![k] = i]
                /\ temp' = [temp EXCEPT ![k][TempOf(o)] = None]
                /\ added' = added + 1
      /\ UNCHANGED <<clock, disk, prune, twins>>

\* ... rename publishes it, or finds that its twin did and throws.
Rename(o) ==
  LET k == op[o].key
      i == temp[k][TempOf(o)]
  IN  /\ op[o].at = "renaming"
      /\ temp' = [temp EXCEPT ![k][TempOf(o)] = None]
      /\ IF i = None
           THEN At(o, "threw") /\ UNCHANGED <<file, prune, added>>
           ELSE /\ At(o, "stored")
                /\ file' = [file EXCEPT ![k] = i]
                /\ added' = added + Created(k)
                /\ prune' = [p \in Prunes |->
                     IF prune[p].at \in {"weighing", "evicting"}
                       THEN [prune[p] EXCEPT !.since = @ + Created(k)]
                       ELSE prune[p]]
      /\ UNCHANGED <<clock, disk, twins>>

\* The process dies: its calls are over, its temporary files stay.
Crash(p) ==
  /\ \E o \in Ops : op[o].proc = p /\ op[o].at \notin {"idle", "over"}
  /\ op' = [o \in Ops |-> IF op[o].proc = p /\ op[o].at # "idle"
                            THEN [op[o] EXCEPT !.at = "over"] ELSE op[o]]
  /\ UNCHANGED <<clock, file, temp, disk, prune, twins, added>>

-----------------------------------------------------------------------------
(* prune                                                                   *)

There == {k \in Keys : file[k] # None}

Prune(p) ==
  /\ prune[p].at = "idle"
  /\ prune' = [prune EXCEPT ![p].at = "scanning", ![p].todo = There]
  /\ UNCHANGED <<clock, file, temp, disk, op, twins, added>>

Examine(p, k) ==
  /\ prune[p].at = "scanning" /\ k \in prune[p].todo /\ prune[p].doomed = {}
  /\ prune' = [prune EXCEPT ![p].todo = @ \ {k},
       ![p].doomed = {d \in {k} \cap There :
                        /\ disk[file[d]].state = "whole"
                        /\ clock >= StaleUntil(disk[file[d]].rec)}]
  /\ UNCHANGED <<clock, file, temp, disk, op, twins, added>>

\* A doomed file is unlinked by its name.
Unlink(p, k) ==
  /\ k \in prune[p].doomed
  /\ file' = [file EXCEPT ![k] = None]
  /\ prune' = [prune EXCEPT ![p].doomed = @ \ {k}]
  /\ UNCHANGED <<clock, temp, disk, op, twins, added>>

\* The survivors are listed anew, and weighed if they are too many.
Relist(p) ==
  /\ prune[p].at = "scanning" /\ prune[p].todo = {} /\ prune[p].doomed = {}
  /\ prune' = [prune EXCEPT ![p].at = "weighing", ![p].since = 0,
       ![p].todo = IF Cardinality(There) > MaxFiles THEN There ELSE {},
       ![p].seen = [k \in Keys |-> LastTick + 1]]
  /\ UNCHANGED <<clock, file, temp, disk, op, twins, added>>

Weigh(p, k) ==
  /\ prune[p].at = "weighing" /\ k \in prune[p].todo
  /\ prune' = [prune EXCEPT ![p].todo = @ \ {k},
       ![p].seen[k] = IF file[k] = None THEN @ ELSE disk[file[k]].mtime]
  /\ UNCHANGED <<clock, file, temp, disk, op, twins, added>>

Weighed(p) == {k \in Keys : prune[p].seen[k] <= LastTick}

\* Mutant: one too few.
ExcessButOne(p) ==
  IF Cardinality(Weighed(p)) > MaxFiles + 1
    THEN Cardinality(Weighed(p)) - MaxFiles - 1 ELSE 0

Excess(p) ==
  IF Cardinality(Weighed(p)) > MaxFiles
    THEN Cardinality(Weighed(p)) - MaxFiles ELSE 0

\* The least recently used go.
Choose(p) ==
  /\ prune[p].at = "weighing" /\ prune[p].todo = {}
  /\ \E victims \in SUBSET Weighed(p) :
       /\ Cardinality(victims) = Excess(p)
       /\ \A v \in victims, k \in Weighed(p) \ victims :
            prune[p].seen[v] <= prune[p].seen[k]
       /\ prune' = [prune EXCEPT ![p].at = "evicting", ![p].doomed = victims]
  /\ UNCHANGED <<clock, file, temp, disk, op, twins, added>>

Pruned(p) ==
  /\ prune[p].at = "evicting" /\ prune[p].doomed = {}
  /\ prune' = [prune EXCEPT ![p].at = "over", ![p].since = 0,
                           ![p].seen = [k \in Keys |-> 0]]
  /\ added' = prune[p].since
  /\ UNCHANGED <<clock, file, temp, disk, op, twins>>

PruneStep(p) ==
  \/ Relist(p) \/ Choose(p) \/ Pruned(p)
  \/ \E k \in Keys : Examine(p, k) \/ Unlink(p, k) \/ Weigh(p, k)

Elapses ==
  /\ clock < LastTick
  /\ clock' = clock + 1
  /\ UNCHANGED <<file, temp, disk, op, prune, twins, added>>

-----------------------------------------------------------------------------

\* Writing to one side and renaming keeps a published file whole through
\* crashes and through the writes of other processes: a reader meets half a
\* record only where two sets of one process and one key overlapped.
TornOnlyByTwins ==
  \A k \in There :
    disk[file[k]].state # "whole" => \E p \in Procs : <<k, p>> \in twins

\* The directory holds no more than MaxFiles and the files created since the
\* survivors were last counted, however get, set, another prune and a crash
\* interleave with the counting and the evictions.
DirectoryBounded == Cardinality(There) <= MaxFiles + added

=============================================================================
