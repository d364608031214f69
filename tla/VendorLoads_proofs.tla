-------------------------- MODULE VendorLoads_proofs ------------------------
(***************************************************************************)
(* What the shared directory of cache files guarantees whatever loads,     *)
(* processes, prunes and crashes interleave, for any number of each: half  *)
(* a record is met only where two sets of one key and one process overlap, *)
(* the directory stays bounded, and a load falls back for a reason.        *)
(***************************************************************************)
EXTENDS VendorLoads, FiniteSetTheorems, TLAPS

Record == [at : Nat, tier : Tiers]

Inode == [state : {"empty", "whole", "torn"}, rec : Record, mtime : 0 .. LastTick]

OpPhases == {"idle", "judging", "deleting", "caller", "writing", "renaming",
             "stored", "threw", "over"}

OpState == [at : OpPhases, key : Keys, proc : Procs,
            found : {"none", "fresh", "soft", "stale"}, rec : Record,
            fd : Inodes \cup {None}]

PruneState == [at : {"idle", "scanning", "weighing", "evicting", "over"},
               todo : SUBSET Keys, doomed : SUBSET Keys,
               seen : [Keys -> Nat], since : Nat]

FileTypeOK ==
  /\ clock \in 0 .. LastTick
  /\ file \in [Keys -> Inodes \cup {None}]
  /\ temp \in [Keys -> [Procs -> Inodes \cup {None}]]
  /\ disk \in [Inodes -> Inode]
  /\ op \in [Ops -> OpState]
  /\ prune \in [Prunes -> PruneState]
  /\ twins \subseteq Keys \X Procs
  /\ added \in Nat

-----------------------------------------------------------------------------
(* The steps of the loads, as far as the files are concerned               *)

FilesMove ==
  \/ \E o \in Ops :
       \/ \E k \in Keys, p \in Procs : Get(o, k, p)
       \/ \E allowStale : Judge(o, allowStale)
       \/ Delete(o)
       \/ \E t \in Tiers : Open(o, t)
       \/ Write(o)
       \/ Rename(o)
  \/ \E p \in Procs : Crash(p)
  \/ \E p \in Prunes : Prune(p) \/ PruneStep(p)
  \/ Elapses
  \/ UNCHANGED fileVars

\* The tiers a load may store under, and what becomes of an answer with nothing.
Common(kind) == kind.tier = "ttl" /\ kind.nothing \in {"stored", "empty", "failed"}

LEMMA KindsHaveTiers ==
  ASSUME NEW kind \in Kinds
  PROVE  /\ kind.tier \in {"ttl", "discovery"}
         /\ kind.nothing \in {"stored", "empty", "failed", "negative"}
<1>1. /\ Common(CoopStores) /\ Common(CoopProduct) /\ Common(LidlSearch)
      /\ Common(LidlProduct) /\ Common(LidlStores) /\ Common(DennerPromotions)
      /\ Common(AldiSitemap) /\ Common(AldiProduct) /\ Common(AldiStores)
  BY DEF CoopStores, CoopProduct, LidlSearch, LidlProduct, LidlStores,
         DennerPromotions, AldiSitemap, AldiProduct, AldiStores, Adapter, Common
<1>2. /\ Common(LoadJson) /\ Common(OttosSearch) /\ Common(VolgSearch)
      /\ Common(OttosStores)
  BY DEF LoadJson, OttosSearch, VolgSearch, OttosStores, Adapter, Common
<1>3. Common(CoopSearch) /\ Common(MigrosSearch) /\ Common(MigrosCards)
  BY DEF CoopSearch, MigrosSearch, MigrosCards, Adapter, Common
<1>4. Common(MigrosPromotions) /\ Common(MigrosStores)
  BY DEF MigrosPromotions, MigrosStores, Adapter, Common
<1>5. Common(DennerOffers) /\ Common(DennerSearch)
  BY DEF DennerOffers, DennerPromotions, DennerSearch, Adapter, Common
<1>6. Discovery.tier = "discovery" /\ Discovery.nothing = "negative"
  BY DEF Discovery, Adapter
<1>7. QED
  BY <1>1, <1>2, <1>3, <1>4, <1>5, <1>6 DEF Kinds, Common

LEMMA LoadsMoveFiles == FileTypeOK /\ [Next]_vars => FilesMove
<1> SUFFICES ASSUME FileTypeOK, [Next]_vars PROVE FilesMove
  OBVIOUS
<1>1. ASSUME NEW o \in Ops, NEW k \in Keys, NEW p \in Procs, Start(o, k, p)
      PROVE  FilesMove
  BY <1>1 DEF Start, FilesMove
<1>2. ASSUME NEW o \in Ops, LoadStep(o) PROVE FilesMove
  <2>1. Kind(o).tier \in Tiers /\ "empty" \in Tiers
    <3>1. Kind(o) \in Kinds
      BY KindsAssumption DEF Kind, FileTypeOK, OpState
    <3>2. QED
      BY <3>1, KindsHaveTiers, KindsAssumption
  <2>2. CASE Read(o)
    BY <2>2 DEF Read, FilesMove
  <2>3. CASE Publish(o)
    BY <2>3 DEF Publish, FilesMove
  <2>4. CASE Delete(o) \/ Write(o)
    BY <2>4 DEF FilesMove
  <2>5. CASE SignIn(o) \/ VendorFails(o) \/ Enriched(o) \/ TokenRefused(o)
             \/ Leave(o) \/ AbortNoticed(o) \/ EnrichmentAborted(o)
    BY <2>5
    DEF SignIn, VendorFails, Enriched, TokenRefused, Leave, AbortNoticed,
        EnrichmentAborted, FilesMove
  <2>6. CASE VendorAnswers(o)
    BY <2>1, <2>6 DEF VendorAnswers, FilesMove
  <2>7. CASE VendorHasNothing(o)
    BY <2>1, <2>7 DEF VendorHasNothing, FilesMove
  <2>8. QED
    BY <1>2, <2>2, <2>3, <2>4, <2>5, <2>6, <2>7 DEF LoadStep, Proceeds
<1>3. ASSUME NEW p \in Procs, Killed(p) PROVE FilesMove
  BY <1>3 DEF Killed, FilesMove
<1>4. ASSUME NEW p \in Prunes, PeriodicPrune(p) \/ PruneStep(p) PROVE FilesMove
  BY <1>4 DEF PeriodicPrune, FilesMove
<1>5. CASE Elapses \/ UNCHANGED vars
  BY <1>5 DEF FilesMove, vars
<1>6. QED
  BY <1>1, <1>2, <1>3, <1>4, <1>5 DEF Next

-----------------------------------------------------------------------------
(* Types                                                                   *)

LEMMA EmptyIsAnInode ==
  ASSUME clock \in 0 .. LastTick
  PROVE  Empty \in Inode /\ Empty.state = "empty"
<1>1. AnyTier \in Tiers
  BY FilesAssumption DEF AnyTier
<1>2. QED
  BY <1>1 DEF Empty, Inode, Record

LEMMA FreshnessIsOne ==
  ASSUME NEW r
  PROVE  Freshness(r) \in {"fresh", "soft", "stale"}
BY DEF Freshness

LEMMA OpMoves ==
  ASSUME FileTypeOK, NEW o \in Ops, NEW s \in OpState, op' = [op EXCEPT ![o] = s]
  PROVE  op' \in [Ops -> OpState]
BY DEF FileTypeOK

\* What each call's step leaves of its state, as one record.
LEMMA GetTypes ==
  ASSUME FileTypeOK, NEW o \in Ops, NEW k \in Keys, NEW p \in Procs, Get(o, k, p)
  PROVE  FileTypeOK'
<1> DEFINE at == IF file[k] = None THEN "caller"
                 ELSE IF disk[file[k]].state = "whole" THEN "judging" ELSE "threw"
           rec == IF file[k] = None THEN op[o].rec ELSE disk[file[k]].rec
<1>1. op' = [op EXCEPT ![o] = [op[o] EXCEPT !.key = k, !.proc = p, !.at = at, !.rec = rec]]
  BY DEF Get
<1>2. at \in OpPhases /\ rec \in Record /\ op[o] \in OpState
  BY DEF FileTypeOK, OpState, OpPhases, Inode
<1> HIDE DEF at, rec
<1>3. [op[o] EXCEPT !.key = k, !.proc = p, !.at = at, !.rec = rec] \in OpState
  BY <1>2 DEF OpState
<1>4. op' \in [Ops -> OpState]
  BY <1>1, <1>3, OpMoves DEF FileTypeOK
<1>5. QED
  BY <1>4 DEF Get, FileTypeOK

LEMMA JudgeTypes ==
  ASSUME FileTypeOK, NEW o \in Ops, NEW allowStale, Judge(o, allowStale)
  PROVE  FileTypeOK'
<1> DEFINE r == op[o].rec
           i == file[op[o].key]
           at == IF PastUse(r, allowStale) THEN "deleting" ELSE "caller"
           found == IF PastUse(r, allowStale) THEN "none" ELSE Freshness(r)
<1>1. /\ op' = [op EXCEPT ![o] = [op[o] EXCEPT !.at = at, !.found = found]]
      /\ disk' = IF i = None THEN disk ELSE [disk EXCEPT ![i].mtime = clock]
  BY DEF Judge
<1>2. /\ at \in OpPhases /\ found \in {"none", "fresh", "soft", "stale"}
      /\ op[o] \in OpState /\ i \in Inodes \cup {None}
  BY FreshnessIsOne DEF FileTypeOK, OpState, OpPhases
<1> HIDE DEF at, found, i, r
<1>3. [op[o] EXCEPT !.at = at, !.found = found] \in OpState
  BY <1>2 DEF OpState
<1>4. op' \in [Ops -> OpState]
  BY <1>1, <1>3, OpMoves DEF FileTypeOK
<1>5. disk' \in [Inodes -> Inode]
  BY <1>1, <1>2 DEF FileTypeOK, Inode
<1>6. QED
  BY <1>4, <1>5 DEF Judge, FileTypeOK

LEMMA OpenTypes ==
  ASSUME FileTypeOK, NEW o \in Ops, NEW t \in Tiers, Open(o, t)
  PROVE  FileTypeOK'
<1> DEFINE k == op[o].key
           p == op[o].proc
           there == temp[k][p]
           i == IF there = None THEN o ELSE there
           rec == [at |-> clock, tier |-> t]
<1>1. /\ op' = [op EXCEPT ![o] = [op[o] EXCEPT !.at = "writing", !.fd = i, !.rec = rec]]
      /\ disk' = [disk EXCEPT ![i] = Empty]
      /\ temp' = [temp EXCEPT ![k] = [temp[k] EXCEPT ![p] = i]]
      /\ twins' = twins \/ twins' = twins \cup {<<k, p>>}
  BY DEF Open, TempOf
<1>2. /\ k \in Keys /\ p \in Procs /\ op[o] \in OpState
      /\ i \in Inodes /\ rec \in Record
  <2>1. k \in Keys /\ p \in Procs /\ op[o] \in OpState
    BY DEF FileTypeOK, OpState
  <2>2. there \in Inodes \cup {None}
    BY <2>1 DEF FileTypeOK
  <2>3. rec \in Record
    BY FilesAssumption DEF FileTypeOK, Record
  <2>4. QED
    BY <2>1, <2>2, <2>3 DEF Inodes
<1> HIDE DEF k, p, there, i, rec
<1>3. [op[o] EXCEPT !.at = "writing", !.fd = i, !.rec = rec] \in OpState
  BY <1>2 DEF OpState, OpPhases
<1>4. op' \in [Ops -> OpState]
  BY <1>1, <1>3, OpMoves DEF FileTypeOK
<1>5. disk' \in [Inodes -> Inode]
  BY <1>1, <1>2, EmptyIsAnInode DEF FileTypeOK
<1>6. temp' \in [Keys -> [Procs -> Inodes \cup {None}]]
  BY <1>1, <1>2 DEF FileTypeOK
<1>7. twins' \subseteq Keys \X Procs
  BY <1>1, <1>2 DEF FileTypeOK
<1>8. QED
  BY <1>4, <1>5, <1>6, <1>7 DEF Open, FileTypeOK

LEMMA WriteTypes ==
  ASSUME FileTypeOK, NEW o \in Ops, op[o].fd \in Inodes, Write(o)
  PROVE  FileTypeOK'
<1>1. PICK state \in {"whole", "torn"} :
        disk' = [disk EXCEPT ![op[o].fd] =
                  [state |-> state, rec |-> op[o].rec, mtime |-> clock]]
  BY DEF Write
<1>2. [state |-> state, rec |-> op[o].rec, mtime |-> clock] \in Inode
  BY DEF FileTypeOK, OpState, Inode
<1>3. disk' \in [Inodes -> Inode]
  BY <1>1, <1>2 DEF FileTypeOK
<1>4. [op[o] EXCEPT !.at = "renaming"] \in OpState
  BY DEF FileTypeOK, OpState, OpPhases
<1>5. op' \in [Ops -> OpState]
  BY <1>4, OpMoves DEF Write, At
<1>6. QED
  BY <1>3, <1>5 DEF Write, FileTypeOK

LEMMA RenameTypes ==
  ASSUME FileTypeOK, NEW o \in Ops, Rename(o)
  PROVE  FileTypeOK'
<1> DEFINE k == op[o].key
           p == op[o].proc
           i == temp[k][p]
<1>1. /\ k \in Keys /\ p \in Procs /\ op[o] \in OpState /\ i \in Inodes \cup {None}
      /\ Created(k) \in Nat
  BY DEF FileTypeOK, OpState, Created
<1>2. temp' \in [Keys -> [Procs -> Inodes \cup {None}]]
  BY <1>1 DEF Rename, TempOf, FileTypeOK
<1>3. /\ [op[o] EXCEPT !.at = "threw"] \in OpState
      /\ [op[o] EXCEPT !.at = "stored"] \in OpState
  BY <1>1 DEF OpState, OpPhases
<1>4. op' \in [Ops -> OpState]
  BY <1>3, OpMoves DEF Rename, At
<1>5. CASE i = None
  BY <1>2, <1>4, <1>5 DEF Rename, TempOf, FileTypeOK
<1>6. CASE i # None
  <2>1. /\ file' = [file EXCEPT ![k] = i]
        /\ added' = added + Created(k)
        /\ prune' = [q \in Prunes |->
                      IF prune[q].at \in {"weighing", "evicting"}
                        THEN [prune[q] EXCEPT !.since = @ + Created(k)] ELSE prune[q]]
    BY <1>6 DEF Rename, TempOf
  <2>2. ASSUME NEW q \in Prunes
        PROVE  [prune[q] EXCEPT !.since = @ + Created(k)] \in PruneState
    <3>1. prune[q] \in PruneState /\ prune[q].since + Created(k) \in Nat
      BY <1>1 DEF FileTypeOK, PruneState
    <3>2. QED
      BY <3>1 DEF PruneState
  <2>3. prune' \in [Prunes -> PruneState]
    BY <2>1, <2>2 DEF FileTypeOK
  <2>4. file' \in [Keys -> Inodes \cup {None}] /\ added' \in Nat
    BY <1>1, <2>1 DEF FileTypeOK
  <2>5. QED
    BY <1>2, <1>4, <2>3, <2>4 DEF Rename, FileTypeOK
<1>7. QED
  BY <1>5, <1>6

LEMMA PruneMoves ==
  ASSUME FileTypeOK, NEW p \in Prunes, NEW s \in PruneState,
         prune' = [prune EXCEPT ![p] = s]
  PROVE  prune' \in [Prunes -> PruneState]
BY DEF FileTypeOK

LEMMA PruneTypes ==
  ASSUME FileTypeOK, NEW p \in Prunes, Prune(p) \/ PruneStep(p)
  PROVE  FileTypeOK'
<1>1. prune[p] \in PruneState /\ There \subseteq Keys /\ LastTick + 1 \in Nat
  BY FilesAssumption DEF FileTypeOK, There
<1>2. CASE Prune(p)
  <2>1. [prune[p] EXCEPT !.at = "scanning", !.todo = There] \in PruneState
    BY <1>1 DEF PruneState
  <2>2. QED
    BY <1>2, <2>1, PruneMoves DEF Prune, FileTypeOK
<1>3. CASE Relist(p)
  <2> DEFINE s == [prune[p] EXCEPT !.at = "weighing", !.since = 0,
                     !.todo = IF Cardinality(There) > MaxFiles THEN There ELSE {},
                     !.seen = [k \in Keys |-> LastTick + 1]]
  <2>1. s \in PruneState
    BY <1>1 DEF PruneState
  <2>2. prune' = [prune EXCEPT ![p] = s]
    BY <1>3 DEF Relist
  <2> HIDE DEF s
  <2>3. QED
    BY <1>3, <2>1, <2>2, PruneMoves DEF Relist, FileTypeOK
<1>4. CASE Choose(p)
  <2>1. PICK victims \in SUBSET Weighed(p) :
          prune' = [prune EXCEPT ![p].at = "evicting", ![p].doomed = victims]
    BY <1>4 DEF Choose
  <2>2. [prune[p] EXCEPT !.at = "evicting", !.doomed = victims] \in PruneState
    BY <1>1, <2>1 DEF PruneState, Weighed
  <2>3. QED
    BY <1>4, <2>1, <2>2, PruneMoves DEF Choose, FileTypeOK
<1>5. CASE Pruned(p)
  <2>1. [prune[p] EXCEPT !.at = "over", !.since = 0, !.seen = [k \in Keys |-> 0]]
          \in PruneState
    BY <1>1 DEF PruneState
  <2>2. prune[p].since \in Nat
    BY <1>1 DEF PruneState
  <2>3. QED
    BY <1>5, <2>1, <2>2, PruneMoves DEF Pruned, FileTypeOK
<1>6. ASSUME NEW k \in Keys, Examine(p, k) PROVE FileTypeOK'
  <2> DEFINE d == {x \in {k} \cap There :
                    /\ disk[file[x]].state = "whole"
                    /\ clock >= StaleUntil(disk[file[x]].rec)}
  <2>1. d \subseteq Keys
    BY <1>1
  <2>2. prune' = [prune EXCEPT ![p] = [prune[p] EXCEPT !.todo = @ \ {k}, !.doomed = d]]
    BY <1>6 DEF Examine
  <2> HIDE DEF d
  <2>3. [prune[p] EXCEPT !.todo = @ \ {k}, !.doomed = d] \in PruneState
    BY <1>1, <2>1 DEF PruneState
  <2>4. QED
    BY <1>6, <2>2, <2>3, PruneMoves DEF Examine, FileTypeOK
<1>7. ASSUME NEW k \in Keys, Unlink(p, k) PROVE FileTypeOK'
  <2>1. [prune[p] EXCEPT !.doomed = @ \ {k}] \in PruneState
    BY <1>1 DEF PruneState
  <2>2. file' \in [Keys -> Inodes \cup {None}]
    BY <1>7 DEF Unlink, FileTypeOK
  <2>3. QED
    BY <1>7, <2>1, <2>2, PruneMoves DEF Unlink, FileTypeOK
<1>8. ASSUME NEW k \in Keys, Weigh(p, k) PROVE FileTypeOK'
  <2> DEFINE n == IF file[k] = None THEN prune[p].seen[k] ELSE disk[file[k]].mtime
  <2>1. n \in Nat
    BY FilesAssumption DEF FileTypeOK, PruneState, Inode
  <2>2. prune' = [prune EXCEPT ![p] = [prune[p] EXCEPT !.todo = @ \ {k},
                                         !.seen = [prune[p].seen EXCEPT ![k] = n]]]
    BY <1>8 DEF Weigh
  <2> HIDE DEF n
  <2>3. [prune[p] EXCEPT !.todo = @ \ {k}, !.seen = [prune[p].seen EXCEPT ![k] = n]]
          \in PruneState
    BY <1>1, <2>1 DEF PruneState
  <2>4. QED
    BY <1>8, <2>2, <2>3, PruneMoves DEF Weigh, FileTypeOK
<1>9. QED
  BY <1>2, <1>3, <1>4, <1>5, <1>6, <1>7, <1>8 DEF PruneStep

\* A call that is writing has a file open.
FilesOpen ==
  \A o \in Ops : op[o].at \in {"writing", "renaming"} => op[o].fd \in Inodes

LEMMA MoveKeepsTypes ==
  ASSUME FileTypeOK, FilesOpen, FilesMove
  PROVE  FileTypeOK'
<1>1. ASSUME NEW o \in Ops,
             \/ \E k \in Keys, p \in Procs : Get(o, k, p)
             \/ \E allowStale : Judge(o, allowStale)
             \/ \E t \in Tiers : Open(o, t)
             \/ Rename(o)
      PROVE  FileTypeOK'
  BY <1>1, GetTypes, JudgeTypes, OpenTypes, RenameTypes
<1>2. ASSUME NEW o \in Ops, Write(o) PROVE FileTypeOK'
  BY <1>2, WriteTypes DEF FilesOpen, Write
<1>3. ASSUME NEW o \in Ops, Delete(o) PROVE FileTypeOK'
  <2>1. [op[o] EXCEPT !.at = "caller"] \in OpState /\ op[o].key \in Keys
    BY DEF FileTypeOK, OpState, OpPhases
  <2>2. op' \in [Ops -> OpState]
    BY <1>3, <2>1, OpMoves DEF Delete, At
  <2>3. file' \in [Keys -> Inodes \cup {None}]
    BY <1>3, <2>1 DEF Delete, FileTypeOK
  <2>4. QED
    BY <1>3, <2>2, <2>3 DEF Delete, FileTypeOK
<1>4. ASSUME NEW p \in Procs, Crash(p) PROVE FileTypeOK'
  <2>1. \A o \in Ops : [op[o] EXCEPT !.at = "over"] \in OpState /\ op[o] \in OpState
    BY DEF FileTypeOK, OpState, OpPhases
  <2>2. op' \in [Ops -> OpState]
    BY <1>4, <2>1 DEF Crash
  <2>3. QED
    BY <1>4, <2>2 DEF Crash, FileTypeOK
<1>5. ASSUME NEW p \in Prunes, Prune(p) \/ PruneStep(p) PROVE FileTypeOK'
  BY <1>5, PruneTypes
<1>6. CASE Elapses
  <2>1. clock' \in 0 .. LastTick
    BY <1>6, FilesAssumption DEF Elapses, FileTypeOK
  <2>2. QED
    BY <1>6, <2>1 DEF Elapses, FileTypeOK
<1>7. CASE UNCHANGED fileVars
  BY <1>7 DEF fileVars, FileTypeOK
<1>8. QED
  BY <1>1, <1>2, <1>3, <1>4, <1>5, <1>6, <1>7 DEF FilesMove

-----------------------------------------------------------------------------
(* Torn files                                                              *)

Opened(o) == op[o].at \in {"writing", "renaming"}
Unopened(o) == op[o].at \in {"idle", "judging", "deleting", "caller"}

\* A call that did not open a file yet has created none.
Fresh(i) ==
  /\ \A k \in Keys : file[k] # i
  /\ \A k \in Keys, p \in Procs : temp[k][p] # i
  /\ \A o \in Ops : Opened(o) => op[o].fd # i

UnopenedAreFresh == \A o \in Ops : Unopened(o) => Fresh(o)

\* No inode has two temporary names, nor a temporary one and a key's.
NamesApart ==
  \A k \in Keys, p \in Procs : temp[k][p] # None =>
    /\ \A k2 \in Keys : file[k2] # temp[k][p]
    /\ \A k2 \in Keys, p2 \in Procs : temp[k2][p2] = temp[k][p] => k2 = k /\ p2 = p

\* What a call has open is known by no name but those of its key and process,
\* and no other key's or process's call has it open.
WritersApart ==
  \A o \in Ops : Opened(o) =>
    /\ op[o].fd \in Inodes
    /\ \A k \in Keys : file[k] = op[o].fd => k = op[o].key
    /\ \A k \in Keys, p \in Procs :
         temp[k][p] = op[o].fd => k = op[o].key /\ p = op[o].proc
    /\ \A n \in Ops : Opened(n) /\ op[n].fd = op[o].fd =>
         op[n].key = op[o].key /\ op[n].proc = op[o].proc

\* The writer nobody overlapped has its own file, which nothing else filled.
Undisturbed(o) ==
  /\ temp[op[o].key][op[o].proc] = op[o].fd
  /\ disk[op[o].fd].state = IF op[o].at = "writing" THEN "empty" ELSE "whole"
  /\ \A n \in Ops \ {o} :
       Opened(n) => op[n].key # op[o].key \/ op[n].proc # op[o].proc

TwinsNoted ==
  \A o \in Ops : Opened(o) => <<op[o].key, op[o].proc>> \in twins \/ Undisturbed(o)

FilesInv ==
  /\ FileTypeOK /\ UnopenedAreFresh /\ NamesApart /\ WritersApart /\ TwinsNoted
  /\ TornOnlyByTwins

\* A step that opens, writes and publishes nothing.
LEMMA QuietStep ==
  ASSUME FilesInv, FileTypeOK',
         temp' = temp,
         \A k \in Keys : file'[k] = file[k] \/ file'[k] = None,
         \A i \in Inodes : disk'[i].state = disk[i].state,
         \A o \in Ops : Opened(o)' =>
           /\ Opened(o)
           /\ op'[o].at = op[o].at /\ op'[o].key = op[o].key
           /\ op'[o].proc = op[o].proc /\ op'[o].fd = op[o].fd,
         \A o \in Ops : Unopened(o)' => Unopened(o),
         twins' = twins
  PROVE  FilesInv'
<1>0. None \notin Inodes
  BY FilesAssumption DEF Inodes
<1>1. UnopenedAreFresh'
  <2>1. \A o \in Ops : o \in Inodes
    BY DEF Inodes
  <2>2. QED
    BY <1>0, <2>1 DEF FilesInv, UnopenedAreFresh, Fresh
<1>2. NamesApart'
  <2>1. \A k \in Keys, p \in Procs : temp[k][p] # None => \A k2 \in Keys : file[k2] # temp[k][p]
    BY DEF FilesInv, NamesApart
  <2>2. \A k \in Keys, p \in Procs : temp[k][p] # None => \A k2 \in Keys : file'[k2] # temp[k][p]
    BY <2>1
  <2>3. QED
    BY <2>2 DEF FilesInv, NamesApart
<1>3. WritersApart'
  <2>1. ASSUME NEW o \in Ops, Opened(o)'
        PROVE  /\ op'[o].fd \in Inodes
               /\ \A k \in Keys : file'[k] = op'[o].fd => k = op'[o].key
               /\ \A k \in Keys, p \in Procs :
                    temp'[k][p] = op'[o].fd => k = op'[o].key /\ p = op'[o].proc
               /\ \A n \in Ops : Opened(n)' /\ op'[n].fd = op'[o].fd =>
                    op'[n].key = op'[o].key /\ op'[n].proc = op'[o].proc
    BY <1>0, <2>1 DEF FilesInv, WritersApart
  <2>2. QED
    BY <2>1 DEF WritersApart
<1>4. TwinsNoted'
  <2>1. ASSUME NEW o \in Ops, Opened(o)'
        PROVE  <<op'[o].key, op'[o].proc>> \in twins' \/ Undisturbed(o)'
    <3>1. /\ Opened(o) /\ op[o].fd \in Inodes
          /\ <<op[o].key, op[o].proc>> \in twins \/ Undisturbed(o)
      BY <2>1 DEF FilesInv, WritersApart, TwinsNoted
    <3>2. QED
      BY <2>1, <3>1 DEF Undisturbed
  <2>2. QED
    BY <2>1 DEF TwinsNoted
<1>5. TornOnlyByTwins'
  <2>1. ASSUME NEW k \in There', disk'[file'[k]].state # "whole"
        PROVE  \E p \in Procs : <<k, p>> \in twins'
    <3>1. k \in There /\ file'[k] = file[k]
      BY <2>1 DEF There
    <3>2. file[k] \in Inodes
      BY <3>1 DEF There, FilesInv, FileTypeOK
    <3>3. QED
      BY <2>1, <3>1, <3>2 DEF FilesInv, TornOnlyByTwins
  <2>2. QED
    BY <2>1 DEF TornOnlyByTwins
<1>6. QED
  BY <1>1, <1>2, <1>3, <1>4, <1>5 DEF FilesInv

\* A writer takes an inode that has no name but that of its temporary file.
LEMMA OpenKeepsInv ==
  ASSUME FilesInv, NEW o \in Ops, NEW t \in Tiers, Open(o, t)
  PROVE  FilesInv'
<1> DEFINE k0 == op[o].key
           p0 == op[o].proc
           i == IF temp[k0][p0] = None THEN o ELSE temp[k0][p0]
<1>0. FileTypeOK'
  BY OpenTypes DEF FilesInv
<1>1. /\ k0 \in Keys /\ p0 \in Procs /\ i \in Inodes /\ i # None
      /\ o \in Inodes /\ None \notin Inodes
  <2>1. k0 \in Keys /\ p0 \in Procs /\ o \in Inodes /\ None \notin Inodes
    BY FilesAssumption DEF FilesInv, FileTypeOK, OpState, Inodes
  <2>2. temp[k0][p0] \in Inodes \cup {None}
    BY <2>1 DEF FilesInv, FileTypeOK
  <2>3. QED
    BY <2>1, <2>2
<1>2. /\ temp' = [temp EXCEPT ![k0] = [temp[k0] EXCEPT ![p0] = i]]
      /\ disk' = [disk EXCEPT ![i] = Empty]
      /\ op'[o].at = "writing" /\ op'[o].key = k0 /\ op'[o].proc = p0 /\ op'[o].fd = i
      /\ \A n \in Ops \ {o} : op'[n] = op[n]
      /\ file' = file
      /\ Unopened(o) /\ ~ Opened(o)
  <2>1. /\ temp' = [temp EXCEPT ![k0] = [temp[k0] EXCEPT ![p0] = i]]
        /\ disk' = [disk EXCEPT ![i] = Empty]
        /\ op' = [op EXCEPT ![o] = [op[o] EXCEPT !.at = "writing", !.fd = i,
                                      !.rec = [at |-> clock, tier |-> t]]]
        /\ file' = file
    BY DEF Open, TempOf
  <2>2. Unopened(o) /\ ~ Opened(o)
    BY DEF Open, Unopened, Opened
  <2>3. op[o] \in OpState /\ op \in [Ops -> OpState]
    BY DEF FilesInv, FileTypeOK
  <2> DEFINE s == [op[o] EXCEPT !.at = "writing", !.fd = i,
                     !.rec = [at |-> clock, tier |-> t]]
  <2> HIDE DEF i
  <2>4. s.at = "writing" /\ s.key = k0 /\ s.proc = p0 /\ s.fd = i
    BY <2>3 DEF OpState
  <2>5. op' = [op EXCEPT ![o] = s]
    BY <2>1
  <2> HIDE DEF s
  <2>6. op'[o] = s /\ \A n \in Ops \ {o} : op'[n] = op[n]
    BY <2>3, <2>5
  <2>7. QED
    BY <2>1, <2>2, <2>4, <2>6
<1>3. /\ \A k \in Keys, p \in Procs :
           temp'[k][p] = IF k = k0 /\ p = p0 THEN i ELSE temp[k][p]
      /\ disk'[i].state = "empty"
      /\ \A j \in Inodes \ {i} : disk'[j] = disk[j]
  BY <1>1, <1>2, EmptyIsAnInode DEF FilesInv, FileTypeOK
<1>4. Fresh(o)
  BY <1>2 DEF FilesInv, UnopenedAreFresh
\* The inode it opens has no other name, and other calls have it open only as twins.
<1>5. /\ \A k \in Keys : file[k] # i
      /\ \A k \in Keys, p \in Procs : temp[k][p] = i => k = k0 /\ p = p0
      /\ \A n \in Ops : Opened(n) /\ op[n].fd = i => op[n].key = k0 /\ op[n].proc = p0
  <2>1. CASE temp[k0][p0] = None
    BY <1>4, <2>1 DEF Fresh
  <2>2. CASE temp[k0][p0] # None
    <3>1. i = temp[k0][p0]
      BY <2>2
    <3>2. \A n \in Ops : Opened(n) /\ op[n].fd = temp[k0][p0] => op[n].key = k0 /\ op[n].proc = p0
      BY <1>1 DEF FilesInv, WritersApart
    <3>3. /\ \A k \in Keys : file[k] # temp[k0][p0]
          /\ \A k \in Keys, p \in Procs : temp[k][p] = temp[k0][p0] => k = k0 /\ p = p0
      BY <1>1, <2>2 DEF FilesInv, NamesApart
    <3>4. QED
      BY <3>1, <3>2, <3>3
  <2>3. QED
    BY <2>1, <2>2
<1>6. /\ twins \subseteq twins'
      /\ \A n \in Ops \ {o} : Opened(n) /\ op[n].key = k0 /\ op[n].proc = p0 =>
           <<k0, p0>> \in twins'
  BY DEF Open, Twin, Opened
<1> HIDE DEF k0, p0, i
<1>7. UnopenedAreFresh'
  <2>1. ASSUME NEW n \in Ops, Unopened(n)' PROVE Fresh(n)'
    <3>1. n # o /\ Unopened(n) /\ Fresh(n)
      BY <1>2, <2>1 DEF FilesInv, UnopenedAreFresh, Unopened
    <3>2. i # n
      <4>1. CASE temp[k0][p0] = None
        BY <3>1, <4>1 DEF i
      <4>2. CASE temp[k0][p0] # None
        BY <1>1, <3>1, <4>2 DEF i, Fresh
      <4>3. QED
        BY <4>1, <4>2
    <3>3. \A m \in Ops : Opened(m)' => op'[m].fd # n
      BY <1>2, <3>1, <3>2 DEF Fresh, Opened
    <3>4. QED
      BY <1>2, <1>3, <3>1, <3>2, <3>3 DEF Fresh
  <2>2. QED
    BY <2>1 DEF UnopenedAreFresh
<1>8. NamesApart'
  <2>1. ASSUME NEW k \in Keys, NEW p \in Procs, temp'[k][p] # None
        PROVE  /\ \A k2 \in Keys : file'[k2] # temp'[k][p]
               /\ \A k2 \in Keys, p2 \in Procs :
                    temp'[k2][p2] = temp'[k][p] => k2 = k /\ p2 = p
    <3>1. CASE k = k0 /\ p = p0
      BY <1>2, <1>3, <1>5, <3>1
    <3>2. CASE ~ (k = k0 /\ p = p0)
      <4>1. temp'[k][p] = temp[k][p] /\ temp[k][p] # i
        BY <1>3, <1>5, <3>2
      <4>2. /\ \A k2 \in Keys : file[k2] # temp[k][p]
            /\ \A k2 \in Keys, p2 \in Procs :
                 temp[k2][p2] = temp[k][p] => k2 = k /\ p2 = p
        BY <2>1, <4>1 DEF FilesInv, NamesApart
      <4>3. QED
        BY <1>2, <1>3, <4>1, <4>2
    <3>3. QED
      BY <3>1, <3>2
  <2>2. QED
    BY <2>1 DEF NamesApart
<1>9. WritersApart'
  <2>1. ASSUME NEW n \in Ops, Opened(n)'
        PROVE  /\ op'[n].fd \in Inodes
               /\ \A k \in Keys : file'[k] = op'[n].fd => k = op'[n].key
               /\ \A k \in Keys, p \in Procs :
                    temp'[k][p] = op'[n].fd => k = op'[n].key /\ p = op'[n].proc
               /\ \A m \in Ops : Opened(m)' /\ op'[m].fd = op'[n].fd =>
                    op'[m].key = op'[n].key /\ op'[m].proc = op'[n].proc
    <3>1. CASE n = o
      <4>1. \A m \in Ops \ {o} : Opened(m)' => Opened(m)
        BY <1>2 DEF Opened
      <4>2. QED
        BY <1>1, <1>2, <1>3, <1>5, <3>1, <4>1
    <3>2. CASE n # o
      <4>1. op'[n] = op[n] /\ Opened(n)
        BY <1>2, <2>1, <3>2 DEF Opened
      <4>2. /\ op[n].fd \in Inodes
            /\ \A k \in Keys : file[k] = op[n].fd => k = op[n].key
            /\ \A k \in Keys, p \in Procs :
                 temp[k][p] = op[n].fd => k = op[n].key /\ p = op[n].proc
            /\ \A m \in Ops : Opened(m) /\ op[m].fd = op[n].fd =>
                 op[m].key = op[n].key /\ op[m].proc = op[n].proc
        BY <4>1 DEF FilesInv, WritersApart
      <4>3. \A m \in Ops \ {o} : Opened(m)' => Opened(m)
        BY <1>2 DEF Opened
      <4>4. op[n].fd = i => op[n].key = k0 /\ op[n].proc = p0
        BY <1>5, <4>1
      <4>5. QED
        BY <1>2, <1>3, <4>1, <4>2, <4>3, <4>4
    <3>3. QED
      BY <3>1, <3>2
  <2>2. QED
    BY <2>1 DEF WritersApart
<1>10. TwinsNoted'
  <2>1. ASSUME NEW n \in Ops, Opened(n)'
        PROVE  <<op'[n].key, op'[n].proc>> \in twins' \/ Undisturbed(n)'
    <3>1. CASE n = o
      <4>1. CASE \E m \in Ops \ {o} : Opened(m) /\ op[m].key = k0 /\ op[m].proc = p0
        BY <1>2, <1>6, <3>1, <4>1
      <4>2. CASE ~ \E m \in Ops \ {o} : Opened(m) /\ op[m].key = k0 /\ op[m].proc = p0
        <5>1. \A m \in Ops \ {o} :
                Opened(m)' => op'[m].key # op'[o].key \/ op'[m].proc # op'[o].proc
          BY <1>2, <4>2 DEF Opened
        <5>2. QED
          BY <1>1, <1>2, <1>3, <3>1, <5>1 DEF Undisturbed
      <4>3. QED
        BY <4>1, <4>2
    <3>2. CASE n # o
      <4>1. op'[n] = op[n] /\ Opened(n) /\ op[n].fd \in Inodes
            /\ op[n].key \in Keys /\ op[n].proc \in Procs
        BY <1>2, <2>1, <3>2 DEF Opened, FilesInv, WritersApart, FileTypeOK, OpState
      <4>2. CASE <<op[n].key, op[n].proc>> \in twins
        BY <1>6, <4>1, <4>2
      <4>3. CASE op[n].key = k0 /\ op[n].proc = p0
        BY <1>6, <3>2, <4>1, <4>3
      <4>4. CASE Undisturbed(n) /\ ~ (op[n].key = k0 /\ op[n].proc = p0)
        <5>1. op[n].fd # i
          BY <1>5, <4>1, <4>4
        <5>2. /\ temp'[op[n].key][op[n].proc] = temp[op[n].key][op[n].proc]
              /\ disk'[op[n].fd] = disk[op[n].fd]
          BY <1>3, <4>1, <4>4, <5>1
        <5>3. \A m \in Ops \ {n} :
                Opened(m)' => op'[m].key # op'[n].key \/ op'[m].proc # op'[n].proc
          <6>1. ASSUME NEW m \in Ops \ {n}, Opened(m)'
                PROVE  op'[m].key # op[n].key \/ op'[m].proc # op[n].proc
            <7>1. CASE m = o
              BY <1>2, <4>4, <7>1
            <7>2. CASE m # o
              BY <1>2, <4>4, <6>1, <7>2 DEF Undisturbed, Opened
            <7>3. QED
              BY <7>1, <7>2
          <6>2. QED
            BY <4>1, <6>1
        <5>4. QED
          BY <4>1, <4>4, <5>2, <5>3 DEF Undisturbed
      <4>5. <<op[n].key, op[n].proc>> \in twins \/ Undisturbed(n)
        BY <4>1 DEF FilesInv, TwinsNoted
      <4>6. QED
        BY <4>2, <4>3, <4>4, <4>5
    <3>3. QED
      BY <3>1, <3>2
  <2>2. QED
    BY <2>1 DEF TwinsNoted
<1>11. TornOnlyByTwins'
  <2>1. ASSUME NEW k \in There', disk'[file'[k]].state # "whole"
        PROVE  \E p \in Procs : <<k, p>> \in twins'
    <3>1. k \in There /\ file[k] \in Inodes /\ file[k] # i
      BY <1>2, <1>5 DEF There, FilesInv, FileTypeOK
    <3>2. QED
      BY <1>2, <1>3, <1>6, <2>1, <3>1 DEF FilesInv, TornOnlyByTwins
  <2>2. QED
    BY <2>1 DEF TornOnlyByTwins
<1>12. QED
  BY <1>0, <1>7, <1>8, <1>9, <1>10, <1>11 DEF FilesInv

\* A write leaves half a record only in a file that another call filled before.
LEMMA WriteKeepsInv ==
  ASSUME FilesInv, NEW o \in Ops, Write(o)
  PROVE  FilesInv'
<1> DEFINE i == op[o].fd
<1>1. /\ Opened(o) /\ op[o].at = "writing" /\ i \in Inodes
      /\ op[o].key \in Keys /\ op[o].proc \in Procs
  BY DEF Write, Opened, FilesInv, WritersApart, FileTypeOK, OpState
<1>0. FileTypeOK'
  BY <1>1, WriteTypes DEF FilesInv
<1>2. PICK state \in {"whole", "torn"} :
        /\ disk' = [disk EXCEPT ![i] =
                     [state |-> state, rec |-> op[o].rec, mtime |-> clock]]
        /\ disk[i].state = "empty" => state = "whole"
  BY DEF Write
<1>3. /\ disk'[i].state = state
      /\ \A j \in Inodes \ {i} : disk'[j] = disk[j]
      /\ file' = file /\ temp' = temp /\ twins' = twins
  BY <1>1, <1>2 DEF Write, FilesInv, FileTypeOK
<1>4. /\ \A n \in Ops : /\ op'[n].key = op[n].key /\ op'[n].proc = op[n].proc
                        /\ op'[n].fd = op[n].fd
                        /\ op'[n].at = IF n = o THEN "renaming" ELSE op[n].at
  BY DEF Write, At, FilesInv, FileTypeOK, OpState
<1>5. \A n \in Ops : (Opened(n)' <=> Opened(n)) /\ (Unopened(n)' <=> Unopened(n))
  BY <1>1, <1>4 DEF Opened, Unopened
<1> HIDE DEF i
<1>6. UnopenedAreFresh'
  BY <1>3, <1>4, <1>5 DEF FilesInv, UnopenedAreFresh, Fresh
<1>7. NamesApart'
  BY <1>3 DEF FilesInv, NamesApart
<1>8. WritersApart'
  BY <1>3, <1>4, <1>5 DEF FilesInv, WritersApart
<1>9. TwinsNoted'
  <2>1. ASSUME NEW n \in Ops, Opened(n), Undisturbed(n)
        PROVE  <<op[n].key, op[n].proc>> \in twins \/ Undisturbed(n)'
    <3>1. CASE n = o
      <4>1. state = "whole"
        BY <1>1, <1>2, <2>1, <3>1 DEF Undisturbed, i
      <4>2. temp[op[o].key][op[o].proc] = i
        BY <2>1, <3>1 DEF Undisturbed, i
      <4>3. \A m \in Ops \ {o} :
              Opened(m)' => op'[m].key # op'[o].key \/ op'[m].proc # op'[o].proc
        BY <1>4, <1>5, <2>1, <3>1 DEF Undisturbed
      <4>4. op'[o].at = "renaming" /\ op'[o].fd = i
        BY <1>4 DEF i
      <4>5. QED
        BY <1>3, <1>4, <3>1, <4>1, <4>2, <4>3, <4>4 DEF Undisturbed
    <3>2. CASE n # o
      <4>1. op[n].fd # i
        <5>1. op[n].key # op[o].key \/ op[n].proc # op[o].proc
          BY <1>1, <2>1, <3>2 DEF Undisturbed
        <5>2. QED
          BY <1>1, <2>1, <5>1 DEF FilesInv, WritersApart, i
      <4>2. op[n].fd \in Inodes
        BY <2>1 DEF FilesInv, WritersApart
      <4>3. \A m \in Ops \ {n} :
              Opened(m)' => op'[m].key # op'[n].key \/ op'[m].proc # op'[n].proc
        BY <1>4, <1>5, <2>1 DEF Undisturbed
      <4>4. disk'[op[n].fd] = disk[op[n].fd] /\ op'[n].at = op[n].at
        BY <1>3, <1>4, <3>2, <4>1, <4>2
      <4>5. QED
        BY <1>3, <1>4, <2>1, <4>3, <4>4 DEF Undisturbed
    <3>3. QED
      BY <3>1, <3>2
  <2>2. QED
    BY <1>3, <1>4, <1>5, <2>1 DEF FilesInv, TwinsNoted
<1>10. TornOnlyByTwins'
  <2>1. ASSUME NEW k \in There, disk'[file[k]].state # "whole"
        PROVE  \E p \in Procs : <<k, p>> \in twins
    <3>1. file[k] \in Inodes /\ k \in Keys
      BY DEF There, FilesInv, FileTypeOK
    <3>2. CASE file[k] # i
      BY <1>3, <2>1, <3>1, <3>2 DEF FilesInv, TornOnlyByTwins
    <3>3. CASE file[k] = i
      <4>1. k = op[o].key
        BY <1>1, <3>1, <3>3 DEF FilesInv, WritersApart, i
      <4>2. temp[op[o].key][op[o].proc] # i
        BY <1>1, <3>1, <3>3, FilesAssumption DEF FilesInv, NamesApart, Inodes
      <4>3. ~ Undisturbed(o)
        BY <4>2 DEF Undisturbed, i
      <4>4. <<op[o].key, op[o].proc>> \in twins
        BY <1>1, <4>3 DEF FilesInv, TwinsNoted
      <4>5. QED
        BY <1>1, <4>1, <4>4
    <3>4. QED
      BY <3>2, <3>3
  <2>2. There' = There
    BY <1>3 DEF There
  <2>3. QED
    BY <1>3, <2>1, <2>2 DEF TornOnlyByTwins
<1>11. QED
  BY <1>0, <1>6, <1>7, <1>8, <1>9, <1>10 DEF FilesInv

\* A rename publishes the writer's own file, or a twin's.
LEMMA RenameKeepsInv ==
  ASSUME FilesInv, NEW o \in Ops, Rename(o)
  PROVE  FilesInv'
<1> DEFINE k0 == op[o].key
           p0 == op[o].proc
           i == temp[k0][p0]
<1>0. FileTypeOK' /\ None \notin Inodes
  BY RenameTypes, FilesAssumption DEF FilesInv, Inodes
<1>1. /\ Opened(o) /\ op[o].at = "renaming"
      /\ k0 \in Keys /\ p0 \in Procs /\ i \in Inodes \cup {None}
  BY DEF Rename, Opened, FilesInv, FileTypeOK, OpState
<1>2. /\ \A k \in Keys, p \in Procs :
           temp'[k][p] = IF k = k0 /\ p = p0 THEN None ELSE temp[k][p]
      /\ \A k \in Keys : file'[k] = IF k = k0 /\ i # None THEN i ELSE file[k]
      /\ disk' = disk /\ twins' = twins
  BY <1>1 DEF Rename, TempOf, FilesInv, FileTypeOK
<1>3. /\ \A n \in Ops \ {o} : op'[n] = op[n]
      /\ ~ Opened(o)' /\ ~ Unopened(o)'
  BY DEF Rename, At, Opened, Unopened, FilesInv, FileTypeOK, OpState
<1> HIDE DEF k0, p0, i
<1>4. \A n \in Ops : Opened(n)' => n # o /\ Opened(n) /\ op'[n] = op[n]
  BY <1>3 DEF Opened
<1>5. UnopenedAreFresh'
  <2>1. ASSUME NEW n \in Ops, Unopened(n)' PROVE Fresh(n)'
    <3>1. n # o /\ Unopened(n)
      BY <1>3, <2>1 DEF Unopened
    <3>2. Fresh(n) /\ n # None
      BY <3>1, FilesAssumption DEF FilesInv, UnopenedAreFresh
    <3>3. i # n
      BY <1>1, <3>2 DEF Fresh, i
    <3>4. QED
      BY <1>2, <1>4, <3>2, <3>3 DEF Fresh
  <2>2. QED
    BY <2>1 DEF UnopenedAreFresh
<1>6. NamesApart'
  <2>1. ASSUME NEW k \in Keys, NEW p \in Procs, temp'[k][p] # None
        PROVE  /\ \A k2 \in Keys : file'[k2] # temp'[k][p]
               /\ \A k2 \in Keys, p2 \in Procs :
                    temp'[k2][p2] = temp'[k][p] => k2 = k /\ p2 = p
    <3>1. temp'[k][p] = temp[k][p] /\ ~ (k = k0 /\ p = p0)
      BY <1>2, <2>1
    <3>2. /\ \A k2 \in Keys : file[k2] # temp[k][p]
          /\ \A k2 \in Keys, p2 \in Procs :
               temp[k2][p2] = temp[k][p] => k2 = k /\ p2 = p
      BY <2>1, <3>1 DEF FilesInv, NamesApart
    <3>3. i # temp[k][p]
      BY <1>1, <3>1, <3>2 DEF i
    <3>4. QED
      BY <1>2, <2>1, <3>1, <3>2, <3>3
  <2>2. QED
    BY <2>1 DEF NamesApart
<1>7. WritersApart'
  <2>1. ASSUME NEW n \in Ops, Opened(n)'
        PROVE  /\ op'[n].fd \in Inodes
               /\ \A k \in Keys : file'[k] = op'[n].fd => k = op'[n].key
               /\ \A k \in Keys, p \in Procs :
                    temp'[k][p] = op'[n].fd => k = op'[n].key /\ p = op'[n].proc
               /\ \A m \in Ops : Opened(m)' /\ op'[m].fd = op'[n].fd =>
                    op'[m].key = op'[n].key /\ op'[m].proc = op'[n].proc
    <3>1. Opened(n) /\ op'[n] = op[n]
      BY <1>4, <2>1
    <3>2. /\ op[n].fd \in Inodes
          /\ \A k \in Keys : file[k] = op[n].fd => k = op[n].key
          /\ \A k \in Keys, p \in Procs :
               temp[k][p] = op[n].fd => k = op[n].key /\ p = op[n].proc
          /\ \A m \in Ops : Opened(m) /\ op[m].fd = op[n].fd =>
               op[m].key = op[n].key /\ op[m].proc = op[n].proc
      BY <3>1 DEF FilesInv, WritersApart
    <3>3. \A k \in Keys : file'[k] = op[n].fd => k = op[n].key
      BY <1>1, <1>2, <3>2 DEF i
    <3>4. \A k \in Keys, p \in Procs :
            temp'[k][p] = op[n].fd => k = op[n].key /\ p = op[n].proc
      BY <1>0, <1>2, <3>2
    <3>5. \A m \in Ops : Opened(m)' /\ op'[m].fd = op[n].fd =>
            op'[m].key = op[n].key /\ op'[m].proc = op[n].proc
      BY <1>4, <3>2
    <3>6. QED
      BY <3>1, <3>2, <3>3, <3>4, <3>5
  <2>2. QED
    BY <2>1 DEF WritersApart
<1>8. TwinsNoted'
  <2>1. ASSUME NEW n \in Ops, Opened(n)'
        PROVE  <<op'[n].key, op'[n].proc>> \in twins' \/ Undisturbed(n)'
    <3>1. n # o /\ Opened(n) /\ op'[n] = op[n]
          /\ op[n].key \in Keys /\ op[n].proc \in Procs
      BY <1>4, <2>1 DEF FilesInv, FileTypeOK, OpState
    <3>2. <<op[n].key, op[n].proc>> \in twins \/ Undisturbed(n)
      BY <3>1 DEF FilesInv, TwinsNoted
    <3>3. CASE Undisturbed(n)
      <4>1. ~ (op[n].key = k0 /\ op[n].proc = p0)
        BY <1>1, <3>1, <3>3 DEF Undisturbed, k0, p0
      <4>2. temp'[op[n].key][op[n].proc] = temp[op[n].key][op[n].proc]
        BY <1>2, <3>1, <4>1
      <4>3. \A m \in Ops \ {n} :
              Opened(m)' => op'[m].key # op'[n].key \/ op'[m].proc # op'[n].proc
        BY <1>4, <3>1, <3>3 DEF Undisturbed
      <4>4. QED
        BY <1>2, <3>1, <3>3, <4>2, <4>3 DEF Undisturbed
    <3>4. QED
      BY <1>2, <3>1, <3>2, <3>3
  <2>2. QED
    BY <2>1 DEF TwinsNoted
<1>9. TornOnlyByTwins'
  <2>1. ASSUME NEW k \in There', disk'[file'[k]].state # "whole"
        PROVE  \E p \in Procs : <<k, p>> \in twins'
    <3>1. CASE k = k0 /\ i # None
      <4>1. file'[k] = i /\ disk[i].state # "whole"
        BY <1>1, <1>2, <2>1, <3>1
      <4>2. ~ Undisturbed(o)
        BY <1>1, <4>1 DEF Undisturbed, i, k0, p0
      <4>3. <<k0, p0>> \in twins
        BY <1>1, <4>2 DEF FilesInv, TwinsNoted, k0, p0
      <4>4. QED
        BY <1>1, <1>2, <3>1, <4>3
    <3>2. CASE ~ (k = k0 /\ i # None)
      <4>1. k \in There /\ file'[k] = file[k]
        BY <1>2, <3>2 DEF There
      <4>2. QED
        BY <1>2, <2>1, <4>1 DEF FilesInv, TornOnlyByTwins
    <3>3. QED
      BY <3>1, <3>2
  <2>2. QED
    BY <2>1 DEF TornOnlyByTwins
<1>10. QED
  BY <1>0, <1>5, <1>6, <1>7, <1>8, <1>9 DEF FilesInv

LEMMA FilesHoldAtFirst ==
  ASSUME Init
  PROVE  FilesInv
<1>1. PICK there \in SUBSET Keys :
        /\ file = [k \in Keys |-> IF k \in there THEN k ELSE None]
        /\ added = Cardinality(there)
  BY DEF Init, FilesInit
<1>2. /\ AnyTier \in Tiers /\ LastTick \in Nat /\ IsFiniteSet(there)
      /\ Keys \subseteq Inodes /\ None \notin Inodes
  BY FilesAssumption, FS_Subset DEF AnyTier, Inodes
<1>3. clock = 0 /\ clock \in 0 .. LastTick
  <2>1. clock = 0
    BY DEF Init, FilesInit
  <2>2. QED
    BY <1>2, <2>1
<1>4. ASSUME NEW j \in Inodes
      PROVE  /\ disk[j] \in Inode
             /\ j \in Keys => disk[j].state = "whole"
  <2>1. Empty \in Inode /\ Empty.rec = [at |-> 0, tier |-> AnyTier]
        /\ Empty = [state |-> "empty", rec |-> [at |-> 0, tier |-> AnyTier], mtime |-> clock]
    BY <1>3, EmptyIsAnInode DEF Empty
  <2>2. CASE j \notin Keys
    BY <2>1, <2>2 DEF Init, FilesInit
  <2>3. CASE j \in Keys
    <3>1. KindOf[j].tier \in Tiers
      BY <2>3, KindsAssumption, KindsHaveTiers
    <3>2. disk[j] = [Empty EXCEPT !.state = "whole",
                       !.rec.tier = [k \in Keys |-> KindOf[k].tier][j]]
      BY <2>3 DEF Init, FilesInit
    <3>3. disk[j] = [state |-> "whole", rec |-> [at |-> 0, tier |-> KindOf[j].tier],
                     mtime |-> clock]
      BY <2>1, <2>3, <3>2
    <3>4. QED
      BY <1>3, <3>1, <3>3 DEF Inode, Record
  <2>4. QED
    BY <2>2, <2>3
<1>5. disk \in [Inodes -> Inode]
  BY <1>4 DEF Init, FilesInit
<1>6. /\ op \in [Ops -> OpState]
      /\ \A o \in Ops : op[o].at = "idle"
  <2>1. (CHOOSE k \in Keys : TRUE) \in Keys /\ (CHOOSE p \in Procs : TRUE) \in Procs
    BY FilesAssumption
  <2>2. [at |-> 0, tier |-> AnyTier] \in Record
    BY <1>2 DEF Record
  <2>3. QED
    BY <2>1, <2>2 DEF Init, FilesInit, OpState, OpPhases
<1>7. prune \in [Prunes -> PruneState]
  BY DEF Init, FilesInit, PruneState
<1>8. /\ file \in [Keys -> Inodes \cup {None}]
      /\ \A k \in Keys : file[k] = k \/ file[k] = None
      /\ temp \in [Keys -> [Procs -> Inodes \cup {None}]]
      /\ \A k \in Keys, p \in Procs : temp[k][p] = None
      /\ twins = {} /\ added \in Nat
  BY <1>1, <1>2, FS_CardinalityType DEF Init, FilesInit
<1>9. FileTypeOK
  BY <1>3, <1>5, <1>6, <1>7, <1>8 DEF FileTypeOK
<1>10. UnopenedAreFresh /\ NamesApart /\ WritersApart /\ TwinsNoted
  <2>1. \A o \in Ops : o # None /\ o \notin Keys
    BY FilesAssumption
  <2>2. \A o \in Ops : ~ Opened(o)
    BY <1>6 DEF Opened
  <2>3. QED
    BY <1>8, <2>1, <2>2 DEF UnopenedAreFresh, NamesApart, WritersApart, TwinsNoted, Fresh
<1>11. TornOnlyByTwins
  BY <1>2, <1>4, <1>8 DEF TornOnlyByTwins, There
<1>12. QED
  BY <1>9, <1>10, <1>11 DEF FilesInv

LEMMA MoveKeepsInv ==
  ASSUME FilesInv, FilesMove
  PROVE  FilesInv'
<1>0. FileTypeOK /\ FilesOpen
  BY DEF FilesInv, WritersApart, FilesOpen, Opened
<1>1. FileTypeOK'
  BY <1>0, MoveKeepsTypes
<1>2. ASSUME NEW o \in Ops, NEW k \in Keys, NEW p \in Procs, Get(o, k, p)
      PROVE  FilesInv'
  <2>1. /\ op'[o].at \in {"caller", "judging", "threw"}
        /\ \A n \in Ops \ {o} : op'[n] = op[n]
        /\ op[o].at = "idle"
    BY <1>0, <1>2 DEF Get, FileTypeOK, OpState
  <2>2. QED
    BY <1>1, <1>2, <2>1, QuietStep DEF Get, Opened, Unopened
<1>3. ASSUME NEW o \in Ops, NEW allowStale, Judge(o, allowStale)
      PROVE  FilesInv'
  <2> DEFINE i == file[op[o].key]
  <2>1. /\ op'[o].at \in {"caller", "deleting"}
        /\ \A n \in Ops \ {o} : op'[n] = op[n]
        /\ op[o].at = "judging"
    BY <1>0, <1>3 DEF Judge, FileTypeOK, OpState
  <2>2. i \in Inodes \cup {None}
    BY <1>0 DEF FileTypeOK, OpState
  <2>3. disk' = IF i = None THEN disk ELSE [disk EXCEPT ![i].mtime = clock]
    BY <1>3 DEF Judge
  <2>4. \A j \in Inodes : disk'[j].state = disk[j].state
    BY <1>0, <2>2, <2>3 DEF FileTypeOK, Inode
  <2>5. QED
    BY <1>1, <1>3, <2>1, <2>4, QuietStep DEF Judge, Opened, Unopened
<1>4. ASSUME NEW o \in Ops, Delete(o) PROVE FilesInv'
  <2>1. /\ op'[o].at = "caller" /\ op[o].at = "deleting"
        /\ \A n \in Ops \ {o} : op'[n] = op[n]
        /\ \A k \in Keys : file'[k] = file[k] \/ file'[k] = None
    BY <1>0, <1>4 DEF Delete, At, FileTypeOK, OpState
  <2>2. QED
    BY <1>1, <1>4, <2>1, QuietStep DEF Delete, Opened, Unopened
<1>5. ASSUME NEW p \in Procs, Crash(p) PROVE FilesInv'
  <2>1. \A n \in Ops : op'[n] = op[n] \/ op'[n].at = "over"
    BY <1>0, <1>5 DEF Crash, FileTypeOK, OpState
  <2>2. QED
    BY <1>1, <1>5, <2>1, QuietStep DEF Crash, Opened, Unopened
<1>6. ASSUME NEW p \in Prunes, Prune(p) \/ PruneStep(p) PROVE FilesInv'
  <2>1. UNCHANGED <<temp, disk, op, twins>>
    BY <1>6
    DEF Prune, PruneStep, Relist, Choose, Pruned, Examine, Unlink, Weigh
  <2>2. \A k \in Keys : file'[k] = file[k] \/ file'[k] = None
    <3>1. file' = file \/ \E k \in Keys : file' = [file EXCEPT ![k] = None]
      BY <1>6 DEF Prune, PruneStep, Relist, Choose, Pruned, Examine, Unlink, Weigh
    <3>2. QED
      BY <1>0, <3>1 DEF FileTypeOK
  <2>3. QED
    BY <1>1, <2>1, <2>2, QuietStep DEF Opened, Unopened
<1>7. CASE Elapses \/ UNCHANGED fileVars
  BY <1>1, <1>7, QuietStep DEF Elapses, fileVars, Opened, Unopened
<1>8. QED
  BY <1>2, <1>3, <1>4, <1>5, <1>6, <1>7, OpenKeepsInv, WriteKeepsInv, RenameKeepsInv
  DEF FilesMove

\* However loads, other processes, prunes and crashes interleave, a file that a
\* reader may find is whole, unless two sets of its key overlapped in one process:
\* what writing to one side and renaming is for (fileTtlCache.set).
THEOREM FilesTornOnlyByTwins == Spec => []TornOnlyByTwins
<1>1. Init => FilesInv
  BY FilesHoldAtFirst
<1>2. FilesInv /\ [Next]_vars => FilesInv'
  BY MoveKeepsInv, LoadsMoveFiles DEF FilesInv
<1>3. FilesInv => TornOnlyByTwins
  BY DEF FilesInv
<1>4. QED
  BY <1>1, <1>2, <1>3, PTL DEF Spec

-----------------------------------------------------------------------------
(* The size of the directory                                               *)

\* A survey that found few files, or has to visit or has weighed all but those
\* created since.
Surveyed(p) ==
  \/ /\ prune[p].todo = {} /\ Weighed(p) = {}
     /\ Cardinality(There) <= MaxFiles + prune[p].since
  \/ Cardinality(There \ (prune[p].todo \cup Weighed(p))) <= prune[p].since

CountInv(p) ==
  /\ prune[p].at = "weighing" => Surveyed(p)
  /\ prune[p].at = "evicting" =>
       Cardinality(There \ prune[p].doomed) <= MaxFiles + prune[p].since

DirectoryInv == DirectoryBounded /\ \A p \in Prunes : CountInv(p)


LEMMA FewerKeys ==
  ASSUME NEW S \in SUBSET Keys, NEW T \in SUBSET S
  PROVE  /\ IsFiniteSet(S)
         /\ Cardinality(S) \in Nat /\ Cardinality(T) \in Nat
         /\ Cardinality(T) <= Cardinality(S)
<1>1. IsFiniteSet(S) /\ IsFiniteSet(T)
  BY FilesAssumption, FS_Subset
<1>2. Cardinality(T) <= Cardinality(S)
  BY <1>1, FS_Subset
<1>3. QED
  BY <1>1, <1>2, FS_CardinalityType

LEMMA OneMoreKey ==
  ASSUME NEW S \in SUBSET Keys, NEW k \in Keys, NEW T \in SUBSET (S \cup {k})
  PROVE  Cardinality(T) <= Cardinality(S) + 1
<1>1. IsFiniteSet(S) /\ Cardinality(S) \in Nat
  BY FewerKeys
<1>2. Cardinality(S \cup {k}) <= Cardinality(S) + 1
  <2>1. Cardinality(S \cup {k}) = IF k \in S THEN Cardinality(S) ELSE Cardinality(S) + 1
    BY <1>1, FS_AddElement
  <2>2. QED
    BY <1>1, <2>1
<1>3. /\ Cardinality(T) <= Cardinality(S \cup {k})
      /\ Cardinality(T) \in Nat /\ Cardinality(S \cup {k}) \in Nat
  BY FewerKeys
<1>4. QED
  BY <1>1, <1>2, <1>3

LEMMA CountsAreNatural ==
  ASSUME FileTypeOK
  PROVE  /\ There \subseteq Keys /\ MaxFiles \in Nat /\ LastTick \in Nat /\ added \in Nat
         /\ \A p \in Prunes :
              /\ prune[p].since \in Nat
              /\ prune[p].todo \subseteq Keys /\ prune[p].doomed \subseteq Keys
              /\ Weighed(p) \subseteq Keys
BY FilesAssumption DEF FileTypeOK, PruneState, There, Weighed

\* Files that go, and files that are weighed, leave what a prune counts on standing.
LEMMA FilesGo ==
  ASSUME FileTypeOK, DirectoryInv, NEW p \in Prunes,
         prune'[p].at = prune[p].at, prune'[p].since = prune[p].since,
         There' \subseteq There,
         prune[p].todo = {} /\ Weighed(p) = {} => prune'[p].todo = {} /\ Weighed(p)' = {},
         There' \ (prune'[p].todo \cup Weighed(p)')
           \subseteq There \ (prune[p].todo \cup Weighed(p)),
         There' \ prune'[p].doomed \subseteq There \ prune[p].doomed
  PROVE  CountInv(p)'
<1>1. CountInv(p)
  BY DEF DirectoryInv
<1>2. ASSUME NEW S \in SUBSET There, NEW T \in SUBSET S
      PROVE  /\ Cardinality(T) <= Cardinality(S)
             /\ Cardinality(T) \in Nat /\ Cardinality(S) \in Nat
  <2>1. S \in SUBSET Keys
    BY CountsAreNatural
  <2>2. QED
    BY <2>1, FewerKeys
<1>3. ASSUME prune[p].at = "weighing" PROVE Surveyed(p)'
  <2>1. CASE /\ prune[p].todo = {} /\ Weighed(p) = {}
             /\ Cardinality(There) <= MaxFiles + prune[p].since
    <3>1. Cardinality(There') <= Cardinality(There)
          /\ Cardinality(There') \in Nat /\ Cardinality(There) \in Nat
      BY <1>2
    <3>2. Cardinality(There') <= MaxFiles + prune[p].since
      BY <2>1, <3>1, CountsAreNatural
    <3>3. QED
      BY <2>1, <3>2 DEF Surveyed
  <2>2. CASE Cardinality(There \ (prune[p].todo \cup Weighed(p))) <= prune[p].since
    <3> DEFINE S == There \ (prune[p].todo \cup Weighed(p))
               T == There' \ (prune'[p].todo \cup Weighed(p)')
    <3>1. S \in SUBSET There /\ T \in SUBSET S
      OBVIOUS
    <3>2. Cardinality(S) <= prune[p].since /\ prune[p].since \in Nat
      BY <2>2, CountsAreNatural
    <3> HIDE DEF S, T
    <3>3. Cardinality(T) <= prune[p].since
      BY <1>2, <3>1, <3>2
    <3>4. QED
      BY <3>3 DEF Surveyed, T
  <2>3. QED
    BY <1>1, <1>3, <2>1, <2>2 DEF CountInv, Surveyed
<1>4. ASSUME prune[p].at = "evicting"
      PROVE  Cardinality(There' \ prune'[p].doomed) <= MaxFiles + prune[p].since
  <2> DEFINE S == There \ prune[p].doomed
             T == There' \ prune'[p].doomed
  <2>1. S \in SUBSET There /\ T \in SUBSET S
    OBVIOUS
  <2>2. /\ Cardinality(S) <= MaxFiles + prune[p].since
        /\ prune[p].since \in Nat /\ MaxFiles \in Nat
    BY <1>1, <1>4, CountsAreNatural DEF CountInv
  <2> HIDE DEF S, T
  <2>3. /\ Cardinality(T) <= Cardinality(S)
        /\ Cardinality(T) \in Nat /\ Cardinality(S) \in Nat
    BY <1>2, <2>1
  <2>4. Cardinality(T) <= MaxFiles + prune[p].since
    BY <2>2, <2>3
  <2>5. QED
    BY <2>4 DEF T
<1>5. QED
  BY <1>3, <1>4 DEF CountInv

\* A prune that is left alone counts on what it did.
LEMMA OthersCount ==
  ASSUME FileTypeOK, DirectoryInv, NEW p \in Prunes,
         prune'[p] = prune[p], There' \subseteq There
  PROVE  CountInv(p)'
<1>1. Weighed(p)' = Weighed(p)
  BY DEF Weighed
<1>2. /\ There' \ (prune[p].todo \cup Weighed(p)) \subseteq There \ (prune[p].todo \cup Weighed(p))
      /\ There' \ prune[p].doomed \subseteq There \ prune[p].doomed
  OBVIOUS
<1>3. QED
  BY <1>1, <1>2, FilesGo

LEMMA FilesGoBounded ==
  ASSUME FileTypeOK, DirectoryInv, There' \subseteq There, added' = added
  PROVE  DirectoryBounded'
<1>1. /\ Cardinality(There') <= Cardinality(There)
      /\ Cardinality(There') \in Nat /\ Cardinality(There) \in Nat
  BY CountsAreNatural, FewerKeys
<1>2. Cardinality(There) <= MaxFiles + added
  BY DEF DirectoryInv, DirectoryBounded
<1>3. Cardinality(There') <= MaxFiles + added
  BY <1>1, <1>2, CountsAreNatural
<1>4. QED
  BY <1>3 DEF DirectoryBounded

\* A file that is published is counted by whoever is counting.
LEMMA RenameIsCounted ==
  ASSUME FileTypeOK, DirectoryInv, NEW o \in Ops, Rename(o)
  PROVE  DirectoryInv'
<1> DEFINE k0 == op[o].key
           i == temp[k0][op[o].proc]
           c == Created(k0)
<1>1. /\ k0 \in Keys /\ i \in Inodes \cup {None} /\ None \notin Inodes
      /\ c \in {0, 1} /\ (k0 \notin There => c = 1)
  BY FilesAssumption DEF FileTypeOK, OpState, Inodes, Created, There
<1>2. CASE i = None
  <2>1. There' = There /\ prune' = prune /\ added' = added
    BY <1>2 DEF Rename, TempOf, There
  <2>2. QED
    BY <2>1, OthersCount, FilesGoBounded DEF DirectoryInv
<1>3. CASE i # None
  <2>1. /\ file' = [file EXCEPT ![k0] = i]
        /\ added' = added + c
        /\ prune' = [p \in Prunes |->
                      IF prune[p].at \in {"weighing", "evicting"}
                        THEN [prune[p] EXCEPT !.since = @ + c] ELSE prune[p]]
    BY <1>3 DEF Rename, TempOf
  <2>2. There' = There \cup {k0}
    BY <1>1, <1>3, <2>1 DEF There, FileTypeOK
  <2>3. ASSUME NEW S \in SUBSET Keys
        PROVE  /\ Cardinality(There' \ S) <= Cardinality(There \ S) + c
               /\ Cardinality(There' \ S) \in Nat /\ Cardinality(There \ S) \in Nat
    <3>0. /\ There \ S \in SUBSET Keys /\ There' \ S \in SUBSET Keys
          /\ There' \ S \in SUBSET ((There \ S) \cup {k0})
      BY <1>1, <2>2, CountsAreNatural
    <3>1. Cardinality(There' \ S) \in Nat /\ Cardinality(There \ S) \in Nat
      BY <3>0, FewerKeys
    <3>2. CASE k0 \in There
      <4>1. There' = There
        BY <2>2, <3>2
      <4>2. QED
        BY <1>1, <3>1, <4>1
    <3>3. CASE k0 \notin There
      <4>1. Cardinality(There' \ S) <= Cardinality(There \ S) + 1
        BY <1>1, <3>0, OneMoreKey
      <4>2. QED
        BY <1>1, <3>1, <3>3, <4>1
    <3>4. QED
      BY <3>2, <3>3
  <2>4. /\ Cardinality(There') <= Cardinality(There) + c
        /\ Cardinality(There') \in Nat /\ Cardinality(There) \in Nat
    <3>1. {} \in SUBSET Keys /\ There \ {} = There /\ There' \ {} = There'
      OBVIOUS
    <3>2. QED
      BY <2>3, <3>1
  <2> HIDE DEF k0, i, c
  <2>5. ASSUME NEW p \in Prunes PROVE CountInv(p)'
    <3>1. CountInv(p) /\ prune[p] \in PruneState
      BY DEF DirectoryInv, FileTypeOK
    <3>2. CASE prune[p].at \in {"weighing", "evicting"}
      <4> DEFINE s == prune[p].since
      <4>1. /\ prune'[p].at = prune[p].at /\ prune'[p].todo = prune[p].todo
            /\ prune'[p].doomed = prune[p].doomed /\ prune'[p].seen = prune[p].seen
            /\ prune'[p].since = s + c
        BY <2>1, <3>1, <3>2 DEF PruneState
      <4>2. Weighed(p)' = Weighed(p)
        BY <4>1 DEF Weighed
      <4>3. s \in Nat /\ MaxFiles \in Nat /\ c \in Nat
        BY <1>1, CountsAreNatural
      <4> HIDE DEF s
      <4>4. ASSUME prune[p].at = "weighing" PROVE Surveyed(p)'
        <5> DEFINE S == prune[p].todo \cup Weighed(p)
        <5>1. CASE /\ prune[p].todo = {} /\ Weighed(p) = {}
                   /\ Cardinality(There) <= MaxFiles + s
          <6>1. Cardinality(There') <= MaxFiles + (s + c)
            BY <2>4, <4>3, <5>1
          <6>2. QED
            BY <4>1, <4>2, <5>1, <6>1 DEF Surveyed
        <5>2. CASE Cardinality(There \ S) <= s
          <6>1. S \in SUBSET Keys
            BY CountsAreNatural
          <6> HIDE DEF S
          <6>2. /\ Cardinality(There' \ S) <= Cardinality(There \ S) + c
                /\ Cardinality(There' \ S) \in Nat /\ Cardinality(There \ S) \in Nat
            BY <2>3, <6>1
          <6>3. Cardinality(There' \ S) <= s + c
            BY <4>3, <5>2, <6>2
          <6>4. QED
            BY <4>1, <4>2, <6>3 DEF Surveyed, S
        <5>3. QED
          BY <3>1, <4>4, <5>1, <5>2 DEF CountInv, Surveyed, s
      <4>5. ASSUME prune[p].at = "evicting"
            PROVE  Cardinality(There' \ prune[p].doomed) <= MaxFiles + (s + c)
        <5> DEFINE S == prune[p].doomed
        <5>1. S \in SUBSET Keys /\ Cardinality(There \ S) <= MaxFiles + s
          BY <3>1, <4>5, CountsAreNatural DEF CountInv, s
        <5> HIDE DEF S
        <5>2. /\ Cardinality(There' \ S) <= Cardinality(There \ S) + c
              /\ Cardinality(There' \ S) \in Nat /\ Cardinality(There \ S) \in Nat
          BY <2>3, <5>1
        <5>3. Cardinality(There' \ S) <= MaxFiles + (s + c)
          BY <4>3, <5>1, <5>2
        <5>4. QED
          BY <5>3 DEF S
      <4>6. QED
        BY <4>1, <4>4, <4>5 DEF CountInv
    <3>3. CASE prune[p].at \notin {"weighing", "evicting"}
      BY <2>1, <3>3 DEF CountInv
    <3>4. QED
      BY <3>2, <3>3
  <2>6. DirectoryBounded'
    <3>1. Cardinality(There) <= MaxFiles + added /\ c \in Nat
      BY <1>1 DEF DirectoryInv, DirectoryBounded
    <3>2. Cardinality(There') <= MaxFiles + (added + c)
      BY <2>4, <3>1, CountsAreNatural
    <3>3. QED
      BY <2>1, <3>2 DEF DirectoryBounded
  <2>7. QED
    BY <2>5, <2>6 DEF DirectoryInv
<1>4. QED
  BY <1>2, <1>3

\* The victims of a survey are as many as there are too many of.
LEMMA VictimsSuffice ==
  ASSUME FileTypeOK, DirectoryInv, NEW p \in Prunes, Choose(p)
  PROVE  CountInv(p)'
<1>1. PICK victims \in SUBSET Weighed(p) :
        /\ Cardinality(victims) = Excess(p)
        /\ prune' = [prune EXCEPT ![p].at = "evicting", ![p].doomed = victims]
  BY DEF Choose
<1> DEFINE W == Weighed(p)
           s == prune[p].since
<1>2. /\ prune'[p].at = "evicting" /\ prune'[p].doomed = victims
      /\ prune'[p].since = s
      /\ prune[p].at = "weighing" /\ prune[p].todo = {}
      /\ file' = file
  BY <1>1 DEF Choose, FileTypeOK, PruneState
<1>3. /\ There' = There /\ There \in SUBSET Keys /\ W \in SUBSET Keys
      /\ s \in Nat /\ MaxFiles \in Nat
  BY <1>2, CountsAreNatural DEF There
<1>4. \/ W = {} /\ Cardinality(There) <= MaxFiles + s
      \/ Cardinality(There \ W) <= s
  <2>1. Surveyed(p) /\ prune[p].todo \cup Weighed(p) = W
    BY <1>2 DEF DirectoryInv, CountInv
  <2>2. QED
    BY <2>1 DEF Surveyed
<1>5. /\ Cardinality(victims) = IF Cardinality(W) > MaxFiles
                                  THEN Cardinality(W) - MaxFiles ELSE 0
  BY <1>1 DEF Excess
<1>6. victims \in SUBSET W
  BY <1>1
<1> HIDE DEF W, s
<1>7. Cardinality(There \ victims) <= MaxFiles + s
  <2>1. There \ victims \in SUBSET There
    OBVIOUS
  <2>2. /\ Cardinality(There \ victims) <= Cardinality(There)
        /\ Cardinality(There \ victims) \in Nat /\ Cardinality(There) \in Nat
    BY <1>3, <2>1, FewerKeys
  <2>3. CASE W = {} /\ Cardinality(There) <= MaxFiles + s
    BY <1>3, <2>2, <2>3
  <2>4. CASE Cardinality(There \ W) <= s
    <3>1. /\ There \ W \in SUBSET Keys /\ W \ victims \in SUBSET Keys
          /\ There \ victims \in SUBSET ((There \ W) \cup (W \ victims))
          /\ (There \ W) \cup (W \ victims) \in SUBSET Keys
          /\ (There \ W) \cap (W \ victims) = {}
      BY <1>3
    <3>2. /\ IsFiniteSet(W) /\ IsFiniteSet(There \ W) /\ IsFiniteSet(W \ victims)
          /\ Cardinality(W) \in Nat /\ Cardinality(There \ W) \in Nat
          /\ Cardinality(W \ victims) \in Nat
      BY <1>3, <3>1, FewerKeys
    <3>3. Cardinality(W \ victims) = Cardinality(W) - Cardinality(victims)
      <4>1. W \cap victims = victims
        BY <1>6
      <4>2. Cardinality(W \ victims) = Cardinality(W) - Cardinality(W \cap victims)
        BY <3>2, FS_Difference
      <4>3. QED
        BY <4>1, <4>2
    <3>4. Cardinality(W \ victims) <= MaxFiles
      BY <1>3, <1>5, <3>2, <3>3
    <3>5. Cardinality((There \ W) \cup (W \ victims))
            = Cardinality(There \ W) + Cardinality(W \ victims)
      <4>1. Cardinality((There \ W) \cup (W \ victims))
              = Cardinality(There \ W) + Cardinality(W \ victims)
                  - Cardinality((There \ W) \cap (W \ victims))
        BY <3>2, FS_Union
      <4>2. Cardinality((There \ W) \cap (W \ victims)) = 0
        BY <3>1, FS_EmptySet
      <4>3. QED
        BY <3>2, <4>1, <4>2
    <3>6. Cardinality(There \ victims) <= Cardinality((There \ W) \cup (W \ victims))
      BY <3>1, FewerKeys
    <3>7. QED
      BY <1>3, <2>2, <2>4, <3>2, <3>4, <3>5, <3>6
  <2>5. QED
    BY <1>4, <2>3, <2>4
<1>8. QED
  BY <1>2, <1>3, <1>7 DEF CountInv, s

LEMMA PruneIsCounted ==
  ASSUME FileTypeOK, DirectoryInv, NEW p \in Prunes, Prune(p) \/ PruneStep(p)
  PROVE  DirectoryInv'
<1>0. prune[p] \in PruneState /\ MaxFiles \in Nat /\ LastTick \in Nat
  BY CountsAreNatural DEF FileTypeOK
<1>1. \A q \in Prunes \ {p} : prune'[q] = prune[q]
  BY Zenon DEF Prune, PruneStep, Relist, Choose, Pruned, Examine, Unlink, Weigh, FileTypeOK
<1>2. There' \subseteq There
  BY Zenon DEF Prune, PruneStep, Relist, Choose, Pruned, Examine, Unlink, Weigh, FileTypeOK, There
<1>3. \A q \in Prunes \ {p} : CountInv(q)'
  BY <1>1, <1>2, OthersCount
<1>4. ASSUME CountInv(p)', added' = added PROVE DirectoryInv'
  BY <1>2, <1>3, <1>4, FilesGoBounded DEF DirectoryInv
<1>5. CASE Prune(p)
  <2>1. prune'[p].at = "scanning"
    BY <1>0, <1>5 DEF Prune, FileTypeOK, PruneState
  <2>2. QED
    BY <1>4, <1>5, <2>1 DEF Prune, CountInv
<1>6. CASE Relist(p)
  <2>1. /\ prune'[p].at = "weighing" /\ prune'[p].since = 0
        /\ prune'[p].todo = IF Cardinality(There) > MaxFiles THEN There ELSE {}
        /\ prune'[p].seen = [k \in Keys |-> LastTick + 1]
        /\ There' = There
    BY <1>0, <1>6 DEF Relist, FileTypeOK, PruneState, There
  <2>2. Weighed(p)' = {}
    BY <1>0, <2>1 DEF Weighed
  <2>3. Cardinality(There) \in Nat
    BY CountsAreNatural, FewerKeys
  <2>4. CASE Cardinality(There) > MaxFiles
    <3>1. There' \ (prune'[p].todo \cup Weighed(p)') = {}
      BY <2>1, <2>4
    <3>2. Cardinality(There' \ (prune'[p].todo \cup Weighed(p)')) = 0
      BY <3>1, FS_EmptySet
    <3>3. Surveyed(p)'
      BY <2>1, <3>2 DEF Surveyed
    <3>4. QED
      BY <1>4, <1>6, <2>1, <3>3 DEF Relist, CountInv
  <2>5. CASE ~ (Cardinality(There) > MaxFiles)
    <3>1. Cardinality(There') <= MaxFiles + prune'[p].since
      BY <1>0, <2>1, <2>3, <2>5
    <3>2. Surveyed(p)'
      BY <2>1, <2>2, <2>5, <3>1 DEF Surveyed
    <3>3. QED
      BY <1>4, <1>6, <2>1, <3>2 DEF Relist, CountInv
  <2>6. QED
    BY <2>4, <2>5
<1>7. CASE Choose(p)
  BY <1>4, <1>7, VictimsSuffice DEF Choose
<1>8. CASE Pruned(p)
  <2>1. /\ prune'[p].at = "over" /\ added' = prune[p].since /\ There' = There
        /\ prune[p].at = "evicting" /\ prune[p].doomed = {}
    BY <1>0, <1>8 DEF Pruned, FileTypeOK, PruneState, There
  <2>2. Cardinality(There \ {}) <= MaxFiles + prune[p].since
    BY <2>1 DEF DirectoryInv, CountInv
  <2>3. DirectoryBounded' /\ CountInv(p)'
    BY <2>1, <2>2 DEF DirectoryBounded, CountInv
  <2>4. QED
    BY <1>3, <2>3 DEF DirectoryInv
<1>9. ASSUME NEW k \in Keys, Examine(p, k) PROVE DirectoryInv'
  <2>1. prune'[p].at = "scanning"
    BY <1>0, <1>9 DEF Examine, FileTypeOK, PruneState
  <2>2. QED
    BY <1>4, <1>9, <2>1 DEF Examine, CountInv
<1>10. ASSUME NEW k \in Keys, Unlink(p, k) PROVE DirectoryInv'
  <2>1. /\ prune'[p].at = prune[p].at /\ prune'[p].since = prune[p].since
        /\ prune'[p].todo = prune[p].todo /\ prune'[p].seen = prune[p].seen
        /\ prune'[p].doomed = prune[p].doomed \ {k}
        /\ There' = There \ {k}
    BY <1>0, <1>10, FilesAssumption DEF Unlink, FileTypeOK, PruneState, There
  <2>2. Weighed(p)' = Weighed(p)
    BY <2>1 DEF Weighed
  <2>3. There' \ prune'[p].doomed \subseteq There \ prune[p].doomed
    BY <1>10, <2>1 DEF Unlink
  <2>4. There' \ (prune[p].todo \cup Weighed(p)) \subseteq There \ (prune[p].todo \cup Weighed(p))
    BY <1>2
  <2>5. CountInv(p)'
    BY <1>2, <2>1, <2>2, <2>3, <2>4, FilesGo
  <2>6. QED
    BY <1>4, <1>10, <2>5 DEF Unlink
<1>11. ASSUME NEW k \in Keys, Weigh(p, k) PROVE DirectoryInv'
  <2>1. /\ prune'[p].at = prune[p].at /\ prune'[p].since = prune[p].since
        /\ prune'[p].todo = prune[p].todo \ {k} /\ k \in prune[p].todo
        /\ prune'[p].doomed = prune[p].doomed
        /\ \A x \in Keys \ {k} : prune'[p].seen[x] = prune[p].seen[x]
        /\ prune'[p].seen[k] = IF file[k] = None THEN prune[p].seen[k]
                               ELSE disk[file[k]].mtime
        /\ There' = There
    BY <1>0, <1>11 DEF Weigh, FileTypeOK, PruneState, There
  <2>2. k \in There => prune'[p].seen[k] <= LastTick
    <3>1. ASSUME k \in There PROVE disk[file[k]].mtime \in 0 .. LastTick
      BY <3>1 DEF There, FileTypeOK, Inode
    <3>2. QED
      BY <1>0, <2>1, <3>1 DEF There
  <2>3. There \ (prune'[p].todo \cup Weighed(p)') \subseteq There \ (prune[p].todo \cup Weighed(p))
    <3>1. ASSUME NEW x \in There, x \in prune[p].todo \cup Weighed(p)
          PROVE  x \in prune'[p].todo \cup Weighed(p)'
      <4>1. CASE x = k
        BY <2>2, <4>1, <3>1 DEF Weighed
      <4>2. CASE x # k
        BY <2>1, <3>1, <4>2 DEF Weighed
      <4>3. QED
        BY <4>1, <4>2
    <3>2. QED
      BY <3>1
  <2>4. CountInv(p)'
    BY <1>2, <2>1, <2>3, FilesGo
  <2>5. QED
    BY <1>4, <1>11, <2>4 DEF Weigh
<1>12. ASSUME PruneStep(p) PROVE DirectoryInv'
  BY <1>6, <1>7, <1>8, <1>9, <1>10, <1>11, <1>12, Zenon DEF PruneStep
<1>13. QED
  BY <1>5, <1>12

LEMMA MovesAreCounted ==
  ASSUME FileTypeOK, DirectoryInv, FilesMove
  PROVE  DirectoryInv'
<1>1. ASSUME prune' = prune, added' = added, There' \subseteq There
      PROVE  DirectoryInv'
  BY <1>1, OthersCount, FilesGoBounded DEF DirectoryInv
<1>2. ASSUME NEW o \in Ops,
             \/ \E k \in Keys, p \in Procs : Get(o, k, p)
             \/ \E allowStale : Judge(o, allowStale)
             \/ Delete(o)
             \/ \E t \in Tiers : Open(o, t)
             \/ Write(o)
      PROVE  prune' = prune /\ added' = added /\ There' \subseteq There
  <2>1. CASE \/ \E k \in Keys, p \in Procs : Get(o, k, p)
             \/ \E allowStale : Judge(o, allowStale)
             \/ \E t \in Tiers : Open(o, t)
             \/ Write(o)
    <3>1. prune' = prune /\ added' = added /\ file' = file
      BY <2>1, Zenon DEF Get, Judge, Open, Write
    <3>2. There' = There
      BY <3>1 DEF There
    <3>3. QED
      BY <3>1, <3>2, Zenon
  <2>2. CASE Delete(o)
    BY <2>2 DEF Delete, There, FileTypeOK
  <2>3. QED
    BY <1>2, <2>1, <2>2
<1>3. ASSUME NEW p \in Procs, Crash(p)
      PROVE  prune' = prune /\ added' = added /\ There' \subseteq There
  BY <1>3 DEF Crash, There
<1>4. ASSUME Elapses \/ UNCHANGED fileVars
      PROVE  prune' = prune /\ added' = added /\ There' \subseteq There
  BY <1>4 DEF Elapses, fileVars, There
<1>5. QED
  BY <1>1, <1>2, <1>3, <1>4, RenameIsCounted, PruneIsCounted DEF FilesMove

\* The directory never holds more than MaxFiles and what was created since the
\* survivors of a prune were counted: for any number of processes, callers and
\* prunes, and wherever they crash (fileTtlCache.prune and evictOldest).
THEOREM DirectoryStaysBounded == Spec => []DirectoryBounded
<1>1. Init => FilesInv /\ DirectoryInv
  <2> SUFFICES ASSUME Init PROVE FilesInv /\ DirectoryInv
    OBVIOUS
  <2>1. FilesInv
    BY FilesHoldAtFirst
  <2>2. PICK there \in SUBSET Keys :
          /\ file = [k \in Keys |-> IF k \in there THEN k ELSE None]
          /\ added = Cardinality(there)
    BY DEF Init, FilesInit
  <2>3. There = there
    BY <2>2, FilesAssumption DEF There
  <2>4. MaxFiles \in Nat /\ added \in Nat
    BY <2>1, CountsAreNatural DEF FilesInv
  <2>5. DirectoryBounded
    BY <2>2, <2>3, <2>4 DEF DirectoryBounded
  <2>6. \A p \in Prunes : prune[p].at = "idle"
    BY DEF Init, FilesInit
  <2>7. QED
    BY <2>1, <2>5, <2>6 DEF DirectoryInv, CountInv
<1>2. FilesInv /\ DirectoryInv /\ [Next]_vars => FilesInv' /\ DirectoryInv'
  <2>1. FilesInv /\ [Next]_vars => FileTypeOK /\ FilesMove
    BY LoadsMoveFiles DEF FilesInv
  <2>2. QED
    BY <2>1, MoveKeepsInv, MovesAreCounted
<1>3. FilesInv /\ DirectoryInv => DirectoryBounded
  BY DEF DirectoryInv
<1>4. QED
  BY <1>1, <1>2, <1>3, PTL DEF Spec

-----------------------------------------------------------------------------
(* The loads                                                               *)

LoadState ==
  [at : {"idle", "loading", "enriching", "done"}, aborted : BOOLEAN,
   vendor : {"unasked", "failed", "aborted", "answered"},
   signedIn : BOOLEAN, retried : BOOLEAN,
   result : {"none", "threw", "hit", "live", "cancelled", "stale", "empty", "failed"}]

LoadInv ==
  /\ load \in [Ops -> LoadState]
  /\ \A o \in Ops :
       /\ load[o].at # "done" => load[o].result = "none"
       /\ op[o].at \in {"judging", "deleting", "writing", "renaming"} =>
            load[o].at = "loading"
       /\ Unopened(o) => load[o].vendor # "answered"
  /\ FallbackIsExplained

LEMMA LoadMoves ==
  ASSUME load \in [Ops -> LoadState], NEW o \in Ops, NEW s \in LoadState,
         load' = [load EXCEPT ![o] = s]
  PROVE  load' \in [Ops -> LoadState] /\ load'[o] = s
         /\ \A n \in Ops \ {o} : load'[n] = load[n]
OBVIOUS

\* What a step of one load has to keep.
LEMMA OneLoadMoves ==
  ASSUME LoadInv, FileTypeOK, twins \subseteq twins', NEW o \in Ops, NEW s \in LoadState,
         load' = [load EXCEPT ![o] = s],
         \A n \in Ops \ {o} : op'[n] = op[n],
         s.at # "done" => s.result = "none",
         op'[o].at \in {"judging", "deleting", "writing", "renaming"} => s.at = "loading",
         Unopened(o)' => s.vendor # "answered",
         s.result \in {"stale", "failed", "empty"} /\ s.vendor = "answered" =>
           <<op'[o].key, op'[o].proc>> \in twins'
  PROVE  LoadInv'
<1>1. /\ load' \in [Ops -> LoadState] /\ load'[o] = s
      /\ \A n \in Ops \ {o} : load'[n] = load[n]
  BY LoadMoves DEF LoadInv
<1>2. ASSUME NEW n \in Ops
      PROVE  /\ load'[n].at # "done" => load'[n].result = "none"
             /\ op'[n].at \in {"judging", "deleting", "writing", "renaming"} =>
                  load'[n].at = "loading"
             /\ Unopened(n)' => load'[n].vendor # "answered"
             /\ load'[n].result \in {"stale", "failed", "empty"}
                  /\ load'[n].vendor = "answered" =>
                    <<op'[n].key, op'[n].proc>> \in twins'
  <2>1. CASE n = o
    BY <1>1, <2>1
  <2>2. CASE n # o
    BY <1>1, <2>2 DEF LoadInv, FallbackIsExplained, Unopened
  <2>3. QED
    BY <2>1, <2>2
<1>3. QED
  BY <1>1, <1>2 DEF LoadInv, FallbackIsExplained

\* Steps of the directory that no load takes part in.
LEMMA NoLoadMoves ==
  ASSUME LoadInv, twins \subseteq twins', load' = load,
         \A o \in Ops :
           /\ op'[o].key = op[o].key /\ op'[o].proc = op[o].proc
           /\ op'[o].at \in {"judging", "deleting", "writing", "renaming"} =>
                op[o].at \in {"judging", "deleting", "writing", "renaming"}
           /\ Unopened(o)' => Unopened(o)
  PROVE  LoadInv'
BY DEF LoadInv, FallbackIsExplained

\* The result of a fallback.
Fallen(o) ==
  IF op[o].found # "none" THEN "stale" ELSE IF Kind(o).masks THEN "empty" ELSE "failed"

LEMMA FallBackKeeps ==
  ASSUME LoadInv, FileTypeOK, twins \subseteq twins', NEW o \in Ops,
         NEW vendor \in {"failed", "aborted", "answered"}, FallBack(o, vendor),
         \A n \in Ops \ {o} : op'[n] = op[n],
         op'[o].at \notin {"judging", "deleting", "writing", "renaming"},
         vendor = "answered" =>
           ~ Unopened(o)' /\ <<op'[o].key, op'[o].proc>> \in twins'
  PROVE  LoadInv'
<1> DEFINE result == Fallen(o)
           s == [load[o] EXCEPT !.at = "done", !.vendor = vendor, !.result = result]
<1>1. load' = [load EXCEPT ![o] = s]
  BY DEF FallBack, Fallen
<1>2. result \in {"stale", "empty", "failed"} /\ load[o] \in LoadState
  BY DEF Fallen, LoadInv
<1> HIDE DEF result
<1>3. s \in LoadState /\ s.at = "done" /\ s.vendor = vendor
  BY <1>2 DEF LoadState
<1> HIDE DEF s
<1>4. QED
  BY <1>1, <1>3, OneLoadMoves

LEMMA DoneKeeps ==
  ASSUME LoadInv, FileTypeOK, twins \subseteq twins', NEW o \in Ops,
         NEW result \in {"threw", "hit", "live", "cancelled", "empty", "failed"},
         Done(o, result),
         \A n \in Ops \ {o} : op'[n] = op[n],
         op'[o].at \notin {"judging", "deleting", "writing", "renaming"},
         Unopened(o)' => load[o].vendor # "answered",
         result \in {"empty", "failed"} => load[o].vendor # "answered"
  PROVE  LoadInv'
<1> DEFINE s == [load[o] EXCEPT !.at = "done", !.result = result]
<1>1. load' = [load EXCEPT ![o] = s]
  BY DEF Done
<1>2. load[o] \in LoadState
  BY DEF LoadInv
<1>3. s \in LoadState /\ s.at = "done" /\ s.vendor = load[o].vendor /\ s.result = result
  BY <1>2 DEF LoadState
<1> HIDE DEF s
<1>4. QED
  BY <1>1, <1>3, OneLoadMoves

LEMMA DeliveredKeeps ==
  ASSUME LoadInv, FileTypeOK, twins \subseteq twins', NEW o \in Ops,
         NEW result \in {"hit", "live"}, Delivered(o, result),
         load[o].at = "loading",
         \A n \in Ops \ {o} : op'[n] = op[n],
         op'[o].at \notin {"judging", "deleting", "writing", "renaming"},
         Unopened(o)' => load[o].vendor # "answered"
  PROVE  LoadInv'
<1>1. CASE Done(o, result)
  BY <1>1, DoneKeeps
<1>2. CASE load' = [load EXCEPT ![o].at = "enriching"]
  <2> DEFINE s == [load[o] EXCEPT !.at = "enriching"]
  <2>1. load[o] \in LoadState /\ load[o].result = "none"
    BY DEF LoadInv
  <2>2. s \in LoadState /\ s.at = "enriching" /\ s.vendor = load[o].vendor /\ s.result = "none"
    BY <2>1 DEF LoadState
  <2>3. load' = [load EXCEPT ![o] = s]
    BY <1>2
  <2> HIDE DEF s
  <2>4. QED
    BY <2>2, <2>3, OneLoadMoves
<1>3. QED
  BY <1>1, <1>2 DEF Delivered

\* Steps that leave how far a load is, and what it has seen of its vendor.
LEMMA SameStage ==
  ASSUME LoadInv, FileTypeOK, op' = op, twins' = twins, NEW o \in Ops, NEW s \in LoadState,
         load' = [load EXCEPT ![o] = s],
         s.at = load[o].at, s.vendor = load[o].vendor, s.result = load[o].result
  PROVE  LoadInv'
<1>1. /\ load[o].at # "done" => load[o].result = "none"
      /\ op[o].at \in {"judging", "deleting", "writing", "renaming"} => load[o].at = "loading"
      /\ Unopened(o) => load[o].vendor # "answered"
      /\ load[o].result \in {"stale", "failed", "empty"} /\ load[o].vendor = "answered" =>
           <<op[o].key, op[o].proc>> \in twins
  BY DEF LoadInv, FallbackIsExplained
<1>2. Unopened(o)' <=> Unopened(o)
  BY DEF Unopened
<1>3. QED
  BY <1>1, <1>2, OneLoadMoves

LEMMA StartKeeps ==
  ASSUME LoadInv, FileTypeOK, NEW o \in Ops, NEW k \in Keys, NEW p \in Procs, Start(o, k, p)
  PROVE  LoadInv'
<1>1. /\ \A n \in Ops \ {o} : op'[n] = op[n]
      /\ op'[o].at \in {"caller", "judging", "threw"} /\ op[o].at = "idle"
      /\ twins' = twins /\ load[o].at = "idle"
  BY DEF Start, Get, FileTypeOK, OpState
<1>2. /\ load[o] \in LoadState /\ load[o].vendor # "answered" /\ load[o].result = "none"
  BY <1>1 DEF LoadInv, Unopened
<1>3. CASE op'[o].at = "threw"
  <2>1. Done(o, "threw")
    BY <1>3 DEF Start
  <2>2. QED
    BY <1>1, <1>2, <1>3, <2>1, DoneKeeps
<1>4. CASE op'[o].at # "threw"
  <2> DEFINE s == [load[o] EXCEPT !.at = "loading"]
  <2>1. load' = [load EXCEPT ![o] = s]
    BY <1>4 DEF Start
  <2>2. s \in LoadState /\ s.at = "loading" /\ s.vendor = load[o].vendor /\ s.result = "none"
    BY <1>2 DEF LoadState
  <2> HIDE DEF s
  <2>3. QED
    BY <1>1, <1>2, <2>1, <2>2, OneLoadMoves
<1>5. QED
  BY <1>3, <1>4

LEMMA ReadKeeps ==
  ASSUME LoadInv, FileTypeOK, NEW o \in Ops, Read(o)
  PROVE  LoadInv'
<1>1. /\ \A n \in Ops : op'[n].key = op[n].key /\ op'[n].proc = op[n].proc
      /\ \A n \in Ops \ {o} : op'[n] = op[n]
      /\ op'[o].at \in {"caller", "deleting"} /\ op[o].at = "judging"
      /\ twins' = twins
  BY DEF Read, Judge, FileTypeOK, OpState
<1>2. load[o].at = "loading" /\ load[o].vendor # "answered"
  BY <1>1 DEF LoadInv, Unopened
<1>3. CASE op'[o].at = "caller" /\ Delivered(o, "hit")
  BY <1>1, <1>2, <1>3, DeliveredKeeps
<1>4. CASE load' = load
  BY <1>1, <1>4, NoLoadMoves DEF Unopened
<1>5. QED
  BY <1>3, <1>4 DEF Read

LEMMA VendorKeeps ==
  ASSUME LoadInv, FileTypeOK, NEW o \in Ops, VendorAnswers(o) \/ VendorHasNothing(o)
  PROVE  LoadInv'
<1>1. /\ op[o].at = "caller" /\ load[o].at = "loading" /\ load[o] \in LoadState
      /\ load[o].vendor # "answered" /\ load[o].result = "none"
  BY DEF VendorAnswers, VendorHasNothing, Ready, Asking, LoadInv, Unopened
<1>2. ASSUME NEW t, Open(o, t), load' = [load EXCEPT ![o].vendor = "answered"]
      PROVE  LoadInv'
  <2> DEFINE s == [load[o] EXCEPT !.vendor = "answered"]
  <2>1. /\ \A n \in Ops \ {o} : op'[n] = op[n]
        /\ op'[o].at = "writing" /\ twins \subseteq twins'
    BY <1>2 DEF Open, FileTypeOK, OpState
  <2>2. load' = [load EXCEPT ![o] = s]
    BY <1>2
  <2>3. s \in LoadState /\ s.at = "loading" /\ s.result = "none"
    BY <1>1 DEF LoadState
  <2> HIDE DEF s
  <2>4. QED
    BY <2>1, <2>2, <2>3, OneLoadMoves DEF Unopened
<1>3. CASE VendorAnswers(o)
  BY <1>2, <1>3 DEF VendorAnswers
<1>4. CASE VendorHasNothing(o) /\ Kind(o).nothing = "negative"
  BY <1>2, <1>4 DEF VendorHasNothing
<1>5. CASE VendorHasNothing(o) /\ Kind(o).nothing # "negative"
  <2>1. Kind(o) \in Kinds
    BY KindsAssumption DEF Kind, FileTypeOK, OpState
  <2>2. Kind(o).nothing \in {"empty", "failed"}
    BY <1>5, <2>1, KindsHaveTiers DEF VendorHasNothing
  <2>3. Done(o, Kind(o).nothing) /\ op' = op /\ twins' = twins
    BY <1>5 DEF VendorHasNothing, fileVars
  <2>4. QED
    BY <1>1, <2>2, <2>3, DoneKeeps
<1>6. QED
  BY <1>3, <1>4, <1>5

LEMMA WaitingKeeps ==
  ASSUME LoadInv, FileTypeOK, NEW o \in Ops,
         \/ SignIn(o) \/ VendorFails(o) \/ TokenRefused(o) \/ Leave(o)
         \/ AbortNoticed(o) \/ Enriched(o) \/ EnrichmentAborted(o)
  PROVE  LoadInv'
<1>1. op' = op /\ twins' = twins /\ load[o] \in LoadState
  BY DEF SignIn, VendorFails, TokenRefused, Leave, AbortNoticed, Enriched,
         EnrichmentAborted, fileVars, LoadInv
<1>2. Unopened(o)' => load[o].vendor # "answered"
  BY <1>1 DEF Unopened, LoadInv
<1>3. ASSUME NEW vendor \in {"failed", "aborted"}, FallBack(o, vendor),
             op[o].at \notin {"judging", "deleting", "writing", "renaming"}
      PROVE  LoadInv'
  BY <1>1, <1>3, FallBackKeeps
<1>4. ASSUME NEW result \in {"hit", "live", "cancelled"}, Done(o, result),
             op[o].at \notin {"judging", "deleting", "writing", "renaming"}
      PROVE  LoadInv'
  BY <1>1, <1>2, <1>4, DoneKeeps
<1>5. Asking(o) \/ load[o].at = "enriching" =>
        op[o].at \notin {"judging", "deleting", "writing", "renaming"}
  BY DEF Asking, LoadInv
<1>6. CASE SignIn(o) /\ FallBack(o, "failed")
  BY <1>3, <1>5, <1>6 DEF SignIn
<1>7. CASE VendorFails(o)
  BY <1>3, <1>5, <1>7 DEF VendorFails, Ready
<1>8. CASE AbortNoticed(o)
  BY <1>3, <1>4, <1>5, <1>8 DEF AbortNoticed
<1>9. CASE EnrichmentAborted(o)
  BY <1>3, <1>4, <1>5, <1>9 DEF EnrichmentAborted
<1>10. CASE Enriched(o)
  BY <1>4, <1>5, <1>10 DEF Enriched
<1>11. CASE load' = [load EXCEPT ![o].signedIn = TRUE]
  <2>1. /\ [load[o] EXCEPT !.signedIn = TRUE] \in LoadState
        /\ [load[o] EXCEPT !.signedIn = TRUE].at = load[o].at
        /\ [load[o] EXCEPT !.signedIn = TRUE].vendor = load[o].vendor
        /\ [load[o] EXCEPT !.signedIn = TRUE].result = load[o].result
    BY <1>1 DEF LoadState
  <2>2. QED
    BY <1>1, <1>11, <2>1, SameStage
<1>12. CASE Leave(o)
  <2> DEFINE s == [load[o] EXCEPT !.aborted = TRUE]
  <2>1. /\ s \in LoadState /\ s.at = load[o].at /\ s.vendor = load[o].vendor
        /\ s.result = load[o].result
    BY <1>1 DEF LoadState
  <2>2. load' = [load EXCEPT ![o] = s]
    BY <1>12 DEF Leave
  <2> HIDE DEF s
  <2>3. QED
    BY <1>1, <2>1, <2>2, SameStage
<1>13. CASE TokenRefused(o)
  <2> DEFINE s == [load[o] EXCEPT !.retried = TRUE, !.signedIn = FALSE]
  <2>1. /\ s \in LoadState /\ s.at = load[o].at /\ s.vendor = load[o].vendor
        /\ s.result = load[o].result
    BY <1>1 DEF LoadState
  <2>2. load' = [load EXCEPT ![o] = s]
    BY <1>13 DEF TokenRefused
  <2> HIDE DEF s
  <2>3. QED
    BY <1>1, <2>1, <2>2, SameStage
<1>14. QED
  BY <1>6, <1>7, <1>8, <1>9, <1>10, <1>11, <1>12, <1>13 DEF SignIn

\* A call whose temporary file is gone had a twin.
LEMMA PublishKeeps ==
  ASSUME LoadInv, FilesInv, NEW o \in Ops, Publish(o)
  PROVE  LoadInv'
<1>1. /\ \A n \in Ops \ {o} : op'[n] = op[n]
      /\ op'[o].key = op[o].key /\ op'[o].proc = op[o].proc
      /\ op'[o].at \in {"stored", "threw"} /\ op[o].at = "renaming"
      /\ twins' = twins /\ FileTypeOK
  BY DEF Publish, Rename, At, FilesInv, FileTypeOK, OpState
<1>2. load[o].at = "loading"
  BY <1>1 DEF LoadInv
<1>3. CASE op'[o].at = "stored" /\ Delivered(o, "live")
  BY <1>1, <1>2, <1>3, DeliveredKeeps DEF Unopened
<1>4. CASE op'[o].at = "threw" /\ FallBack(o, "answered")
  <2>1. temp[op[o].key][op[o].proc] = None
    BY <1>1, <1>4 DEF Publish, Rename, At, TempOf, FileTypeOK, OpState
  <2>2. op[o].fd # None /\ Opened(o)
    BY <1>1, FilesAssumption DEF FilesInv, WritersApart, Opened, Inodes
  <2>3. <<op[o].key, op[o].proc>> \in twins
    BY <2>1, <2>2 DEF FilesInv, TwinsNoted, Undisturbed
  <2>4. ~ Unopened(o)'
    BY <1>4 DEF Unopened
  <2>5. QED
    BY <1>1, <1>4, <2>3, <2>4, FallBackKeeps
<1>5. QED
  BY <1>1, <1>3, <1>4 DEF Publish

LEMMA KilledKeeps ==
  ASSUME LoadInv, FileTypeOK, NEW p \in Procs, Killed(p)
  PROVE  LoadInv'
<1>1. /\ \A o \in Ops : op'[o] = IF op[o].proc = p /\ op[o].at # "idle"
                                   THEN [op[o] EXCEPT !.at = "over"] ELSE op[o]
      /\ \A o \in Ops : load'[o] = IF op[o].proc = p /\ Active(o)
                                     THEN [load[o] EXCEPT !.at = "done"] ELSE load[o]
      /\ load' = [o \in Ops |-> load'[o]] /\ twins' = twins
  BY DEF Killed, Crash
<1>2. ASSUME NEW o \in Ops
      PROVE  /\ load'[o] \in LoadState
             /\ load'[o].vendor = load[o].vendor /\ load'[o].result = load[o].result
             /\ load'[o].at = IF op[o].proc = p /\ Active(o) THEN "done" ELSE load[o].at
             /\ op'[o].key = op[o].key /\ op'[o].proc = op[o].proc
             /\ op'[o].at = IF op[o].proc = p /\ op[o].at # "idle" THEN "over" ELSE op[o].at
  <2>1. load[o] \in LoadState /\ op[o] \in OpState
    BY DEF LoadInv, FileTypeOK
  <2>2. LET s == [load[o] EXCEPT !.at = "done"]
        IN  s \in LoadState /\ s.at = "done" /\ s.vendor = load[o].vendor
              /\ s.result = load[o].result
    BY <2>1 DEF LoadState
  <2>3. LET s == [op[o] EXCEPT !.at = "over"]
        IN  s.at = "over" /\ s.key = op[o].key /\ s.proc = op[o].proc
    BY <2>1 DEF OpState
  <2>4. /\ load'[o] \in LoadState
        /\ load'[o].vendor = load[o].vendor /\ load'[o].result = load[o].result
        /\ load'[o].at = IF op[o].proc = p /\ Active(o) THEN "done" ELSE load[o].at
    BY <1>1, <2>1, <2>2
  <2>5. /\ op'[o].key = op[o].key /\ op'[o].proc = op[o].proc
        /\ op'[o].at = IF op[o].proc = p /\ op[o].at # "idle" THEN "over" ELSE op[o].at
    BY <1>1, <2>3
  <2>6. QED
    BY <2>4, <2>5
<1>3. load' \in [Ops -> LoadState]
  BY <1>1, <1>2
<1>4. ASSUME NEW o \in Ops
      PROVE  /\ load'[o].at # "done" => load'[o].result = "none"
             /\ op'[o].at \in {"judging", "deleting", "writing", "renaming"} =>
                  load'[o].at = "loading"
             /\ Unopened(o)' => load'[o].vendor # "answered"
             /\ load'[o].result \in {"stale", "failed", "empty"}
                  /\ load'[o].vendor = "answered" =>
                    <<op'[o].key, op'[o].proc>> \in twins'
  BY <1>1, <1>2 DEF LoadInv, FallbackIsExplained, Unopened, Active
<1>5. QED
  BY <1>3, <1>4 DEF LoadInv, FallbackIsExplained

LEMMA LoadsKeepInv ==
  ASSUME LoadInv, FilesInv, [Next]_vars
  PROVE  LoadInv'
<1>0. FileTypeOK
  BY DEF FilesInv
<1>1. ASSUME NEW o \in Ops, Delete(o) \/ Write(o), load' = load PROVE LoadInv'
  <2>0. PICK at : /\ op' = [op EXCEPT ![o].at = at] /\ twins' = twins
                  /\ \/ op[o].at = "deleting" /\ at = "caller"
                     \/ op[o].at = "writing" /\ at = "renaming"
    BY <1>1 DEF Delete, Write, At
  <2>1. /\ \A n \in Ops : op'[n].key = op[n].key /\ op'[n].proc = op[n].proc
        /\ \A n \in Ops \ {o} : op'[n].at = op[n].at
        /\ op'[o].at = at /\ twins' = twins
    BY <1>0, <2>0 DEF FileTypeOK, OpState
  <2>2. \A n \in Ops :
          /\ op'[n].at \in {"judging", "deleting", "writing", "renaming"} =>
               op[n].at \in {"judging", "deleting", "writing", "renaming"}
          /\ Unopened(n)' => Unopened(n)
    BY <2>0, <2>1 DEF Unopened
  <2>3. QED
    BY <1>1, <2>1, <2>2, NoLoadMoves
<1>2. ASSUME op' = op, twins' = twins, load' = load PROVE LoadInv'
  BY <1>2, NoLoadMoves DEF Unopened
<1>3. ASSUME NEW o \in Ops, LoadStep(o) PROVE LoadInv'
  BY <1>0, <1>1, <1>3, ReadKeeps, VendorKeeps, WaitingKeeps, PublishKeeps
  DEF LoadStep, Proceeds, loadVars
<1>4. ASSUME NEW p \in Prunes,
             PeriodicPrune(p) \/ (PruneStep(p) /\ UNCHANGED loadVars)
      PROVE  LoadInv'
  <2>1. op' = op /\ twins' = twins /\ load' = load
    BY <1>4 DEF PeriodicPrune, Prune, PruneStep, Relist, Choose, Pruned, Examine, Unlink,
                Weigh, loadVars
  <2>2. QED
    BY <1>2, <2>1
<1>5. CASE (Elapses /\ UNCHANGED loadVars) \/ UNCHANGED vars
  BY <1>2, <1>5 DEF Elapses, loadVars, vars, fileVars
<1>6. QED
  BY <1>0, <1>3, <1>4, <1>5, StartKeeps, KilledKeeps DEF Next

\* Whatever other processes, prunes and crashes do, a load whose vendor answered
\* does not report a failure or serve a stale copy, unless a twin in its own
\* process took its temporary file away (the adapters' catch blocks take a throwing
\* set for a failure of the vendor).
THEOREM FallbacksAreExplained == Spec => []FallbackIsExplained
<1>1. Init => FilesInv /\ LoadInv
  <2> SUFFICES ASSUME Init PROVE LoadInv
    BY FilesHoldAtFirst
  <2>1. load = [o \in Ops |->
                 [at |-> "idle", aborted |-> FALSE, vendor |-> "unasked",
                  signedIn |-> FALSE, retried |-> FALSE, result |-> "none"]]
    BY DEF Init
  <2>2. load \in [Ops -> LoadState]
    BY <2>1 DEF LoadState
  <2>3. \A o \in Ops : load[o].vendor = "unasked" /\ load[o].result = "none"
    BY <2>1
  <2>4. \A o \in Ops : op[o].at = "idle"
    BY DEF Init, FilesInit
  <2>5. QED
    BY <2>2, <2>3, <2>4 DEF LoadInv, FallbackIsExplained
<1>2. FilesInv /\ LoadInv /\ [Next]_vars => FilesInv' /\ LoadInv'
  <2>1. FilesInv /\ [Next]_vars => FilesMove
    BY LoadsMoveFiles DEF FilesInv
  <2>2. QED
    BY <2>1, MoveKeepsInv, LoadsKeepInv
<1>3. FilesInv /\ LoadInv => FallbackIsExplained
  BY DEF LoadInv
<1>4. QED
  BY <1>1, <1>2, <1>3, PTL DEF Spec

=============================================================================
