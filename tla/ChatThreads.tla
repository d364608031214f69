----------------------------- MODULE ChatThreads ----------------------------
(***************************************************************************)
(* The chat's conversations in the windows of one browser                  *)
(* (pwa/src/components/ChatView.tsx) and in its IndexedDB                  *)
(* (pwa/src/lib/chatHistory.ts), the only place where they are kept.       *)
(*                                                                         *)
(* Transactions of IndexedDB take effect in the order they are asked for,  *)
(* so one is applied when it is issued, and what it read is delivered      *)
(* later.  Any of them may fail, when the database does not open: then it  *)
(* finds nothing and keeps nothing, and nobody is told.                    *)
(*                                                                         *)
(* A window shows one thread, in a component of its own that is replaced   *)
(* when the thread changes.  It may be under way to several at a time: the *)
(* answers come in any order, since transactions that only read run side   *)
(* by side, and each replaces what is shown.  Of a reply, which arrives at *)
(* once, only the shopper's place is kept in mind, if it sets one.         *)
(***************************************************************************)
EXTENDS Integers, Sequences, SequencesExt, FiniteSets

CONSTANTS
  Windows,
  Threads,     \* bound: the conversations there are names for
  Places,      \* what set_chat_location is called with
  Slots,       \* bound: ways a window is going at a time
  MaxKept,     \* MAX_CONVERSATIONS
  MaxAsks,     \* bound: messages of the shopper
  MaxFailures  \* bound: transactions that fail

ASSUME ThreadsAssumption ==
  /\ MaxKept \in Nat \ {0} /\ {MaxAsks, MaxFailures} \subseteq Nat
  /\ "none" \notin Threads \cup Places

VARIABLES
  kept,        \* the threads in the store
  newer,       \* its index by updatedAt: which of them were saved after a thread
  saved,       \* the messages stored of each thread
  location,    \* the stored activeLocation
  window,
  used,        \* the conversation ids there have been
  failures,
  asks,
  everSaved,   \* history: what the shopper said that was stored, by thread
  excused,     \* history: the threads that have a reason to lack some of it
  erased,      \* history: what the shopper said and deleted, by thread, in the
               \* only window that had it
  erasedLoaded \* history: the same where that window was about to show it

store == <<kept, newer, saved>>
deletions == <<erased, erasedLoaded>>
history == <<everSaved, excused, deletions>>
vars == <<store, location, window, used, failures, asks, history>>

\* A way to a thread, or to a new one; found is what was loaded of it.
NoNav == [kind |-> "none", to |-> "none", found |-> <<>>]
Closed == [at |-> "closed", url |-> "none", visited |-> {}, bootTo |-> "none",
           thread |-> "none", messages |-> <<>>, dirty |-> FALSE, running |-> FALSE,
           abandoned |-> FALSE, place |-> "none", bootPlace |-> "none",
           nav |-> [i \in Slots |-> NoNav], pruning |-> FALSE, doomed |-> {}]

Message(from, n, place) == [from |-> from, n |-> n, place |-> place]
Said(messages) == {m \in ToSet(messages) : m.from = "user"}

Init ==
  /\ kept = {} /\ newer = [t \in Threads |-> {}]
  /\ saved = [t \in Threads |-> <<>>] /\ location = "none"
  /\ window = [w \in Windows |-> Closed]
  /\ used = {} /\ failures = 0 /\ asks = 0
  /\ everSaved = [t \in Threads |-> {}] /\ excused = {}
  /\ erased = [t \in Threads |-> {}] /\ erasedLoaded = [t \in Threads |-> {}]

\* Whether a transaction succeeds; the database may not answer open() in time.
Transacts(up) == failures' = failures + (IF up THEN 0 ELSE 1) /\ failures' <= MaxFailures

\* The newest of those listed, or none.
Newest(list) == IF list = {} THEN {"none"} ELSE {t \in list : newer[t] = {}}

\* A window has something of a thread that it is about to show.
HasLoaded(w, t) ==
  \E i \in Slots : window[w].nav[i].to = t /\ window[w].nav[i].found # <<>>

ShownElsewhere(w, t) == \E v \in Windows \ {w} : window[v].thread = t

-----------------------------------------------------------------------------
(* Writing.                                                                *)

\* persist: an empty or abandoned thread, or one without news, is not written.
Persists(r) == ~ r.abandoned /\ r.messages # <<>> /\ r.dirty

\* saveConversation, which is told to prune once the record is in.
Save(t, messages) ==
  /\ kept' = kept \cup {t}
  /\ newer' = [s \in Threads |-> IF s \in kept \ {t} THEN newer[s] \cup {t} ELSE {}]
  /\ saved' = [saved EXCEPT ![t] = messages]
  /\ everSaved' = [everSaved EXCEPT ![t] = @ \cup Said(messages)]

\* deleteConversation, and what prune does with several.
Forget(gone) ==
  /\ kept' = kept \ gone
  /\ newer' = [t \in Threads |-> IF t \in gone THEN {} ELSE newer[t] \ gone]
  /\ saved' = [t \in Threads |-> IF t \in gone THEN <<>> ELSE saved[t]]
  /\ excused' = excused \cup gone

\* What is left of a component once it has tried to write.
Written(r, up) ==
  [r EXCEPT !.dirty = @ /\ ~ Persists(r), !.pruning = @ \/ (Persists(r) /\ up)]

\* The store after persist of a component that shows thread t.
PersistAs(t, r, up) ==
  IF Persists(r) /\ up THEN Save(t, r.messages) ELSE UNCHANGED <<store, everSaved>>

\* The debounce ends, or the page is hidden.
Flush(w) ==
  LET r == window[w]
  IN  /\ r.at = "open" /\ Persists(r)
      /\ \E up \in BOOLEAN :
           /\ Transacts(up) /\ PersistAs(r.thread, r, up)
           /\ window' = [window EXCEPT ![w] = Written(r, up)]
      /\ UNCHANGED <<location, used, asks, excused, deletions>>

\* prune lists the keys in one transaction and deletes them in another.
ListForPrune(w) ==
  /\ window[w].pruning
  /\ window' = [window EXCEPT
       ![w].pruning = FALSE,
       ![w].doomed = @ \cup {t \in kept : Cardinality(newer[t]) >= MaxKept}]
  /\ UNCHANGED <<store, location, used, failures, asks, history>>

Prune(w) ==
  /\ window[w].doomed # {} /\ Forget(window[w].doomed)
  /\ window' = [window EXCEPT ![w].doomed = {}]
  /\ UNCHANGED <<location, used, failures, asks, everSaved, deletions>>

-----------------------------------------------------------------------------
(* Showing a thread.                                                       *)

\* The place the newest set_chat_location of a thread named.
PlaceIn(messages) ==
  LET named == SelectSeq(messages, LAMBDA m : m.place # "none")
  IN  IF named = <<>> THEN "none" ELSE Last(named).place

\* The effect that watches the messages: what they name is the place now, and
\* is stored if it is not the component's already.
Watched(r) ==
  IF PlaceIn(r.messages) = "none" THEN r ELSE [r EXCEPT !.place = PlaceIn(r.messages)]
Placed(before, r) ==
  location' = IF r.place # before /\ PlaceIn(r.messages) = r.place THEN r.place ELSE location

\* A component is mounted for a thread and what was loaded of it.
Mounted(r, t, messages) ==
  [r EXCEPT !.at = "open", !.thread = t, !.messages = messages, !.dirty = FALSE,
            !.running = FALSE, !.abandoned = FALSE, !.place = r.bootPlace]

\* history: another window that shows a thread may overwrite what this one
\* says, and so may this one if its load of the thread failed, or was overtaken
\* by a write.
Excuses(w, t, messages) ==
  excused' = excused \cup {s \in {t} : \/ ShownElsewhere(w, s)
                                     \/ ~ (Said(saved[s]) \subseteq Said(messages))}

Fresh(t) == t \in Threads \ used

\* boot: the thread of the URL if there is one in the store, or the newest.
Launch(w) ==
  /\ window[w].at = "closed"
  /\ \E up \in BOOLEAN :
       LET list == IF up THEN kept ELSE {}
           url == window[w].url
       IN  /\ Transacts(up)
           /\ \E t \in IF url \in list THEN {url} ELSE Newest(list) :
                window' = [window EXCEPT ![w] = [Closed EXCEPT
                  !.at = "booting", !.url = url,
                  !.bootPlace = IF up THEN location ELSE "none", !.bootTo = t]]
  /\ UNCHANGED <<store, location, used, asks, history>>

Boot(w) ==
  LET r == window[w]
      t == r.bootTo
  IN  /\ r.at = "booting"
      /\ \E up \in BOOLEAN, next \in Threads :
           LET found == IF up /\ t # "none" THEN saved[t] ELSE <<>>
               m == Watched(Mounted([r EXCEPT !.bootTo = "none"], next, found))
           IN  /\ Transacts(up)
               /\ IF found # <<>> THEN next = t ELSE Fresh(next)
               /\ window' = [window EXCEPT ![w] = m]
               /\ Placed(r.bootPlace, m) /\ Excuses(w, next, found)
               /\ used' = used \cup {next}
      /\ UNCHANGED <<store, asks, everSaved, deletions>>

-----------------------------------------------------------------------------
(* Talking.                                                                *)

News(r, messages, running) ==
  [r EXCEPT !.messages = messages, !.dirty = TRUE, !.running = running]

Ask(w) ==
  LET r == window[w]
  IN  /\ r.at = "open" /\ ~ r.running /\ asks < MaxAsks
      /\ asks' = asks + 1
      /\ window' = [window EXCEPT ![w] =
           News(r, Append(r.messages, Message("user", asks, "none")), TRUE)]
      /\ UNCHANGED <<store, location, used, failures, history>>

Reply(w) ==
  LET r == window[w]
  IN  /\ r.running
      /\ \E p \in Places \cup {"none"} :
           LET told == IF p = "none" THEN <<>> ELSE <<Message("model", 0, p)>>
               m == Watched(News(r, r.messages \o told, FALSE))
           IN  window' = [window EXCEPT ![w] = m] /\ Placed(r.place, m)
      /\ UNCHANGED <<store, used, failures, asks, history>>

\* A turn that ends without a reply may be tried again, and so may one with one.
Fail(w) ==
  /\ window[w].running
  /\ window' = [window EXCEPT ![w].running = FALSE]
  /\ UNCHANGED <<store, location, used, failures, asks, history>>

Regenerate(w) ==
  LET r == window[w]
  IN  /\ r.at = "open" /\ ~ r.running /\ r.messages # <<>>
      /\ window' = [window EXCEPT ![w] =
           News(r, IF Last(r.messages).from = "model" THEN Front(r.messages) ELSE r.messages, TRUE)]
      /\ UNCHANGED <<store, location, used, failures, asks, history>>

-----------------------------------------------------------------------------
(* Going from thread to thread.                                            *)

\* openConversation has asked for what there is of thread t.
Found(t, up) == IF up /\ t # "none" THEN saved[t] ELSE <<>>
Going(kind, t, up) == [kind |-> kind, to |-> t, found |-> Found(t, up)]
Goes(r, i, nav) == [r EXCEPT !.nav[i] = nav]
Free(r, i) == r.nav[i] = NoNav

\* leave: the stream is stopped; the debounce it clears wrote nothing else.
Left(r) == [r EXCEPT !.running = FALSE]

\* selectConversation and startNewConversation; to "none" starts a new one.
Select(w, t) ==
  LET r == Left(window[w])
  IN  /\ r.at = "open" /\ t # r.thread
      /\ t = "none" => r.messages # <<>>
      /\ \E up \in BOOLEAN, i \in Slots :
           /\ Free(r, i)
           /\ Transacts(up) /\ PersistAs(r.thread, r, up)
           /\ window' = [window EXCEPT ![w] = Goes(Written(r, up), i, Going("select", t, up))]
      /\ UNCHANGED <<location, used, asks, excused, deletions>>

\* handlePopState: the component on screen is not left first, and stays if the
\* URL names its thread.  (It stays too at an entry that names none.)
Back(w) ==
  LET r == window[w]
  IN  /\ r.at = "open"
      /\ \E t \in r.visited :
           LET there == [r EXCEPT !.url = t]
           IN  IF t = r.thread
                 THEN window' = [window EXCEPT ![w] = there] /\ UNCHANGED failures
                 ELSE \E up \in BOOLEAN, i \in Slots :
                        /\ Free(r, i) /\ Transacts(up)
                        /\ window' = [window EXCEPT ![w] = Goes(there, i, Going("back", t, up))]
      /\ UNCHANGED <<store, location, used, asks, history>>

\* Mutant: the thread that is deleted is not marked.
Unmarked(r, t) == IF t = r.thread THEN Left(r) ELSE r

\* removeConversation of the thread on screen lets nothing of it be written.
Abandoned(r, t) == IF t = r.thread THEN [Left(r) EXCEPT !.abandoned = TRUE] ELSE r

\* history: what is deleted is what is stored and what is on screen, if no other
\* window has the thread.
Erases(w, t) ==
  LET r == window[w]
      gone == Said(saved[t]) \cup (IF t = r.thread THEN Said(r.messages) ELSE {})
      plus(f) == [f EXCEPT ![t] = @ \cup gone]
  IN  CASE ShownElsewhere(w, t) \/ (\E v \in Windows \ {w} : HasLoaded(v, t)) ->
             UNCHANGED deletions
        [] HasLoaded(w, t) -> erasedLoaded' = plus(erasedLoaded) /\ UNCHANGED erased
        [] OTHER -> erased' = plus(erased) /\ UNCHANGED erasedLoaded

Delete(w, t) ==
  LET r == Abandoned(window[w], t)
  IN  /\ r.at = "open" /\ (t = r.thread /\ r.messages = <<>> => t \in kept)
      /\ \E up \in BOOLEAN :
           /\ Transacts(up)
           /\ IF up THEN Forget({t}) /\ Erases(w, t)
                    ELSE UNCHANGED <<store, excused, deletions>>
      /\ IF t = r.thread
           THEN \E i \in Slots :
                  /\ Free(r, i)
                  /\ window' = [window EXCEPT ![w] = Goes(r, i, [NoNav EXCEPT !.kind = "removed"])]
           ELSE window' = window
      /\ UNCHANGED <<location, used, asks, everSaved>>

\* The thread shown after one that was deleted is the newest there is: it is
\* looked for, and then loaded.
Relist(w, i) ==
  /\ window[w].nav[i].kind = "removed"
  /\ \E up \in BOOLEAN :
       \E t \in Newest(IF up THEN kept ELSE {}) :
           /\ Transacts(up)
           /\ window' = [window EXCEPT ![w] = Goes(@, i, [NoNav EXCEPT !.kind = "listed", !.to = t])]
  /\ UNCHANGED <<store, location, used, asks, history>>

LoadNewest(w, i) ==
  LET nav == window[w].nav[i]
  IN  /\ nav.kind = "listed"
      /\ \E up \in BOOLEAN :
           /\ Transacts(up)
           /\ window' = [window EXCEPT ![w] = Goes(@, i, Going("select", nav.to, up))]
      /\ UNCHANGED <<store, location, used, asks, history>>

\* Mutant: what the debounce held is written to the thread that comes.
TheNext(r, next) == next

\* The unmounted component writes to the thread it was mounted for.
TheLast(r, next) == r.thread

\* pushConversationIdToUrl.
Pushed(r, next) == [r EXCEPT !.url = next, !.visited = (@ \cup {r.url, next}) \ {"none"}]

\* What was loaded is shown: a thread that was not found is a new one, except
\* on the way back.  The component on screen stays if it shows that thread.
Land(w, i) ==
  LET r == window[w]
      nav == r.nav[i]
      here == Goes(r, i, NoNav)
  IN  /\ nav.kind \in {"select", "back"}
      /\ \E up \in BOOLEAN, next \in Threads :
           LET url == IF nav.kind = "back" THEN here ELSE Pushed(here, next)
               m == Watched(Mounted(Written(url, up), next, nav.found))
           IN  /\ IF nav.kind = "back" \/ nav.found # <<>> THEN next = nav.to ELSE Fresh(next)
               /\ used' = used \cup {next}
               /\ IF next = r.thread
                    THEN /\ window' = [window EXCEPT ![w] = url]
                         /\ up /\ UNCHANGED <<store, location, failures, everSaved, excused>>
                    ELSE /\ Transacts(up) /\ PersistAs(TheLast(r, next), r, up)
                         /\ window' = [window EXCEPT ![w] = m]
                         /\ Placed(r.bootPlace, m) /\ Excuses(w, next, nav.found)
      /\ UNCHANGED <<asks, deletions>>

\* A window that is hidden writes what it has and may then be ended.
Close(w) ==
  LET r == window[w]
  IN  /\ r.at = "open"
      /\ \E up \in BOOLEAN : Transacts(up) /\ PersistAs(r.thread, r, up)
      /\ window' = [window EXCEPT ![w] = [Closed EXCEPT !.url = r.url]]
      /\ UNCHANGED <<location, used, asks, excused, deletions>>

Next ==
  \E w \in Windows :
    \/ Launch(w) \/ Boot(w) \/ Ask(w) \/ Reply(w) \/ Fail(w) \/ Regenerate(w)
    \/ Flush(w) \/ ListForPrune(w) \/ Prune(w) \/ Close(w)
    \/ \E t \in used \cup {"none"} : Select(w, t)
    \/ \E t \in used : Delete(w, t)
    \/ Back(w)
    \/ \E i \in Slots : Relist(w, i) \/ LoadNewest(w, i) \/ Land(w, i)

Spec == Init /\ [][Next]_vars

-----------------------------------------------------------------------------

\* What the shopper said and was once stored stays stored, through all changes
\* of threads and however they overlap, until the thread is deleted or pruned,
\* unless another window shows the thread too, or it was shown from a load that
\* failed or that a write overtook.
LostForAReason ==
  \A t \in Threads : everSaved[t] \subseteq Said(saved[t]) \/ t \in excused

\* Nothing of a deleted thread that its window still held, on screen, in the
\* debounce or in a stream, is stored again (abandonedRef, leave).  It is not
\* said of a thread that was being loaded when it was deleted: see
\* DeletedIsGone.
DeletedStaysDeleted == \A t \in Threads : Said(saved[t]) \cap erased[t] = {}

\* "the pending debounce would write the conversation back out, resurrecting a
\* record the user just deleted" (ChatView.tsx:598-604) is what must not be.
\* The code lets it be when the thread is on its way to the screen: what was
\* loaded before is mounted after, not abandoned, and the next write stores it.
DeletedIsGone ==
  \A t \in Threads : Said(saved[t]) \cap (erased[t] \cup erasedLoaded[t]) = {}

\* "Deliberately **global** ... scoping it per thread would silently revert the
\* active location when they opened an older conversation"
\* (chatHistory.ts:286-291): the place a chat goes by is the stored one.  The
\* code reverts it: a component that is mounted for another thread starts with
\* the place that was stored when the page was loaded, or with the one its own
\* messages name.
LocationIsGlobal == \A w \in Windows : window[w].at = "open" => window[w].place = location

=============================================================================
