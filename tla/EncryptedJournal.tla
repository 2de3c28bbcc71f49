--------------------------- MODULE EncryptedJournal ---------------------------
(***************************************************************************)
(* The cloud-authoritative journal of storage/encrypted-object-journal.ts: *)
(* one conversation kept as immutable event segments plus one small head   *)
(* object, in an object store that offers get, putIfAbsent,                *)
(* compareAndSwap and trash.  Pages (clients) share nothing but the store. *)
(*                                                                         *)
(* Every call to the store is a step of its own, so the awaits of          *)
(* createSession, append, readEvents, deleteSession, finishDeletion and    *)
(* reclaimUncommittedSegment interleave freely between pages.  A write     *)
(* that throws may have been applied or not, a reclamation may be partial, *)
(* and a page may close at any await.                                      *)
(*                                                                         *)
(* Abstractions.  A digest chains over all earlier events, so a head's     *)
(* (sequence, digest) is represented by the log itself; one modelled event *)
(* is one appended batch, which is sealed into one segment.  An ETag       *)
(* identifies the bytes it was computed from, so a compare-and-swap        *)
(* compares whole heads.  A segment reference carries key, ETag and        *)
(* digests; it is equal to the segment it names exactly when loadSegment's *)
(* checks pass.  Sealing and opening envelopes are left out.               *)
(***************************************************************************)
EXTENDS Naturals, FiniteSets, SequencesExt

CONSTANTS Clients,          \* pages holding a backend over the same store
          Tokenless,        \* the pages whose callers hold no incarnation token
          Events,           \* event batches a caller may append
          MaxSegments,      \* MAX_SEGMENTS_PER_SESSION
          TrashBatch,       \* MAX_SEGMENT_TRASH_BATCH
          CreateAttempts,   \* attempts of createSession's restore loop
          AbsentReclaimed,  \* trash confirms a key that is already gone
          IndexCache,       \* get may answer from a cached index of the store
          LegacyCleanup,    \* an older release may remove a completed marker
          MaxIds,           \* bound: random IDs drawn per page
          MaxFaults         \* bound: store failures and page crashes

ASSUME JournalAssumption ==
  /\ Tokenless \subseteq Clients
  /\ MaxSegments \in Nat \ {0} /\ TrashBatch \in Nat \ {0}
  /\ CreateAttempts \in Nat \ {0} /\ MaxIds \in Nat /\ MaxFaults \in Nat
  /\ AbsentReclaimed \in BOOLEAN /\ IndexCache \in BOOLEAN
  /\ LegacyCleanup \in BOOLEAN

VARIABLES
  head,       \* the object under the session's head key
  store,      \* the segment objects that exist
  pc,         \* where each page is inside a backend call
  op,         \* the call finishDeletion returns to
  known,      \* the JournalHead the page's caller last read or was returned
  loaded,     \* the head record the call loaded, ETag included
  mine,       \* the segment this append attempt owns
  todo,       \* segments still to read, or still to trash
  tries,      \* attempt counter of the restore loop
  seq,        \* random IDs drawn by each page
  cache,      \* the page's cached index of the store
  faults,     \* failures so far
  published,  \* history: segments some committed head has referenced
  retired     \* history: incarnations whose deletion committed

storeVars == <<head, store>>
callVars  == <<pc, op, known, loaded, mine, todo, tries, seq>>
histVars  == <<published, retired>>
vars      == <<storeVars, callVars, cache, faults, histVars>>
-------------------------------------------------------------------------------
NoId == <<>>
Id == Clients \X (1..MaxIds)

Absent ==
  [status |-> "absent", inc |-> NoId, fence |-> FALSE, log |-> << >>,
   segments |-> {}, deletion |-> NoId, complete |-> FALSE]

\* The head createSession installs.
FreshHead(id, fence) ==
  [Absent EXCEPT !.status = "active", !.inc = id, !.fence = fence]

\* The head an append publishes: one more reference, a longer log.
Extended(h, segment) ==
  [h EXCEPT !.log = segment.log, !.segments = @ \cup {segment}]

\* The deletion marker keeps the head's digest and every segment key.
Tombstone(h, id) ==
  [h EXCEPT !.status = "deleted", !.fence = FALSE, !.deletion = id]

\* The compact marker that makes the ID reusable.
Completed(h) == [h EXCEPT !.complete = TRUE, !.segments = {}]

\* parseHead: the segments chain from genesis to the head, within the limit.
ParsesHead(h) ==
  /\ \A n \in 1..Len(h.log) : \E s \in h.segments : s.log = SubSeq(h.log, 1, n)
  /\ Cardinality(h.segments) = Len(h.log)
  /\ Cardinality(h.segments) <= MaxSegments

\* publicSession: what a caller is shown.
NoHead == [inc |-> NoId, log |-> << >>]
PublicHead(h) ==
  IF h.status = "active" THEN [inc |-> h.inc, log |-> h.log] ELSE NoHead

NoSegment == [key |-> NoId, log |-> << >>]

NoCache == [cached |-> FALSE, head |-> Absent, store |-> {}]
Snapshot == [cached |-> TRUE, head |-> head, store |-> store]

\* What get answers: on Google Drive the index may be up to a TTL old.
ViewHead(c) == IF cache[c].cached THEN cache[c].head ELSE head
ViewStore(c) == IF cache[c].cached THEN cache[c].store ELSE store
-------------------------------------------------------------------------------
Init ==
  /\ head = Absent /\ store = {}
  /\ pc = [c \in Clients |-> "idle"]
  /\ op = [c \in Clients |-> "none"]
  /\ known = [c \in Clients |-> NoHead]
  /\ loaded = [c \in Clients |-> Absent]
  /\ mine = [c \in Clients |-> NoSegment]
  /\ todo = [c \in Clients |-> {}]
  /\ tries = [c \in Clients |-> 0]
  /\ seq = [c \in Clients |-> 0]
  /\ cache = [c \in Clients |-> NoCache]
  /\ faults = 0
  /\ published = {} /\ retired = {}

\* The call returns or throws: its locals are gone.
Leave(c) ==
  /\ pc' = [pc EXCEPT ![c] = "idle"]
  /\ op' = [op EXCEPT ![c] = "none"]
  /\ loaded' = [loaded EXCEPT ![c] = Absent]
  /\ mine' = [mine EXCEPT ![c] = NoSegment]
  /\ todo' = [todo EXCEPT ![c] = {}]
  /\ tries' = [tries EXCEPT ![c] = 0]

Goto(c, label) == pc' = [pc EXCEPT ![c] = label]

\* randomUuid: the k-th ID a page draws in a call.
DrawIds(c, k) == seq[c] + k <= MaxIds /\ seq' = [seq EXCEPT ![c] = @ + k]
NewId(c) == <<c, seq[c] + 1>>

Fault == faults < MaxFaults /\ faults' = faults + 1
NoFault == UNCHANGED faults

\* Every write reloads the index and drops the cached one.
DropCache(c) == cache' = [cache EXCEPT ![c] = NoCache]

(***************************************************************************)
(* A write that throws before its answer drops the cache only when it      *)
(* starts, so a read of the same page can have refilled it in between with *)
(* the state before the write.                                             *)
(***************************************************************************)
CacheAfterThrow(c) ==
  \/ DropCache(c)
  \/ IndexCache /\ cache' = [cache EXCEPT ![c] = Snapshot]

\* compareAndSwap of the head key against the record this call loaded.
CasUpdated(c, new) == head = loaded[c] /\ head' = new
CasRefused(c) == head # loaded[c] /\ UNCHANGED head
CasThrows(c, new) == head' = head \/ CasUpdated(c, new)

\* Without a token the fence only opens before an ID has been reused.
NoFence(c, h) == TRUE
MatchesIncarnationFence(c, h) ==
  IF c \in Tokenless THEN ~h.fence ELSE known[c].inc = h.inc

\* The sequence, digest and fence checks of append and deleteSession.
MatchesHead(c, h) ==
  known[c].inc # NoId /\ known[c].log = h.log /\ MatchesIncarnationFence(c, h)
-------------------------------------------------------------------------------
(* getSession and listSessions: one read of the head key. *)

GetSession(c) ==
  /\ pc[c] = "idle"
  /\ known' = [known EXCEPT ![c] = PublicHead(ViewHead(c))]
  /\ UNCHANGED <<storeVars, pc, op, loaded, mine, todo, tries, seq, cache, faults, histVars>>
-------------------------------------------------------------------------------
(* append *)

\* The segment one attempt seals, under a key no other attempt can own.
AttemptSegment(c, e) == [key |-> NewId(c), log |-> Append(known[c].log, e)]

\* Load the head; an unknown session or a moved head refuses and leaves no trace.
AppendLoad(c) ==
  /\ pc[c] = "idle"
  /\ ViewHead(c).status = "active" /\ MatchesHead(c, ViewHead(c))
  /\ \E e \in Events : mine' = [mine EXCEPT ![c] = AttemptSegment(c, e)]
  /\ DrawIds(c, 1)
  /\ loaded' = [loaded EXCEPT ![c] = ViewHead(c)]
  /\ Goto(c, "appendPut")
  /\ UNCHANGED <<storeVars, op, known, todo, tries, cache, faults, histVars>>

\* putIfAbsent of this attempt's own segment key.
AppendPut(c) ==
  /\ pc[c] = "appendPut"
  /\ store' = store \cup {mine[c]}
  /\ Goto(c, "appendCas")
  /\ DropCache(c)
  /\ UNCHANGED <<head, op, known, loaded, mine, todo, tries, seq, faults, histVars>>

\* The put throws: the object may exist, so the attempt cleans up after itself.
AppendPutThrows(c) ==
  /\ pc[c] = "appendPut" /\ Fault
  /\ store' \in {store, store \cup {mine[c]}}
  /\ Goto(c, "reclaim")
  /\ CacheAfterThrow(c)
  /\ UNCHANGED <<head, op, known, loaded, mine, todo, tries, seq, histVars>>

\* The caller's signal: before the put nothing is owned, after it the segment is.
AppendAbort(c) ==
  /\ \/ pc[c] = "appendPut" /\ Leave(c)
     \/ pc[c] = "appendCas" /\ Goto(c, "reclaim") /\ UNCHANGED <<op, loaded, mine, todo, tries>>
  /\ UNCHANGED <<storeVars, known, seq, cache, faults, histVars>>

\* The segment limit is checked after the segment is stored.
UnderLimit(c) == Cardinality(loaded[c].segments) < MaxSegments

AppendOverLimit(c) ==
  /\ pc[c] = "appendCas" /\ ~UnderLimit(c)
  /\ Goto(c, "reclaim")
  /\ UNCHANGED <<storeVars, op, known, loaded, mine, todo, tries, seq, cache, faults, histVars>>

\* The head compare-and-swap, the append's linearization point.
AppendCas(c) ==
  /\ pc[c] = "appendCas" /\ UnderLimit(c)
  /\ LET next == Extended(loaded[c], mine[c])
     IN  /\ CasUpdated(c, next)
         /\ known' = [known EXCEPT ![c] = PublicHead(next)]
  /\ published' = published \cup {mine[c]}
  /\ Leave(c)
  /\ DropCache(c)
  /\ UNCHANGED <<store, seq, faults, retired>>

\* Losing the race; the caller is told of a conflict.
AppendCasUnchecked(c) ==
  /\ pc[c] = "appendCas" /\ UnderLimit(c) /\ CasRefused(c)
  /\ known' = [known EXCEPT ![c] = PublicHead(Extended(loaded[c], mine[c]))]
  /\ Leave(c)
  /\ DropCache(c)
  /\ UNCHANGED <<store, seq, faults, histVars>>

AppendCasRefused(c) ==
  /\ pc[c] = "appendCas" /\ UnderLimit(c) /\ CasRefused(c)
  /\ Goto(c, "reclaim")
  /\ DropCache(c)
  /\ UNCHANGED <<store, op, known, loaded, mine, todo, tries, seq, faults, histVars>>

AppendCasThrows(c) ==
  /\ pc[c] = "appendCas" /\ UnderLimit(c) /\ Fault
  /\ CasThrows(c, Extended(loaded[c], mine[c]))
  /\ published' = IF head' = head THEN published ELSE published \cup {mine[c]}
  /\ Goto(c, "reclaim")
  /\ CacheAfterThrow(c)
  /\ UNCHANGED <<store, op, known, loaded, mine, todo, tries, seq, retired>>
-------------------------------------------------------------------------------
(* reclaimUncommittedSegment *)

\* The head, loaded again, names this attempt's segment.
AssumeLost(c) == FALSE
StillReferenced(c) == ViewHead(c).status = "active" /\ mine[c] \in ViewHead(c).segments

\* A segment an active head names is left alone.
ReclaimCheck(c) ==
  /\ pc[c] = "reclaim"
  /\ IF StillReferenced(c)
     THEN Leave(c)
     ELSE Goto(c, "reclaimTrash") /\ UNCHANGED <<op, loaded, mine, todo, tries>>
  /\ UNCHANGED <<storeVars, known, seq, cache, faults, histVars>>

\* Verify the attempt's bytes are there, trash the key; failures are swallowed.
ReclaimTrash(c) ==
  /\ pc[c] = "reclaimTrash"
  /\ \/ NoFault /\ store' = IF mine[c] \in ViewStore(c) THEN store \ {mine[c]} ELSE store
     \/ Fault /\ store' = store
  /\ Leave(c)
  /\ DropCache(c)
  /\ UNCHANGED <<head, known, seq, histVars>>
-------------------------------------------------------------------------------
(* deleteSession *)

\* An absent session, a completed marker or a moved head ends the call here.
DeleteLoad(c) ==
  /\ pc[c] = "idle"
  /\ LET h == ViewHead(c)
     IN  /\ \/ /\ h.status = "deleted" /\ ~h.complete
               /\ Goto(c, "sweep")
               /\ todo' = [todo EXCEPT ![c] = h.segments]
               /\ UNCHANGED seq
            \/ /\ h.status = "active" /\ MatchesHead(c, h)
               /\ Goto(c, "deleteCas")
               /\ DrawIds(c, 1)
               /\ UNCHANGED todo
         /\ loaded' = [loaded EXCEPT ![c] = h]
  /\ op' = [op EXCEPT ![c] = "delete"]
  /\ UNCHANGED <<storeVars, known, mine, tries, cache, faults, histVars>>

\* The marker this call would write; its deletionId is the ID drawn by the load.
Marker(c) == Tombstone(loaded[c], <<c, seq[c]>>)

\* The tombstone compare-and-swap, the deletion's linearization point.
DeleteCas(c) ==
  /\ pc[c] = "deleteCas"
  /\ CasUpdated(c, Marker(c))
  /\ loaded' = [loaded EXCEPT ![c] = Marker(c)]
  /\ todo' = [todo EXCEPT ![c] = loaded[c].segments]
  /\ retired' = retired \cup {loaded[c].inc}
  /\ Goto(c, "sweep")
  /\ DropCache(c)
  /\ UNCHANGED <<store, op, known, mine, tries, seq, faults, published>>

\* A refused compare-and-swap, or the caller's signal just before it.
DeleteRefused(c) ==
  /\ pc[c] = "deleteCas"
  /\ (head # loaded[c] /\ DropCache(c)) \/ UNCHANGED cache
  /\ Leave(c)
  /\ UNCHANGED <<storeVars, known, seq, faults, histVars>>

DeleteThrows(c) ==
  /\ pc[c] = "deleteCas" /\ Fault
  /\ CasThrows(c, Marker(c))
  /\ retired' = IF head' = head THEN retired ELSE retired \cup {loaded[c].inc}
  /\ Leave(c)
  /\ CacheAfterThrow(c)
  /\ UNCHANGED <<store, known, seq, published>>
-------------------------------------------------------------------------------
(* finishDeletion *)

\* One trash call per batch of keys.
Batches(c) ==
  {b \in SUBSET todo[c] :
     Cardinality(b) = IF Cardinality(todo[c]) < TrashBatch THEN Cardinality(todo[c]) ELSE TrashBatch}

\* hasConfirmedReclamation: every key of the batch has a receipt.
Confirmable(batch) == AbsentReclaimed \/ batch \subseteq store

SweepBatch(c) ==
  /\ pc[c] = "sweep" /\ todo[c] # {}
  /\ \E batch \in Batches(c) :
       /\ Confirmable(batch)
       /\ store' = store \ batch
       /\ todo' = [todo EXCEPT ![c] = @ \ batch]
  /\ DropCache(c)
  /\ UNCHANGED <<head, pc, op, known, loaded, mine, tries, seq, faults, histVars>>

\* The store's trash without a receipt for every key, or throwing part-way.
TrashUnconfirmed(batch) ==
  \/ ~Confirmable(batch) /\ NoFault /\ store' = store \ batch
  \/ Fault /\ \E removed \in SUBSET batch : store' = store \ removed

\* An unconfirmed batch gives up: cleanup needed.
SweepUnconfirmed(c) ==
  /\ pc[c] = "sweep" /\ todo[c] # {}
  /\ \E batch \in Batches(c) : TrashUnconfirmed(batch)
  /\ Leave(c)
  /\ DropCache(c)
  /\ UNCHANGED <<head, known, seq, histVars>>

\* finishDeletion returns to deleteSession or to createSession's loop.
Finished(c) ==
  IF op[c] = "create"
  THEN /\ Goto(c, "createGet")
       /\ loaded' = [loaded EXCEPT ![c] = Absent]
       /\ UNCHANGED <<op, mine, todo, tries>>
  ELSE Leave(c)

\* Retire the marker last; losing this compare-and-swap is harmless.
Retire(c) ==
  /\ pc[c] = "sweep" /\ todo[c] = {}
  /\ CasUpdated(c, Completed(loaded[c])) \/ CasRefused(c)
  /\ Finished(c)
  /\ DropCache(c)
  /\ UNCHANGED <<store, known, seq, faults, histVars>>

RetireThrows(c) ==
  /\ pc[c] = "sweep" /\ todo[c] = {} /\ Fault
  /\ CasThrows(c, Completed(loaded[c]))
  /\ Leave(c)
  /\ CacheAfterThrow(c)
  /\ UNCHANGED <<store, known, seq, histVars>>
-------------------------------------------------------------------------------
(* createSession *)

\* Both candidate heads are sealed first; the first one is for an unused ID.
CreatePut(c) ==
  /\ pc[c] = "idle" /\ DrawIds(c, 2)
  /\ \/ /\ head.status = "absent"
        /\ head' = FreshHead(NewId(c), FALSE)
        /\ UNCHANGED <<pc, op>>
     \/ /\ head.status # "absent"
        /\ UNCHANGED head
        /\ Goto(c, "createGet")
        /\ op' = [op EXCEPT ![c] = "create"]
  /\ DropCache(c)
  /\ UNCHANGED <<store, known, loaded, mine, todo, tries, faults, histVars>>

CreatePutThrows(c) ==
  /\ pc[c] = "idle" /\ DrawIds(c, 2) /\ Fault
  /\ \/ head.status = "absent" /\ head' = FreshHead(NewId(c), FALSE)
     \/ UNCHANGED head
  /\ CacheAfterThrow(c)
  /\ UNCHANGED <<store, pc, op, known, loaded, mine, todo, tries, histVars>>

AttemptsLeft(c) == tries[c] < CreateAttempts

\* What the restore loop does with an ID no active session holds.
RestoreAnyMarker(h) == IF h.status = "absent" THEN "createPut" ELSE "createCas"
RestoreStep(h) ==
  CASE h.status = "absent" -> "createPut"
    [] h.status = "deleted" /\ h.complete -> "createCas"
    [] OTHER -> "sweep"

\* One turn of the restore loop: look at what holds the ID.
CreateGet(c) ==
  /\ pc[c] = "createGet" /\ AttemptsLeft(c)
  /\ LET h == ViewHead(c)
     IN  \/ h.status = "active" /\ Leave(c)
         \/ /\ h.status # "active"
            /\ Goto(c, RestoreStep(h))
            /\ loaded' = [loaded EXCEPT ![c] = h]
            /\ todo' = [todo EXCEPT ![c] = h.segments]
            /\ tries' = [tries EXCEPT ![c] = @ + 1]
            /\ UNCHANGED <<op, mine>>
  /\ UNCHANGED <<storeVars, known, seq, cache, faults, histVars>>

\* The loop's attempts are used up: JournalConflictError.
CreateGivesUp(c) ==
  /\ pc[c] = "createGet" /\ ~AttemptsLeft(c)
  /\ Leave(c)
  /\ UNCHANGED <<storeVars, known, seq, cache, faults, histVars>>

\* Reusing an occupied ID requires the incarnation token from then on.
RestoredAsBefore(c) == FreshHead(loaded[c].inc, TRUE)
Restored(c) == FreshHead(<<c, seq[c]>>, TRUE)

\* putIfAbsent (the loaded head is then Absent) or compareAndSwap of the marker.
CreateRestore(c) ==
  /\ pc[c] \in {"createPut", "createCas"}
  /\ \/ CasUpdated(c, Restored(c)) /\ Leave(c)
     \/ /\ CasRefused(c)
        /\ Goto(c, "createGet")
        /\ loaded' = [loaded EXCEPT ![c] = Absent]
        /\ UNCHANGED <<op, mine, todo, tries>>
  /\ DropCache(c)
  /\ UNCHANGED <<store, known, seq, faults, histVars>>

CreateRestoreThrows(c) ==
  /\ pc[c] \in {"createPut", "createCas"} /\ Fault
  /\ CasThrows(c, Restored(c))
  /\ Leave(c)
  /\ CacheAfterThrow(c)
  /\ UNCHANGED <<store, known, seq, histVars>>
-------------------------------------------------------------------------------
(* readEvents *)

\* Load the head, keep the segments past the caller's cursor.
ReadLoad(c) ==
  /\ pc[c] = "idle"
  /\ ViewHead(c).status = "active"
  /\ \E afterSequence \in 0..MaxSegments :
       todo' = [todo EXCEPT ![c] =
                  {s \in ViewHead(c).segments : Len(s.log) > afterSequence}]
  /\ loaded' = [loaded EXCEPT ![c] = ViewHead(c)]
  /\ Goto(c, "reading")
  /\ UNCHANGED <<storeVars, op, known, mine, tries, seq, cache, faults, histVars>>

\* Fetch one segment; a missing one throws.  The last one completes the read.
ReadSegment(c) ==
  /\ pc[c] = "reading"
  /\ \/ /\ todo[c] \cap ViewStore(c) # {}
        /\ \E s \in todo[c] \cap ViewStore(c) : todo' = [todo EXCEPT ![c] = @ \ {s}]
        /\ UNCHANGED <<pc, op, loaded, mine, tries>>
     \/ todo[c] = {} /\ Leave(c)
     \/ todo[c] \ ViewStore(c) # {} /\ Leave(c)
  /\ UNCHANGED <<storeVars, known, seq, cache, faults, histVars>>
-------------------------------------------------------------------------------
(* The environment *)

\* A read throws: the call ends where it stands.
ReadThrows(c) ==
  /\ pc[c] \in {"reclaim", "createGet", "reading"} /\ Fault
  /\ Leave(c)
  /\ UNCHANGED <<storeVars, known, seq, cache, histVars>>

\* The page closes or reloads.
Crash(c) ==
  /\ pc[c] # "idle" /\ Fault
  /\ Leave(c)
  /\ known' = [known EXCEPT ![c] = NoHead]
  /\ DropCache(c)
  /\ UNCHANGED <<storeVars, seq, histVars>>

\* Another read of the page fills its index cache, or the cache's TTL passes.
RefreshCache(c) ==
  /\ IndexCache
  /\ cache' = [cache EXCEPT ![c] = IF @.cached THEN NoCache ELSE Snapshot]
  /\ UNCHANGED <<storeVars, callVars, faults, histVars>>

\* A release that still trashed completed markers outright.
LegacyTrash ==
  /\ LegacyCleanup
  /\ head.status = "deleted" /\ head.complete
  /\ head' = Absent
  /\ UNCHANGED <<store, callVars, cache, faults, histVars>>
-------------------------------------------------------------------------------
\* What a page does once the store answers, without failures.
Progress(c) ==
  \/ AppendPut(c) \/ AppendOverLimit(c) \/ AppendCas(c) \/ AppendCasRefused(c)
  \/ ReclaimCheck(c) \/ ReclaimTrash(c)
  \/ DeleteCas(c) \/ DeleteRefused(c) \/ SweepBatch(c) \/ SweepUnconfirmed(c) \/ Retire(c)
  \/ CreateGet(c) \/ CreateGivesUp(c) \/ CreateRestore(c)
  \/ ReadSegment(c)

Step(c) ==
  \/ GetSession(c) \/ AppendLoad(c) \/ DeleteLoad(c) \/ CreatePut(c) \/ ReadLoad(c)
  \/ Progress(c)
  \/ AppendAbort(c)
  \/ AppendPutThrows(c) \/ AppendCasThrows(c) \/ DeleteThrows(c)
  \/ RetireThrows(c) \/ CreatePutThrows(c) \/ CreateRestoreThrows(c)
  \/ ReadThrows(c) \/ Crash(c) \/ RefreshCache(c)

Next == LegacyTrash \/ \E c \in Clients : Step(c)

Spec == Init /\ [][Next]_vars

(***************************************************************************)
(* A page that has called the backend goes on when the store answers.      *)
(* Failures are bounded by MaxFaults: the store recovers.                  *)
(***************************************************************************)
FairSpec == Spec /\ \A c \in Clients : WF_vars(Progress(c))
-------------------------------------------------------------------------------
Segments == [key : Id, log : Seq(Events)]
Heads ==
  [status : {"absent", "active", "deleted"}, inc : Id \cup {NoId}, fence : BOOLEAN,
   log : Seq(Events), segments : SUBSET Segments,
   deletion : Id \cup {NoId}, complete : BOOLEAN]
Labels ==
  {"idle", "appendPut", "appendCas", "reclaim", "reclaimTrash", "deleteCas",
   "sweep", "createGet", "createPut", "createCas", "reading"}

\* The type of every variable.
TypeOK ==
  /\ head \in Heads
  /\ store \in SUBSET Segments
  /\ pc \in [Clients -> Labels]
  /\ op \in [Clients -> {"none", "delete", "create"}]
  /\ known \in [Clients -> [inc : Id \cup {NoId}, log : Seq(Events)]]
  /\ loaded \in [Clients -> Heads]
  /\ mine \in [Clients -> Segments \cup {NoSegment}]
  /\ todo \in [Clients -> SUBSET Segments]
  /\ tries \in [Clients -> 0..CreateAttempts]
  /\ seq \in [Clients -> 0..MaxIds]
  /\ cache \in [Clients -> [cached : BOOLEAN, head : Heads, store : SUBSET Segments]]
  /\ faults \in 0..MaxFaults
  /\ published \in SUBSET Segments
  /\ retired \in SUBSET Id

(***************************************************************************)
(* Every segment a live head names is in the store.  Losing writers trash  *)
(* the segment they stored, deletions trash what the tombstone lists; none *)
(* of it may ever be a segment of the committed head (the comment at the   *)
(* end of append: the fresh-head check "protects a CAS that committed      *)
(* before its provider response failed").                                  *)
(***************************************************************************)
CommittedReadable == head.status = "active" => head.segments \subseteq store

(***************************************************************************)
(* parseHead accepts every head the protocol can commit: exactly one       *)
(* segment for each prefix of the log, in a chain from genesis to the      *)
(* head's digest, and never more segments than parseHead's limit.          *)
(***************************************************************************)
HeadParses == head.status = "active" => ParsesHead(head)

(***************************************************************************)
(* No fork: a head a caller has been shown, by a read or by the result of  *)
(* its own append, stays a prefix of the committed log for as long as that *)
(* incarnation lives, whatever other pages append, lose or reclaim.        *)
(***************************************************************************)
ShownHeadIsPrefix ==
  \A c \in Clients :
    head.status = "active" /\ known[c].inc = head.inc
      => IsPrefix(known[c].log, head.log)

(***************************************************************************)
(* No ciphertext is stranded: a segment that was ever committed and still  *)
(* exists is named by the live head or by the pending deletion marker, the *)
(* only record from which a retry can finish its reclamation.              *)
(***************************************************************************)
NoStrandedCiphertext == published \cap store \subseteq head.segments

\* A live head is changed only by a call whose caller was shown exactly that head.
LandsWhereRead ==
  head.status = "active" /\ head' # head =>
    \E c \in Clients :
      pc[c] \in {"appendCas", "deleteCas"} /\ known[c] = PublicHead(head)

(***************************************************************************)
(* Appends and deletions land only on the incarnation and the log that the *)
(* page's caller was shown, also when the ID was deleted and restored with *)
(* the same events in between (matchesIncarnationFence; deleteSession:     *)
(* nobody discards a turn they have not read).                             *)
(***************************************************************************)
MutationsLandWhereRead == [][LandsWhereRead]_vars

(***************************************************************************)
(* Stale reads and an older release mislead no write of the journal: heads *)
(* parse, no ciphertext that was committed is stranded, and appends and    *)
(* deletions land only on the incarnation and the log their caller saw     *)
(* (matchesIncarnationFence, finishDeletion, createSession).               *)
(***************************************************************************)
StaleReadsMisleadNoWrite ==
  [](HeadParses /\ NoStrandedCiphertext) /\ [][LandsWhereRead]_vars

(***************************************************************************)
(* The backend implements the JournalBackend contract: the conversation a  *)
(* complete read would return is created empty under a fresh incarnation,  *)
(* grows by whole appends and disappears at once.                          *)
(***************************************************************************)
Readable ==
  IF head.status # "active" THEN [live |-> FALSE]
  ELSE [live |-> TRUE, inc |-> head.inc,
        log |-> IF head.segments \subseteq store THEN head.log ELSE <<"missing">>]
Contract == INSTANCE JournalBackend WITH
  session <- Readable, retired <- retired, Incarnations <- Id
ImplementsJournalBackend == Contract!Spec

(***************************************************************************)
(* Every call of the backend returns, whatever the others do: what is      *)
(* tried again after a lost compare-and-swap is tried a bounded number of  *)
(* times.                                                                  *)
(***************************************************************************)
Busy(c) == pc[c] # "idle"
CallsReturn == \A c \in Clients : Busy(c) ~> ~Busy(c)

(***************************************************************************)
(* A committed deletion whose cleanup was interrupted is finished in the   *)
(* end ("retry deletion to finish cleanup").  This does not hold: only a   *)
(* caller that deletes or creates the same session again goes on with it,  *)
(* and a store that does not confirm keys already gone never lets it       *)
(* finish.                                                                 *)
(***************************************************************************)
CleanupPending == head.status = "deleted" /\ ~head.complete
CleanupCompletes == CleanupPending ~> ~CleanupPending
===============================================================================
