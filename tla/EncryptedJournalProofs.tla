------------------------ MODULE EncryptedJournalProofs ------------------------
(***************************************************************************)
(* Proofs about EncryptedJournal, for any number of pages, events, IDs and *)
(* failures: live heads stay readable; callers are shown prefixes,         *)
(* mutations land on what was read, and no ciphertext is stranded; the     *)
(* journal implements JournalBackend.  The first and the last part assume  *)
(* that reads are fresh (FreshStore): with Google Drive's index cache      *)
(* committed heads lose segments, as a run of TLC shows.                   *)
(***************************************************************************)
EXTENDS EncryptedJournal, FiniteSetTheorems, TLAPS

FreshStore == IndexCache = FALSE

Appending == {"appendPut", "appendCas"}
Owning == {"appendPut", "appendCas", "reclaim", "reclaimTrash"}
CacheType == [cached : BOOLEAN, head : Heads, store : SUBSET Segments]
PublicType == [inc : Id \cup {NoId}, log : Seq(Events)]

(***************************************************************************)
(* The inductive invariant that protects live heads.  CommittedReadable is *)
(* not inductive: one must know that a page only trashes segments no live  *)
(* head names, which rests on who may own, publish and list a segment.     *)
(***************************************************************************)
NoneCached == \A c \in Clients : ~cache[c].cached

\* Segment keys were drawn by the page they name.
KeysDrawn == \A s \in store \cup published : s.key[2] <= seq[s.key[1]]

HeadShape ==
  /\ head.segments \subseteq published
  /\ head.status = "absent" => head.segments = {}
  /\ head.complete => head.segments = {} /\ head.status = "deleted"
  /\ head.status = "active" => head.inc \in Id

\* While an append runs, its segment bears the page's latest ID.
OwnsSegment(c) ==
  pc[c] \in Owning => mine[c] \in Segments /\ mine[c].key = <<c, seq[c]>>

\* Until its compare-and-swap an attempt's segment is referenced nowhere.
Unpublished(c) ==
  pc[c] \in Appending => mine[c] \notin published /\ loaded[c].status = "active"

\* A segment is stored before the head that names it is written.
Stored(c) == pc[c] = "appendCas" => mine[c] \in store

\* What is about to be trashed as an orphan is one.
Orphan(c) ==
  pc[c] = "reclaimTrash" /\ head.status = "active" => mine[c] \notin head.segments

\* A sweep works on a deleted incarnation's segments, never on the live head's.
SweepsDeleted(c) ==
  pc[c] = "sweep" =>
    /\ loaded[c].status = "deleted" /\ ~loaded[c].complete
    /\ todo[c] \subseteq published
    /\ head.status = "active" => todo[c] \cap head.segments = {}

\* What restores and deletions have loaded.
LoadedShape(c) ==
  /\ pc[c] = "createPut" => loaded[c].status = "absent"
  /\ pc[c] = "createCas" => loaded[c].status = "deleted" /\ loaded[c].complete
  /\ pc[c] = "deleteCas" => loaded[c].status = "active" /\ loaded[c].inc \in Id

\* Deletions and restores have drawn the IDs they write.
DrewIds(c) ==
  \/ pc[c] \in {"deleteCas", "createGet", "createPut", "createCas"}
  \/ pc[c] = "sweep" /\ op[c] = "create"
  => seq[c] >= 1

CallInv(c) ==
  /\ OwnsSegment(c) /\ Unpublished(c) /\ Stored(c) /\ Orphan(c)
  /\ SweepsDeleted(c) /\ LoadedShape(c) /\ DrewIds(c)

LiveInv ==
  /\ TypeOK /\ NoneCached /\ KeysDrawn /\ HeadShape /\ CommittedReadable
  /\ \A c \in Clients : CallInv(c)
-------------------------------------------------------------------------------
(* Facts about the values a head can take. *)

\* The record of an unused head key, and the empty index cache.
LEMMA AbsentFacts ==
  /\ Absent \in Heads
  /\ Absent.status = "absent" /\ Absent.segments = {} /\ Absent.complete = FALSE
  /\ Absent.deletion = NoId
  /\ NoCache \in CacheType /\ NoCache.cached = FALSE
<1>1. Absent \in Heads BY DEF Absent, Heads
<1>2. Absent.status = "absent" /\ Absent.segments = {} /\ Absent.complete = FALSE
      /\ Absent.deletion = NoId
  BY DEF Absent
<1>3. NoCache \in CacheType /\ NoCache.cached = FALSE BY <1>1 DEF NoCache, CacheType
<1> QED BY <1>1, <1>2, <1>3

\* What an append publishes keeps everything and adds one reference.
LEMMA ExtendedFacts ==
  ASSUME NEW h \in Heads, NEW s \in Segments
  PROVE  /\ Extended(h, s) \in Heads
         /\ Extended(h, s).status = h.status
         /\ Extended(h, s).segments = h.segments \cup {s}
         /\ Extended(h, s).complete = h.complete
         /\ Extended(h, s).deletion = h.deletion
         /\ Extended(h, s).inc = h.inc
BY DEF Heads, Extended, Segments

\* A deletion marker lists the segments of the head it replaces.
LEMMA TombstoneFacts ==
  ASSUME NEW h \in Heads, NEW id \in Id
  PROVE  /\ Tombstone(h, id) \in Heads
         /\ Tombstone(h, id).status = "deleted"
         /\ Tombstone(h, id).segments = h.segments
         /\ Tombstone(h, id).complete = h.complete
         /\ Tombstone(h, id).deletion = id
BY DEF Heads, Tombstone

\* A completed marker lists nothing.
LEMMA CompletedFacts ==
  ASSUME NEW h \in Heads
  PROVE  /\ Completed(h) \in Heads
         /\ Completed(h).status = h.status
         /\ Completed(h).segments = {}
         /\ Completed(h).complete = TRUE
         /\ Completed(h).deletion = h.deletion
BY DEF Heads, Completed

\* A session starts without segments.
LEMMA FreshHeadFacts ==
  ASSUME NEW id \in Id, NEW fence \in BOOLEAN
  PROVE  /\ FreshHead(id, fence) \in Heads
         /\ FreshHead(id, fence).status = "active"
         /\ FreshHead(id, fence).segments = {}
         /\ FreshHead(id, fence).complete = FALSE
         /\ FreshHead(id, fence).deletion = NoId
         /\ FreshHead(id, fence).inc = id
BY AbsentFacts DEF FreshHead, Heads

\* What callers are shown has the type of a journal head.
LEMMA PublicHeadType ==
  ASSUME NEW h \in Heads
  PROVE  PublicHead(h) \in PublicType
BY DEF PublicHead, NoHead, Heads, PublicType
-------------------------------------------------------------------------------
(* One page moves, the others stay. *)

\* Every page but c is where it was.
OthersStay(c) ==
  \A d \in Clients \ {c} :
    /\ pc'[d] = pc[d] /\ mine'[d] = mine[d] /\ loaded'[d] = loaded[d]
    /\ todo'[d] = todo[d] /\ seq'[d] = seq[d] /\ op'[d] = op[d]

\* What page c writes, publishing at most the segments in fresh, is its own.
WritesOwn(c, fresh) ==
  /\ OthersStay(c) /\ seq'[c] >= seq[c]
  /\ published' = published \cup fresh
  /\ \A s \in fresh : s.key = <<c, seq[c]>> /\ s \notin published
  /\ \A s \in store' : s \in store \/ s.key = <<c, seq[c]>>
  /\ \A s \in store \ store' : s \in published \/ s.key[1] = c
  /\ head'.status = "active" =>
       \/ head'.segments = {}
       \/ head.status = "active" /\ head'.segments \subseteq head.segments \cup fresh

\* A page that writes only its own can disturb only what is said of its own call.
LEMMA OwnStep ==
  ASSUME LiveInv, NEW c \in Clients, NEW fresh, WritesOwn(c, fresh), TypeOK', NoneCached',
         HeadShape', CommittedReadable', CallInv(c)'
  PROVE  LiveInv'
<1>1. KeysDrawn'
  <2> SUFFICES ASSUME NEW s \in store' \cup published' PROVE s.key[2] <= seq'[s.key[1]]
    BY DEF KeysDrawn
  <2>1. s \in Segments
    BY DEF TypeOK
  <2>2. PICK d \in Clients, n \in 1..MaxIds : s.key = <<d, n>>
    BY <2>1 DEF Segments, Id
  <2>3. s \in store \cup published \/ (d = c /\ n = seq[c])
    BY <2>2 DEF WritesOwn
  <2>4. n <= seq[d]
    <3>1. CASE s \in store \cup published BY <3>1, <2>2 DEF LiveInv, KeysDrawn
    <3>2. CASE d = c /\ n = seq[c] BY <3>2, <2>2
    <3> QED BY <2>3, <3>1, <3>2
  <2>5. seq[d] \in 0..MaxIds /\ seq'[d] \in 0..MaxIds
    BY DEF LiveInv, TypeOK
  <2>6. seq[d] <= seq'[d]
    <3>1. CASE d = c BY <3>1 DEF WritesOwn
    <3>2. CASE d # c BY <3>2, <2>5, JournalAssumption DEF WritesOwn, OthersStay
    <3> QED BY <3>1, <3>2
  <2> QED BY <2>2, <2>4, <2>5, <2>6, JournalAssumption
<1>2. ASSUME NEW d \in Clients \ {c} PROVE CallInv(d)'
  <2>1. pc'[d] = pc[d] /\ mine'[d] = mine[d] /\ loaded'[d] = loaded[d]
        /\ todo'[d] = todo[d] /\ seq'[d] = seq[d] /\ op'[d] = op[d]
    BY DEF WritesOwn, OthersStay
  <2>2. CallInv(d)
    BY DEF LiveInv
  <2>3. pc[d] \in Owning => mine[d].key[1] = d /\ mine[d].key # <<c, seq[c]>>
    BY <2>2 DEF CallInv, OwnsSegment
  <2>4. OwnsSegment(d)' /\ LoadedShape(d)' /\ DrewIds(d)'
    BY <2>1, <2>2 DEF CallInv, OwnsSegment, LoadedShape, DrewIds
  <2>5. Unpublished(d)' /\ Stored(d)'
    BY <2>1, <2>2, <2>3 DEF CallInv, Unpublished, Stored, WritesOwn, Owning, Appending
  <2>6. Orphan(d)'
    BY <2>1, <2>2, <2>3 DEF CallInv, Orphan, WritesOwn, Owning
  <2>7. SweepsDeleted(d)'
    BY <2>1, <2>2 DEF CallInv, SweepsDeleted, WritesOwn
  <2> QED BY <2>4, <2>5, <2>6, <2>7 DEF CallInv
<1> QED
  BY <1>1, <1>2 DEF LiveInv

\* A step that changes neither the head nor the store.
LEMMA QuietStep ==
  ASSUME LiveInv, NEW c \in Clients, OthersStay(c), seq'[c] >= seq[c],
         head' = head, store' = store, published' = published,
         TypeOK', NoneCached', CallInv(c)'
  PROVE  LiveInv'
<1>1. WritesOwn(c, {})
  BY DEF WritesOwn
<1>2. HeadShape' /\ CommittedReadable'
  BY DEF LiveInv, HeadShape, CommittedReadable
<1> QED
  BY <1>1, <1>2, OwnStep

\* Returning from a call leaves well-typed locals and nothing to protect.
LEMMA LeaveFacts ==
  ASSUME TypeOK, NEW c \in Clients, Leave(c)
  PROVE  /\ pc' \in [Clients -> Labels] /\ op' \in [Clients -> {"none", "delete", "create"}]
         /\ loaded' \in [Clients -> Heads] /\ mine' \in [Clients -> Segments \cup {NoSegment}]
         /\ todo' \in [Clients -> SUBSET Segments] /\ tries' \in [Clients -> 0..CreateAttempts]
         /\ CallInv(c)'
         /\ \A d \in Clients \ {c} :
              pc'[d] = pc[d] /\ mine'[d] = mine[d] /\ loaded'[d] = loaded[d] /\ todo'[d] = todo[d]
              /\ op'[d] = op[d]
<1>1. pc'[c] = "idle" /\ op'[c] = "none"
  BY DEF Leave, TypeOK
<1>2. CallInv(c)'
  BY <1>1 DEF CallInv, OwnsSegment, Unpublished, Stored, Orphan, SweepsDeleted, LoadedShape, DrewIds,
              Owning, Appending
<1> QED
  BY <1>2, AbsentFacts, JournalAssumption DEF Leave, TypeOK, Labels

\* Going to another await of the same call.
LEMMA GotoFacts ==
  ASSUME TypeOK, NEW c \in Clients, NEW label \in Labels, Goto(c, label)
  PROVE  /\ pc' \in [Clients -> Labels] /\ pc'[c] = label
         /\ \A d \in Clients \ {c} : pc'[d] = pc[d]
BY DEF Goto, TypeOK

\* The index cache stays empty on a store with fresh reads.
LEMMA CacheFacts ==
  ASSUME TypeOK, NoneCached, FreshStore, NEW c \in Clients,
         DropCache(c) \/ CacheAfterThrow(c) \/ UNCHANGED cache
  PROVE  cache' \in [Clients -> CacheType] /\ NoneCached'
<1>1. cache \in [Clients -> CacheType]
  BY DEF TypeOK, CacheType
<1>2. DropCache(c) \/ UNCHANGED cache
  BY DEF FreshStore, CacheAfterThrow
<1>3. CASE DropCache(c)
  BY <1>1, <1>3, AbsentFacts DEF DropCache, NoneCached
<1>4. CASE UNCHANGED cache
  BY <1>1, <1>4 DEF NoneCached
<1> QED BY <1>2, <1>3, <1>4

\* Reads see the store as it is.
LEMMA FreshView ==
  ASSUME NoneCached, NEW c \in Clients
  PROVE  ViewHead(c) = head /\ ViewStore(c) = store
BY DEF NoneCached, ViewHead, ViewStore

\* A call that ends without having written anything.
LEMMA QuietLeave ==
  ASSUME LiveInv, FreshStore, NEW c \in Clients, Leave(c),
         UNCHANGED <<storeVars, seq, histVars>>,
         DropCache(c) \/ CacheAfterThrow(c) \/ UNCHANGED cache,
         known' \in [Clients -> PublicType], faults' \in 0..MaxFaults
  PROVE  LiveInv'
<1>1. TypeOK
  BY DEF LiveInv
<1>2. cache' \in [Clients -> CacheType] /\ NoneCached'
  BY CacheFacts DEF LiveInv
<1>3. TypeOK'
  BY <1>1, <1>2, LeaveFacts DEF TypeOK, storeVars, histVars, CacheType, PublicType
<1>4. OthersStay(c)
  BY <1>1, LeaveFacts DEF OthersStay
<1>5. seq'[c] >= seq[c]
  BY <1>1 DEF TypeOK
<1> QED
  BY <1>1, <1>2, <1>3, <1>4, <1>5, LeaveFacts, QuietStep DEF storeVars, histVars

\* The steps at which a call without writes ends keep the invariant.
LEMMA QuietLeaves ==
  ASSUME LiveInv, FreshStore, NEW c \in Clients,
         DeleteRefused(c) \/ CreateGivesUp(c) \/ ReadThrows(c) \/ Crash(c)
  PROVE  LiveInv'
<1>1. TypeOK /\ known \in [Clients -> PublicType] /\ faults \in 0..MaxFaults
  BY DEF LiveInv, TypeOK, PublicType
<1>2. CASE DeleteRefused(c)
  BY <1>1, <1>2, QuietLeave DEF DeleteRefused
<1>3. CASE CreateGivesUp(c)
  BY <1>1, <1>3, QuietLeave DEF CreateGivesUp
<1>4. CASE ReadThrows(c)
  <2>1. faults' \in 0..MaxFaults
    BY <1>1, <1>4, JournalAssumption DEF ReadThrows, Fault
  <2> QED BY <1>1, <1>4, <2>1, QuietLeave DEF ReadThrows
<1>5. CASE Crash(c)
  <2>1. faults' \in 0..MaxFaults
    BY <1>1, <1>5, JournalAssumption DEF Crash, Fault
  <2>2. known' \in [Clients -> PublicType]
    BY <1>1, <1>5 DEF Crash, PublicType, NoHead
  <2> QED BY <1>1, <1>5, <2>1, <2>2, QuietLeave DEF Crash
<1> QED BY <1>2, <1>3, <1>4, <1>5
-------------------------------------------------------------------------------
(* Calls that read. *)

\* Reading the head for the caller.
LEMMA GetSessionLive ==
  ASSUME LiveInv, NEW c \in Clients, GetSession(c)
  PROVE  LiveInv'
<1>1. TypeOK /\ NoneCached /\ CallInv(c)
  BY DEF LiveInv
<1>2. known' \in [Clients -> PublicType]
  <2>1. PublicHead(ViewHead(c)) \in PublicType
    BY <1>1, FreshView, PublicHeadType DEF TypeOK
  <2> QED BY <1>1, <2>1 DEF GetSession, TypeOK, PublicType
<1>3. TypeOK'
  BY <1>1, <1>2 DEF TypeOK, GetSession, storeVars, histVars, PublicType
<1>4. OthersStay(c) /\ seq'[c] >= seq[c] /\ NoneCached' /\ CallInv(c)'
  BY <1>1, JournalAssumption DEF GetSession, OthersStay, NoneCached, CallInv, OwnsSegment, Unpublished,
     Stored, Orphan, SweepsDeleted, LoadedShape, DrewIds, storeVars, histVars, TypeOK
<1> QED BY <1>3, <1>4, QuietStep DEF GetSession, storeVars, histVars

\* An ID a page draws is one of its own, and no segment bears it yet.
LEMMA DrawFacts ==
  ASSUME LiveInv, NEW c \in Clients, NEW k \in {1, 2}, DrawIds(c, k)
  PROVE  /\ seq' \in [Clients -> 0..MaxIds] /\ seq'[c] = seq[c] + k /\ seq'[c] >= seq[c]
         /\ seq'[c] >= 1 /\ \A d \in Clients \ {c} : seq'[d] = seq[d]
         /\ NewId(c) = <<c, seq[c] + 1>> /\ NewId(c) \in Id /\ <<c, seq'[c]>> \in Id
         /\ \A s \in store \cup published : s.key # NewId(c)
<1>1. seq \in [Clients -> 0..MaxIds] /\ seq[c] \in Nat
  BY JournalAssumption DEF LiveInv, TypeOK
<1>2. seq' \in [Clients -> 0..MaxIds] /\ seq'[c] = seq[c] + k /\ seq'[c] >= seq[c]
      /\ seq'[c] >= 1 /\ \A d \in Clients \ {c} : seq'[d] = seq[d]
  BY <1>1, JournalAssumption DEF DrawIds
<1>3. NewId(c) = <<c, seq[c] + 1>> /\ NewId(c) \in Id /\ <<c, seq'[c]>> \in Id
  BY <1>1, <1>2, JournalAssumption DEF NewId, Id, DrawIds
<1>4. ASSUME NEW s \in store \cup published, s.key = NewId(c) PROVE FALSE
  BY <1>1, <1>3, <1>4 DEF LiveInv, KeysDrawn
<1> QED BY <1>2, <1>3, <1>4

\* An append that passed its checks owns a new, unpublished segment.
LEMMA AppendLoadLive ==
  ASSUME LiveInv, NEW c \in Clients, AppendLoad(c)
  PROVE  LiveInv'
<1>1. TypeOK /\ NoneCached /\ ViewHead(c) = head
  BY FreshView DEF LiveInv
<1>2. PICK e \in Events : mine' = [mine EXCEPT ![c] = AttemptSegment(c, e)]
  BY DEF AppendLoad
<1>3. /\ seq' \in [Clients -> 0..MaxIds] /\ seq'[c] = seq[c] + 1 /\ seq'[c] >= seq[c]
      /\ \A d \in Clients \ {c} : seq'[d] = seq[d]
      /\ NewId(c) = <<c, seq[c] + 1>> /\ NewId(c) \in Id
      /\ \A s \in store \cup published : s.key # NewId(c)
  BY DrawFacts DEF AppendLoad
<1>4. AttemptSegment(c, e) \in Segments /\ AttemptSegment(c, e).key = <<c, seq'[c]>>
  <2>1. known[c].log \in Seq(Events)
    BY <1>1 DEF TypeOK
  <2>2. Append(known[c].log, e) \in Seq(Events)
    BY <2>1
  <2> QED BY <2>2, <1>3 DEF AttemptSegment, Segments
<1>5. AttemptSegment(c, e) \notin published
  BY <1>3 DEF AttemptSegment
<1>6. pc' \in [Clients -> Labels] /\ pc'[c] = "appendPut"
      /\ \A d \in Clients \ {c} : pc'[d] = pc[d]
  BY <1>1, GotoFacts DEF AppendLoad, Labels
<1>7. mine' \in [Clients -> Segments \cup {NoSegment}] /\ mine'[c] = AttemptSegment(c, e)
      /\ loaded' \in [Clients -> Heads] /\ loaded'[c] = head /\ head.status = "active"
      /\ \A d \in Clients \ {c} : mine'[d] = mine[d] /\ loaded'[d] = loaded[d]
  BY <1>1, <1>2, <1>4 DEF AppendLoad, TypeOK
<1>8. TypeOK'
  BY <1>1, <1>3, <1>6, <1>7 DEF TypeOK, AppendLoad, storeVars, histVars
<1>9. OthersStay(c) /\ NoneCached'
  BY <1>1, <1>3, <1>6, <1>7 DEF OthersStay, NoneCached, AppendLoad
<1>10. CallInv(c)'
  BY <1>4, <1>5, <1>6, <1>7 DEF AppendLoad, CallInv, OwnsSegment, Unpublished, Stored, Orphan,
     SweepsDeleted, LoadedShape, DrewIds, storeVars, histVars
<1> QED BY <1>3, <1>8, <1>9, <1>10, QuietStep DEF AppendLoad, storeVars, histVars

\* Going to the next await of a call without having written anything.
LEMMA QuietGoto ==
  ASSUME LiveInv, FreshStore, NEW c \in Clients, NEW label \in Labels, Goto(c, label),
         UNCHANGED <<storeVars, op, known, loaded, mine, todo, tries, seq, faults, histVars>>,
         DropCache(c) \/ CacheAfterThrow(c) \/ UNCHANGED cache,
         CallInv(c)'
  PROVE  LiveInv'
<1>1. TypeOK
  BY DEF LiveInv
<1>2. cache' \in [Clients -> CacheType] /\ NoneCached'
  BY CacheFacts DEF LiveInv
<1>3. TypeOK'
  BY <1>1, <1>2, GotoFacts DEF TypeOK, storeVars, histVars, CacheType
<1>4. OthersStay(c) /\ seq'[c] >= seq[c]
  BY <1>1, GotoFacts, JournalAssumption DEF OthersStay, TypeOK
<1> QED
  BY <1>2, <1>3, <1>4, QuietStep DEF storeVars, histVars

\* Falling into the cleanup of an append that did not commit.
LEMMA QuietReclaim ==
  ASSUME LiveInv, FreshStore, NEW c \in Clients, pc[c] \in Owning, Goto(c, "reclaim"),
         UNCHANGED <<storeVars, op, known, loaded, mine, todo, tries, seq, faults, histVars>>,
         DropCache(c) \/ CacheAfterThrow(c) \/ UNCHANGED cache
  PROVE  LiveInv'
<1>1. pc'[c] = "reclaim" /\ "reclaim" \in Labels
  BY DEF LiveInv, TypeOK, Goto, Labels
<1>2. OwnsSegment(c)
  BY DEF LiveInv, CallInv
<1>3. CallInv(c)'
  BY <1>1, <1>2 DEF CallInv, OwnsSegment, Unpublished, Stored, Orphan, SweepsDeleted, LoadedShape, DrewIds,
                    Appending
<1> QED BY <1>1, <1>3, QuietGoto

\* The append's steps that write nothing: abort, limit, refusal and fresh-head check.
LEMMA QuietAppend ==
  ASSUME LiveInv, FreshStore, NEW c \in Clients,
         AppendAbort(c) \/ AppendOverLimit(c) \/ AppendCasRefused(c) \/ ReclaimCheck(c)
  PROVE  LiveInv'
<1>1. TypeOK /\ NoneCached /\ known \in [Clients -> PublicType] /\ faults \in 0..MaxFaults
  BY DEF LiveInv, TypeOK, PublicType
<1>2. CASE AppendAbort(c)
  <2>1. CASE pc[c] = "appendPut" /\ Leave(c)
    BY <1>1, <1>2, <2>1, QuietLeave DEF AppendAbort
  <2>2. CASE pc[c] = "appendCas" /\ Goto(c, "reclaim") /\ UNCHANGED <<op, loaded, mine, todo, tries>>
    BY <1>2, <2>2, QuietReclaim DEF AppendAbort, Owning
  <2> QED BY <1>2, <2>1, <2>2 DEF AppendAbort
<1>3. CASE AppendOverLimit(c)
  BY <1>3, QuietReclaim DEF AppendOverLimit, Owning
<1>4. CASE AppendCasRefused(c)
  BY <1>4, QuietReclaim DEF AppendCasRefused, CasRefused, Owning, storeVars
<1>5. CASE ReclaimCheck(c)
  <2>1. CASE StillReferenced(c)
    BY <1>1, <1>5, <2>1, QuietLeave DEF ReclaimCheck
  <2>2. CASE ~StillReferenced(c)
    <3>1. pc'[c] = "reclaimTrash" /\ "reclaimTrash" \in Labels /\ Goto(c, "reclaimTrash")
          /\ UNCHANGED <<op, loaded, mine, todo, tries>>
      BY <1>1, <1>5, <2>2 DEF TypeOK, Goto, Labels, ReclaimCheck
    <3>2. OwnsSegment(c) /\ pc[c] \in Owning
      BY <1>5 DEF LiveInv, CallInv, ReclaimCheck, Owning
    <3>3. head.status = "active" => mine[c] \notin head.segments
      BY <1>1, <2>2, FreshView DEF StillReferenced
    <3>4. CallInv(c)'
      BY <1>5, <3>1, <3>2, <3>3 DEF ReclaimCheck, CallInv, OwnsSegment, Unpublished, Stored, Orphan,
         SweepsDeleted, LoadedShape, DrewIds, Appending, storeVars
    <3> QED BY <1>5, <3>1, <3>4, QuietGoto DEF ReclaimCheck
  <2> QED BY <2>1, <2>2
<1> QED BY <1>2, <1>3, <1>4, <1>5

\* Deciding to delete, or to go on with a pending deletion.
LEMMA DeleteLoadLive ==
  ASSUME LiveInv, NEW c \in Clients, DeleteLoad(c)
  PROVE  LiveInv'
<1>1. TypeOK /\ NoneCached /\ HeadShape /\ ViewHead(c) = head
  BY FreshView DEF LiveInv
<1>2. /\ loaded' \in [Clients -> Heads] /\ loaded'[c] = head
      /\ \A d \in Clients \ {c} : loaded'[d] = loaded[d]
      /\ op' \in [Clients -> {"none", "delete", "create"}] /\ op'[c] = "delete"
      /\ \A d \in Clients \ {c} : op'[d] = op[d]
  BY <1>1 DEF DeleteLoad, TypeOK
<1>3. NoneCached'
  BY <1>1 DEF NoneCached, DeleteLoad
<1>4. CASE head.status = "deleted" /\ ~head.complete /\ Goto(c, "sweep")
           /\ todo' = [todo EXCEPT ![c] = head.segments] /\ UNCHANGED seq
  <2>1. /\ pc' \in [Clients -> Labels] /\ pc'[c] = "sweep"
        /\ \A d \in Clients \ {c} : pc'[d] = pc[d]
    BY <1>1, <1>4, GotoFacts DEF Labels
  <2>2. /\ todo' \in [Clients -> SUBSET Segments] /\ todo'[c] = head.segments
        /\ \A d \in Clients \ {c} : todo'[d] = todo[d]
    <3>1. head.segments \in SUBSET Segments
      BY <1>1 DEF TypeOK, Heads
    <3> QED BY <1>1, <1>4, <3>1 DEF TypeOK
  <2>3. TypeOK'
    BY <1>1, <1>2, <1>4, <2>1, <2>2 DEF DeleteLoad, TypeOK, storeVars, histVars
  <2>4. OthersStay(c) /\ seq'[c] >= seq[c]
    BY <1>1, <1>2, <1>4, <2>1, <2>2, JournalAssumption DEF OthersStay, DeleteLoad, TypeOK
  <2>5. CallInv(c)'
    BY <1>1, <1>2, <1>4, <2>1, <2>2 DEF DeleteLoad, HeadShape, CallInv, OwnsSegment, Unpublished,
       Stored, Orphan, SweepsDeleted, LoadedShape, DrewIds, Owning, Appending, storeVars, histVars
  <2> QED BY <1>3, <2>3, <2>4, <2>5, QuietStep DEF DeleteLoad, storeVars, histVars
<1>5. CASE head.status = "active" /\ Goto(c, "deleteCas") /\ DrawIds(c, 1) /\ UNCHANGED todo
  <2>1. /\ pc' \in [Clients -> Labels] /\ pc'[c] = "deleteCas"
        /\ \A d \in Clients \ {c} : pc'[d] = pc[d]
    BY <1>1, <1>5, GotoFacts DEF Labels
  <2>2. /\ seq' \in [Clients -> 0..MaxIds] /\ seq'[c] >= seq[c] /\ seq'[c] >= 1
        /\ \A d \in Clients \ {c} : seq'[d] = seq[d]
    BY <1>5, DrawFacts
  <2>3. TypeOK'
    BY <1>1, <1>2, <1>5, <2>1, <2>2 DEF DeleteLoad, TypeOK, storeVars, histVars
  <2>4. OthersStay(c)
    BY <1>2, <1>5, <2>1, <2>2 DEF OthersStay, DeleteLoad
  <2>5. CallInv(c)'
    BY <1>1, <1>2, <1>5, <2>1, <2>2 DEF HeadShape, CallInv, OwnsSegment, Unpublished, Stored, Orphan, SweepsDeleted,
       LoadedShape, DrewIds, Owning, Appending
  <2> QED BY <1>3, <2>2, <2>3, <2>4, <2>5, QuietStep DEF DeleteLoad, storeVars, histVars
<1> QED BY <1>1, <1>4, <1>5 DEF DeleteLoad

\* One turn of the restore loop.
LEMMA CreateGetLive ==
  ASSUME LiveInv, FreshStore, NEW c \in Clients, CreateGet(c)
  PROVE  LiveInv'
<1>1. TypeOK /\ NoneCached /\ HeadShape /\ ViewHead(c) = head /\ seq[c] >= 1
  BY FreshView DEF LiveInv, CallInv, DrewIds, CreateGet
<1>2. known \in [Clients -> PublicType] /\ faults \in 0..MaxFaults
  BY <1>1 DEF TypeOK, PublicType
<1>3. CASE head.status = "active" /\ Leave(c)
  BY <1>2, <1>3, QuietLeave DEF CreateGet
<1>4. CASE /\ head.status # "active" /\ Goto(c, RestoreStep(head))
           /\ loaded' = [loaded EXCEPT ![c] = head]
           /\ todo' = [todo EXCEPT ![c] = head.segments]
           /\ tries' = [tries EXCEPT ![c] = @ + 1]
           /\ UNCHANGED <<op, mine>>
  <2> DEFINE label == RestoreStep(head)
  <2>1. /\ label \in {"createPut", "createCas", "sweep"}
        /\ label = "createPut" => head.status = "absent"
        /\ label = "createCas" => head.status = "deleted" /\ head.complete
        /\ label = "sweep" => head.status = "deleted" /\ ~head.complete
    <3>1. head.status \in {"absent", "active", "deleted"} /\ head.complete \in BOOLEAN
      BY <1>1 DEF TypeOK, Heads
    <3> QED BY <1>4, <3>1 DEF RestoreStep
  <2>2. /\ pc' \in [Clients -> Labels] /\ pc'[c] = label
        /\ \A d \in Clients \ {c} : pc'[d] = pc[d]
    BY <1>1, <1>4, <2>1, GotoFacts DEF Labels
  <2> HIDE DEF label
  <2>3. /\ todo' \in [Clients -> SUBSET Segments] /\ todo'[c] = head.segments
        /\ loaded' \in [Clients -> Heads] /\ loaded'[c] = head
        /\ \A d \in Clients \ {c} : todo'[d] = todo[d] /\ loaded'[d] = loaded[d]
    <3>1. head.segments \in SUBSET Segments
      BY <1>1 DEF TypeOK, Heads
    <3> QED BY <1>1, <1>4, <3>1 DEF TypeOK
  <2>4. tries' \in [Clients -> 0..CreateAttempts]
    BY <1>1, <1>4, JournalAssumption DEF CreateGet, AttemptsLeft, TypeOK
  <2>5. TypeOK'
    BY <1>1, <1>4, <2>2, <2>3, <2>4 DEF CreateGet, TypeOK, storeVars, histVars
  <2>6. OthersStay(c) /\ seq'[c] >= seq[c] /\ NoneCached'
    BY <1>1, <1>4, <2>2, <2>3, JournalAssumption DEF OthersStay, CreateGet, TypeOK, NoneCached
  <2>7. CallInv(c)'
    BY <1>1, <1>4, <2>1, <2>2, <2>3 DEF CreateGet, HeadShape, CallInv, OwnsSegment, Unpublished,
       Stored, Orphan, SweepsDeleted, LoadedShape, DrewIds, Owning, Appending, storeVars, histVars
  <2> QED BY <2>5, <2>6, <2>7, QuietStep DEF CreateGet, storeVars, histVars
<1> QED BY <1>1, <1>3, <1>4 DEF CreateGet

\* readEvents.
LEMMA ReadLive ==
  ASSUME LiveInv, FreshStore, NEW c \in Clients, ReadLoad(c) \/ ReadSegment(c)
  PROVE  LiveInv'
<1>1. TypeOK /\ NoneCached /\ ViewHead(c) = head /\ ViewStore(c) = store
  BY FreshView DEF LiveInv
<1>2. known \in [Clients -> PublicType] /\ faults \in 0..MaxFaults
  BY <1>1 DEF TypeOK, PublicType
<1>3. CASE ReadLoad(c)
  <2>1. /\ pc' \in [Clients -> Labels] /\ pc'[c] = "reading"
        /\ \A d \in Clients \ {c} : pc'[d] = pc[d]
    BY <1>1, <1>3, GotoFacts DEF Labels, ReadLoad
  <2>2. /\ todo' \in [Clients -> SUBSET Segments]
        /\ \A d \in Clients \ {c} : todo'[d] = todo[d]
    <3>1. head.segments \in SUBSET Segments
      BY <1>1 DEF TypeOK, Heads
    <3>2. PICK n : todo' = [todo EXCEPT ![c] = {s \in head.segments : Len(s.log) > n}]
      BY <1>1, <1>3 DEF ReadLoad
    <3>3. {s \in head.segments : Len(s.log) > n} \in SUBSET Segments
      BY <3>1
    <3> QED BY <1>1, <3>2, <3>3 DEF TypeOK
  <2>3. /\ loaded' \in [Clients -> Heads]
        /\ \A d \in Clients \ {c} : loaded'[d] = loaded[d]
    BY <1>1, <1>3 DEF ReadLoad, TypeOK
  <2>4. TypeOK'
    BY <1>1, <1>3, <2>1, <2>2, <2>3 DEF ReadLoad, TypeOK, storeVars, histVars
  <2>5. OthersStay(c) /\ seq'[c] >= seq[c] /\ NoneCached'
    BY <1>1, <1>3, <2>1, <2>2, <2>3, JournalAssumption DEF OthersStay, ReadLoad, TypeOK, NoneCached
  <2>6. CallInv(c)'
    BY <2>1 DEF CallInv, OwnsSegment, Unpublished, Stored, Orphan, SweepsDeleted, LoadedShape, DrewIds,
                Owning, Appending
  <2> QED BY <1>3, <2>4, <2>5, <2>6, QuietStep DEF ReadLoad, storeVars, histVars
<1>4. CASE ReadSegment(c)
  <2>1. CASE Leave(c)
    BY <1>2, <1>4, <2>1, QuietLeave DEF ReadSegment
  <2>2. CASE /\ \E s \in todo[c] \cap store : todo' = [todo EXCEPT ![c] = @ \ {s}]
             /\ UNCHANGED <<pc, op, loaded, mine, tries>>
    <3>1. PICK s : todo' = [todo EXCEPT ![c] = todo[c] \ {s}]
      BY <2>2
    <3>2. todo' \in [Clients -> SUBSET Segments] /\ \A d \in Clients \ {c} : todo'[d] = todo[d]
      BY <1>1, <3>1 DEF TypeOK
    <3>3. TypeOK'
      BY <1>1, <1>4, <2>2, <3>2 DEF ReadSegment, TypeOK, storeVars, histVars
    <3>4. OthersStay(c) /\ seq'[c] >= seq[c] /\ NoneCached'
      BY <1>1, <1>4, <2>2, <3>2, JournalAssumption DEF OthersStay, ReadSegment, TypeOK, NoneCached
    <3>5. CallInv(c)'
      BY <1>4, <2>2 DEF ReadSegment, CallInv, OwnsSegment, Unpublished, Stored, Orphan,
         SweepsDeleted, LoadedShape, DrewIds, Owning, Appending
    <3> QED BY <1>4, <3>3, <3>4, <3>5, QuietStep DEF ReadSegment, storeVars, histVars
  <2> QED BY <1>1, <1>4, <2>1, <2>2 DEF ReadSegment
<1> QED BY <1>3, <1>4
-------------------------------------------------------------------------------
(* Calls that write. *)

\* The segment is stored.
LEMMA AppendPutLive ==
  ASSUME LiveInv, FreshStore, NEW c \in Clients, AppendPut(c)
  PROVE  LiveInv'
<1>1. TypeOK /\ HeadShape /\ CommittedReadable /\ CallInv(c)
  BY DEF LiveInv
<1>2. cache' \in [Clients -> CacheType] /\ NoneCached'
  BY CacheFacts DEF LiveInv, AppendPut
<1>3. /\ pc' \in [Clients -> Labels] /\ pc'[c] = "appendCas"
      /\ \A d \in Clients \ {c} : pc'[d] = pc[d]
  BY <1>1, GotoFacts DEF Labels, AppendPut
<1>4. mine[c] \in Segments /\ mine[c].key = <<c, seq[c]>> /\ mine[c] \notin published
      /\ loaded[c].status = "active" /\ store' = store \cup {mine[c]}
  BY <1>1 DEF CallInv, OwnsSegment, Unpublished, Owning, Appending, AppendPut
<1>5. TypeOK'
  BY <1>1, <1>2, <1>3, <1>4 DEF AppendPut, TypeOK, histVars, CacheType
<1>6. OthersStay(c) /\ seq'[c] >= seq[c]
  BY <1>1, <1>3, JournalAssumption DEF OthersStay, AppendPut, TypeOK
<1>7. WritesOwn(c, {})
  BY <1>4, <1>6 DEF WritesOwn, AppendPut, histVars
<1>8. HeadShape' /\ CommittedReadable'
  BY <1>1, <1>4 DEF HeadShape, CommittedReadable, AppendPut, histVars
<1>9. CallInv(c)'
  BY <1>3, <1>4 DEF AppendPut, CallInv, OwnsSegment, Unpublished, Stored, Orphan, SweepsDeleted,
     LoadedShape, DrewIds, Owning, Appending, histVars
<1> QED BY <1>2, <1>5, <1>7, <1>8, <1>9, OwnStep

\* The put threw; the segment may be there.
LEMMA AppendPutThrowsLive ==
  ASSUME LiveInv, FreshStore, NEW c \in Clients, AppendPutThrows(c)
  PROVE  LiveInv'
<1>1. TypeOK /\ HeadShape /\ CommittedReadable /\ CallInv(c)
  BY DEF LiveInv
<1>2. cache' \in [Clients -> CacheType] /\ NoneCached'
  BY CacheFacts DEF LiveInv, AppendPutThrows
<1>3. /\ pc' \in [Clients -> Labels] /\ pc'[c] = "reclaim"
      /\ \A d \in Clients \ {c} : pc'[d] = pc[d]
  BY <1>1, GotoFacts DEF Labels, AppendPutThrows
<1>4. mine[c] \in Segments /\ mine[c].key = <<c, seq[c]>>
      /\ (store' = store \/ store' = store \cup {mine[c]})
  BY <1>1 DEF CallInv, OwnsSegment, Owning, AppendPutThrows
<1>5. faults' \in 0..MaxFaults
  BY <1>1, JournalAssumption DEF AppendPutThrows, Fault, TypeOK
<1>6. TypeOK'
  BY <1>1, <1>2, <1>3, <1>4, <1>5 DEF AppendPutThrows, TypeOK, histVars, CacheType
<1>7. OthersStay(c) /\ seq'[c] >= seq[c]
  BY <1>1, <1>3, JournalAssumption DEF OthersStay, AppendPutThrows, TypeOK
<1>8. WritesOwn(c, {})
  BY <1>4, <1>7 DEF WritesOwn, AppendPutThrows, histVars
<1>9. HeadShape' /\ CommittedReadable'
  BY <1>1, <1>4 DEF HeadShape, CommittedReadable, AppendPutThrows, histVars
<1>10. CallInv(c)'
  BY <1>3, <1>4 DEF AppendPutThrows, CallInv, OwnsSegment, Unpublished, Stored, Orphan, SweepsDeleted,
     LoadedShape, DrewIds, Owning, Appending
<1> QED BY <1>2, <1>6, <1>8, <1>9, <1>10, OwnStep

\* Committing an append, from the await before its compare-and-swap.
LEMMA CommitFacts ==
  ASSUME LiveInv, NEW c \in Clients, pc[c] = "appendCas", head = loaded[c],
         head' = Extended(loaded[c], mine[c]), store' = store,
         published' = published \cup {mine[c]}, OthersStay(c), seq' = seq
  PROVE  /\ head' \in Heads /\ published' \in SUBSET Segments
         /\ PublicHead(Extended(loaded[c], mine[c])) \in PublicType
         /\ WritesOwn(c, {mine[c]}) /\ HeadShape' /\ CommittedReadable'
         /\ OwnsSegment(c) /\ head'.status = "active" /\ mine[c] \in head'.segments
<1>1. TypeOK /\ HeadShape /\ CommittedReadable /\ CallInv(c)
  BY DEF LiveInv
<1>2. mine[c] \in Segments /\ mine[c].key = <<c, seq[c]>> /\ mine[c] \notin published
      /\ head.status = "active" /\ mine[c] \in store
  BY <1>1 DEF CallInv, OwnsSegment, Unpublished, Stored, Owning, Appending
<1>3. /\ head' \in Heads /\ head'.status = "active" /\ head'.segments = head.segments \cup {mine[c]}
      /\ head'.complete = head.complete /\ head'.inc = head.inc
  BY <1>1, <1>2, ExtendedFacts DEF TypeOK
<1>4. seq'[c] >= seq[c]
  BY <1>1, JournalAssumption DEF TypeOK
<1>5. WritesOwn(c, {mine[c]})
  BY <1>2, <1>3, <1>4 DEF WritesOwn
<1>6. HeadShape' /\ CommittedReadable'
  BY <1>1, <1>2, <1>3 DEF HeadShape, CommittedReadable
<1>7. OwnsSegment(c) /\ PublicHead(Extended(loaded[c], mine[c])) \in PublicType
  BY <1>1, <1>3, PublicHeadType DEF CallInv
<1> QED BY <1>1, <1>2, <1>3, <1>5, <1>6, <1>7 DEF TypeOK

\* The append commits.
LEMMA AppendCasLive ==
  ASSUME LiveInv, FreshStore, NEW c \in Clients, AppendCas(c)
  PROVE  LiveInv'
<1>1. TypeOK
  BY DEF LiveInv
<1>2. cache' \in [Clients -> CacheType] /\ NoneCached'
  BY CacheFacts DEF LiveInv, AppendCas
<1>3. OthersStay(c)
  BY <1>1, LeaveFacts DEF OthersStay, AppendCas
<1>4. /\ head' \in Heads /\ published' \in SUBSET Segments
      /\ PublicHead(Extended(loaded[c], mine[c])) \in PublicType
      /\ WritesOwn(c, {mine[c]}) /\ HeadShape' /\ CommittedReadable'
  BY <1>3, CommitFacts DEF AppendCas, CasUpdated
<1>5. known' \in [Clients -> PublicType]
  BY <1>1, <1>4 DEF AppendCas, TypeOK, PublicType
<1>6. TypeOK'
  BY <1>1, <1>2, <1>4, <1>5, LeaveFacts DEF AppendCas, TypeOK, PublicType, CacheType
<1> QED BY <1>1, <1>2, <1>4, <1>6, LeaveFacts, OwnStep DEF AppendCas

\* The compare-and-swap threw; the append may have committed.
LEMMA AppendCasThrowsLive ==
  ASSUME LiveInv, FreshStore, NEW c \in Clients, AppendCasThrows(c)
  PROVE  LiveInv'
<1>1. TypeOK /\ CallInv(c)
  BY DEF LiveInv
<1>2. cache' \in [Clients -> CacheType] /\ NoneCached'
  BY CacheFacts DEF LiveInv, AppendCasThrows
<1>3. faults' \in 0..MaxFaults
  BY <1>1, JournalAssumption DEF AppendCasThrows, Fault, TypeOK
<1>4. /\ pc' \in [Clients -> Labels] /\ pc'[c] = "reclaim"
      /\ \A d \in Clients \ {c} : pc'[d] = pc[d]
  BY <1>1, GotoFacts DEF Labels, AppendCasThrows
<1>5. OthersStay(c) /\ seq'[c] >= seq[c]
  BY <1>1, <1>4, JournalAssumption DEF OthersStay, AppendCasThrows, TypeOK
<1>6. OwnsSegment(c)
  BY <1>1 DEF CallInv
<1>7. CallInv(c)'
  BY <1>4, <1>6 DEF AppendCasThrows, CallInv, OwnsSegment, Unpublished, Stored, Orphan, SweepsDeleted,
     LoadedShape, DrewIds, Owning, Appending
<1>8. CASE head' = head
  <2>1. TypeOK'
    BY <1>1, <1>2, <1>3, <1>4, <1>8 DEF AppendCasThrows, TypeOK, CacheType
  <2> QED BY <1>2, <1>5, <1>7, <1>8, <2>1, QuietStep DEF AppendCasThrows
<1>9. CASE head' # head
  <2>1. /\ head' \in Heads /\ published' \in SUBSET Segments
        /\ WritesOwn(c, {mine[c]}) /\ HeadShape' /\ CommittedReadable'
    BY <1>5, <1>9, CommitFacts DEF AppendCasThrows, CasThrows, CasUpdated
  <2>2. TypeOK'
    BY <1>1, <1>2, <1>3, <1>4, <2>1 DEF AppendCasThrows, TypeOK, CacheType
  <2> QED BY <1>2, <1>7, <2>1, <2>2, OwnStep
<1> QED BY <1>8, <1>9

\* The attempt's orphan is trashed.
LEMMA ReclaimTrashLive ==
  ASSUME LiveInv, FreshStore, NEW c \in Clients, ReclaimTrash(c)
  PROVE  LiveInv'
<1>1. TypeOK /\ HeadShape /\ CommittedReadable /\ CallInv(c)
  BY DEF LiveInv
<1>2. cache' \in [Clients -> CacheType] /\ NoneCached'
  BY CacheFacts DEF LiveInv, ReclaimTrash
<1>3. faults' \in 0..MaxFaults
  BY <1>1, JournalAssumption DEF ReclaimTrash, Fault, NoFault, TypeOK
<1>4. store' = store \/ store' = store \ {mine[c]}
  BY DEF ReclaimTrash
<1>5. TypeOK'
  BY <1>1, <1>2, <1>3, <1>4, LeaveFacts DEF ReclaimTrash, TypeOK, CacheType, histVars
<1>6. OthersStay(c) /\ seq'[c] >= seq[c]
  BY <1>1, LeaveFacts, JournalAssumption DEF OthersStay, ReclaimTrash, TypeOK
<1>7. mine[c].key = <<c, seq[c]>> /\ (head.status = "active" => mine[c] \notin head.segments)
  BY <1>1 DEF CallInv, OwnsSegment, Orphan, Owning, ReclaimTrash
<1>8. WritesOwn(c, {})
  BY <1>4, <1>6, <1>7 DEF WritesOwn, ReclaimTrash, histVars
<1>9. HeadShape' /\ CommittedReadable'
  BY <1>1, <1>4, <1>7 DEF HeadShape, CommittedReadable, ReclaimTrash, histVars
<1> QED BY <1>1, <1>2, <1>5, <1>8, <1>9, LeaveFacts, OwnStep DEF ReclaimTrash

\* Committing a deletion, from the await before its compare-and-swap.
LEMMA MarkerFacts ==
  ASSUME LiveInv, NEW c \in Clients, pc[c] = "deleteCas", head = loaded[c],
         head' = Marker(c), store' = store, published' = published,
         retired' = retired \cup {loaded[c].inc}, OthersStay(c), seq' = seq
  PROVE  /\ head' \in Heads /\ retired' \in SUBSET Id
         /\ WritesOwn(c, {}) /\ HeadShape' /\ CommittedReadable'
         /\ head'.status = "deleted" /\ head'.complete = FALSE /\ head'.segments = head.segments
<1>1. TypeOK /\ HeadShape /\ LoadedShape(c) /\ seq[c] >= 1 /\ loaded[c].inc \in Id
  BY DEF LiveInv, CallInv, LoadedShape, DrewIds
<1>2. <<c, seq[c]>> \in Id
  BY <1>1, JournalAssumption DEF Id, TypeOK
<1>3. head.complete = FALSE
  <2>1. head.complete \in BOOLEAN /\ head.status = "active"
    BY <1>1 DEF TypeOK, Heads, LoadedShape
  <2> QED BY <1>1, <2>1 DEF HeadShape
<1>4. /\ head' \in Heads /\ head'.status = "deleted" /\ head'.complete = FALSE
      /\ head'.segments = head.segments
  BY <1>1, <1>2, <1>3, TombstoneFacts DEF Marker, TypeOK
<1>5. seq'[c] >= seq[c]
  BY <1>1, JournalAssumption DEF TypeOK
<1>6. WritesOwn(c, {})
  BY <1>4, <1>5 DEF WritesOwn
<1>7. HeadShape' /\ CommittedReadable'
  BY <1>1, <1>4 DEF HeadShape, CommittedReadable
<1> QED BY <1>1, <1>4, <1>6, <1>7 DEF TypeOK

\* The deletion commits and its sweep begins.
LEMMA DeleteCasLive ==
  ASSUME LiveInv, FreshStore, NEW c \in Clients, DeleteCas(c)
  PROVE  LiveInv'
<1>1. TypeOK /\ HeadShape /\ CallInv(c)
  BY DEF LiveInv
<1>2. cache' \in [Clients -> CacheType] /\ NoneCached'
  BY CacheFacts DEF LiveInv, DeleteCas
<1>3. /\ pc' \in [Clients -> Labels] /\ pc'[c] = "sweep"
      /\ \A d \in Clients \ {c} : pc'[d] = pc[d]
  BY <1>1, GotoFacts DEF Labels, DeleteCas
<1>4. OthersStay(c)
  BY <1>1, <1>3 DEF OthersStay, DeleteCas, TypeOK
<1>5. /\ head' \in Heads /\ retired' \in SUBSET Id
      /\ WritesOwn(c, {}) /\ HeadShape' /\ CommittedReadable'
      /\ head'.status = "deleted" /\ head'.complete = FALSE /\ head'.segments = head.segments
  BY <1>4, MarkerFacts DEF DeleteCas, CasUpdated
<1>6. head.segments \in SUBSET Segments
  BY <1>1 DEF TypeOK, Heads
<1>7. /\ loaded' \in [Clients -> Heads] /\ loaded'[c] = head'
      /\ todo' \in [Clients -> SUBSET Segments] /\ todo'[c] = head.segments
  BY <1>1, <1>5, <1>6 DEF DeleteCas, CasUpdated, TypeOK
<1>8. seq[c] >= 1
  BY <1>1 DEF CallInv, DrewIds, DeleteCas
<1>9. TypeOK'
  BY <1>1, <1>2, <1>3, <1>5, <1>7 DEF DeleteCas, TypeOK, CacheType
<1>10. CallInv(c)'
  BY <1>1, <1>3, <1>5, <1>7, <1>8 DEF DeleteCas, HeadShape, CallInv, OwnsSegment, Unpublished, Stored, Orphan, SweepsDeleted,
     LoadedShape, DrewIds, Owning, Appending
<1> QED BY <1>2, <1>5, <1>9, <1>10, OwnStep

\* The tombstone's compare-and-swap threw.
LEMMA DeleteThrowsLive ==
  ASSUME LiveInv, FreshStore, NEW c \in Clients, DeleteThrows(c)
  PROVE  LiveInv'
<1>1. TypeOK /\ known \in [Clients -> PublicType]
  BY DEF LiveInv, TypeOK, PublicType
<1>2. cache' \in [Clients -> CacheType] /\ NoneCached'
  BY CacheFacts DEF LiveInv, DeleteThrows
<1>3. faults' \in 0..MaxFaults
  BY <1>1, JournalAssumption DEF DeleteThrows, Fault, TypeOK
<1>4. CASE head' = head
  BY <1>1, <1>3, <1>4, QuietLeave DEF DeleteThrows, storeVars, histVars
<1>5. CASE head' # head
  <2>1. OthersStay(c)
    BY <1>1, LeaveFacts DEF OthersStay, DeleteThrows
  <2>2. /\ head' \in Heads /\ retired' \in SUBSET Id
        /\ WritesOwn(c, {}) /\ HeadShape' /\ CommittedReadable'
    BY <1>5, <2>1, MarkerFacts DEF DeleteThrows, CasThrows, CasUpdated
  <2>3. TypeOK'
    BY <1>1, <1>2, <1>3, <2>2, LeaveFacts DEF DeleteThrows, TypeOK, CacheType
  <2> QED BY <1>1, <1>2, <2>2, <2>3, LeaveFacts, OwnStep DEF DeleteThrows
<1> QED BY <1>4, <1>5

\* A sweep removes segments of a deleted incarnation only.
LEMMA SweepFacts ==
  ASSUME LiveInv, NEW c \in Clients, pc[c] = "sweep", NEW removed \in SUBSET todo[c],
         store' = store \ removed, head' = head, published' = published,
         OthersStay(c), seq' = seq
  PROVE  /\ WritesOwn(c, {}) /\ HeadShape' /\ CommittedReadable' /\ store' \in SUBSET Segments
<1>1. TypeOK /\ HeadShape /\ CommittedReadable /\ SweepsDeleted(c)
  BY DEF LiveInv, CallInv
<1>2. removed \subseteq published /\ (head.status = "active" => removed \cap head.segments = {})
  BY <1>1 DEF SweepsDeleted
<1>3. seq'[c] >= seq[c]
  BY <1>1, JournalAssumption DEF TypeOK
<1>4. WritesOwn(c, {})
  BY <1>2, <1>3 DEF WritesOwn
<1>5. HeadShape' /\ CommittedReadable'
  BY <1>1, <1>2 DEF HeadShape, CommittedReadable
<1> QED BY <1>1, <1>4, <1>5 DEF TypeOK

\* A batch of the sweep, confirmed or not.
LEMMA SweepLive ==
  ASSUME LiveInv, FreshStore, NEW c \in Clients, SweepBatch(c) \/ SweepUnconfirmed(c)
  PROVE  LiveInv'
<1>1. TypeOK /\ CallInv(c) /\ pc[c] = "sweep"
  BY DEF LiveInv, SweepBatch, SweepUnconfirmed, TrashUnconfirmed
<1>2. cache' \in [Clients -> CacheType] /\ NoneCached'
  BY CacheFacts DEF LiveInv, SweepBatch, SweepUnconfirmed, TrashUnconfirmed
<1>3. CASE SweepBatch(c)
  <2>1. PICK batch \in SUBSET todo[c] :
          store' = store \ batch /\ todo' = [todo EXCEPT ![c] = todo[c] \ batch]
    BY <1>3 DEF SweepBatch, Batches
  <2>2. /\ todo' \in [Clients -> SUBSET Segments] /\ todo'[c] \subseteq todo[c]
        /\ \A d \in Clients \ {c} : todo'[d] = todo[d]
    BY <1>1, <2>1 DEF TypeOK
  <2>3. OthersStay(c)
    BY <1>3, <2>2 DEF OthersStay, SweepBatch
  <2>4. WritesOwn(c, {}) /\ HeadShape' /\ CommittedReadable' /\ store' \in SUBSET Segments
    BY <1>1, <1>3, <2>1, <2>3, SweepFacts DEF SweepBatch, histVars
  <2>5. TypeOK'
    BY <1>1, <1>2, <1>3, <2>2, <2>4 DEF SweepBatch, TypeOK, CacheType, histVars
  <2>6. CallInv(c)'
    BY <1>1, <1>3, <2>2 DEF SweepBatch, histVars, CallInv, OwnsSegment, Unpublished, Stored, Orphan, SweepsDeleted,
       LoadedShape, DrewIds, Owning, Appending
  <2> QED BY <1>2, <2>4, <2>5, <2>6, OwnStep
<1>4. CASE SweepUnconfirmed(c)
  <2>1. PICK removed \in SUBSET todo[c] : store' = store \ removed
    BY <1>4 DEF SweepUnconfirmed, TrashUnconfirmed, Batches
  <2>2. OthersStay(c)
    BY <1>1, <1>4, LeaveFacts DEF OthersStay, SweepUnconfirmed, TrashUnconfirmed
  <2>3. WritesOwn(c, {}) /\ HeadShape' /\ CommittedReadable' /\ store' \in SUBSET Segments
    BY <1>1, <1>4, <2>1, <2>2, SweepFacts DEF SweepUnconfirmed, TrashUnconfirmed, histVars
  <2>4. faults' \in 0..MaxFaults
    BY <1>1, <1>4, JournalAssumption DEF SweepUnconfirmed, TrashUnconfirmed, Fault, NoFault, TypeOK
  <2>5. TypeOK'
    BY <1>1, <1>2, <1>4, <2>3, <2>4, LeaveFacts DEF SweepUnconfirmed, TrashUnconfirmed, TypeOK, CacheType, histVars
  <2> QED BY <1>1, <1>2, <1>4, <2>3, <2>5, LeaveFacts, OwnStep DEF SweepUnconfirmed, TrashUnconfirmed
<1> QED BY <1>3, <1>4

\* The marker may be completed, or somebody else has replaced it.
LEMMA RetireFacts ==
  ASSUME LiveInv, NEW c \in Clients, pc[c] = "sweep",
         head' = head \/ CasUpdated(c, Completed(loaded[c])),
         store' = store, published' = published, OthersStay(c), seq' = seq
  PROVE  head' \in Heads /\ WritesOwn(c, {}) /\ HeadShape' /\ CommittedReadable'
<1>1. TypeOK /\ HeadShape /\ CommittedReadable /\ SweepsDeleted(c)
  BY DEF LiveInv, CallInv
<1>2. seq'[c] >= seq[c]
  BY <1>1, JournalAssumption DEF TypeOK
<1>3. CASE head' = head
  BY <1>1, <1>2, <1>3 DEF TypeOK, WritesOwn, HeadShape, CommittedReadable
<1>4. CASE CasUpdated(c, Completed(loaded[c]))
  <2>1. /\ head' \in Heads /\ head'.status = "deleted" /\ head'.segments = {}
    BY <1>1, <1>4, CompletedFacts DEF CasUpdated, TypeOK, SweepsDeleted
  <2> QED BY <1>1, <1>2, <2>1 DEF WritesOwn, HeadShape, CommittedReadable
<1> QED BY <1>3, <1>4

\* The last step of a sweep.
LEMMA RetireLive ==
  ASSUME LiveInv, FreshStore, NEW c \in Clients, Retire(c) \/ RetireThrows(c)
  PROVE  LiveInv'
<1>1. TypeOK /\ CallInv(c) /\ pc[c] = "sweep"
  BY DEF LiveInv, Retire, RetireThrows
<1>2. cache' \in [Clients -> CacheType] /\ NoneCached'
  BY CacheFacts DEF LiveInv, Retire, RetireThrows
<1>3. head' = head \/ CasUpdated(c, Completed(loaded[c]))
  BY DEF Retire, RetireThrows, CasRefused, CasThrows
<1>4. faults' \in 0..MaxFaults
  BY <1>1, JournalAssumption DEF Retire, RetireThrows, Fault, TypeOK
<1>5. store' = store /\ published' = published /\ retired' = retired /\ seq' = seq /\ known' = known
  BY DEF Retire, RetireThrows, histVars
<1>6. CASE Leave(c)
  <2>1. OthersStay(c)
    BY <1>1, <1>5, <1>6, LeaveFacts DEF OthersStay
  <2>2. head' \in Heads /\ WritesOwn(c, {}) /\ HeadShape' /\ CommittedReadable'
    BY <1>1, <1>3, <1>5, <2>1, RetireFacts
  <2>3. TypeOK'
    BY <1>1, <1>2, <1>4, <1>5, <1>6, <2>2, LeaveFacts DEF TypeOK, CacheType
  <2> QED BY <1>1, <1>2, <1>6, <2>2, <2>3, LeaveFacts, OwnStep
<1>7. CASE /\ op[c] = "create" /\ Goto(c, "createGet")
           /\ loaded' = [loaded EXCEPT ![c] = Absent] /\ UNCHANGED <<op, mine, todo, tries>>
  <2>1. /\ pc' \in [Clients -> Labels] /\ pc'[c] = "createGet"
        /\ \A d \in Clients \ {c} : pc'[d] = pc[d]
    BY <1>1, <1>7, GotoFacts DEF Labels
  <2>2. /\ loaded' \in [Clients -> Heads]
        /\ \A d \in Clients \ {c} : loaded'[d] = loaded[d]
    BY <1>1, <1>7, AbsentFacts DEF TypeOK
  <2>3. OthersStay(c)
    BY <1>5, <1>7, <2>1, <2>2 DEF OthersStay
  <2>4. head' \in Heads /\ WritesOwn(c, {}) /\ HeadShape' /\ CommittedReadable'
    BY <1>1, <1>3, <1>5, <2>3, RetireFacts
  <2>5. TypeOK'
    BY <1>1, <1>2, <1>4, <1>5, <1>7, <2>1, <2>2, <2>4 DEF TypeOK, CacheType
  <2>6. CallInv(c)'
    BY <1>1, <1>5, <1>7, <2>1 DEF CallInv, OwnsSegment, Unpublished, Stored, Orphan, SweepsDeleted,
       LoadedShape, DrewIds, Owning, Appending
  <2> QED BY <1>2, <2>4, <2>5, <2>6, OwnStep
<1> QED BY <1>6, <1>7 DEF Retire, RetireThrows, Finished

\* A new session's head replaces nothing that is live.
LEMMA InstallFacts ==
  ASSUME LiveInv, NEW c \in Clients, NEW id \in Id, NEW fence \in BOOLEAN,
         head' = head \/ head' = FreshHead(id, fence),
         store' = store, published' = published, OthersStay(c), seq'[c] >= seq[c]
  PROVE  head' \in Heads /\ WritesOwn(c, {}) /\ HeadShape' /\ CommittedReadable'
<1>1. TypeOK /\ HeadShape /\ CommittedReadable
  BY DEF LiveInv
<1>2. CASE head' = head
  BY <1>1, <1>2 DEF TypeOK, WritesOwn, HeadShape, CommittedReadable
<1>3. CASE head' = FreshHead(id, fence)
  <2>1. /\ head' \in Heads /\ head'.segments = {} /\ head'.complete = FALSE
        /\ head'.status = "active" /\ head'.inc = id
    BY <1>3, FreshHeadFacts
  <2> QED BY <2>1 DEF WritesOwn, HeadShape, CommittedReadable
<1> QED BY <1>2, <1>3

\* createSession's first attempt.
LEMMA CreatePutLive ==
  ASSUME LiveInv, FreshStore, NEW c \in Clients, CreatePut(c) \/ CreatePutThrows(c)
  PROVE  LiveInv'
<1>1. TypeOK /\ CallInv(c) /\ pc[c] = "idle"
  BY DEF LiveInv, CreatePut, CreatePutThrows
<1>2. cache' \in [Clients -> CacheType] /\ NoneCached'
  BY CacheFacts DEF LiveInv, CreatePut, CreatePutThrows
<1>3. /\ seq' \in [Clients -> 0..MaxIds] /\ seq'[c] >= seq[c] /\ seq'[c] >= 1
      /\ \A d \in Clients \ {c} : seq'[d] = seq[d]
      /\ NewId(c) \in Id
  BY DrawFacts DEF CreatePut, CreatePutThrows
<1>4. faults' \in 0..MaxFaults
  <2>1. CASE CreatePut(c) BY <1>1, <2>1 DEF CreatePut, TypeOK
  <2>2. CASE CreatePutThrows(c) BY <1>1, <2>2, JournalAssumption DEF CreatePutThrows, Fault, TypeOK
  <2> QED BY <2>1, <2>2
<1>5. /\ pc' = pc \/ pc' = [pc EXCEPT ![c] = "createGet"]
      /\ op' = op \/ op' = [op EXCEPT ![c] = "create"]
      /\ UNCHANGED <<store, known, loaded, mine, todo, tries, published, retired>>
      /\ head' = head \/ head' = FreshHead(NewId(c), FALSE)
  BY DEF CreatePut, CreatePutThrows, Goto, histVars
<1>6. /\ pc' \in [Clients -> Labels] /\ pc'[c] \in {"idle", "createGet"}
      /\ op' \in [Clients -> {"none", "delete", "create"}]
      /\ \A d \in Clients \ {c} : pc'[d] = pc[d] /\ op'[d] = op[d]
  BY <1>1, <1>5 DEF TypeOK, Labels
<1>7. OthersStay(c)
  BY <1>3, <1>5, <1>6 DEF OthersStay
<1>8. head' \in Heads /\ WritesOwn(c, {}) /\ HeadShape' /\ CommittedReadable'
  BY <1>3, <1>5, <1>7, InstallFacts
<1>9. TypeOK'
  BY <1>1, <1>2, <1>3, <1>4, <1>5, <1>6, <1>8 DEF TypeOK, CacheType
<1>10. CallInv(c)'
  BY <1>3, <1>6 DEF CallInv, OwnsSegment, Unpublished, Stored, Orphan, SweepsDeleted,
     LoadedShape, DrewIds, Owning, Appending
<1> QED BY <1>2, <1>8, <1>9, <1>10, OwnStep

\* Restoring a deleted ID.
LEMMA CreateRestoreLive ==
  ASSUME LiveInv, FreshStore, NEW c \in Clients, CreateRestore(c) \/ CreateRestoreThrows(c)
  PROVE  LiveInv'
<1>1. TypeOK /\ CallInv(c) /\ pc[c] \in {"createPut", "createCas"}
  BY DEF LiveInv, CreateRestore, CreateRestoreThrows
<1>2. cache' \in [Clients -> CacheType] /\ NoneCached'
  BY CacheFacts DEF LiveInv, CreateRestore, CreateRestoreThrows
<1>3. seq[c] >= 1 /\ <<c, seq[c]>> \in Id
  BY <1>1, JournalAssumption DEF CallInv, DrewIds, TypeOK, Id
<1>4. faults' \in 0..MaxFaults
  BY <1>1, JournalAssumption DEF CreateRestore, CreateRestoreThrows, Fault, TypeOK
<1>5. /\ head' = head \/ head' = FreshHead(<<c, seq[c]>>, TRUE)
      /\ UNCHANGED <<store, known, seq, published, retired>>
  BY DEF CreateRestore, CreateRestoreThrows, CasThrows, CasUpdated, CasRefused, Restored, histVars
<1>6. seq'[c] >= seq[c]
  BY <1>1, <1>5, JournalAssumption DEF TypeOK
<1>7. CASE Leave(c)
  <2>1. OthersStay(c)
    BY <1>1, <1>5, <1>7, LeaveFacts DEF OthersStay
  <2>2. head' \in Heads /\ WritesOwn(c, {}) /\ HeadShape' /\ CommittedReadable'
    BY <1>3, <1>5, <1>6, <2>1, InstallFacts
  <2>3. TypeOK'
    BY <1>1, <1>2, <1>4, <1>5, <1>7, <2>2, LeaveFacts DEF TypeOK, CacheType
  <2> QED BY <1>1, <1>2, <1>7, <2>2, <2>3, LeaveFacts, OwnStep
<1>8. CASE /\ Goto(c, "createGet") /\ loaded' = [loaded EXCEPT ![c] = Absent]
           /\ UNCHANGED <<op, mine, todo, tries>>
  <2>1. /\ pc' \in [Clients -> Labels] /\ pc'[c] = "createGet"
        /\ \A d \in Clients \ {c} : pc'[d] = pc[d]
    BY <1>1, <1>8, GotoFacts DEF Labels
  <2>2. /\ loaded' \in [Clients -> Heads]
        /\ \A d \in Clients \ {c} : loaded'[d] = loaded[d]
    BY <1>1, <1>8, AbsentFacts DEF TypeOK
  <2>3. OthersStay(c)
    BY <1>5, <1>8, <2>1, <2>2 DEF OthersStay
  <2>4. head' \in Heads /\ WritesOwn(c, {}) /\ HeadShape' /\ CommittedReadable'
    BY <1>3, <1>5, <1>6, <2>3, InstallFacts
  <2>5. TypeOK'
    BY <1>1, <1>2, <1>4, <1>5, <1>8, <2>1, <2>2, <2>4 DEF TypeOK, CacheType
  <2>6. CallInv(c)'
    BY <1>3, <1>5, <2>1 DEF CallInv, OwnsSegment, Unpublished, Stored, Orphan, SweepsDeleted,
       LoadedShape, DrewIds, Owning, Appending
  <2> QED BY <1>2, <2>4, <2>5, <2>6, OwnStep
<1> QED BY <1>7, <1>8 DEF CreateRestore, CreateRestoreThrows

\* An older release removes a completed marker.
LEMMA LegacyTrashLive ==
  ASSUME LiveInv, LegacyTrash
  PROVE  LiveInv'
<1>1. TypeOK' /\ NoneCached' /\ KeysDrawn' /\ HeadShape' /\ CommittedReadable'
  <2>1. TypeOK'
    BY AbsentFacts DEF LiveInv, TypeOK, LegacyTrash, callVars, histVars
  <2>2. NoneCached' /\ KeysDrawn'
    BY DEF LiveInv, NoneCached, KeysDrawn, LegacyTrash, callVars, histVars
  <2>3. HeadShape' /\ CommittedReadable'
    BY AbsentFacts DEF HeadShape, CommittedReadable, LegacyTrash
  <2> QED BY <2>1, <2>2, <2>3
<1>2. ASSUME NEW c \in Clients PROVE CallInv(c)'
  <2>1. CallInv(c)
    BY DEF LiveInv
  <2> QED BY <2>1, AbsentFacts DEF LegacyTrash, callVars, histVars, CallInv, OwnsSegment, Unpublished, Stored, Orphan, SweepsDeleted,
       LoadedShape, DrewIds, Owning, Appending
<1> QED BY <1>1, <1>2 DEF LiveInv
-------------------------------------------------------------------------------
(* The theorems. *)

\* The empty store, with every page idle.
LEMMA InitLive ==
  ASSUME Init PROVE LiveInv
<1>1. /\ NoHead \in [inc : Id \cup {NoId}, log : Seq(Events)]
      /\ NoCache \in [cached : BOOLEAN, head : Heads, store : SUBSET Segments]
      /\ NoCache.cached = FALSE /\ Absent \in Heads /\ Absent.status = "absent"
      /\ Absent.segments = {} /\ Absent.complete = FALSE
  BY AbsentFacts DEF NoHead, CacheType
<1>2. TypeOK
  BY <1>1, JournalAssumption DEF Init, TypeOK, Labels
<1>3. NoneCached /\ KeysDrawn /\ HeadShape /\ CommittedReadable
  BY <1>1 DEF Init, NoneCached, KeysDrawn, HeadShape, CommittedReadable
<1>4. ASSUME NEW c \in Clients PROVE CallInv(c)
  <2>1. pc[c] = "idle"
    BY DEF Init
  <2> QED BY <2>1 DEF CallInv, OwnsSegment, Unpublished, Stored, Orphan, SweepsDeleted,
       LoadedShape, DrewIds, Owning, Appending
<1> QED BY <1>2, <1>3, <1>4 DEF LiveInv

\* A step of the specification keeps the invariant.
LEMMA StepLive ==
  ASSUME LiveInv, FreshStore, [Next]_vars
  PROVE  LiveInv'
<1>1. CASE UNCHANGED vars
  <2>1. UNCHANGED <<head, store, pc, op, known, loaded, mine, todo, tries, seq, cache, faults,
                    published, retired>>
    BY <1>1 DEF vars, storeVars, callVars, histVars
  <2> QED BY <2>1 DEF LiveInv, TypeOK, NoneCached, KeysDrawn, HeadShape, CommittedReadable, CallInv, OwnsSegment, Unpublished, Stored, Orphan, SweepsDeleted,
       LoadedShape, DrewIds, Owning, Appending
<1>2. CASE LegacyTrash
  BY <1>2, LegacyTrashLive
<1>3. ASSUME NEW c \in Clients, Step(c) PROVE LiveInv'
  <2>1. CASE GetSession(c) \/ AppendLoad(c) \/ DeleteLoad(c) \/ CreateGet(c) \/ ReadLoad(c)
             \/ ReadSegment(c)
    BY <2>1, GetSessionLive, AppendLoadLive, DeleteLoadLive, CreateGetLive, ReadLive
  <2>2. CASE DeleteRefused(c) \/ CreateGivesUp(c) \/ ReadThrows(c) \/ Crash(c)
    BY <2>2, QuietLeaves
  <2>3. CASE AppendAbort(c) \/ AppendOverLimit(c) \/ AppendCasRefused(c) \/ ReclaimCheck(c)
    BY <2>3, QuietAppend
  <2>4. CASE AppendPut(c) \/ AppendPutThrows(c) \/ AppendCas(c) \/ AppendCasThrows(c)
             \/ ReclaimTrash(c)
    BY <2>4, AppendPutLive, AppendPutThrowsLive, AppendCasLive, AppendCasThrowsLive, ReclaimTrashLive
  <2>5. CASE DeleteCas(c) \/ DeleteThrows(c) \/ SweepBatch(c) \/ SweepUnconfirmed(c)
             \/ Retire(c) \/ RetireThrows(c)
    BY <2>5, DeleteCasLive, DeleteThrowsLive, SweepLive, RetireLive
  <2>6. CASE CreatePut(c) \/ CreatePutThrows(c) \/ CreateRestore(c) \/ CreateRestoreThrows(c)
    BY <2>6, CreatePutLive, CreateRestoreLive
  <2>7. ~RefreshCache(c)
    BY DEF FreshStore, RefreshCache
  <2> QED BY <1>3, <2>1, <2>2, <2>3, <2>4, <2>5, <2>6, <2>7 DEF Step, Progress
<1> QED BY <1>1, <1>2, <1>3 DEF Next

\* LiveInv is an invariant of the specification.
LEMMA LiveInvariant ==
  ASSUME FreshStore
  PROVE  Spec => []LiveInv
<1>1. Init => LiveInv
  BY InitLive
<1>2. LiveInv /\ [Next]_vars => LiveInv'
  BY StepLive
<1> QED BY <1>1, <1>2, PTL DEF Spec

(***************************************************************************)
(* On a store with fresh reads, whatever pages append, lose, abort,        *)
(* delete, restore, crash or leave half done, every segment the live head  *)
(* names exists: append's losers (reclaimUncommittedSegment) and           *)
(* finishDeletion never trash a committed segment.                         *)
(***************************************************************************)
THEOREM LiveHeadsReadable ==
  ASSUME FreshStore
  PROVE  Spec => []CommittedReadable
<1>1. LiveInv => CommittedReadable
  BY DEF LiveInv
<1> QED BY <1>1, LiveInvariant, PTL

-------------------------------------------------------------------------------
(***************************************************************************)
(* What the heads promise.  Unlike the readability of live heads this      *)
(* holds on any store: no fresh reads are assumed, and an older release    *)
(* may remove completed markers.  The last part, where reads are fresh,    *)
(* shows that the journal implements JournalBackend.                       *)
(***************************************************************************)

\* The heads that decide anything: the stored one, loaded ones, cached ones.
Observed ==
  {head} \cup {loaded[c] : c \in Clients} \cup {cache[c].head : c \in Clients}

Drawn(id) == id \in Id /\ id[2] <= seq[id[1]]

\* No caller, no call, no cache and no deletion has met this incarnation.
Unseen(id) ==
  /\ id \notin retired
  /\ \A c \in Clients : known[c].inc # id
  /\ \A h \in Observed : h.status = "active" => h.inc # id

(***************************************************************************)
(* The inductive invariant.  A stale head is harmless because it was once  *)
(* the stored one: it is well formed, it names published segments only,    *)
(* and its log is a prefix of the stored log as long as its incarnation    *)
(* lives.  Incarnations are compared by ID, so that rests on IDs never     *)
(* being drawn twice and on a restore's ID being unseen until it is used.  *)
(***************************************************************************)
WellFormed(h) ==
  /\ h \in Heads
  /\ h.status = "absent" => h.segments = {}
  /\ h.complete => h.segments = {} /\ h.status = "deleted"
  /\ h.status = "active" =>
       h.inc \in Id /\ IsFiniteSet(h.segments) /\ ParsesHead(h)

\* What a page was shown of an incarnation stays true of it.
StaysTrue(inc, log) ==
  /\ Drawn(inc)
  /\ head.status = "active" /\ head.inc = inc => IsPrefix(log, head.log)

HeadsObserved ==
  \A h \in Observed :
    /\ WellFormed(h) /\ h.segments \subseteq published
    /\ h.status = "active" => StaysTrue(h.inc, h.log)

HeadsShown ==
  \A c \in Clients : known[c].inc # NoId => StaysTrue(known[c].inc, known[c].log)

RetiredDrawn == \A id \in retired : Drawn(id)

\* The segment an attempt has sealed extends the head it has loaded.
SealedAppend(c) ==
  pc[c] \in Appending =>
    /\ mine[c] \notin published /\ loaded[c].status = "active"
    /\ \E e \in Events : mine[c].log = Append(loaded[c].log, e)

(***************************************************************************)
(* A caller with a token, or any caller of a store on which unfenced heads *)
(* are the first of their session, was shown the head its mutation loaded. *)
(***************************************************************************)
Tokened == Tokenless = {} \/ (IndexCache = FALSE /\ LegacyCleanup = FALSE)
Informed(c) ==
  Tokened /\ pc[c] \in Appending \cup {"deleteCas"} => known[c] = PublicHead(loaded[c])

\* Segments a sweep has passed are gone and stay gone.
SweptGone(c) ==
  pc[c] = "sweep" =>
    /\ loaded[c].status = "deleted" /\ ~loaded[c].complete
    /\ (loaded[c].segments \ todo[c]) \cap store = {}

\* The ID a restore will install is its own and still unseen.
Creating(c) ==
  \/ pc[c] \in {"createGet", "createPut", "createCas"}
  \/ pc[c] = "sweep" /\ op[c] = "create"
Reserved(c) == Creating(c) => Unseen(<<c, seq[c]>>)

\* The sweep after a committed deletion returns to deleteSession.
Deleting(c) == pc[c] = "deleteCas" => op[c] = "delete"

CallOk(c) ==
  /\ OwnsSegment(c) /\ SealedAppend(c) /\ Informed(c) /\ SweptGone(c)
  /\ LoadedShape(c) /\ DrewIds(c) /\ Reserved(c) /\ Deleting(c)

\* Where nothing is stale or removed, an unfenced head is its session's first.
FirstOfSession ==
  IndexCache = FALSE /\ LegacyCleanup = FALSE =>
    /\ NoneCached
    /\ head.status = "absent" => \A c \in Clients : known[c].inc = NoId
    /\ head.status = "active" /\ ~head.fence =>
         \A c \in Clients : known[c].inc \in {NoId, head.inc}

HeadInv ==
  /\ TypeOK /\ KeysDrawn /\ HeadsObserved /\ HeadsShown /\ RetiredDrawn
  /\ NoStrandedCiphertext /\ FirstOfSession
  /\ \A c \in Clients : CallOk(c)
-------------------------------------------------------------------------------
(* Facts about logs and heads. *)

\* A log is a prefix of itself, and stays one of every longer log.
LEMMA PrefixFacts ==
  ASSUME NEW S, NEW s \in Seq(S), NEW t \in Seq(S), NEW e \in S
  PROVE  /\ IsPrefix(s, s) /\ IsPrefix(<<>>, s)
         /\ IsPrefix(s, t) => IsPrefix(s, Append(t, e))
         /\ \A n \in 1..Len(s) : SubSeq(Append(s, e), 1, n) = SubSeq(s, 1, n)
         /\ SubSeq(Append(s, e), 1, Len(s) + 1) = Append(s, e)
<1>1. Append(t, e) \in Seq(S) /\ Len(Append(t, e)) = Len(t) + 1
      /\ Append(s, e) \in Seq(S) /\ Len(Append(s, e)) = Len(s) + 1
  OBVIOUS
<1>2. Len(s) \in Nat /\ Len(t) \in Nat
  OBVIOUS
<1>3. IsPrefix(s, s)
  BY <1>2 DEF IsPrefix
<1>4. IsPrefix(<<>>, s)
  BY <1>2 DEF IsPrefix
<1>5. \A n \in 1..Len(s) : SubSeq(Append(s, e), 1, n) = SubSeq(s, 1, n)
  BY <1>1, <1>2
<1>6. SubSeq(Append(s, e), 1, Len(s) + 1) = Append(s, e)
  BY <1>1, <1>2
<1>7. IsPrefix(s, t) => IsPrefix(s, Append(t, e))
  BY <1>1, <1>2 DEF IsPrefix
<1> QED BY <1>3, <1>4, <1>5, <1>6, <1>7

\* The stored head, and what any page loaded or would read, is observed.
LEMMA ObservedFacts ==
  ASSUME NEW c \in Clients
  PROVE  head \in Observed /\ loaded[c] \in Observed /\ ViewHead(c) \in Observed
BY DEF Observed, ViewHead
-------------------------------------------------------------------------------
(* How the stored head moves. *)

\* The head stays, and with it what is published and retired.
Rests == head' = head /\ published' = published /\ retired' = retired

\* An append commits.
Commits(c) ==
  /\ pc[c] = "appendCas" /\ head = loaded[c] /\ UnderLimit(c)
  /\ head' = Extended(head, mine[c])
  /\ published' = published \cup {mine[c]} /\ retired' = retired

\* A deletion commits.
Marks(c) ==
  /\ pc[c] = "deleteCas" /\ head = loaded[c]
  /\ head' = Tombstone(head, <<c, seq[c]>>)
  /\ published' = published /\ retired' = retired \cup {head.inc}

\* A sweep that left nothing behind completes the marker.
Completes(c) ==
  /\ pc[c] = "sweep" /\ todo[c] = {} /\ head = loaded[c]
  /\ head' = Completed(head)
  /\ published' = published /\ retired' = retired

\* A session is created where none is and none is left.
Installs(c) ==
  /\ head.status = "absent" \/ (head.status = "deleted" /\ head.complete)
  /\ \E n \in 1..MaxIds, fence \in BOOLEAN :
       /\ head' = FreshHead(<<c, n>>, fence)
       /\ Unseen(<<c, n>>) /\ n <= seq'[c]
       /\ fence \/ head.status = "absent"
  /\ published' = published /\ retired' = retired

Moves(c) == Rests \/ Commits(c) \/ Marks(c) \/ Completes(c) \/ Installs(c)

\* What every page's view of the head can become.
Views(c) ==
  /\ known'[c] \in {known[c], NoHead, PublicHead(ViewHead(c)), PublicHead(head')}
  /\ loaded'[c] \in {loaded[c], Absent, ViewHead(c), head'}
  /\ cache'[c].head \in {cache[c].head, Absent, head}
  /\ IndexCache = FALSE => cache'[c] \in {cache[c], NoCache}

OthersKeep(c) ==
  OthersStay(c) /\ \A d \in Clients \ {c} : known'[d] = known[d] /\ cache'[d] = cache[d]

\* Nothing comes into the store but the segment of a running append.
Puts(c) == \A s \in store' : s \in store \/ (pc[c] \in Appending /\ s = mine[c])

StepOf(c) == OthersKeep(c) /\ seq'[c] >= seq[c] /\ Moves(c) /\ Views(c) /\ Puts(c)

\* The log of a live incarnation only grows; another one is new to everybody.
Evolves ==
  head'.status = "active" =>
    \/ /\ head.status = "active" /\ head'.inc = head.inc
       /\ head'.log = head.log \/ \E e \in Events : head'.log = Append(head.log, e)
    \/ head'.log = <<>> /\ Unseen(head'.inc)

\* The head an append publishes parses.
LEMMA CommitWellFormed ==
  ASSUME HeadInv, NEW c \in Clients, Commits(c)
  PROVE  /\ WellFormed(head') /\ head'.status = "active" /\ head.status = "active"
         /\ head'.inc = head.inc /\ head'.fence = head.fence
         /\ head'.segments = head.segments \cup {mine[c]}
         /\ \E e \in Events : head'.log = Append(head.log, e)
<1>1. TypeOK /\ CallOk(c) /\ WellFormed(head) /\ head.segments \subseteq published
  BY ObservedFacts DEF HeadInv, HeadsObserved
<1>2. /\ mine[c] \in Segments /\ mine[c] \notin published /\ head.status = "active"
      /\ \E e \in Events : mine[c].log = Append(head.log, e)
  BY <1>1 DEF CallOk, OwnsSegment, SealedAppend, Owning, Appending, Commits
<1>3. PICK e \in Events : mine[c].log = Append(head.log, e)
  BY <1>2
<1>4. /\ head' \in Heads /\ head'.status = "active" /\ head'.inc = head.inc
      /\ head'.segments = head.segments \cup {mine[c]} /\ head'.complete = head.complete
  BY <1>1, <1>2, ExtendedFacts DEF TypeOK, Commits
<1>5. head'.log = mine[c].log /\ head'.fence = head.fence
  BY <1>1 DEF TypeOK, Heads, Commits, Extended
<1>6. IsFiniteSet(head.segments) /\ ParsesHead(head) /\ head.inc \in Id /\ head.log \in Seq(Events)
  BY <1>1, <1>2 DEF WellFormed, Heads
<1>7. /\ IsFiniteSet(head'.segments)
      /\ Cardinality(head'.segments) = Cardinality(head.segments) + 1
  <2>1. mine[c] \notin head.segments
    BY <1>1, <1>2
  <2> QED BY <1>4, <1>6, <2>1, FS_AddElement
<1>8. Cardinality(head.segments) = Len(head.log) /\ Cardinality(head.segments) < MaxSegments
      /\ Len(head.log) \in Nat /\ MaxSegments \in Nat
  BY <1>6, JournalAssumption DEF ParsesHead, Commits, UnderLimit
<1>9. Len(head'.log) = Len(head.log) + 1
  BY <1>3, <1>5, <1>6
<1>10. ASSUME NEW n \in 1..Len(head'.log)
       PROVE  \E s \in head'.segments : s.log = SubSeq(head'.log, 1, n)
  <2>1. CASE n = Len(head.log) + 1
    <3>1. mine[c].log = SubSeq(head'.log, 1, n)
      BY <1>3, <1>5, <1>6, <2>1, PrefixFacts
    <3> QED BY <1>4, <3>1
  <2>2. CASE n # Len(head.log) + 1
    <3>1. n \in 1..Len(head.log)
      BY <1>8, <1>9, <2>2
    <3>2. PICK s \in head.segments : s.log = SubSeq(head.log, 1, n)
      BY <1>6, <3>1 DEF ParsesHead
    <3>3. SubSeq(head'.log, 1, n) = SubSeq(head.log, 1, n)
      BY <1>3, <1>5, <1>6, <3>1, PrefixFacts
    <3> QED BY <1>4, <3>2, <3>3
  <2> QED BY <2>1, <2>2
<1>11. ParsesHead(head')
  BY <1>7, <1>8, <1>9, <1>10 DEF ParsesHead
<1>12. ~head'.complete
  BY <1>1, <1>2, <1>4 DEF WellFormed
<1> QED BY <1>2, <1>3, <1>4, <1>5, <1>6, <1>7, <1>11, <1>12 DEF WellFormed

\* A new session's head parses.
LEMMA InstallWellFormed ==
  ASSUME NEW id \in Id, NEW fence \in BOOLEAN
  PROVE  /\ WellFormed(FreshHead(id, fence)) /\ FreshHead(id, fence).log = <<>>
         /\ FreshHead(id, fence).fence = fence
<1>1. FreshHead(id, fence).log = <<>> /\ FreshHead(id, fence).fence = fence
  BY DEF FreshHead, Absent
<1>2. IsFiniteSet({}) /\ Cardinality({}) = 0
  BY FS_EmptySet
<1>3. ParsesHead(FreshHead(id, fence))
  <2>1. FreshHead(id, fence).segments = {} /\ Len(FreshHead(id, fence).log) = 0
    BY <1>1, FreshHeadFacts
  <2>2. 1..0 = {} /\ 0 <= MaxSegments
    BY JournalAssumption
  <2> QED BY <1>2, <2>1, <2>2 DEF ParsesHead
<1> QED BY <1>1, <1>2, <1>3, FreshHeadFacts DEF WellFormed

\* Where nothing holds the ID, the head is well formed and names nothing.
LEMMA AbsentWellFormed == WellFormed(Absent) /\ PublicHead(Absent) = NoHead
BY AbsentFacts DEF WellFormed, PublicHead
SeqGrows == \A d \in Clients : seq[d] \in Nat /\ seq'[d] \in Nat /\ seq[d] <= seq'[d]

\* Random IDs are only ever drawn.
LEMMA SeqFacts ==
  ASSUME TypeOK, TypeOK', NEW c \in Clients, StepOf(c)
  PROVE  SeqGrows
<1>1. \A d \in Clients : seq[d] \in Nat /\ seq'[d] \in Nat
  BY JournalAssumption DEF TypeOK
<1> QED BY <1>1 DEF StepOf, OthersKeep, OthersStay, SeqGrows

\* What was shown of an incarnation stays true when the head evolves.
LEMMA StillTrue ==
  ASSUME HeadInv, TypeOK', SeqGrows, Evolves,
         NEW inc, NEW log \in Seq(Events), StaysTrue(inc, log), ~Unseen(inc)
  PROVE  /\ inc \in Id /\ inc[2] <= seq'[inc[1]]
         /\ head'.status = "active" /\ head'.inc = inc => IsPrefix(log, head'.log)
<1>1. PICK d \in Clients, n \in 1..MaxIds : inc = <<d, n>>
  BY DEF StaysTrue, Drawn, Id
<1>2. inc \in Id /\ inc[2] <= seq'[inc[1]]
  BY <1>1, JournalAssumption DEF StaysTrue, Drawn, SeqGrows
<1>3. ASSUME head'.status = "active", head'.inc = inc PROVE IsPrefix(log, head'.log)
  <2>1. /\ head.status = "active" /\ head.inc = inc
        /\ head'.log = head.log \/ \E e \in Events : head'.log = Append(head.log, e)
    BY <1>3 DEF Evolves
  <2>2. IsPrefix(log, head.log) /\ head.log \in Seq(Events)
    BY <2>1 DEF StaysTrue, HeadInv, TypeOK, Heads
  <2>3. CASE head'.log = head.log
    BY <2>2, <2>3
  <2>4. ASSUME NEW e \in Events, head'.log = Append(head.log, e) PROVE IsPrefix(log, head'.log)
    BY <2>2, <2>4, PrefixFacts
  <2> QED BY <2>1, <2>3, <2>4
<1> QED BY <1>2, <1>3

\* What a move of the head leaves.
LEMMA MoveFacts ==
  ASSUME HeadInv, TypeOK', NEW c \in Clients, StepOf(c)
  PROVE  /\ WellFormed(head') /\ head'.segments \subseteq published' /\ Evolves
         /\ head'.status = "active" =>
              /\ head'.inc \in Id /\ head'.inc[2] <= seq'[head'.inc[1]]
              /\ (head.status = "active" /\ head'.inc = head.inc) \/ head'.inc[1] = c
         /\ published \subseteq published'
         /\ \A s \in published' : s \in published \/ (pc[c] \in Appending /\ s = mine[c])
         /\ \A id \in retired' : id \in retired \/ (head.status = "active" /\ id = head.inc)
         /\ NoStrandedCiphertext'
<1>1. /\ TypeOK /\ CallOk(c) /\ WellFormed(head) /\ head.segments \subseteq published
      /\ head.status = "active" => StaysTrue(head.inc, head.log)
      /\ SeqGrows
  BY ObservedFacts, SeqFacts DEF HeadInv, HeadsObserved
<1>2. /\ \A s \in store' : s \in store \/ (pc[c] \in Appending /\ s = mine[c])
      /\ pc[c] \in Appending => mine[c] \notin published
      /\ published \cap store \subseteq head.segments
  BY <1>1 DEF StepOf, Puts, CallOk, SealedAppend, HeadInv, NoStrandedCiphertext
<1>3. head.status = "active" => head.inc \in Id /\ head.inc[2] <= seq'[head.inc[1]]
  <2> SUFFICES ASSUME head.status = "active" PROVE head.inc \in Id /\ head.inc[2] <= seq'[head.inc[1]]
    OBVIOUS
  <2>1. PICK d \in Clients, n \in 1..MaxIds : head.inc = <<d, n>>
    BY <1>1 DEF StaysTrue, Drawn, Id
  <2> QED BY <1>1, <2>1, JournalAssumption DEF StaysTrue, Drawn, SeqGrows
<1>4. CASE Rests
  BY <1>1, <1>2, <1>3, <1>4 DEF Rests, Evolves, NoStrandedCiphertext
<1>5. CASE Commits(c)
  <2>1. /\ WellFormed(head') /\ head'.status = "active" /\ head.status = "active"
        /\ head'.inc = head.inc /\ head'.segments = head.segments \cup {mine[c]}
        /\ \E e \in Events : head'.log = Append(head.log, e)
    BY <1>5, CommitWellFormed
  <2>2. published' = published \cup {mine[c]} /\ retired' = retired /\ pc[c] \in Appending
    BY <1>5 DEF Commits, Appending
  <2>3. NoStrandedCiphertext'
    BY <1>2, <2>1, <2>2 DEF NoStrandedCiphertext
  <2> QED BY <1>1, <1>3, <2>1, <2>2, <2>3 DEF Evolves
<1>6. CASE Marks(c)
  <2>1. <<c, seq[c]>> \in Id /\ head.status = "active"
    BY <1>1, <1>6, JournalAssumption DEF CallOk, DrewIds, LoadedShape, Marks, TypeOK, Id
  <2>2. /\ head' \in Heads /\ head'.status = "deleted" /\ head'.segments = head.segments
        /\ head'.complete = head.complete
    BY <1>1, <1>6, <2>1, TombstoneFacts DEF Marks, TypeOK
  <2>3. published' = published /\ retired' = retired \cup {head.inc}
    BY <1>6 DEF Marks
  <2>4. WellFormed(head')
    BY <1>1, <2>1, <2>2 DEF WellFormed
  <2>5. NoStrandedCiphertext'
    BY <1>2, <2>2, <2>3 DEF NoStrandedCiphertext
  <2> QED BY <1>1, <2>1, <2>2, <2>3, <2>4, <2>5 DEF Evolves
<1>7. CASE Completes(c)
  <2>1. head.status = "deleted" /\ head.segments \cap store = {} /\ pc[c] = "sweep"
    BY <1>1, <1>7 DEF Completes, CallOk, SweptGone
  <2>2. head' \in Heads /\ head'.status = "deleted" /\ head'.segments = {}
    BY <1>1, <1>7, <2>1, CompletedFacts DEF Completes, TypeOK
  <2>3. published' = published /\ retired' = retired
    BY <1>7 DEF Completes
  <2>4. WellFormed(head')
    BY <2>2 DEF WellFormed
  <2>5. NoStrandedCiphertext'
    BY <1>2, <2>1, <2>2, <2>3 DEF NoStrandedCiphertext, Appending
  <2> QED BY <2>2, <2>3, <2>4, <2>5 DEF Evolves
<1>8. CASE Installs(c)
  <2>1. PICK n \in 1..MaxIds, fence \in BOOLEAN :
          head' = FreshHead(<<c, n>>, fence) /\ Unseen(<<c, n>>) /\ n <= seq'[c]
    BY <1>8 DEF Installs
  <2>2. published' = published /\ retired' = retired /\ head.segments = {}
    BY <1>1, <1>8 DEF Installs, WellFormed
  <2>3. <<c, n>> \in Id
    BY DEF Id
  <2>4. /\ WellFormed(head') /\ head'.status = "active" /\ head'.log = <<>>
        /\ head'.segments = {} /\ head'.inc = <<c, n>>
    BY <2>1, <2>3, InstallWellFormed, FreshHeadFacts
  <2>5. NoStrandedCiphertext'
    BY <1>2, <2>2, <2>4 DEF NoStrandedCiphertext
  <2> QED BY <2>1, <2>2, <2>3, <2>4, <2>5 DEF Evolves
<1> QED BY <1>4, <1>5, <1>6, <1>7, <1>8 DEF StepOf, Moves
\* Every head observed after a step was observed before it, or is the new one.
LEMMA ObservedNext ==
  ASSUME NEW c \in Clients, StepOf(c), NEW h \in Observed'
  PROVE  h \in Observed \/ h = Absent \/ h = head'
<1>1. CASE h = head'
  BY <1>1
<1>2. ASSUME NEW d \in Clients, h = loaded'[d] PROVE h \in Observed \/ h = Absent \/ h = head'
  <2>1. CASE d = c
    BY <1>2, <2>1, ObservedFacts DEF StepOf, Views
  <2>2. CASE d # c
    BY <1>2, <2>2, ObservedFacts DEF StepOf, OthersKeep, OthersStay
  <2> QED BY <2>1, <2>2
<1>3. ASSUME NEW d \in Clients, h = cache'[d].head PROVE h \in Observed \/ h = Absent \/ h = head'
  <2>1. cache[d].head \in Observed
    BY DEF Observed
  <2>2. CASE d = c
    BY <1>3, <2>1, <2>2, ObservedFacts DEF StepOf, Views
  <2>3. CASE d # c
    BY <1>3, <2>1, <2>3 DEF StepOf, OthersKeep
  <2> QED BY <2>2, <2>3
<1> QED BY <1>1, <1>2, <1>3 DEF Observed

\* An incarnation somebody observed or was shown is not unseen.
LEMMA SeenFacts ==
  ASSUME NEW h \in Observed, h.status = "active"
  PROVE  ~Unseen(h.inc)
BY DEF Unseen

\* The heads observed after a step.
LEMMA ObservedStep ==
  ASSUME HeadInv, TypeOK', NEW c \in Clients, StepOf(c)
  PROVE  HeadsObserved'
<1> SUFFICES ASSUME NEW h \in Observed'
             PROVE  /\ WellFormed(h) /\ h.segments \subseteq published'
                    /\ h.status = "active" =>
                         /\ h.inc \in Id /\ h.inc[2] <= seq'[h.inc[1]]
                         /\ head'.status = "active" /\ head'.inc = h.inc => IsPrefix(h.log, head'.log)
  BY DEF HeadsObserved, StaysTrue, Drawn
<1>1. /\ WellFormed(head') /\ head'.segments \subseteq published' /\ Evolves
      /\ head'.status = "active" => head'.inc \in Id /\ head'.inc[2] <= seq'[head'.inc[1]]
      /\ published \subseteq published' /\ SeqGrows
  BY MoveFacts, SeqFacts DEF HeadInv
<1>2. CASE h \in Observed
  <2>1. WellFormed(h) /\ h.segments \subseteq published
        /\ (h.status = "active" => StaysTrue(h.inc, h.log))
    BY <1>2 DEF HeadInv, HeadsObserved
  <2>2. h.log \in Seq(Events)
    BY <2>1 DEF WellFormed, Heads
  <2>3. h.status = "active" => ~Unseen(h.inc)
    BY <1>2, SeenFacts
  <2> QED BY <1>1, <2>1, <2>2, <2>3, StillTrue
<1>3. CASE h = Absent
  BY <1>3, AbsentWellFormed, AbsentFacts
<1>4. CASE h = head'
  <2>1. head'.log \in Seq(Events)
    BY DEF TypeOK, Heads
  <2>2. IsPrefix(head'.log, head'.log)
    <3>1. Len(head'.log) \in Nat
      BY <2>1
    <3> QED BY <3>1 DEF IsPrefix
  <2> QED BY <1>1, <1>4, <2>2
<1> QED BY <1>2, <1>3, <1>4, ObservedNext

\* What a caller is shown of an observed head.
LEMMA PublicFacts ==
  ASSUME NEW h, PublicHead(h).inc # NoId
  PROVE  h.status = "active" /\ PublicHead(h).inc = h.inc /\ PublicHead(h).log = h.log
BY DEF PublicHead, NoHead

\* The heads callers were shown after a step.
LEMMA ShownStep ==
  ASSUME HeadInv, TypeOK', NEW c \in Clients, StepOf(c)
  PROVE  HeadsShown'
<1> SUFFICES ASSUME NEW d \in Clients, known'[d].inc # NoId
             PROVE  /\ known'[d].inc \in Id /\ known'[d].inc[2] <= seq'[known'[d].inc[1]]
                    /\ head'.status = "active" /\ head'.inc = known'[d].inc
                         => IsPrefix(known'[d].log, head'.log)
  BY DEF HeadsShown, StaysTrue, Drawn
<1>1. Evolves /\ SeqGrows
      /\ (head'.status = "active" => head'.inc \in Id /\ head'.inc[2] <= seq'[head'.inc[1]])
  BY MoveFacts, SeqFacts DEF HeadInv
<1>2. CASE known'[d] = known[d]
  <2>1. StaysTrue(known[d].inc, known[d].log) /\ ~Unseen(known[d].inc)
        /\ known[d].log \in Seq(Events)
    BY <1>2 DEF HeadInv, HeadsShown, Unseen, TypeOK
  <2> QED BY <1>1, <1>2, <2>1, StillTrue
<1>3. CASE known'[d] = PublicHead(ViewHead(c))
  <2>1. /\ ViewHead(c) \in Observed /\ ViewHead(c).status = "active"
        /\ known'[d].inc = ViewHead(c).inc /\ known'[d].log = ViewHead(c).log
    BY <1>3, ObservedFacts, PublicFacts
  <2>2. WellFormed(ViewHead(c)) /\ StaysTrue(known'[d].inc, known'[d].log)
    BY <2>1 DEF HeadInv, HeadsObserved, StaysTrue
  <2>3. ~Unseen(known'[d].inc) /\ known'[d].log \in Seq(Events)
    BY <2>1, <2>2 DEF Unseen, WellFormed, Heads
  <2> QED BY <1>1, <2>2, <2>3, StillTrue
<1>4. CASE known'[d] = PublicHead(head')
  <2>1. head'.status = "active" /\ known'[d].inc = head'.inc /\ known'[d].log = head'.log
    BY <1>4, PublicFacts
  <2>2. Len(head'.log) \in Nat
    BY DEF TypeOK, Heads
  <2>3. IsPrefix(head'.log, head'.log)
    BY <2>2 DEF IsPrefix
  <2> QED BY <1>1, <2>1, <2>3
<1>5. known'[d] \in {known[d], NoHead, PublicHead(ViewHead(c)), PublicHead(head')}
  BY DEF StepOf, Views, OthersKeep
<1>6. known'[d] # NoHead
  BY DEF NoHead
<1> QED BY <1>2, <1>3, <1>4, <1>5, <1>6

\* Keys and retired incarnations keep naming IDs that were drawn.
LEMMA DrawnStep ==
  ASSUME HeadInv, TypeOK', NEW c \in Clients, StepOf(c)
  PROVE  KeysDrawn' /\ RetiredDrawn'
<1>1. /\ SeqGrows /\ CallOk(c) /\ WellFormed(head)
      /\ head.status = "active" => StaysTrue(head.inc, head.log)
      /\ \A s \in published' : s \in published \/ (pc[c] \in Appending /\ s = mine[c])
      /\ \A id \in retired' : id \in retired \/ (head.status = "active" /\ id = head.inc)
  BY MoveFacts, SeqFacts, ObservedFacts DEF HeadInv, HeadsObserved
<1>2. ASSUME NEW s \in store' \cup published' PROVE s.key[2] <= seq'[s.key[1]]
  <2>1. s \in Segments
    BY DEF TypeOK
  <2>2. PICK d \in Clients, n \in 1..MaxIds : s.key = <<d, n>>
    BY <2>1 DEF Segments, Id
  <2>3. s \in store \cup published \/ (pc[c] \in Appending /\ s = mine[c])
    BY <1>1 DEF StepOf, Puts
  <2>4. n <= seq[d]
    <3>1. CASE s \in store \cup published
      BY <2>2, <3>1 DEF HeadInv, KeysDrawn
    <3>2. CASE pc[c] \in Appending /\ s = mine[c]
      BY <1>1, <2>2, <3>2 DEF CallOk, OwnsSegment, Appending, Owning
    <3> QED BY <2>3, <3>1, <3>2
  <2> QED BY <1>1, <2>2, <2>4, JournalAssumption DEF SeqGrows
<1>3. ASSUME NEW id \in retired' PROVE id \in Id /\ id[2] <= seq'[id[1]]
  <2>1. Drawn(id)
    BY <1>1 DEF HeadInv, RetiredDrawn, StaysTrue
  <2>2. PICK d \in Clients, n \in 1..MaxIds : id = <<d, n>>
    BY <2>1 DEF Drawn, Id
  <2> QED BY <1>1, <2>1, <2>2, JournalAssumption DEF Drawn, SeqGrows
<1> QED BY <1>2, <1>3 DEF KeysDrawn, RetiredDrawn, Drawn
\* An incarnation the new head does not bear stays unseen.
LEMMA UnseenStep ==
  ASSUME HeadInv, TypeOK', NEW c \in Clients, StepOf(c),
         NEW id, Unseen(id), id # NoId, head'.status = "active" => head'.inc # id
  PROVE  /\ id \notin retired' /\ \A d \in Clients : known'[d].inc # id
         /\ \A h \in Observed' : h.status = "active" => h.inc # id
<1>1. id \notin retired'
  <2>1. \A x \in retired' : x \in retired \/ (head.status = "active" /\ x = head.inc)
    BY MoveFacts
  <2> QED BY <2>1, ObservedFacts DEF Unseen
<1>2. ASSUME NEW d \in Clients, known'[d].inc = id PROVE FALSE
  <2>1. known'[d] \in {known[d], NoHead, PublicHead(ViewHead(c)), PublicHead(head')}
    BY DEF StepOf, Views, OthersKeep
  <2>2. known'[d] # NoHead /\ known'[d] # known[d]
    BY <1>2 DEF NoHead, Unseen
  <2>3. CASE known'[d] = PublicHead(ViewHead(c))
    BY <1>2, <2>3, ObservedFacts, PublicFacts DEF Unseen
  <2>4. CASE known'[d] = PublicHead(head')
    BY <1>2, <2>4, PublicFacts
  <2> QED BY <2>1, <2>2, <2>3, <2>4
<1>3. ASSUME NEW h \in Observed', h.status = "active", h.inc = id PROVE FALSE
  BY <1>3, ObservedNext, AbsentFacts DEF Unseen
<1> QED BY <1>1, <1>2, <1>3

\* An ID nobody has drawn is unseen.
LEMMA UndrawnUnseen ==
  ASSUME HeadInv, NEW c \in Clients, NEW n \in Nat, n > seq[c]
  PROVE  Unseen(<<c, n>>)
<1>1. ~Drawn(<<c, n>>) /\ <<c, n>> # NoId
  BY JournalAssumption DEF Drawn, HeadInv, TypeOK, NoId
<1>2. <<c, n>> \notin retired
  BY <1>1 DEF HeadInv, RetiredDrawn
<1>3. \A d \in Clients : known[d].inc # <<c, n>>
  BY <1>1 DEF HeadInv, HeadsShown, StaysTrue
<1>4. \A h \in Observed : h.status = "active" => h.inc # <<c, n>>
  BY <1>1 DEF HeadInv, HeadsObserved, StaysTrue
<1> QED BY <1>2, <1>3, <1>4 DEF Unseen

\* A step of one page keeps what is said of the others' calls.
LEMMA OtherCalls ==
  ASSUME HeadInv, TypeOK', NEW c \in Clients, StepOf(c), NEW d \in Clients \ {c}
  PROVE  CallOk(d)'
<1>1. /\ pc'[d] = pc[d] /\ mine'[d] = mine[d] /\ loaded'[d] = loaded[d] /\ todo'[d] = todo[d]
      /\ seq'[d] = seq[d] /\ op'[d] = op[d] /\ known'[d] = known[d]
  BY DEF StepOf, OthersKeep, OthersStay
<1>2. TypeOK /\ CallOk(d) /\ CallOk(c) /\ loaded[d].segments \subseteq published
  BY ObservedFacts DEF HeadInv, HeadsObserved
<1>3. /\ \A s \in published' : s \in published \/ (pc[c] \in Appending /\ s = mine[c])
      /\ \A s \in store' : s \in store \/ (pc[c] \in Appending /\ s = mine[c])
      /\ pc[c] \in Appending => mine[c] \notin published /\ mine[c].key = <<c, seq[c]>>
  BY <1>2, MoveFacts DEF StepOf, Puts, CallOk, SealedAppend, OwnsSegment, Owning, Appending
<1>4. OwnsSegment(d)' /\ LoadedShape(d)' /\ Deleting(d)' /\ DrewIds(d)' /\ Informed(d)'
  BY <1>1, <1>2 DEF CallOk, OwnsSegment, LoadedShape, DrewIds, Deleting, Informed
<1>5. SealedAppend(d)'
  <2>1. pc[d] \in Appending => mine[d].key[1] = d
    BY <1>2 DEF CallOk, OwnsSegment, Appending, Owning
  <2> QED BY <1>1, <1>2, <1>3, <2>1 DEF CallOk, SealedAppend
<1>6. SweptGone(d)'
  BY <1>1, <1>2, <1>3 DEF CallOk, SweptGone
<1>7. Reserved(d)'
  <2> SUFFICES ASSUME Creating(d) PROVE Unseen(<<d, seq[d]>>)'
    BY <1>1 DEF Reserved, Creating
  <2>1. Unseen(<<d, seq[d]>>) /\ <<d, seq[d]>> # NoId
    BY <1>2 DEF CallOk, Reserved, NoId
  <2>2. head'.status = "active" => head'.inc # <<d, seq[d]>>
    <3>1. head'.status = "active" =>
            (head.status = "active" /\ head'.inc = head.inc) \/ head'.inc[1] = c
      BY MoveFacts
    <3> QED BY <2>1, <3>1, ObservedFacts DEF Unseen
  <2>3. /\ <<d, seq[d]>> \notin retired' /\ \A e \in Clients : known'[e].inc # <<d, seq[d]>>
        /\ \A h \in Observed' : h.status = "active" => h.inc # <<d, seq[d]>>
    BY <2>1, <2>2, UnseenStep
  <2> QED BY <1>1, <2>3 DEF Unseen
<1> QED BY <1>4, <1>5, <1>6, <1>7 DEF CallOk

\* Where nothing is stale or removed, the first head of a session stays the first.
LEMMA FirstStep ==
  ASSUME HeadInv, TypeOK', NEW c \in Clients, StepOf(c)
  PROVE  FirstOfSession'
<1> SUFFICES ASSUME IndexCache = FALSE, LegacyCleanup = FALSE
             PROVE  /\ NoneCached'
                    /\ head'.status = "absent" => \A d \in Clients : known'[d].inc = NoId
                    /\ head'.status = "active" /\ ~head'.fence =>
                         \A d \in Clients : known'[d].inc \in {NoId, head'.inc}
  BY DEF FirstOfSession
<1>1. /\ NoneCached
      /\ head.status = "absent" => \A d \in Clients : known[d].inc = NoId
      /\ head.status = "active" /\ ~head.fence =>
           \A d \in Clients : known[d].inc \in {NoId, head.inc}
  BY DEF HeadInv, FirstOfSession
<1>2. NoneCached' /\ ViewHead(c) = head
  BY <1>1, AbsentFacts, FreshView DEF NoneCached, StepOf, OthersKeep, Views
<1>3. \A d \in Clients : known'[d] \in {known[d], NoHead, PublicHead(head), PublicHead(head')}
  BY <1>2 DEF StepOf, OthersKeep, Views
<1>4. TypeOK /\ CallOk(c)
  BY DEF HeadInv
<1>5. \A h : PublicHead(h).inc = IF h.status = "active" THEN h.inc ELSE NoId
  BY DEF PublicHead, NoHead
<1>6. NoHead.inc = NoId
  BY DEF NoHead
<1>7. CASE Rests
  BY <1>1, <1>2, <1>3, <1>5, <1>6, <1>7 DEF Rests
<1>8. CASE Commits(c)
  <2>1. head'.status = "active" /\ head.status = "active" /\ head'.inc = head.inc /\ head'.fence = head.fence
    BY <1>8, CommitWellFormed
  <2> QED BY <1>1, <1>2, <1>3, <1>5, <1>6, <2>1
<1>9. CASE Marks(c) \/ Completes(c)
  <2>1. head'.status = "deleted"
    <3>1. CASE Marks(c)
      BY <1>4, <3>1 DEF Marks, Tombstone, TypeOK, Heads
    <3>2. CASE Completes(c)
      BY <1>4, <3>2, CompletedFacts DEF Completes, TypeOK, CallOk, SweptGone
    <3> QED BY <1>9, <3>1, <3>2
  <2> QED BY <1>2, <2>1
<1>10. CASE Installs(c)
  <2>1. PICK n \in 1..MaxIds, fence \in BOOLEAN :
          head' = FreshHead(<<c, n>>, fence) /\ (fence \/ head.status = "absent")
    BY <1>10 DEF Installs
  <2>2. head'.status = "active" /\ head'.fence = fence
    BY <2>1, InstallWellFormed, FreshHeadFacts DEF Id
  <2> QED BY <1>1, <1>2, <1>3, <1>5, <1>6, <2>1, <2>2
<1> QED BY <1>7, <1>8, <1>9, <1>10 DEF StepOf, Moves

\* A step of a page keeps the invariant if it keeps what is said of its own call.
LEMMA PageStep ==
  ASSUME HeadInv, TypeOK', NEW c \in Clients, StepOf(c), CallOk(c)'
  PROVE  HeadInv'
<1>1. \A d \in Clients : CallOk(d)'
  BY OtherCalls
<1> QED BY <1>1, ObservedStep, ShownStep, DrawnStep, FirstStep, MoveFacts DEF HeadInv
-------------------------------------------------------------------------------
(* The actions, by what they do to the page's call. *)

Caching(c) ==
  DropCache(c) \/ CacheAfterThrow(c) \/ UNCHANGED cache \/ RefreshCache(c)

\* A page's index is empty, what it was, or the store as it is.
LEMMA CachingFacts ==
  ASSUME TypeOK, NEW c \in Clients, Caching(c)
  PROVE  /\ cache' \in [Clients -> CacheType]
         /\ \A d \in Clients \ {c} : cache'[d] = cache[d]
         /\ cache'[c].head \in {cache[c].head, Absent, head}
         /\ IndexCache = FALSE => cache'[c] \in {cache[c], NoCache}
<1>1. cache \in [Clients -> CacheType] /\ Snapshot \in CacheType /\ NoCache \in CacheType
  BY AbsentFacts DEF TypeOK, CacheType, Snapshot
<1>2. NoCache.head = Absent /\ Snapshot.head = head
  BY DEF NoCache, Snapshot
<1>3. CASE UNCHANGED cache
  BY <1>1, <1>3
<1>4. CASE cache' = [cache EXCEPT ![c] = NoCache]
  BY <1>1, <1>2, <1>4
<1>5. CASE IndexCache /\ cache' = [cache EXCEPT ![c] = Snapshot]
  BY <1>1, <1>2, <1>5
<1> QED BY <1>3, <1>4, <1>5 DEF Caching, DropCache, CacheAfterThrow, RefreshCache

\* The head a page would read.
LEMMA ViewFacts ==
  ASSUME HeadInv, NEW c \in Clients
  PROVE  /\ WellFormed(ViewHead(c)) /\ ViewHead(c) \in Heads
         /\ ViewHead(c).segments \in SUBSET Segments /\ ViewHead(c).segments \subseteq published
         /\ PublicHead(ViewHead(c)) \in PublicType
<1>1. WellFormed(ViewHead(c)) /\ ViewHead(c).segments \subseteq published
  BY ObservedFacts DEF HeadInv, HeadsObserved
<1>2. ViewHead(c) \in Heads
  BY <1>1 DEF WellFormed
<1> QED BY <1>1, <1>2, PublicHeadType DEF Heads

\* The types of what a move writes.
LEMMA MoveTypes ==
  ASSUME HeadInv, NEW c \in Clients, Moves(c)
  PROVE  head' \in Heads /\ published' \in SUBSET Segments /\ retired' \in SUBSET Id
<1>1. TypeOK /\ CallOk(c) /\ WellFormed(head)
  BY ObservedFacts DEF HeadInv, HeadsObserved
<1>2. CASE Rests
  BY <1>1, <1>2 DEF Rests, TypeOK
<1>3. CASE Commits(c)
  <2>1. mine[c] \in Segments
    BY <1>1, <1>3 DEF Commits, CallOk, OwnsSegment, Owning
  <2> QED BY <1>1, <1>3, <2>1, ExtendedFacts DEF Commits, TypeOK
<1>4. CASE Marks(c)
  <2>1. <<c, seq[c]>> \in Id /\ head.inc \in Id
    BY <1>1, <1>4, JournalAssumption DEF CallOk, DrewIds, LoadedShape, Marks, TypeOK, Id
  <2> QED BY <1>1, <1>4, <2>1, TombstoneFacts DEF Marks, TypeOK
<1>5. CASE Completes(c)
  BY <1>1, <1>5, CompletedFacts DEF Completes, TypeOK
<1>6. CASE Installs(c)
  <2>1. PICK n \in 1..MaxIds, fence \in BOOLEAN : head' = FreshHead(<<c, n>>, fence)
    BY <1>6 DEF Installs
  <2>2. <<c, n>> \in Id
    BY DEF Id
  <2> QED BY <1>1, <1>6, <2>1, <2>2, FreshHeadFacts DEF Installs, TypeOK
<1> QED BY <1>2, <1>3, <1>4, <1>5, <1>6 DEF Moves

\* A call that has returned promises nothing.
LEMMA IdleCall ==
  ASSUME NEW c \in Clients, pc'[c] \in {"idle", "reading"}
  PROVE  CallOk(c)'
<1>1. OwnsSegment(c)' /\ SealedAppend(c)' /\ SweptGone(c)' /\ LoadedShape(c)' /\ Deleting(c)' /\ DrewIds(c)'
  BY DEF OwnsSegment, SealedAppend, SweptGone, LoadedShape, DrewIds, Deleting, Owning, Appending
<1>2. Informed(c)' /\ Reserved(c)'
  BY DEF Informed, Reserved, Creating, Appending
<1> QED BY <1>1, <1>2 DEF CallOk

KnownStep(c) ==
  \/ UNCHANGED known
  \/ known' = [known EXCEPT ![c] = NoHead]
  \/ known' = [known EXCEPT ![c] = PublicHead(ViewHead(c))]
  \/ known' = [known EXCEPT ![c] = PublicHead(head')]

\* What callers know keeps its type.
LEMMA KnownFacts ==
  ASSUME HeadInv, NEW c \in Clients, KnownStep(c), head' \in Heads
  PROVE  /\ known' \in [Clients -> PublicType]
         /\ \A d \in Clients \ {c} : known'[d] = known[d]
         /\ known'[c] \in {known[c], NoHead, PublicHead(ViewHead(c)), PublicHead(head')}
<1>1. known \in [Clients -> PublicType]
  BY DEF HeadInv, TypeOK, PublicType
<1>2. NoHead \in PublicType /\ PublicHead(ViewHead(c)) \in PublicType /\ PublicHead(head') \in PublicType
  BY ViewFacts, PublicHeadType DEF NoHead, PublicType
<1> QED BY <1>1, <1>2 DEF KnownStep

\* A call that ends, whatever it has committed.
LEMMA LeaveStep ==
  ASSUME HeadInv, NEW c \in Clients, Leave(c), UNCHANGED seq, Caching(c), KnownStep(c),
         Moves(c), store' \subseteq store, faults' \in 0..MaxFaults
  PROVE  HeadInv'
<1>1. TypeOK /\ seq[c] \in Nat
  BY JournalAssumption DEF HeadInv, TypeOK
<1>2. /\ head' \in Heads /\ published' \in SUBSET Segments /\ retired' \in SUBSET Id
      /\ known' \in [Clients -> PublicType] /\ cache' \in [Clients -> CacheType]
  BY <1>1, MoveTypes, KnownFacts, CachingFacts
<1>3. TypeOK'
  BY <1>1, <1>2, LeaveFacts DEF TypeOK, PublicType, CacheType
<1>4. pc'[c] = "idle" /\ loaded'[c] = Absent
  BY <1>1 DEF Leave, TypeOK
<1>5. OthersKeep(c)
  BY <1>1, <1>2, LeaveFacts, KnownFacts, CachingFacts DEF OthersKeep, OthersStay
<1>6. Views(c) /\ Puts(c)
  BY <1>1, <1>2, <1>4, KnownFacts, CachingFacts DEF Views, Puts
<1> QED BY <1>1, <1>3, <1>4, <1>5, <1>6, IdleCall, PageStep DEF StepOf

\* A call that goes on to its next await with the same locals.
LEMMA GotoStep ==
  ASSUME HeadInv, NEW c \in Clients, NEW label \in Labels, Goto(c, label), Caching(c),
         UNCHANGED <<op, known, loaded, mine, todo, tries, seq>>, Moves(c), Puts(c),
         store' \in SUBSET Segments, faults' \in 0..MaxFaults, CallOk(c)'
  PROVE  HeadInv'
<1>1. TypeOK /\ seq[c] \in Nat
  BY JournalAssumption DEF HeadInv, TypeOK
<1>2. /\ head' \in Heads /\ published' \in SUBSET Segments /\ retired' \in SUBSET Id
      /\ cache' \in [Clients -> CacheType]
  BY <1>1, MoveTypes, CachingFacts
<1>3. TypeOK'
  BY <1>1, <1>2, GotoFacts DEF TypeOK, PublicType, CacheType
<1>4. OthersKeep(c)
  BY <1>1, GotoFacts, CachingFacts DEF OthersKeep, OthersStay
<1>5. Views(c)
  BY <1>1, CachingFacts DEF Views
<1> QED BY <1>1, <1>3, <1>4, <1>5, PageStep DEF StepOf
\* A failure is counted, or there is none.
LEMMA FaultFacts ==
  ASSUME TypeOK, Fault \/ UNCHANGED faults
  PROVE  faults' \in 0..MaxFaults
BY JournalAssumption DEF TypeOK, Fault

\* A compare-and-swap that may or may not have been applied moves the head or leaves it.
LEMMA CasMoves ==
  ASSUME HeadInv, NEW c \in Clients
  PROVE  /\ AppendCas(c) \/ AppendCasThrows(c) => Moves(c)
         /\ DeleteCas(c) \/ DeleteThrows(c) => Moves(c)
         /\ Retire(c) \/ RetireThrows(c) => Moves(c)
         /\ CreateRestore(c) \/ CreateRestoreThrows(c) => Moves(c)
<1>1. TypeOK /\ CallOk(c)
  BY DEF HeadInv
<1>2. AppendCas(c) \/ AppendCasThrows(c) => Moves(c)
  <2>1. AppendCas(c) => Commits(c)
    BY DEF AppendCas, CasUpdated, Commits
  <2>2. AppendCasThrows(c) => Rests \/ Commits(c)
    BY DEF AppendCasThrows, CasThrows, CasUpdated, Commits, Rests
  <2> QED BY <2>1, <2>2 DEF Moves
<1>3. DeleteCas(c) \/ DeleteThrows(c) => Moves(c)
  <2>1. DeleteCas(c) => Marks(c)
    BY DEF DeleteCas, CasUpdated, Marks, Marker
  <2>2. DeleteThrows(c) => Rests \/ Marks(c)
    BY DEF DeleteThrows, CasThrows, CasUpdated, Marks, Marker, Rests
  <2> QED BY <2>1, <2>2 DEF Moves
<1>4. Retire(c) \/ RetireThrows(c) => Rests \/ Completes(c)
  BY DEF Retire, RetireThrows, CasThrows, CasUpdated, CasRefused, Completes, Rests, histVars
<1>5. CreateRestore(c) \/ CreateRestoreThrows(c) => Rests \/ Installs(c)
  <2> SUFFICES ASSUME CreateRestore(c) \/ CreateRestoreThrows(c), head' # head PROVE Installs(c)
    BY DEF CreateRestore, CreateRestoreThrows, histVars, Rests
  <2>1. /\ pc[c] \in {"createPut", "createCas"} /\ head = loaded[c]
        /\ head' = FreshHead(<<c, seq[c]>>, TRUE)
        /\ UNCHANGED <<seq, published, retired>>
    BY DEF CreateRestore, CreateRestoreThrows, CasThrows, CasUpdated, CasRefused, Restored, histVars
  <2>2. Unseen(<<c, seq[c]>>) /\ seq[c] \in 1..MaxIds
    BY <1>1, <2>1, JournalAssumption DEF CallOk, Reserved, Creating, DrewIds, TypeOK
  <2>3. head.status = "absent" \/ (head.status = "deleted" /\ head.complete)
    BY <1>1, <2>1 DEF CallOk, LoadedShape
  <2>4. seq[c] <= seq'[c]
    BY <2>1, <2>2
  <2> QED BY <2>1, <2>2, <2>3, <2>4 DEF Installs
<1> QED BY <1>2, <1>3, <1>4, <1>5 DEF Moves

\* Steps at which a call ends.
Leaving(c) ==
  \/ AppendAbort(c) \/ ReclaimCheck(c) \/ CreateGet(c) \/ ReadSegment(c)
  \/ Retire(c) \/ CreateRestore(c)
  \/ DeleteRefused(c) \/ CreateGivesUp(c) \/ ReadThrows(c) \/ Crash(c)
  \/ AppendCas(c) \/ ReclaimTrash(c) \/ DeleteThrows(c) \/ SweepUnconfirmed(c)
  \/ RetireThrows(c) \/ CreateRestoreThrows(c)

\* Every way in which a call ends keeps the invariant.
LEMMA LeavingHead ==
  ASSUME HeadInv, NEW c \in Clients, Leave(c), Leaving(c)
  PROVE  HeadInv'
<1>1. TypeOK
  BY DEF HeadInv
<1>2. CASE AppendAbort(c) \/ ReclaimCheck(c) \/ CreateGet(c) \/ ReadSegment(c) \/ CreateGivesUp(c)
           \/ DeleteRefused(c) \/ ReadThrows(c) \/ Crash(c)
  <2>1. UNCHANGED <<storeVars, seq, histVars>> /\ Caching(c) /\ KnownStep(c) /\ (Fault \/ UNCHANGED faults)
    BY <1>2 DEF AppendAbort, ReclaimCheck, CreateGet, ReadSegment, CreateGivesUp, DeleteRefused,
       ReadThrows, Crash, Caching, KnownStep
  <2> QED BY <1>1, <2>1, FaultFacts, LeaveStep DEF Moves, Rests, storeVars, histVars
<1>3. CASE ReclaimTrash(c)
  <2>1. Fault \/ UNCHANGED faults
    BY <1>3 DEF ReclaimTrash, NoFault
  <2>2. UNCHANGED <<head, known, seq, histVars>> /\ DropCache(c) /\ store' \subseteq store
    BY <1>3 DEF ReclaimTrash
  <2> QED BY <1>1, <2>1, <2>2, FaultFacts, LeaveStep DEF Moves, Rests, histVars, Caching, KnownStep
<1>4. CASE SweepUnconfirmed(c)
  <2>1. (Fault \/ UNCHANGED faults) /\ store' \subseteq store
    BY <1>4 DEF SweepUnconfirmed, TrashUnconfirmed, NoFault
  <2>2. UNCHANGED <<head, known, seq, histVars>> /\ DropCache(c)
    BY <1>4 DEF SweepUnconfirmed
  <2> QED BY <1>1, <2>1, <2>2, FaultFacts, LeaveStep DEF Moves, Rests, histVars, Caching, KnownStep
<1>5. CASE AppendCas(c)
  <2>1. /\ UNCHANGED <<store, seq, faults>> /\ DropCache(c)
        /\ known' = [known EXCEPT ![c] = PublicHead(head')]
    BY <1>5 DEF AppendCas, CasUpdated
  <2> QED BY <1>1, <1>5, <2>1, FaultFacts, CasMoves, LeaveStep DEF Caching, KnownStep
<1>6. CASE Retire(c) \/ CreateRestore(c) \/ DeleteThrows(c) \/ RetireThrows(c) \/ CreateRestoreThrows(c)
  <2>1. UNCHANGED <<store, known, seq>> /\ Caching(c) /\ (Fault \/ UNCHANGED faults)
    BY <1>6 DEF Retire, CreateRestore, DeleteThrows, RetireThrows, CreateRestoreThrows, Caching
  <2> QED BY <1>1, <1>6, <2>1, FaultFacts, CasMoves, LeaveStep DEF KnownStep
<1> QED BY <1>2, <1>3, <1>4, <1>5, <1>6 DEF Leaving

\* An append that is cleaning up owns its segment and promises nothing else.
LEMMA ReclaimCall ==
  ASSUME NEW c \in Clients, CallOk(c), pc[c] \in Owning, pc'[c] \in {"reclaim", "reclaimTrash"},
         UNCHANGED <<mine, seq>>
  PROVE  CallOk(c)'
<1>1. OwnsSegment(c)'
  BY DEF CallOk, OwnsSegment
<1>2. SealedAppend(c)' /\ SweptGone(c)' /\ LoadedShape(c)' /\ Deleting(c)' /\ DrewIds(c)'
  BY DEF SealedAppend, SweptGone, LoadedShape, DrewIds, Deleting, Appending
<1>3. Informed(c)' /\ Reserved(c)'
  BY DEF Informed, Reserved, Creating, Appending
<1> QED BY <1>1, <1>2, <1>3 DEF CallOk

\* An append's own steps, up to the one that ends it.
LEMMA AppendStepsHead ==
  ASSUME HeadInv, NEW c \in Clients,
         \/ AppendPut(c) \/ AppendPutThrows(c) \/ AppendOverLimit(c) \/ AppendCasRefused(c)
         \/ AppendCasThrows(c)
         \/ (AppendAbort(c) \/ ReclaimCheck(c)) /\ ~Leave(c)
  PROVE  HeadInv'
<1>1. TypeOK /\ CallOk(c)
  BY DEF HeadInv
<1>2. pc[c] \in Owning /\ mine[c] \in Segments
  BY <1>1 DEF AppendPut, AppendPutThrows, AppendOverLimit, AppendCasRefused, AppendCasThrows,
     AppendAbort, ReclaimCheck, Owning, CallOk, OwnsSegment
<1>3. CASE AppendPut(c)
  <2>1. pc'[c] = "appendCas" /\ "appendCas" \in Labels /\ pc[c] = "appendPut"
    BY <1>1, <1>3 DEF AppendPut, Goto, TypeOK, Labels
  <2>2. Rests /\ Puts(c) /\ store' \in SUBSET Segments
    BY <1>1, <1>2, <1>3 DEF AppendPut, Rests, Puts, Appending, TypeOK, histVars
  <2>3. UNCHANGED <<op, known, loaded, mine, todo, tries, seq, faults, published>>
    BY <1>3 DEF AppendPut, histVars
  <2>4. OwnsSegment(c)' /\ SealedAppend(c)' /\ Informed(c)'
    BY <1>1, <2>1, <2>3 DEF CallOk, OwnsSegment, SealedAppend, Informed, Appending, Owning
  <2>5. SweptGone(c)' /\ LoadedShape(c)' /\ Deleting(c)' /\ DrewIds(c)' /\ Reserved(c)'
    BY <2>1 DEF SweptGone, LoadedShape, DrewIds, Deleting, Reserved, Creating
  <2>6. CallOk(c)'
    BY <2>4, <2>5 DEF CallOk
  <2> QED BY <1>1, <1>3, <2>1, <2>2, <2>3, <2>6, FaultFacts, GotoStep DEF AppendPut, Caching, Moves
<1>4. CASE AppendPutThrows(c)
  <2>1. pc'[c] = "reclaim" /\ "reclaim" \in Labels /\ Goto(c, "reclaim")
    BY <1>1, <1>4 DEF AppendPutThrows, Goto, TypeOK, Labels
  <2>2. Rests /\ Puts(c) /\ store' \in SUBSET Segments
    BY <1>1, <1>2, <1>4 DEF AppendPutThrows, Rests, Puts, Appending, TypeOK, histVars
  <2>3. UNCHANGED <<op, known, loaded, mine, todo, tries, seq>> /\ Fault /\ Caching(c)
    BY <1>4 DEF AppendPutThrows, Caching
  <2> QED BY <1>1, <1>2, <2>1, <2>2, <2>3, FaultFacts, ReclaimCall, GotoStep DEF Moves
<1>5. CASE \/ AppendOverLimit(c) \/ AppendCasRefused(c) \/ AppendCasThrows(c)
           \/ (AppendAbort(c) \/ ReclaimCheck(c)) /\ ~Leave(c)
  <2>1. PICK label \in {"reclaim", "reclaimTrash"} : Goto(c, label)
    BY <1>5 DEF AppendOverLimit, AppendCasRefused, AppendCasThrows, AppendAbort, ReclaimCheck
  <2>2. pc'[c] = label /\ label \in Labels
    BY <1>1, <2>1 DEF Goto, TypeOK, Labels
  <2>3. Moves(c)
    BY <1>5, CasMoves DEF AppendOverLimit, AppendCasRefused, CasRefused, AppendAbort, ReclaimCheck,
       Moves, Rests, storeVars, histVars
  <2>4. UNCHANGED <<store, op, known, loaded, mine, todo, tries, seq>> /\ (Fault \/ UNCHANGED faults)
        /\ Caching(c)
    BY <1>5 DEF AppendOverLimit, AppendCasRefused, AppendCasThrows, AppendAbort, ReclaimCheck,
       Caching, storeVars
  <2> QED BY <1>1, <1>2, <2>1, <2>2, <2>3, <2>4, FaultFacts, ReclaimCall, GotoStep DEF Puts, TypeOK
<1> QED BY <1>3, <1>4, <1>5
\* What a page draws is new to everybody.
LEMMA DrawNew ==
  ASSUME HeadInv, NEW c \in Clients, NEW k \in {1, 2}, DrawIds(c, k)
  PROVE  /\ seq' \in [Clients -> 0..MaxIds] /\ seq'[c] = seq[c] + k /\ seq'[c] >= seq[c]
         /\ seq'[c] \in 1..MaxIds /\ seq[c] + 1 \in 1..MaxIds /\ seq[c] + 1 <= seq'[c]
         /\ \A d \in Clients \ {c} : seq'[d] = seq[d]
         /\ NewId(c) = <<c, seq[c] + 1>> /\ NewId(c) \in Id
         /\ \A s \in store \cup published : s.key # NewId(c)
         /\ Unseen(<<c, seq[c] + 1>>) /\ Unseen(<<c, seq'[c]>>)
<1>1. seq \in [Clients -> 0..MaxIds] /\ seq[c] \in Nat
  BY JournalAssumption DEF HeadInv, TypeOK
<1>2. /\ seq' \in [Clients -> 0..MaxIds] /\ seq'[c] = seq[c] + k /\ seq'[c] >= seq[c]
      /\ seq'[c] \in 1..MaxIds /\ seq[c] + 1 \in 1..MaxIds /\ seq[c] + 1 <= seq'[c]
      /\ \A d \in Clients \ {c} : seq'[d] = seq[d]
  BY <1>1, JournalAssumption DEF DrawIds
<1>3. NewId(c) = <<c, seq[c] + 1>> /\ NewId(c) \in Id
  BY <1>1, <1>2 DEF NewId, Id
<1>4. ASSUME NEW s \in store \cup published, s.key = NewId(c) PROVE FALSE
  BY <1>1, <1>3, <1>4 DEF HeadInv, KeysDrawn
<1>5. seq[c] + 1 \in Nat /\ seq'[c] \in Nat /\ seq[c] + 1 > seq[c] /\ seq'[c] > seq[c]
  BY <1>1, <1>2
<1>6. Unseen(<<c, seq[c] + 1>>) /\ Unseen(<<c, seq'[c]>>)
  BY <1>5, UndrawnUnseen
<1> QED BY <1>2, <1>3, <1>4, <1>6

\* Reading the head, refreshing the index: the call stays where it is.
LEMMA ReadsHead ==
  ASSUME HeadInv, NEW c \in Clients, GetSession(c) \/ RefreshCache(c)
  PROVE  HeadInv'
<1>1. TypeOK /\ CallOk(c) /\ seq[c] \in Nat
  BY JournalAssumption DEF HeadInv, TypeOK
<1>2. /\ UNCHANGED <<head, store, pc, op, loaded, mine, todo, tries, seq, faults, published, retired>>
      /\ Caching(c) /\ KnownStep(c)
  BY DEF GetSession, RefreshCache, Caching, KnownStep, storeVars, callVars, histVars
<1>3. head' \in Heads
  BY <1>1, <1>2 DEF TypeOK
<1>4. known' \in [Clients -> PublicType] /\ cache' \in [Clients -> CacheType]
  BY <1>1, <1>2, <1>3, KnownFacts, CachingFacts
<1>5. TypeOK'
  BY <1>1, <1>2, <1>4 DEF TypeOK, PublicType, CacheType
<1>6. OthersKeep(c) /\ Views(c) /\ Puts(c) /\ Moves(c) /\ seq'[c] >= seq[c]
  <2>1. OthersKeep(c)
    BY <1>1, <1>2, <1>3, KnownFacts, CachingFacts DEF OthersKeep, OthersStay
  <2>2. Views(c)
    BY <1>1, <1>2, <1>3, KnownFacts, CachingFacts DEF Views
  <2>3. Puts(c) /\ Rests /\ seq'[c] >= seq[c]
    BY <1>1, <1>2 DEF Puts, Rests
  <2> QED BY <2>1, <2>2, <2>3 DEF Moves
<1>7. StepOf(c)
  BY <1>6 DEF StepOf
<1>8. CallOk(c)'
  <2>1. CASE GetSession(c)
    <3>1. pc'[c] = "idle"
      BY <1>2, <2>1 DEF GetSession
    <3> QED BY <3>1, IdleCall
  <2>2. CASE RefreshCache(c)
    <3>1. known' = known
      BY <2>2 DEF RefreshCache, callVars
    <3>2. OwnsSegment(c)' /\ SealedAppend(c)' /\ Informed(c)' /\ SweptGone(c)' /\ LoadedShape(c)' /\ Deleting(c)' /\ DrewIds(c)'
      BY <1>1, <1>2, <3>1 DEF CallOk, OwnsSegment, SealedAppend, Informed, SweptGone, LoadedShape, DrewIds, Deleting
    <3>3. Reserved(c)'
      <4> SUFFICES ASSUME Creating(c) PROVE Unseen(<<c, seq[c]>>)'
        BY <1>2 DEF Reserved, Creating
      <4>1. Unseen(<<c, seq[c]>>) /\ <<c, seq[c]>> # NoId
        BY <1>1 DEF CallOk, Reserved, NoId
      <4>2. head'.status = "active" => head'.inc # <<c, seq[c]>>
        BY <1>2, <4>1, ObservedFacts DEF Unseen
      <4> QED BY <1>2, <1>5, <1>7, <4>1, <4>2, UnseenStep DEF Unseen
    <3> QED BY <3>2, <3>3 DEF CallOk
  <2> QED BY <2>1, <2>2
<1> QED BY <1>5, <1>7, <1>8, PageStep

\* Whoever passes the checks of append or deleteSession was shown the head it loads.
LEMMA MatchInforms ==
  ASSUME HeadInv, NEW c \in Clients, Tokened,
         ViewHead(c).status = "active", MatchesHead(c, ViewHead(c))
  PROVE  known[c] = PublicHead(ViewHead(c))
<1>1. known[c].inc # NoId /\ known[c].log = ViewHead(c).log /\ MatchesIncarnationFence(c, ViewHead(c))
  BY DEF MatchesHead
<1>2. known[c].inc = ViewHead(c).inc
  <2>1. CASE c \notin Tokenless
    BY <1>1, <2>1 DEF MatchesIncarnationFence
  <2>2. CASE c \in Tokenless
    <3>1. ~ViewHead(c).fence /\ IndexCache = FALSE /\ LegacyCleanup = FALSE
      BY <1>1, <2>2 DEF MatchesIncarnationFence, Tokened
    <3>2. NoneCached
      BY <3>1 DEF HeadInv, FirstOfSession
    <3>3. ViewHead(c) = head
      BY <3>2, FreshView
    <3> QED BY <1>1, <3>1, <3>3 DEF HeadInv, FirstOfSession
  <2> QED BY <2>1, <2>2
<1>3. known[c] = [inc |-> known[c].inc, log |-> known[c].log]
  BY DEF HeadInv, TypeOK
<1> QED BY <1>1, <1>2, <1>3 DEF PublicHead

\* An append that passed its checks seals a new segment onto the head it loaded.
LEMMA AppendLoadHead ==
  ASSUME HeadInv, NEW c \in Clients, AppendLoad(c)
  PROVE  HeadInv'
<1>1. TypeOK /\ ViewHead(c) \in Heads /\ ViewHead(c).status = "active"
      /\ MatchesHead(c, ViewHead(c)) /\ known[c].log = ViewHead(c).log
  BY ViewFacts DEF HeadInv, AppendLoad, MatchesHead
<1>2. PICK e \in Events : mine' = [mine EXCEPT ![c] = AttemptSegment(c, e)]
  BY DEF AppendLoad
<1>3. /\ seq' \in [Clients -> 0..MaxIds] /\ seq'[c] = seq[c] + 1 /\ seq'[c] >= seq[c]
      /\ \A d \in Clients \ {c} : seq'[d] = seq[d]
      /\ NewId(c) = <<c, seq[c] + 1>> /\ NewId(c) \in Id
      /\ \A s \in store \cup published : s.key # NewId(c)
  BY DrawNew DEF AppendLoad
<1>4. /\ AttemptSegment(c, e) \in Segments /\ AttemptSegment(c, e).key = <<c, seq'[c]>>
      /\ AttemptSegment(c, e).log = Append(ViewHead(c).log, e)
      /\ AttemptSegment(c, e) \notin published
  <2>1. known[c].log \in Seq(Events)
    BY <1>1 DEF TypeOK
  <2>2. Append(known[c].log, e) \in Seq(Events)
    BY <2>1
  <2> QED BY <1>1, <2>2, <1>3 DEF AttemptSegment, Segments
<1>5. pc' \in [Clients -> Labels] /\ pc'[c] = "appendPut"
      /\ \A d \in Clients \ {c} : pc'[d] = pc[d]
  BY <1>1, GotoFacts DEF AppendLoad, Labels
<1>6. mine' \in [Clients -> Segments \cup {NoSegment}] /\ mine'[c] = AttemptSegment(c, e)
      /\ loaded' \in [Clients -> Heads] /\ loaded'[c] = ViewHead(c)
      /\ \A d \in Clients \ {c} : mine'[d] = mine[d] /\ loaded'[d] = loaded[d]
  BY <1>1, <1>2, <1>4 DEF AppendLoad, TypeOK
<1>7. TypeOK'
  BY <1>1, <1>3, <1>5, <1>6 DEF TypeOK, AppendLoad, storeVars, histVars
<1>8. StepOf(c)
  BY <1>3, <1>5, <1>6 DEF AppendLoad, StepOf, OthersKeep, OthersStay, Views, Puts, Moves, Rests, storeVars, histVars
<1>9. Tokened => known[c] = PublicHead(ViewHead(c))
  BY <1>1, MatchInforms
<1>10. OwnsSegment(c)' /\ SealedAppend(c)'
  BY <1>1, <1>4, <1>5, <1>6 DEF AppendLoad, OwnsSegment, SealedAppend, histVars
<1>11. Informed(c)'
  BY <1>6, <1>9 DEF AppendLoad, Informed
<1>12. SweptGone(c)' /\ LoadedShape(c)' /\ Deleting(c)' /\ DrewIds(c)' /\ Reserved(c)'
  BY <1>5 DEF SweptGone, LoadedShape, DrewIds, Deleting, Reserved, Creating
<1> QED BY <1>7, <1>8, <1>10, <1>11, <1>12, PageStep DEF CallOk
\* Deciding to delete, or to go on with a pending deletion.
LEMMA DeleteLoadHead ==
  ASSUME HeadInv, NEW c \in Clients, DeleteLoad(c)
  PROVE  HeadInv'
<1> DEFINE h == ViewHead(c)
<1>1. /\ TypeOK /\ seq[c] \in Nat /\ WellFormed(h) /\ h \in Heads
      /\ h.segments \in SUBSET Segments /\ h.segments \subseteq published
  BY ViewFacts, JournalAssumption DEF HeadInv, TypeOK
<1>2. /\ loaded' \in [Clients -> Heads] /\ loaded'[c] = h
      /\ \A d \in Clients \ {c} : loaded'[d] = loaded[d]
      /\ op' \in [Clients -> {"none", "delete", "create"}] /\ op'[c] = "delete"
      /\ \A d \in Clients \ {c} : op'[d] = op[d]
  BY <1>1 DEF DeleteLoad, TypeOK
<1>3. UNCHANGED <<head, store, known, mine, tries, cache, faults, published, retired>>
  BY DEF DeleteLoad, storeVars, histVars
<1>4. CASE h.status = "deleted" /\ ~h.complete /\ Goto(c, "sweep")
           /\ todo' = [todo EXCEPT ![c] = h.segments] /\ UNCHANGED seq
  <2>1. /\ pc' \in [Clients -> Labels] /\ pc'[c] = "sweep"
        /\ \A d \in Clients \ {c} : pc'[d] = pc[d]
    BY <1>1, <1>4, GotoFacts DEF Labels
  <2>2. /\ todo' \in [Clients -> SUBSET Segments] /\ todo'[c] = h.segments
        /\ \A d \in Clients \ {c} : todo'[d] = todo[d]
    BY <1>1, <1>4 DEF TypeOK
  <2>3. TypeOK'
    BY <1>1, <1>2, <1>3, <1>4, <2>1, <2>2 DEF TypeOK
  <2>4. StepOf(c)
    BY <1>1, <1>2, <1>3, <1>4, <2>1, <2>2 DEF StepOf, OthersKeep, OthersStay, Views, Puts, Moves, Rests
  <2>5. SweptGone(c)'
    BY <1>2, <1>3, <1>4, <2>2 DEF SweptGone
  <2>6. /\ OwnsSegment(c)' /\ SealedAppend(c)' /\ Informed(c)' /\ LoadedShape(c)' /\ Deleting(c)' /\ DrewIds(c)'
        /\ Reserved(c)'
    BY <1>2, <2>1 DEF OwnsSegment, SealedAppend, Informed, LoadedShape, DrewIds, Deleting, Reserved, Creating,
       Owning, Appending
  <2> QED BY <2>3, <2>4, <2>5, <2>6, PageStep DEF CallOk
<1>5. CASE /\ h.status = "active" /\ MatchesHead(c, h) /\ Goto(c, "deleteCas")
           /\ DrawIds(c, 1) /\ UNCHANGED todo
  <2>1. /\ pc' \in [Clients -> Labels] /\ pc'[c] = "deleteCas"
        /\ \A d \in Clients \ {c} : pc'[d] = pc[d]
    BY <1>1, <1>5, GotoFacts DEF Labels
  <2>2. /\ seq' \in [Clients -> 0..MaxIds] /\ seq'[c] >= seq[c] /\ seq'[c] >= 1
        /\ \A d \in Clients \ {c} : seq'[d] = seq[d]
    <3>1. /\ seq' \in [Clients -> 0..MaxIds] /\ seq'[c] >= seq[c] /\ seq'[c] \in 1..MaxIds
          /\ \A d \in Clients \ {c} : seq'[d] = seq[d]
      BY <1>5, DrawNew
    <3> QED BY <3>1
  <2>3. TypeOK'
    BY <1>1, <1>2, <1>3, <1>5, <2>1, <2>2 DEF TypeOK
  <2>4. StepOf(c)
    BY <1>2, <1>3, <1>5, <2>1, <2>2 DEF StepOf, OthersKeep, OthersStay, Views, Puts, Moves, Rests
  <2>5. Tokened => known[c] = PublicHead(h)
    BY <1>5, MatchInforms
  <2>6. Informed(c)'
    <3>1. loaded'[c] = ViewHead(c) /\ known' = known
      BY <1>2, <1>3
    <3> QED BY <2>5, <3>1 DEF Informed
  <2>7. LoadedShape(c)' /\ Deleting(c)' /\ DrewIds(c)'
    BY <1>1, <1>2, <1>5, <2>1, <2>2 DEF LoadedShape, DrewIds, Deleting, WellFormed
  <2>8. OwnsSegment(c)' /\ SealedAppend(c)' /\ SweptGone(c)' /\ Reserved(c)'
    BY <2>1 DEF OwnsSegment, SealedAppend, SweptGone, Reserved, Creating, Owning, Appending
  <2> QED BY <2>3, <2>4, <2>6, <2>7, <2>8, PageStep DEF CallOk
<1> QED BY <1>4, <1>5 DEF DeleteLoad

\* A call of createSession that writes no head keeps its ID unseen.
LEMMA StaysReserved ==
  ASSUME HeadInv, TypeOK', NEW c \in Clients, StepOf(c), Creating(c), seq' = seq,
         Rests \/ Completes(c)
  PROVE  Unseen(<<c, seq[c]>>)'
<1>1. TypeOK /\ CallOk(c) /\ Unseen(<<c, seq[c]>>) /\ <<c, seq[c]>> # NoId
  BY DEF HeadInv, CallOk, Reserved, NoId
<1>2. head'.status = "active" => head'.inc # <<c, seq[c]>>
  <2>1. CASE Rests
    BY <1>1, <2>1, ObservedFacts DEF Rests, Unseen
  <2>2. CASE Completes(c)
    <3>1. head.status = "deleted"
      BY <1>1, <2>2 DEF Completes, CallOk, SweptGone
    <3> QED BY <1>1, <2>2, <3>1, CompletedFacts DEF Completes, TypeOK
  <2> QED BY <2>1, <2>2
<1> QED BY <1>1, <1>2, UnseenStep DEF Unseen

\* One turn of the restore loop.
LEMMA CreateGetHead ==
  ASSUME HeadInv, NEW c \in Clients, CreateGet(c), ~Leave(c)
  PROVE  HeadInv'
<1> DEFINE h == ViewHead(c)
           label == RestoreStep(h)
<1>1. /\ TypeOK /\ CallOk(c) /\ seq[c] \in Nat /\ WellFormed(h) /\ h \in Heads
      /\ h.segments \in SUBSET Segments /\ pc[c] = "createGet"
  BY ViewFacts, JournalAssumption DEF HeadInv, TypeOK, CreateGet
<1>2. /\ h.status # "active" /\ Goto(c, label) /\ AttemptsLeft(c)
      /\ loaded' = [loaded EXCEPT ![c] = h]
      /\ todo' = [todo EXCEPT ![c] = h.segments]
      /\ tries' = [tries EXCEPT ![c] = @ + 1]
      /\ UNCHANGED <<op, mine, head, store, known, seq, cache, faults, published, retired>>
  BY DEF CreateGet, storeVars, histVars
<1>3. /\ label \in {"createPut", "createCas", "sweep"}
      /\ label = "createPut" => h.status = "absent"
      /\ label = "createCas" => h.status = "deleted" /\ h.complete
      /\ label = "sweep" => h.status = "deleted" /\ ~h.complete
  <2>1. h.status \in {"absent", "active", "deleted"} /\ h.complete \in BOOLEAN
    BY <1>1 DEF Heads
  <2> QED BY <1>2, <2>1 DEF RestoreStep
<1>4. /\ pc' \in [Clients -> Labels] /\ pc'[c] = label
      /\ \A d \in Clients \ {c} : pc'[d] = pc[d]
  BY <1>1, <1>2, <1>3, GotoFacts DEF Labels
<1> HIDE DEF label
<1>5. /\ todo' \in [Clients -> SUBSET Segments] /\ todo'[c] = h.segments
      /\ loaded' \in [Clients -> Heads] /\ loaded'[c] = h
      /\ \A d \in Clients \ {c} : todo'[d] = todo[d] /\ loaded'[d] = loaded[d]
  BY <1>1, <1>2 DEF TypeOK
<1>6. tries' \in [Clients -> 0..CreateAttempts]
  BY <1>1, <1>2, JournalAssumption DEF AttemptsLeft, TypeOK
<1>7. TypeOK'
  BY <1>1, <1>2, <1>4, <1>5, <1>6 DEF TypeOK
<1>8. Rests /\ StepOf(c)
  BY <1>1, <1>2, <1>4, <1>5 DEF StepOf, OthersKeep, OthersStay, Views, Puts, Moves, Rests
<1>9. Creating(c) /\ seq[c] >= 1
  BY <1>1 DEF Creating, CallOk, DrewIds
<1>10. Reserved(c)'
  BY <1>2, <1>7, <1>8, <1>9, StaysReserved DEF Reserved
<1>11. SweptGone(c)' /\ LoadedShape(c)' /\ Deleting(c)' /\ DrewIds(c)'
  BY <1>2, <1>3, <1>4, <1>5, <1>9 DEF SweptGone, LoadedShape, DrewIds, Deleting
<1>12. OwnsSegment(c)' /\ SealedAppend(c)' /\ Informed(c)'
  BY <1>3, <1>4 DEF OwnsSegment, SealedAppend, Informed, Owning, Appending
<1> QED BY <1>7, <1>8, <1>10, <1>11, <1>12, PageStep DEF CallOk

\* Back to the head of the restore loop, the marker completed or somebody ahead.
LEMMA LoopHead ==
  ASSUME HeadInv, NEW c \in Clients, Retire(c) \/ CreateRestore(c), ~Leave(c)
  PROVE  HeadInv'
<1>1. TypeOK /\ CallOk(c) /\ seq[c] \in Nat
  BY JournalAssumption DEF HeadInv, TypeOK
<1>2. /\ Goto(c, "createGet") /\ loaded' = [loaded EXCEPT ![c] = Absent] /\ Creating(c)
      /\ UNCHANGED <<op, mine, todo, tries, store, known, seq, faults>> /\ DropCache(c)
  BY DEF Retire, CreateRestore, Finished, Creating
<1>3. Rests \/ Completes(c)
  BY DEF Retire, CreateRestore, CasUpdated, CasRefused, Completes, Rests, histVars
<1>4. /\ head' \in Heads /\ published' \in SUBSET Segments /\ retired' \in SUBSET Id
      /\ cache' \in [Clients -> CacheType]
  BY <1>1, <1>2, <1>3, MoveTypes, CachingFacts DEF Moves, Caching
<1>5. /\ pc' \in [Clients -> Labels] /\ pc'[c] = "createGet"
      /\ \A d \in Clients \ {c} : pc'[d] = pc[d]
  BY <1>1, <1>2, GotoFacts DEF Labels
<1>6. /\ loaded' \in [Clients -> Heads] /\ loaded'[c] = Absent
      /\ \A d \in Clients \ {c} : loaded'[d] = loaded[d]
  BY <1>1, <1>2, AbsentFacts DEF TypeOK
<1>7. TypeOK'
  BY <1>1, <1>2, <1>4, <1>5, <1>6 DEF TypeOK, CacheType
<1>8. OthersKeep(c) /\ Views(c)
  BY <1>1, <1>2, <1>5, <1>6, CachingFacts DEF OthersKeep, OthersStay, Views, Caching
<1>9. StepOf(c)
  BY <1>1, <1>2, <1>3, <1>8 DEF StepOf, Puts, Moves
<1>10. seq[c] >= 1
  BY <1>1, <1>2 DEF Creating, CallOk, DrewIds
<1>11. Reserved(c)'
  BY <1>2, <1>3, <1>7, <1>9, StaysReserved DEF Reserved
<1>12. OwnsSegment(c)' /\ SealedAppend(c)' /\ Informed(c)' /\ SweptGone(c)' /\ LoadedShape(c)' /\ Deleting(c)' /\ DrewIds(c)'
  BY <1>2, <1>5, <1>10 DEF OwnsSegment, SealedAppend, Informed, SweptGone, LoadedShape, DrewIds, Deleting,
     Owning, Appending
<1> QED BY <1>7, <1>9, <1>11, <1>12, PageStep DEF CallOk
\* readEvents promises its caller nothing about the store.
LEMMA ReadEventsHead ==
  ASSUME HeadInv, NEW c \in Clients, ReadLoad(c) \/ (ReadSegment(c) /\ ~Leave(c))
  PROVE  HeadInv'
<1>1. TypeOK /\ seq[c] \in Nat /\ ViewHead(c) \in Heads /\ ViewHead(c).segments \in SUBSET Segments
  BY ViewFacts, JournalAssumption DEF HeadInv, TypeOK
<1>2. PICK rest \in SUBSET Segments : todo' = [todo EXCEPT ![c] = rest]
  <2>1. CASE ReadLoad(c)
    <3>1. PICK n : todo' = [todo EXCEPT ![c] = {s \in ViewHead(c).segments : Len(s.log) > n}]
      BY <2>1 DEF ReadLoad
    <3>2. {s \in ViewHead(c).segments : Len(s.log) > n} \in SUBSET Segments
      BY <1>1
    <3> QED BY <3>1, <3>2
  <2>2. CASE ReadSegment(c) /\ ~Leave(c)
    <3>1. PICK s : todo' = [todo EXCEPT ![c] = todo[c] \ {s}]
      BY <2>2 DEF ReadSegment
    <3>2. todo[c] \ {s} \in SUBSET Segments
      BY <1>1 DEF TypeOK
    <3> QED BY <3>1, <3>2
  <2> QED BY <2>1, <2>2
<1>3. todo' \in [Clients -> SUBSET Segments] /\ \A d \in Clients \ {c} : todo'[d] = todo[d]
  BY <1>1, <1>2 DEF TypeOK
<1>4. /\ pc' \in [Clients -> Labels] /\ pc'[c] = "reading"
      /\ \A d \in Clients \ {c} : pc'[d] = pc[d]
  BY <1>1 DEF ReadLoad, ReadSegment, Goto, TypeOK, Labels
<1>5. /\ loaded' \in [Clients -> Heads] /\ loaded'[c] \in {loaded[c], ViewHead(c)}
      /\ \A d \in Clients \ {c} : loaded'[d] = loaded[d]
  BY <1>1 DEF ReadLoad, ReadSegment, TypeOK
<1>6. UNCHANGED <<head, store, op, known, mine, tries, seq, cache, faults, published, retired>>
  BY DEF ReadLoad, ReadSegment, storeVars, histVars
<1>7. TypeOK'
  BY <1>1, <1>3, <1>4, <1>5, <1>6 DEF TypeOK
<1>8. StepOf(c)
  BY <1>1, <1>3, <1>4, <1>5, <1>6 DEF StepOf, OthersKeep, OthersStay, Views, Puts, Moves, Rests
<1> QED BY <1>4, <1>7, <1>8, IdleCall, PageStep

\* A confirmed batch is gone from the store.
LEMMA SweepBatchHead ==
  ASSUME HeadInv, NEW c \in Clients, SweepBatch(c)
  PROVE  HeadInv'
<1>1. TypeOK /\ CallOk(c) /\ seq[c] \in Nat /\ pc[c] = "sweep"
  BY JournalAssumption DEF HeadInv, TypeOK, SweepBatch
<1>2. PICK batch \in SUBSET todo[c] :
        store' = store \ batch /\ todo' = [todo EXCEPT ![c] = todo[c] \ batch]
  BY DEF SweepBatch, Batches
<1>3. /\ todo' \in [Clients -> SUBSET Segments] /\ todo'[c] = todo[c] \ batch
      /\ \A d \in Clients \ {c} : todo'[d] = todo[d]
      /\ store' \in SUBSET Segments /\ store' \subseteq store
  BY <1>1, <1>2 DEF TypeOK
<1>4. UNCHANGED <<head, pc, op, known, loaded, mine, tries, seq, faults, published, retired>> /\ Caching(c)
  BY DEF SweepBatch, Caching, histVars
<1>5. TypeOK'
  BY <1>1, <1>3, <1>4, CachingFacts DEF TypeOK, CacheType
<1>6. OthersKeep(c) /\ Views(c)
  BY <1>1, <1>3, <1>4, CachingFacts DEF OthersKeep, OthersStay, Views
<1>7. Rests /\ StepOf(c)
  BY <1>1, <1>3, <1>4, <1>6 DEF StepOf, Puts, Moves, Rests
<1>8. SweptGone(c)'
  BY <1>1, <1>2, <1>3, <1>4 DEF CallOk, SweptGone
<1>9. OwnsSegment(c)' /\ SealedAppend(c)' /\ Informed(c)' /\ LoadedShape(c)' /\ Deleting(c)' /\ DrewIds(c)'
  BY <1>1, <1>4 DEF CallOk, OwnsSegment, SealedAppend, Informed, LoadedShape, DrewIds, Deleting, Owning, Appending
<1>10. Reserved(c)'
  BY <1>4, <1>5, <1>7, StaysReserved DEF Reserved, Creating
<1> QED BY <1>5, <1>7, <1>8, <1>9, <1>10, PageStep DEF CallOk

\* The deletion commits and its sweep begins.
LEMMA DeleteCasHead ==
  ASSUME HeadInv, NEW c \in Clients, DeleteCas(c)
  PROVE  HeadInv'
<1>1. /\ TypeOK /\ CallOk(c) /\ seq[c] \in Nat /\ pc[c] = "deleteCas" /\ WellFormed(head)
      /\ head = loaded[c] /\ head' = Marker(c) /\ head.status = "active"
  BY ObservedFacts, JournalAssumption DEF HeadInv, HeadsObserved, TypeOK, DeleteCas, CasUpdated, CallOk, LoadedShape
<1>2. Moves(c)
  BY CasMoves
<1>3. UNCHANGED <<store, op, known, mine, tries, seq, faults>> /\ Caching(c)
  BY DEF DeleteCas, Caching
<1>4. /\ head' \in Heads /\ published' \in SUBSET Segments /\ retired' \in SUBSET Id
      /\ cache' \in [Clients -> CacheType]
  BY <1>1, <1>2, <1>3, MoveTypes, CachingFacts
<1>5. /\ pc' \in [Clients -> Labels] /\ pc'[c] = "sweep"
      /\ \A d \in Clients \ {c} : pc'[d] = pc[d]
  BY <1>1, GotoFacts DEF DeleteCas, Labels
<1>6. head.segments \in SUBSET Segments /\ head.complete = FALSE
  BY <1>1 DEF WellFormed, Heads
<1>7. /\ loaded' \in [Clients -> Heads] /\ loaded'[c] = head'
      /\ todo' \in [Clients -> SUBSET Segments] /\ todo'[c] = head.segments
      /\ \A d \in Clients \ {c} : loaded'[d] = loaded[d] /\ todo'[d] = todo[d]
  BY <1>1, <1>4, <1>6 DEF DeleteCas, TypeOK
<1>8. TypeOK'
  BY <1>1, <1>3, <1>4, <1>5, <1>7 DEF TypeOK, CacheType
<1>9. OthersKeep(c) /\ Views(c)
  BY <1>1, <1>3, <1>5, <1>7, CachingFacts DEF OthersKeep, OthersStay, Views
<1>10. StepOf(c)
  BY <1>1, <1>2, <1>3, <1>9 DEF StepOf, Puts
<1>11. head'.status = "deleted" /\ head'.segments = head.segments /\ head'.complete = FALSE
  BY <1>1, <1>6 DEF Marker, Tombstone, WellFormed, Heads
<1>12. SweptGone(c)'
  BY <1>7, <1>11 DEF SweptGone
<1>13. op'[c] = "delete"
  BY <1>1, <1>3 DEF CallOk, Deleting
<1>14. OwnsSegment(c)' /\ SealedAppend(c)' /\ Informed(c)' /\ LoadedShape(c)' /\ Deleting(c)'
       /\ DrewIds(c)' /\ Reserved(c)'
  BY <1>5, <1>13 DEF OwnsSegment, SealedAppend, Informed, LoadedShape, Deleting, DrewIds, Reserved,
     Creating, Owning, Appending
<1> QED BY <1>8, <1>10, <1>12, <1>14, PageStep DEF CallOk
\* createSession's first attempt.
LEMMA CreatePutHead ==
  ASSUME HeadInv, NEW c \in Clients, CreatePut(c) \/ CreatePutThrows(c)
  PROVE  HeadInv'
<1>1. TypeOK /\ pc[c] = "idle" /\ DrawIds(c, 2)
  BY DEF HeadInv, CreatePut, CreatePutThrows
<1>2. /\ seq' \in [Clients -> 0..MaxIds] /\ seq'[c] >= seq[c] /\ seq'[c] \in 1..MaxIds
      /\ seq[c] + 1 \in 1..MaxIds /\ seq[c] + 1 <= seq'[c]
      /\ \A d \in Clients \ {c} : seq'[d] = seq[d]
      /\ NewId(c) = <<c, seq[c] + 1>>
      /\ Unseen(<<c, seq[c] + 1>>) /\ Unseen(<<c, seq'[c]>>)
  BY <1>1, DrawNew
<1>3. /\ UNCHANGED <<store, known, loaded, mine, todo, tries, published, retired>> /\ Caching(c)
      /\ Fault \/ UNCHANGED faults
  BY DEF CreatePut, CreatePutThrows, Caching, histVars
<1>4. faults' \in 0..MaxFaults
  BY <1>1, <1>3, FaultFacts
<1>5. head' = head \/ (head.status = "absent" /\ head' = FreshHead(NewId(c), FALSE))
  BY DEF CreatePut, CreatePutThrows
<1>6. Moves(c)
  BY <1>2, <1>3, <1>5 DEF Moves, Rests, Installs
<1>7. /\ head' \in Heads /\ published' \in SUBSET Segments /\ retired' \in SUBSET Id
      /\ cache' \in [Clients -> CacheType]
  BY <1>1, <1>3, <1>6, MoveTypes, CachingFacts
<1>8. \/ pc' = pc /\ op' = op
      \/ head' = head /\ pc' = [pc EXCEPT ![c] = "createGet"] /\ op' = [op EXCEPT ![c] = "create"]
  BY DEF CreatePut, CreatePutThrows, Goto
<1>9. /\ pc' \in [Clients -> Labels] /\ op' \in [Clients -> {"none", "delete", "create"}]
      /\ \A d \in Clients \ {c} : pc'[d] = pc[d] /\ op'[d] = op[d]
      /\ pc'[c] = "idle" \/ (head' = head /\ pc'[c] = "createGet")
  BY <1>1, <1>8 DEF TypeOK, Labels
<1>10. TypeOK'
  BY <1>1, <1>2, <1>3, <1>4, <1>7, <1>9 DEF TypeOK, CacheType
<1>11. OthersKeep(c) /\ Views(c)
  BY <1>1, <1>2, <1>3, <1>9, CachingFacts DEF OthersKeep, OthersStay, Views
<1>12. StepOf(c)
  BY <1>2, <1>3, <1>6, <1>11 DEF StepOf, Puts
<1>13. CASE pc'[c] = "idle"
  BY <1>10, <1>12, <1>13, IdleCall, PageStep
<1>14. CASE head' = head /\ pc'[c] = "createGet"
  <2>1. head'.status = "active" => head'.inc # <<c, seq'[c]>>
    BY <1>2, <1>14, ObservedFacts DEF Unseen
  <2>2. <<c, seq'[c]>> # NoId
    BY DEF NoId
  <2>3. Unseen(<<c, seq[c]>>)'
    BY <1>2, <1>10, <1>12, <2>1, <2>2, UnseenStep DEF Unseen
  <2>4. seq'[c] >= 1
    BY <1>2
  <2>5. OwnsSegment(c)' /\ SealedAppend(c)' /\ Informed(c)' /\ SweptGone(c)' /\ LoadedShape(c)' /\ Deleting(c)'
    BY <1>14 DEF OwnsSegment, SealedAppend, Informed, SweptGone, LoadedShape, Deleting, Owning, Appending
  <2>6. DrewIds(c)' /\ Reserved(c)'
    BY <2>3, <2>4 DEF DrewIds, Reserved
  <2> QED BY <1>10, <1>12, <2>5, <2>6, PageStep DEF CallOk
<1> QED BY <1>9, <1>13, <1>14

\* An older release removes a completed marker.
LEMMA LegacyTrashHead ==
  ASSUME HeadInv, LegacyTrash
  PROVE  HeadInv'
<1>1. /\ UNCHANGED <<store, pc, op, known, loaded, mine, todo, tries, seq, cache, faults, published, retired>>
      /\ head' = Absent /\ head.complete /\ LegacyCleanup
  BY DEF LegacyTrash, callVars, histVars
<1>2. TypeOK /\ WellFormed(head)
  BY DEF HeadInv, HeadsObserved, Observed
<1>3. TypeOK' /\ KeysDrawn' /\ RetiredDrawn' /\ FirstOfSession'
  <2>1. TypeOK'
    BY <1>1, <1>2, AbsentFacts DEF TypeOK
  <2>2. KeysDrawn' /\ RetiredDrawn'
    BY <1>1 DEF HeadInv, KeysDrawn, RetiredDrawn, Drawn
  <2>3. FirstOfSession'
    BY <1>1 DEF FirstOfSession
  <2> QED BY <2>1, <2>2, <2>3
<1>4. NoStrandedCiphertext'
  BY <1>1, <1>2 DEF HeadInv, NoStrandedCiphertext, WellFormed
<1>5. \A h \in Observed' : h \in Observed \/ h = Absent
  BY <1>1 DEF Observed
<1>6. HeadsObserved' /\ HeadsShown'
  <2>1. head'.status # "active"
    BY <1>1, AbsentFacts
  <2>2. HeadsShown'
    BY <1>1, <2>1 DEF HeadInv, HeadsShown, StaysTrue, Drawn
  <2>3. ASSUME NEW h \in Observed'
        PROVE  /\ WellFormed(h) /\ h.segments \subseteq published'
               /\ h.status = "active" => h.inc \in Id /\ h.inc[2] <= seq'[h.inc[1]]
    <3>1. CASE h \in Observed
      BY <1>1, <3>1 DEF HeadInv, HeadsObserved, StaysTrue, Drawn
    <3>2. CASE h = Absent
      BY <3>2, AbsentFacts, AbsentWellFormed
    <3> QED BY <1>5, <3>1, <3>2
  <2> QED BY <2>1, <2>2, <2>3 DEF HeadsObserved, StaysTrue, Drawn
<1>7. ASSUME NEW c \in Clients PROVE CallOk(c)'
  <2>1. CallOk(c)
    BY DEF HeadInv
  <2>2. /\ OwnsSegment(c)' /\ SealedAppend(c)' /\ Informed(c)' /\ SweptGone(c)' /\ LoadedShape(c)'
        /\ Deleting(c)' /\ DrewIds(c)'
    BY <1>1, <2>1 DEF CallOk, OwnsSegment, SealedAppend, Informed, SweptGone, LoadedShape, Deleting, DrewIds
  <2>3. Reserved(c)'
    BY <1>1, <1>5, <2>1, AbsentFacts DEF CallOk, Reserved, Creating, Unseen
  <2> QED BY <2>2, <2>3 DEF CallOk
<1> QED BY <1>3, <1>4, <1>6, <1>7 DEF HeadInv
-------------------------------------------------------------------------------
(* The theorems. *)

\* The empty store, with every page idle.
LEMMA InitHead ==
  ASSUME Init PROVE HeadInv
<1>1. /\ head = Absent /\ published = {} /\ store = {} /\ retired = {}
      /\ \A c \in Clients : pc[c] = "idle" /\ known[c] = NoHead /\ loaded[c] = Absent /\ cache[c] = NoCache
  BY DEF Init
<1>2. TypeOK /\ NoneCached /\ KeysDrawn
  BY InitLive DEF LiveInv
<1>3. \A h \in Observed : h = Absent
  BY <1>1 DEF Observed, NoCache
<1>4. HeadsObserved
  BY <1>3, AbsentWellFormed, AbsentFacts DEF HeadsObserved
<1>5. HeadsShown /\ RetiredDrawn /\ NoStrandedCiphertext /\ FirstOfSession
  BY <1>1, <1>2, AbsentFacts DEF HeadsShown, RetiredDrawn, NoStrandedCiphertext, FirstOfSession, NoHead
<1>6. ASSUME NEW c \in Clients PROVE CallOk(c)
  <2>1. pc[c] = "idle"
    BY <1>1
  <2>2. OwnsSegment(c) /\ SealedAppend(c) /\ SweptGone(c) /\ LoadedShape(c) /\ Deleting(c) /\ DrewIds(c)
    BY <2>1 DEF OwnsSegment, SealedAppend, SweptGone, LoadedShape, Deleting, DrewIds, Owning, Appending
  <2>3. Informed(c) /\ Reserved(c)
    BY <2>1 DEF Informed, Reserved, Creating, Appending
  <2> QED BY <2>2, <2>3 DEF CallOk
<1> QED BY <1>2, <1>4, <1>5, <1>6 DEF HeadInv

\* Nothing happens.
LEMMA StutterHead ==
  ASSUME HeadInv, UNCHANGED vars
  PROVE  HeadInv'
<1>1. UNCHANGED <<head, store, pc, op, known, loaded, mine, todo, tries, seq, cache, faults,
                  published, retired>>
  BY DEF vars, storeVars, callVars, histVars
<1>2. TypeOK' /\ KeysDrawn' /\ RetiredDrawn' /\ FirstOfSession' /\ NoStrandedCiphertext'
  BY <1>1 DEF HeadInv, TypeOK, KeysDrawn, RetiredDrawn, Drawn, FirstOfSession, NoneCached, NoStrandedCiphertext
<1>3. HeadsObserved' /\ HeadsShown'
  BY <1>1 DEF HeadInv, HeadsObserved, HeadsShown, StaysTrue, Drawn, Observed
<1>4. ASSUME NEW c \in Clients PROVE CallOk(c)'
  <2>1. CallOk(c)
    BY DEF HeadInv
  <2> QED BY <1>1, <2>1 DEF CallOk, OwnsSegment, SealedAppend, Informed, SweptGone, LoadedShape, Deleting,
         DrewIds, Reserved, Creating, Unseen, Observed
<1> QED BY <1>2, <1>3, <1>4 DEF HeadInv

\* A step of the specification keeps the invariant.
LEMMA StepHead ==
  ASSUME HeadInv, [Next]_vars
  PROVE  HeadInv'
<1>1. CASE UNCHANGED vars
  BY <1>1, StutterHead
<1>2. CASE LegacyTrash
  BY <1>2, LegacyTrashHead
<1>3. ASSUME NEW c \in Clients, Step(c) PROVE HeadInv'
  <2>1. CASE Leave(c) /\ Leaving(c)
    BY <2>1, LeavingHead
  <2>2. CASE AppendPut(c) \/ AppendPutThrows(c) \/ AppendOverLimit(c) \/ AppendCasRefused(c)
             \/ AppendCasThrows(c) \/ ((AppendAbort(c) \/ ReclaimCheck(c)) /\ ~Leave(c))
    BY <2>2, AppendStepsHead
  <2>3. CASE GetSession(c) \/ RefreshCache(c) \/ AppendLoad(c) \/ DeleteLoad(c) \/ SweepBatch(c)
             \/ DeleteCas(c) \/ CreatePut(c) \/ CreatePutThrows(c)
    BY <2>3, ReadsHead, AppendLoadHead, DeleteLoadHead, SweepBatchHead, DeleteCasHead, CreatePutHead
  <2>4. CASE ReadLoad(c) \/ (ReadSegment(c) /\ ~Leave(c)) \/ (CreateGet(c) /\ ~Leave(c))
             \/ ((Retire(c) \/ CreateRestore(c)) /\ ~Leave(c))
    BY <2>4, ReadEventsHead, CreateGetHead, LoopHead
  <2>5. DeleteRefused(c) \/ CreateGivesUp(c) \/ ReadThrows(c) \/ Crash(c) \/ AppendCas(c)
        \/ ReclaimTrash(c) \/ DeleteThrows(c) \/ SweepUnconfirmed(c) \/ RetireThrows(c)
        \/ CreateRestoreThrows(c) => Leave(c)
    BY DEF DeleteRefused, CreateGivesUp, ReadThrows, Crash, AppendCas, ReclaimTrash, DeleteThrows,
       SweepUnconfirmed, RetireThrows, CreateRestoreThrows
  <2> QED BY <1>3, <2>1, <2>2, <2>3, <2>4, <2>5 DEF Step, Progress, Leaving
<1> QED BY <1>1, <1>2, <1>3 DEF Next

\* HeadInv is an invariant of the specification.
LEMMA HeadInvariant == Spec => []HeadInv
<1>1. Init => HeadInv
  BY InitHead
<1>2. HeadInv /\ [Next]_vars => HeadInv'
  BY StepHead
<1> QED BY <1>1, <1>2, PTL DEF Spec

(***************************************************************************)
(* Every variable of the journal keeps its type, on any store: no page     *)
(* writes a head, a marker or an incarnation whose ID it did not draw.     *)
(***************************************************************************)
THEOREM JournalTyped == Spec => []TypeOK
<1>1. HeadInv => TypeOK
  BY DEF HeadInv
<1> QED BY <1>1, HeadInvariant, PTL

(***************************************************************************)
(* No fork, on any store: what getSession or an append's own result has    *)
(* shown a caller stays a prefix of the committed log while that           *)
(* incarnation lives, however stale the index it was read from was.        *)
(***************************************************************************)
THEOREM ShownHeadsArePrefixes == Spec => []ShownHeadIsPrefix
<1>1. HeadInv => ShownHeadIsPrefix
  <2> SUFFICES ASSUME HeadInv, NEW c \in Clients, head.status = "active", known[c].inc = head.inc
               PROVE  IsPrefix(known[c].log, head.log)
    BY DEF ShownHeadIsPrefix
  <2>1. WellFormed(head)
    BY ObservedFacts DEF HeadInv, HeadsObserved
  <2>2. head.inc # NoId
    BY <2>1 DEF WellFormed, Id, NoId
  <2> QED BY <2>2 DEF HeadInv, HeadsShown, StaysTrue
<1> QED BY <1>1, HeadInvariant, PTL

(***************************************************************************)
(* No ciphertext is stranded, on any store: finishDeletion completes a     *)
(* marker, and createSession or an older release replaces one, only when   *)
(* every segment the deleted conversation ever published is gone.          *)
(***************************************************************************)
THEOREM CiphertextNotStranded == Spec => []NoStrandedCiphertext
<1>1. HeadInv => NoStrandedCiphertext
  BY DEF HeadInv
<1> QED BY <1>1, HeadInvariant, PTL

\* Which step changes the head, and how.
LEMMA StepMoves ==
  ASSUME HeadInv, NEW c \in Clients, Step(c)
  PROVE  Moves(c)
<1>1. CASE AppendCas(c) \/ AppendCasThrows(c) \/ DeleteCas(c) \/ DeleteThrows(c) \/ Retire(c)
           \/ RetireThrows(c) \/ CreateRestore(c) \/ CreateRestoreThrows(c)
  BY <1>1, CasMoves
<1>2. CASE CreatePut(c) \/ CreatePutThrows(c)
  <2>1. DrawIds(c, 2) /\ published' = published /\ retired' = retired
        /\ (head' = head \/ (head.status = "absent" /\ head' = FreshHead(NewId(c), FALSE)))
    BY <1>2 DEF CreatePut, CreatePutThrows, histVars
  <2>2. /\ seq[c] + 1 \in 1..MaxIds /\ seq[c] + 1 <= seq'[c] /\ NewId(c) = <<c, seq[c] + 1>>
        /\ Unseen(<<c, seq[c] + 1>>)
    BY <2>1, DrawNew
  <2> QED BY <2>1, <2>2 DEF Moves, Rests, Installs
<1>3. CASE GetSession(c) \/ AppendLoad(c) \/ DeleteLoad(c) \/ ReadLoad(c) \/ AppendPut(c)
           \/ AppendOverLimit(c) \/ AppendCasRefused(c) \/ ReclaimCheck(c) \/ ReclaimTrash(c)
           \/ DeleteRefused(c) \/ SweepBatch(c) \/ SweepUnconfirmed(c)
  <2>1. Rests
    BY <1>3 DEF GetSession, AppendLoad, DeleteLoad, ReadLoad, AppendPut, AppendOverLimit,
       AppendCasRefused, CasRefused, ReclaimCheck, ReclaimTrash, DeleteRefused, SweepBatch,
       SweepUnconfirmed, Rests, storeVars, histVars
  <2> QED BY <2>1 DEF Moves
<1>4. CASE CreateGet(c) \/ CreateGivesUp(c) \/ ReadSegment(c) \/ AppendAbort(c) \/ AppendPutThrows(c)
           \/ ReadThrows(c) \/ Crash(c) \/ RefreshCache(c)
  <2>1. Rests
    BY <1>4 DEF CreateGet, CreateGivesUp, ReadSegment, AppendAbort, AppendPutThrows, ReadThrows,
       Crash, RefreshCache, Rests, storeVars, histVars
  <2> QED BY <2>1 DEF Moves
<1> QED BY <1>1, <1>2, <1>3, <1>4 DEF Step, Progress

\* A live head is replaced only by a caller that was shown it.
LEMMA LandsStep ==
  ASSUME HeadInv, Tokened, [Next]_vars
  PROVE  [LandsWhereRead]_vars
<1> SUFFICES ASSUME Next, head.status = "active", head' # head
             PROVE  \E c \in Clients :
                      pc[c] \in {"appendCas", "deleteCas"} /\ known[c] = PublicHead(head)
  BY DEF LandsWhereRead
<1>1. PICK c \in Clients : Step(c)
  BY DEF Next, LegacyTrash
<1>2. CallOk(c) /\ (Commits(c) \/ Marks(c) \/ Completes(c) \/ Installs(c))
  BY <1>1, StepMoves DEF HeadInv, Moves, Rests
<1>3. ~Completes(c) /\ ~Installs(c)
  BY <1>2 DEF Completes, Installs, CallOk, SweptGone
<1>4. pc[c] \in {"appendCas", "deleteCas"} /\ head = loaded[c]
  BY <1>2, <1>3 DEF Commits, Marks
<1> QED BY <1>2, <1>4 DEF CallOk, Informed, Appending

(***************************************************************************)
(* Appends and deletions land only where their caller read, for callers    *)
(* that hold incarnation tokens on any store, and for callers without them *)
(* wherever reads are fresh and completed markers are kept                 *)
(* (matchesIncarnationFence).                                              *)
(***************************************************************************)
THEOREM MutationsLand ==
  ASSUME Tokened
  PROVE  Spec => MutationsLandWhereRead
<1>1. HeadInv /\ [Next]_vars => [LandsWhereRead]_vars
  BY LandsStep
<1> QED BY <1>1, HeadInvariant, PTL DEF Spec, MutationsLandWhereRead

(***************************************************************************)
(* A cached index and an older release mislead no write: live heads parse, *)
(* nothing committed is stranded, and mutations land where their caller    *)
(* read.  Only a reclaiming append can be misled, by a stale head (the     *)
(* violation that a run of TLC shows).                                     *)
(***************************************************************************)
THEOREM StaleReadsAreHarmless ==
  ASSUME Tokened
  PROVE  Spec => StaleReadsMisleadNoWrite
<1>1. HeadInv => HeadParses /\ NoStrandedCiphertext
  BY ObservedFacts DEF HeadInv, HeadsObserved, Observed, WellFormed, HeadParses
<1>2. HeadInv /\ [Next]_vars => [LandsWhereRead]_vars
  BY LandsStep
<1> QED BY <1>1, <1>2, HeadInvariant, PTL DEF Spec, StaleReadsMisleadNoWrite
-------------------------------------------------------------------------------
(* The contract. *)

\* A complete read of a readable head returns its log.
LEMMA ReadableFacts ==
  ASSUME CommittedReadable
  PROVE  Readable = IF head.status = "active" THEN Contract!Session(head.inc, head.log)
                    ELSE Contract!Missing
BY DEF CommittedReadable, Readable, Contract!Session, Contract!Missing

\* Every step of the journal is a step of the contract, or none.
LEMMA StepImplements ==
  ASSUME HeadInv, CommittedReadable, CommittedReadable', [Next]_vars
  PROVE  [Contract!Next]_Contract!vars
<1> DEFINE Shown(h) == IF h.status = "active" THEN Contract!Session(h.inc, h.log) ELSE Contract!Missing
<1>1. Readable = Shown(head) /\ Readable' = Shown(head')
  BY ReadableFacts DEF Readable, CommittedReadable, Contract!Session, Contract!Missing
<1>2. CASE UNCHANGED vars
  <2>1. head' = head /\ retired' = retired
    BY <1>2 DEF vars, storeVars, histVars
  <2> QED BY <1>1, <2>1 DEF Contract!vars
<1>3. CASE LegacyTrash
  <2>1. Shown(head) = Contract!Missing /\ Shown(head') = Contract!Missing /\ retired' = retired
    BY <1>3, AbsentFacts DEF LegacyTrash, histVars
  <2> QED BY <1>1, <2>1 DEF Contract!vars
<1>4. ASSUME NEW c \in Clients, Step(c) PROVE [Contract!Next]_Contract!vars
  <2>1. Moves(c) /\ CallOk(c) /\ TypeOK
    BY <1>4, StepMoves DEF HeadInv
  <2>2. CASE Rests
    BY <1>1, <2>2 DEF Rests, Contract!vars
  <2>3. CASE Commits(c)
    <3>1. PICK e \in Events : head'.log = Append(head.log, e)
      BY <2>3, CommitWellFormed
    <3>2. /\ head.status = "active" /\ head'.status = "active" /\ head'.inc = head.inc
          /\ retired' = retired
      BY <2>3, CommitWellFormed DEF Commits
    <3>3. Contract!AppendEvents
      BY <1>1, <3>1, <3>2 DEF Contract!AppendEvents, Contract!Session
    <3> QED BY <3>3 DEF Contract!Next
  <2>4. CASE Marks(c)
    <3>1. head.status = "active" /\ head'.status = "deleted" /\ retired' = retired \cup {head.inc}
      BY <2>1, <2>4 DEF Marks, Tombstone, TypeOK, Heads, CallOk, LoadedShape
    <3>2. Contract!DeleteSession
      BY <1>1, <3>1 DEF Contract!DeleteSession, Contract!Session
    <3> QED BY <3>2 DEF Contract!Next
  <2>5. CASE Completes(c)
    <3>1. head.status = "deleted" /\ head'.status = "deleted" /\ retired' = retired
      BY <2>1, <2>5, CompletedFacts DEF Completes, TypeOK, CallOk, SweptGone
    <3> QED BY <1>1, <3>1 DEF Contract!vars
  <2>6. CASE Installs(c)
    <3>1. PICK n \in 1..MaxIds, fence \in BOOLEAN :
            head' = FreshHead(<<c, n>>, fence) /\ Unseen(<<c, n>>)
      BY <2>6 DEF Installs
    <3>2. <<c, n>> \in Id /\ <<c, n>> \notin retired
      BY <3>1 DEF Id, Unseen
    <3>3. head.status # "active" /\ head'.status = "active" /\ head'.inc = <<c, n>> /\ head'.log = <<>>
          /\ retired' = retired
      BY <2>6, <3>1, <3>2, FreshHeadFacts, InstallWellFormed DEF Installs
    <3>4. Contract!CreateSession
      BY <1>1, <3>2, <3>3 DEF Contract!CreateSession, Contract!Missing, Contract!Session
    <3> QED BY <3>4 DEF Contract!Next
  <2> QED BY <2>1, <2>2, <2>3, <2>4, <2>5, <2>6 DEF Moves
<1> QED BY <1>2, <1>3, <1>4 DEF Next

(***************************************************************************)
(* Where reads are fresh, the encrypted journal implements the contract of *)
(* core/journal.ts: a complete read returns a log that was created empty   *)
(* under an incarnation never used before, grew by whole appends, and      *)
(* disappears at once.                                                     *)
(***************************************************************************)
THEOREM JournalImplementsBackend ==
  ASSUME FreshStore
  PROVE  Spec => ImplementsJournalBackend
<1>1. Init => Contract!Init
  BY AbsentFacts DEF Init, Contract!Init, Contract!Missing, Readable
<1>2. LiveInv => CommittedReadable
  BY DEF LiveInv
<1>3. HeadInv /\ CommittedReadable /\ CommittedReadable' /\ [Next]_vars => [Contract!Next]_Contract!vars
  BY StepImplements
<1> QED BY <1>1, <1>2, <1>3, HeadInvariant, LiveInvariant, PTL
        DEF Spec, ImplementsJournalBackend, Contract!Spec
===============================================================================
