----------------------------- MODULE VaultWorkspace -----------------------------
(***************************************************************************)
(* The encrypted workspace of a Vault and what reclaims its old files:     *)
(* vault/encrypted-workspace.ts (immutable file objects and one manifest   *)
(* advanced by compare-and-swap), vault/reclamation-queue.ts (one durable  *)
(* queue of superseded objects) and the queue phase of vault/              *)
(* reclamation.ts.  Pages share nothing but the object store, which keeps  *)
(* the contract of ObjectStore; every call to it is a step.                *)
(*                                                                         *)
(* Abstractions.  A file object is its revision, a number drawn from a     *)
(* counter: randomUuid never repeats, so no key is written twice and the   *)
(* branch of write that finds its key taken is left out.  The ETags of the *)
(* manifest and of the queue are counters.  The supersession time of an    *)
(* entry is only compared with the safety age: aged holds the entries that *)
(* have reached it.  Envelopes, limits on bytes and candidates of other    *)
(* kinds than workspace files are left out.                                *)
(***************************************************************************)
EXTENDS Naturals, FiniteSets, FiniteSetsExt

CONSTANTS Pages, Paths,
          Operations,         \* the operations the pages call
          MaxFiles,           \* MAX_FILES
          MaxQueueEntries,    \* MAX_QUEUE_ENTRIES
          MaxCommitAttempts,  \* MAX_COMMIT_ATTEMPTS
          TrashBatch,         \* MAX_TRASH_BATCH
          Reclaims,           \* the store has a trash verb
          MaxRevisions,       \* bound: file revisions drawn
          MaxFaults           \* bound: failed requests and closed pages

WorkspaceAssumption ==
  /\ Operations \subseteq {"write", "remove", "read"}
  /\ MaxFiles \in Nat \ {0} /\ MaxQueueEntries \in Nat /\ MaxRevisions \in Nat
  /\ MaxCommitAttempts \in Nat \ {0} /\ TrashBatch \in Nat \ {0}
  /\ Reclaims \in BOOLEAN
  /\ MaxFaults \in Nat

VARIABLES
  manifest,  \* the manifest object; ETag 0 means that there is none
  stored,    \* the file objects that exist
  queue,     \* the queue object; ETag 0 means that there is none
  aged,      \* revisions superseded longer than the safety age
  call,      \* each page's call: operation, path, expected revision
  pc,        \* where it is
  base,      \* the manifest it loaded
  minted,    \* the file object it put
  old,       \* the revision its commit superseded
  tries,     \* commit attempts on the queue
  held,      \* the queue object it loaded
  todo,      \* candidates a sweep still has to offer to the store
  settled,   \* keys a sweep will take out of the queue
  late,      \* an object write the page gave up on that may still arrive
  saw,       \* history: the revision the writer of each revision meant to replace
  used       \* bounds so far

callVars == <<call, pc, base, minted, old, tries, held, todo, settled>>
vars == <<manifest, stored, queue, aged, callVars, late, saw, used>>
-------------------------------------------------------------------------------
Revisions == 1..MaxRevisions
NoManifest == [etag |-> 0, files |-> [a \in Paths |-> 0]]
NoQueue == [etag |-> 0, entries |-> {}]
NoCall == [op |-> "none", path |-> 0, expected |-> 0]
NoLate == [object |-> "none", value |-> 0, etag |-> 0]

\* options.expectedRevision: not given, null (must not exist), or a revision.
Anything == MaxRevisions + 1

Referenced == {manifest.files[a] : a \in Paths} \ {0}

Init ==
  /\ manifest = NoManifest /\ stored = {} /\ queue = NoQueue /\ aged = {}
  /\ call = [p \in Pages |-> NoCall]
  /\ pc = [p \in Pages |-> "idle"]
  /\ base = [p \in Pages |-> NoManifest]
  /\ minted = [p \in Pages |-> 0]
  /\ old = [p \in Pages |-> 0]
  /\ tries = [p \in Pages |-> 0]
  /\ held = [p \in Pages |-> NoQueue]
  /\ todo = [p \in Pages |-> {}]
  /\ settled = [p \in Pages |-> {}]
  /\ late = [p \in Pages |-> NoLate]
  /\ saw = [r \in Revisions |-> 0]
  /\ used = [revisions |-> 0, faults |-> 0]

Goto(p, label) == pc' = [pc EXCEPT ![p] = label]
Fault == used.faults < MaxFaults /\ used' = [used EXCEPT !.faults = @ + 1]

\* The call returns or throws: its locals are gone.
Leave(p) ==
  /\ call' = [call EXCEPT ![p] = NoCall]
  /\ pc' = [pc EXCEPT ![p] = "idle"]
  /\ base' = [base EXCEPT ![p] = NoManifest]
  /\ minted' = [minted EXCEPT ![p] = 0]
  /\ old' = [old EXCEPT ![p] = 0]
  /\ tries' = [tries EXCEPT ![p] = 0]
  /\ held' = [held EXCEPT ![p] = NoQueue]
  /\ todo' = [todo EXCEPT ![p] = {}]
  /\ settled' = [settled EXCEPT ![p] = {}]

\* write, remove and read begin by loading the manifest.
Begin(p, op, path, expected) ==
  /\ pc[p] = "idle"
  /\ call' = [call EXCEPT ![p] = [op |-> op, path |-> path, expected |-> expected]]
  /\ Goto(p, "load")
  /\ UNCHANGED <<manifest, stored, queue, aged, base, minted, old, tries, held, todo,
                 settled, late, saw, used>>

\* checkExpectedRevision: does the committed entry differ from the expected one?
Unexpected(p, current) == call[p].expected \notin {Anything, current}

\* What each operation checks of the manifest m it has loaded before it goes on.
Checked(p, m) ==
  \E current \in {m.files[call[p].path]} :
    IF \/ call[p].op # "write" /\ current = 0
       \/ Unexpected(p, current)
       \/ /\ call[p].op = "write" /\ current = 0
          /\ Cardinality({a \in Paths : m.files[a] # 0}) >= MaxFiles
    THEN Leave(p)
    ELSE /\ base' = [base EXCEPT ![p] = m]
         /\ Goto(p, CASE call[p].op = "write" -> "put"
                      [] call[p].op = "remove" -> "cas"
                      [] call[p].op = "read" -> "fetch")
         /\ UNCHANGED <<call, minted, old, tries, held, todo, settled>>

\* loadManifest; only a write goes on without one.
LoadManifest(p) ==
  /\ pc[p] = "load"
  /\ \/ /\ manifest = NoManifest /\ call[p].op = "write"
        /\ Goto(p, "create")
        /\ UNCHANGED <<call, base, minted, old, tries, held, todo, settled>>
     \/ /\ manifest = NoManifest /\ call[p].op # "write"
        /\ Leave(p)
     \/ manifest # NoManifest /\ Checked(p, manifest)
  /\ UNCHANGED <<manifest, stored, queue, aged, late, saw, used>>

\* loadOrCreateManifest: create the root and use it, or read the one another page
\* created in the meantime.
CreateRoot(p) ==
  /\ pc[p] = "create"
  /\ IF manifest = NoManifest
     THEN /\ manifest' = [manifest EXCEPT !.etag = 1]
          /\ Checked(p, manifest')
     ELSE /\ Goto(p, "load")
          /\ UNCHANGED <<manifest, call, base, minted, old, tries, held, todo, settled>>
  /\ UNCHANGED <<stored, queue, aged, late, saw, used>>

\* The new file object is put under a key nobody has used.
PutFile(p) ==
  /\ pc[p] = "put" /\ used.revisions < MaxRevisions
  /\ used' = [used EXCEPT !.revisions = @ + 1]
  /\ stored' = stored \cup {used'.revisions}
  /\ minted' = [minted EXCEPT ![p] = used'.revisions]
  /\ saw' = [saw EXCEPT ![used'.revisions] = base[p].files[call[p].path]]
  /\ Goto(p, "cas")
  /\ UNCHANGED <<manifest, queue, aged, call, base, old, tries, held, todo, settled, late>>

\* The manifest a write or a remove commits.
NextManifest(p) ==
  [etag |-> base[p].etag + 1,
   files |-> [base[p].files EXCEPT ![call[p].path] = minted[p]]]

\* Fault: the object is written whatever its ETag is.
SwapsBug(object, loaded) == object.etag >= loaded.etag

\* The swap of an object under its ETag, as the store applies it.
Swaps(object, loaded) == object.etag = loaded.etag

\* Fault: a lost swap is taken for a commit, and the old file for superseded.
CommitManifestBug(p) ==
  /\ pc[p] = "cas"
  /\ manifest' = IF Swaps(manifest, base[p]) THEN NextManifest(p) ELSE manifest
  /\ IF base[p].files[call[p].path] = 0
     THEN Leave(p)
     ELSE /\ old' = [old EXCEPT ![p] = base[p].files[call[p].path]]
          /\ Goto(p, "record")
          /\ UNCHANGED <<call, base, minted, tries, held, todo, settled>>
  /\ UNCHANGED <<stored, queue, aged, late, saw, used>>

\* advanceManifest.  A lost swap throws; a committed one supersedes the old file.
CommitManifest(p) ==
  /\ pc[p] = "cas"
  /\ IF ~Swaps(manifest, base[p])
     THEN Leave(p) /\ UNCHANGED manifest
     ELSE /\ manifest' = NextManifest(p)
          /\ IF base[p].files[call[p].path] = 0
             THEN Leave(p)
             ELSE /\ old' = [old EXCEPT ![p] = base[p].files[call[p].path]]
                  /\ Goto(p, "record")
                  /\ UNCHANGED <<call, base, minted, tries, held, todo, settled>>
  /\ UNCHANGED <<stored, queue, aged, late, saw, used>>
-------------------------------------------------------------------------------
\* record and confirmReclaimed: load the queue, ...
LoadQueue(p) ==
  /\ pc[p] \in {"record", "confirm"}
  /\ \E done \in {pc[p] = "confirm" /\ settled[p] \cap queue.entries = {}} :
       IF done
       THEN Leave(p)
       ELSE /\ held' = [held EXCEPT ![p] = queue]
            /\ Goto(p, IF pc[p] = "record" THEN "recordCommit" ELSE "confirmCommit")
            /\ UNCHANGED <<call, base, minted, old, tries, todo, settled>>
  /\ UNCHANGED <<manifest, stored, queue, aged, late, saw, used>>

\* ... and write it back with the superseded file, or without the settled keys.
NextQueue(p) ==
  [etag |-> held[p].etag + 1,
   entries |-> IF pc[p] = "recordCommit" THEN held[p].entries \cup {old[p]}
                                         ELSE held[p].entries \ settled[p]]

Overflows(p) == Cardinality(NextQueue(p).entries) > MaxQueueEntries

\* Fault: off by one, a lost commit is tried once more than the limit allows.
CommitQueueBug(p) ==
  /\ pc[p] \in {"recordCommit", "confirmCommit"}
  /\ IF ~Overflows(p) /\ Swaps(queue, held[p])
     THEN queue' = NextQueue(p) /\ Leave(p)
     ELSE /\ IF tries[p] < MaxCommitAttempts
             THEN /\ tries' = [tries EXCEPT ![p] = @ + 1]
                  /\ Goto(p, IF pc[p] = "recordCommit" THEN "record" ELSE "confirm")
                  /\ UNCHANGED <<call, base, minted, old, held, todo, settled>>
             ELSE Leave(p)
          /\ UNCHANGED queue
  /\ UNCHANGED <<manifest, stored, aged, late, saw, used>>

\* A commit that loses, or that would overflow the queue, is tried again from the
\* load until the attempts are spent; the caller never hears of it.
CommitQueue(p) ==
  /\ pc[p] \in {"recordCommit", "confirmCommit"}
  /\ IF ~Overflows(p) /\ Swaps(queue, held[p])
     THEN queue' = NextQueue(p) /\ Leave(p)
     ELSE /\ IF tries[p] + 1 < MaxCommitAttempts
             THEN /\ tries' = [tries EXCEPT ![p] = @ + 1]
                  /\ Goto(p, IF pc[p] = "recordCommit" THEN "record" ELSE "confirm")
                  /\ UNCHANGED <<call, base, minted, old, held, todo, settled>>
             ELSE Leave(p)
          /\ UNCHANGED queue
  /\ UNCHANGED <<manifest, stored, aged, late, saw, used>>
-------------------------------------------------------------------------------
\* Fault: the age of an entry is not looked at.
PastBug == queue.entries

\* The entries past the safety age.
Past == queue.entries \cap aged

\* runVaultReclamationSweep, queue phase: read the queue; without such an entry
\* there is nothing to do.
SweepRead(p) ==
  /\ pc[p] = "idle" /\ Past # {}
  /\ call' = [call EXCEPT ![p].op = "sweep"]
  /\ todo' = [todo EXCEPT ![p] = Past]
  /\ Goto(p, "verify")
  /\ UNCHANGED <<manifest, stored, queue, aged, base, minted, old, tries, held, settled,
                 late, saw, used>>

\* Re-verification: what the fresh manifest names leaves the queue untouched; a
\* store without trash keeps the rest queued.
SweepVerify(p) ==
  /\ pc[p] = "verify"
  /\ \E live \in {todo[p] \cap Referenced} :
       IF live = {} /\ ~Reclaims
       THEN Leave(p)
       ELSE /\ settled' = [settled EXCEPT ![p] = live]
            /\ todo' = [todo EXCEPT ![p] = IF Reclaims THEN @ \ live ELSE {}]
            /\ Goto(p, IF Reclaims /\ todo[p] # live THEN "trash" ELSE "confirm")
            /\ UNCHANGED <<call, base, minted, old, tries, held>>
  /\ UNCHANGED <<manifest, stored, queue, aged, late, saw, used>>

\* After a batch: the next one, or the queue is told what was settled.
Trashed(p, batch, done) ==
  IF todo[p] = batch /\ settled[p] \cup done = {}
  THEN Leave(p)
  ELSE /\ settled' = [settled EXCEPT ![p] = @ \cup done]
       /\ todo' = [todo EXCEPT ![p] = @ \ batch]
       /\ Goto(p, IF todo[p] = batch THEN "confirm" ELSE "trash")
       /\ UNCHANGED <<call, base, minted, old, tries, held>>

\* Fault: only confirmed removals are settled, a key that is not indexed never is.
SweepTrashBug(p) ==
  /\ pc[p] = "trash"
  /\ \E batch \in kSubset(IF Cardinality(todo[p]) < TrashBatch
                          THEN Cardinality(todo[p]) ELSE TrashBatch, todo[p]) :
       \E refused \in SUBSET (batch \cap stored) :
         /\ IF refused = {} THEN UNCHANGED used ELSE Fault
         /\ stored' = stored \ batch
         /\ Trashed(p, batch, (batch \ refused) \cap stored)
  /\ UNCHANGED <<manifest, queue, aged, late, saw>>

\* One trash call: each key leaves the store's index; the answer confirms it, says
\* that it was not indexed, or (a fault) refuses to confirm its body's removal.
SweepTrash(p) ==
  /\ pc[p] = "trash"
  /\ \E batch \in kSubset(IF Cardinality(todo[p]) < TrashBatch
                          THEN Cardinality(todo[p]) ELSE TrashBatch, todo[p]) :
       \E refused \in SUBSET (batch \cap stored) :
         /\ IF refused = {} THEN UNCHANGED used ELSE Fault
         /\ stored' = stored \ batch
         /\ Trashed(p, batch, batch \ refused)
  /\ UNCHANGED <<manifest, queue, aged, late, saw>>

\* A superseded revision reaches the safety age (an hour or more): no read takes that
\* long, so none still holds a manifest that names it.
Age(r) ==
  /\ r \in queue.entries \ aged
  /\ \A p \in Pages : pc[p] = "fetch" => base[p].files[call[p].path] # r
  /\ aged' = aged \cup {r}
  /\ UNCHANGED <<manifest, stored, queue, callVars, late, saw, used>>

\* readEntry: the object the manifest named is read, or is missing.
Fetch(p) ==
  /\ pc[p] = "fetch"
  /\ Leave(p)
  /\ UNCHANGED <<manifest, stored, queue, aged, late, saw, used>>
-------------------------------------------------------------------------------
\* The late write of a page that gave up: the swap it sent.
LateManifest(p) == [object |-> "manifest", value |-> NextManifest(p), etag |-> base[p].etag]
LateQueue(p) == [object |-> "queue", value |-> NextQueue(p), etag |-> held[p].etag]

\* A swap or a trash call throws: applied, lost, or late.  The file object of a
\* lost swap stays behind, as does one whose put was applied and then failed.
Throws(p) ==
  /\ Fault
  /\ pc[p] \in {"cas", "recordCommit", "confirmCommit", "trash"}
  /\ Leave(p)
  /\ \/ UNCHANGED <<manifest, stored, queue, late>>
     \/ /\ pc[p] = "cas" /\ Swaps(manifest, base[p]) /\ manifest' = NextManifest(p)
        /\ UNCHANGED <<stored, queue, late>>
     \/ /\ pc[p] \in {"recordCommit", "confirmCommit"}
        /\ ~Overflows(p) /\ Swaps(queue, held[p])
        /\ queue' = NextQueue(p)
        /\ UNCHANGED <<manifest, stored, late>>
     \/ /\ pc[p] = "trash" /\ \E batch \in SUBSET todo[p] : stored' = stored \ batch
        /\ UNCHANGED <<manifest, queue, late>>
     \/ /\ late[p] = NoLate
        /\ \/ pc[p] = "cas" /\ late' = [late EXCEPT ![p] = LateManifest(p)]
           \/ /\ pc[p] \in {"recordCommit", "confirmCommit"} /\ ~Overflows(p)
              /\ late' = [late EXCEPT ![p] = LateQueue(p)]
        /\ UNCHANGED <<manifest, stored, queue>>
  /\ UNCHANGED <<aged, saw>>

\* The late write reaches the store and applies if its ETag is still the current one.
Arrive(p) ==
  /\ late[p] # NoLate
  /\ late' = [late EXCEPT ![p] = NoLate]
  /\ \/ UNCHANGED <<manifest, queue>>
     \/ /\ late[p].object = "manifest" /\ Swaps(manifest, late[p])
        /\ manifest' = late[p].value /\ UNCHANGED queue
     \/ /\ late[p].object = "queue" /\ Swaps(queue, late[p])
        /\ queue' = late[p].value /\ UNCHANGED manifest
  /\ UNCHANGED <<stored, aged, callVars, saw, used>>

\* The page closes at an await, or another request than those above throws.
Close(p) ==
  /\ pc[p] # "idle" /\ Fault
  /\ Leave(p)
  /\ UNCHANGED <<manifest, stored, queue, aged, late, saw>>
-------------------------------------------------------------------------------
\* What a caller may expect of the file: nothing, its absence, or a revision.
Expectations(op) ==
  CASE op = "write" -> IF used.revisions = MaxRevisions THEN {} ELSE {0, Anything} \cup Referenced
    [] op = "remove" -> {Anything} \cup Referenced
    [] op = "read" -> {Anything}

Step(p) ==
  \/ LoadManifest(p) \/ CreateRoot(p) \/ PutFile(p) \/ CommitManifest(p)
  \/ LoadQueue(p) \/ CommitQueue(p)
  \/ SweepVerify(p) \/ SweepTrash(p) \/ Fetch(p)

Next ==
  \/ \E p \in Pages :
       \/ \E op \in Operations, a \in Paths : \E e \in Expectations(op) : Begin(p, op, a, e)
       \/ SweepRead(p) \/ Step(p) \/ Throws(p) \/ Arrive(p) \/ Close(p)
  \/ \E r \in Revisions : Age(r)

Spec == Init /\ [][Next]_vars

\* Pages finish what they begin, time passes, and the operator keeps running the
\* sweep (the Vault view's "Reclaim storage").
FairSpec ==
  /\ Spec
  /\ \A p \in Pages : WF_vars(Step(p)) /\ SF_vars(SweepRead(p))
-------------------------------------------------------------------------------
Manifest == [etag : Nat, files : [Paths -> 0..MaxRevisions]]
Queue == [etag : Nat, entries : SUBSET Revisions]

TypeOK ==
  /\ manifest \in Manifest /\ queue \in Queue
  /\ stored \subseteq Revisions /\ aged \subseteq Revisions
  /\ call \in [Pages -> [op : {"none", "write", "remove", "read", "sweep"},
                         path : Paths \cup {0}, expected : 0..Anything]]
  /\ pc \in [Pages -> {"idle", "load", "create", "put", "cas", "fetch", "record", "recordCommit",
                       "verify", "trash", "confirm", "confirmCommit"}]
  /\ base \in [Pages -> Manifest] /\ held \in [Pages -> Queue]
  /\ minted \in [Pages -> 0..MaxRevisions] /\ old \in [Pages -> 0..MaxRevisions]
  /\ tries \in [Pages -> 0..MaxCommitAttempts - 1]
  /\ todo \in [Pages -> SUBSET Revisions] /\ settled \in [Pages -> SUBSET Revisions]
  /\ \A p \in Pages : late[p] = NoLate \/ late[p].value \in Manifest \cup Queue
  /\ saw \in [Revisions -> 0..MaxRevisions]
  /\ used \in [revisions : 0..MaxRevisions, faults : 0..MaxFaults]

(***************************************************************************)
(* Nothing in use is swept, whatever writers, sweeps, lost answers and     *)
(* late swaps do: every file the committed manifest names is stored, and   *)
(* so is the file of an older manifest that a read is about to fetch (the  *)
(* safety age keeps a superseded file for readers of the older root), so   *)
(* readEntry never finds its object missing.                               *)
(***************************************************************************)
ReferencedFilesAreStored ==
  /\ Referenced \subseteq stored
  /\ \A p \in Pages : pc[p] = "fetch" => base[p].files[call[p].path] \in stored

\* The queue never names a file the committed manifest names: it is told of a file
\* only after the swap that replaced it (reclamation-queue.ts:54).
QueueNamesNoLiveFile == queue.entries \cap Referenced = {}

\* A commit changes one path, and a new revision replaces exactly the one its
\* writer loaded, also when its swap arrives late.
ReplacesWhatItSaw ==
  /\ \A a, b \in Paths :
       a # b => manifest.files[a] = manifest'.files[a] \/ manifest.files[b] = manifest'.files[b]
  /\ \A a \in Paths :
       manifest'.files[a] \notin {0, manifest.files[a]} =>
         saw[manifest'.files[a]] = manifest.files[a]

(***************************************************************************)
(* No write of a file is lost or resurrected: a commit replaces exactly    *)
(* what its writer saw, and nothing live is ever queued for reclamation    *)
(* (advanceManifest, recordSuperseded).                                    *)
(***************************************************************************)
CommitsReplaceWhatTheySaw == []QueueNamesNoLiveFile /\ [][ReplacesWhatItSaw]_vars

\* A superseded file past its age leaves the queue once sweeps are run: confirmed,
\* or not indexed any more because an earlier sweep was cut off after its trash.
AgedEntriesLeave ==
  \A r \in Revisions : r \in Past ~> r \notin queue.entries

\* What no manifest names and no call is about to record can be found again: it is
\* queued, or no store index names it (reclamation-queue.ts:58: an overflow is
\* "answered by the provider-side untracked-object enumeration").
SupersededFilesAreFound ==
  \A r \in stored \ (Referenced \cup queue.entries) :
    \E p \in Pages : r \in {minted[p], old[p]}
===============================================================================
