------------------------------- MODULE VaultProofs -----------------------------
(***************************************************************************)
(* Proofs about a Vault: the encrypted workspace (VaultWorkspace), the     *)
(* coordinator of a page (VaultCoordinator, as V) and the profile          *)
(* catalogue (ProfileCatalog, as P).  Each part stands alone; a name that  *)
(* several of them use (Pages, Keys, MaxFaults, used) means what it means  *)
(* in the specification a theorem starts from.                             *)
(*                                                                         *)
(* The workspace, for any pages, paths and limits: every file the          *)
(* committed manifest names is stored, a read finds the file its manifest  *)
(* named, the reclamation queue names no live file, and a commit changes   *)
(* one path and replaces the revision its writer saw, although pages       *)
(* crash, answers are lost and swaps arrive late.                          *)
(*                                                                         *)
(* The coordinator, for any vaults, keys and number of probes, commands    *)
(* and faults: a runtime that is handed out as ready was probed over the   *)
(* configured vault with the attached key and its cache is open, no other  *)
(* cache stays open, only the running probe claims readiness, and no probe *)
(* replaces a runtime that is in use.  The exception is part of each       *)
(* statement: a re-probe that was superseded while its objects were being  *)
(* removed puts back the runtime it retained.                              *)
(*                                                                         *)
(* The catalogue, for any pages, releases, profiles, skills and themes, in *)
(* both stores: no commit is overwritten unseen, every edit and every      *)
(* stored catalogue passes the validation it is loaded with, no profile    *)
(* that an old conversation names is lost, what a person wrote survives    *)
(* the releases that open the catalogue, and what a release ships arrives  *)
(* unless it repaints a theme that a profile is pinned to.                 *)
(***************************************************************************)
EXTENDS VaultWorkspace, FiniteSetTheorems, TLAPS

\* The constants and variables of the coordinator; see VaultCoordinator.
CONSTANTS Vaults, Keys, Probes, Commands, Reclaimable, MaxCommands
VARIABLES generation, config, workspaceKey, store, runtime, acceleratedStore, open, phase,
          evidence, controller, probe, commands, faults, opened

\* Those of the catalogue; see ProfileCatalog.
CONSTANTS Themes, Skills, Custom, Profiles, First, Theme, Releases, Store, Edits, Faults,
          MaxGeneration, MaxDigest
VARIABLES head, page

V == INSTANCE VaultCoordinator
P == INSTANCE ProfileCatalog
-------------------------------------------------------------------------------
(* The workspace. *)

LateWrites ==
  {NoLate} \cup [object : {"manifest"}, value : Manifest, etag : Nat]
           \cup [object : {"queue"}, value : Queue, etag : Nat]

(***************************************************************************)
(* The inductive invariant.  A revision is superseded once anything that   *)
(* may reach the queue or a sweep holds it; superseded revisions are never *)
(* named again.  A write is in force while the store would still apply its *)
(* swap: the ETag it was made for is the manifest's.  Its new revision is  *)
(* then known to nobody else, so a commit takes every other write out of   *)
(* force and brings back nothing that was superseded.                      *)
(***************************************************************************)
Superseded(r) ==
  \/ r \in queue.entries \/ r \in aged
  \/ \E p \in Pages :
       \/ r \in held[p].entries \/ r \in todo[p]
       \/ r = old[p] /\ r # 0
       \/ late[p].object = "queue" /\ r \in late[p].value.entries

Named(r) == r # 0 /\ \E a \in Paths : manifest.files[a] = r

\* Revision r (0: none) may become the file at path a.
Fresh(a, r) ==
  r # 0 =>
    /\ r \in stored /\ r <= used.revisions /\ ~Superseded(r) /\ ~Named(r)
    /\ saw[r] = manifest.files[a]

Committed ==
  /\ \A r \in Revisions : Named(r) => r \in stored /\ r <= used.revisions /\ ~Superseded(r)
  /\ \A a, b \in Paths : manifest.files[a] = manifest.files[b] /\ manifest.files[a] # 0 => a = b
  /\ \A r : Superseded(r) => r \in Revisions /\ r <= used.revisions
  /\ manifest.etag = 0 => manifest = NoManifest

\* A page's manifest is an older one or the current one.
Loaded(p) ==
  /\ base[p].etag <= manifest.etag
  /\ base[p].etag = manifest.etag => base[p].files = manifest.files

InForce(p) == pc[p] = "cas" /\ base[p].etag = manifest.etag => Fresh(call[p].path, minted[p])

LateInForce(p) ==
  late[p].object = "manifest" =>
    /\ late[p].etag <= manifest.etag /\ late[p].value.etag = late[p].etag + 1
    /\ late[p].etag = manifest.etag =>
         \E a \in Paths :
           /\ late[p].value.files = [manifest.files EXCEPT ![a] = late[p].value.files[a]]
           /\ Fresh(a, late[p].value.files[a])

\* The object a read is about to fetch is there, and young.
Fetching(p) ==
  pc[p] = "fetch" =>
    /\ base[p].files[call[p].path] \in stored
    /\ base[p].files[call[p].path] \notin aged

Placed(p) ==
  /\ pc[p] = "idle" => call[p] = NoCall
  /\ pc[p] \in {"load", "create", "put", "cas", "fetch"} =>
       call[p].path \in Paths /\ call[p].op \in {"write", "remove", "read"}
  /\ pc[p] \in {"create", "put"} => call[p].op = "write"
  /\ pc[p] \in {"idle", "load", "create", "put"} => minted[p] = 0
  /\ pc[p] \in {"record", "recordCommit"} => old[p] # 0
  /\ todo[p] \subseteq aged

PageInv(p) == Loaded(p) /\ InForce(p) /\ LateInForce(p) /\ Fetching(p) /\ Placed(p)

WorkspaceInv ==
  /\ TypeOK /\ late \in [Pages -> LateWrites]
  /\ Committed
  /\ \A p \in Pages : PageInv(p)
-------------------------------------------------------------------------------
(* Steps that commit no manifest, and steps that do *)

CallTyped ==
  /\ call \in [Pages -> [op : {"none", "write", "remove", "read", "sweep"},
                         path : Paths \cup {0}, expected : 0..Anything]]
  /\ pc \in [Pages -> {"idle", "load", "create", "put", "cas", "fetch", "record", "recordCommit",
                       "verify", "trash", "confirm", "confirmCommit"}]
  /\ base \in [Pages -> Manifest] /\ held \in [Pages -> Queue]
  /\ minted \in [Pages -> 0..MaxRevisions] /\ old \in [Pages -> 0..MaxRevisions]
  /\ tries \in [Pages -> 0..MaxCommitAttempts - 1]
  /\ todo \in [Pages -> SUBSET Revisions] /\ settled \in [Pages -> SUBSET Revisions]

StoreTyped ==
  /\ manifest \in Manifest /\ queue \in Queue
  /\ stored \subseteq Revisions /\ aged \subseteq Revisions
  /\ late \in [Pages -> LateWrites]
  /\ saw \in [Revisions -> 0..MaxRevisions]
  /\ used \in [revisions : 0..MaxRevisions, faults : 0..MaxFaults]

LEMMA Typing == CallTyped /\ StoreTyped <=> TypeOK /\ late \in [Pages -> LateWrites]
<1>1. ASSUME late \in [Pages -> LateWrites], NEW p \in Pages
      PROVE  late[p] = NoLate \/ late[p].value \in Manifest \cup Queue
  BY <1>1 DEF LateWrites
<1> QED BY <1>1 DEF CallTyped, StoreTyped, TypeOK

Quiet ==
  /\ manifest' = manifest
  /\ \A r : Superseded(r)' => Superseded(r)
  /\ \A r \in stored : r \in stored' \/ r \in aged
  /\ aged \subseteq aged'
  /\ \A p \in Pages : pc[p] = "fetch" => base[p].files[call[p].path] \notin aged' \ aged
  /\ used.revisions <= used'.revisions
  /\ \A r \in Revisions : r <= used.revisions => saw'[r] = saw[r]

SameCall(p) ==
  /\ pc'[p] = pc[p] /\ call'[p] = call[p] /\ base'[p] = base[p] /\ minted'[p] = minted[p]
  /\ old'[p] = old[p] /\ todo'[p] = todo[p]

LEMMA QuietFresh ==
  ASSUME Quiet, StoreTyped, StoreTyped', NEW a \in Paths, NEW r \in 0..MaxRevisions, Fresh(a, r)
  PROVE  Fresh(a, r)'
<1> SUFFICES ASSUME r # 0
             PROVE  Fresh(a, r)'
  BY DEF Fresh
<1>1. r \in Revisions /\ r \in stored /\ r <= used.revisions /\ ~Superseded(r) /\ ~Named(r)
      /\ saw[r] = manifest.files[a]
  BY DEF Fresh, Revisions
<1>2. r \in stored'
  BY <1>1 DEF Quiet, Superseded
<1>3. r <= used'.revisions
  <2>1. used.revisions \in Nat /\ used'.revisions \in Nat
    BY DEF StoreTyped
  <2> QED BY <1>1, <2>1 DEF Quiet, Revisions
<1>4. ~Superseded(r)' /\ ~Named(r)' /\ saw'[r] = manifest'.files[a]
  BY <1>1 DEF Quiet, Named
<1> QED BY <1>2, <1>3, <1>4 DEF Fresh

LEMMA QuietCommitted ==
  ASSUME Quiet, StoreTyped, StoreTyped', Committed
  PROVE  Committed'
<1>0. used.revisions \in Nat /\ used'.revisions \in Nat /\ used.revisions <= used'.revisions
      /\ manifest' = manifest /\ \A r : Superseded(r)' => Superseded(r)
  BY DEF StoreTyped, Quiet
<1>1. ASSUME NEW r \in Revisions, Named(r)'
      PROVE  r \in stored' /\ r <= used'.revisions /\ ~Superseded(r)'
  <2>1. Named(r)
    BY <1>0, <1>1 DEF Named
  <2>2. r \in stored /\ r <= used.revisions /\ ~Superseded(r)
    BY <2>1 DEF Committed
  <2>3. r \in stored'
    BY <2>2 DEF Quiet, Superseded
  <2> QED BY <1>0, <2>2, <2>3 DEF Revisions
<1>2. \A r : Superseded(r)' => r \in Revisions /\ r <= used'.revisions
  <2> SUFFICES ASSUME NEW r, Superseded(r)'
               PROVE  r \in Revisions /\ r <= used'.revisions
    OBVIOUS
  <2>1. r \in Revisions /\ r <= used.revisions
    BY <1>0 DEF Committed
  <2> QED BY <1>0, <2>1 DEF Revisions
<1>3. \A a, b \in Paths :
        manifest'.files[a] = manifest'.files[b] /\ manifest'.files[a] # 0 => a = b
  BY <1>0 DEF Committed
<1>4. manifest'.etag = 0 => manifest' = NoManifest
  BY <1>0 DEF Committed
<1> QED BY <1>1, <1>2, <1>3, <1>4 DEF Committed

\* What a page has at stake in its late write is settled by the store alone.
LEMMA QuietLate ==
  ASSUME Quiet, StoreTyped, StoreTyped', NEW p \in Pages, late'[p] = late[p], LateInForce(p)
  PROVE  LateInForce(p)'
<1> SUFFICES ASSUME late[p].object = "manifest"
             PROVE  LateInForce(p)'
  BY DEF LateInForce
<1>1. late[p].etag <= manifest.etag /\ late[p].value.etag = late[p].etag + 1
  BY DEF LateInForce
<1>2. ASSUME late[p].etag = manifest.etag
      PROVE  \E a \in Paths :
               /\ late'[p].value.files = [manifest'.files EXCEPT ![a] = late'[p].value.files[a]]
               /\ Fresh(a, late[p].value.files[a])'
  <2>1. PICK a \in Paths :
          /\ late[p].value.files = [manifest.files EXCEPT ![a] = late[p].value.files[a]]
          /\ Fresh(a, late[p].value.files[a])
    BY <1>2 DEF LateInForce
  <2>2. late[p].value \in Manifest
    <3>1. late[p] \in LateWrites
      BY DEF StoreTyped
    <3> QED BY <3>1 DEF LateWrites, NoLate
  <2>3. late[p].value.files[a] \in 0..MaxRevisions
    BY <2>2 DEF Manifest
  <2> DEFINE r == late[p].value.files[a]
  <2>4. r \in 0..MaxRevisions /\ Fresh(a, r)
    BY <2>1, <2>3
  <2> HIDE DEF r
  <2>5. Fresh(a, r)'
    <3>1. ASSUME NEW x \in 0..MaxRevisions, Fresh(a, x)
          PROVE  Fresh(a, x)'
      BY <3>1, QuietFresh
    <3>2. r' = r
      BY DEF r
    <3> QED BY <2>4, <3>1, <3>2 DEF Fresh, Superseded, Named
  <2> QED BY <2>1, <2>5 DEF Quiet, r
<1> QED BY <1>1, <1>2 DEF LateInForce, Quiet

LEMMA QuietPage ==
  ASSUME Quiet, StoreTyped, StoreTyped', CallTyped, NEW p \in Pages, SameCall(p), late'[p] = late[p],
         Committed, PageInv(p)
  PROVE  PageInv(p)'
<1>1. Loaded(p)'
  BY DEF PageInv, Loaded, Quiet, SameCall
<1>2. InForce(p)'
  <2> SUFFICES ASSUME pc[p] = "cas", base[p].etag = manifest.etag
               PROVE  InForce(p)'
    BY DEF InForce, Quiet, SameCall
  <2>1. Fresh(call[p].path, minted[p]) /\ call[p].path \in Paths /\ minted[p] \in 0..MaxRevisions
    BY DEF PageInv, InForce, Placed, CallTyped
  <2>2. \A a \in Paths, x \in 0..MaxRevisions : Fresh(a, x) => Fresh(a, x)'
    BY QuietFresh
  <2> QED BY <2>1, <2>2 DEF InForce, SameCall, Fresh, Superseded, Named
<1>3. LateInForce(p)'
  BY QuietLate DEF PageInv
<1>4. Fetching(p)'
  <2> SUFFICES ASSUME pc[p] = "fetch"
               PROVE  Fetching(p)'
    BY DEF Fetching, SameCall
  <2>1. base[p].files[call[p].path] \in stored /\ base[p].files[call[p].path] \notin aged
    BY DEF PageInv, Fetching
  <2> QED BY <2>1 DEF Fetching, SameCall, Quiet
<1>5. Placed(p)'
  BY DEF PageInv, Placed, Quiet, SameCall
<1> QED BY <1>1, <1>2, <1>3, <1>4, <1>5 DEF PageInv

LEMMA StillSuperseded ==
  ASSUME \A r \in queue'.entries : Superseded(r),
         \A r \in aged' : Superseded(r),
         \A q \in Pages :
           /\ \A r \in held'[q].entries \cup todo'[q] : Superseded(r)
           /\ old'[q] # 0 => Superseded(old'[q])
           /\ late'[q].object = "queue" => \A r \in late'[q].value.entries : Superseded(r)
  PROVE  \A r : Superseded(r)' => Superseded(r)
<1> SUFFICES ASSUME NEW r, Superseded(r)'
             PROVE  Superseded(r)
  OBVIOUS
<1>1. \/ r \in queue'.entries \/ r \in aged'
      \/ \E q \in Pages :
           \/ r \in held'[q].entries \/ r \in todo'[q]
           \/ r = old'[q] /\ r # 0
           \/ late'[q].object = "queue" /\ r \in late'[q].value.entries
  BY DEF Superseded
<1> QED BY <1>1

\* Everything the pages, the queue and its late writes name is superseded.
LEMMA SupersededParts ==
  /\ \A r \in queue.entries : Superseded(r)
  /\ \A r \in aged : Superseded(r)
  /\ \A q \in Pages :
       /\ \A r \in held[q].entries : Superseded(r)
       /\ \A r \in todo[q] : Superseded(r)
       /\ old[q] # 0 => Superseded(old[q])
       /\ late[q].object = "queue" => \A r \in late[q].value.entries : Superseded(r)
BY DEF Superseded

LEMMA QuietStep ==
  ASSUME WorkspaceInv, Quiet, StoreTyped', CallTyped', NEW p \in Pages,
         \A q \in Pages \ {p} : SameCall(q) /\ late'[q] = late[q],
         PageInv(p)'
  PROVE  WorkspaceInv'
<1>1. StoreTyped /\ CallTyped /\ Committed
  BY Typing DEF WorkspaceInv
<1>2. Committed'
  BY <1>1, QuietCommitted
<1>3. ASSUME NEW q \in Pages \ {p}
      PROVE  PageInv(q)'
  BY <1>1, QuietPage DEF WorkspaceInv
<1>4. (TypeOK /\ late \in [Pages -> LateWrites])'
  <2>1. (CallTyped /\ StoreTyped)' => (TypeOK /\ late \in [Pages -> LateWrites])'
    BY Typing, PTL
  <2> QED BY <2>1
<1> QED BY <1>2, <1>3, <1>4 DEF WorkspaceInv

LEMMA LeaveTyped ==
  ASSUME WorkspaceAssumption, CallTyped, NEW p \in Pages, Leave(p)
  PROVE  CallTyped'
<1>1. NoManifest \in Manifest /\ NoQueue \in Queue /\ 0 \in 0..MaxRevisions
      /\ 0 \in 0..MaxCommitAttempts - 1 /\ Anything \in Nat
  BY DEF WorkspaceAssumption, NoManifest, Manifest, NoQueue, Queue, Anything
<1>2. NoCall \in [op : {"none", "write", "remove", "read", "sweep"},
                  path : Paths \cup {0}, expected : 0..Anything]
  BY <1>1 DEF NoCall
<1> QED BY <1>1, <1>2 DEF Leave, CallTyped

\* A page whose call is over keeps nothing but its late write.
LEMMA LeavePage ==
  ASSUME CallTyped, CallTyped', StoreTyped', Committed', NEW p \in Pages, Leave(p), LateInForce(p)'
  PROVE  PageInv(p)'
<1>1. /\ pc'[p] = "idle" /\ call'[p] = NoCall /\ base'[p] = NoManifest /\ todo'[p] = {}
      /\ minted'[p] = 0
  BY DEF Leave, CallTyped
<1>2. Loaded(p)'
  <2>1. manifest'.etag \in Nat /\ base'[p].etag = 0
    BY <1>1 DEF StoreTyped, Manifest, NoManifest
  <2>2. manifest'.etag = 0 => manifest' = NoManifest
    BY DEF Committed
  <2> QED BY <1>1, <2>1, <2>2 DEF Loaded
<1>3. InForce(p)' /\ Fetching(p)' /\ Placed(p)'
  BY <1>1 DEF InForce, Fetching, Placed
<1> QED BY <1>2, <1>3 DEF PageInv

\* A call ends without a commit.
LEMMA QuietLeave ==
  ASSUME WorkspaceInv, WorkspaceAssumption, NEW p \in Pages, Leave(p),
         manifest' = manifest, aged' = aged, saw' = saw,
         used'.revisions = used.revisions, StoreTyped',
         \A r \in stored : r \in stored' \/ r \in aged,
         \A r \in queue'.entries : Superseded(r),
         \A q \in Pages \ {p} : late'[q] = late[q],
         late'[p].object = "queue" => \A r \in late'[p].value.entries : Superseded(r),
         Quiet => LateInForce(p)'
  PROVE  WorkspaceInv'
<1>1. StoreTyped /\ CallTyped /\ Committed
  BY Typing DEF WorkspaceInv
<1>2. CallTyped'
  BY <1>1, LeaveTyped
<1>3. /\ held'[p].entries = {} /\ todo'[p] = {} /\ old'[p] = 0
      /\ \A q \in Pages \ {p} : SameCall(q) /\ held'[q] = held[q]
  BY <1>1 DEF Leave, CallTyped, SameCall, NoQueue
<1>4. \A r : Superseded(r)' => Superseded(r)
  <2>1. \A q \in Pages :
           /\ \A r \in held'[q].entries \cup todo'[q] : Superseded(r)
           /\ old'[q] # 0 => Superseded(old'[q])
           /\ late'[q].object = "queue" => \A r \in late'[q].value.entries : Superseded(r)
    BY <1>3, SupersededParts DEF SameCall
  <2>2. \A r \in aged' : Superseded(r)
    BY SupersededParts
  <2> QED BY <2>1, <2>2, StillSuperseded
<1>5. Quiet
  <2>1. used.revisions \in Nat
    BY <1>1 DEF StoreTyped
  <2> QED BY <1>4, <2>1 DEF Quiet
<1>6. Committed'
  BY <1>1, <1>5, QuietCommitted
<1>7. PageInv(p)'
  BY <1>1, <1>2, <1>5, <1>6, LeavePage
<1> QED BY <1>2, <1>3, <1>5, <1>7, QuietStep

\* A call ends and sends nothing that may arrive late.
LEMMA PlainLeave ==
  ASSUME WorkspaceInv, WorkspaceAssumption, NEW p \in Pages, Leave(p),
         UNCHANGED <<manifest, aged, late, saw>>,
         used'.revisions = used.revisions, StoreTyped',
         \A r \in stored : r \in stored' \/ r \in aged,
         \A r \in queue'.entries : Superseded(r)
  PROVE  WorkspaceInv'
<1>1. StoreTyped /\ PageInv(p)
  BY Typing DEF WorkspaceInv
<1>2. Quiet => LateInForce(p)'
  BY <1>1, QuietLate DEF PageInv
<1>3. late'[p].object = "queue" => \A r \in late'[p].value.entries : Superseded(r)
  BY SupersededParts
<1> QED BY <1>2, <1>3, QuietLeave

(***************************************************************************)
(* A manifest is committed: path a gets revision r.  Whatever other pages  *)
(* loaded, sent or are about to send is out of force.                      *)
(***************************************************************************)
Commits(a, r) ==
  manifest' = [etag |-> manifest.etag + 1, files |-> [manifest.files EXCEPT ![a] = r]]

LEMMA CommitCommitted ==
  ASSUME StoreTyped, StoreTyped', Committed, NEW a \in Paths, NEW r \in 0..MaxRevisions,
         Fresh(a, r), Commits(a, r), stored' = stored, used'.revisions = used.revisions,
         \A x : Superseded(x)' => Superseded(x) \/ (x = manifest.files[a] /\ x # 0)
  PROVE  Committed'
<1>1. /\ manifest \in Manifest /\ manifest'.etag = manifest.etag + 1 /\ manifest.etag \in Nat
      /\ manifest'.files[a] = r
      /\ \A b \in Paths \ {a} : manifest'.files[b] = manifest.files[b]
  BY DEF StoreTyped, Commits, Manifest
<1>2. ASSUME NEW b \in Paths, NEW c \in Paths, manifest'.files[b] = manifest'.files[c],
             manifest'.files[b] # 0
      PROVE  b = c
  <2>1. r # 0 => \A e \in Paths : manifest.files[e] # r
    BY DEF Fresh, Named
  <2> QED BY <1>1, <1>2, <2>1 DEF Committed
<1>3. ASSUME NEW x \in Revisions, Named(x)'
      PROVE  x \in stored' /\ x <= used'.revisions /\ ~Superseded(x)'
  <2>1. PICK b \in Paths : manifest'.files[b] = x /\ x # 0
    BY <1>3 DEF Named
  <2>2. CASE b = a
    <3>1. x = r /\ x # 0
      BY <1>1, <2>1, <2>2
    <3>2. x \in stored /\ x <= used.revisions /\ ~Superseded(x) /\ x # manifest.files[a]
      BY <3>1 DEF Fresh, Named
    <3> QED BY <3>2
  <2>3. CASE b # a
    <3>1. Named(x) /\ manifest.files[b] = x
      BY <1>1, <2>1, <2>3 DEF Named
    <3>2. x \in stored /\ x <= used.revisions /\ ~Superseded(x)
      BY <3>1 DEF Committed
    <3>3. x # manifest.files[a]
      BY <2>1, <2>3, <3>1 DEF Committed
    <3> QED BY <3>2, <3>3
  <2> QED BY <2>2, <2>3
<1>4. \A x : Superseded(x)' => x \in Revisions /\ x <= used'.revisions
  <2> SUFFICES ASSUME NEW x, Superseded(x)'
               PROVE  x \in Revisions /\ x <= used.revisions
    OBVIOUS
  <2>1. CASE Superseded(x)
    BY <2>1 DEF Committed
  <2>2. CASE x = manifest.files[a] /\ x # 0
    <3>1. x \in Revisions /\ Named(x)
      BY <1>1, <2>2 DEF Manifest, Revisions, Named
    <3> QED BY <3>1 DEF Committed
  <2> QED BY <2>1, <2>2
<1>5. manifest'.etag # 0
  BY <1>1
<1> QED BY <1>2, <1>3, <1>4, <1>5 DEF Committed

LEMMA OutOfForce ==
  ASSUME StoreTyped, StoreTyped', NEW a \in Paths, NEW r, Commits(a, r), NEW p \in Pages,
         late'[p] = late[p], LateInForce(p)
  PROVE  LateInForce(p)'
<1> SUFFICES ASSUME late[p].object = "manifest"
             PROVE  LateInForce(p)'
  BY DEF LateInForce
<1>1. late[p].etag <= manifest.etag /\ late[p].value.etag = late[p].etag + 1
  BY DEF LateInForce
<1>2. late[p].etag \in Nat /\ manifest.etag \in Nat
  <2>1. late[p] \in LateWrites
    BY DEF StoreTyped
  <2> QED BY <2>1 DEF LateWrites, NoLate, StoreTyped, Manifest
<1>3. manifest'.etag = manifest.etag + 1
  BY DEF Commits
<1>4. late'[p].etag <= manifest'.etag /\ late'[p].etag # manifest'.etag
  BY <1>1, <1>2, <1>3
<1> QED BY <1>1, <1>4 DEF LateInForce

LEMMA CommitPage ==
  ASSUME StoreTyped, StoreTyped', CallTyped, NEW a \in Paths, NEW r, Commits(a, r), NEW p \in Pages,
         SameCall(p), late'[p] = late[p], stored' = stored, aged' = aged, PageInv(p)
  PROVE  PageInv(p)'
<1>1. base'[p].etag <= manifest'.etag /\ base'[p].etag # manifest'.etag
  <2>1. base[p].etag \in Nat /\ manifest.etag \in Nat /\ manifest'.etag = manifest.etag + 1
        /\ base'[p] = base[p] /\ base[p].etag <= manifest.etag
    BY DEF CallTyped, StoreTyped, Manifest, Commits, SameCall, PageInv, Loaded
  <2> QED BY <2>1
<1>2. LateInForce(p)'
  BY OutOfForce DEF PageInv
<1>3. Fetching(p)' /\ Placed(p)'
  BY DEF PageInv, Fetching, Placed, SameCall
<1> QED BY <1>1, <1>2, <1>3 DEF PageInv, Loaded, InForce

LEMMA CommitStep ==
  ASSUME WorkspaceInv, StoreTyped', CallTyped', NEW a \in Paths, NEW r \in 0..MaxRevisions,
         Fresh(a, r), Commits(a, r),
         stored' = stored, aged' = aged, used'.revisions = used.revisions,
         \A x : Superseded(x)' => Superseded(x) \/ (x = manifest.files[a] /\ x # 0),
         NEW p \in Pages, \A q \in Pages \ {p} : SameCall(q) /\ late'[q] = late[q],
         Committed' => PageInv(p)'
  PROVE  WorkspaceInv'
<1>1. StoreTyped /\ CallTyped /\ Committed
  BY Typing DEF WorkspaceInv
<1>2. Committed'
  BY <1>1, CommitCommitted
<1>3. ASSUME NEW q \in Pages \ {p}
      PROVE  PageInv(q)'
  BY <1>1, CommitPage DEF WorkspaceInv
<1>4. (TypeOK /\ late \in [Pages -> LateWrites])'
  <2>1. (CallTyped /\ StoreTyped)' => (TypeOK /\ late \in [Pages -> LateWrites])'
    BY Typing, PTL
  <2> QED BY <2>1
<1> QED BY <1>2, <1>3, <1>4 DEF WorkspaceInv
-------------------------------------------------------------------------------
(* The operations *)

\* A step of one page that leaves the store and the superseded revisions alone.
LEMMA QuietOf ==
  ASSUME WorkspaceInv, UNCHANGED <<manifest, stored, queue, aged, late, saw>>,
         used'.revisions = used.revisions, StoreTyped', CallTyped', NEW p \in Pages,
         \A q \in Pages \ {p} : SameCall(q) /\ held'[q] = held[q],
         \A r \in held'[p].entries \cup todo'[p] : Superseded(r),
         old'[p] \in {0, old[p]},
         Loaded(p)', InForce(p)', Fetching(p)', Placed(p)'
  PROVE  WorkspaceInv'
<1>1. StoreTyped /\ CallTyped /\ Committed /\ PageInv(p)
  BY Typing DEF WorkspaceInv
<1>2. \A r : Superseded(r)' => Superseded(r)
  <2>1. \A q \in Pages :
           /\ \A r \in held'[q].entries \cup todo'[q] : Superseded(r)
           /\ old'[q] # 0 => Superseded(old'[q])
           /\ late'[q].object = "queue" => \A r \in late'[q].value.entries : Superseded(r)
    BY SupersededParts DEF SameCall
  <2>2. (\A r \in aged' : Superseded(r)) /\ \A r \in queue'.entries : Superseded(r)
    BY SupersededParts
  <2> QED BY <2>1, <2>2, StillSuperseded
<1>3. Quiet
  <2>1. used.revisions \in Nat
    BY <1>1 DEF StoreTyped
  <2> QED BY <1>2, <2>1 DEF Quiet
<1>4. PageInv(p)'
  BY <1>1, <1>3, QuietLate DEF PageInv
<1> QED BY <1>3, <1>4, QuietStep

LEMMA BeginKeeps ==
  ASSUME WorkspaceInv, WorkspaceAssumption, NEW p \in Pages, NEW op \in Operations, NEW a \in Paths,
         NEW e \in Expectations(op), Begin(p, op, a, e)
  PROVE  WorkspaceInv'
<1>1. StoreTyped /\ CallTyped /\ PageInv(p)
  BY Typing DEF WorkspaceInv
<1>2. op \in {"write", "remove", "read"}
  BY DEF WorkspaceAssumption
<1>3. e \in 0..Anything
  <2>1. MaxRevisions \in Nat /\ Referenced \subseteq 0..MaxRevisions
    BY <1>1 DEF WorkspaceAssumption, StoreTyped, Referenced, Manifest
  <2>2. e \in {0, Anything} \cup Referenced
    BY <1>2 DEF Expectations
  <2> QED BY <2>1, <2>2 DEF Anything
<1>4. [op |-> op, path |-> a, expected |-> e] \in
        [op : {"none", "write", "remove", "read", "sweep"}, path : Paths \cup {0},
         expected : 0..Anything]
  BY <1>2, <1>3
<1>5. CallTyped' /\ StoreTyped'
  BY <1>1, <1>4 DEF Begin, Goto, CallTyped, StoreTyped
<1>6. /\ pc[p] = "idle" /\ pc'[p] = "load" /\ call'[p].path = a /\ call'[p].op = op
      /\ \A q \in Pages \ {p} : SameCall(q) /\ held'[q] = held[q]
      /\ UNCHANGED <<manifest, stored, queue, aged, late, saw, used, base, minted, old, held, todo>>
  BY <1>1 DEF Begin, Goto, CallTyped, SameCall
<1>7. Loaded(p)' /\ InForce(p)' /\ Fetching(p)'
  BY <1>1, <1>6 DEF PageInv, Loaded, InForce, Fetching
<1>8. Placed(p)'
  BY <1>1, <1>2, <1>6 DEF PageInv, Placed
<1>9. \A r \in held'[p].entries \cup todo'[p] : Superseded(r)
  BY <1>6, SupersededParts
<1> QED BY <1>5, <1>6, <1>7, <1>8, <1>9, QuietOf

\* What a load leads to: the call is over, or it goes on with the manifest m.
LEMMA CheckedGoes ==
  ASSUME StoreTyped, CallTyped, NEW p \in Pages, NEW m \in Manifest, Checked(p, m),
         call[p].op \in {"write", "remove", "read"}
  PROVE  \/ Leave(p)
         \/ /\ CallTyped' /\ base'[p] = m
            /\ UNCHANGED <<call, minted, old, tries, held, todo, settled>>
            /\ pc'[p] = CASE call[p].op = "write" -> "put" [] call[p].op = "remove" -> "cas"
                          [] call[p].op = "read" -> "fetch"
            /\ call[p].op # "write" => m.files[call[p].path] # 0
            /\ \A q \in Pages \ {p} : SameCall(q) /\ held'[q] = held[q]
<1> DEFINE label == CASE call[p].op = "write" -> "put" [] call[p].op = "remove" -> "cas"
                      [] call[p].op = "read" -> "fetch"
<1>1. label \in {"put", "cas", "fetch"}
  BY DEF label
<1> HIDE DEF label
<1> SUFFICES ASSUME ~Leave(p)
             PROVE  /\ CallTyped' /\ base'[p] = m
                    /\ UNCHANGED <<call, minted, old, tries, held, todo, settled>>
                    /\ pc'[p] = label
                    /\ call[p].op # "write" => m.files[call[p].path] # 0
                    /\ \A q \in Pages \ {p} : SameCall(q) /\ held'[q] = held[q]
  BY DEF label
<1>2. /\ base' = [base EXCEPT ![p] = m] /\ pc' = [pc EXCEPT ![p] = label]
      /\ UNCHANGED <<call, minted, old, tries, held, todo, settled>>
      /\ call[p].op # "write" => m.files[call[p].path] # 0
  BY DEF Checked, Goto, label
<1>3. CallTyped'
  BY <1>1, <1>2 DEF CallTyped
<1> QED BY <1>2, <1>3 DEF CallTyped, SameCall

LEMMA LoadManifestKeeps ==
  ASSUME WorkspaceInv, WorkspaceAssumption, NEW p \in Pages, LoadManifest(p)
  PROVE  WorkspaceInv'
<1>1. StoreTyped /\ CallTyped /\ Committed /\ PageInv(p)
  BY Typing DEF WorkspaceInv
<1>2. pc[p] = "load" /\ UNCHANGED <<manifest, stored, queue, aged, late, saw, used>>
  BY DEF LoadManifest
<1>3. StoreTyped'
  BY <1>1, <1>2 DEF StoreTyped
<1>4. call[p].op \in {"write", "remove", "read"} /\ call[p].path \in Paths /\ minted[p] = 0
  BY <1>1, <1>2 DEF PageInv, Placed
<1>5. CASE Leave(p)
  BY <1>2, <1>3, <1>5, SupersededParts, PlainLeave
<1>6. CASE /\ call[p].op = "write" /\ Goto(p, "create")
           /\ UNCHANGED <<call, base, minted, old, tries, held, todo, settled>>
  <2>1. /\ CallTyped' /\ pc'[p] = "create"
        /\ \A q \in Pages \ {p} : SameCall(q) /\ held'[q] = held[q]
    BY <1>1, <1>6 DEF Goto, CallTyped, SameCall
  <2>2. Loaded(p)' /\ InForce(p)' /\ Fetching(p)' /\ Placed(p)'
    BY <1>1, <1>2, <1>4, <1>6, <2>1 DEF PageInv, Loaded, InForce, Fetching, Placed
  <2>3. \A r \in held'[p].entries \cup todo'[p] : Superseded(r)
    BY <1>6, SupersededParts
  <2> QED BY <1>2, <1>3, <1>6, <2>1, <2>2, <2>3, QuietOf
<1>7. CASE Checked(p, manifest) /\ ~Leave(p)
  <2>1. /\ CallTyped' /\ base'[p] = manifest
        /\ UNCHANGED <<call, minted, old, tries, held, todo, settled>>
        /\ pc'[p] = CASE call[p].op = "write" -> "put" [] call[p].op = "remove" -> "cas"
                      [] call[p].op = "read" -> "fetch"
        /\ call[p].op # "write" => manifest.files[call[p].path] # 0
        /\ \A q \in Pages \ {p} : SameCall(q) /\ held'[q] = held[q]
    BY <1>1, <1>4, <1>7, CheckedGoes DEF StoreTyped
  <2>2. Loaded(p)'
    BY <1>1, <1>2, <2>1 DEF Loaded, StoreTyped, Manifest
  <2>3. InForce(p)'
    BY <1>2, <1>4, <2>1 DEF InForce, Fresh
  <2>4. Fetching(p)'
    <3> SUFFICES ASSUME pc'[p] = "fetch"
                 PROVE  Fetching(p)'
      BY DEF Fetching
    <3>1. manifest.files[call[p].path] # 0
      BY <1>4, <2>1
    <3>2. manifest.files[call[p].path] \in Revisions /\ Named(manifest.files[call[p].path])
      BY <1>1, <1>4, <3>1 DEF StoreTyped, Manifest, Named, Revisions
    <3>3. manifest.files[call[p].path] \in stored /\ manifest.files[call[p].path] \notin aged
      BY <1>1, <3>2, SupersededParts DEF Committed
    <3> QED BY <1>2, <2>1, <3>3 DEF Fetching
  <2>5. Placed(p)'
    BY <1>1, <1>2, <1>4, <2>1 DEF PageInv, Placed
  <2>6. \A r \in held'[p].entries \cup todo'[p] : Superseded(r)
    BY <2>1, SupersededParts
  <2> QED BY <1>2, <1>3, <2>1, <2>2, <2>3, <2>4, <2>5, <2>6, QuietOf
<1> QED BY <1>5, <1>6, <1>7 DEF LoadManifest

LEMMA CreateRootKeeps ==
  ASSUME WorkspaceInv, WorkspaceAssumption, NEW p \in Pages, CreateRoot(p)
  PROVE  WorkspaceInv'
<1>1. StoreTyped /\ CallTyped /\ Committed /\ PageInv(p)
  BY Typing DEF WorkspaceInv
<1>2. pc[p] = "create" /\ UNCHANGED <<stored, queue, aged, late, saw, used>>
  BY DEF CreateRoot
<1>3. call[p].op = "write" /\ call[p].path \in Paths /\ minted[p] = 0
  BY <1>1, <1>2 DEF PageInv, Placed
<1>4. CASE manifest # NoManifest
  <2>1. /\ manifest' = manifest /\ Goto(p, "load")
        /\ UNCHANGED <<call, base, minted, old, tries, held, todo, settled>>
    BY <1>4 DEF CreateRoot
  <2>2. /\ CallTyped' /\ StoreTyped' /\ pc'[p] = "load"
        /\ \A q \in Pages \ {p} : SameCall(q) /\ held'[q] = held[q]
    BY <1>1, <1>2, <2>1 DEF Goto, CallTyped, StoreTyped, SameCall
  <2>3. Loaded(p)' /\ InForce(p)' /\ Fetching(p)' /\ Placed(p)'
    BY <1>1, <1>2, <1>3, <2>1, <2>2 DEF PageInv, Loaded, InForce, Fetching, Placed
  <2>4. \A r \in held'[p].entries \cup todo'[p] : Superseded(r)
    BY <2>1, SupersededParts
  <2> QED BY <1>2, <2>1, <2>2, <2>3, <2>4, QuietOf
<1>5. CASE manifest = NoManifest
  <2> DEFINE a == call[p].path
  <2>1. manifest' = [etag |-> 1, files |-> [b \in Paths |-> 0]] /\ Checked(p, manifest')
    BY <1>5 DEF CreateRoot, NoManifest
  <2>2. Commits(a, 0)
    BY <1>3, <1>5, <2>1 DEF Commits, NoManifest
  <2>3. manifest' \in Manifest /\ StoreTyped'
    <3>1. 0 \in 0..MaxRevisions
      BY DEF WorkspaceAssumption
    <3>2. manifest' \in Manifest
      BY <2>1, <3>1 DEF Manifest
    <3> QED BY <1>1, <1>2, <3>2 DEF StoreTyped
  <2>4. LateInForce(p)'
    BY <1>1, <1>2, <1>3, <2>2, <2>3, OutOfForce DEF PageInv
  <2>5. 0 \in 0..MaxRevisions /\ Fresh(a, 0)
    BY DEF WorkspaceAssumption, Fresh
  <2>6. \/ Leave(p)
        \/ /\ CallTyped' /\ base'[p] = manifest' /\ pc'[p] = "put"
           /\ UNCHANGED <<call, minted, old, tries, held, todo, settled>>
           /\ \A q \in Pages \ {p} : SameCall(q) /\ held'[q] = held[q]
    <3>1. \A m \in Manifest : Checked(p, m) =>
            \/ Leave(p)
            \/ /\ CallTyped' /\ base'[p] = m /\ pc'[p] = "put"
               /\ UNCHANGED <<call, minted, old, tries, held, todo, settled>>
               /\ \A q \in Pages \ {p} : SameCall(q) /\ held'[q] = held[q]
      <4> TAKE m \in Manifest
      <4> HAVE Checked(p, m)
      <4>1. call[p].op \in {"write", "remove", "read"}
        BY <1>3
      <4> QED BY <1>1, <1>3, <4>1, CheckedGoes
    <3> QED BY <2>1, <2>3, <3>1
  <2> HIDE DEF a
  <2>7. CASE Leave(p)
    <3>1. /\ CallTyped' /\ held'[p].entries = {} /\ todo'[p] = {} /\ old'[p] = 0
          /\ \A q \in Pages \ {p} : SameCall(q) /\ held'[q] = held[q]
      <4>1. CallTyped'
        BY <1>1, <2>7, LeaveTyped
      <4> QED BY <1>1, <2>7, <4>1 DEF Leave, CallTyped, SameCall, NoQueue
    <3>2. \A r : Superseded(r)' => Superseded(r)
      <4>1. \A q \in Pages :
               /\ \A r \in held'[q].entries \cup todo'[q] : Superseded(r)
               /\ old'[q] # 0 => Superseded(old'[q])
               /\ late'[q].object = "queue" => \A r \in late'[q].value.entries : Superseded(r)
        BY <1>2, <3>1, SupersededParts DEF SameCall
      <4>2. (\A r \in aged' : Superseded(r)) /\ \A r \in queue'.entries : Superseded(r)
        BY <1>2, SupersededParts
      <4> QED BY <4>1, <4>2, StillSuperseded
    <3>3. Committed' => PageInv(p)'
      BY <1>1, <2>3, <2>4, <2>7, <3>1, LeavePage
    <3> QED BY <1>2, <1>3, <2>2, <2>3, <2>5, <3>1, <3>2, <3>3, CommitStep DEF a
  <2>8. CASE ~Leave(p)
    <3>1. /\ CallTyped' /\ base'[p] = manifest' /\ pc'[p] = "put"
          /\ UNCHANGED <<call, minted, old, tries, held, todo, settled>>
          /\ \A q \in Pages \ {p} : SameCall(q) /\ held'[q] = held[q]
      BY <2>6, <2>8
    <3>2. \A r : Superseded(r)' => Superseded(r)
      <4>1. \A q \in Pages :
               /\ \A r \in held'[q].entries \cup todo'[q] : Superseded(r)
               /\ old'[q] # 0 => Superseded(old'[q])
               /\ late'[q].object = "queue" => \A r \in late'[q].value.entries : Superseded(r)
        BY <1>2, <3>1, SupersededParts
      <4>2. (\A r \in aged' : Superseded(r)) /\ \A r \in queue'.entries : Superseded(r)
        BY <1>2, SupersededParts
      <4> QED BY <4>1, <4>2, StillSuperseded
    <3>3. Loaded(p)'
      BY <2>3, <3>1 DEF Loaded, Manifest
    <3>4. InForce(p)' /\ Fetching(p)' /\ Placed(p)'
      BY <1>1, <1>2, <1>3, <3>1 DEF PageInv, InForce, Fetching, Placed
    <3>5. PageInv(p)'
      BY <2>4, <3>3, <3>4 DEF PageInv
    <3> QED BY <1>2, <1>3, <2>2, <2>3, <2>5, <3>1, <3>2, <3>5, CommitStep DEF a
  <2> QED BY <2>7, <2>8
<1> QED BY <1>4, <1>5
LEMMA PutFileKeeps ==
  ASSUME WorkspaceInv, WorkspaceAssumption, NEW p \in Pages, PutFile(p)
  PROVE  WorkspaceInv'
<1>1. StoreTyped /\ CallTyped /\ Committed /\ PageInv(p)
  BY Typing DEF WorkspaceInv
<1>2. /\ used.revisions \in Nat /\ used.revisions < MaxRevisions /\ MaxRevisions \in Nat
      /\ pc[p] = "put" /\ call[p].path \in Paths /\ call[p].op = "write"
  BY <1>1 DEF PutFile, StoreTyped, WorkspaceAssumption, PageInv, Placed
<1>3. PICK r \in Nat : r = used.revisions + 1
  BY <1>2
<1>4. r \in Revisions /\ r \in 0..MaxRevisions /\ r > used.revisions
  BY <1>3, <1>2 DEF Revisions
<1>5. /\ used' = [used EXCEPT !.revisions = r] /\ used'.revisions = r
      /\ used' \in [revisions : 0..MaxRevisions, faults : 0..MaxFaults]
  <2>1. used' = [used EXCEPT !.revisions = r]
    BY <1>3 DEF PutFile
  <2> QED BY <1>1, <1>4, <2>1 DEF StoreTyped
<1>6. /\ stored' = stored \cup {r} /\ minted' = [minted EXCEPT ![p] = r]
      /\ saw' = [saw EXCEPT ![r] = base[p].files[call[p].path]]
      /\ pc' = [pc EXCEPT ![p] = "cas"]
      /\ UNCHANGED <<manifest, queue, aged, call, base, old, tries, held, todo, settled, late>>
  BY <1>5 DEF PutFile, Goto
<1>7. base[p].files[call[p].path] \in 0..MaxRevisions
  BY <1>1, <1>2 DEF CallTyped, Manifest
<1>8. StoreTyped' /\ CallTyped'
  BY <1>1, <1>4, <1>5, <1>6, <1>7 DEF StoreTyped, CallTyped
<1>9. /\ pc'[p] = "cas" /\ minted'[p] = r /\ saw'[r] = base[p].files[call[p].path]
      /\ \A x \in Revisions : x # r => saw'[x] = saw[x]
      /\ \A q \in Pages \ {p} : SameCall(q) /\ held'[q] = held[q]
  BY <1>1, <1>4, <1>6 DEF StoreTyped, CallTyped, SameCall
<1>10. \A x : Superseded(x)' => Superseded(x)
  <2>1. \A q \in Pages :
           /\ \A x \in held'[q].entries \cup todo'[q] : Superseded(x)
           /\ old'[q] # 0 => Superseded(old'[q])
           /\ late'[q].object = "queue" => \A x \in late'[q].value.entries : Superseded(x)
    BY <1>6, SupersededParts
  <2>2. (\A x \in aged' : Superseded(x)) /\ \A x \in queue'.entries : Superseded(x)
    BY <1>6, SupersededParts
  <2> QED BY <2>1, <2>2, StillSuperseded
<1>11. Quiet
  <2>1. \A x \in Revisions : x <= used.revisions => saw'[x] = saw[x]
    BY <1>2, <1>4, <1>9 DEF Revisions
  <2>2. used.revisions <= used'.revisions
    BY <1>2, <1>4, <1>5 DEF Revisions
  <2> QED BY <1>6, <1>10, <2>1, <2>2 DEF Quiet
<1>12. ~Superseded(r) /\ ~Named(r)
  <2>1. ~(r <= used.revisions)
    BY <1>2, <1>4 DEF Revisions
  <2> QED BY <1>1, <1>4, <2>1 DEF Committed
<1>13. InForce(p)'
  <2> SUFFICES ASSUME base[p].etag = manifest.etag
               PROVE  Fresh(call[p].path, minted[p])'
    BY <1>6 DEF InForce
  <2>1. saw'[r] = manifest'.files[call[p].path]
    BY <1>1, <1>6, <1>9 DEF PageInv, Loaded
  <2>2. ~Superseded(r)' /\ ~Named(r)'
    BY <1>6, <1>10, <1>12 DEF Named
  <2>3. r \in stored' /\ r <= used'.revisions
    BY <1>4, <1>5, <1>6 DEF Revisions
  <2> QED BY <1>6, <1>9, <2>1, <2>2, <2>3 DEF Fresh
<1>14. PageInv(p)'
  <2>1. LateInForce(p)'
    BY <1>1, <1>6, <1>8, <1>11, QuietLate DEF PageInv
  <2>2. Loaded(p)' /\ Fetching(p)' /\ Placed(p)'
    BY <1>1, <1>2, <1>6, <1>9 DEF PageInv, Loaded, Fetching, Placed
  <2> QED BY <1>13, <2>1, <2>2 DEF PageInv
<1> QED BY <1>6, <1>8, <1>9, <1>11, <1>14, QuietStep

\* The swap a page is about to send: a commit of its revision, if it is in force.
LEMMA SwapInForce ==
  ASSUME WorkspaceInv, NEW p \in Pages, pc[p] = "cas"
  PROVE  /\ call[p].path \in Paths /\ minted[p] \in 0..MaxRevisions
         /\ NextManifest(p) \in Manifest
         /\ NextManifest(p).etag = base[p].etag + 1
         /\ NextManifest(p).files = [base[p].files EXCEPT ![call[p].path] = minted[p]]
         /\ base[p].etag \in Nat /\ base[p].etag <= manifest.etag
         /\ Swaps(manifest, base[p]) =>
              /\ base[p].files = manifest.files
              /\ Fresh(call[p].path, minted[p])
              /\ NextManifest(p) = [etag |-> manifest.etag + 1,
                                    files |-> [manifest.files EXCEPT ![call[p].path] = minted[p]]]
<1>1. StoreTyped /\ CallTyped /\ PageInv(p)
  BY Typing DEF WorkspaceInv
<1>2. call[p].path \in Paths /\ minted[p] \in 0..MaxRevisions
  BY <1>1 DEF PageInv, Placed, CallTyped
<1>3. base[p].etag \in Nat /\ base[p].files \in [Paths -> 0..MaxRevisions]
  BY <1>1 DEF CallTyped, Manifest
<1>4. /\ NextManifest(p) \in Manifest
      /\ NextManifest(p).etag = base[p].etag + 1
      /\ NextManifest(p).files = [base[p].files EXCEPT ![call[p].path] = minted[p]]
  BY <1>2, <1>3 DEF NextManifest, Manifest
<1>5. base[p].etag <= manifest.etag
  BY <1>1 DEF PageInv, Loaded
<1>6. ASSUME Swaps(manifest, base[p])
      PROVE  /\ base[p].files = manifest.files
             /\ Fresh(call[p].path, minted[p])
             /\ NextManifest(p) = [etag |-> manifest.etag + 1,
                                   files |-> [manifest.files EXCEPT ![call[p].path] = minted[p]]]
  BY <1>1, <1>6 DEF PageInv, Loaded, InForce, Swaps, NextManifest
<1> QED BY <1>2, <1>3, <1>4, <1>5, <1>6

LEMMA CommitLeaves ==
  ASSUME WorkspaceInv, WorkspaceAssumption, NEW p \in Pages, pc[p] = "cas",
         Swaps(manifest, base[p]), manifest' = NextManifest(p), Leave(p),
         UNCHANGED <<stored, queue, aged, late, saw>>, used'.revisions = used.revisions,
         used' \in [revisions : 0..MaxRevisions, faults : 0..MaxFaults]
  PROVE  WorkspaceInv'
<1>1. StoreTyped /\ CallTyped /\ Committed /\ PageInv(p)
  BY Typing DEF WorkspaceInv
<1>2. PICK a \in Paths, r \in 0..MaxRevisions : a = call[p].path /\ r = minted[p]
  BY SwapInForce
<1>3. Fresh(a, r) /\ Commits(a, r) /\ manifest' \in Manifest
  BY <1>2, SwapInForce DEF Commits
<1>4. StoreTyped' /\ CallTyped'
  <2>1. CallTyped'
    BY <1>1, LeaveTyped
  <2> QED BY <1>1, <1>3, <2>1 DEF StoreTyped
<1>5. /\ held'[p].entries = {} /\ todo'[p] = {} /\ old'[p] = 0
      /\ \A q \in Pages \ {p} : SameCall(q) /\ held'[q] = held[q]
  BY <1>1 DEF Leave, CallTyped, SameCall, NoQueue
<1>6. \A x : Superseded(x)' => Superseded(x)
  <2>1. \A q \in Pages :
           /\ \A x \in held'[q].entries \cup todo'[q] : Superseded(x)
           /\ old'[q] # 0 => Superseded(old'[q])
           /\ late'[q].object = "queue" => \A x \in late'[q].value.entries : Superseded(x)
    BY <1>5, SupersededParts DEF SameCall
  <2>2. (\A x \in aged' : Superseded(x)) /\ \A x \in queue'.entries : Superseded(x)
    BY SupersededParts
  <2> QED BY <2>1, <2>2, StillSuperseded
<1>7. LateInForce(p)'
  BY <1>1, <1>3, <1>4, OutOfForce DEF PageInv
<1>8. Committed' => PageInv(p)'
  BY <1>1, <1>4, <1>7, LeavePage
<1> QED BY <1>3, <1>4, <1>5, <1>6, <1>8, CommitStep

\* A committed page goes on to record the file its commit superseded.
LEMMA CommitRecords ==
  ASSUME WorkspaceInv, NEW p \in Pages, pc[p] = "cas",
         Swaps(manifest, base[p]), manifest' = NextManifest(p),
         base[p].files[call[p].path] # 0,
         old' = [old EXCEPT ![p] = base[p].files[call[p].path]], Goto(p, "record"),
         UNCHANGED <<call, base, minted, tries, held, todo, settled>>,
         UNCHANGED <<stored, queue, aged, late, saw, used>>
  PROVE  WorkspaceInv'
<1>1. StoreTyped /\ CallTyped /\ Committed /\ PageInv(p)
  BY Typing DEF WorkspaceInv
<1>2. PICK a \in Paths, r \in 0..MaxRevisions : a = call[p].path /\ r = minted[p]
  BY SwapInForce
<1>3. Fresh(a, r) /\ Commits(a, r) /\ manifest' \in Manifest /\ base[p].files = manifest.files
  BY <1>2, SwapInForce DEF Commits
<1>4. manifest.files[a] \in 0..MaxRevisions /\ manifest.files[a] # 0
  BY <1>1, <1>2, <1>3 DEF StoreTyped, Manifest
<1>5. /\ old' = [old EXCEPT ![p] = manifest.files[a]] /\ pc' = [pc EXCEPT ![p] = "record"]
      /\ old'[p] = manifest.files[a] /\ pc'[p] = "record"
      /\ \A q \in Pages \ {p} : SameCall(q)
  BY <1>1, <1>2, <1>3 DEF Goto, CallTyped, SameCall
<1>6. StoreTyped' /\ CallTyped'
  BY <1>1, <1>3, <1>4, <1>5 DEF StoreTyped, CallTyped
<1>7. \A x : Superseded(x)' => Superseded(x) \/ (x = manifest.files[a] /\ x # 0)
  <2> SUFFICES ASSUME NEW x, Superseded(x)'
               PROVE  Superseded(x) \/ (x = manifest.files[a] /\ x # 0)
    OBVIOUS
  <2>1. \/ x \in queue.entries \/ x \in aged
        \/ \E q \in Pages :
             \/ x \in held[q].entries \/ x \in todo[q]
             \/ x = old'[q] /\ x # 0
             \/ late[q].object = "queue" /\ x \in late[q].value.entries
    BY DEF Superseded
  <2>2. \A q \in Pages : old'[q] = IF q = p THEN manifest.files[a] ELSE old[q]
    BY <1>5 DEF SameCall
  <2> QED BY <2>1, <2>2, SupersededParts
<1>8. PageInv(p)'
  <2>1. LateInForce(p)'
    BY <1>1, <1>3, <1>6, OutOfForce DEF PageInv
  <2>2. Loaded(p)'
    <3>1. base[p].etag \in Nat /\ manifest.etag \in Nat /\ manifest'.etag = manifest.etag + 1
          /\ base[p].etag <= manifest.etag
      BY <1>1, <1>3 DEF CallTyped, StoreTyped, Manifest, Commits, PageInv, Loaded
    <3>2. base[p].etag <= manifest'.etag /\ base[p].etag # manifest'.etag
      BY <3>1
    <3> QED BY <3>2 DEF Loaded
  <2>3. InForce(p)' /\ Fetching(p)' /\ Placed(p)'
    BY <1>1, <1>4, <1>5 DEF PageInv, InForce, Fetching, Placed
  <2> QED BY <2>1, <2>2, <2>3 DEF PageInv
<1> QED BY <1>3, <1>5, <1>6, <1>7, <1>8, CommitStep

LEMMA CommitManifestKeeps ==
  ASSUME WorkspaceInv, WorkspaceAssumption, NEW p \in Pages, CommitManifest(p)
  PROVE  WorkspaceInv'
<1>1. StoreTyped
  BY Typing DEF WorkspaceInv
<1>2. pc[p] = "cas" /\ UNCHANGED <<stored, queue, aged, late, saw, used>>
  BY DEF CommitManifest
<1>3. CASE ~Swaps(manifest, base[p])
  <2>1. Leave(p) /\ manifest' = manifest
    BY <1>3 DEF CommitManifest
  <2>2. StoreTyped'
    BY <1>1, <1>2, <2>1 DEF StoreTyped
  <2> QED BY <1>2, <2>1, <2>2, SupersededParts, PlainLeave
<1>4. CASE Swaps(manifest, base[p]) /\ base[p].files[call[p].path] = 0
  <2>1. Leave(p) /\ manifest' = NextManifest(p)
    BY <1>4 DEF CommitManifest
  <2>2. used' \in [revisions : 0..MaxRevisions, faults : 0..MaxFaults]
    BY <1>1, <1>2 DEF StoreTyped
  <2> QED BY <1>2, <1>4, <2>1, <2>2, CommitLeaves
<1>5. CASE Swaps(manifest, base[p]) /\ base[p].files[call[p].path] # 0
  <2>1. /\ manifest' = NextManifest(p)
        /\ old' = [old EXCEPT ![p] = base[p].files[call[p].path]] /\ Goto(p, "record")
        /\ UNCHANGED <<call, base, minted, tries, held, todo, settled>>
    BY <1>5 DEF CommitManifest
  <2> QED BY <1>2, <1>5, <2>1, CommitRecords
<1> QED BY <1>3, <1>4, <1>5

LEMMA LoadQueueKeeps ==
  ASSUME WorkspaceInv, WorkspaceAssumption, NEW p \in Pages, LoadQueue(p)
  PROVE  WorkspaceInv'
<1>1. StoreTyped /\ CallTyped /\ PageInv(p)
  BY Typing DEF WorkspaceInv
<1>2. pc[p] \in {"record", "confirm"} /\ UNCHANGED <<manifest, stored, queue, aged, late, saw, used>>
  BY DEF LoadQueue
<1>3. StoreTyped'
  BY <1>1, <1>2 DEF StoreTyped
<1>4. CASE Leave(p)
  BY <1>2, <1>3, <1>4, SupersededParts, PlainLeave
<1>5. CASE ~Leave(p)
  <2>1. /\ held' = [held EXCEPT ![p] = queue]
        /\ pc' = [pc EXCEPT ![p] = IF pc[p] = "record" THEN "recordCommit" ELSE "confirmCommit"]
        /\ UNCHANGED <<call, base, minted, old, tries, todo, settled>>
    BY <1>5 DEF LoadQueue, Goto
  <2>2. CallTyped'
    BY <1>1, <2>1 DEF CallTyped, StoreTyped
  <2>3. /\ held'[p] = queue /\ pc'[p] \in {"recordCommit", "confirmCommit"}
        /\ pc'[p] = "recordCommit" => pc[p] = "record"
        /\ \A q \in Pages \ {p} : SameCall(q) /\ held'[q] = held[q]
    BY <1>1, <2>1 DEF CallTyped, SameCall
  <2>4. Loaded(p)' /\ InForce(p)' /\ Fetching(p)'
    BY <1>1, <1>2, <2>1, <2>3 DEF PageInv, Loaded, InForce, Fetching
  <2>5. Placed(p)'
    BY <1>1, <1>2, <2>1, <2>3 DEF PageInv, Placed
  <2>6. \A r \in held'[p].entries \cup todo'[p] : Superseded(r)
    BY <2>1, <2>3, SupersededParts
  <2> QED BY <1>2, <1>3, <2>1, <2>2, <2>3, <2>4, <2>5, <2>6, QuietOf
<1> QED BY <1>4, <1>5

\* The queue a page is about to send holds superseded revisions only.
LEMMA SentQueue ==
  ASSUME WorkspaceInv, NEW p \in Pages, pc[p] \in {"recordCommit", "confirmCommit"}
  PROVE  NextQueue(p) \in Queue /\ \A r \in NextQueue(p).entries : Superseded(r)
<1>1. CallTyped /\ PageInv(p)
  BY Typing DEF WorkspaceInv
<1>2. pc[p] = "recordCommit" => old[p] # 0 /\ old[p] \in Revisions
  BY <1>1 DEF PageInv, Placed, CallTyped, Revisions
<1>3. held[p].etag \in Nat /\ held[p].entries \in SUBSET Revisions
  BY <1>1 DEF CallTyped, Queue
<1>4. NextQueue(p).entries \subseteq held[p].entries \cup (IF pc[p] = "recordCommit" THEN {old[p]} ELSE {})
  BY DEF NextQueue
<1>5. NextQueue(p) \in Queue
  BY <1>2, <1>3 DEF NextQueue, Queue
<1> QED BY <1>2, <1>4, <1>5, SupersededParts

LEMMA CommitQueueKeeps ==
  ASSUME WorkspaceInv, WorkspaceAssumption, NEW p \in Pages, CommitQueue(p)
  PROVE  WorkspaceInv'
<1>1. StoreTyped /\ CallTyped /\ PageInv(p)
  BY Typing DEF WorkspaceInv
<1>2. /\ pc[p] \in {"recordCommit", "confirmCommit"}
      /\ UNCHANGED <<manifest, stored, aged, late, saw, used>>
  BY DEF CommitQueue
<1>3. CASE queue' = NextQueue(p) /\ Leave(p)
  <2>1. queue' \in Queue /\ \A r \in queue'.entries : Superseded(r)
    BY <1>2, <1>3, SentQueue
  <2>2. StoreTyped'
    BY <1>1, <1>2, <2>1 DEF StoreTyped
  <2> QED BY <1>2, <1>3, <2>1, <2>2, PlainLeave
<1>4. CASE queue' = queue /\ Leave(p)
  <2>1. StoreTyped'
    BY <1>1, <1>2, <1>4 DEF StoreTyped
  <2> QED BY <1>2, <1>4, <2>1, SupersededParts, PlainLeave
<1>5. CASE /\ queue' = queue /\ tries[p] + 1 < MaxCommitAttempts
           /\ tries' = [tries EXCEPT ![p] = tries[p] + 1]
           /\ Goto(p, IF pc[p] = "recordCommit" THEN "record" ELSE "confirm")
           /\ UNCHANGED <<call, base, minted, old, held, todo, settled>>
  <2>1. tries[p] + 1 \in 0..MaxCommitAttempts - 1
    BY <1>1, <1>5 DEF CallTyped, WorkspaceAssumption
  <2>2. StoreTyped' /\ CallTyped'
    BY <1>1, <1>2, <1>5, <2>1 DEF StoreTyped, CallTyped, Goto
  <2>3. /\ pc'[p] \in {"record", "confirm"} /\ (pc'[p] = "record" => pc[p] = "recordCommit")
        /\ \A q \in Pages \ {p} : SameCall(q) /\ held'[q] = held[q]
    BY <1>1, <1>5 DEF CallTyped, SameCall, Goto
  <2>4. Loaded(p)' /\ InForce(p)' /\ Fetching(p)'
    BY <1>1, <1>2, <1>5, <2>3 DEF PageInv, Loaded, InForce, Fetching
  <2>5. Placed(p)'
    BY <1>1, <1>2, <1>5, <2>3 DEF PageInv, Placed
  <2>6. \A r \in held'[p].entries \cup todo'[p] : Superseded(r)
    BY <1>5, SupersededParts
  <2> QED BY <1>2, <1>5, <2>2, <2>3, <2>4, <2>5, <2>6, QuietOf
<1> QED BY <1>3, <1>4, <1>5 DEF CommitQueue

LEMMA SweepReadKeeps ==
  ASSUME WorkspaceInv, WorkspaceAssumption, NEW p \in Pages, SweepRead(p)
  PROVE  WorkspaceInv'
<1>1. StoreTyped /\ CallTyped /\ PageInv(p)
  BY Typing DEF WorkspaceInv
<1>2. /\ pc[p] = "idle" /\ call' = [call EXCEPT ![p].op = "sweep"]
      /\ todo' = [todo EXCEPT ![p] = Past] /\ pc' = [pc EXCEPT ![p] = "verify"]
      /\ UNCHANGED <<manifest, stored, queue, aged, base, minted, old, tries, held, settled,
                     late, saw, used>>
  BY DEF SweepRead, Goto
<1>3. Past \in SUBSET Revisions /\ Past \subseteq aged
  BY <1>1 DEF Past, StoreTyped
<1>4. StoreTyped' /\ CallTyped'
  BY <1>1, <1>2, <1>3 DEF StoreTyped, CallTyped
<1>5. /\ pc'[p] = "verify" /\ todo'[p] = Past
      /\ \A q \in Pages \ {p} : SameCall(q) /\ held'[q] = held[q]
  BY <1>1, <1>2 DEF CallTyped, SameCall
<1>6. Loaded(p)' /\ InForce(p)' /\ Fetching(p)' /\ Placed(p)'
  BY <1>1, <1>2, <1>3, <1>5 DEF PageInv, Loaded, InForce, Fetching, Placed
<1>7. \A r \in held'[p].entries \cup todo'[p] : Superseded(r)
  BY <1>2, <1>3, <1>5, SupersededParts
<1> QED BY <1>2, <1>4, <1>5, <1>6, <1>7, QuietOf

LEMMA SweepVerifyKeeps ==
  ASSUME WorkspaceInv, WorkspaceAssumption, NEW p \in Pages, SweepVerify(p)
  PROVE  WorkspaceInv'
<1>1. StoreTyped /\ CallTyped /\ PageInv(p)
  BY Typing DEF WorkspaceInv
<1>2. pc[p] = "verify" /\ UNCHANGED <<manifest, stored, queue, aged, late, saw, used>>
  BY DEF SweepVerify
<1>3. StoreTyped'
  BY <1>1, <1>2 DEF StoreTyped
<1>4. CASE Leave(p)
  BY <1>2, <1>3, <1>4, SupersededParts, PlainLeave
<1>5. CASE ~Leave(p)
  <2> DEFINE live == todo[p] \cap Referenced
             left == IF Reclaims THEN todo[p] \ live ELSE {}
  <2>1. /\ settled' = [settled EXCEPT ![p] = live] /\ todo' = [todo EXCEPT ![p] = left]
        /\ \E label \in {"trash", "confirm"} : pc' = [pc EXCEPT ![p] = label]
        /\ UNCHANGED <<call, base, minted, old, tries, held>>
    BY <1>5 DEF SweepVerify, Goto
  <2>2. live \subseteq Revisions /\ left \subseteq todo[p] /\ todo[p] \subseteq Revisions
    BY <1>1 DEF CallTyped
  <2> HIDE DEF live, left
  <2>3. CallTyped'
    BY <1>1, <2>1, <2>2 DEF CallTyped
  <2>4. /\ todo'[p] \subseteq todo[p] /\ pc'[p] \in {"trash", "confirm"}
        /\ \A q \in Pages \ {p} : SameCall(q) /\ held'[q] = held[q]
    BY <1>1, <2>1, <2>2 DEF CallTyped, SameCall
  <2>5. Loaded(p)' /\ InForce(p)' /\ Fetching(p)' /\ Placed(p)'
    BY <1>1, <1>2, <2>1, <2>4 DEF PageInv, Loaded, InForce, Fetching, Placed
  <2>6. \A r \in held'[p].entries \cup todo'[p] : Superseded(r)
    BY <2>1, <2>4, SupersededParts
  <2> QED BY <1>2, <1>3, <2>1, <2>3, <2>4, <2>5, <2>6, QuietOf
<1> QED BY <1>4, <1>5

\* Counting a fault draws no revision.
LEMMA FaultCounts ==
  ASSUME StoreTyped, WorkspaceAssumption, Fault
  PROVE  /\ used' \in [revisions : 0..MaxRevisions, faults : 0..MaxFaults]
         /\ used'.revisions = used.revisions
<1>1. used.faults + 1 \in 0..MaxFaults
  BY DEF Fault, StoreTyped, WorkspaceAssumption
<1> QED BY <1>1 DEF Fault, StoreTyped

LEMMA SweepTrashKeeps ==
  ASSUME WorkspaceInv, WorkspaceAssumption, NEW p \in Pages, SweepTrash(p)
  PROVE  WorkspaceInv'
<1>1. StoreTyped /\ CallTyped /\ Committed /\ PageInv(p)
  BY Typing DEF WorkspaceInv
<1>2. pc[p] = "trash" /\ UNCHANGED <<manifest, queue, aged, late, saw>>
  BY DEF SweepTrash
<1>3. PICK batch \in SUBSET todo[p], refused \in SUBSET todo[p] :
        /\ (used' = used \/ Fault) /\ stored' = stored \ batch
        /\ Trashed(p, batch, batch \ refused)
  BY DEF SweepTrash, kSubset
<1>4. /\ used' \in [revisions : 0..MaxRevisions, faults : 0..MaxFaults]
      /\ used'.revisions = used.revisions
  <2>1. CASE used' = used
    BY <1>1, <2>1 DEF StoreTyped
  <2>2. CASE Fault
    BY <1>1, <2>2, FaultCounts
  <2> QED BY <1>3, <2>1, <2>2
<1>5. StoreTyped'
  BY <1>1, <1>2, <1>3, <1>4 DEF StoreTyped
<1>6. todo[p] \subseteq aged /\ \A r \in stored : r \in stored' \/ r \in aged
  BY <1>1, <1>3 DEF PageInv, Placed
<1>7. CASE Leave(p)
  BY <1>2, <1>4, <1>5, <1>6, <1>7, SupersededParts, PlainLeave
<1>8. CASE ~Leave(p)
  <2>1. /\ settled' = [settled EXCEPT ![p] = @ \cup (batch \ refused)]
        /\ todo' = [todo EXCEPT ![p] = @ \ batch]
        /\ \E label \in {"trash", "confirm"} : pc' = [pc EXCEPT ![p] = label]
        /\ UNCHANGED <<call, base, minted, old, tries, held>>
    BY <1>3, <1>8 DEF Trashed, Goto
  <2>2. CallTyped'
    BY <1>1, <1>3, <2>1 DEF CallTyped
  <2>3. /\ todo'[p] \subseteq todo[p] /\ pc'[p] \in {"trash", "confirm"}
        /\ \A q \in Pages \ {p} : SameCall(q) /\ held'[q] = held[q]
    BY <1>1, <2>1 DEF CallTyped, SameCall
  <2>4. \A x : Superseded(x)' => Superseded(x)
    <3>1. \A q \in Pages :
             /\ \A x \in held'[q].entries \cup todo'[q] : Superseded(x)
             /\ old'[q] # 0 => Superseded(old'[q])
             /\ late'[q].object = "queue" => \A x \in late'[q].value.entries : Superseded(x)
      BY <1>2, <2>1, <2>3, SupersededParts DEF SameCall
    <3>2. (\A x \in aged' : Superseded(x)) /\ \A x \in queue'.entries : Superseded(x)
      BY <1>2, SupersededParts
    <3> QED BY <3>1, <3>2, StillSuperseded
  <2>5. Quiet
    <3>1. used.revisions \in Nat
      BY <1>1 DEF StoreTyped
    <3> QED BY <1>2, <1>4, <1>6, <2>4, <3>1 DEF Quiet
  <2>6. LateInForce(p)'
    BY <1>1, <1>2, <1>5, <2>5, QuietLate DEF PageInv
  <2>7. Loaded(p)' /\ InForce(p)' /\ Fetching(p)' /\ Placed(p)'
    BY <1>1, <1>2, <2>1, <2>3 DEF PageInv, Loaded, InForce, Fetching, Placed
  <2>8. PageInv(p)'
    BY <2>6, <2>7 DEF PageInv
  <2> QED BY <1>2, <1>5, <2>2, <2>3, <2>5, <2>8, QuietStep
<1> QED BY <1>7, <1>8

LEMMA AgeKeeps ==
  ASSUME WorkspaceInv, WorkspaceAssumption, NEW r \in Revisions, Age(r)
  PROVE  WorkspaceInv'
<1>1. StoreTyped /\ CallTyped /\ Committed
  BY Typing DEF WorkspaceInv
<1>2. /\ r \in queue.entries /\ aged' = aged \cup {r}
      /\ \A p \in Pages : pc[p] = "fetch" => base[p].files[call[p].path] # r
      /\ UNCHANGED <<manifest, stored, queue, call, pc, base, minted, old, tries, held, todo,
                     settled, late, saw, used>>
  BY DEF Age, callVars
<1>3. StoreTyped' /\ CallTyped'
  BY <1>1, <1>2 DEF StoreTyped, CallTyped
<1>4. \A x : Superseded(x)' => Superseded(x)
  <2>1. \A q \in Pages :
           /\ \A x \in held'[q].entries \cup todo'[q] : Superseded(x)
           /\ old'[q] # 0 => Superseded(old'[q])
           /\ late'[q].object = "queue" => \A x \in late'[q].value.entries : Superseded(x)
    BY <1>2, SupersededParts
  <2>2. (\A x \in aged' : Superseded(x)) /\ \A x \in queue'.entries : Superseded(x)
    BY <1>2, SupersededParts
  <2> QED BY <2>1, <2>2, StillSuperseded
<1>5. Quiet
  <2>1. used.revisions \in Nat
    BY <1>1 DEF StoreTyped
  <2> QED BY <1>2, <1>4, <2>1 DEF Quiet
<1>6. Committed'
  BY <1>1, <1>3, <1>5, QuietCommitted
<1>7. \A p \in Pages : PageInv(p)'
  BY <1>1, <1>2, <1>3, <1>5, QuietPage DEF WorkspaceInv, SameCall
<1>8. (TypeOK /\ late \in [Pages -> LateWrites])'
  <2>1. (CallTyped /\ StoreTyped)' => (TypeOK /\ late \in [Pages -> LateWrites])'
    BY Typing, PTL
  <2> QED BY <1>3, <2>1
<1> QED BY <1>6, <1>7, <1>8 DEF WorkspaceInv

LEMMA FetchKeeps ==
  ASSUME WorkspaceInv, WorkspaceAssumption, NEW p \in Pages, Fetch(p)
  PROVE  WorkspaceInv'
<1>1. StoreTyped'
  BY Typing DEF WorkspaceInv, Fetch, StoreTyped
<1> QED BY <1>1, SupersededParts, PlainLeave DEF Fetch

LEMMA CloseKeeps ==
  ASSUME WorkspaceInv, WorkspaceAssumption, NEW p \in Pages, Close(p)
  PROVE  WorkspaceInv'
<1>1. StoreTyped
  BY Typing DEF WorkspaceInv
<1>2. Leave(p) /\ Fault /\ UNCHANGED <<manifest, stored, queue, aged, late, saw>>
  BY DEF Close
<1>3. /\ used' \in [revisions : 0..MaxRevisions, faults : 0..MaxFaults]
      /\ used'.revisions = used.revisions
  BY <1>1, <1>2, FaultCounts
<1>4. StoreTyped'
  BY <1>1, <1>2, <1>3 DEF StoreTyped
<1> QED BY <1>2, <1>3, <1>4, SupersededParts, PlainLeave
\* A swap is sent and its page gives up on it: it arrives later, or never.
LEMMA SentLate ==
  ASSUME WorkspaceInv, WorkspaceAssumption, NEW p \in Pages, Leave(p), Fault,
         UNCHANGED <<manifest, stored, queue, aged, saw>>,
         NEW w \in LateWrites, late' = [late EXCEPT ![p] = w],
         w.object = "queue" => \A r \in w.value.entries : Superseded(r),
         Quiet /\ StoreTyped' => LateInForce(p)'
  PROVE  WorkspaceInv'
<1>1. StoreTyped
  BY Typing DEF WorkspaceInv
<1>2. /\ used' \in [revisions : 0..MaxRevisions, faults : 0..MaxFaults]
      /\ used'.revisions = used.revisions
  BY <1>1, FaultCounts
<1>3. StoreTyped'
  BY <1>1, <1>2 DEF StoreTyped
<1>4. late'[p] = w /\ \A q \in Pages \ {p} : late'[q] = late[q]
  BY <1>1 DEF StoreTyped
<1> QED BY <1>2, <1>3, <1>4, SupersededParts, QuietLeave

LEMMA SentManifest ==
  ASSUME WorkspaceInv, WorkspaceAssumption, NEW p \in Pages, pc[p] = "cas", Leave(p), Fault,
         UNCHANGED <<manifest, stored, queue, aged, saw>>,
         late' = [late EXCEPT ![p] = LateManifest(p)]
  PROVE  WorkspaceInv'
<1>1. StoreTyped
  BY Typing DEF WorkspaceInv
<1>2. PICK w \in LateWrites, a \in Paths, r \in 0..MaxRevisions :
        w = LateManifest(p) /\ a = call[p].path /\ r = minted[p]
  BY SwapInForce DEF LateManifest, LateWrites
<1>3. /\ w.object = "manifest" /\ w.etag = base[p].etag /\ w.value.etag = w.etag + 1
      /\ w.etag <= manifest.etag /\ w.value.files = [base[p].files EXCEPT ![a] = r]
      /\ w.etag = manifest.etag => base[p].files = manifest.files /\ Fresh(a, r)
  BY <1>2, SwapInForce DEF LateManifest, Swaps
<1>4. ASSUME Quiet, StoreTyped'
      PROVE  LateInForce(p)'
  <2>1. late'[p] = w /\ manifest' = manifest
    BY <1>1, <1>2 DEF StoreTyped
  <2>2. ASSUME w.etag = manifest.etag
        PROVE  \E b \in Paths :
                 /\ w.value.files = [manifest.files EXCEPT ![b] = w.value.files[b]]
                 /\ w.value.files[b] = r /\ b = a
    <3>1. manifest.files \in [Paths -> 0..MaxRevisions] /\ w.value.files = [manifest.files EXCEPT ![a] = r]
      BY <1>1, <1>3, <2>2 DEF StoreTyped, Manifest
    <3>2. w.value.files[a] = r
      BY <3>1
    <3> QED BY <3>1, <3>2
  <2>3. w.etag = manifest.etag => Fresh(a, r)'
    BY <1>1, <1>3, <1>4, QuietFresh
  <2>4. LateInForce(p)' <=>
          (late'[p].object = "manifest" =>
            /\ late'[p].etag <= manifest'.etag /\ late'[p].value.etag = late'[p].etag + 1
            /\ late'[p].etag = manifest'.etag =>
                 \E b \in Paths :
                   /\ late'[p].value.files = [manifest'.files EXCEPT ![b] = late'[p].value.files[b]]
                   /\ Fresh(b, late[p].value.files[b])')
    BY DEF LateInForce
  <2>5. ASSUME NEW b \in Paths, late'[p].value.files[b] = r, b = a, Fresh(a, r)'
        PROVE  Fresh(b, late[p].value.files[b])'
    BY <2>5 DEF Fresh, Superseded, Named
  <2> QED BY <1>3, <2>1, <2>2, <2>3, <2>4, <2>5
<1>5. w.object # "queue" /\ late' = [late EXCEPT ![p] = w]
  BY <1>2, <1>3
<1> QED BY <1>4, <1>5, SentLate

LEMMA ThrowsKeeps ==
  ASSUME WorkspaceInv, WorkspaceAssumption, NEW p \in Pages, Throws(p)
  PROVE  WorkspaceInv'
<1>1. StoreTyped /\ PageInv(p)
  BY Typing DEF WorkspaceInv
<1>2. Leave(p) /\ Fault /\ UNCHANGED <<aged, saw>>
  BY DEF Throws
<1>3. /\ used' \in [revisions : 0..MaxRevisions, faults : 0..MaxFaults]
      /\ used'.revisions = used.revisions
  BY <1>1, <1>2, FaultCounts
<1>4. CASE UNCHANGED <<manifest, stored, queue, late>>
  <2>1. StoreTyped'
    BY <1>1, <1>2, <1>3, <1>4 DEF StoreTyped
  <2> QED BY <1>2, <1>3, <1>4, <2>1, SupersededParts, PlainLeave
<1>5. CASE /\ pc[p] = "cas" /\ Swaps(manifest, base[p]) /\ manifest' = NextManifest(p)
           /\ UNCHANGED <<stored, queue, late>>
  BY <1>2, <1>3, <1>5, CommitLeaves
<1>6. CASE /\ pc[p] \in {"recordCommit", "confirmCommit"} /\ queue' = NextQueue(p)
           /\ UNCHANGED <<manifest, stored, late>>
  <2>1. queue' \in Queue /\ \A r \in queue'.entries : Superseded(r)
    BY <1>6, SentQueue
  <2>2. StoreTyped'
    BY <1>1, <1>2, <1>3, <1>6, <2>1 DEF StoreTyped
  <2> QED BY <1>2, <1>3, <1>6, <2>1, <2>2, PlainLeave
<1>7. CASE /\ \E batch \in SUBSET todo[p] : stored' = stored \ batch
           /\ UNCHANGED <<manifest, queue, late>>
  <2>1. PICK batch \in SUBSET todo[p] : stored' = stored \ batch
    BY <1>7
  <2>2. todo[p] \subseteq aged /\ \A r \in stored : r \in stored' \/ r \in aged
    BY <1>1, <2>1 DEF PageInv, Placed
  <2>3. StoreTyped'
    BY <1>1, <1>2, <1>3, <1>7, <2>1 DEF StoreTyped
  <2> QED BY <1>2, <1>3, <1>7, <2>2, <2>3, SupersededParts, PlainLeave
<1>8. CASE /\ pc[p] = "cas" /\ late' = [late EXCEPT ![p] = LateManifest(p)]
           /\ UNCHANGED <<manifest, stored, queue>>
  BY <1>2, <1>8, SentManifest
<1>9. CASE /\ pc[p] \in {"recordCommit", "confirmCommit"}
           /\ late' = [late EXCEPT ![p] = LateQueue(p)]
           /\ UNCHANGED <<manifest, stored, queue>>
  <2>1. NextQueue(p) \in Queue /\ \A r \in NextQueue(p).entries : Superseded(r)
    BY <1>9, SentQueue
  <2>2. held[p].etag \in Nat
    BY Typing DEF WorkspaceInv, CallTyped, Queue
  <2>3. PICK w \in LateWrites : w = LateQueue(p)
    BY <2>1, <2>2 DEF LateQueue, LateWrites
  <2>4. /\ w.object = "queue" /\ late' = [late EXCEPT ![p] = w]
        /\ \A r \in w.value.entries : Superseded(r)
    BY <1>9, <2>1, <2>3 DEF LateQueue
  <2>5. late'[p] = w
    BY <1>1, <2>4 DEF StoreTyped
  <2>6. LateInForce(p)'
    BY <2>4, <2>5 DEF LateInForce
  <2> QED BY <1>2, <1>9, <2>4, <2>6, SentLate
<1> QED BY <1>4, <1>5, <1>6, <1>7, <1>8, <1>9 DEF Throws

\* A late write that is applied, and one that finds another ETag.
LEMMA ArriveKeeps ==
  ASSUME WorkspaceInv, WorkspaceAssumption, NEW p \in Pages, Arrive(p)
  PROVE  WorkspaceInv'
<1>1. StoreTyped /\ CallTyped /\ Committed /\ PageInv(p)
  BY Typing DEF WorkspaceInv
<1>2. /\ late' = [late EXCEPT ![p] = NoLate] /\ UNCHANGED <<stored, aged, saw, used>>
      /\ UNCHANGED <<call, pc, base, minted, old, tries, held, todo, settled>>
  BY DEF Arrive, callVars
<1>3. /\ late'[p] = NoLate /\ NoLate \in LateWrites /\ late' \in [Pages -> LateWrites]
      /\ \A q \in Pages \ {p} : late'[q] = late[q]
  BY <1>1, <1>2 DEF StoreTyped, LateWrites
<1>4. CallTyped' /\ \A q \in Pages : SameCall(q)
  BY <1>1, <1>2 DEF CallTyped, SameCall
<1>5. LateInForce(p)'
  BY <1>3 DEF LateInForce, NoLate
<1>6. ASSUME NEW x, Superseded(x)', \A r \in queue'.entries : Superseded(r)
      PROVE  Superseded(x)
  <2>1. \A q \in Pages :
           /\ \A r \in held'[q].entries \cup todo'[q] : Superseded(r)
           /\ old'[q] # 0 => Superseded(old'[q])
           /\ late'[q].object = "queue" => \A r \in late'[q].value.entries : Superseded(r)
    BY <1>2, <1>3, SupersededParts DEF NoLate
  <2>2. \A r \in aged' : Superseded(r)
    BY <1>2, SupersededParts
  <2> QED BY <1>6, <2>1, <2>2, StillSuperseded
<1>7. ASSUME manifest' = manifest, queue' \in Queue, \A r \in queue'.entries : Superseded(r)
      PROVE  WorkspaceInv'
  <2>1. StoreTyped'
    BY <1>1, <1>2, <1>3, <1>7 DEF StoreTyped
  <2>2. Quiet
    <3>1. used.revisions \in Nat /\ used' = used /\ saw' = saw /\ stored' = stored /\ aged' = aged
      BY <1>1, <1>2 DEF StoreTyped
    <3>2. \A x : Superseded(x)' => Superseded(x)
      BY <1>6, <1>7
    <3> QED BY <1>7, <3>1, <3>2 DEF Quiet
  <2>3. PageInv(p)'
    <3>1. InForce(p)'
      <4> SUFFICES ASSUME pc[p] = "cas", base[p].etag = manifest.etag
                   PROVE  InForce(p)'
        BY <1>2, <1>7 DEF InForce
      <4>1. Fresh(call[p].path, minted[p]) /\ call[p].path \in Paths /\ minted[p] \in 0..MaxRevisions
        BY <1>1 DEF PageInv, InForce, Placed, CallTyped
      <4>2. \A a \in Paths, x \in 0..MaxRevisions : Fresh(a, x) => Fresh(a, x)'
        BY <1>1, <2>1, <2>2, QuietFresh
      <4> QED BY <1>2, <4>1, <4>2 DEF InForce, Fresh, Superseded, Named
    <3>2. Loaded(p)' /\ Fetching(p)' /\ Placed(p)'
      BY <1>1, <1>2, <1>7 DEF PageInv, Loaded, Fetching, Placed
    <3> QED BY <1>5, <3>1, <3>2 DEF PageInv
  <2> QED BY <1>3, <1>4, <2>1, <2>2, <2>3, QuietStep
<1>8. CASE UNCHANGED <<manifest, queue>>
  <2>1. queue' \in Queue
    BY <1>1, <1>8 DEF StoreTyped
  <2> QED BY <1>7, <1>8, <2>1, SupersededParts
<1>9. CASE /\ late[p].object = "queue" /\ queue' = late[p].value /\ UNCHANGED manifest
  <2>1. late[p] \in LateWrites
    BY <1>1 DEF StoreTyped
  <2>2. late[p].value \in Queue
    BY <1>9, <2>1 DEF LateWrites, NoLate
  <2> QED BY <1>7, <1>9, <2>2, SupersededParts
<1>10. CASE /\ late[p].object = "manifest" /\ Swaps(manifest, late[p])
            /\ manifest' = late[p].value /\ UNCHANGED queue
  <2>1. late[p].value \in Manifest
    <3>1. late[p] \in LateWrites
      BY <1>1 DEF StoreTyped
    <3> QED BY <1>10, <3>1 DEF LateWrites, NoLate
  <2>2. PICK a \in Paths, r \in 0..MaxRevisions :
          /\ late[p].value.files = [manifest.files EXCEPT ![a] = r] /\ Fresh(a, r)
    BY <1>1, <1>10, <2>1 DEF PageInv, LateInForce, Swaps, Manifest
  <2>3. Commits(a, r)
    <3>1. manifest'.etag = manifest.etag + 1 /\ manifest'.files = [manifest.files EXCEPT ![a] = r]
          /\ manifest' \in Manifest
      BY <1>1, <1>10, <2>1, <2>2 DEF PageInv, LateInForce, Swaps
    <3> QED BY <3>1 DEF Commits, Manifest
  <2>4. StoreTyped'
    BY <1>1, <1>2, <1>3, <1>10, <2>1 DEF StoreTyped
  <2>5. PageInv(p)'
    <3>1. base'[p].etag <= manifest'.etag /\ base'[p].etag # manifest'.etag
      <4>1. base[p].etag \in Nat /\ manifest.etag \in Nat /\ manifest'.etag = manifest.etag + 1
            /\ base'[p] = base[p] /\ base[p].etag <= manifest.etag
        BY <1>1, <1>2, <2>3 DEF CallTyped, StoreTyped, Manifest, Commits, PageInv, Loaded
      <4> QED BY <4>1
    <3>2. Fetching(p)' /\ Placed(p)'
      BY <1>1, <1>2 DEF PageInv, Fetching, Placed
    <3> QED BY <1>5, <3>1, <3>2 DEF PageInv, Loaded, InForce
  <2>6. \A x : Superseded(x)' => Superseded(x)
    BY <1>6, <1>10, SupersededParts
  <2>7. stored' = stored /\ aged' = aged /\ used'.revisions = used.revisions
    BY <1>2
  <2> QED BY <1>3, <1>4, <2>2, <2>3, <2>4, <2>5, <2>6, <2>7, CommitStep
<1> QED BY <1>8, <1>9, <1>10 DEF Arrive
-------------------------------------------------------------------------------
(* The theorems *)

LEMMA InitInv ==
  ASSUME WorkspaceAssumption, Init
  PROVE  WorkspaceInv
<1>1. NoManifest \in Manifest /\ NoQueue \in Queue /\ 0 \in 0..MaxRevisions
      /\ 0 \in 0..MaxCommitAttempts - 1 /\ NoLate \in LateWrites
      /\ 0 \in 0..MaxFaults /\ Anything \in Nat
  BY DEF WorkspaceAssumption, NoManifest, Manifest, NoQueue, Queue, LateWrites, Anything
<1>2. NoCall \in [op : {"none", "write", "remove", "read", "sweep"},
                  path : Paths \cup {0}, expected : 0..Anything]
  BY <1>1 DEF NoCall
<1>3. CallTyped
  BY <1>1, <1>2 DEF Init, CallTyped
<1>4. StoreTyped
  BY <1>1 DEF Init, StoreTyped
<1>5. \A r : ~Superseded(r) /\ ~Named(r)
  BY DEF Init, Superseded, Named, NoQueue, NoLate, NoManifest
<1>6. Committed
  BY <1>5 DEF Committed, Init, NoManifest
<1>7. ASSUME NEW p \in Pages
      PROVE  PageInv(p)
  <2>1. /\ pc[p] = "idle" /\ base[p] = manifest /\ manifest.etag = 0 /\ late[p] = NoLate
        /\ call[p] = NoCall /\ minted[p] = 0 /\ todo[p] = {}
    BY DEF Init, NoManifest
  <2>2. Loaded(p)
    BY <2>1 DEF Loaded
  <2>3. InForce(p) /\ LateInForce(p) /\ Fetching(p) /\ Placed(p)
    BY <2>1 DEF InForce, LateInForce, Fetching, Placed, NoLate
  <2> QED BY <2>2, <2>3 DEF PageInv
<1> QED BY <1>3, <1>4, <1>6, <1>7, Typing DEF WorkspaceInv

LEMMA StutterInv ==
  ASSUME WorkspaceInv, UNCHANGED vars
  PROVE  WorkspaceInv'
<1>1. StoreTyped /\ CallTyped /\ Committed
  BY Typing DEF WorkspaceInv
<1>2. /\ UNCHANGED <<manifest, stored, queue, aged, late, saw, used>>
      /\ UNCHANGED <<call, pc, base, minted, old, tries, held, todo, settled>>
  BY DEF vars, callVars
<1>3. StoreTyped' /\ CallTyped'
  BY <1>1, <1>2 DEF StoreTyped, CallTyped
<1>4. \A r : Superseded(r)' => Superseded(r)
  BY <1>2 DEF Superseded
<1>5. Quiet
  <2>1. used.revisions \in Nat
    BY <1>1 DEF StoreTyped
  <2> QED BY <1>2, <1>4, <2>1 DEF Quiet
<1>6. Committed'
  BY <1>1, <1>3, <1>5, QuietCommitted
<1>7. \A p \in Pages : PageInv(p)'
  BY <1>1, <1>2, <1>3, <1>5, QuietPage DEF WorkspaceInv, SameCall
<1>8. (CallTyped /\ StoreTyped)' => (TypeOK /\ late \in [Pages -> LateWrites])'
  BY Typing, PTL
<1> QED BY <1>3, <1>6, <1>7, <1>8 DEF WorkspaceInv

LEMMA NextInv ==
  ASSUME WorkspaceInv, WorkspaceAssumption, [Next]_vars
  PROVE  WorkspaceInv'
<1>1. ASSUME NEW p \in Pages, Step(p)
      PROVE  WorkspaceInv'
  BY <1>1, LoadManifestKeeps, CreateRootKeeps, PutFileKeeps, CommitManifestKeeps, LoadQueueKeeps,
     CommitQueueKeeps, SweepVerifyKeeps, SweepTrashKeeps, FetchKeeps DEF Step
<1>2. ASSUME NEW p \in Pages,
             \/ \E op \in Operations, a \in Paths : \E e \in Expectations(op) : Begin(p, op, a, e)
             \/ SweepRead(p) \/ Throws(p) \/ Arrive(p) \/ Close(p)
      PROVE  WorkspaceInv'
  BY <1>2, BeginKeeps, SweepReadKeeps, ThrowsKeeps, ArriveKeeps, CloseKeeps
<1>3. ASSUME NEW r \in Revisions, Age(r)
      PROVE  WorkspaceInv'
  BY <1>3, AgeKeeps
<1>4. CASE UNCHANGED vars
  BY <1>4, StutterInv
<1> QED BY <1>1, <1>2, <1>3, <1>4 DEF Next

LEMMA Inductive ==
  ASSUME WorkspaceAssumption
  PROVE  Spec => []WorkspaceInv
<1>1. Init => WorkspaceInv
  BY InitInv
<1>2. WorkspaceInv /\ [Next]_vars => WorkspaceInv'
  BY NextInv
<1> QED BY <1>1, <1>2, PTL DEF Spec

\* Every variable of the workspace keeps its type: a page that has given up leaves
\* at most one late write behind, and commit attempts stay below their limit.
THEOREM WorkspaceTyped ==
  ASSUME WorkspaceAssumption
  PROVE  Spec => []TypeOK
<1>1. WorkspaceInv => TypeOK
  BY DEF WorkspaceInv
<1> QED BY <1>1, Inductive, PTL

LEMMA ReferencedIsNamed ==
  ASSUME WorkspaceInv
  PROVE  \A r \in Referenced : r \in Revisions /\ Named(r) /\ r \in stored /\ ~Superseded(r)
<1>1. \A r \in Referenced : r \in Revisions /\ Named(r)
  BY Typing DEF WorkspaceInv, StoreTyped, Manifest, Referenced, Named, Revisions
<1> QED BY <1>1 DEF WorkspaceInv, Committed

\* No sweep of vault/reclamation.ts, however its answers are lost and whatever late
\* swaps arrive, removes a file the committed manifest names, and readEntry finds
\* the object its manifest named although writers may have replaced it since.
THEOREM LiveFilesAreStored ==
  ASSUME WorkspaceAssumption
  PROVE  Spec => []ReferencedFilesAreStored
<1>1. ASSUME WorkspaceInv
      PROVE  ReferencedFilesAreStored
  <2>1. Referenced \subseteq stored
    BY <1>1, ReferencedIsNamed
  <2>2. \A p \in Pages : pc[p] = "fetch" => base[p].files[call[p].path] \in stored
    BY <1>1 DEF WorkspaceInv, PageInv, Fetching
  <2> QED BY <2>1, <2>2 DEF ReferencedFilesAreStored
<1> QED BY <1>1, Inductive, PTL

\* A manifest step is a commit of one fresh revision, or the root's creation.
LEMMA ManifestSteps ==
  ASSUME WorkspaceInv, WorkspaceAssumption, Next
  PROVE  \/ manifest' = manifest
         \/ manifest'.files = manifest.files
         \/ \E a \in Paths, r \in 0..MaxRevisions : Fresh(a, r) /\ Commits(a, r)
<1>1. ASSUME NEW p \in Pages, pc[p] = "cas", Swaps(manifest, base[p]), manifest' = NextManifest(p)
      PROVE  \E a \in Paths, r \in 0..MaxRevisions : Fresh(a, r) /\ Commits(a, r)
  <2>1. PICK a \in Paths, r \in 0..MaxRevisions : a = call[p].path /\ r = minted[p]
    BY <1>1, SwapInForce
  <2>2. Fresh(a, r) /\ Commits(a, r)
    BY <1>1, <2>1, SwapInForce DEF Commits
  <2> QED BY <2>2
<1>2. ASSUME NEW p \in Pages, late[p].object = "manifest", Swaps(manifest, late[p]),
             manifest' = late[p].value
      PROVE  \E a \in Paths, r \in 0..MaxRevisions : Fresh(a, r) /\ Commits(a, r)
  <2>1. StoreTyped /\ PageInv(p)
    BY Typing DEF WorkspaceInv
  <2>2. late[p].value \in Manifest
    <3>1. late[p] \in LateWrites
      BY <2>1 DEF StoreTyped
    <3> QED BY <1>2, <3>1 DEF LateWrites, NoLate
  <2>3. PICK a \in Paths, r \in 0..MaxRevisions :
          late[p].value.files = [manifest.files EXCEPT ![a] = r] /\ Fresh(a, r)
    BY <1>2, <2>1, <2>2 DEF PageInv, LateInForce, Swaps, Manifest
  <2>4. manifest'.etag = manifest.etag + 1 /\ manifest'.files = [manifest.files EXCEPT ![a] = r]
        /\ manifest' \in Manifest
    BY <1>2, <2>1, <2>2, <2>3 DEF PageInv, LateInForce, Swaps
  <2>5. Commits(a, r)
    BY <2>4 DEF Commits, Manifest
  <2> QED BY <2>3, <2>5
<1>3. ASSUME NEW p \in Pages, CreateRoot(p)
      PROVE  manifest' = manifest \/ manifest'.files = manifest.files
  BY <1>3 DEF CreateRoot, NoManifest
<1>4. ASSUME NEW p \in Pages, Arrive(p)
      PROVE  \/ manifest' = manifest
             \/ \E a \in Paths, r \in 0..MaxRevisions : Fresh(a, r) /\ Commits(a, r)
  BY <1>2, <1>4 DEF Arrive
<1>5. ASSUME NEW p \in Pages, Throws(p) \/ CommitManifest(p)
      PROVE  \/ manifest' = manifest
             \/ \E a \in Paths, r \in 0..MaxRevisions : Fresh(a, r) /\ Commits(a, r)
  BY <1>1, <1>5 DEF Throws, CommitManifest
<1>6. ASSUME NEW p \in Pages,
             \/ \E op \in Operations, a \in Paths : \E e \in Expectations(op) : Begin(p, op, a, e)
             \/ SweepRead(p) \/ Close(p) \/ LoadManifest(p) \/ PutFile(p) \/ LoadQueue(p)
             \/ CommitQueue(p) \/ SweepVerify(p) \/ SweepTrash(p) \/ Fetch(p)
      PROVE  manifest' = manifest
  BY <1>6 DEF Begin, SweepRead, Close, LoadManifest, PutFile, LoadQueue, CommitQueue, SweepVerify,
              SweepTrash, Fetch
<1>7. ASSUME NEW r \in Revisions, Age(r)
      PROVE  manifest' = manifest
  BY <1>7 DEF Age
<1> QED BY <1>3, <1>4, <1>5, <1>6, <1>7 DEF Next, Step

\* No write is lost and none comes back: a step changes one path of the manifest,
\* a new revision replaces the one its writer loaded, also when the swap was given
\* up on and arrives late, and the queue (so every sweep) names no live file.
THEOREM NoLostWrite ==
  ASSUME WorkspaceAssumption
  PROVE  Spec => CommitsReplaceWhatTheySaw
<1>1. ASSUME WorkspaceInv, Next
      PROVE  ReplacesWhatItSaw
  <2>1. CASE manifest'.files = manifest.files
    BY <2>1 DEF ReplacesWhatItSaw
  <2>2. CASE \E a \in Paths, r \in 0..MaxRevisions : Fresh(a, r) /\ Commits(a, r)
    <3>1. PICK a \in Paths, r \in 0..MaxRevisions : Fresh(a, r) /\ Commits(a, r)
      BY <2>2
    <3>2. manifest.files \in [Paths -> 0..MaxRevisions]
      BY <1>1, Typing DEF WorkspaceInv, StoreTyped, Manifest
    <3>3. \A b \in Paths : manifest'.files[b] = IF b = a THEN r ELSE manifest.files[b]
      BY <3>1, <3>2 DEF Commits
    <3>4. r # 0 => saw[r] = manifest.files[a]
      BY <3>1 DEF Fresh
    <3> QED BY <3>3, <3>4 DEF ReplacesWhatItSaw
  <2> QED BY <1>1, <2>1, <2>2, ManifestSteps
<1>2. WorkspaceInv /\ [Next]_vars => [ReplacesWhatItSaw]_vars
  BY <1>1
<1>3. WorkspaceInv => QueueNamesNoLiveFile
  BY ReferencedIsNamed, SupersededParts DEF QueueNamesNoLiveFile
<1> QED BY <1>2, <1>3, Inductive, PTL DEF Spec, CommitsReplaceWhatTheySaw

-------------------------------------------------------------------------------
(* The coordinator. *)

Runtimes == [vault : Vaults \cup {0}, key : Keys \cup {0}, cache : Nat]
Waits == {"modules", "checks", "reclaim", "cache"}
ProbeCalls ==
  [pc : Waits \cup {"unused", "done"}, gen : Nat,
   vault : Vaults \cup {0}, key : Keys \cup {0}, store : Vaults \cup {0},
   retained : Runtimes, retainedStore : Nat, aborted : BOOLEAN,
   out : {"none", "degraded", "aborted", "ready"}, revived : BOOLEAN, left : Nat]

(***************************************************************************)
(* The inductive invariant.  A probe runs while it waits for the provider  *)
(* and its generation is the coordinator's.  Every command that changes    *)
(* what was configured draws a new generation, so the running probe works  *)
(* on the configured vault and the attached key and retains the runtime in *)
(* use, unless a superseded re-probe put its own back meanwhile.  A cache  *)
(* belongs to one runtime, so what is put back was closed when it was let  *)
(* go of, or was itself left by one that was put back.                     *)
(***************************************************************************)
Typed ==
  /\ generation \in Nat /\ config \in Vaults \cup {0} /\ workspaceKey \in Keys \cup {0}
  /\ store \in {0, config} /\ controller \in Probes \cup {0}
  /\ phase \in {"disconnected", "configured", "probing", "ready", "degraded"}
  /\ runtime \in Runtimes /\ opened \in Nat /\ open \subseteq 1..opened
  /\ commands \in Nat
  /\ probe \in [Probes -> ProbeCalls]

\* The runtimes the coordinator or a probe refers to.
Known == {V!NoRuntime, runtime} \cup {probe[p].retained : p \in Probes}

Distinct ==
  /\ \A r \in Known : r.cache <= opened
  /\ \A r, s \in Known : r.cache = s.cache => r = s

Sound(r) == r.vault = config /\ r.key = workspaceKey /\ r.cache \in open
Left(c) == \E p \in Probes : probe[p].left = c

\* The runtime in use, its cache and what the snapshot shows.
InUse ==
  /\ acceleratedStore = runtime.cache
  /\ \A c \in open : c = acceleratedStore \/ Left(c)
  /\ runtime # V!NoRuntime => Sound(runtime) \/ V!Revived(runtime)
  /\ phase = "ready" => /\ runtime # V!NoRuntime
                        /\ V!Revived(runtime) \/ evidence = [vault |-> config, key |-> workspaceKey]

\* The runtime in use was put back, and holds no cache of its own.
Strayed == V!Revived(runtime) /\ (acceleratedStore \in open => Left(acceleratedStore))

Runs(p) ==
  probe[p].pc \in Waits /\ V!Current(p) =>
    /\ controller = p /\ phase \in {"probing", "ready"}
    /\ config # 0 /\ probe[p].vault = config
    /\ workspaceKey # 0 /\ probe[p].key = workspaceKey
    /\ probe[p].pc # "modules" => probe[p].store = config
    /\ probe[p].retained = runtime \/ Strayed
    /\ probe[p].retained # V!NoRuntime => Sound(probe[p].retained) \/ V!Revived(probe[p].retained)

\* What a probe was made over is what it retained.
Matches(q) == q.store = q.retained.vault /\ q.key = q.retained.key

ProbePlaced(p) ==
  /\ probe[p].pc \in Waits => /\ probe[p].gen <= generation
                              /\ probe[p].retainedStore = probe[p].retained.cache
  /\ probe[p].pc # "done" => ~probe[p].revived /\ probe[p].left = 0
  /\ probe[p].pc = "cache" => probe[p].retained = V!NoRuntime
  /\ probe[p].pc \in Waits \ {"modules"} /\ probe[p].retained # V!NoRuntime =>
       V!Revived(probe[p].retained) \/ Matches(probe[p])

CoordinatorInv ==
  /\ Typed /\ Distinct /\ InUse
  /\ \A p \in Probes : Runs(p) /\ ProbePlaced(p)

-------------------------------------------------------------------------------
LEMMA CoordinatorInitially ==
  ASSUME V!CoordinatorAssumption, V!Init
  PROVE  CoordinatorInv
<1>1. V!NoRuntime \in Runtimes /\ V!NoProbe \in ProbeCalls
  BY DEF ProbeCalls, Runtimes, V!NoRuntime, V!NoProbe, Waits
<1>2. Typed
  BY <1>1 DEF V!CoordinatorAssumption, V!Init, Typed
<1>3. InUse
  BY DEF V!Init, InUse, V!NoRuntime
<1>4. ASSUME NEW p \in Probes
      PROVE  Runs(p) /\ ProbePlaced(p) /\ probe[p].retained = V!NoRuntime
  BY <1>4 DEF V!Init, Runs, ProbePlaced, V!NoProbe, Waits
<1>5. Distinct
  <2>1. \A r \in Known : r = V!NoRuntime
    BY <1>4 DEF Known, V!Init
  <2> QED BY <2>1 DEF Distinct, V!Init, V!NoRuntime
<1> QED BY <1>2, <1>3, <1>4, <1>5 DEF CoordinatorInv

\* What a step leaves of the memory of each probe.
Remembers ==
  \A p \in Probes :
    /\ probe[p].revived => probe'[p].revived /\ probe'[p].retained = probe[p].retained
    /\ probe[p].left # 0 => probe'[p].left = probe[p].left

LEMMA Memory ==
  ASSUME CoordinatorInv, Remembers
  PROVE  /\ \A r : V!Revived(r) => V!Revived(r)'
         /\ \A c \in open : Left(c) => Left(c)'
<1>1. 0 \notin open
  BY DEF CoordinatorInv, Typed
<1> QED BY <1>1 DEF Remembers, V!Revived, Left

LEMMA StaysDistinct ==
  ASSUME CoordinatorInv, opened' \in Nat, opened' >= opened, Known' \subseteq Known
  PROVE  Distinct'
<1>1. \A r \in Known : r.cache \in Nat
  BY DEF CoordinatorInv, Typed, ProbeCalls, Runtimes, Known, V!NoRuntime
<1>2. Distinct /\ opened \in Nat
  BY DEF CoordinatorInv, Typed
<1> QED BY <1>1, <1>2 DEF Distinct

\* A command that draws a new generation leaves no probe running.
LEMMA Invalidates ==
  ASSUME CoordinatorInv, V!CoordinatorAssumption, V!invalidateProbe
  PROVE  /\ generation' \in Nat /\ controller' \in Probes \cup {0}
         /\ probe' \in [Probes -> ProbeCalls] /\ Remembers
         /\ \A p \in Probes : probe'[p].retained = probe[p].retained
         /\ \A p \in Probes : Runs(p)' /\ ProbePlaced(p)'
<1>1. Typed
  BY DEF CoordinatorInv
<1>2. generation' = generation + 1 /\ controller' = 0
  BY DEF V!invalidateProbe
<1>3. \A p \in Probes : /\ probe'[p].pc = probe[p].pc /\ probe'[p].gen = probe[p].gen
                        /\ probe'[p].store = probe[p].store /\ probe'[p].key = probe[p].key
                        /\ probe'[p].retained = probe[p].retained
                        /\ probe'[p].retainedStore = probe[p].retainedStore
                        /\ probe'[p].revived = probe[p].revived
                        /\ probe'[p].left = probe[p].left
  BY <1>1 DEF Typed, ProbeCalls, V!invalidateProbe
<1>4. Remembers
  BY <1>3 DEF Remembers
<1>5. ASSUME NEW p \in Probes
      PROVE  Runs(p)' /\ ProbePlaced(p)'
  <2>1. ProbePlaced(p) /\ probe[p].gen \in Nat
    BY <1>1, <1>5 DEF CoordinatorInv, Typed, ProbeCalls
  <2>2. probe'[p].pc \in Waits => probe'[p].gen < generation'
    BY <2>1, <1>1, <1>2, <1>3, <1>5 DEF ProbePlaced, Typed
  <2>3. Runs(p)'
    BY <2>1, <2>2, <1>1, <1>2, <1>3, <1>5 DEF Runs, V!Current, Typed
  <2>4. V!Revived(probe[p].retained) => V!Revived(probe[p].retained)'
    BY <1>3 DEF V!Revived
  <2>5. ProbePlaced(p)'
    BY <2>1, <2>2, <2>4, <1>1, <1>2, <1>3 DEF ProbePlaced, Matches, Typed
  <2> QED BY <2>3, <2>5
<1>6. probe' \in [Probes -> ProbeCalls]
  <2>1. \A p \in Probes : [probe[p] EXCEPT !.aborted = TRUE] \in ProbeCalls
    BY <1>1 DEF Typed, ProbeCalls
  <2>2. \A p \in Probes : probe[p] \in ProbeCalls
    BY <1>1 DEF Typed
  <2> QED BY <2>1, <2>2 DEF V!invalidateProbe
<1> QED BY <1>1, <1>2, <1>3, <1>4, <1>5, <1>6 DEF Typed

\* A command that lets go of the runtime and closes its cache.
LEMMA Dropped ==
  ASSUME CoordinatorInv, V!CoordinatorAssumption, V!invalidateProbe, V!DropRuntime, UNCHANGED opened,
         phase' # "ready"
  PROVE  /\ runtime' \in Runtimes /\ open' \subseteq 1..opened'
         /\ Distinct' /\ InUse'
<1>1. Typed /\ InUse
  BY DEF CoordinatorInv
<1>2. runtime' = V!NoRuntime /\ acceleratedStore' = 0 /\ open' = open \ {acceleratedStore}
  BY DEF V!DropRuntime, V!resetAcceleration
<1>3. runtime' \in Runtimes /\ open' \subseteq 1..opened'
  BY <1>1, <1>2 DEF Typed, Runtimes, V!NoRuntime
<1>4. \A c \in open : Left(c) => Left(c)'
  BY Invalidates, Memory
<1>5. InUse'
  BY <1>1, <1>2, <1>4 DEF InUse, V!NoRuntime
<1>6. Known' \subseteq Known
  BY <1>2, Invalidates DEF Known
<1> QED BY <1>1, <1>3, <1>5, <1>6, StaysDistinct DEF Typed

LEMMA ConfigureKeeps ==
  ASSUME CoordinatorInv, V!CoordinatorAssumption,
         NEW v \in Vaults, NEW k \in Keys \cup {0}, NEW direct \in BOOLEAN, V!Configure(v, k, direct)
  PROVE  CoordinatorInv'
<1>1. V!invalidateProbe /\ V!DropRuntime /\ UNCHANGED opened /\ phase' # "ready"
  BY DEF V!Configure, V!Show
<1>2. Typed'
  BY <1>1, Invalidates, Dropped DEF V!Configure, V!Command, V!Show, CoordinatorInv, Typed
<1> QED BY <1>1, <1>2, Invalidates, Dropped DEF CoordinatorInv

LEMMA SetKeyKeeps ==
  ASSUME CoordinatorInv, V!CoordinatorAssumption, NEW k \in Keys \cup {0}, V!SetKey(k)
  PROVE  CoordinatorInv'
<1>1. V!invalidateProbe /\ V!DropRuntime /\ UNCHANGED opened /\ phase' # "ready"
  BY DEF V!SetKey, V!Show
<1>2. Typed'
  BY <1>1, Invalidates, Dropped DEF V!SetKey, V!Command, V!Show, CoordinatorInv, Typed
<1> QED BY <1>1, <1>2, Invalidates, Dropped DEF CoordinatorInv

LEMMA DisconnectKeeps ==
  ASSUME CoordinatorInv, V!CoordinatorAssumption, V!disconnect
  PROVE  CoordinatorInv'
<1>1. V!invalidateProbe /\ V!DropRuntime /\ UNCHANGED opened /\ phase' # "ready"
  BY DEF V!disconnect, V!Show
<1>2. Typed'
  BY <1>1, Invalidates, Dropped DEF V!disconnect, V!Command, V!Show, CoordinatorInv, Typed
<1> QED BY <1>1, <1>2, Invalidates, Dropped DEF CoordinatorInv

\* A step that does not touch the runtime in use, its cache and what is configured.
LEMMA StaysInUse ==
  ASSUME CoordinatorInv, Remembers,
         UNCHANGED <<config, workspaceKey, runtime, acceleratedStore, open>>,
         phase' # "ready" \/ UNCHANGED <<phase, evidence>>
  PROVE  InUse'
<1>1. InUse /\ \A c \in open : Left(c) => Left(c)'
  BY Memory DEF CoordinatorInv
<1>2. V!Revived(runtime) => V!Revived(runtime)'
  BY DEF Remembers, V!Revived
<1> QED BY <1>1, <1>2 DEF InUse, Sound

LEMMA CancelKeeps ==
  ASSUME CoordinatorInv, V!CoordinatorAssumption, V!cancelProbe
  PROVE  CoordinatorInv'
<1>1. V!invalidateProbe
  BY DEF V!cancelProbe
<1>2. Typed'
  BY <1>1, Invalidates DEF V!cancelProbe, V!Command, V!Show, CoordinatorInv, Typed
<1>3. InUse'
  BY <1>1, Invalidates, StaysInUse DEF V!cancelProbe, V!Show
<1>4. Distinct'
  BY <1>1, Invalidates, StaysDistinct DEF V!cancelProbe, Known, CoordinatorInv, Typed
<1> QED BY <1>1, <1>2, <1>3, <1>4, Invalidates DEF CoordinatorInv
-------------------------------------------------------------------------------
(* Steps of a probe. *)

\* The probes that are not running do not depend on the rest, and no other one
\* runs beside p.
LEMMA OthersKeep ==
  ASSUME CoordinatorInv, Remembers, NEW p \in Probes, probe[p].pc \in Waits,
         UNCHANGED <<generation, config, workspaceKey>>,
         V!Current(p) \/ /\ UNCHANGED <<controller, open>> /\ phase' \in {phase, "ready"}
                         /\ UNCHANGED <<runtime, acceleratedStore>> \/ Strayed',
         NEW q \in Probes, q # p, probe'[q] = probe[q]
  PROVE  Runs(q)' /\ ProbePlaced(q)'
<1>1. Runs(p) /\ Runs(q) /\ ProbePlaced(q)
  BY DEF CoordinatorInv
<1>2. V!Revived(probe[q].retained) => V!Revived(probe[q].retained)'
  BY DEF Remembers, V!Revived
<1>3. ProbePlaced(q)'
  BY <1>1, <1>2 DEF ProbePlaced, Matches
<1>4. CASE ~(probe[q].pc \in Waits /\ V!Current(q))
  BY <1>4, <1>3 DEF Runs, V!Current
<1>5. CASE probe[q].pc \in Waits /\ V!Current(q)
  <2>1. ~V!Current(p)
    BY <1>1, <1>5 DEF Runs
  <2>2. /\ UNCHANGED <<controller, open>> /\ phase' \in {phase, "ready"}
        /\ UNCHANGED <<runtime, acceleratedStore>> \/ Strayed'
    BY <2>1
  <2>3. probe'[q].retained = runtime' \/ Strayed'
    <3>1. CASE Strayed'
      BY <3>1
    <3>2. CASE UNCHANGED <<runtime, acceleratedStore>>
      <4>1. probe[q].retained = runtime \/ Strayed
        BY <1>1, <1>5 DEF Runs
      <4>2. Strayed => Strayed'
        <5>1. V!Revived(runtime) => V!Revived(runtime)'
          BY <3>2 DEF Remembers, V!Revived
        <5>2. acceleratedStore \in open /\ Left(acceleratedStore) => Left(acceleratedStore)'
          <6>1. acceleratedStore \in open => acceleratedStore # 0
            BY DEF CoordinatorInv, Typed
          <6> QED BY <3>2, <6>1 DEF Remembers, Left
        <5> QED BY <5>1, <5>2, <3>2, <2>2 DEF Strayed
      <4> QED BY <4>1, <4>2, <3>2
    <3> QED BY <3>1, <3>2, <2>2
  <2>4. probe'[q].retained # V!NoRuntime => Sound(probe[q].retained)' \/ V!Revived(probe[q].retained)'
    BY <1>1, <1>2, <1>5, <2>2 DEF Runs, Sound
  <2>5. /\ controller' = q /\ phase' \in {"probing", "ready"}
        /\ config' # 0 /\ probe'[q].vault = config'
        /\ workspaceKey' # 0 /\ probe'[q].key = workspaceKey'
        /\ probe'[q].pc # "modules" => probe'[q].store = config'
    BY <1>1, <1>5, <2>2 DEF Runs
  <2> QED BY <2>3, <2>4, <2>5, <1>3 DEF Runs
<1> QED BY <1>4, <1>5

\* A call ends.
LEMMA Ends ==
  ASSUME CoordinatorInv, NEW p \in Probes, probe[p].pc \in Waits,
         NEW run \in ProbeCalls, run.pc = "done", run.retained = probe[p].retained, V!Ended(p, run),
         UNCHANGED <<generation, config, workspaceKey>>,
         V!Current(p) \/ /\ UNCHANGED open /\ phase' \in {phase, "ready"}
                         /\ UNCHANGED <<runtime, acceleratedStore>> \/ Strayed'
  PROVE  /\ controller' \in Probes \cup {0} /\ probe'[p] = run
         /\ probe' \in [Probes -> ProbeCalls] /\ Remembers
         /\ \A q \in Probes : probe'[q].retained = probe[q].retained
         /\ \A q \in Probes : Runs(q)' /\ ProbePlaced(q)'
<1>1. Typed /\ ProbePlaced(p)
  BY DEF CoordinatorInv
<1>2. controller' \in Probes \cup {0} /\ (V!Current(p) \/ UNCHANGED controller)
  BY <1>1 DEF V!Ended, Typed
<1>3. /\ probe' \in [Probes -> ProbeCalls] /\ probe'[p] = run
      /\ \A q \in Probes : q # p => probe'[q] = probe[q]
  BY <1>1 DEF V!Ended, Typed
<1>4. Remembers
  BY <1>1, <1>3 DEF Remembers, ProbePlaced, Waits
<1>5. Runs(p)' /\ ProbePlaced(p)'
  BY <1>3 DEF Runs, ProbePlaced, Waits
<1>6. ASSUME NEW q \in Probes, q # p
      PROVE  Runs(q)' /\ ProbePlaced(q)'
  BY <1>2, <1>3, <1>4, <1>6, OthersKeep
<1> QED BY <1>2, <1>3, <1>4, <1>5, <1>6

LEMMA Settles ==
  ASSUME CoordinatorInv, NEW p \in Probes, probe[p].pc \in Waits,
         NEW out \in {"degraded", "aborted", "ready"}, V!Settle(p, out),
         UNCHANGED <<generation, config, workspaceKey>>,
         V!Current(p) \/ UNCHANGED <<phase, runtime, acceleratedStore, open>>
  PROVE  /\ controller' \in Probes \cup {0} /\ probe'[p].out = out
         /\ probe' \in [Probes -> ProbeCalls] /\ Remembers
         /\ \A q \in Probes : probe'[q].retained = probe[q].retained
         /\ \A q \in Probes : Runs(q)' /\ ProbePlaced(q)'
<1> DEFINE run == [probe[p] EXCEPT !.pc = "done", !.out = out]
<1>1. /\ run \in ProbeCalls /\ run.pc = "done" /\ run.out = out
      /\ run.retained = probe[p].retained
  BY DEF CoordinatorInv, Typed, ProbeCalls
<1>2. V!Ended(p, run)
  BY DEF V!Settle
<1> HIDE DEF run
<1> QED BY <1>1, <1>2, Ends

\* A run that ends in the catch block closes what it opened and, if it was a
\* first probe, lets go of nothing but what was put back.
LEMMA Caught ==
  ASSUME CoordinatorInv, V!CoordinatorAssumption, NEW p \in Probes, probe[p].pc \in Waits,
         NEW closed, closed \cap open = {}, NEW raised \in BOOLEAN, V!Catch(p, closed, raised),
         UNCHANGED <<generation, config, workspaceKey, store, commands>>,
         opened' \in Nat, opened' >= opened
  PROVE  /\ CoordinatorInv'
         /\ UNCHANGED runtime \/ runtime = V!NoRuntime \/ V!Revived(runtime)
         /\ phase' = phase \/ phase' # "ready"
<1>1. Typed /\ InUse /\ Runs(p)
  BY DEF CoordinatorInv
<1>2. PICK aborts \in {raised \/ probe[p].aborted} :
        IF V!Current(p)
        THEN /\ IF probe[p].retained = V!NoRuntime
                THEN /\ runtime' = V!NoRuntime /\ acceleratedStore' = 0
                     /\ open' = open \ (closed \cup {acceleratedStore})
                ELSE UNCHANGED <<runtime, acceleratedStore>> /\ open' = open \ closed
             /\ V!Show(IF aborts THEN "configured" ELSE "degraded", V!NoEvidence)
             /\ V!Settle(p, IF aborts THEN "aborted" ELSE "degraded")
        ELSE /\ UNCHANGED <<runtime, acceleratedStore, phase, evidence>> /\ open' = open \ closed
             /\ V!Settle(p, "aborted")
  BY DEF V!Catch
<1>3. open \ closed = open /\ open \ (closed \cup {acceleratedStore}) = open \ {acceleratedStore}
  OBVIOUS
<1>4. \/ V!Current(p) /\ phase' \in {"configured", "degraded"}
      \/ UNCHANGED <<phase, evidence>>
  BY <1>2 DEF V!Show
<1>5. PICK out \in {"degraded", "aborted", "ready"} : V!Settle(p, out)
  BY <1>2
<1>6. \/ UNCHANGED <<runtime, acceleratedStore, open>>
      \/ /\ V!Current(p) /\ probe[p].retained = V!NoRuntime
         /\ runtime' = V!NoRuntime /\ acceleratedStore' = 0 /\ open' = open \ {acceleratedStore}
  BY <1>2, <1>3
<1>7. V!Current(p) \/ UNCHANGED <<phase, runtime, acceleratedStore, open>>
  BY <1>4, <1>6, <1>2, <1>3
<1>8. /\ controller' \in Probes \cup {0}
      /\ probe' \in [Probes -> ProbeCalls] /\ Remembers
      /\ \A q \in Probes : probe'[q].retained = probe[q].retained
      /\ \A q \in Probes : Runs(q)' /\ ProbePlaced(q)'
  BY <1>5, <1>7, Settles
<1>9. runtime' \in Runtimes /\ open' \subseteq 1..opened'
  <2>1. V!NoRuntime \in Runtimes
    BY DEF Runtimes, V!NoRuntime
  <2>2. open' \subseteq open /\ 1..opened \subseteq 1..opened'
    BY <1>1, <1>6 DEF Typed
  <2> QED BY <2>1, <2>2, <1>1, <1>6 DEF Typed
<1>10. Typed'
  BY <1>1, <1>4, <1>8, <1>9 DEF Typed
<1>11. Known' \subseteq Known
  BY <1>6, <1>8 DEF Known
<1>12. InUse'
  <2>1. CASE UNCHANGED <<runtime, acceleratedStore, open>>
    BY <2>1, <1>4, <1>8, StaysInUse
  <2>2. CASE /\ V!Current(p) /\ runtime' = V!NoRuntime /\ acceleratedStore' = 0
             /\ open' = open \ {acceleratedStore}
    <3>1. phase' # "ready"
      BY <2>2, <1>2 DEF V!Show
    <3>2. \A c \in open : Left(c) => Left(c)'
      BY <1>8, Memory
    <3> QED BY <2>2, <3>1, <3>2, <1>1 DEF InUse, V!NoRuntime
  <2> QED BY <2>1, <2>2, <1>6
<1>13. UNCHANGED runtime \/ runtime = V!NoRuntime \/ V!Revived(runtime)
  BY <1>1, <1>6 DEF Runs, Strayed
<1>14. CoordinatorInv'
  BY <1>8, <1>10, <1>11, <1>12, StaysDistinct DEF CoordinatorInv
<1> QED BY <1>4, <1>13, <1>14

\* A step of a probe from one await to the next.
LEMMA Advances ==
  ASSUME CoordinatorInv, NEW p \in Probes, probe[p].pc \in Waits,
         UNCHANGED <<generation, config, workspaceKey, runtime, acceleratedStore, open,
                     phase, evidence, controller, opened>>,
         store' \in {0, config}, commands' \in Nat,
         NEW run \in ProbeCalls, probe' = [probe EXCEPT ![p] = run],
         run.pc \in Waits, run.gen = probe[p].gen, run.vault = probe[p].vault,
         run.key = probe[p].key, run.retained = probe[p].retained,
         run.retainedStore = probe[p].retainedStore,
         run.revived = probe[p].revived, run.left = probe[p].left,
         probe[p].pc # "modules" => run.pc # "modules" /\ run.store = probe[p].store,
         probe[p].pc = "modules" /\ run.pc # "modules" => V!Current(p) /\ run.store = config,
         run.pc = "cache" => probe[p].retained = V!NoRuntime
  PROVE  CoordinatorInv'
<1>1. Typed /\ Runs(p) /\ ProbePlaced(p)
  BY DEF CoordinatorInv
<1>2. /\ probe' \in [Probes -> ProbeCalls] /\ probe'[p] = run
      /\ \A q \in Probes : q # p => probe'[q] = probe[q]
  BY <1>1 DEF Typed
<1>3. \A q \in Probes : probe'[q].retained = probe[q].retained
  BY <1>2
<1>4. Remembers
  BY <1>2 DEF Remembers
<1>5. Typed'
  BY <1>1, <1>2 DEF Typed
<1>6. InUse'
  BY <1>4, StaysInUse
<1>7. Distinct'
  <2>1. Known' \subseteq Known
    BY <1>3 DEF Known
  <2> QED BY <2>1, <1>1, StaysDistinct DEF Typed
<1>8. \A r : V!Revived(r) => V!Revived(r)'
  BY <1>4, Memory
<1>9. Runs(p)'
  <2>1. CASE V!Current(p)
    <3>1. Strayed => Strayed'
      <4>1. V!Revived(runtime) => V!Revived(runtime)'
        BY <1>4 DEF Remembers, V!Revived
      <4>2. \A c \in open : Left(c) => Left(c)'
        BY <1>4, Memory
      <4> QED BY <4>1, <4>2 DEF Strayed, Left
    <3>2. V!Revived(probe[p].retained) => V!Revived(probe[p].retained)'
      BY <1>3, <1>4 DEF Remembers, V!Revived
    <3>3. run.pc # "modules" => run.store = config
      BY <2>1, <1>1 DEF Runs
    <3> QED BY <2>1, <3>1, <3>2, <3>3, <1>1, <1>2 DEF Runs, Sound
  <2>2. CASE ~V!Current(p)
    BY <2>2, <1>2 DEF Runs, V!Current
  <2> QED BY <2>1, <2>2
<1>10. ProbePlaced(p)'
  <2>1. V!Revived(probe[p].retained) => V!Revived(probe[p].retained)'
    BY <1>3, <1>4 DEF Remembers, V!Revived
  <2>2. CASE probe[p].pc # "modules" \/ run.pc = "modules"
    BY <2>1, <2>2, <1>1, <1>2 DEF ProbePlaced, Matches, Waits
  <2>3. CASE probe[p].pc = "modules" /\ run.pc # "modules"
    <3>1. probe[p].retained # V!NoRuntime => V!Revived(probe[p].retained) \/ Matches(run)
      BY <2>3, <1>1 DEF Runs, Sound, Matches
    <3>2. probe'[p].retained # V!NoRuntime => V!Revived(probe[p].retained)' \/ Matches(probe'[p])
      BY <3>1, <2>1, <1>2
    <3> QED BY <3>2, <2>3, <1>1, <1>2 DEF ProbePlaced, Matches, Waits
  <2> QED BY <2>2, <2>3
<1>11. ASSUME NEW q \in Probes, q # p
       PROVE  Runs(q)' /\ ProbePlaced(q)'
  BY <1>2, <1>4, <1>11, OthersKeep
<1> QED BY <1>5, <1>6, <1>7, <1>9, <1>10, <1>11 DEF CoordinatorInv

LEMMA ProbeWithoutKeyKeeps ==
  ASSUME CoordinatorInv, NEW p \in Probes, V!ProbeWithoutKey(p)
  PROVE  CoordinatorInv'
<1>1. Typed /\ ProbePlaced(p)
  BY DEF CoordinatorInv
<1> DEFINE run == [probe[p] EXCEPT !.pc = "done", !.out = "degraded"]
<1>2. /\ run \in ProbeCalls /\ run.pc = "done" /\ run.retained = probe[p].retained
      /\ run.revived = probe[p].revived /\ run.left = probe[p].left
  BY <1>1 DEF Typed, ProbeCalls
<1>3. probe' = [probe EXCEPT ![p] = run]
  BY <1>1 DEF V!ProbeWithoutKey, Typed
<1> HIDE DEF run
<1>4. /\ probe' \in [Probes -> ProbeCalls] /\ probe'[p] = run
      /\ \A q \in Probes : q # p => probe'[q] = probe[q]
  BY <1>1, <1>2, <1>3 DEF Typed
<1>5. \A q \in Probes : probe'[q].retained = probe[q].retained
  BY <1>2, <1>4
<1>6. Remembers
  BY <1>2, <1>4 DEF Remembers
<1>7. Typed'
  BY <1>1, <1>4 DEF V!ProbeWithoutKey, V!Command, V!Show, Typed
<1>8. InUse'
  BY <1>6, StaysInUse DEF V!ProbeWithoutKey, V!Show
<1>9. Distinct'
  <2>1. Known' \subseteq Known
    BY <1>5 DEF Known, V!ProbeWithoutKey
  <2> QED BY <2>1, <1>1, StaysDistinct DEF V!ProbeWithoutKey, Typed
<1>10. ASSUME NEW q \in Probes
       PROVE  Runs(q)' /\ ProbePlaced(q)'
  <2>1. Runs(q) /\ ProbePlaced(q)
    BY DEF CoordinatorInv
  <2>2. CASE q = p
    BY <2>1, <2>2, <1>2, <1>4 DEF Runs, ProbePlaced, Waits
  <2>3. CASE q # p
    <3>1. ~(probe[q].pc \in Waits /\ V!Current(q))
      BY <2>1 DEF Runs, V!ProbeWithoutKey
    <3>2. probe'[q] = probe[q] /\ generation' = generation
      BY <2>3, <1>4 DEF V!ProbeWithoutKey
    <3>3. V!Revived(probe[q].retained) => V!Revived(probe[q].retained)'
      BY <3>2, <1>6 DEF Remembers, V!Revived
    <3> QED BY <3>1, <3>2, <3>3, <2>1 DEF Runs, ProbePlaced, Matches, V!Current
  <2> QED BY <2>2, <2>3
<1> QED BY <1>7, <1>8, <1>9, <1>10 DEF CoordinatorInv

LEMMA ProbeKeeps ==
  ASSUME CoordinatorInv, V!CoordinatorAssumption, NEW p \in Probes, V!Probe(p)
  PROVE  CoordinatorInv'
<1>1. Typed /\ InUse
  BY DEF CoordinatorInv
<1> DEFINE started == [V!NoProbe EXCEPT !.pc = "modules", !.gen = generation + 2, !.vault = config,
                                      !.key = workspaceKey, !.retained = runtime,
                                      !.retainedStore = acceleratedStore]
<1>2. started \in ProbeCalls
  <2>1. acceleratedStore \in Nat
    BY <1>1 DEF Typed, InUse, Runtimes
  <2>2. V!NoProbe \in ProbeCalls
    BY DEF V!NoProbe, V!NoRuntime, ProbeCalls, Runtimes
  <2>3. generation + 2 \in Nat
    BY <1>1 DEF Typed
  <2> QED BY <2>1, <2>2, <2>3, <1>1 DEF Typed, ProbeCalls, Waits
<1>3. \A q \in Probes : [probe[q] EXCEPT !.aborted = TRUE] \in ProbeCalls /\ probe[q] \in ProbeCalls
  BY <1>1 DEF Typed, ProbeCalls
<1>4. probe' = [q \in Probes |-> IF q = p THEN started
                                 ELSE IF q = controller THEN [probe[q] EXCEPT !.aborted = TRUE]
                                 ELSE probe[q]]
  BY DEF V!Probe
<1>5. /\ started.pc = "modules" /\ started.gen = generation + 2 /\ started.vault = config
      /\ started.key = workspaceKey /\ started.retained = runtime
      /\ started.retainedStore = acceleratedStore /\ ~started.revived /\ started.left = 0
  BY DEF V!NoProbe
<1> HIDE DEF started
<1>6. probe' \in [Probes -> ProbeCalls] /\ probe'[p] = started
  BY <1>2, <1>3, <1>4
<1>7. /\ generation' = generation + 2 /\ controller' = p /\ phase' = "probing"
      /\ UNCHANGED <<config, workspaceKey, store, runtime, acceleratedStore, open, opened>>
      /\ config # 0 /\ workspaceKey # 0 /\ commands' = commands + 1 /\ probe[p].pc = "unused"
  BY DEF V!Probe, V!Command, V!Show
<1>8. ASSUME NEW q \in Probes, q # p
      PROVE  /\ probe'[q].pc = probe[q].pc /\ probe'[q].gen = probe[q].gen
             /\ probe'[q].store = probe[q].store /\ probe'[q].key = probe[q].key
             /\ probe'[q].retained = probe[q].retained
             /\ probe'[q].retainedStore = probe[q].retainedStore
             /\ probe'[q].revived = probe[q].revived /\ probe'[q].left = probe[q].left
  <2>1. probe'[q] \in {[probe[q] EXCEPT !.aborted = TRUE], probe[q]}
    BY <1>4, <1>8
  <2> QED BY <2>1, <1>3 DEF ProbeCalls
<1>9. Remembers
  <2>1. ~probe[p].revived /\ probe[p].left = 0
    BY <1>7 DEF CoordinatorInv, ProbePlaced
  <2> QED BY <2>1, <1>8 DEF Remembers
<1>10. Typed'
  BY <1>1, <1>6, <1>7 DEF Typed
<1>11. InUse'
  BY <1>7, <1>9, StaysInUse
<1>12. Distinct'
  <2>1. \A q \in Probes : probe'[q].retained \in Known
    BY <1>5, <1>6, <1>8 DEF Known
  <2>2. Known' \subseteq Known
    BY <2>1, <1>7 DEF Known
  <2> QED BY <2>2, <1>1, <1>7, StaysDistinct DEF Typed
<1>13. Runs(p)'
  <2>1. runtime # V!NoRuntime => Sound(runtime)' \/ V!Revived(runtime)'
    BY <1>7, <1>11 DEF InUse
  <2> QED BY <2>1, <1>5, <1>6, <1>7 DEF Runs, Sound
<1>14. ProbePlaced(p)'
  BY <1>1, <1>5, <1>6, <1>7 DEF ProbePlaced, InUse, Typed
<1>15. ASSUME NEW q \in Probes, q # p
       PROVE  Runs(q)' /\ ProbePlaced(q)'
  <2>1. ProbePlaced(q) /\ probe[q].gen \in Nat
    BY <1>1 DEF CoordinatorInv, Typed, ProbeCalls
  <2>2. probe'[q].pc \in Waits => probe'[q].gen < generation'
    BY <2>1, <1>1, <1>7, <1>8, <1>15 DEF ProbePlaced, Typed
  <2>3. Runs(q)'
    BY <2>1, <2>2, <1>1, <1>7, <1>8, <1>15 DEF Runs, V!Current, Typed
  <2>4. V!Revived(probe[q].retained) => V!Revived(probe[q].retained)'
    BY <1>8, <1>9, <1>15 DEF Remembers, V!Revived
  <2>5. ProbePlaced(q)'
    BY <2>1, <2>2, <2>4, <1>1, <1>7, <1>8, <1>15 DEF ProbePlaced, Matches, Typed
  <2> QED BY <2>3, <2>5
<1> QED BY <1>10, <1>11, <1>12, <1>13, <1>14, <1>15 DEF CoordinatorInv

LEMMA ExternalAbortKeeps ==
  ASSUME CoordinatorInv, NEW p \in Probes, V!ExternalAbort(p)
  PROVE  CoordinatorInv'
<1>1. Typed /\ ProbePlaced(p)
  BY DEF CoordinatorInv
<1>2. probe[p].pc \in Waits
  BY <1>1 DEF V!ExternalAbort, Typed, ProbeCalls
<1> DEFINE run == [probe[p] EXCEPT !.aborted = TRUE]
<1>3. /\ run \in ProbeCalls /\ run.pc = probe[p].pc /\ run.gen = probe[p].gen
      /\ run.vault = probe[p].vault /\ run.key = probe[p].key /\ run.store = probe[p].store
      /\ run.retained = probe[p].retained /\ run.retainedStore = probe[p].retainedStore
      /\ run.revived = probe[p].revived /\ run.left = probe[p].left
  BY <1>1 DEF Typed, ProbeCalls
<1>4. probe' = [probe EXCEPT ![p] = run]
  BY <1>1 DEF V!ExternalAbort, Typed
<1> HIDE DEF run
<1>5. /\ UNCHANGED <<generation, config, workspaceKey, store, runtime, acceleratedStore, open,
                     phase, evidence, controller, opened>>
      /\ store' \in {0, config} /\ commands' \in Nat
  BY <1>1 DEF V!ExternalAbort, V!Command, Typed
<1>6. run.pc = "cache" => probe[p].retained = V!NoRuntime
  BY <1>1, <1>3 DEF ProbePlaced
<1> QED BY <1>2, <1>3, <1>4, <1>5, <1>6, Advances

LEMMA LoadedKeeps ==
  ASSUME CoordinatorInv, V!CoordinatorAssumption, NEW p \in Probes, V!Loaded(p)
  PROVE  /\ CoordinatorInv'
         /\ UNCHANGED runtime \/ runtime = V!NoRuntime \/ V!Revived(runtime)
         /\ phase' = phase \/ phase' # "ready"
<1>1. Typed /\ Runs(p)
  BY DEF CoordinatorInv
<1>2. /\ probe[p].pc = "modules" /\ probe[p].pc \in Waits
      /\ UNCHANGED <<generation, config, workspaceKey, commands, opened>>
  BY DEF V!Loaded, V!At, Waits
<1>3. CASE V!Live(p)
  <2>1. PICK s \in {IF store # 0 THEN store ELSE probe[p].vault} :
          /\ probe' = [probe EXCEPT ![p].pc = "checks", ![p].store = s]
          /\ store' = s
    BY <1>3 DEF V!Loaded
  <2>2. s = config /\ s \in Vaults \cup {0} /\ V!Current(p)
    BY <2>1, <1>1, <1>2, <1>3 DEF V!Live, Runs, Typed
  <2> DEFINE run == [probe[p] EXCEPT !.pc = "checks", !.store = s]
  <2>3. /\ run \in ProbeCalls /\ run.pc = "checks" /\ run.gen = probe[p].gen
        /\ run.vault = probe[p].vault /\ run.key = probe[p].key /\ run.store = config
        /\ run.retained = probe[p].retained /\ run.retainedStore = probe[p].retainedStore
        /\ run.revived = probe[p].revived /\ run.left = probe[p].left
    <3>1. probe[p] \in ProbeCalls
      BY <1>1 DEF Typed
    <3> QED BY <2>2, <3>1 DEF ProbeCalls, Waits
  <2>4. probe' = [probe EXCEPT ![p] = run]
    BY <2>1, <1>1 DEF Typed
  <2> HIDE DEF run
  <2>5. /\ UNCHANGED <<runtime, acceleratedStore, open, phase, evidence, controller>>
        /\ store' \in {0, config} /\ commands' \in Nat
    BY <1>1, <1>2, <1>3, <2>1, <2>2 DEF V!Loaded, Typed
  <2>6. run.pc \in Waits /\ run.pc # "modules" /\ run.pc # "cache"
    BY <2>3 DEF Waits
  <2> QED BY <2>2, <2>3, <2>4, <2>5, <2>6, <1>2, Advances
<1>4. CASE ~V!Live(p)
  <2>1. V!Catch(p, {}, TRUE) /\ UNCHANGED store
    BY <1>4 DEF V!Loaded
  <2>2. opened' \in Nat /\ opened' >= opened
    BY <1>1, <1>2 DEF Typed
  <2> QED BY <2>1, <2>2, <1>2, Caught
<1> QED BY <1>3, <1>4

\* A probe goes on to open a cache, or to await the removal of its objects.
LEMMA MovesOn ==
  ASSUME CoordinatorInv, NEW p \in Probes, probe[p].pc \in {"checks", "reclaim"},
         NEW place \in {"reclaim", "cache"}, probe' = [probe EXCEPT ![p].pc = place],
         place = "cache" => probe[p].retained = V!NoRuntime,
         UNCHANGED <<generation, config, workspaceKey, store, runtime, acceleratedStore, open,
                     phase, evidence, controller, opened, commands>>
  PROVE  CoordinatorInv'
<1>1. Typed
  BY DEF CoordinatorInv
<1> DEFINE run == [probe[p] EXCEPT !.pc = place]
<1>2. /\ run \in ProbeCalls /\ run.pc = place /\ run.gen = probe[p].gen
      /\ run.vault = probe[p].vault /\ run.key = probe[p].key /\ run.store = probe[p].store
      /\ run.retained = probe[p].retained /\ run.retainedStore = probe[p].retainedStore
      /\ run.revived = probe[p].revived /\ run.left = probe[p].left
  BY <1>1 DEF Typed, ProbeCalls, Waits
<1>3. probe' = [probe EXCEPT ![p] = run]
  BY <1>1 DEF Typed
<1> HIDE DEF run
<1>4. /\ store' \in {0, config} /\ commands' \in Nat
      /\ probe[p].pc \in Waits /\ probe[p].pc # "modules" /\ run.pc \in Waits /\ run.pc # "modules"
  BY <1>1, <1>2 DEF Typed, Waits
<1> QED BY <1>2, <1>3, <1>4, Advances

\* What a step of a probe leaves of the runtime in use and may show.
Claims(p) ==
  /\ runtime # V!NoRuntime => runtime' = runtime \/ V!Revived(runtime) \/ V!Revived(runtime)'
  /\ phase' = "ready" /\ phase # "ready" =>
       \/ phase = "probing" /\ controller = p /\ probe'[p].out = "ready"
       \/ V!LateClaim

\* A re-probe restores the runtime it retained: the running one that in use,
\* a superseded one perhaps another.
LEMMA RestoredKeeps ==
  ASSUME CoordinatorInv, V!CoordinatorAssumption, NEW p \in Probes,
         probe[p].pc \in {"checks", "reclaim"}, V!Gathered(p),
         V!Current(p) \/ probe[p].pc = "reclaim",
         probe[p].retained # V!NoRuntime, probe[p].retainedStore # 0,
         UNCHANGED <<generation, config, workspaceKey, store, commands, opened>>
  PROVE  CoordinatorInv' /\ Claims(p)
<1> DEFINE out == IF config # 0 THEN "ready" ELSE "aborted"
           back == ~V!Current(p) /\ probe[p].retained # runtime
           run == V!Restored(p, out)
<1>1. Typed /\ InUse /\ Distinct /\ Runs(p) /\ ProbePlaced(p) /\ probe[p] \in ProbeCalls
  BY DEF CoordinatorInv, Typed
<1>2. probe[p].pc \in Waits /\ probe[p].retainedStore = probe[p].retained.cache
  BY <1>1 DEF Waits, ProbePlaced
<1>3. /\ runtime' = probe[p].retained /\ acceleratedStore' = probe[p].retainedStore /\ open' = open
      /\ IF config # 0 THEN V!Show("ready", [vault |-> probe[p].store, key |-> probe[p].key])
         ELSE UNCHANGED <<phase, evidence>>
      /\ V!Ended(p, run)
  BY DEF V!Gathered
<1>4. /\ run \in ProbeCalls /\ run.pc = "done" /\ run.out = out /\ run.retained = probe[p].retained
      /\ run.revived = back /\ run.left = IF back THEN acceleratedStore ELSE 0
  <2>1. acceleratedStore \in Nat /\ back \in BOOLEAN
    BY <1>1 DEF Typed, InUse, Runtimes
  <2>2. out \in {"ready", "aborted"}
    OBVIOUS
  <2> HIDE DEF out
  <2> QED BY <2>1, <2>2, <1>1 DEF V!Restored, ProbeCalls
<1> HIDE DEF run
<1>5. probe'[p] = run /\ \A q \in Probes : q # p => probe'[q] = probe[q]
  BY <1>1, <1>3 DEF V!Ended, Typed
<1>6. Remembers
  BY <1>1, <1>2, <1>5 DEF Remembers, ProbePlaced, Waits
<1>7. \A c \in open : Left(c) => Left(c)'
  BY <1>6, Memory
<1>8. ASSUME back
      PROVE  Strayed'
  <2>1. V!Revived(runtime)'
    BY <1>3, <1>4, <1>5, <1>8 DEF V!Revived
  <2>2. probe[p].retained \in Known /\ runtime \in Known
    BY DEF Known
  <2>3. probe[p].retained.cache # runtime.cache
    BY <2>2, <1>1, <1>8 DEF Distinct
  <2>4. acceleratedStore' \in open => \E q \in Probes : probe'[q].left = acceleratedStore'
    BY <2>3, <1>1, <1>2, <1>3, <1>7 DEF InUse, Left
  <2> QED BY <2>1, <2>4, <1>3 DEF Strayed, Left
<1>9. ~back => V!Current(p) \/ UNCHANGED <<runtime, acceleratedStore>>
  BY <1>1, <1>2, <1>3 DEF InUse
<1>10. phase' \in {phase, "ready"}
  BY <1>3 DEF V!Show
<1>11. V!Current(p) \/ /\ UNCHANGED open /\ phase' \in {phase, "ready"}
                       /\ UNCHANGED <<runtime, acceleratedStore>> \/ Strayed'
  BY <1>3, <1>8, <1>9, <1>10
<1>12. /\ controller' \in Probes \cup {0}
       /\ probe' \in [Probes -> ProbeCalls]
       /\ \A q \in Probes : probe'[q].retained = probe[q].retained
       /\ \A q \in Probes : Runs(q)' /\ ProbePlaced(q)'
  BY <1>2, <1>3, <1>4, <1>11, Ends
<1>13. Typed'
  <2>1. probe[p].retained \in Runtimes
    BY <1>1 DEF ProbeCalls
  <2> QED BY <2>1, <1>1, <1>3, <1>10, <1>12 DEF Typed
<1>14. Distinct'
  <2>1. Known' \subseteq Known
    BY <1>3, <1>12 DEF Known
  <2> QED BY <2>1, <1>1, StaysDistinct DEF Typed
<1>15. V!Revived(probe[p].retained) => V!Revived(runtime)'
  BY <1>3, <1>12, <1>6 DEF Remembers, V!Revived
<1>16. Sound(probe[p].retained) => Sound(runtime)'
  BY <1>3 DEF Sound
<1>17. InUse'
  <2>1. \A c \in open : c = acceleratedStore' \/ Left(c)'
    <3>1. CASE back
      <4>1. \E q \in Probes : probe'[q].left = acceleratedStore
        BY <3>1, <1>4, <1>5
      <4> QED BY <4>1, <1>1, <1>7 DEF InUse, Left
    <3>2. CASE UNCHANGED acceleratedStore
      BY <3>2, <1>1, <1>7 DEF InUse
    <3>3. CASE V!Current(p) /\ probe[p].retained # runtime
      BY <3>3, <1>1, <1>2, <1>7 DEF InUse, Runs, Strayed
    <3> QED BY <3>1, <3>2, <3>3, <1>1, <1>2, <1>3 DEF InUse
  <2>2. Sound(runtime)' \/ V!Revived(runtime)'
    <3>1. CASE back
      BY <3>1, <1>8 DEF Strayed
    <3>2. CASE V!Current(p)
      BY <3>2, <1>1, <1>2, <1>15, <1>16 DEF Runs
    <3>3. CASE probe[p].retained = runtime
      BY <3>3, <1>1, <1>15, <1>16 DEF InUse
    <3> QED BY <3>1, <3>2, <3>3
  <2>3. phase' = "ready" => V!Revived(runtime)' \/ evidence' = [vault |-> config, key |-> workspaceKey]
    <3>1. CASE config # 0
      <4>1. evidence' = [vault |-> probe[p].store, key |-> probe[p].key]
        BY <3>1, <1>3 DEF V!Show
      <4>2. CASE V!Current(p)
        BY <4>1, <4>2, <1>1, <1>2 DEF Runs
      <4>3. CASE back
        BY <4>3, <1>8 DEF Strayed
      <4>4. CASE probe[p].retained = runtime
        <5>1. V!Revived(probe[p].retained) \/ Matches(probe[p])
          BY <1>1 DEF ProbePlaced, Waits
        <5>2. Matches(probe[p]) /\ Sound(runtime) => evidence' = [vault |-> config, key |-> workspaceKey]
          BY <4>1, <4>4 DEF Matches, Sound
        <5> QED BY <5>1, <5>2, <4>4, <1>1, <1>15 DEF InUse
      <4> QED BY <4>2, <4>3, <4>4
    <3>2. CASE config = 0
      <4>1. ~V!Current(p) /\ UNCHANGED <<phase, evidence>>
        BY <3>2, <1>1, <1>2, <1>3 DEF Runs
      <4>2. CASE back
        BY <4>2, <1>8 DEF Strayed
      <4>3. CASE probe[p].retained = runtime
        BY <4>1, <4>3, <1>1, <1>15 DEF InUse
      <4> QED BY <4>1, <4>2, <4>3
    <3> QED BY <3>1, <3>2
  <2> QED BY <2>1, <2>2, <2>3, <1>2, <1>3 DEF InUse
<1>18. Claims(p)
  <2>1. runtime' = runtime \/ V!Revived(runtime) \/ V!Revived(runtime)'
    <3>1. CASE back
      BY <3>1, <1>8 DEF Strayed
    <3>2. CASE V!Current(p)
      BY <3>2, <1>1, <1>2, <1>3 DEF Runs, Strayed
    <3> QED BY <3>1, <3>2, <1>3
  <2>2. ASSUME phase' = "ready", phase # "ready"
        PROVE  \/ phase = "probing" /\ controller = p /\ probe'[p].out = "ready"
               \/ V!LateClaim
    <3>1. config # 0 /\ probe'[p].out = "ready" /\ probe'[p].pc = "done"
      BY <2>2, <1>3, <1>4, <1>5
    <3>2. CASE V!Current(p)
      BY <3>1, <3>2, <2>2, <1>1, <1>2 DEF Runs
    <3>3. CASE ~V!Current(p)
      BY <3>1, <3>3 DEF V!LateClaim
    <3> QED BY <3>2, <3>3
  <2> QED BY <2>1, <2>2 DEF Claims
<1> QED BY <1>12, <1>13, <1>14, <1>17, <1>18 DEF CoordinatorInv

LEMMA GatheredKeeps ==
  ASSUME CoordinatorInv, V!CoordinatorAssumption, NEW p \in Probes,
         probe[p].pc \in {"checks", "reclaim"}, V!Gathered(p),
         V!Current(p) \/ probe[p].pc = "reclaim",
         UNCHANGED <<generation, config, workspaceKey, store, commands, opened>>
  PROVE  CoordinatorInv' /\ Claims(p)
<1>1. CASE probe[p].retained # V!NoRuntime /\ probe[p].retainedStore # 0
  BY <1>1, RestoredKeeps
<1>2. CASE ~(probe[p].retained # V!NoRuntime /\ probe[p].retainedStore # 0)
  <2>1. /\ probe' = [probe EXCEPT ![p].pc = "cache"]
        /\ UNCHANGED <<runtime, acceleratedStore, open, phase, evidence, controller>>
    BY <1>2 DEF V!Gathered
  <2>2. probe[p].retained = V!NoRuntime
    <3>1. probe[p].retainedStore = probe[p].retained.cache
      BY DEF CoordinatorInv, ProbePlaced, Waits
    <3>2. probe[p].retained \in Known /\ V!NoRuntime \in Known /\ V!NoRuntime.cache = 0
      BY DEF Known, V!NoRuntime
    <3> QED BY <3>1, <3>2, <1>2 DEF CoordinatorInv, Distinct
  <2> QED BY <2>1, <2>2, MovesOn DEF Claims
<1> QED BY <1>1, <1>2

LEMMA CheckedKeeps ==
  ASSUME CoordinatorInv, V!CoordinatorAssumption, NEW p \in Probes, V!Checked(p)
  PROVE  CoordinatorInv' /\ Claims(p)
<1>1. Typed
  BY DEF CoordinatorInv
<1>2. /\ probe[p].pc = "checks" /\ probe[p].pc \in Waits
      /\ UNCHANGED <<generation, config, workspaceKey, commands, store, opened>>
  BY DEF V!Checked, V!At, Waits
<1>3. CASE V!Live(p) /\ V!Reclaim(p)
  <2>1. CASE Reclaimable
    <3>1. /\ probe' = [probe EXCEPT ![p].pc = "reclaim"]
          /\ UNCHANGED <<runtime, acceleratedStore, open, phase, evidence, controller>>
      BY <1>3, <2>1 DEF V!Reclaim
    <3> QED BY <3>1, <1>2, MovesOn DEF Claims
  <2>2. CASE ~Reclaimable
    <3>1. V!Gathered(p) /\ V!Current(p)
      BY <1>3, <2>2 DEF V!Reclaim, V!Live
    <3> QED BY <3>1, <1>2, GatheredKeeps
  <2> QED BY <2>1, <2>2
<1>4. CASE \E raised \in BOOLEAN : V!Catch(p, {}, raised)
  <2>1. PICK raised \in BOOLEAN : V!Catch(p, {}, raised)
    BY <1>4
  <2>2. opened' \in Nat /\ opened' >= opened
    BY <1>1, <1>2 DEF Typed
  <2> QED BY <2>1, <2>2, <1>2, Caught DEF Claims
<1> QED BY <1>3, <1>4 DEF V!Checked

LEMMA ReclaimedKeeps ==
  ASSUME CoordinatorInv, V!CoordinatorAssumption, NEW p \in Probes, V!Reclaimed(p)
  PROVE  CoordinatorInv' /\ Claims(p)
<1>1. /\ probe[p].pc = "reclaim" /\ V!Gathered(p)
      /\ UNCHANGED <<generation, config, workspaceKey, commands, store, opened>>
  BY DEF V!Reclaimed, V!At
<1> QED BY <1>1, GatheredKeeps

LEMMA CacheOpenedKeeps ==
  ASSUME CoordinatorInv, V!CoordinatorAssumption, NEW p \in Probes, V!CacheOpened(p)
  PROVE  CoordinatorInv' /\ Claims(p)
<1>1. Typed /\ InUse /\ Distinct /\ Runs(p) /\ ProbePlaced(p)
  BY DEF CoordinatorInv
<1>2. /\ probe[p].pc = "cache" /\ probe[p].pc \in Waits
      /\ UNCHANGED <<generation, config, workspaceKey, commands, store>>
      /\ opened' = opened + 1 /\ opened' \in Nat /\ opened' >= opened
      /\ opened + 1 \notin open /\ opened + 1 # 0
  BY <1>1 DEF V!CacheOpened, V!At, Waits, Typed
<1>3. CASE V!Live(p)
  <2> DEFINE fresh == [vault |-> config, key |-> workspaceKey, cache |-> opened + 1]
  <2>1. /\ controller = p /\ phase \in {"probing", "ready"} /\ config # 0 /\ V!Current(p)
        /\ probe[p].key = workspaceKey /\ probe[p].store = config
        /\ probe[p].retained = V!NoRuntime
        /\ runtime = V!NoRuntime \/ Strayed
    BY <1>1, <1>2, <1>3 DEF Runs, ProbePlaced, V!Live
  <2>2. /\ acceleratedStore' = opened + 1 /\ open' = open \cup {opened + 1}
        /\ runtime' = fresh
        /\ V!Show("ready", [vault |-> config, key |-> workspaceKey])
        /\ V!Settle(p, "ready")
    BY <2>1, <1>3 DEF V!CacheOpened
  <2>3. /\ controller' \in Probes \cup {0} /\ probe'[p].out = "ready"
        /\ probe' \in [Probes -> ProbeCalls] /\ Remembers
        /\ \A q \in Probes : probe'[q].retained = probe[q].retained
        /\ \A q \in Probes : Runs(q)' /\ ProbePlaced(q)'
    BY <2>1, <2>2, <1>2, Settles
  <2>4. fresh \in Runtimes /\ fresh # V!NoRuntime /\ fresh.cache = opened + 1
        /\ fresh.vault = config /\ fresh.key = workspaceKey
    BY <1>1, <1>2 DEF Typed, Runtimes, V!NoRuntime
  <2> HIDE DEF fresh
  <2>5. open' \subseteq 1..opened'
    BY <2>2, <1>1, <1>2 DEF Typed
  <2>6. Typed'
    BY <2>2, <2>3, <2>4, <2>5, <1>1, <1>2 DEF Typed, V!Show
  <2>7. \A c \in open : Left(c)'
    <3>1. \A c \in open : Left(c)
      <4>1. CASE runtime = V!NoRuntime
        BY <4>1, <1>1 DEF InUse, Typed, V!NoRuntime
      <4>2. CASE Strayed
        BY <4>2, <1>1 DEF InUse, Strayed
      <4> QED BY <4>1, <4>2, <2>1
    <3> QED BY <3>1, <2>3, Memory
  <2>8. InUse'
    BY <2>2, <2>4, <2>7, <1>2 DEF InUse, Sound, V!Show
  <2>9. Distinct'
    <3>1. \A r \in Known' : r \in Known \/ r = fresh
      BY <2>2, <2>3 DEF Known
    <3>2. \A r \in Known : r.cache \in Nat
      BY <1>1 DEF Typed, ProbeCalls, Runtimes, Known, V!NoRuntime
    <3>3. \A r \in Known : r.cache <= opened /\ r.cache # fresh.cache
      BY <3>2, <2>4, <1>1 DEF Distinct, Typed
    <3> QED BY <3>1, <3>2, <3>3, <2>4, <1>1, <1>2 DEF Distinct, Typed
  <2>10. Claims(p)
    BY <2>1, <2>3 DEF Claims, Strayed
  <2> QED BY <2>3, <2>6, <2>8, <2>9, <2>10 DEF CoordinatorInv
<1>4. CASE ~V!Live(p)
  <2>1. V!Catch(p, {opened + 1}, TRUE)
    BY <1>4 DEF V!CacheOpened
  <2>2. {opened + 1} \cap open = {}
    BY <1>2
  <2> QED BY <2>1, <2>2, <1>2, Caught DEF Claims
<1> QED BY <1>3, <1>4

LEMMA CacheRefusedKeeps ==
  ASSUME CoordinatorInv, V!CoordinatorAssumption, NEW p \in Probes, V!CacheRefused(p)
  PROVE  CoordinatorInv' /\ Claims(p)
<1>1. /\ probe[p].pc \in Waits /\ V!Catch(p, {}, FALSE)
      /\ UNCHANGED <<generation, config, workspaceKey, commands, store, opened>>
  BY DEF V!CacheRefused, V!At, Waits
<1>2. opened' \in Nat /\ opened' >= opened
  BY <1>1 DEF CoordinatorInv, Typed
<1> QED BY <1>1, <1>2, Caught DEF Claims

LEMMA ProbeStepKeeps ==
  ASSUME CoordinatorInv, V!CoordinatorAssumption, NEW p \in Probes, V!ProbeStep(p)
  PROVE  CoordinatorInv' /\ Claims(p)
<1>1. CASE V!Loaded(p)
  BY <1>1, LoadedKeeps DEF Claims
<1> QED BY <1>1, CheckedKeeps, ReclaimedKeeps, CacheOpenedKeeps, CacheRefusedKeeps DEF V!ProbeStep

-------------------------------------------------------------------------------
(* The theorems. *)

LEMMA CoordinatorPreserved ==
  ASSUME CoordinatorInv, V!CoordinatorAssumption, [V!Next]_V!vars
  PROVE  CoordinatorInv'
<1>1. ASSUME NEW v \in Vaults, NEW k \in Keys \cup {0}, NEW direct \in BOOLEAN, V!Configure(v, k, direct)
      PROVE  CoordinatorInv'
  BY <1>1, ConfigureKeeps
<1>2. ASSUME NEW k \in Keys \cup {0}, V!SetKey(k)
      PROVE  CoordinatorInv'
  BY <1>2, SetKeyKeeps
<1>3. CASE V!cancelProbe
  BY <1>3, CancelKeeps
<1>4. CASE V!disconnect
  BY <1>4, DisconnectKeeps
<1>5. ASSUME NEW p \in Probes, V!ProbeWithoutKey(p) \/ V!Probe(p) \/ V!ExternalAbort(p) \/ V!ProbeStep(p)
      PROVE  CoordinatorInv'
  BY <1>5, ProbeWithoutKeyKeeps, ProbeKeeps, ExternalAbortKeeps, ProbeStepKeeps
<1>6. CASE UNCHANGED V!vars
  BY <1>6 DEF V!vars, CoordinatorInv, Typed, Distinct, Known, InUse, Sound, Left, Strayed, Matches,
              Runs, ProbePlaced, V!Current, V!Revived
<1> QED BY <1>1, <1>2, <1>3, <1>4, <1>5, <1>6 DEF V!Next

LEMMA CoordinatorInductive ==
  ASSUME V!CoordinatorAssumption
  PROVE  V!Spec => []CoordinatorInv
<1> QED BY CoordinatorInitially, CoordinatorPreserved, PTL DEF V!Spec

(***************************************************************************)
(* The shape of the coordinator's state; the cache in use is the runtime's *)
(* own, also after a superseded re-probe put its runtime back.             *)
(***************************************************************************)
THEOREM CoordinatorTyped ==
  ASSUME V!CoordinatorAssumption
  PROVE  V!Spec => []V!TypeOK
<1>1. ASSUME CoordinatorInv
      PROVE  V!TypeOK
  <2>1. Typed /\ InUse /\ Distinct
    BY <1>1 DEF CoordinatorInv
  <2>2. runtime.cache <= opened
    BY <2>1 DEF Distinct, Known
  <2>3. runtime \in [vault : Vaults \cup {0}, key : Keys \cup {0}, cache : 0..opened]
    BY <2>1, <2>2 DEF Typed, Runtimes
  <2>4. store \in Vaults \cup {0}
    BY <2>1 DEF Typed
  <2> QED BY <2>1, <2>3, <2>4 DEF V!TypeOK, Typed, InUse
<1> QED BY <1>1, CoordinatorInductive, PTL

(***************************************************************************)
(* Whatever commands and re-probes cross the probes, the runtime           *)
(* readyRuntime hands out was composed over the configured vault and the   *)
(* attached key, its cache is open, and the evidence shown was gathered on *)
(* them; or it is one that a superseded re-probe put back.                 *)
(***************************************************************************)
THEOREM ReadyWasProbed ==
  ASSUME V!CoordinatorAssumption
  PROVE  V!Spec => []V!ReadyIsProbed
<1>1. CoordinatorInv => V!ReadyIsProbed
  BY DEF CoordinatorInv, InUse, Sound, V!ReadyIsProbed
<1> QED BY <1>1, CoordinatorInductive, PTL

(***************************************************************************)
(* No cache but that of the runtime in use stays open: a probe that was    *)
(* superseded while its cache was opening closes it.  Only the cache in    *)
(* use when a superseded re-probe put its runtime back is left open.       *)
(***************************************************************************)
THEOREM NoCacheIsLeaked ==
  ASSUME V!CoordinatorAssumption
  PROVE  V!Spec => []V!CachesAreClosed
<1>1. CoordinatorInv => V!CachesAreClosed
  BY DEF CoordinatorInv, InUse, Left, V!CachesAreClosed
<1> QED BY <1>1, CoordinatorInductive, PTL

(***************************************************************************)
(* Only the running probe claims readiness; one that was cancelled,        *)
(* superseded or crossed by a configuration or key change does so only as  *)
(* a re-probe that was already removing its objects.                       *)
(***************************************************************************)
THEOREM OnlyTheRunningProbeIsReady ==
  ASSUME V!CoordinatorAssumption
  PROVE  V!Spec => [][V!ReadinessIsTheRunningProbes]_V!vars
<1>1. ASSUME CoordinatorInv, V!Next
      PROVE  V!ReadinessIsTheRunningProbes
  <2>1. CASE \E p \in Probes : V!ProbeStep(p)
    <3>1. PICK p \in Probes : V!ProbeStep(p)
      BY <2>1
    <3>2. Claims(p)
      BY <3>1, <1>1, ProbeStepKeeps
    <3> QED BY <3>1, <3>2 DEF Claims, V!ReadinessIsTheRunningProbes, V!CoordinatorAssumption
  <2>2. CASE phase' # "ready" \/ phase' = phase
    BY <2>2 DEF V!ReadinessIsTheRunningProbes
  <2> QED BY <2>1, <2>2, <1>1
       DEF V!Next, V!Configure, V!SetKey, V!cancelProbe, V!disconnect, V!ProbeWithoutKey, V!Probe,
           V!ExternalAbort, V!Show
<1> QED BY <1>1, CoordinatorInductive, PTL DEF V!Spec

(***************************************************************************)
(* A runtime that the application may have adopted is replaced only by a   *)
(* configuration or key change or a disconnect, however a probe ends, but  *)
(* for a superseded re-probe that puts back its own and what then follows. *)
(***************************************************************************)
THEOREM ProbesKeepTheRuntime ==
  ASSUME V!CoordinatorAssumption
  PROVE  V!Spec => [][V!RuntimeIsKept]_V!vars
<1>1. ASSUME CoordinatorInv, V!Next
      PROVE  V!RuntimeIsKept
  <2>1. CASE \E p \in Probes : V!ProbeStep(p)
    <3>1. PICK p \in Probes : V!ProbeStep(p)
      BY <2>1
    <3>2. Claims(p)
      BY <3>1, <1>1, ProbeStepKeeps
    <3> QED BY <3>2 DEF Claims, V!RuntimeIsKept
  <2>2. commands \in Nat
    BY <1>1 DEF CoordinatorInv, Typed
  <2>3. CASE UNCHANGED runtime
    BY <2>3 DEF V!RuntimeIsKept
  <2>4. CASE commands' = commands + 1 /\ phase' \in {"configured", "disconnected"}
    BY <2>2, <2>4 DEF V!RuntimeIsKept
  <2> QED BY <2>1, <2>3, <2>4, <1>1
       DEF V!Next, V!Configure, V!SetKey, V!cancelProbe, V!disconnect, V!ProbeWithoutKey, V!Probe,
           V!ExternalAbort, V!Show, V!Command
<1> QED BY <1>1, CoordinatorInductive, PTL DEF V!Spec
-------------------------------------------------------------------------------
(* The catalogue. *)

ProfileRevisions == [rev : Nat, theme : Themes, digest : Nat, modes : [Skills -> {"none", "inherit", "on"}]]

\* A profile that is not there names no skill, so that removing a skill does not
\* bring it about.
Clean(c) == \A p \in Profiles, s \in Skills : c.profiles[p].rev = 0 => c.profiles[p].modes[s] = "none"

Good(c) == c \in P!Catalogs /\ Clean(c) /\ P!Valid(c)

\* No profile is lost, and none is revised twice in one commit.
Follows(c, d) ==
  \A p \in Profiles : c.profiles[p].rev # 0 =>
    d.profiles[p].rev \in {c.profiles[p].rev, c.profiles[p].rev + 1}

-------------------------------------------------------------------------------
(* Catalogues. *)

LEMMA CatalogFields ==
  ASSUME NEW c \in P!Catalogs
  PROVE  /\ c.themes \in [Themes -> Nat] /\ c.skills \in [Skills -> Nat]
         /\ c.profiles \in [Profiles -> ProfileRevisions]
         /\ c.archived \subseteq Profiles /\ c.globals \subseteq Skills
         /\ \A p \in Profiles : c.profiles[p] \in ProfileRevisions
<1> QED BY DEF P!Catalogs, ProfileRevisions

LEMMA IsCatalog ==
  ASSUME NEW t \in [Themes -> Nat], NEW s \in [Skills -> Nat], NEW f \in [Profiles -> ProfileRevisions],
         NEW a \in SUBSET Profiles, NEW g \in SUBSET Skills
  PROVE  [themes |-> t, skills |-> s, profiles |-> f, archived |-> a, globals |-> g] \in P!Catalogs
<1> QED BY DEF P!Catalogs, ProfileRevisions

LEMMA NoCatalogTyped ==
  ASSUME P!CatalogAssumption
  PROVE  P!NoProfile \in ProfileRevisions /\ P!NoCatalog \in P!Catalogs
         /\ Clean(P!NoCatalog) /\ P!Held(P!NoCatalog) = {}
<1>1. P!NoProfile \in ProfileRevisions
  BY DEF P!CatalogAssumption, P!NoProfile, ProfileRevisions
<1>2. P!NoCatalog \in P!Catalogs
  BY <1>1, IsCatalog DEF P!NoCatalog
<1> QED BY <1>1, <1>2 DEF Clean, P!Held, P!NoCatalog, P!NoProfile

LEMMA BuiltInIsGood ==
  ASSUME P!CatalogAssumption, NEW r \in Releases
  PROVE  Good(P!BuiltIn(r)) /\ Follows(P!NoCatalog, P!BuiltIn(r))
<1> DEFINE q == [rev |-> 1, theme |-> Theme, digest |-> r.themes[Theme],
                 modes |-> [s \in Skills |-> IF r.skills[s] # 0 THEN "inherit" ELSE "none"]]
           f == [P!NoCatalog.profiles EXCEPT ![First] = q]
           b == P!BuiltIn(r)
<1>1. /\ First \in Profiles /\ Theme \in Themes /\ r.themes[Theme] # 0
      /\ r.themes \in [Themes -> Nat] /\ r.skills \in [Skills -> Nat]
  BY DEF P!CatalogAssumption
<1>2. q \in ProfileRevisions
  BY <1>1 DEF ProfileRevisions
<1>3. f \in [Profiles -> ProfileRevisions] /\ f[First] = q /\ \A p \in Profiles : p # First => f[p] = P!NoProfile
  <2> HIDE DEF q
  <2> QED BY <1>1, <1>2, NoCatalogTyped DEF P!NoCatalog
<1>4. b = [themes |-> r.themes, skills |-> r.skills, profiles |-> f, archived |-> {},
           globals |-> {s \in Skills : r.skills[s] # 0}]
  BY DEF P!BuiltIn
<1>5. b \in P!Catalogs
  <2> HIDE DEF f, b
  <2> QED BY <1>1, <1>3, <1>4, IsCatalog
<1>6. /\ b.themes = r.themes /\ b.skills = r.skills /\ b.profiles = f /\ b.archived = {}
      /\ b.globals = {s \in Skills : r.skills[s] # 0}
  <2> HIDE DEF f, b
  <2> QED BY <1>4
<1>7. Clean(b)
  <2> HIDE DEF f, b
  <2> QED BY <1>3, <1>6 DEF Clean, P!NoProfile
<1>8. P!Held(b) = {First} /\ P!managed(b) = {First}
  <2> HIDE DEF f, b
  <2> QED BY <1>1, <1>3, <1>6 DEF P!Held, P!managed, P!NoProfile
<1>9. P!Valid(b)
  <2> HIDE DEF f, b
  <2> QED BY <1>1, <1>3, <1>6, <1>8 DEF P!Valid
<1>10. Follows(P!NoCatalog, b)
  BY DEF Follows, P!NoCatalog, P!NoProfile
<1> QED BY <1>5, <1>7, <1>9, <1>10 DEF Good
-------------------------------------------------------------------------------
(* What each edit makes of a good catalogue. *)

LEMMA WithProfile ==
  ASSUME NEW c \in P!Catalogs, NEW p \in Profiles, NEW q \in ProfileRevisions
  PROVE  LET d == [c EXCEPT !.profiles[p] = q]
         IN /\ d \in P!Catalogs /\ d.themes = c.themes /\ d.skills = c.skills
            /\ d.archived = c.archived /\ d.globals = c.globals /\ d.profiles[p] = q
            /\ \A o \in Profiles : o # p => d.profiles[o] = c.profiles[o]
<1> DEFINE d == [c EXCEPT !.profiles[p] = q]
           f == [c.profiles EXCEPT ![p] = q]
<1>1. /\ c.themes \in [Themes -> Nat] /\ c.skills \in [Skills -> Nat]
      /\ c.profiles \in [Profiles -> ProfileRevisions]
      /\ c.archived \in SUBSET Profiles /\ c.globals \in SUBSET Skills
  BY CatalogFields
<1>2. f \in [Profiles -> ProfileRevisions] /\ f[p] = q /\ \A o \in Profiles : o # p => f[o] = c.profiles[o]
  BY <1>1
<1>3. d = [c EXCEPT !.profiles = f]
  BY DEF P!Catalogs
<1> HIDE DEF d, f
<1>4. d \in P!Catalogs
  BY <1>2, <1>3 DEF P!Catalogs, ProfileRevisions
<1>5. d.themes = c.themes /\ d.skills = c.skills /\ d.profiles = f
      /\ d.archived = c.archived /\ d.globals = c.globals
  BY <1>3 DEF P!Catalogs
<1>6. /\ d \in P!Catalogs /\ d.themes = c.themes /\ d.skills = c.skills
      /\ d.archived = c.archived /\ d.globals = c.globals /\ d.profiles[p] = q
      /\ \A o \in Profiles : o # p => d.profiles[o] = c.profiles[o]
  BY <1>2, <1>4, <1>5
<1> QED BY <1>6 DEF d

\* A held profile is revised with pins that the catalogue has.
LEMMA RevisionIsGood ==
  ASSUME NEW c, Good(c), NEW p \in P!managed(c), NEW q \in ProfileRevisions,
         q.digest # 0, q.digest = c.themes[q.theme],
         \A s \in Skills : q.modes[s] # "none" => c.skills[s] # 0
  PROVE  Good(P!Revised(c, p, q)) /\ Follows(c, P!Revised(c, p, q))
<1> DEFINE n == [q EXCEPT !.rev = c.profiles[p].rev + 1]
           d == [c EXCEPT !.profiles[p] = n]
<1>1. /\ c \in P!Catalogs /\ Clean(c) /\ P!Valid(c) /\ p \in Profiles
      /\ c.profiles[p] \in ProfileRevisions /\ c.profiles[p].rev # 0 /\ p \in P!Held(c)
  BY CatalogFields DEF Good, P!managed, P!Held
<1>2. /\ n \in ProfileRevisions /\ n.rev = c.profiles[p].rev + 1 /\ n.theme = q.theme
      /\ n.digest = q.digest /\ n.modes = q.modes
  BY <1>1 DEF ProfileRevisions
<1>3. P!Revised(c, p, q) = d
  BY DEF P!Revised
<1> HIDE DEF n
<1>4. /\ d \in P!Catalogs /\ d.themes = c.themes /\ d.skills = c.skills
      /\ d.archived = c.archived /\ d.globals = c.globals /\ d.profiles[p] = n
      /\ \A o \in Profiles : o # p => d.profiles[o] = c.profiles[o]
  BY <1>1, <1>2, WithProfile
<1> HIDE DEF d
<1>5. n.rev \in Nat \ {0}
  BY <1>1, <1>2 DEF ProfileRevisions
<1>6. Clean(d)
  BY <1>1, <1>2, <1>4, <1>5 DEF Clean
<1>7. P!Held(d) = P!Held(c) /\ P!managed(d) = P!managed(c)
  BY <1>1, <1>2, <1>4, <1>5 DEF P!Held, P!managed
<1>8. P!Valid(d)
  BY <1>1, <1>2, <1>4, <1>7 DEF P!Valid, P!Held
<1>9. Follows(c, d)
  BY <1>1, <1>2, <1>4 DEF Follows
<1> QED BY <1>3, <1>4, <1>6, <1>8, <1>9 DEF Good

LEMMA SaveIsGood ==
  ASSUME NEW c, Good(c), NEW p \in P!managed(c), NEW t \in Themes, c.themes[t] # 0
  PROVE  Good(P!SaveProfile(c, p, t)) /\ Follows(c, P!SaveProfile(c, p, t))
<1> DEFINE q == [c.profiles[p] EXCEPT !.theme = t, !.digest = c.themes[t]]
<1>1. /\ c \in P!Catalogs /\ P!Valid(c) /\ p \in Profiles /\ p \in P!Held(c)
      /\ c.profiles[p] \in ProfileRevisions /\ c.themes[t] \in Nat
  BY CatalogFields DEF Good, P!managed, P!Held
<1>2. /\ q \in ProfileRevisions /\ q.theme = t /\ q.digest = c.themes[t]
      /\ q.modes = c.profiles[p].modes
  BY <1>1 DEF ProfileRevisions
<1>3. \A s \in Skills : q.modes[s] # "none" => c.skills[s] # 0
  BY <1>1, <1>2 DEF P!Valid
<1>4. P!SaveProfile(c, p, t) = P!Revised(c, p, q)
  BY DEF P!SaveProfile
<1> HIDE DEF q
<1> QED BY <1>2, <1>3, <1>4, RevisionIsGood

LEMMA ModeIsGood ==
  ASSUME NEW c, Good(c), NEW p \in P!managed(c), NEW s \in Skills, c.skills[s] # 0,
         NEW m \in {"inherit", "on"}
  PROVE  Good(P!SetMode(c, p, s, m)) /\ Follows(c, P!SetMode(c, p, s, m))
<1> DEFINE v == IF m = "inherit" THEN "none" ELSE m
           q == [c.profiles[p] EXCEPT !.modes[s] = v]
<1>1. /\ c \in P!Catalogs /\ P!Valid(c) /\ p \in Profiles /\ p \in P!Held(c)
      /\ c.profiles[p] \in ProfileRevisions
  BY CatalogFields DEF Good, P!managed, P!Held
<1>2. v \in {"none", "inherit", "on"}
  OBVIOUS
<1> HIDE DEF v
<1>3. /\ q \in ProfileRevisions /\ q.theme = c.profiles[p].theme /\ q.digest = c.profiles[p].digest
      /\ q.modes = [c.profiles[p].modes EXCEPT ![s] = v]
  BY <1>1, <1>2 DEF ProfileRevisions
<1>4. P!SetMode(c, p, s, m) = P!Revised(c, p, q)
  BY DEF P!SetMode, v
<1> HIDE DEF q
<1>5. \A x \in Skills : q.modes[x] # "none" => c.skills[x] # 0
  BY <1>1, <1>3 DEF P!Valid, ProfileRevisions
<1>6. q.digest # 0 /\ q.digest = c.themes[q.theme]
  BY <1>1, <1>3 DEF P!Valid
<1>7. q \in ProfileRevisions
  BY <1>3
<1> QED BY <1>4, <1>5, <1>6, <1>7, RevisionIsGood

LEMMA ForkIsGood ==
  ASSUME NEW c, Good(c), NEW p \in P!managed(c), NEW q \in Profiles \ P!Held(c)
  PROVE  Good(P!Fork(c, p, q)) /\ Follows(c, P!Fork(c, p, q))
<1> DEFINE n == [c.profiles[p] EXCEPT !.rev = 1]
           d == [c EXCEPT !.profiles[q] = n]
<1>1. /\ c \in P!Catalogs /\ Clean(c) /\ P!Valid(c) /\ p \in Profiles /\ p \in P!Held(c)
      /\ c.profiles[p] \in ProfileRevisions /\ c.profiles[q].rev = 0
  BY CatalogFields DEF Good, P!managed, P!Held
<1>2. /\ n \in ProfileRevisions /\ n.rev = 1 /\ n.theme = c.profiles[p].theme
      /\ n.digest = c.profiles[p].digest /\ n.modes = c.profiles[p].modes
  BY <1>1 DEF ProfileRevisions
<1>3. P!Fork(c, p, q) = d
  BY DEF P!Fork
<1> HIDE DEF n
<1>4. /\ d \in P!Catalogs /\ d.themes = c.themes /\ d.skills = c.skills
      /\ d.archived = c.archived /\ d.globals = c.globals /\ d.profiles[q] = n
      /\ \A o \in Profiles : o # q => d.profiles[o] = c.profiles[o]
  BY <1>1, <1>2, WithProfile
<1> HIDE DEF d
<1>5. Clean(d)
  BY <1>1, <1>2, <1>4 DEF Clean
<1>6. P!Held(d) = P!Held(c) \cup {q} /\ P!managed(c) \subseteq P!managed(d)
  BY <1>1, <1>2, <1>4 DEF P!Held, P!managed
<1>7. P!Valid(d)
  BY <1>1, <1>2, <1>4, <1>6 DEF P!Valid, P!Held
<1>8. Follows(c, d)
  BY <1>1, <1>4 DEF Follows
<1> QED BY <1>3, <1>4, <1>5, <1>7, <1>8 DEF Good
LEMMA GlobalIsGood ==
  ASSUME NEW c, Good(c), NEW s \in Skills, c.skills[s] # 0
  PROVE  Good(P!SetGlobal(c, s)) /\ Follows(c, P!SetGlobal(c, s))
<1> DEFINE d == P!SetGlobal(c, s)
<1>1. c \in P!Catalogs /\ Clean(c) /\ P!Valid(c) /\ c.globals \cup {s} \in SUBSET Skills
  BY CatalogFields DEF Good
<1>2. /\ d \in P!Catalogs /\ d.themes = c.themes /\ d.skills = c.skills
      /\ d.archived = c.archived /\ d.globals = c.globals \cup {s} /\ d.profiles = c.profiles
  BY <1>1 DEF P!SetGlobal, P!Catalogs
<1> HIDE DEF d
<1>3. P!Held(d) = P!Held(c) /\ P!managed(d) = P!managed(c)
  BY <1>2 DEF P!Held, P!managed
<1>4. P!Valid(d)
  BY <1>1, <1>2, <1>3 DEF P!Valid
<1>5. Clean(d) /\ Follows(c, d)
  BY <1>1, <1>2 DEF Clean, Follows
<1> QED BY <1>2, <1>4, <1>5 DEF Good, d

LEMMA ArchiveIsGood ==
  ASSUME NEW c, Good(c), NEW p \in P!managed(c), P!managed(c) # {p}
  PROVE  Good(P!Archive(c, p)) /\ Follows(c, P!Archive(c, p))
<1> DEFINE d == P!Archive(c, p)
<1>1. c \in P!Catalogs /\ Clean(c) /\ P!Valid(c) /\ p \in P!Held(c) /\ c.archived \cup {p} \in SUBSET Profiles
  BY CatalogFields DEF Good, P!managed, P!Held
<1>2. /\ d \in P!Catalogs /\ d.themes = c.themes /\ d.skills = c.skills
      /\ d.archived = c.archived \cup {p} /\ d.globals = c.globals /\ d.profiles = c.profiles
  BY <1>1 DEF P!Archive, P!Catalogs
<1> HIDE DEF d
<1>3. P!Held(d) = P!Held(c) /\ P!managed(d) = P!managed(c) \ {p}
  BY <1>2 DEF P!Held, P!managed
<1>4. P!Valid(d)
  BY <1>1, <1>2, <1>3 DEF P!Valid
<1>5. Clean(d) /\ Follows(c, d)
  BY <1>1, <1>2 DEF Clean, Follows
<1> QED BY <1>2, <1>4, <1>5 DEF Good, d

LEMMA UpsertIsGood ==
  ASSUME NEW c, Good(c), NEW s \in Skills, NEW v \in Nat \ {0}
  PROVE  Good(P!Upsert(c, s, v)) /\ Follows(c, P!Upsert(c, s, v))
<1> DEFINE d == P!Upsert(c, s, v)
           k == [c.skills EXCEPT ![s] = v]
<1>1. c \in P!Catalogs /\ Clean(c) /\ P!Valid(c) /\ c.skills \in [Skills -> Nat]
  BY CatalogFields DEF Good
<1>2. /\ k \in [Skills -> Nat]
      /\ \A x \in Skills : c.skills[x] # 0 => k[x] # 0
  BY <1>1
<1>3. d = [c EXCEPT !.skills = k]
  BY <1>1 DEF P!Upsert, P!Catalogs
<1> HIDE DEF d, k
<1>4. /\ d \in P!Catalogs /\ d.themes = c.themes /\ d.skills = k
      /\ d.archived = c.archived /\ d.globals = c.globals /\ d.profiles = c.profiles
  BY <1>1, <1>2, <1>3 DEF P!Catalogs
<1>5. P!Held(d) = P!Held(c) /\ P!managed(d) = P!managed(c)
  BY <1>4 DEF P!Held, P!managed
<1>6. P!Valid(d)
  BY <1>1, <1>2, <1>4, <1>5 DEF P!Valid
<1>7. Clean(d) /\ Follows(c, d)
  BY <1>1, <1>4 DEF Clean, Follows
<1> QED BY <1>4, <1>6, <1>7 DEF Good, d

LEMMA UnnamedIs ==
  ASSUME NEW r \in ProfileRevisions, NEW s \in Skills
  PROVE  /\ P!Unnamed(r, s) \in ProfileRevisions /\ P!Unnamed(r, s).rev = r.rev + 1
         /\ P!Unnamed(r, s).theme = r.theme /\ P!Unnamed(r, s).digest = r.digest
         /\ P!Unnamed(r, s).modes[s] = "none"
         /\ \A x \in Skills : P!Unnamed(r, s).modes[x] # "none" => r.modes[x] # "none"
<1> DEFINE m == [r.modes EXCEPT ![s] = "none"]
<1>1. /\ m \in [Skills -> {"none", "inherit", "on"}] /\ m[s] = "none"
      /\ \A x \in Skills : m[x] # "none" => r.modes[x] # "none"
  BY DEF ProfileRevisions
<1>2. r.rev + 1 \in Nat
  BY DEF ProfileRevisions
<1>3. P!Unnamed(r, s) = [r EXCEPT !.rev = r.rev + 1, !.modes = m]
  BY DEF P!Unnamed, ProfileRevisions
<1> HIDE DEF m
<1>4. P!Unnamed(r, s) \in ProfileRevisions
  BY <1>1, <1>2, <1>3 DEF ProfileRevisions
<1>5. /\ P!Unnamed(r, s).rev = r.rev + 1 /\ P!Unnamed(r, s).theme = r.theme
      /\ P!Unnamed(r, s).digest = r.digest /\ P!Unnamed(r, s).modes = m
  BY <1>3 DEF ProfileRevisions
<1> QED BY <1>1, <1>4, <1>5

\* A skill leaves with its global setting and with every mode that names it, of
\* archived profiles too.
LEMMA RemovalIsGood ==
  ASSUME NEW c, Good(c), NEW s \in Skills
  PROVE  Good(P!RemoveSkill(c, s)) /\ Follows(c, P!RemoveSkill(c, s))
<1> DEFINE d == P!RemoveSkill(c, s)
           k == [c.skills EXCEPT ![s] = 0]
           g == c.globals \ {s}
           n(p) == P!Unnamed(c.profiles[p], s)
           f == [p \in Profiles |-> IF c.profiles[p].modes[s] # "none" THEN n(p) ELSE c.profiles[p]]
<1>1. /\ c \in P!Catalogs /\ Clean(c) /\ P!Valid(c) /\ c.skills \in [Skills -> Nat]
      /\ c.globals \subseteq Skills /\ \A p \in Profiles : c.profiles[p] \in ProfileRevisions
  BY CatalogFields DEF Good
<1>2. \A p \in Profiles :
        /\ n(p) \in ProfileRevisions /\ n(p).rev = c.profiles[p].rev + 1 /\ n(p).theme = c.profiles[p].theme
        /\ n(p).digest = c.profiles[p].digest /\ n(p).modes[s] = "none"
        /\ \A x \in Skills : n(p).modes[x] # "none" => c.profiles[p].modes[x] # "none"
  BY <1>1, UnnamedIs
<1>3. d = [c EXCEPT !.skills[s] = 0, !.globals = c.globals \ {s}, !.profiles = f]
  BY DEF P!RemoveSkill
<1> HIDE DEF n
<1>4. /\ f \in [Profiles -> ProfileRevisions]
      /\ \A p \in Profiles :
           /\ f[p].rev \in {c.profiles[p].rev, c.profiles[p].rev + 1} /\ f[p].theme = c.profiles[p].theme
           /\ f[p].digest = c.profiles[p].digest /\ f[p].modes[s] = "none"
           /\ \A x \in Skills : f[p].modes[x] # "none" => c.profiles[p].modes[x] # "none"
           /\ c.profiles[p].rev = 0 => f[p] = c.profiles[p]
  BY <1>1, <1>2 DEF Clean
<1>5. /\ k \in [Skills -> Nat] /\ g \in SUBSET Skills
      /\ \A x \in Skills : x # s => k[x] = c.skills[x]
  BY <1>1
<1>6. d = [c EXCEPT !.skills = k, !.globals = g, !.profiles = f]
  <2> HIDE DEF f, d
  <2> QED BY <1>1, <1>3 DEF P!Catalogs
<1> HIDE DEF d, f, k
<1>7. /\ d \in P!Catalogs /\ d.themes = c.themes /\ d.skills = k
      /\ d.archived = c.archived /\ d.globals = g /\ d.profiles = f
  BY <1>1, <1>4, <1>5, <1>6 DEF P!Catalogs, ProfileRevisions
<1>8. P!Held(d) = P!Held(c) /\ P!managed(d) = P!managed(c)
  <2>1. \A p \in Profiles : c.profiles[p].rev \in Nat /\ (f[p].rev = 0 <=> c.profiles[p].rev = 0)
    BY <1>1, <1>4 DEF ProfileRevisions
  <2> QED BY <2>1, <1>7 DEF P!Held, P!managed
<1>9. P!Valid(d)
  BY <1>1, <1>4, <1>5, <1>7, <1>8 DEF P!Valid, P!Held
<1>10. Follows(c, d)
  BY <1>4, <1>7 DEF Follows
<1>11. Clean(d)
  <2>1. \A p \in Profiles : c.profiles[p].rev \in Nat /\ (f[p].rev = 0 => c.profiles[p].rev = 0)
    BY <1>1, <1>4 DEF ProfileRevisions
  <2> QED BY <2>1, <1>1, <1>4, <1>7 DEF Clean
<1> QED BY <1>7, <1>9, <1>10, <1>11 DEF Good, d

\* No edit leads to a catalogue that validation refuses.
LEMMA EditIsGood ==
  ASSUME P!CatalogAssumption, NEW c, Good(c), NEW e \in Edits, NEW d \in P!Edited(c, e)
  PROVE  Good(d) /\ Follows(c, d)
<1>1. e \in {"save", "mode", "global", "fork", "archive", "upsert", "remove"} /\ Custom \subseteq Skills
  BY DEF P!CatalogAssumption
<1>2. CASE e = "save"
  <2>1. PICK p \in P!managed(c), t \in {x \in Themes : c.themes[x] # 0} : d = P!SaveProfile(c, p, t)
    BY <1>2 DEF P!Edited
  <2> QED BY <2>1, SaveIsGood
<1>3. CASE e = "mode"
  <2>1. PICK p \in P!managed(c), m \in {"inherit", "on"}, s \in {x \in Skills : c.skills[x] # 0} :
          d = P!SetMode(c, p, s, m)
    BY <1>3 DEF P!Edited
  <2> QED BY <2>1, ModeIsGood
<1>4. CASE e = "global"
  <2>1. PICK s \in {x \in Skills : c.skills[x] # 0} : d = P!SetGlobal(c, s)
    BY <1>4 DEF P!Edited
  <2> QED BY <2>1, GlobalIsGood
<1>5. CASE e = "fork"
  <2>1. PICK p \in P!managed(c), q \in Profiles \ P!Held(c) : d = P!Fork(c, p, q)
    BY <1>5 DEF P!Edited
  <2> QED BY <2>1, ForkIsGood
<1>6. CASE e = "archive"
  <2>1. PICK p \in {x \in P!managed(c) : P!managed(c) # {x}} : d = P!Archive(c, p)
    BY <1>6 DEF P!Edited
  <2> QED BY <2>1, ArchiveIsGood
<1>7. CASE e = "upsert"
  <2>1. PICK s \in Custom, v \in 1..MaxDigest : d = P!Upsert(c, s, v)
    BY <1>7 DEF P!Edited
  <2>2. v \in Nat \ {0} /\ s \in Skills
    BY <2>1, <1>1 DEF P!CatalogAssumption
  <2> QED BY <2>1, <2>2, UpsertIsGood
<1>8. CASE e = "remove"
  <2>1. PICK s \in {x \in Custom : c.skills[x] # 0 /\ P!skillReferences(c, x) = {}} : d = P!RemoveSkill(c, s)
    BY <1>8 DEF P!Edited
  <2> QED BY <2>1, <1>1, RemovalIsGood
<1> QED BY <1>1, <1>2, <1>3, <1>4, <1>5, <1>6, <1>7, <1>8
-------------------------------------------------------------------------------
(* The union with what a release ships. *)

Reconciled(c, r) == P!ReconcileThemes(P!ReconcileSkills(c, r), r)

LEMMA ReconciledIs ==
  ASSUME P!CatalogAssumption, NEW c \in P!Catalogs, NEW r \in Releases
  PROVE  /\ Reconciled(c, r) \in P!Catalogs
         /\ Reconciled(c, r).profiles = c.profiles
         /\ Reconciled(c, r).archived = c.archived /\ Reconciled(c, r).globals = c.globals
         /\ \A s \in Skills : Reconciled(c, r).skills[s] = IF r.skills[s] # 0 THEN r.skills[s] ELSE c.skills[s]
         /\ \A t \in Themes : Reconciled(c, r).themes[t] = IF r.themes[t] # 0 THEN r.themes[t] ELSE c.themes[t]
<1> DEFINE k == [s \in Skills |-> IF r.skills[s] # 0 THEN r.skills[s] ELSE c.skills[s]]
           h == [t \in Themes |-> IF r.themes[t] # 0 THEN r.themes[t] ELSE c.themes[t]]
           m == [c EXCEPT !.skills = k]
           d == Reconciled(c, r)
<1>1. r.themes \in [Themes -> Nat] /\ r.skills \in [Skills -> Nat]
  BY DEF P!CatalogAssumption
<1>2. k \in [Skills -> Nat] /\ h \in [Themes -> Nat]
  BY <1>1, CatalogFields
<1>3. P!ReconcileSkills(c, r) = m
  BY DEF P!ReconcileSkills
<1>4. m.themes = c.themes
  BY DEF P!Catalogs
<1>5. d = [m EXCEPT !.themes = h]
  BY <1>3, <1>4 DEF Reconciled, P!ReconcileThemes
<1>6. /\ \A s \in Skills : k[s] = IF r.skills[s] # 0 THEN r.skills[s] ELSE c.skills[s]
      /\ \A t \in Themes : h[t] = IF r.themes[t] # 0 THEN r.themes[t] ELSE c.themes[t]
  OBVIOUS
<1> HIDE DEF k, h, d
<1>7. m \in P!Catalogs /\ m.skills = k /\ m.profiles = c.profiles /\ m.archived = c.archived /\ m.globals = c.globals
  BY <1>2 DEF P!Catalogs
<1> HIDE DEF m
<1>8. /\ d \in P!Catalogs /\ d.skills = k /\ d.themes = h
      /\ d.profiles = c.profiles /\ d.archived = c.archived /\ d.globals = c.globals
  BY <1>2, <1>5, <1>7 DEF P!Catalogs
<1> QED BY <1>6, <1>8 DEF d

LEMMA UnionFollows ==
  ASSUME P!CatalogAssumption, NEW c \in P!Catalogs, Clean(c), NEW r \in Releases
  PROVE  Clean(Reconciled(c, r)) /\ Follows(c, Reconciled(c, r))
<1> QED BY ReconciledIs DEF Clean, Follows

\* A union is valid exactly when it repaints no theme a profile is pinned to.
LEMMA UnionIsGood ==
  ASSUME P!CatalogAssumption, NEW c, Good(c), NEW r \in Releases
  PROVE  P!Valid(Reconciled(c, r)) <=> ~P!Repaints(c, r)
<1> DEFINE d == Reconciled(c, r)
<1>1. c \in P!Catalogs /\ P!Valid(c) /\ r.themes \in [Themes -> Nat]
  BY DEF Good, P!CatalogAssumption
<1>2. /\ d.profiles = c.profiles /\ d.archived = c.archived /\ d.globals = c.globals
      /\ \A s \in Skills : c.skills[s] # 0 => d.skills[s] # 0
      /\ \A t \in Themes : d.themes[t] = IF r.themes[t] # 0 THEN r.themes[t] ELSE c.themes[t]
  BY <1>1, ReconciledIs
<1> HIDE DEF d
<1>3. P!Held(d) = P!Held(c) /\ P!managed(d) = P!managed(c)
  BY <1>2 DEF P!Held, P!managed
<1>4. \A p \in P!Held(c) : /\ c.profiles[p].theme \in Themes
                           /\ c.profiles[p].digest # 0
                           /\ c.profiles[p].digest = c.themes[c.profiles[p].theme]
  BY <1>1 DEF P!Valid, P!Held, P!Catalogs
<1>5. (\A p \in P!Held(c) : c.profiles[p].digest = d.themes[c.profiles[p].theme]) <=> ~P!Repaints(c, r)
  BY <1>2, <1>4 DEF P!Repaints
<1>6. P!Valid(d) <=> \A p \in P!Held(c) : c.profiles[p].digest = d.themes[c.profiles[p].theme]
  <2>1. P!Valid(d) => \A p \in P!Held(c) : c.profiles[p].digest = d.themes[c.profiles[p].theme]
    BY <1>2, <1>3 DEF P!Valid
  <2>2. ASSUME \A p \in P!Held(c) : c.profiles[p].digest = d.themes[c.profiles[p].theme]
        PROVE  P!Valid(d)
    BY <2>2, <1>1, <1>2, <1>3, <1>4 DEF P!Valid
  <2> QED BY <2>1, <2>2
<1> QED BY <1>5, <1>6 DEF d

\* A union that is not still changes a skill or a theme, or meets a theme
\* that the release does not ship.
LEMMA UnionChanges ==
  ASSUME P!CatalogAssumption, NEW c \in P!Catalogs, NEW r \in Releases, ~P!Unchanged(c, r)
  PROVE  Reconciled(c, r) # c \/ \E t \in Themes : r.themes[t] = 0 /\ c.themes[t] # 0
<1>1. CASE \E s \in Skills : r.skills[s] \notin {0, c.skills[s]}
  <2>1. PICK s \in Skills : r.skills[s] \notin {0, c.skills[s]}
    BY <1>1
  <2>2. Reconciled(c, r).skills[s] # c.skills[s]
    BY <2>1, ReconciledIs
  <2> QED BY <2>2
<1>2. CASE \E t \in Themes : r.themes[t] # c.themes[t]
  <2>1. PICK t \in Themes : r.themes[t] # c.themes[t]
    BY <1>2
  <2>2. CASE r.themes[t] = 0
    BY <2>1, <2>2
  <2>3. CASE r.themes[t] # 0
    <3>1. Reconciled(c, r).themes[t] # c.themes[t]
      BY <2>1, <2>3, ReconciledIs
    <3> QED BY <3>1
  <2> QED BY <2>2, <2>3
<1> QED BY <1>1, <1>2 DEF P!Unchanged

-------------------------------------------------------------------------------
(***************************************************************************)
(* The inductive invariant.  Tags are drawn in order, so a checkpoint with *)
(* the tag of the head is the head; what a page is about to commit was     *)
(* made from its checkpoint.                                               *)
(***************************************************************************)
PageStates ==
  [pc : {"out", "create", "reconcile", "validate", "commit", "ready"},
   kind : {"none", "boot", "edit"},
   release : [themes : [Themes -> Nat], skills : [Skills -> Nat]],
   checkpoint : P!Heads, next : P!Catalogs]

HeadInv ==
  /\ head.tag = 0 => head = P!NoHead
  /\ head.gen = 0 => head = P!NoHead
  /\ head.gen # 0 => Good(head.catalog) /\ Follows(head.prev, head.catalog)

Checkpointed(q, h) ==
  /\ q.checkpoint.tag <= h.tag
  /\ q.checkpoint.tag = h.tag => q.checkpoint = h
  /\ q.pc \in {"reconcile", "validate", "commit", "ready"} =>
       q.checkpoint.tag # 0 /\ Good(q.checkpoint.catalog)

Proposed(q) ==
  /\ q.pc \in {"out", "create"} => q.checkpoint = P!NoHead
  /\ q.pc # "out" => q.release \in Releases
  /\ q.pc \in {"validate", "commit"} =>
       /\ Clean(q.next) /\ Follows(q.checkpoint.catalog, q.next)
       /\ q.kind \in {"boot", "edit"}
       /\ q.kind = "edit" => P!Valid(q.next)
       /\ q.kind = "boot" => /\ q.next = Reconciled(q.checkpoint.catalog, q.release)
                             /\ ~P!Unchanged(q.checkpoint.catalog, q.release)
  /\ q.pc = "commit" => P!Valid(q.next)

CatalogInv == P!TypeOK /\ HeadInv /\ \A p \in Pages : Checkpointed(page[p], head) /\ Proposed(page[p])

-------------------------------------------------------------------------------
(* The steps of a page. *)

LEMMA OutTyped ==
  ASSUME P!CatalogAssumption
  PROVE  P!NoHead \in P!Heads /\ P!Out \in PageStates
<1>1. P!NoHead \in P!Heads
  BY NoCatalogTyped DEF P!NoHead, P!Heads
<1>2. P!NoRelease \in [themes : [Themes -> Nat], skills : [Skills -> Nat]]
  BY DEF P!NoRelease, P!NoCatalog
<1> QED BY <1>1, <1>2, NoCatalogTyped DEF P!Out, PageStates

LEMMA Initially ==
  ASSUME P!CatalogAssumption, P!Init
  PROVE  CatalogInv
<1>3. P!TypeOK
  BY OutTyped DEF P!Init, P!TypeOK, PageStates
<1>4. HeadInv
  BY DEF P!Init, HeadInv, P!NoHead
<1>5. P!Out.pc = "out" /\ P!Out.checkpoint = P!NoHead
  BY DEF P!Out
<1>6. Checkpointed(P!Out, head) /\ Proposed(P!Out)
  BY <1>5 DEF P!Init, Checkpointed, Proposed, P!NoHead
<1> QED BY <1>3, <1>4, <1>6 DEF P!Init, CatalogInv

LEMMA PageTyped ==
  ASSUME CatalogInv, NEW p \in Pages
  PROVE  page[p] \in PageStates /\ page[p].checkpoint \in P!Heads /\ page[p].next \in P!Catalogs
<1>1. page[p] \in PageStates
  BY DEF CatalogInv, P!TypeOK, PageStates
<1> QED BY <1>1 DEF PageStates

\* A step of one page leaves the others as they were; a new head has a new tag.
LEMMA OnePageSteps ==
  ASSUME CatalogInv, NEW p \in Pages, NEW q \in PageStates, page' = [page EXCEPT ![p] = q],
         head' = head \/ (head' \in P!Heads /\ head'.tag = head.tag + 1), HeadInv',
         used' \in Nat, Checkpointed(q, head'), Proposed(q)
  PROVE  CatalogInv'
<1>1. head \in P!Heads /\ head.tag \in Nat /\ page \in [Pages -> PageStates]
  BY DEF CatalogInv, P!TypeOK, P!Heads, PageStates
<1>2. P!TypeOK'
  <2>1. page' \in [Pages -> PageStates]
    BY <1>1
  <2>2. head' \in P!Heads
    BY <1>1
  <2> QED BY <2>1, <2>2 DEF P!TypeOK, PageStates
<1>3. page'[p] = q /\ \A o \in Pages : o # p => page'[o] = page[o]
  BY <1>1
<1>4. ASSUME NEW o \in Pages
      PROVE  Checkpointed(page[o], head)' /\ Proposed(page[o])'
  <2>1. CASE o = p
    BY <2>1, <1>3
  <2>2. CASE o # p
    <3>1. Checkpointed(page[o], head) /\ Proposed(page[o])
      BY DEF CatalogInv
    <3>2. page[o].checkpoint \in P!Heads /\ page[o].checkpoint.tag \in Nat
      BY PageTyped DEF P!Heads
    <3>3. page'[o] = page[o]
      BY <2>2, <1>3
    <3>4. Checkpointed(page[o], head)'
      BY <3>1, <3>2, <3>3, <1>1 DEF Checkpointed
    <3>5. Proposed(page[o])'
      BY <3>1, <3>3
    <3> QED BY <3>4, <3>5
  <2> QED BY <2>1, <2>2
<1> QED BY <1>2, <1>4 DEF CatalogInv
LEMMA OpenKeeps ==
  ASSUME CatalogInv, P!CatalogAssumption, NEW p \in Pages, NEW r \in Releases, P!Open(p, r)
  PROVE  CatalogInv'
<1> DEFINE q == IF head.gen = 0
                THEN [P!Out EXCEPT !.pc = "create", !.release = r]
                ELSE [P!Out EXCEPT !.pc = "reconcile", !.release = r, !.checkpoint = head]
<1>1. /\ head \in P!Heads /\ head.tag \in Nat /\ HeadInv /\ used \in Nat
      /\ r \in [themes : [Themes -> Nat], skills : [Skills -> Nat]]
  BY DEF CatalogInv, P!TypeOK, P!Heads, P!CatalogAssumption
<1>2. page' = [page EXCEPT ![p] = q] /\ UNCHANGED <<head, used>>
  BY DEF P!Open
<1>3. CASE head.gen = 0
  <2>1. /\ q = [P!Out EXCEPT !.pc = "create", !.release = r] /\ q \in PageStates
        /\ q.pc = "create" /\ q.release = r /\ q.checkpoint = P!NoHead
    BY <1>1, <1>3, OutTyped DEF PageStates, P!Out
  <2> HIDE DEF q
  <2>2. Checkpointed(q, head') /\ Proposed(q)
    BY <2>1, <1>1, <1>2, <1>3 DEF Checkpointed, Proposed, HeadInv
  <2>3. HeadInv'
    BY <1>1, <1>2 DEF HeadInv
  <2> QED BY <2>1, <2>2, <2>3, <1>1, <1>2, OnePageSteps
<1>4. CASE head.gen # 0
  <2>1. /\ q = [P!Out EXCEPT !.pc = "reconcile", !.release = r, !.checkpoint = head] /\ q \in PageStates
        /\ q.pc = "reconcile" /\ q.release = r /\ q.checkpoint = head
    BY <1>1, <1>4, OutTyped DEF PageStates, P!Out
  <2> HIDE DEF q
  <2>2. head.tag # 0
    BY <1>1, <1>4 DEF HeadInv, P!NoHead
  <2>3. Checkpointed(q, head') /\ Proposed(q)
    BY <2>1, <2>2, <1>1, <1>2, <1>4 DEF Checkpointed, Proposed, HeadInv
  <2>4. HeadInv'
    BY <1>1, <1>2 DEF HeadInv
  <2> QED BY <2>1, <2>3, <2>4, <1>1, <1>2, OnePageSteps
<1> QED BY <1>3, <1>4

LEMMA CreateKeeps ==
  ASSUME CatalogInv, P!CatalogAssumption, NEW p \in Pages, P!Create(p)
  PROVE  CatalogInv'
<1>1. /\ head \in P!Heads /\ head.tag \in Nat /\ HeadInv /\ used' \in Nat
      /\ page \in [Pages -> PageStates] /\ page[p] \in PageStates
  BY PageTyped DEF CatalogInv, P!TypeOK, P!Heads, PageStates, P!Create
<1>2. page[p].pc = "create" /\ Proposed(page[p]) /\ page[p].release \in Releases
  BY DEF CatalogInv, P!Create, P!At, Proposed
<1>3. CASE head.gen = 0
  <2> DEFINE h == [gen |-> 1, prev |-> P!NoCatalog, catalog |-> P!BuiltIn(page[p].release), tag |-> 1]
             q == [page[p] EXCEPT !.pc = "ready", !.checkpoint = h]
  <2>1. head' = h /\ page' = [page EXCEPT ![p].pc = "ready", ![p].checkpoint = head']
    BY <1>3 DEF P!Create
  <2>2. Good(P!BuiltIn(page[p].release)) /\ Follows(P!NoCatalog, P!BuiltIn(page[p].release))
    BY <1>2, BuiltInIsGood
  <2>3. h \in P!Heads
    BY <2>2, NoCatalogTyped DEF P!Heads, Good
  <2>4. h.gen = 1 /\ h.tag = 1 /\ h.prev = P!NoCatalog /\ h.catalog = P!BuiltIn(page[p].release)
    OBVIOUS
  <2> HIDE DEF h
  <2>6. page' = [page EXCEPT ![p] = q]
    BY <2>1, <1>1
  <2>7. q \in PageStates /\ q.pc = "ready" /\ q.checkpoint = h /\ q.release = page[p].release
    BY <2>3, <1>1 DEF PageStates
  <2> HIDE DEF q
  <2>8. head.tag = 0
    BY <1>1, <1>3 DEF HeadInv, P!NoHead
  <2>9. HeadInv'
    BY <2>1, <2>2, <2>4 DEF HeadInv
  <2>10. Checkpointed(q, head') /\ Proposed(q)
    BY <2>1, <2>2, <2>4, <2>7, <1>2 DEF Checkpointed, Proposed
  <2>11. head'.tag = head.tag + 1 /\ head' \in P!Heads
    BY <2>1, <2>3, <2>4, <2>8
  <2> QED BY <2>6, <2>7, <2>9, <2>10, <2>11, <1>1, OnePageSteps
<1>4. CASE head.gen # 0
  <2> DEFINE q == [page[p] EXCEPT !.pc = "reconcile", !.checkpoint = head]
  <2>1. page' = [page EXCEPT ![p] = q] /\ UNCHANGED head
    BY <1>1, <1>4 DEF P!Create
  <2>2. q \in PageStates /\ q.pc = "reconcile" /\ q.checkpoint = head /\ q.release = page[p].release
    BY <1>1 DEF PageStates
  <2> HIDE DEF q
  <2>3. head.tag # 0
    BY <1>1, <1>4 DEF HeadInv, P!NoHead
  <2>4. HeadInv' /\ Checkpointed(q, head') /\ Proposed(q)
    BY <2>1, <2>2, <2>3, <1>1, <1>2, <1>4 DEF HeadInv, Checkpointed, Proposed
  <2> QED BY <2>1, <2>2, <2>4, <1>1, OnePageSteps
<1> QED BY <1>3, <1>4
\* A call ends, and the page keeps its checkpoint.
LEMMA ReturnKeeps ==
  ASSUME CatalogInv, P!CatalogAssumption, NEW p \in Pages, P!Return(p), UNCHANGED head, used' \in Nat,
         page[p].pc \in {"reconcile", "validate", "commit"}
  PROVE  CatalogInv'
<1> DEFINE q == [page[p] EXCEPT !.pc = "ready", !.next = P!NoCatalog]
<1>1. /\ head \in P!Heads /\ HeadInv /\ page \in [Pages -> PageStates] /\ page[p] \in PageStates
      /\ Checkpointed(page[p], head) /\ Proposed(page[p])
  BY PageTyped DEF CatalogInv, P!TypeOK, PageStates
<1>2. page' = [page EXCEPT ![p] = q]
  BY <1>1 DEF P!Return
<1>3. /\ q \in PageStates /\ q.pc = "ready" /\ q.checkpoint = page[p].checkpoint
      /\ q.release = page[p].release
  BY <1>1, NoCatalogTyped DEF PageStates
<1> HIDE DEF q
<1>4. HeadInv' /\ Checkpointed(q, head') /\ Proposed(q)
  BY <1>1, <1>3 DEF HeadInv, Checkpointed, Proposed
<1> QED BY <1>2, <1>3, <1>4, OnePageSteps

LEMMA ReconcileKeeps ==
  ASSUME CatalogInv, P!CatalogAssumption, NEW p \in Pages, P!Reconcile(p)
  PROVE  CatalogInv'
<1> DEFINE c == page[p].checkpoint.catalog
           r == page[p].release
           q == [page[p] EXCEPT !.pc = "validate", !.kind = "boot", !.next = Reconciled(c, r)]
<1>1. /\ head \in P!Heads /\ HeadInv /\ page \in [Pages -> PageStates] /\ page[p] \in PageStates
      /\ Checkpointed(page[p], head) /\ Proposed(page[p]) /\ used' \in Nat /\ UNCHANGED head
  BY PageTyped DEF CatalogInv, P!TypeOK, PageStates, P!Reconcile
<1>2. page[p].pc = "reconcile" /\ r \in Releases /\ Good(c)
  BY <1>1 DEF P!Reconcile, P!At, Proposed, Checkpointed
<1>3. CASE P!Unchanged(c, r)
  <2>1. P!Return(p)
    BY <1>3 DEF P!Reconcile
  <2> QED BY <2>1, <1>1, <1>2, ReturnKeeps
<1>4. CASE ~P!Unchanged(c, r)
  <2>1. page' = [page EXCEPT ![p] = q]
    BY <1>1, <1>4 DEF P!Reconcile, Reconciled
  <2>2. /\ Reconciled(c, r) \in P!Catalogs /\ Clean(Reconciled(c, r)) /\ Follows(c, Reconciled(c, r))
    BY <1>2, ReconciledIs, UnionFollows DEF Good
  <2>3. /\ q \in PageStates /\ q.pc = "validate" /\ q.kind = "boot" /\ q.next = Reconciled(c, r)
        /\ q.checkpoint = page[p].checkpoint /\ q.release = page[p].release
    BY <2>2, <1>1 DEF PageStates
  <2> HIDE DEF q
  <2>4. HeadInv' /\ Checkpointed(q, head')
    BY <2>3, <1>1, <1>2 DEF HeadInv, Checkpointed
  <2>5. Proposed(q)
    BY <2>2, <2>3, <1>2, <1>4 DEF Proposed
  <2> QED BY <2>1, <2>3, <2>4, <2>5, <1>1, OnePageSteps
<1> QED BY <1>3, <1>4

LEMMA EditKeeps ==
  ASSUME CatalogInv, P!CatalogAssumption, NEW p \in Pages, NEW e \in Edits, P!Edit(p, e)
  PROVE  CatalogInv'
<1>1. /\ head \in P!Heads /\ HeadInv /\ page \in [Pages -> PageStates] /\ page[p] \in PageStates
      /\ Checkpointed(page[p], head) /\ Proposed(page[p]) /\ used' \in Nat /\ UNCHANGED head
  BY PageTyped DEF CatalogInv, P!TypeOK, PageStates, P!Edit
<1>2. PICK c \in P!Edited(page[p].checkpoint.catalog, e) :
        page' = [page EXCEPT ![p].pc = "validate", ![p].kind = "edit", ![p].next = c]
  BY DEF P!Edit
<1>3. page[p].pc = "ready" /\ Good(page[p].checkpoint.catalog)
  BY <1>1 DEF P!Edit, P!At, Checkpointed
<1>4. Good(c) /\ Follows(page[p].checkpoint.catalog, c)
  BY <1>3, EditIsGood
<1> DEFINE q == [page[p] EXCEPT !.pc = "validate", !.kind = "edit", !.next = c]
<1>6. page' = [page EXCEPT ![p] = q]
  BY <1>1, <1>2
<1>7. /\ q \in PageStates /\ q.pc = "validate" /\ q.kind = "edit" /\ q.next = c
      /\ q.checkpoint = page[p].checkpoint /\ q.release = page[p].release
  BY <1>1, <1>4 DEF PageStates, Good
<1> HIDE DEF q
<1>8. HeadInv' /\ Checkpointed(q, head')
  BY <1>1, <1>3, <1>7 DEF HeadInv, Checkpointed
<1>9. Proposed(q)
  BY <1>1, <1>3, <1>4, <1>7 DEF Proposed, Good
<1> QED BY <1>1, <1>6, <1>7, <1>8, <1>9, OnePageSteps

LEMMA ValidateKeeps ==
  ASSUME CatalogInv, P!CatalogAssumption, NEW p \in Pages, P!Validate(p)
  PROVE  CatalogInv'
<1>1. /\ head \in P!Heads /\ HeadInv /\ page \in [Pages -> PageStates] /\ page[p] \in PageStates
      /\ Checkpointed(page[p], head) /\ Proposed(page[p]) /\ used' \in Nat /\ UNCHANGED head
      /\ page[p].pc = "validate"
  BY PageTyped DEF CatalogInv, P!TypeOK, PageStates, P!Validate, P!At
<1>2. CASE P!Valid(page[p].next) /\ P!Goto(p, "commit")
  <2> DEFINE q == [page[p] EXCEPT !.pc = "commit"]
  <2>1. page' = [page EXCEPT ![p] = q]
    BY <1>1, <1>2 DEF P!Goto
  <2>2. /\ q \in PageStates /\ q.pc = "commit" /\ q.kind = page[p].kind /\ q.next = page[p].next
        /\ q.checkpoint = page[p].checkpoint /\ q.release = page[p].release
    BY <1>1 DEF PageStates
  <2> HIDE DEF q
  <2>3. HeadInv' /\ Checkpointed(q, head') /\ Proposed(q)
    BY <2>2, <1>1, <1>2 DEF HeadInv, Checkpointed, Proposed
  <2> QED BY <2>1, <2>2, <2>3, <1>1, OnePageSteps
<1>3. CASE P!Return(p)
  BY <1>1, <1>3, ReturnKeeps
<1> QED BY <1>2, <1>3 DEF P!Validate

\* What is committed over the head it was made from.
LEMMA CommittedIs ==
  ASSUME CatalogInv, P!CatalogAssumption, NEW p \in Pages, page[p].pc = "commit", P!Current(p)
  PROVE  /\ page[p].checkpoint = head /\ head.gen # 0 /\ P!Committed(p) \in P!Heads
         /\ P!Committed(p).gen = head.gen + 1 /\ P!Committed(p).prev = head.catalog
         /\ P!Committed(p).catalog = page[p].next /\ P!Committed(p).tag = head.tag + 1
         /\ Good(page[p].next) /\ Follows(head.catalog, page[p].next)
<1>1. /\ head \in P!Heads /\ HeadInv /\ page[p].next \in P!Catalogs
      /\ Checkpointed(page[p], head) /\ Proposed(page[p])
  BY PageTyped DEF CatalogInv, P!TypeOK
<1>2. page[p].checkpoint = head /\ head.tag # 0 /\ Good(head.catalog)
  BY <1>1 DEF P!Current, Checkpointed
<1>3. head.gen # 0
  BY <1>1, <1>2 DEF HeadInv, P!NoHead
<1>4. Good(page[p].next) /\ Follows(head.catalog, page[p].next)
  BY <1>1, <1>2 DEF Proposed, Good
<1>6. /\ P!Committed(p).gen = head.gen + 1 /\ P!Committed(p).prev = head.catalog
      /\ P!Committed(p).catalog = page[p].next /\ P!Committed(p).tag = head.tag + 1
      /\ P!Committed(p) \in P!Heads
  BY <1>1, <1>2 DEF P!Committed, P!Heads
<1> QED BY <1>2, <1>3, <1>4, <1>6

LEMMA CommittedHead ==
  ASSUME CatalogInv, P!CatalogAssumption, NEW p \in Pages, page[p].pc = "commit", P!Current(p),
         head' = P!Committed(p)
  PROVE  HeadInv'
<1>1. head.gen \in Nat /\ head.tag \in Nat
  BY DEF CatalogInv, P!TypeOK, P!Heads
<1> QED BY <1>1, CommittedIs DEF HeadInv

LEMMA CommitKeeps ==
  ASSUME CatalogInv, P!CatalogAssumption, NEW p \in Pages, P!Commit(p)
  PROVE  CatalogInv'
<1>1. /\ head \in P!Heads /\ head.tag \in Nat /\ page \in [Pages -> PageStates] /\ page[p] \in PageStates
      /\ Proposed(page[p]) /\ used' \in Nat /\ page[p].pc = "commit"
  BY PageTyped DEF CatalogInv, P!TypeOK, P!Heads, PageStates, P!Commit, P!At
<1>2. CASE P!Current(p)
  <2> DEFINE h == P!Committed(p)
             q == [page[p] EXCEPT !.pc = "ready", !.checkpoint = h, !.next = P!NoCatalog]
  <2>1. head' = h /\ page' = [page EXCEPT ![p].pc = "ready", ![p].checkpoint = head', ![p].next = P!NoCatalog]
    BY <1>2 DEF P!Commit
  <2>2. /\ h \in P!Heads /\ h.tag = head.tag + 1 /\ h.catalog = page[p].next
        /\ Good(page[p].next)
    BY <1>1, <1>2, CommittedIs
  <2>3. HeadInv'
    BY <2>1, <1>1, <1>2, CommittedHead
  <2> HIDE DEF h
  <2>4. page' = [page EXCEPT ![p] = q]
    BY <2>1, <1>1
  <2>5. q \in PageStates /\ q.pc = "ready" /\ q.checkpoint = h /\ q.release = page[p].release
    BY <2>2, <1>1, NoCatalogTyped DEF PageStates
  <2> HIDE DEF q
  <2>6. Checkpointed(q, head') /\ Proposed(q)
    BY <2>1, <2>2, <2>5, <1>1 DEF Checkpointed, Proposed
  <2>7. head' \in P!Heads /\ head'.tag = head.tag + 1
    BY <2>1, <2>2
  <2> QED BY <2>3, <2>4, <2>5, <2>6, <2>7, <1>1, OnePageSteps
<1>3. CASE ~P!Current(p)
  <2>1. P!Return(p) /\ UNCHANGED head
    BY <1>3 DEF P!Commit
  <2> QED BY <2>1, <1>1, ReturnKeeps
<1> QED BY <1>2, <1>3

LEMMA CommitLostKeeps ==
  ASSUME CatalogInv, P!CatalogAssumption, NEW p \in Pages, P!CommitLost(p)
  PROVE  CatalogInv'
<1>1. /\ head.tag \in Nat /\ page \in [Pages -> PageStates] /\ page[p] \in PageStates
      /\ Proposed(page[p]) /\ Checkpointed(page[p], head) /\ page[p].pc = "commit"
      /\ P!Current(p) /\ head' = P!Committed(p) /\ P!Return(p) /\ used' \in Nat
  BY PageTyped DEF CatalogInv, P!TypeOK, P!Heads, PageStates, P!CommitLost, P!Fault, P!At
<1> DEFINE q == [page[p] EXCEPT !.pc = "ready", !.next = P!NoCatalog]
<1>2. page' = [page EXCEPT ![p] = q]
  BY <1>1 DEF P!Return
<1>3. /\ q \in PageStates /\ q.pc = "ready" /\ q.checkpoint = page[p].checkpoint
      /\ q.release = page[p].release
  BY <1>1, NoCatalogTyped DEF PageStates
<1> HIDE DEF q
<1>4. HeadInv'
  BY <1>1, CommittedHead
<1>5. head' \in P!Heads /\ head'.tag = head.tag + 1
  BY <1>1, CommittedIs
<1>6. Checkpointed(q, head') /\ Proposed(q)
  <2>1. page[p].checkpoint.tag = head.tag
    BY <1>1 DEF P!Current
  <2> QED BY <2>1, <1>1, <1>3, <1>5 DEF Checkpointed, Proposed
<1> QED BY <1>1, <1>2, <1>3, <1>4, <1>5, <1>6, OnePageSteps

LEMMA ReloadKeeps ==
  ASSUME CatalogInv, P!CatalogAssumption, NEW p \in Pages, P!Reload(p)
  PROVE  CatalogInv'
<1>1. /\ head \in P!Heads /\ head.tag \in Nat /\ HeadInv /\ UNCHANGED head /\ used' \in Nat
      /\ page' = [page EXCEPT ![p] = P!Out]
  BY DEF CatalogInv, P!TypeOK, P!Heads, P!Reload, P!Fault
<1>2. P!Out \in PageStates /\ P!Out.pc = "out" /\ P!Out.checkpoint = P!NoHead
  BY OutTyped DEF P!Out
<1>3. HeadInv' /\ Checkpointed(P!Out, head') /\ Proposed(P!Out)
  BY <1>1, <1>2 DEF HeadInv, Checkpointed, Proposed, P!NoHead
<1> QED BY <1>1, <1>2, <1>3, OnePageSteps
-------------------------------------------------------------------------------
(* The theorems. *)

LEMMA Preserved ==
  ASSUME CatalogInv, P!CatalogAssumption, [P!Next]_P!vars
  PROVE  CatalogInv'
<1>1. ASSUME NEW p \in Pages, P!Step(p)
      PROVE  CatalogInv'
  BY <1>1, CreateKeeps, ReconcileKeeps, ValidateKeeps, CommitKeeps DEF P!Step
<1>2. ASSUME NEW p \in Pages, P!CommitLost(p) \/ P!Reload(p)
      PROVE  CatalogInv'
  BY <1>2, CommitLostKeeps, ReloadKeeps
<1>3. ASSUME NEW p \in Pages, NEW r \in Releases, P!Open(p, r)
      PROVE  CatalogInv'
  BY <1>3, OpenKeeps
<1>4. ASSUME NEW p \in Pages, NEW e \in Edits, P!Edit(p, e)
      PROVE  CatalogInv'
  BY <1>4, EditKeeps
<1>5. CASE UNCHANGED P!vars
  BY <1>5 DEF P!vars, CatalogInv, P!TypeOK, HeadInv
<1> QED BY <1>1, <1>2, <1>3, <1>4, <1>5 DEF P!Next

LEMMA CatalogInductive ==
  ASSUME P!CatalogAssumption
  PROVE  P!Spec => []CatalogInv
<1> QED BY Initially, Preserved, PTL DEF P!Spec

(***************************************************************************)
(* The shape of the stored head and of what every page holds.              *)
(***************************************************************************)
THEOREM CatalogTyped ==
  ASSUME P!CatalogAssumption
  PROVE  P!Spec => []P!TypeOK
<1>1. CatalogInv => P!TypeOK
  BY DEF CatalogInv
<1> QED BY <1>1, CatalogInductive, PTL

(***************************************************************************)
(* No edit of a person, after any edits of others and releases before it,  *)
(* leads to a catalogue that validation refuses.                           *)
(***************************************************************************)
THEOREM EveryEditIsValid ==
  ASSUME P!CatalogAssumption
  PROVE  P!Spec => []P!EditsAreValid
<1>1. CatalogInv => P!EditsAreValid
  BY DEF CatalogInv, Proposed, P!EditsAreValid
<1> QED BY <1>1, CatalogInductive, PTL

(***************************************************************************)
(* Every stored catalogue can be loaded again and has lost no profile of   *)
(* the one it replaced.                                                    *)
(***************************************************************************)
THEOREM ProfilesAreNeverLost ==
  ASSUME P!CatalogAssumption
  PROVE  P!Spec => []P!HistoryIsRetained
<1>1. ASSUME CatalogInv
      PROVE  P!HistoryIsRetained
  <2>1. CASE head.gen = 0
    <3>1. \A p \in Profiles : head.prev.profiles[p].rev = 0
      BY <1>1, <2>1 DEF CatalogInv, HeadInv, P!NoHead, P!NoCatalog, P!NoProfile
    <3> QED BY <3>1, <2>1 DEF P!HistoryIsRetained
  <2>2. CASE head.gen # 0
    BY <1>1, <2>2 DEF CatalogInv, HeadInv, Good, Follows, P!HistoryIsRetained
  <2> QED BY <2>1, <2>2
<1> QED BY <1>1, CatalogInductive, PTL

(***************************************************************************)
(* A page whose checkpoint has the tag of the head holds the head itself.  *)
(***************************************************************************)
THEOREM CheckpointsAreCurrent ==
  ASSUME P!CatalogAssumption
  PROVE  P!Spec => []P!CheckpointsAreHeads
<1>1. CatalogInv => P!CheckpointsAreHeads
  BY DEF CatalogInv, Checkpointed, P!CheckpointsAreHeads
<1> QED BY <1>1, CatalogInductive, PTL

\* The steps that change the head.
LEMMA NewHeads ==
  ASSUME CatalogInv, P!CatalogAssumption, P!Next, head' # head
  PROVE  \/ head.gen = 0 /\ head'.gen = 1 /\ head'.prev = P!NoCatalog
            /\ \E p \in Pages : page[p].pc = "create" /\ \A o \in Pages : o # p => page'[o] = page[o]
         \/ \E p \in Pages : /\ page[p].pc = "commit" /\ P!Current(p) /\ head' = P!Committed(p)
                             /\ \A o \in Pages : o # p => page'[o] = page[o]
<1>1. page \in [Pages -> PageStates]
  BY DEF CatalogInv, P!TypeOK, PageStates
<1>2. PICK p \in Pages : P!Create(p) \/ P!Commit(p) \/ P!CommitLost(p)
  BY DEF P!Next, P!Step, P!Reconcile, P!Validate, P!Reload, P!Open, P!Edit
<1>3. CASE P!Create(p)
  BY <1>1, <1>3 DEF P!Create, P!At
<1>4. CASE P!Commit(p)
  <2>1. page[p].pc = "commit" /\ P!Current(p) /\ head' = P!Committed(p)
    BY <1>4 DEF P!Commit, P!At
  <2>2. \A o \in Pages : o # p => page'[o] = page[o]
    BY <1>1, <1>4, <2>1 DEF P!Commit
  <2> QED BY <2>1, <2>2
<1>5. CASE P!CommitLost(p)
  BY <1>1, <1>5 DEF P!CommitLost, P!Return, P!At
<1> QED BY <1>2, <1>3, <1>4, <1>5

(***************************************************************************)
(* Every new head is one generation after the head it replaces and names   *)
(* its content, in the Vault and in page memory, whatever pages, releases  *)
(* and lost answers come between: no commit is overwritten unseen.         *)
(***************************************************************************)
THEOREM NoCommitIsOverwritten ==
  ASSUME P!CatalogAssumption
  PROVE  P!Spec => [][P!HeadsAreChained]_P!vars
<1>1. ASSUME CatalogInv, P!Next
      PROVE  P!HeadsAreChained
  <2>1. CASE head' = head
    BY <2>1 DEF P!HeadsAreChained
  <2>2. CASE head.gen = 0 /\ head'.gen = 1 /\ head'.prev = P!NoCatalog
    BY <1>1, <2>2 DEF CatalogInv, HeadInv, P!HeadsAreChained, P!NoHead
  <2>3. CASE \E p \in Pages : page[p].pc = "commit" /\ P!Current(p) /\ head' = P!Committed(p)
    BY <1>1, <2>3, CommittedIs DEF P!HeadsAreChained
  <2> QED BY <1>1, <2>1, <2>2, <2>3, NewHeads
<1> QED BY <1>1, CatalogInductive, PTL DEF P!Spec

\* A page that brings what its release ships.
LEMMA BootCommits ==
  ASSUME CatalogInv, P!CatalogAssumption, P!Next, NEW p \in Pages, P!Boots(p)
  PROVE  /\ page[p].release \in Releases /\ Good(head.catalog)
         /\ head'.catalog = Reconciled(head.catalog, page[p].release)
         /\ ~P!Unchanged(head.catalog, page[p].release)
<1>1. page[p].kind = "boot" /\ page[p].pc = "commit" /\ head' # head /\ page'[p] # page[p]
  BY DEF P!Boots, P!At
<1>2. Proposed(page[p]) /\ HeadInv
  BY DEF CatalogInv
<1>3. P!Current(p) /\ head' = P!Committed(p)
  BY <1>1, NewHeads
<1>4. page[p].checkpoint = head /\ head.gen # 0 /\ head'.catalog = page[p].next
  BY <1>1, <1>3, CommittedIs
<1> QED BY <1>1, <1>2, <1>4 DEF Proposed, HeadInv

(***************************************************************************)
(* A release replaces its own skills and no one else's.                    *)
(***************************************************************************)
THEOREM AuthoredSkillsSurvive ==
  ASSUME P!CatalogAssumption
  PROVE  P!Spec => [][P!AuthoredSkillsSurviveReleases]_P!vars
<1>1. ASSUME CatalogInv, P!Next
      PROVE  P!AuthoredSkillsSurviveReleases
  <2>1. ASSUME NEW p \in Pages, P!Boots(p), NEW s \in Skills, page[p].release.skills[s] = 0
        PROVE  head'.catalog.skills[s] = head.catalog.skills[s]
    BY <1>1, <2>1, BootCommits, ReconciledIs DEF Good
  <2> QED BY <2>1 DEF P!AuthoredSkillsSurviveReleases
<1> QED BY <1>1, CatalogInductive, PTL DEF P!Spec

(***************************************************************************)
(* Opening a catalogue that carries what the release ships writes nothing, *)
(* for any releases, unless it holds a theme of another release.           *)
(***************************************************************************)
THEOREM AdoptionWritesOnlyNews ==
  ASSUME P!CatalogAssumption
  PROVE  P!Spec => [][P!AdoptionIsStill]_P!vars
<1>1. ASSUME CatalogInv, P!Next
      PROVE  P!AdoptionIsStill
  <2>1. ASSUME NEW p \in Pages, P!Boots(p)
        PROVE  \/ head'.catalog # head.catalog
               \/ \E t \in Themes : page[p].release.themes[t] = 0 /\ head.catalog.themes[t] # 0
    <3>1. /\ page[p].release \in Releases /\ head.catalog \in P!Catalogs
          /\ head'.catalog = Reconciled(head.catalog, page[p].release)
          /\ ~P!Unchanged(head.catalog, page[p].release)
      BY <1>1, <2>1, BootCommits DEF Good
    <3> QED BY <3>1, UnionChanges
  <2> QED BY <2>1 DEF P!AdoptionIsStill
<1> QED BY <1>1, CatalogInductive, PTL DEF P!Spec

(***************************************************************************)
(* A page that opens the catalogue with no other writer about has the      *)
(* skills and themes of its release, for any releases; a release that      *)
(* repaints a theme some profile is pinned to changes nothing at all.      *)
(***************************************************************************)
THEOREM ReleasesArrive ==
  ASSUME P!CatalogAssumption
  PROVE  P!Spec => [][P!BuiltInsArrive]_P!vars
<1>1. ASSUME CatalogInv, P!Next
      PROVE  P!BuiltInsArrive
  <2>1. SUFFICES ASSUME NEW p \in Pages, page[p].pc \in {"reconcile", "validate", "commit"},
                        page[p].kind # "edit", page'[p].pc = "ready", P!Current(p), used' = used
                 PROVE  IF P!Repaints(page[p].checkpoint.catalog, page[p].release)
                        THEN page'[p].checkpoint = page[p].checkpoint /\ head' = head
                        ELSE /\ \A s \in Skills :
                                  page[p].release.skills[s] \in {0, page'[p].checkpoint.catalog.skills[s]}
                             /\ \A t \in Themes :
                                  page[p].release.themes[t] \in {0, page'[p].checkpoint.catalog.themes[t]}
    BY DEF P!BuiltInsArrive
  <2> DEFINE c == page[p].checkpoint.catalog
             r == page[p].release
  <2>2. /\ page \in [Pages -> PageStates] /\ page[p] \in PageStates /\ used \in Nat
        /\ Checkpointed(page[p], head) /\ Proposed(page[p])
    BY <1>1, PageTyped DEF CatalogInv, P!TypeOK, PageStates
  <2>3. Good(c) /\ r \in Releases
    BY <2>1, <2>2 DEF Checkpointed, Proposed
  <2>4. PICK o \in Pages : \/ P!Step(o) \/ P!CommitLost(o) \/ P!Reload(o)
                           \/ \E x \in Releases : P!Open(o, x)
                           \/ \E e \in Edits : P!Edit(o, e)
    BY <1>1 DEF P!Next
  <2>5. o = p
    BY <2>1, <2>2, <2>4
       DEF P!Step, P!Create, P!Reconcile, P!Validate, P!Commit, P!CommitLost, P!Reload,
           P!Open, P!Edit, P!Return, P!Goto, P!At
  <2>6. P!Reconcile(p) \/ P!Validate(p) \/ P!Commit(p)
    <3>1. ~P!CommitLost(p)
      BY <2>1, <2>2 DEF P!CommitLost, P!Fault
    <3>2. ~P!Reload(p)
      BY <2>1, <2>2 DEF P!Reload, P!Fault
    <3> QED BY <3>1, <3>2, <2>1, <2>4, <2>5 DEF P!Step, P!Create, P!Open, P!Edit, P!At
  <2>7. CASE P!Reconcile(p)
    <3>1. P!Unchanged(c, r) /\ P!Return(p)
      <4>1. ~P!Unchanged(c, r) => page'[p].pc = "validate"
        BY <2>2, <2>7 DEF P!Reconcile, PageStates
      <4> QED BY <4>1, <2>1, <2>7 DEF P!Reconcile
    <3>2. page'[p].checkpoint = page[p].checkpoint /\ head' = head
      BY <3>1, <2>2, <2>7 DEF P!Return, P!Reconcile, PageStates
    <3> QED BY <3>1, <3>2 DEF P!Unchanged
  <2>8. CASE P!Validate(p)
    <3>1. page[p].pc = "validate" /\ page[p].next = Reconciled(c, r)
      BY <2>1, <2>2, <2>8 DEF P!Validate, P!At, Proposed
    <3>2. P!Goto(p, "commit") => page'[p].pc = "commit"
      BY <2>2 DEF P!Goto, PageStates
    <3>3. ~P!Valid(page[p].next) /\ P!Return(p)
      BY <3>2, <2>1, <2>8 DEF P!Validate
    <3>4. P!Repaints(c, r)
      BY <3>1, <3>3, <2>3, UnionIsGood
    <3>5. page'[p].checkpoint = page[p].checkpoint /\ head' = head
      BY <3>3, <2>2, <2>8 DEF P!Return, P!Validate, PageStates
    <3> QED BY <3>4, <3>5
  <2>9. CASE P!Commit(p)
    <3>1. page[p].pc = "commit" /\ page[p].next = Reconciled(c, r) /\ P!Valid(page[p].next)
      BY <2>1, <2>2, <2>9 DEF P!Commit, P!At, Proposed
    <3>2. ~P!Repaints(c, r)
      BY <3>1, <2>3, UnionIsGood
    <3>3. head' = P!Committed(p) /\ page'[p].checkpoint = head'
      BY <2>1, <2>2, <2>9 DEF P!Commit, PageStates
    <3>4. page'[p].checkpoint.catalog = Reconciled(c, r)
      BY <3>1, <3>3 DEF P!Committed
    <3> QED BY <3>2, <3>4, <2>3, ReconciledIs DEF Good
  <2> QED BY <2>6, <2>7, <2>8, <2>9
<1> QED BY <1>1, CatalogInductive, PTL DEF P!Spec
===============================================================================
