------------------------------- MODULE LocalStore -------------------------------
(***************************************************************************)
(* The Local Device Vault: storage/local-device-object-store.ts over OPFS  *)
(* or IndexedDB, and the runtime lease of vault/local-device.ts.  Pages    *)
(* open or create the vault, write, trash, export, restore a backup and    *)
(* destroy it.                                                             *)
(*                                                                         *)
(* OPFS is a directory with an authority pointer that names a generation   *)
(* directory of record files.  Every file system call is a step; a page    *)
(* may go away or run out of quota between two of them.  A file is created *)
(* empty and then replaced whole, so a first write that does not end       *)
(* leaves a torn file.  An IndexedDB transaction is one step.              *)
(*                                                                         *)
(* Abstractions.  A record is its content, its ETag the content too; the   *)
(* identity anchor is a record of the workspace key that sealed it.  Names *)
(* of removed generations are reused.  OPFS, IndexedDB and Web Locks are   *)
(* external.                                                               *)
(***************************************************************************)
EXTENDS Naturals, FiniteSets, FiniteSetsExt

CONSTANTS Pages, Keys, Contents, None, Torn,
          Secrets,     \* workspace keys
          Operations,  \* what the pages call
          Faults,      \* what may go wrong
          Founded,     \* the vault exists at the start
          Opfs,        \* the browser has OPFS and Web Locks at the start
          MaxGens,     \* bound: generation directories at a time
          MaxCalls,    \* bound: calls
          MaxFaults    \* bound: faults

LocalAssumption ==
  /\ None \notin Contents /\ Torn \notin Contents /\ None # Torn
  /\ Operations \subseteq {"put", "cas", "trash", "export", "restore", "destroy"}
  /\ Faults \subseteq {"crash", "quota", "abort", "upgrade"}
  /\ Founded \in BOOLEAN /\ Opfs \in BOOLEAN
  /\ MaxGens \in Nat /\ MaxCalls \in Nat /\ MaxFaults \in Nat

VARIABLES
  opfs,       \* the browser has OPFS and Web Locks
  head,       \* the authority pointer
  gens,       \* the generation directories
  idb,        \* the IndexedDB database
  lock,       \* the page that holds the record lock exclusively
  selecting,  \* the page that holds the selection lock
  page,       \* each page's handle on the vault
  request,    \* each page's mutating call, open or last finished
  out,        \* its outcome
  backup,     \* the last exported backup
  restored,   \* history: a restore was the last thing a runtime or restore did
  used        \* calls and faults so far

disk == <<head, gens, idb>>
locks == <<lock, selecting>>
calls == <<request, out>>
vars == <<opfs, disk, locks, page, calls, backup, restored, used>>
-------------------------------------------------------------------------------
Empty == [anchor |-> [s \in Secrets |-> None], files |-> [k \in Keys |-> None]]
Anchored(s) == [Empty EXCEPT !.anchor[s] = "ok"]
NoHead == [file |-> None, gen |-> 0]
NoGen == [dir |-> FALSE, inventory |-> Empty]
NoBackup == [secret |-> None, inventory |-> Empty]
NewPage == [pc |-> "closed", kind |-> "runtime", secret |-> None, disposition |-> "none",
            backend |-> "none", lease |-> "none", gen |-> 0, next |-> Empty]

HasRecords(inv) ==
  (\E s \in Secrets : inv.anchor[s] # None) \/ (\E k \in Keys : inv.files[k] # None)
Parses(inv) ==
  (\A s \in Secrets : inv.anchor[s] # Torn) /\ (\A k \in Keys : inv.files[k] # Torn)

\* activeGeneration: the pointer is whole and names a directory.
Authority == head.file = "ok" /\ gens[head.gen].dir
Opened == IF Authority THEN gens[head.gen].inventory ELSE Empty
Inventory(b) == CASE b = "idb" -> idb [] b = "opfs" -> Opened [] OTHER -> Empty
Object(k) == LET inv == IF HasRecords(idb) THEN idb ELSE Opened
             IN  IF inv.files[k] = Torn THEN None ELSE inv.files[k]

NoRequest == [op |-> "none", keys |-> {}, expected |-> None, content |-> None]

\* A trash is done once its pointer is switched; the sweep after it changes no object.
Store == INSTANCE ObjectStore WITH
           objects <- [k \in Keys |-> Object(k)],
           out <- [p \in Pages |-> IF page[p].pc = "sweep" /\ page[p].kind = "runtime"
                                   THEN "removed" ELSE out[p]],
           late <- [p \in Pages |-> NoRequest]

Init ==
  /\ opfs = Opfs
  /\ idb = IF Founded /\ ~Opfs THEN Anchored(CHOOSE s \in Secrets : TRUE) ELSE Empty
  /\ head = IF Founded /\ Opfs THEN [file |-> "ok", gen |-> 1] ELSE NoHead
  /\ gens = [g \in 1..MaxGens |->
       IF Founded /\ Opfs /\ g = 1
       THEN [dir |-> TRUE, inventory |-> Anchored(CHOOSE s \in Secrets : TRUE)] ELSE NoGen]
  /\ lock = None /\ selecting = None
  /\ page = [p \in Pages |-> NewPage]
  /\ request = [p \in Pages |-> NoRequest]
  /\ out = [p \in Pages |-> "none"]
  /\ backup = NoBackup /\ restored = FALSE
  /\ used = [calls |-> 0, faults |-> 0]
-------------------------------------------------------------------------------
Call(op) == op \in Operations /\ used.calls < MaxCalls /\ used' = [used EXCEPT !.calls = @ + 1]
Fault(f) == f \in Faults /\ used.faults < MaxFaults /\ used' = [used EXCEPT !.faults = @ + 1]

Goto(p, label) == page' = [page EXCEPT ![p].pc = label]
Unlocked(p) == IF lock = p THEN None ELSE lock
Deselected(p) == IF selecting = p THEN None ELSE selecting
FreeGen == Min({g \in 1..MaxGens : ~gens[g].dir})

\* An open or a restore throws, or a restore ends: its locks and its lease are free.
Leave(p) ==
  /\ page' = [page EXCEPT ![p] = NewPage]
  /\ lock' = Unlocked(p) /\ selecting' = Deselected(p)

\* Fault: the record lock is not released.
SettleBug(p, answer) ==
  /\ out' = [out EXCEPT ![p] = answer]
  /\ page' = [page EXCEPT ![p] = IF @.lease = "none" THEN NewPage
                                 ELSE [@ EXCEPT !.pc = "open", !.gen = 0, !.next = Empty]]
  /\ UNCHANGED <<request, lock, selecting>>

\* A call settles.  On a handle closed meanwhile it was the last thing to go on.
Settle(p, answer) ==
  /\ out' = [out EXCEPT ![p] = answer]
  /\ page' = [page EXCEPT ![p] = IF @.lease = "none" THEN NewPage
                                 ELSE [@ EXCEPT !.pc = "open", !.gen = 0, !.next = Empty]]
  /\ lock' = Unlocked(p)
  /\ UNCHANGED <<request, selecting>>
-------------------------------------------------------------------------------
\* openLocalDeviceVault waits for a shared runtime lease.
Open(p, s, d) ==
  /\ page[p].pc = "closed" /\ \A q \in Pages : page[q].lease # "exclusive"
  /\ page' = [page EXCEPT ![p] = [NewPage EXCEPT !.pc = IF opfs THEN "opfs" ELSE "select",
                                    !.secret = s, !.disposition = d, !.lease = "shared"]]
  /\ UNCHANGED <<opfs, disk, locks, calls, backup, restored, used>>

\* restoreLocalDeviceVaultBackup: the whole backup is authenticated, then an exclusive
\* lease is taken if it is to be had at once.
Restore(p, s, d) ==
  /\ page[p].pc = "closed" /\ opfs /\ backup.secret = s
  /\ \A q \in Pages : page[q].lease = "none"
  /\ Call("restore")
  /\ page' = [page EXCEPT ![p] = [NewPage EXCEPT !.pc = "opfs", !.kind = "restore",
                                    !.secret = s, !.disposition = d, !.lease = "exclusive",
                                    !.next = backup.inventory]]
  /\ UNCHANGED <<opfs, disk, locks, calls, backup, restored>>

\* OpfsLocalDeviceBackend.open in the record lock: without a pointer the directory has
\* to be empty, and gets its first generation.
OpfsOpen(p) ==
  /\ page[p].pc = "opfs" /\ lock = None
  /\ \/ /\ Authority
        /\ Goto(p, "select") /\ UNCHANGED <<gens, locks>>
     \/ /\ head.file = None /\ \A g \in 1..MaxGens : ~gens[g].dir
        /\ gens' = [gens EXCEPT ![FreeGen].dir = TRUE]
        /\ page' = [page EXCEPT ![p].pc = "pointer", ![p].gen = FreeGen]
        /\ lock' = p /\ UNCHANGED selecting
     \/ /\ ~Authority /\ (head.file # None \/ \E g \in 1..MaxGens : gens[g].dir)
        /\ Leave(p) /\ UNCHANGED gens
  /\ UNCHANGED <<opfs, head, idb, calls, backup, restored, used>>

\* writeOpfsAuthority for the first time: the file is created, then written.
PointerCreate(p) ==
  /\ page[p].pc = "pointer"
  /\ head' = [file |-> Torn, gen |-> page[p].gen]
  /\ Goto(p, "pointerWrite")
  /\ UNCHANGED <<opfs, gens, idb, locks, calls, backup, restored, used>>

PointerWrite(p) ==
  /\ page[p].pc = "pointerWrite"
  /\ head' = [head EXCEPT !.file = "ok"]
  /\ page' = [page EXCEPT ![p].pc = "select", ![p].gen = 0]
  /\ lock' = None
  /\ UNCHANGED <<opfs, gens, idb, selecting, calls, backup, restored, used>>
-------------------------------------------------------------------------------
\* Fault: a browser that has OPFS does not look at its IndexedDB.
InIndexedDbBug == ~opfs /\ HasRecords(idb)

InIndexedDb == HasRecords(idb)

\* The backend of the vault: the one that has records, else the one preferred.
Chosen == IF InIndexedDb \/ ~opfs THEN "idb" ELSE "opfs"

\* choose, in the selection lock: both inventories are read again.
Select(p) ==
  /\ page[p].pc = "select" /\ selecting = None /\ lock = None
  /\ \E o \in {opfs /\ HasRecords(Opened)} :
       IF \/ (opfs /\ ~Authority) \/ page[p].backend = "lost"
          \/ o /\ InIndexedDb
          \/ page[p].disposition = "existing" /\ ~o /\ ~InIndexedDb
          \/ page[p].disposition = "new" /\ (o \/ InIndexedDb)
       THEN Leave(p)
       ELSE IF page[p].kind = "restore" /\ page[p].disposition = "new"
       THEN /\ page' = [page EXCEPT ![p].pc = "replace", ![p].backend = Chosen]
            /\ UNCHANGED locks
       ELSE /\ page' = [page EXCEPT ![p].pc = "verify", ![p].backend = Chosen]
            /\ selecting' = p /\ UNCHANGED lock
  /\ UNCHANGED <<opfs, disk, calls, backup, restored, used>>

\* The anchor is authentic: a runtime is open, a restore goes on to its replacement.
Verified(p) ==
  /\ Goto(p, IF page[p].kind = "restore" THEN "replace" ELSE "open")
  /\ restored' = (restored /\ page[p].kind = "restore")
  /\ selecting' = None /\ lock' = Unlocked(p)

Reachable(p) == page[p].backend = "idb" \/ (page[p].backend = "opfs" /\ Authority)
Granted(p) == lock = None \/ page[p].backend = "idb"
Mine(p) == Inventory(page[p].backend).anchor[page[p].secret]

\* verifyOrInitialize.
Verify(p) ==
  /\ page[p].pc = "verify" /\ Granted(p)
  /\ \/ Reachable(p) /\ Mine(p) = "ok" /\ Verified(p)
     \/ /\ Reachable(p) /\ Mine(p) = None /\ page[p].disposition = "new"
        /\ Goto(p, "anchor") /\ UNCHANGED <<locks, restored>>
     \/ /\ \/ ~Reachable(p) \/ Mine(p) = Torn
           \/ Mine(p) = None /\ page[p].disposition = "existing"
        /\ Leave(p) /\ UNCHANGED restored
  /\ UNCHANGED <<opfs, disk, calls, backup, used>>

\* initializeIfEmpty finds the complete authority empty.
Vacant(inv) == ~HasRecords(inv)

Anchor(p) ==
  /\ page[p].pc = "anchor" /\ Granted(p)
  /\ IF ~Reachable(p) THEN Leave(p) /\ UNCHANGED <<disk, restored>>
     ELSE IF Vacant(Inventory(page[p].backend))
     THEN IF page[p].backend = "idb"
          THEN /\ idb' = [idb EXCEPT !.anchor[page[p].secret] = "ok"]
               /\ Verified(p) /\ UNCHANGED <<head, gens>>
          ELSE /\ gens' = [gens EXCEPT ![head.gen].inventory.anchor[page[p].secret] = Torn]
               /\ lock' = p /\ Goto(p, "anchorWrite")
               /\ UNCHANGED <<head, idb, selecting, restored>>
     ELSE /\ IF Mine(p) = "ok" THEN Verified(p) ELSE Leave(p) /\ UNCHANGED restored
          /\ UNCHANGED disk
  /\ UNCHANGED <<opfs, calls, backup, used>>

AnchorWrite(p) ==
  /\ page[p].pc = "anchorWrite"
  /\ gens' = [gens EXCEPT ![head.gen].inventory.anchor[page[p].secret] = "ok"]
  /\ Verified(p)
  /\ UNCHANGED <<opfs, head, idb, calls, backup, used>>
-------------------------------------------------------------------------------
Requests ==
  {r \in Store!Requests : r.op \in Operations \cap {"put", "cas", "trash"}}

\* putIfAbsent, compareAndSwap and trash, up to their wait for the record lock.
Invoke(p, r) ==
  /\ page[p].pc = "open" /\ Call(r.op)
  /\ request' = [request EXCEPT ![p] = r]
  /\ out' = [out EXCEPT ![p] = "pending"]
  /\ Goto(p, IF r.op = "trash" THEN "list" ELSE "write")
  /\ UNCHANGED <<opfs, disk, locks, backup, restored>>

\* Fault: the handle is only looked at before the lock is waited for.
ClosedBug(p) == FALSE

\* withLock looks again once it has the lock whether the handle was closed.
Closed(p) == page[p].lease = "none"

File(p, k) == Inventory(page[p].backend).files[k]

\* Fault: a swap does not compare the ETag.
RefusalBug(p, k) ==
  CASE Closed(p) \/ ~Reachable(p) \/ File(p, k) = Torn -> "failed"
    [] request[p].op = "put" /\ File(p, k) # None -> "exists"
    [] request[p].op = "cas" /\ File(p, k) = None -> "missing"
    [] OTHER -> "none"

\* What create and compareAndSwap answer without writing.
Refusal(p, k) ==
  CASE Closed(p) \/ ~Reachable(p) \/ File(p, k) = Torn -> "failed"
    [] request[p].op = "put" /\ File(p, k) # None -> "exists"
    [] request[p].op = "cas" /\ File(p, k) = None -> "missing"
    [] request[p].op = "cas" /\ File(p, k) # request[p].expected -> "mismatch"
    [] OTHER -> "none"

Success(p) == Store!Answers(request[p])

\* create or compareAndSwap: one transaction of IndexedDB, or the lock is taken and a
\* new file of OPFS created.
Write(p) ==
  /\ page[p].pc = "write" /\ Granted(p)
  /\ \E k \in request[p].keys :
       IF Refusal(p, k) # "none"
       THEN Settle(p, Refusal(p, k)) /\ UNCHANGED disk
       ELSE IF page[p].backend = "idb"
       THEN /\ idb' = [idb EXCEPT !.files[k] = request[p].content]
            /\ Settle(p, Success(p)) /\ UNCHANGED <<head, gens>>
       ELSE /\ gens' = [gens EXCEPT ![head.gen].inventory.files[k] = IF @ = None THEN Torn ELSE @]
            /\ lock' = p /\ Goto(p, "fill")
            /\ UNCHANGED <<head, idb, selecting, calls>>
  /\ UNCHANGED <<opfs, backup, restored, used>>

\* The file gets its content at once.  An abort seen after that is reported as a failure.
Fill(p) ==
  /\ page[p].pc = "fill"
  /\ \E k \in request[p].keys :
       gens' = [gens EXCEPT ![head.gen].inventory.files[k] = request[p].content]
  /\ \/ Settle(p, Success(p)) /\ UNCHANGED used
     \/ Fault("abort") /\ Settle(p, "failed")
  /\ UNCHANGED <<opfs, head, idb, backup, restored>>
-------------------------------------------------------------------------------
\* Fault: records that do not parse are carried over.
ListBug(p) ==
  /\ page[p].pc = "list" /\ Granted(p)
  /\ \E inv \in {Inventory(page[p].backend)} :
       IF Closed(p) \/ ~Reachable(p)
       THEN Settle(p, "failed")
       ELSE IF \A k \in request[p].keys : inv.files[k] = None
       THEN Settle(p, "removed")
       ELSE /\ page' = [page EXCEPT ![p].pc = "replace",
                 ![p].next = [inv EXCEPT !.files = [k \in Keys |->
                    IF k \in request[p].keys THEN None ELSE inv.files[k]]]]
            /\ UNCHANGED <<locks, calls>>
  /\ UNCHANGED <<opfs, disk, backup, restored, used>>

\* trash reads the inventory in a lock of its own ...
List(p) ==
  /\ page[p].pc = "list" /\ Granted(p)
  /\ \E inv \in {Inventory(page[p].backend)} :
       IF Closed(p) \/ ~Reachable(p) \/ ~Parses(inv)
       THEN Settle(p, "failed")
       ELSE IF \A k \in request[p].keys : inv.files[k] = None
       THEN Settle(p, "removed")
       ELSE /\ page' = [page EXCEPT ![p].pc = "replace",
                 ![p].next = [inv EXCEPT !.files = [k \in Keys |->
                    IF k \in request[p].keys THEN None ELSE inv.files[k]]]]
            /\ UNCHANGED <<locks, calls>>
  /\ UNCHANGED <<opfs, disk, backup, restored, used>>

\* The replacement is done or has failed.
Ends(p, answer) ==
  IF page[p].kind = "restore" THEN Leave(p) /\ UNCHANGED calls ELSE Settle(p, answer)

\* ... and replaces the whole of it with what is left: replaceAll, also of a restore.
Replace(p) ==
  /\ page[p].pc = "replace" /\ Granted(p)
  /\ IF Closed(p) \/ ~Reachable(p)
     THEN Ends(p, "failed") /\ UNCHANGED <<disk, restored>>
     ELSE IF page[p].backend = "idb"
     THEN /\ idb' = page[p].next /\ restored' = (page[p].kind = "restore")
          /\ Ends(p, "removed") /\ UNCHANGED <<head, gens>>
     ELSE /\ \E g \in 1..MaxGens : ~gens[g].dir
          /\ gens' = [gens EXCEPT ![FreeGen] = [dir |-> TRUE, inventory |-> page[p].next]]
          /\ page' = [page EXCEPT ![p].pc = "switch", ![p].gen = FreeGen]
          /\ lock' = p
          /\ UNCHANGED <<head, idb, selecting, calls, restored>>
  /\ UNCHANGED <<opfs, backup, used>>

\* The pointer is rewritten, which is the commit ...
Switch(p) ==
  /\ page[p].pc = "switch"
  /\ head' = [file |-> "ok", gen |-> page[p].gen]
  /\ restored' = (page[p].kind = "restore")
  /\ Goto(p, "sweep")
  /\ UNCHANGED <<opfs, gens, idb, locks, calls, backup, used>>

\* ... and every other generation removed.
Sweep(p) ==
  /\ page[p].pc = "sweep"
  /\ gens' = [g \in 1..MaxGens |-> IF g = page[p].gen THEN gens[g] ELSE NoGen]
  /\ Ends(p, "removed")
  /\ UNCHANGED <<opfs, head, idb, backup, restored, used>>

\* exportEncryptedBackup.
Export(p) ==
  /\ page[p].pc = "open" /\ Granted(p) /\ Reachable(p)
  /\ Parses(Inventory(page[p].backend)) /\ Call("export")
  /\ backup' = [secret |-> page[p].secret, inventory |-> Inventory(page[p].backend)]
  /\ UNCHANGED <<opfs, disk, locks, page, calls, restored>>
-------------------------------------------------------------------------------
\* close: the lease is released whatever call is still waiting or at work.
Close(p) ==
  /\ page[p].kind = "runtime" /\ page[p].lease = "shared"
  /\ page[p].pc \in {"open", "write", "fill", "list", "replace", "switch", "sweep"}
  /\ page' = [page EXCEPT ![p] = IF @.pc = "open" THEN NewPage ELSE [@ EXCEPT !.lease = "none"]]
  /\ UNCHANGED <<opfs, disk, locks, calls, backup, restored, used>>

\* The page goes away; the browser frees its locks and its lease.
Crash(p) ==
  /\ page[p].pc # "closed" /\ Fault("crash")
  /\ Leave(p)
  /\ out' = [out EXCEPT ![p] = IF @ = "pending" THEN "failed" ELSE @]
  /\ UNCHANGED <<opfs, disk, request, backup, restored>>

\* A file system call throws, for want of quota.  A staged generation is removed.
Quota(p) ==
  /\ Fault("quota")
  /\ page[p].pc \in {"pointer", "pointerWrite", "anchorWrite", "fill", "switch"}
  /\ IF page[p].pc = "fill" THEN Settle(p, "failed")
     ELSE IF page[p].pc = "switch" THEN Ends(p, "failed")
     ELSE Leave(p) /\ UNCHANGED calls
  /\ gens' = IF page[p].pc = "switch" THEN [gens EXCEPT ![page[p].gen] = NoGen] ELSE gens
  /\ UNCHANGED <<opfs, head, idb, backup, restored>>

\* destroyLocalDeviceAuthority takes the record lock if no operation holds it, deletes
\* the database, whose connections close themselves, and then the directory.
Destroy(p) ==
  /\ page[p].pc = "closed" /\ opfs /\ lock = None /\ Call("destroy")
  /\ lock' = p
  /\ page' = [q \in Pages |->
       IF q = p THEN [page[p] EXCEPT !.pc = "destroy"]
       ELSE IF page[q].backend = "idb" \/ page[q].pc = "select"
       THEN [page[q] EXCEPT !.backend = "lost"] ELSE page[q]]
  /\ idb' = Empty /\ restored' = FALSE
  /\ UNCHANGED <<opfs, head, gens, selecting, calls, backup>>

DestroyDirectory(p) ==
  /\ page[p].pc = "destroy"
  /\ head' = NoHead /\ gens' = [g \in 1..MaxGens |-> NoGen]
  /\ Leave(p)
  /\ UNCHANGED <<opfs, idb, calls, backup, restored, used>>

\* A browser update brings OPFS.
Upgrade ==
  /\ ~opfs /\ \A p \in Pages : page[p].pc = "closed"
  /\ Fault("upgrade") /\ opfs' = TRUE
  /\ UNCHANGED <<disk, locks, page, calls, backup, restored>>
-------------------------------------------------------------------------------
Step(p) ==
  \/ OpfsOpen(p) \/ PointerCreate(p) \/ PointerWrite(p)
  \/ Select(p) \/ Verify(p) \/ Anchor(p) \/ AnchorWrite(p)
  \/ Write(p) \/ Fill(p) \/ List(p) \/ Replace(p) \/ Switch(p) \/ Sweep(p)
  \/ DestroyDirectory(p)

Next ==
  \/ \E p \in Pages :
       \/ Step(p) \/ Export(p) \/ Close(p) \/ Crash(p) \/ Quota(p) \/ Destroy(p)
       \/ \E r \in Requests : Invoke(p, r)
       \/ \E s \in Secrets, d \in {"new", "existing"} : Open(p, s, d) \/ Restore(p, s, d)
  \/ Upgrade

Spec == Init /\ [][Next]_vars
\* A browser grants a lock that stays free, and its file system answers.
FairSpec == Spec /\ \A p \in Pages : SF_vars(Step(p))
-------------------------------------------------------------------------------
TypeOK ==
  /\ opfs \in BOOLEAN /\ restored \in BOOLEAN
  /\ head \in [file : {None, Torn, "ok"}, gen : 0..MaxGens]
  /\ gens \in [1..MaxGens -> [dir : BOOLEAN, inventory : [anchor : [Secrets -> {None, Torn, "ok"}],
                                        files : [Keys -> Contents \cup {None, Torn}]]]]
  /\ idb \in [anchor : [Secrets -> {None, "ok"}], files : [Keys -> Contents \cup {None}]]
  /\ lock \in Pages \cup {None} /\ selecting \in Pages \cup {None}
  /\ \A p \in Pages : page[p].gen \in 0..MaxGens /\ Parses(page[p].next)
  /\ out \in [Pages -> {"none", "pending", "failed", "created", "updated", "exists",
                        "missing", "mismatch", "removed"}]

\* Writes keep the contract of object-store.ts through failures and lost pages.
KeepsContract == Store!Spec

\* The vault is in one place and under one key: no open, create, restore or browser
\* update brings up a second authority beside the first.
OneAuthority ==
  /\ ~(HasRecords(idb) /\ HasRecords(Opened))
  /\ Cardinality({s \in Secrets : idb.anchor[s] # None \/ Opened.anchor[s] # None}) <= 1

\* What a restore put in place stays until a runtime is opened: no call of a handle
\* that was closed before it comes in late (local-device.ts: "can never replace
\* records beneath a live runtime").
RestoreSticks ==
  restored => \A k \in Keys : Object(k) = backup.inventory.files[k]

\* Every open and every call comes to an end.
Busy(p) == page[p].pc \notin {"closed", "open"}
CallsSettle == \A p \in Pages : Busy(p) ~> ~Busy(p)

\* A stored object goes only when a call names its key (object-store.ts: "a lost
\* conditional write can never destroy data").
OnlyNamedKeysChange ==
  \A k \in Keys : Object(k)' # Object(k) =>
    \E p \in Pages : out[p] = "pending" /\ k \in request[p].keys

\* A write that fails leaves its key as it was: every record of the vault can be read
\* whenever nobody writes.
RecordsParse == lock = None => Parses(Opened)

\* An interrupted first open leaves a directory that can be opened.
VaultOpens ==
  lock = None => Authority \/ (head.file = None /\ \A g \in 1..MaxGens : ~gens[g].dir)

\* A page that has the vault open still has it (destroyLocalDeviceAuthority "fails fast
\* while any adopted runtime holds its records").
RuntimeKeepsItsVault ==
  \A p \in Pages : page[p].pc = "open" => Inventory(page[p].backend).anchor[page[p].secret] = "ok"
===============================================================================
