------------------------------- MODULE MCStores -------------------------------
(***************************************************************************)
(* The other object stores for TLC: S3Store with the constants of          *)
(* Stores.cfg, and instances of LocalStore (the Local Device vault) and of *)
(* CiphertextCache (the cache in front of a store).  The scenario is       *)
(* chosen at the start and never changes; the bucket is empty and idle     *)
(* where it is not used, and any other variable is 0.                      *)
(***************************************************************************)
EXTENDS S3Store, TLC

CONSTANTS p1, p2,  \* pages or tabs
          v1, v2,  \* two contents or two keys
          Torn

VARIABLES scenario,
          opfs, head, gens, idb, lock, selecting, page, write, result, backup, restored, used,
          provider, pages, persisted, tab, task, job, gone, orphans, opened, mishaps

localVars == <<opfs, head, gens, idb, selecting, page, write, result, backup, restored, used>>
cacheVars == <<provider, pages, persisted, tab, task, job, gone, orphans, opened, mishaps>>
storesVars == <<scenario, vars, lock, localVars, cacheVars>>
-------------------------------------------------------------------------------
\* Writes and deletions of two pages with every fault S3 answers with.
Bucket ==
  /\ Next
  /\ calls' <= 3
  /\ \A p \in Pages :
       /\ call'[p].op \notin {"get", "list"}
       /\ {call'[p].key} \cup call'[p].left \subseteq 0..2

\* Listings of three pages while keys come and go, of objects with one content.
Listings ==
  /\ Next
  /\ \A p \in Pages :
       call'[p].op # "cas" /\ out'[p] # "failed" /\ (out'[p] = "pending" => call'[p].attempt = 0)
  /\ \E c \in Contents :
       /\ \A k \in Keys : objects'[k] \in {c, None}
       /\ \A p \in Pages : request'[p].content \in {c, None}

\* Two pages write one record, with crashes, a full disk and aborted calls.
Records == INSTANCE LocalStore WITH
  Pages <- {p1, p2}, Keys <- {"k"}, Contents <- {v1, v2}, Secrets <- {"s1"},
  Operations <- {"put", "cas"}, Faults <- {"crash", "quota", "abort"}, Founded <- TRUE,
  Opfs <- TRUE, MaxGens <- 3, MaxCalls <- 4, MaxFaults <- 2,
  request <- write, out <- result

\* Two pages found, back up and restore a vault while the browser gains OPFS.
Founding == INSTANCE LocalStore WITH
  Pages <- {p1, p2}, Keys <- {"k"}, Contents <- {"c"}, Secrets <- {"s1", "s2"},
  Operations <- {"put", "trash", "export", "restore"}, Faults <- {"crash", "quota", "upgrade"},
  Founded <- FALSE, Opfs <- FALSE, MaxGens <- 3, MaxCalls <- 3, MaxFaults <- 2,
  request <- write, out <- result

\* Two pages restore, destroy and write a vault of two records.
Restoring == INSTANCE LocalStore WITH
  Pages <- {p1, p2}, Keys <- {v1, v2}, Contents <- {"c"}, Secrets <- {"s1"},
  Operations <- {"put", "trash", "export", "restore", "destroy"}, Faults <- {"crash"},
  Founded <- TRUE, Opfs <- TRUE, MaxGens <- 3, MaxCalls <- 4, MaxFaults <- 1,
  request <- write, out <- result

\* One tab's cache of whole objects and ranges, reloaded at any point.
OneTab == INSTANCE CiphertextCache WITH
  Tabs <- {p1}, Keys <- {v1, v2}, Parts <- {"full", "range"},
  Ops <- {"get", "range", "put", "drop", "trash"}, Faults <- {"crash", "list"}, Slots <- {1},
  Stored <- {v1}, MaxEntries <- 2, MaxBytes <- 2, MaxCalls <- 5, MaxFaults <- 2, NoIndex <- None,
  objects <- provider, call <- task, calls <- opened, faults <- mishaps

\* One tab with two calls at a time, and room for one page.
BusyTab == INSTANCE CiphertextCache WITH
  Tabs <- {p1}, Keys <- {v1, v2, 3}, Parts <- {"full"},
  Ops <- {"get", "drop"}, Faults <- {"write", "remove"}, Slots <- {1, 2},
  Stored <- {v1, v2, 3}, MaxEntries <- 1, MaxBytes <- 1, MaxCalls <- 3, MaxFaults <- 2, NoIndex <- None,
  objects <- provider, call <- task, calls <- opened, faults <- mishaps

\* Two tabs share the directory and its index record, with room for one page each.
TwoTabs == INSTANCE CiphertextCache WITH
  Tabs <- {p1, p2}, Keys <- {v1, v2, 3}, Parts <- {"full"},
  Ops <- {"get", "drop"}, Faults <- {"crash", "lock"}, Slots <- {1},
  Stored <- {v1, v2, 3}, MaxEntries <- 1, MaxBytes <- 1, MaxCalls <- 4, MaxFaults <- 1,
  NoIndex <- None,
  objects <- provider, call <- task, calls <- opened, faults <- mishaps

ASSUME /\ S3Assumption
       /\ Records!LocalAssumption /\ Founding!LocalAssumption /\ Restoring!LocalAssumption
       /\ OneTab!CacheAssumption /\ BusyTab!CacheAssumption /\ TwoTabs!CacheAssumption

Symmetry == Permutations({p1, p2}) \cup Permutations({v1, v2})
-------------------------------------------------------------------------------
NoLocal ==
  /\ opfs = 0 /\ head = 0 /\ gens = 0 /\ idb = 0 /\ selecting = 0 /\ page = 0
  /\ write = 0 /\ result = 0 /\ backup = 0 /\ restored = 0 /\ used = 0
NoCache ==
  /\ provider = 0 /\ pages = 0 /\ persisted = 0 /\ tab = 0 /\ task = 0 /\ job = 0
  /\ gone = 0 /\ orphans = 0 /\ opened = 0 /\ mishaps = 0

StoresInit ==
  /\ Init
  /\ \/ scenario \in {"bucket", "listing"} /\ NoLocal /\ NoCache /\ lock = 0
     \/ scenario = "records" /\ Records!Init /\ NoCache
     \/ scenario = "founding" /\ Founding!Init /\ NoCache
     \/ scenario = "restoring" /\ Restoring!Init /\ NoCache
     \/ scenario = "one_tab" /\ OneTab!Init /\ NoLocal
     \/ scenario = "busy_tab" /\ BusyTab!Init /\ NoLocal
     \/ scenario = "two_tabs" /\ TwoTabs!Init /\ NoLocal

S3 ==
  /\ \/ scenario = "bucket" /\ Bucket
     \/ scenario = "listing" /\ Listings
  /\ UNCHANGED <<scenario, localVars, cacheVars, lock>>
Local ==
  /\ \/ scenario = "records" /\ Records!Next
     \/ scenario = "founding" /\ Founding!Next
     \/ scenario = "restoring" /\ Restoring!Next
  /\ UNCHANGED <<scenario, vars, cacheVars>>
Cache ==
  /\ \/ scenario = "one_tab" /\ OneTab!Next
     \/ scenario = "busy_tab" /\ BusyTab!Next
     \/ scenario = "two_tabs" /\ TwoTabs!Next
  /\ UNCHANGED <<scenario, vars, localVars>>

StoresNext == S3 \/ Local \/ Cache
StoresSpec == StoresInit /\ [][StoresNext]_storesVars
-------------------------------------------------------------------------------
(***************************************************************************)
(* The Local Device vault is one store: in one place and under one key,    *)
(* whichever opens, restores, crashes and browser updates come together;   *)
(* what a restore put in place stays until a runtime is opened, no handle  *)
(* closed before it writing late; and its records keep the contract of     *)
(* ObjectStore through crashes, a full disk and aborted calls              *)
(* (selectAuthority, restoreLocalDevice, close, putIfAbsent).              *)
(***************************************************************************)
OneVault ==
  /\ [](scenario = "founding" => Founding!OneAuthority)
  /\ [](scenario = "restoring" => Restoring!RestoreSticks)
  /\ scenario = "records" => Records!Store!Init
  /\ [][scenario = "records" => [Records!Store!Next]_(Records!Store!vars)]_storesVars

(***************************************************************************)
(* Every page of the ciphertext cache stays in some eviction's reach and   *)
(* the pages of a tab within its budget, though tabs merge a shared record *)
(* and lose writes; the record keeps the rows of other tabs, and what a    *)
(* tab removed is not revived from it (reserve, flush, reconcile, merge).  *)
(* Excepted, each in its part: pages a crash or a refused removal left     *)
(* without a row; a budget for each tab and, of puts that overlap, a page  *)
(* for each; rows flushed between a reconciliation's listing and its       *)
(* write; and rows of pages another tab removed.                           *)
(***************************************************************************)
CacheIsAccounted ==
  /\ [](scenario = "one_tab" => OneTab!Ceiling /\ OneTab!Accounted)
  /\ [](scenario = "busy_tab" => BusyTab!Ceiling /\ BusyTab!Accounted)
  /\ [](scenario = "two_tabs" => TwoTabs!Ceiling /\ TwoTabs!Accounted /\ TwoTabs!RecordWithinBudget)
  /\ [][scenario = "one_tab" => OneTab!NoPhantom]_storesVars
  /\ [][scenario = "busy_tab" => BusyTab!RowsKept]_storesVars
  /\ [][scenario = "two_tabs" => TwoTabs!NoPhantom /\ TwoTabs!RowsKept]_storesVars
===============================================================================
