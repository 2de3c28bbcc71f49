---------------------------- MODULE CiphertextCache ----------------------------
(***************************************************************************)
(* The ciphertext cache of storage/client-ciphertext-cache.ts under the    *)
(* object store of storage/caching-object-store.ts that reads through it.  *)
(* Tabs of one Vault share a directory of pages and one index record; each *)
(* keeps its own view of the index, which it opens from the listing of the *)
(* directory, evicts by and merges with the record when it flushes.        *)
(*                                                                         *)
(* Keys are minted per revision, so a page of a key is whole or torn and   *)
(* never stale.  Every page weighs one.  Recency is left out: an eviction  *)
(* takes any row.  A request to the page backend and the code that runs on *)
(* its answer are one step, since a tab's requests are answered in order.  *)
(***************************************************************************)
EXTENDS Integers, FiniteSets

CONSTANTS Tabs, Keys,
          Parts,      \* the pages of a key: "full", "range"
          Ops,        \* "get", "range", "put", "drop", "trash"
          Faults,     \* "crash", "write", "remove", "list", "lock"
          Slots,      \* the calls a tab may have open
          Stored,     \* the keys the provider holds at the start
          MaxEntries, MaxBytes,
          MaxCalls, MaxFaults,
          NoIndex     \* no index record that decodes

CacheAssumption ==
  /\ MaxEntries \in Nat \ {0} /\ MaxBytes \in Nat \ {0}
  /\ Stored \subseteq Keys /\ Parts \subseteq {"full", "range"}

VARIABLES objects,    \* what the provider holds: "unborn", "live" or "gone"
          pages,      \* the shared directory: "none", "whole" or "torn"
          persisted,  \* the rows of the index record
          lock,       \* the tabs that hold the index lock
          tab,        \* each tab's view of the index
          job,        \* each tab's reconciliation or flush
          call,       \* each tab's calls
          gone,       \* the keys whose trash returned in a tab
          orphans,    \* pages left without the row of the tab that crashed or took it out
          calls, faults

vars == <<objects, pages, persisted, lock, tab, job, call, gone, orphans, calls, faults>>

CachePages == Keys \X Parts
Full(k) == <<k, "full">>
CallIds == Tabs \X Slots

NewTab == [index |-> "none", entries |-> {}, total |-> 0, dropped |-> {}, dirty |-> FALSE]
NoJob == [kind |-> "none", pc |-> "none", order |-> {}, victim |-> <<>>, rows |-> {}]
NoCall == [op |-> "none", page |-> <<>>, at |-> <<>>, pc |-> "idle", then |-> "end",
           order |-> {}, victim |-> <<>>, evicted |-> FALSE, late |-> FALSE, hit |-> FALSE]

Init ==
  /\ objects = [k \in Keys |-> IF k \in Stored THEN "live" ELSE "unborn"]
  /\ pages = [p \in CachePages |-> "none"]
  /\ persisted = NoIndex
  /\ lock = {}
  /\ tab = [t \in Tabs |-> NewTab]
  /\ job = [t \in Tabs |-> NoJob]
  /\ call = [c \in CallIds |-> NoCall]
  /\ gone = [t \in Tabs |-> {}]
  /\ orphans = {}
  /\ calls = 0 /\ faults = 0

Resident == {p \in CachePages : pages[p] # "none"}
Fault(f) == f \in Faults /\ faults < MaxFaults /\ faults' = faults + 1

----
(* The view of the index                                                   *)

Record(v, p) ==
  [v EXCEPT !.entries = @ \cup {p}, !.dirty = TRUE,
            !.total = IF p \in v.entries THEN @ ELSE @ + 1]

\* An evicted row's bytes are taken off even where a call evicted it before.
Evicted(v, p) ==
  [v EXCEPT !.entries = @ \ {p}, !.total = @ - 1, !.dropped = @ \cup {p}]

OverBudget(v) == v.total > MaxBytes \/ Cardinality(v.entries) > MaxEntries

\* Fault: the ceiling is checked before the incoming page is counted.
FitsBug(v, p) == v.total <= MaxBytes /\ Cardinality(v.entries) <= MaxEntries

Fits(v, p) ==
  /\ v.total - (IF p \in v.entries THEN 1 ELSE 0) + 1 <= MaxBytes
  /\ Cardinality(v.entries \cup {p}) <= MaxEntries

\* Fault: every row of the record is adopted, a removed page's too.
MergeBug(v, rows) ==
  [v EXCEPT !.entries = @ \cup rows, !.total = @ + Cardinality(rows \ v.entries)]

Merge(v, rows) ==
  [v EXCEPT !.entries = @ \cup (rows \ v.dropped),
            !.total = @ + Cardinality(rows \ (v.dropped \cup v.entries))]

----
(* Calls of the object store                                               *)

\* A trash of the key returned in this tab.
Trashed(t, k) ==
  /\ k \in gone[t]
  /\ \A d \in CallIds : (d[1] = t /\ call[d].op = "trash" /\ call[d].at = Full(k)) => call[d].pc = "idle"

Begin(c) ==
  /\ call[c].pc = "idle" /\ calls < MaxCalls /\ calls' = calls + 1
  /\ \E op \in Ops, k \in Keys :
       \E p \in {IF op = "range" THEN <<k, "range">> ELSE Full(k)} :
         /\ p \in CachePages
         /\ op = "put" => objects[k] = "unborn"
         /\ op \in {"drop", "trash"} => objects[k] # "unborn"
         /\ call' = [call EXCEPT ![c] =
              [NoCall EXCEPT !.op = op, !.page = p, !.at = p, !.late = Trashed(c[1], k),
                 !.pc = CASE op \in {"get", "range"} -> "read" [] op = "put" -> "create"
                          [] op = "drop" -> "forget" [] OTHER -> "trash"]]
  /\ UNCHANGED <<objects, pages, persisted, lock, tab, job, gone, orphans, faults>>

\* A miss on a range looks for the whole object, and then asks the provider.
AfterMiss(r) == IF r.pc = "read" /\ r.op = "range" THEN "full" ELSE "fetch"

Read(c) ==
  /\ call[c].pc \in {"read", "full"}
  /\ \E p \in {IF call[c].pc = "full" THEN Full(call[c].page[1]) ELSE call[c].page} :
       \E next \in {AfterMiss(call[c])} :
         call' = [call EXCEPT ![c].at = p, ![c].then = next,
                    ![c].pc = CASE pages[p] = "none" -> next [] pages[p] = "whole" -> "touch"
                                [] pages[p] = "torn" -> "forget"]
  /\ UNCHANGED <<objects, pages, persisted, lock, tab, job, gone, orphans, calls, faults>>

\* openIndex: the first call that needs the index starts its reconciliation.
NeedsIndex == {"touch", "cache", "forgot"}

OpenIndex(t) ==
  /\ tab[t].index = "none" /\ \E c \in CallIds : c[1] = t /\ call[c].pc \in NeedsIndex
  /\ tab' = [tab EXCEPT ![t].index = "opening"]
  /\ job' = [job EXCEPT ![t] = [NoJob EXCEPT !.kind = "open", !.pc = "index"]]
  /\ UNCHANGED <<objects, pages, persisted, lock, call, gone, orphans, calls, faults>>

\* The end of a call, or of its part before "then".
Ended(r) == IF r.then = "end" THEN [r EXCEPT !.pc = "idle"] ELSE [r EXCEPT !.pc = r.then]

Touch(c) ==
  /\ call[c].pc = "touch" /\ tab[c[1]].index \in {"open", "failed"}
  /\ tab' = IF tab[c[1]].index = "open"
              THEN [tab EXCEPT ![c[1]] = Record(@, call[c].at)] ELSE tab
  /\ call' = [call EXCEPT ![c].pc = "idle", ![c].hit = TRUE]
  /\ UNCHANGED <<objects, pages, persisted, lock, job, gone, orphans, calls, faults>>

\* The provider's answer; an absent object ends the call.
Fetch(c) ==
  /\ call[c].pc = "fetch"
  /\ call' = [call EXCEPT ![c].at = call[c].page, ![c].then = "end",
                ![c].pc = IF objects[call[c].page[1]] = "live" THEN "cache" ELSE "idle"]
  /\ UNCHANGED <<objects, pages, persisted, lock, tab, job, gone, orphans, calls, faults>>

Create(c) ==
  /\ call[c].pc = "create"
  /\ \E k \in {call[c].page[1]} :
       /\ objects' = [objects EXCEPT ![k] = IF @ = "unborn" THEN "live" ELSE @]
       /\ call' = [call EXCEPT ![c].pc = IF objects[k] = "unborn" THEN "cache" ELSE "idle"]
  /\ UNCHANGED <<pages, persisted, lock, tab, job, gone, orphans, calls, faults>>

Trash(c) ==
  /\ call[c].pc = "trash"
  /\ objects' = [objects EXCEPT ![call[c].page[1]] = "gone"]
  /\ call' = [call EXCEPT ![c].pc = "forget"]
  /\ UNCHANGED <<pages, persisted, lock, tab, job, gone, orphans, calls, faults>>

----
(* put and remove of the cache                                             *)

\* A call that must flush starts one, or waits for the one that is running.
Flushing(t) ==
  job' = IF job[t].pc # "none" THEN job
         ELSE [job EXCEPT ![t] = [NoJob EXCEPT !.kind = "flush", !.pc = "lock"]]

\* flushIfDue: the index is dirty and the interval has passed, or has not.
FlushIfDue(c, r) ==
  \/ /\ Flushing(c[1])
     /\ call' = [call EXCEPT ![c] = [r EXCEPT !.pc = "flush"]]
  \/ /\ call' = [call EXCEPT ![c] = Ended(r)]
     /\ UNCHANGED job

\* reserve: the next victim, or what follows the last one.
Reserve(c, v, r) ==
  IF Fits(v, r.at) \/ r.order \ {r.at} = {}
    THEN IF r.evicted
           THEN /\ Flushing(c[1])
                /\ call' = [call EXCEPT ![c] = [r EXCEPT !.pc = "flush", !.then = "write"]]
           ELSE call' = [call EXCEPT ![c] = [r EXCEPT !.pc = "write"]] /\ UNCHANGED job
    ELSE \E x \in r.order \ {r.at} :
           /\ call' = [call EXCEPT ![c] = [r EXCEPT !.pc = "evict", !.order = @ \ {x},
                                                   !.evicted = TRUE, !.victim = x]]
           /\ UNCHANGED job

Cache(c) ==
  /\ call[c].pc = "cache"
  /\ \/ /\ tab[c[1]].index = "open"
        /\ Reserve(c, tab[c[1]], [call[c] EXCEPT !.order = tab[c[1]].entries])
     \/ /\ tab[c[1]].index = "failed"
        /\ call' = [call EXCEPT ![c].pc = "idle"] /\ UNCHANGED job
  /\ UNCHANGED <<objects, pages, persisted, lock, tab, gone, orphans, calls, faults>>

\* The row of p goes while its page is there: its removal was refused, or a put has
\* stored it again since.
Orphaned(p) == orphans' = IF pages'[p] # "none" THEN orphans \cup {p} ELSE orphans

\* A removal; one the backend refuses is taken for done.
Removed(p) ==
  \/ pages' = [pages EXCEPT ![p] = "none"] /\ UNCHANGED faults
  \/ Fault("remove") /\ UNCHANGED pages

Evict(c) ==
  /\ call[c].pc = "evict"
  /\ Removed(call[c].victim)
  /\ \E v \in {[Evicted(tab[c[1]], call[c].victim) EXCEPT !.dirty = TRUE]} :
       tab' = [tab EXCEPT ![c[1]] = v] /\ Reserve(c, v, call[c])
  /\ Orphaned(call[c].victim)
  /\ UNCHANGED <<objects, persisted, lock, gone, calls>>

Write(c) ==
  /\ call[c].pc = "write"
  /\ pages' = [pages EXCEPT ![call[c].at] = "whole"]
  /\ tab' = [tab EXCEPT ![c[1]] = Record(@, call[c].at)]
  /\ FlushIfDue(c, [call[c] EXCEPT !.then = "end"])
  /\ UNCHANGED <<objects, persisted, lock, gone, orphans, calls, faults>>

WriteFails(c) ==
  /\ call[c].pc = "write" /\ Fault("write")
  /\ call' = [call EXCEPT ![c].pc = "idle"]
  /\ UNCHANGED <<objects, pages, persisted, lock, tab, job, gone, orphans, calls>>

\* forget: the page goes, then its row, at once where the index is open.
Unlist(c, v) ==
  /\ gone' = IF call[c].op = "trash" THEN [gone EXCEPT ![c[1]] = @ \cup {call[c].at[1]}] ELSE gone
  /\ IF v.index = "open" /\ call[c].at \in v.entries
       THEN /\ tab' = [tab EXCEPT ![c[1]] =
                 [v EXCEPT !.entries = @ \ {call[c].at}, !.total = @ - 1, !.dirty = TRUE]]
            /\ FlushIfDue(c, call[c])
            /\ Orphaned(call[c].at)
       ELSE /\ tab' = [tab EXCEPT ![c[1]] = v]
            /\ call' = [call EXCEPT ![c] = Ended(@)]
            /\ UNCHANGED <<job, orphans>>

Forget(c) ==
  /\ call[c].pc = "forget"
  /\ Removed(call[c].at)
  /\ \E v \in {[tab[c[1]] EXCEPT !.dropped = @ \cup {call[c].at}]} :
       IF v.index \in {"open", "failed"} THEN Unlist(c, v)
       ELSE /\ tab' = [tab EXCEPT ![c[1]] = v]
            /\ call' = [call EXCEPT ![c].pc = "forgot"]
            /\ UNCHANGED <<job, gone, orphans>>
  /\ UNCHANGED <<objects, persisted, lock, calls>>

Forgot(c) ==
  /\ call[c].pc = "forgot" /\ tab[c[1]].index \in {"open", "failed"}
  /\ UNCHANGED pages /\ Unlist(c, tab[c[1]])
  /\ UNCHANGED <<objects, persisted, lock, calls, faults>>

----
(* reconcile and flush                                                     *)

\* reconcile: the record is read, then the directory is listed.
ReadIndex(t) ==
  /\ job[t].pc = "index"
  /\ job' = [job EXCEPT ![t].pc = "list"]
  /\ UNCHANGED <<objects, pages, persisted, lock, tab, call, gone, orphans, calls, faults>>

\* Fault: the merged rows are written as they are.
EvictToBudgetBug(t, v, j) ==
  job' = [job EXCEPT ![t] = IF j.kind = "open" THEN [j EXCEPT !.pc = "lock"]
                            ELSE [j EXCEPT !.pc = "write", !.rows = v.entries]]

\* evictToBudget: the next victim, or what follows the last one.
EvictToBudget(t, v, j) ==
  IF OverBudget(v) /\ j.order # {}
    THEN \E x \in j.order :
           job' = [job EXCEPT ![t] = [j EXCEPT !.pc = "evict", !.order = @ \ {x}, !.victim = x]]
    ELSE job' = [job EXCEPT ![t] =
           IF j.kind = "open" THEN [j EXCEPT !.pc = "lock"]
           ELSE [j EXCEPT !.pc = "write", !.rows = v.entries]]

\* Fault: the index is opened from the rows of its record.
AdoptedBug == IF persisted = NoIndex THEN {} ELSE persisted

Adopted == Resident

List(t) ==
  /\ job[t].pc = "list"
  /\ \E v \in {[tab[t] EXCEPT !.entries = Adopted, !.total = Cardinality(Adopted)]} :
       tab' = [tab EXCEPT ![t] = v] /\ EvictToBudget(t, v, [job[t] EXCEPT !.order = v.entries])
  /\ orphans' = orphans \ Resident
  /\ UNCHANGED <<objects, pages, persisted, lock, call, gone, calls, faults>>

\* No index, no ceiling: the tab caches nothing until it is reloaded.
ListFails(t) ==
  /\ job[t].pc = "list" /\ Fault("list")
  /\ tab' = [tab EXCEPT ![t].index = "failed"]
  /\ job' = [job EXCEPT ![t] = NoJob]
  /\ UNCHANGED <<objects, pages, persisted, lock, call, gone, orphans, calls>>

JobEvict(t) ==
  /\ job[t].pc = "evict"
  /\ Removed(job[t].victim)
  /\ \E v \in {Evicted(tab[t], job[t].victim)} :
       tab' = [tab EXCEPT ![t] = v] /\ EvictToBudget(t, v, job[t])
  /\ Orphaned(job[t].victim)
  /\ UNCHANGED <<objects, persisted, lock, call, gone, calls>>

\* The exclusive index lock; under it a flush reads the record and merges.
Lock(t) ==
  /\ job[t].pc = "lock" /\ lock = {}
  /\ lock' = {t}
  /\ job' = [job EXCEPT ![t].pc = IF job[t].kind = "open" THEN "write" ELSE "merge",
                        ![t].rows = tab[t].entries]
  /\ UNCHANGED <<objects, pages, persisted, tab, call, gone, orphans, calls, faults>>

MergeIndex(t) ==
  /\ job[t].pc = "merge"
  /\ \E v \in {IF persisted = NoIndex THEN tab[t] ELSE Merge(tab[t], persisted)} :
       tab' = [tab EXCEPT ![t] = v] /\ EvictToBudget(t, v, [job[t] EXCEPT !.order = v.entries])
  /\ UNCHANGED <<objects, pages, persisted, lock, call, gone, orphans, calls, faults>>

\* Fault: a flush that ends does not wake the calls that joined it.
ResumedBug(t) == call

\* The calls that wait for this flush go on.
Resumed(t) ==
  [c \in CallIds |-> IF c[1] = t /\ call[c].pc = "flush" THEN Ended(call[c]) ELSE call[c]]

\* Fault: a flush that ends leaves itself as the one to wait for.
JobEndsBug(t, v) ==
  /\ tab' = [tab EXCEPT ![t] = [v EXCEPT !.index = "open"]]
  /\ job' = [job EXCEPT ![t].pc = IF job[t].kind = "flush" THEN "stuck" ELSE "none"]
  /\ lock' = lock \ {t}
  /\ call' = Resumed(t)

JobEnds(t, v) ==
  /\ tab' = [tab EXCEPT ![t] = [v EXCEPT !.index = "open"]]
  /\ job' = [job EXCEPT ![t] = NoJob]
  /\ lock' = lock \ {t}
  /\ call' = Resumed(t)

\* Removals and records since the rows were encoded are taken for flushed.
WriteIndex(t) ==
  /\ job[t].pc = "write"
  /\ persisted' = job[t].rows
  /\ JobEnds(t, [tab[t] EXCEPT !.dirty = FALSE,
                               !.dropped = IF job[t].kind = "flush" THEN {} ELSE @])
  /\ UNCHANGED <<objects, pages, gone, orphans, calls, faults>>

\* The record cannot be written, or the wait for the lock ran out.
IndexFails(t) ==
  /\ \/ job[t].pc = "write" /\ Fault("write")
     \/ job[t].pc = "lock" /\ lock \notin {{}, {t}} /\ Fault("lock")
  /\ JobEnds(t, [tab[t] EXCEPT !.dirty = IF job[t].kind = "open" THEN FALSE ELSE @])
  /\ UNCHANGED <<objects, pages, persisted, gone, orphans, calls>>

\* The tab goes away, in the middle of a write if there is one; it comes back.
Crash(t) ==
  /\ Fault("crash")
  /\ \E torn \in SUBSET {call[c].at : c \in {d \in CallIds : d[1] = t /\ call[d].pc = "write"}} :
       pages' = [p \in CachePages |-> IF p \in torn THEN "torn" ELSE pages[p]]
  /\ persisted' \in IF job[t].pc = "write" THEN {persisted, NoIndex} ELSE {persisted}
  /\ orphans' = orphans \cup tab[t].entries
                \cup {call[c].at : c \in {d \in CallIds : d[1] = t /\ call[d].pc = "write"}}
  /\ lock' = lock \ {t}
  /\ tab' = [tab EXCEPT ![t] = NewTab]
  /\ job' = [job EXCEPT ![t] = NoJob]
  /\ call' = [c \in CallIds |-> IF c[1] = t THEN NoCall ELSE call[c]]
  /\ gone' = [gone EXCEPT ![t] = {}]
  /\ UNCHANGED <<objects, calls>>

CallStep(c) ==
  \/ Read(c) \/ Touch(c) \/ Fetch(c) \/ Create(c) \/ Trash(c)
  \/ Cache(c) \/ Evict(c) \/ Write(c) \/ Forget(c) \/ Forgot(c)

TabStep(t) ==
  \/ OpenIndex(t) \/ ReadIndex(t) \/ List(t) \/ JobEvict(t) \/ Lock(t)
  \/ MergeIndex(t) \/ WriteIndex(t)

Next ==
  \/ \E c \in CallIds : Begin(c) \/ CallStep(c) \/ WriteFails(c)
  \/ \E t \in Tabs : TabStep(t) \/ ListFails(t) \/ IndexFails(t) \/ Crash(t)

Spec == Init /\ [][Next]_vars

\* The page backend answers every request, and the lock is granted in turn.
FairSpec ==
  /\ Spec
  /\ \A c \in CallIds : WF_vars(CallStep(c))
  /\ \A t \in Tabs : WF_vars(TabStep(t)) /\ SF_vars(Lock(t))

----
(* Properties                                                              *)

\* Rows, pages, calls and jobs keep their shapes, and at most one tab is under the lock.
TypeOK ==
  /\ objects \in [Keys -> {"unborn", "live", "gone"}]
  /\ pages \in [CachePages -> {"none", "whole", "torn"}]
  /\ persisted = NoIndex \/ persisted \subseteq CachePages
  /\ Cardinality(lock) <= 1 /\ lock \subseteq Tabs
  /\ \A t \in Tabs :
       /\ tab[t].index \in {"none", "opening", "open", "failed"}
       /\ tab[t].entries \subseteq CachePages /\ tab[t].total \in Int /\ tab[t].dropped \subseteq CachePages
       /\ (job[t].kind = "flush" /\ job[t].pc \in {"merge", "evict", "write"}) => lock = {t}
       /\ (\E c \in CallIds : c[1] = t /\ call[c].pc = "flush") => job[t].kind = "flush"
  /\ orphans \subseteq CachePages

\* The pages in the directory stay under the ceiling that put reserves room under, orphans
\* aside.  A tab does not see what another wrote until it flushes, so each may fill its own
\* budget; and puts of one tab that reserved room together may go over by one page each.
\* Bytes are bounded for one call at a time: a row that two calls evict is taken off twice.
Ceiling ==
  /\ Cardinality(Resident \ orphans) <= Cardinality(Tabs) * (MaxEntries + Cardinality(Slots) - 1)
  /\ Cardinality(Slots) = 1 => Cardinality(Resident \ orphans) <= Cardinality(Tabs) * MaxBytes

\* Every page in the directory is a row of a live tab or of the record: none is out of every
\* eviction's reach, whatever records were merged, lost or written over.  Excepted is a page
\* whose row went with a crashed tab, or was taken out while the page was there, until a tab
\* lists the directory.
Accounted ==
  Resident \subseteq UNION {tab[t].entries : t \in Tabs} \cup orphans
                     \cup (IF persisted = NoIndex THEN {} ELSE persisted)

\* The record a flush or a reconciliation leaves is within the budget it was evicted to.
RecordWithinBudget ==
  persisted # NoIndex => Cardinality(persisted) <= MaxEntries /\ Cardinality(persisted) <= MaxBytes

\* A tab's view never gains a row for a page that is not in the directory, unless another
\* tab removed the page since this one read it or since the record was written.  Even then
\* a merge does not revive what the tab itself removed since its last flush.
NoPhantom ==
  \A t \in Tabs : \A p \in tab'[t].entries \ tab[t].entries :
    \/ pages'[p] # "none"
    \/ Tabs # {t} /\ (job[t].pc = "merge" => p \notin tab[t].dropped)

\* A row leaves the record only with its page: no tab's pages are erased from the shared
\* inventory.  Two cases are excepted: a flush leaves out a page its tab removed since its
\* last flush though another tab has stored it again; and a reconciliation writes what it
\* listed before it took the lock, over the rows flushed since.
RowsKept ==
  (persisted # NoIndex /\ persisted' # NoIndex) =>
    \A p \in persisted \ persisted' :
      \/ pages'[p] = "none"
      \/ \E t \in lock : job[t].kind = "open" \/ p \in tab[t].dropped

\* The same without the exceptions.  It does not hold.
RowsKeptAlways ==
  (persisted # NoIndex /\ persisted' # NoIndex) =>
    \A p \in persisted \ persisted' : pages'[p] = "none"

\* Once trash has returned in a tab, no later read of that key there is served from the cache.
NotServedOnceTrashed == \A c \in CallIds : ~(call[c].late /\ call[c].hit)

\* Every call ends: no flush, lock or reconciliation wedges the store under the cache.
Busy(c) == call[c].pc # "idle"
CallsEnd == \A c \in CallIds : Busy(c) ~> ~Busy(c)
===============================================================================
