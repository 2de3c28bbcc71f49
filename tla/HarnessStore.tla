------------------------------ MODULE HarnessStore ------------------------------
(***************************************************************************)
(* The continual harness of prime/harness/store.ts and harness.ts: entries *)
(* and refinement events in one IndexedDB store that several tabs share,   *)
(* each tab working from a cache of it.  A mutation is computed from the   *)
(* cache, sent as one batch that names what it expects to replace, and     *)
(* applied to the cache when the batch has landed.                         *)
(*                                                                         *)
(* Transactions of IndexedDB over one object store run in the order they   *)
(* were opened, so what the tabs sent is one queue.  What a call does      *)
(* between two of them runs without interruption and is one step.  A cache *)
(* that a tab replaced or dropped is only written by calls that still hold *)
(* it, so a call keeps no more than whether its cache is still the tab's.  *)
(*                                                                         *)
(* Abstractions.  An entry is its version and a number for its text and    *)
(* times, new with every write; titles, kinds, skill contracts and scopes  *)
(* are left out: a key stands for a scope, kind and id.  An event id is    *)
(* the millisecond it was made in and its suffix.  Corrupt records are     *)
(* left out.  A call that is refused before it sends anything is no step   *)
(* unless it had to read.                                                  *)
(***************************************************************************)
EXTENDS Naturals, Sequences, FiniteSets

CONSTANTS Tabs, Keys,
          Ops,         \* "get", "create", "update", "delete", "plan", "rollback"
          Proposals,   \* the edits a model may propose: sequences of [action, key]
          Versions,    \* what expectedVersion callers give; 0 is none
          Elapsed,     \* how far the clock may move from one event to the next
          Faults,      \* "fail", "reload"
          MaxCalls,    \* bound on the calls of a tab at a time
          MaxWrites,   \* bound on the entries written
          MaxTick, MaxSuffix,  \* bounds on event ids
          MaxFaults

Edits == [action : {"create", "update", "delete"}, key : Keys]

HarnessAssumption ==
  /\ Proposals \subseteq Seq(Edits) \ {<<>>}
  /\ Versions \subseteq Nat /\ Elapsed \subseteq Nat
  /\ Faults \subseteq {"fail", "reload"}
  /\ {MaxCalls, MaxWrites, MaxTick, MaxSuffix, MaxFaults} \subseteq Nat

VARIABLES db,      \* the stored records
          cache,   \* each tab's cache
          plan,    \* each tab's plan: the baseline of a refinement
          queue,   \* the transactions that were sent
          clock,   \* the millisecond of the last event
          writes,  \* the entries written so far
          last,    \* the tab that last changed an entry
          used     \* Faults so far

vars == <<db, cache, plan, queue, clock, writes, last, used>>

(***************************************************************************)
(* Records.                                                                *)
(***************************************************************************)

Nobody == "nobody"
Absent == [version |-> 0, text |-> 0]
EventIds == (1..MaxTick) \X (1..MaxSuffix)
NoEventId == <<0, 0>>
NoEvent == <<>>   \* an event is the sequence of its applied edits

Empty == [held |-> TRUE, entries |-> [k \in Keys |-> Absent], events |-> [e \in EventIds |-> NoEvent]]
NoCache == [Empty EXCEPT !.held = FALSE]

EventsOf(c) == {e \in EventIds : c.events[e] # NoEvent}
KeysOf(ev) == {ev[i].key : i \in DOMAIN ev}
FirstOf(ev, k) == CHOOSE i \in DOMAIN ev : ev[i].key = k /\ \A j \in DOMAIN ev : ev[j].key = k => i <= j
LastOf(ev, k) == CHOOSE i \in DOMAIN ev : ev[i].key = k /\ \A j \in DOMAIN ev : ev[j].key = k => j <= i

Put(k, new, old) == [key |-> k, put |-> new, expected |-> old]

\* Fault: what the first edit found is not kept.
RecordBug(e, ev) ==
  [id |-> e, put |-> [ev EXCEPT ![1].before = Absent], expected |-> NoEvent, checked |-> FALSE]

\* Fault: an edit is recorded as an action that no reader of events knows.
RecordActionBug(e, ev) ==
  [id |-> e, put |-> [ev EXCEPT ![1].action = "upsert"], expected |-> NoEvent, checked |-> FALSE]

\* An event is put without an expectation.
Record(e, ev) == [id |-> e, put |-> ev, expected |-> NoEvent, checked |-> FALSE]

(***************************************************************************)
(* What a batch does: every expectation is checked against the records as  *)
(* the earlier writes of the batch leave them.                             *)
(***************************************************************************)

Staged(entries, ws) ==
  LET staged[i \in 0..Len(ws)] ==
        IF i = 0 THEN entries ELSE [staged[i - 1] EXCEPT ![ws[i].key] = ws[i].put]
  IN staged

\* Fault: an update or deletion is written whatever is stored.
ConflictsBug(d, call) ==
  {i \in DOMAIN call.writes : call.writes[i].expected = Absent /\ d.entries[call.writes[i].key] # Absent}

Conflicts(d, call) ==
  {i \in DOMAIN call.writes : call.writes[i].expected # Staged(d.entries, call.writes)[i - 1][call.writes[i].key]}

EventConflicts(d, call) == {r \in call.records : r.checked /\ r.expected # d.events[r.id]}

Landed(d, call) ==
  [d EXCEPT !.entries = Staged(@, call.writes)[Len(call.writes)],
            !.events = [e \in EventIds |-> IF \E r \in call.records : r.id = e
                                           THEN (CHOOSE r \in call.records : r.id = e).put ELSE @[e]]]

\* commit names a collision of a create as a duplicate, which is no
\* OptimisticConcurrencyError.
Duplicate(d, call) ==
  /\ Conflicts(d, call) # {}
  /\ LET first == CHOOSE i \in Conflicts(d, call) : \A j \in Conflicts(d, call) : i <= j
     IN \E i \in DOMAIN call.writes : /\ call.writes[i].key = call.writes[first].key
                                      /\ call.writes[i].put # Absent
                                      /\ call.writes[i].expected = Absent

(***************************************************************************)
(* Refinements.                                                            *)
(***************************************************************************)

Before(edits, i) == {j \in 1..(i - 1) : edits[j].key = edits[i].key}
Latest(S) == CHOOSE j \in S : \A k \in S : k <= j

\* Whether the target of an edit exists, after the edits before it.
Exists(entries, edits, i) ==
  IF Before(edits, i) = {} THEN entries[edits[i].key] # Absent
  ELSE edits[Latest(Before(edits, i))].action # "delete"

\* Fault: the baseline is not compared.
validateBug(entries, edits, baseline) ==
  \A i \in DOMAIN edits : (edits[i].action = "create") = ~Exists(entries, edits, i)

\* validateRefinementEdits: one issue rejects the proposal.  The baseline is
\* compared where an edit is the first of its key.
validate(entries, edits, baseline) ==
  \A i \in DOMAIN edits :
    /\ (edits[i].action = "create") = ~Exists(entries, edits, i)
    /\ Before(edits, i) = {} => baseline[edits[i].key] = entries[edits[i].key]

\* The applied edits, each with the entry it found and the one it left.
Applied(entries, edits, base) ==
  LET applied[i \in DOMAIN edits] ==
        LET old == IF Before(edits, i) = {} THEN entries[edits[i].key]
                   ELSE applied[Latest(Before(edits, i))].after
        IN [action |-> edits[i].action, key |-> edits[i].key, before |-> old,
            after |-> IF edits[i].action = "delete" THEN Absent
                      ELSE [version |-> old.version + 1, text |-> base + i]]
  IN applied

\* uniqueEventId looks at the cache.
uniqueEventId(c, tick) ==
  <<tick, CHOOSE n \in 1..MaxSuffix : /\ <<tick, n>> \notin EventsOf(c)
                                      /\ \A m \in 1..(n - 1) : <<tick, m>> \in EventsOf(c)>>

Reversed(ev) == [i \in DOMAIN ev |-> ev[Len(ev) + 1 - i]]

\* Fault: only an entry that vanished is refused.
RollbackRefusedBug(c, ev) == \E i \in DOMAIN ev : ev[i].after # Absent /\ c.entries[ev[i].key] = Absent

\* Fault: the entry is compared with what was there before.
RollbackRefusedStrictBug(c, ev) == \E i \in DOMAIN ev : c.entries[ev[i].key] # ev[i].before

\* rollback refuses an edit whose result is not what the cache holds; a
\* deletion has no result to compare.
RollbackRefused(c, ev) ==
  \E i \in DOMAIN ev : ev[i].after # Absent /\ c.entries[ev[i].key] # ev[i].after

\* Fault: what was before is written as a further version.
RestoresBug(c, ev) ==
  [i \in DOMAIN ev |->
     Put(Reversed(ev)[i].key,
         IF Reversed(ev)[i].before = Absent THEN Absent
         ELSE [Reversed(ev)[i].before EXCEPT !.version = c.entries[Reversed(ev)[i].key].version + 1],
         c.entries[Reversed(ev)[i].key])]

\* What was before each edit, written over what the cache holds, last edit first.
Restores(c, ev) ==
  [i \in DOMAIN ev |-> Put(Reversed(ev)[i].key, Reversed(ev)[i].before, c.entries[Reversed(ev)[i].key])]

\* The event of a rollback: the edits the other way round.
RolledBack(ev) ==
  [i \in DOMAIN ev |->
     LET e == Reversed(ev)[i]
     IN [action |-> CASE e.before = Absent -> "delete" [] e.after = Absent -> "create" [] OTHER -> "update",
         key |-> e.key, before |-> e.after, after |-> e.before]]

\* Which entries and events a restore of a snapshot has to change.
SetRight(c, wanted) ==
  LET keys == {k \in Keys : c.entries[k] # wanted.entries[k]}
      order == CHOOSE s \in [1..Cardinality(keys) -> keys] : \A k \in keys : \E i \in DOMAIN s : s[i] = k
  IN [i \in 1..Cardinality(keys) |-> Put(order[i], wanted.entries[order[i]], c.entries[order[i]])]

(***************************************************************************)
(* Calls.                                                                  *)
(***************************************************************************)

NoCall == [tab |-> Nobody, kind |-> "none", stage |-> "read", key |-> "none", expected |-> 0,
           base |-> 0, edits |-> <<>>, baseline |-> Empty.entries, target |-> NoEventId, safety |-> NoCache,
           writes |-> <<>>, records |-> {}, mine |-> FALSE]

Send(call, ws, rs) == [call EXCEPT !.stage = "write", !.writes = ws, !.records = rs, !.mine = TRUE]

\* What a call sends when it has the cache c at the given time; nothing if it is
\* refused or has nothing to do.
Sent(call, c, tick) ==
  LET old == c.entries[call.key]
      new(v) == [version |-> v, text |-> call.base + 1]
      ev == Applied(c.entries, call.edits, call.base)
      target == c.events[call.target]
  IN CASE call.kind = "create" ->
            IF old = Absent THEN {Send(call, <<Put(call.key, new(1), Absent)>>, {})} ELSE {}
       [] call.kind = "update" ->
            IF old # Absent /\ call.expected \in {0, old.version}
            THEN {Send(call, <<Put(call.key, new(old.version + 1), old)>>, {})} ELSE {}
       [] call.kind = "delete" ->
            IF old # Absent /\ call.expected \in {0, old.version}
            THEN {Send(call, <<Put(call.key, Absent, old)>>, {})} ELSE {}
       [] call.kind = "refine" ->
            IF validate(c.entries, call.edits, call.baseline)
            THEN {Send([call EXCEPT !.safety = c],
                       [i \in DOMAIN ev |-> Put(ev[i].key, ev[i].after, ev[i].before)],
                       {Record(uniqueEventId(c, tick), ev)})} ELSE {}
       [] call.kind = "rollback" ->
            IF call.target \in EventsOf(c) /\ ~RollbackRefused(c, target)
            THEN {Send(call, Restores(c, target), {Record(uniqueEventId(c, tick), RolledBack(target))})}
            ELSE {}
       [] call.kind = "restore" ->
            {Send(call, SetRight(c, call.safety),
                  {[id |-> e, put |-> call.safety.events[e], expected |-> c.events[e], checked |-> TRUE] :
                     e \in {x \in EventIds : c.events[x] # call.safety.events[x]}})}
       [] OTHER -> {}

Calls(t) == {i \in DOMAIN queue : queue[i].tab = t}
Detached(q, t) == [i \in DOMAIN q |-> IF q[i].tab = t THEN [q[i] EXCEPT !.mine = FALSE] ELSE q[i]]
Timed(call) == call.kind \in {"refine", "rollback"}

Init ==
  /\ db = Empty
  /\ cache = [t \in Tabs |-> NoCache]
  /\ plan = [t \in Tabs |-> [made |-> FALSE, baseline |-> Empty.entries]]
  /\ queue = <<>> /\ clock = 0 /\ writes = 0
  /\ last = [k \in Keys |-> Nobody]
  /\ used = 0

\* A call goes on with the cache c, behind the transactions q.
Proceed(call, c, q) ==
  \E tick \in IF Timed(call) THEN {clock + d : d \in Elapsed} ELSE {clock} :
    /\ Timed(call) => /\ tick \in 1..MaxTick
                      /\ \E n \in 1..MaxSuffix : <<tick, n>> \notin EventsOf(c)
    /\ clock' = tick
    /\ \E sent \in {Sent(call, c, tick)} :
         queue' = IF sent = {} THEN q ELSE Append(q, CHOOSE x \in sent : TRUE)

\* ensureCache, then what the call does with it.
Enter(call) ==
  /\ Cardinality(Calls(call.tab)) < MaxCalls
  /\ IF cache[call.tab].held
     THEN Proceed(call, cache[call.tab], queue) /\ queue' # queue
     ELSE queue' = Append(queue, call) /\ UNCHANGED clock
  /\ UNCHANGED <<db, cache, last, used>>

\* list or get, which leave nothing but a cache.
Get(t) ==
  /\ "get" \in Ops /\ ~cache[t].held
  /\ Enter([NoCall EXCEPT !.tab = t, !.kind = "get"])
  /\ UNCHANGED <<plan, writes>>

Create(t, k) ==
  /\ "create" \in Ops /\ writes < MaxWrites
  /\ Enter([NoCall EXCEPT !.tab = t, !.kind = "create", !.key = k, !.base = writes])
  /\ writes' = writes + 1 /\ UNCHANGED plan

Update(t, k, v) ==
  /\ "update" \in Ops /\ writes < MaxWrites
  /\ Enter([NoCall EXCEPT !.tab = t, !.kind = "update", !.key = k, !.expected = v, !.base = writes])
  /\ writes' = writes + 1 /\ UNCHANGED plan

Delete(t, k, v) ==
  /\ "delete" \in Ops
  /\ Enter([NoCall EXCEPT !.tab = t, !.kind = "delete", !.key = k, !.expected = v])
  /\ UNCHANGED <<plan, writes>>

\* planRefinement lists the entries, then asks a model.
Plan(t) ==
  /\ "plan" \in Ops /\ ~plan[t].made
  /\ IF cache[t].held
     THEN /\ plan' = [plan EXCEPT ![t] = [made |-> TRUE, baseline |-> cache[t].entries]]
          /\ UNCHANGED <<db, cache, queue, clock, last, used>>
     ELSE /\ Enter([NoCall EXCEPT !.tab = t, !.kind = "plan"])
          /\ UNCHANGED plan
  /\ UNCHANGED writes

\* proposeAndApply: a snapshot, and applyRefinement with the baseline.
Propose(t, edits) ==
  /\ plan[t].made /\ writes + Len(edits) <= MaxWrites
  /\ Enter([NoCall EXCEPT !.tab = t, !.kind = "refine", !.edits = edits,
                          !.baseline = plan[t].baseline, !.base = writes])
  /\ plan' = [plan EXCEPT ![t] = [made |-> FALSE, baseline |-> Empty.entries]]
  /\ writes' = writes + Len(edits)

Rollback(t, e) ==
  /\ "rollback" \in Ops
  /\ Enter([NoCall EXCEPT !.tab = t, !.kind = "rollback", !.target = e])
  /\ UNCHANGED <<plan, writes>>

First == Head(queue)

\* readAll: the records become the cache of the tab, whatever cache it has by now.
ReadAll ==
  /\ queue # <<>> /\ First.stage = "read"
  /\ cache' = [cache EXCEPT ![First.tab] = db]
  /\ plan' = IF First.kind = "plan" THEN [plan EXCEPT ![First.tab] = [made |-> TRUE, baseline |-> db.entries]]
             ELSE plan
  /\ Proceed(First, db, Detached(Tail(queue), First.tab))
  /\ UNCHANGED <<db, writes, last, used>>

\* Fault: a deletion stays in the cache.
InCacheBug(c, call) ==
  IF call.kind = "delete" THEN c ELSE IF call.kind = "restore" THEN call.safety ELSE Landed(c, call)

\* The apply callback of commit.
InCache(c, call) == IF call.kind = "restore" THEN call.safety ELSE Landed(c, call)

\* transact takes the batch.
Transact ==
  /\ queue # <<>> /\ First.stage = "write"
  /\ Conflicts(db, First) = {} /\ EventConflicts(db, First) = {}
  /\ db' = Landed(db, First)
  /\ cache' = [cache EXCEPT ![First.tab] = IF First.mine THEN InCache(@, First) ELSE @]
  /\ last' = [k \in Keys |-> IF db'.entries[k] # db.entries[k] THEN First.tab ELSE last[k]]
  /\ queue' = Tail(queue)
  /\ UNCHANGED <<plan, clock, writes, used>>

\* Fault: a snapshot without entries is restored.
ThrownBug(restores) ==
  /\ cache' = [cache EXCEPT ![First.tab] = NoCache]
  /\ queue' = Append(Detached(Tail(queue), First.tab),
                     [NoCall EXCEPT !.tab = First.tab, !.kind = "restore", !.safety = Empty])
  /\ UNCHANGED <<db, plan, clock, writes, last>>

\* A failed batch drops the cache; proposeAndApply restores its snapshot
\* unless the error says it was an optimistic conflict.
Thrown(restores) ==
  /\ cache' = [cache EXCEPT ![First.tab] = NoCache]
  /\ \E q \in {Detached(Tail(queue), First.tab)} :
       queue' = IF First.kind = "refine" /\ restores
                THEN Append(q, [NoCall EXCEPT !.tab = First.tab, !.kind = "restore", !.safety = First.safety])
                ELSE q
  /\ UNCHANGED <<db, plan, clock, writes, last>>

Conflict ==
  /\ queue # <<>> /\ First.stage = "write"
  /\ Conflicts(db, First) # {} \/ EventConflicts(db, First) # {}
  /\ Thrown(Duplicate(db, First))
  /\ UNCHANGED used

Fault(f) == f \in Faults /\ used < MaxFaults /\ used' = used + 1

\* The transaction is aborted: nothing of it is stored.
Fail == queue # <<>> /\ First.stage = "write" /\ Fault("fail") /\ Thrown(TRUE)

\* The page is reloaded; what it sent and did not run is gone.
Reload(t) ==
  /\ cache[t].held \/ Calls(t) # {}
  /\ Fault("reload")
  /\ cache' = [cache EXCEPT ![t] = NoCache]
  /\ plan' = [plan EXCEPT ![t] = [made |-> FALSE, baseline |-> Empty.entries]]
  /\ queue' = SelectSeq(queue, LAMBDA c : c.tab # t)
  /\ UNCHANGED <<db, clock, writes, last>>

Next ==
  \/ ReadAll \/ Transact \/ Conflict \/ Fail
  \/ \E t \in Tabs :
       \/ Get(t) \/ Plan(t) \/ Reload(t)
       \/ \E k \in Keys : Create(t, k) \/ \E v \in Versions : Update(t, k, v) \/ Delete(t, k, v)
       \/ \E p \in Proposals : Propose(t, p)
       \/ \E e \in EventIds : Rollback(t, e)

Spec == Init /\ [][Next]_vars

(***************************************************************************)
(* Properties.                                                             *)
(***************************************************************************)

Entries == [version : Nat, text : Nat]
AppliedEdits == [action : {"create", "update", "delete"}, key : Keys, before : Entries, after : Entries]

TypeOK ==
  /\ \A c \in {db} \cup {cache[t] : t \in Tabs} :
       /\ c.held \in BOOLEAN /\ c.entries \in [Keys -> Entries]
       /\ \A e \in EventIds : \A i \in DOMAIN c.events[e] : c.events[e][i] \in AppliedEdits
  /\ \A t \in Tabs : plan[t].made \in BOOLEAN /\ plan[t].baseline \in [Keys -> Entries]
  /\ \A i \in DOMAIN queue : queue[i].tab \in Tabs /\ queue[i].stage \in {"read", "write"}
  /\ last \in [Keys -> Tabs \cup {Nobody}]
  /\ clock \in Nat /\ writes \in Nat /\ used \in Nat

Lands(kinds) == queue # <<>> /\ First.stage = "write" /\ First.kind \in kinds /\ db' # db

\* An update or deletion replaces the stored entry that it was computed from,
\* whichever tab stored it, and the version its caller named (update, delete).
UpdatesBuildOnWhatIsStored ==
  Lands({"create", "update", "delete"}) =>
    \A k \in Keys : db'.entries[k] # db.entries[k] =>
      /\ db'.entries[k].version \in {0, db.entries[k].version + 1}
      /\ First.expected \in {0, db.entries[k].version}

\* The event of a refinement tells what it found in the store and what it left
\* there, edits of one key in a chain, and nothing else changed (applyRefinement).
EventsTellTheTruth ==
  Lands({"refine"}) =>
    \E r \in First.records :
      /\ db'.events[r.id] = r.put
      /\ \A k \in KeysOf(r.put) : /\ r.put[FirstOf(r.put, k)].before = db.entries[k]
                                  /\ r.put[LastOf(r.put, k)].after = db'.entries[k]
      /\ \A k \in Keys \ KeysOf(r.put) : db'.entries[k] = db.entries[k]

\* No entry that changed while the model was planning is edited by the plan
\* (validateRefinementEdits and the expectations of the batch).
BaselineIsRespected ==
  Lands({"refine"}) => \A k \in KeysOf(First.edits) : db.entries[k] = First.baseline[k]

Target(d) == d.events[First.target]

\* A rollback brings back exactly what the refinement found (rollback).
RollbackRestores ==
  Lands({"rollback"}) =>
    \A k \in KeysOf(Target(db)) : db'.entries[k] = Target(db)[FirstOf(Target(db), k)].before

LeftBy(ev, k) == ev[LastOf(ev, k)].after
Drifted(d, ev) == \E k \in KeysOf(ev) : d.entries[k] # LeftBy(ev, k)

\* The entry of k that a rollback counts on.
Seen(k) == {First.writes[i].expected : i \in {j \in DOMAIN First.writes : First.writes[j].key = k}}

\* A rollback replaces no entry that was written after its refinement left it,
\* whichever tab wrote it and however old the rolling tab's cache is (rollback,
\* "refuses on drift").  One case is excepted, as a deletion leaves nothing to
\* compare with: a key the refinement deleted and somebody created again is
\* written over, but only with the entry the rolling tab had in its cache.
RollbackRefusesDrift ==
  Lands({"rollback"}) =>
    \A k \in KeysOf(Target(db)) :
      \/ db.entries[k] = LeftBy(Target(db), k)
      \/ LeftBy(Target(db), k) = Absent /\ Seen(k) = {db.entries[k]}

\* The same without the exception.  It does not hold.
RollbackSparesRecreated == Lands({"rollback"}) => ~Drifted(db, Target(db))

EditsOnce(ev) == \A i, j \in DOMAIN ev : ev[i].key = ev[j].key => i = j

\* A rollback is refused only if something changed after the refinement.  Every
\* edit is compared with the entry as it is now, so a refinement that edits a key
\* twice is excepted: it is refused though nothing changed.
RefusalsMeanDrift ==
  \A t \in Tabs : \A e \in EventsOf(cache[t]) :
    cache[t].held /\ EditsOnce(cache[t].events[e]) /\ RollbackRefused(cache[t], cache[t].events[e]) =>
      Drifted(cache[t], cache[t].events[e])

\* A tab's cache has what the tab stored last (commit).
OwnWritesAreSeen ==
  \A t \in Tabs, k \in Keys : cache[t].held /\ last[k] = t => cache[t].entries[k] = db.entries[k]

\* A refinement that fails changes nothing, as its batch is atomic (proposeAndApply).
FailedRefinementsChangeNothing == ~Lands({"restore"})

\* A stored event is never replaced by another one (uniqueEventId).
EventsAreKept == \A e \in EventsOf(db) : db'.events[e] = db.events[e]
================================================================================
