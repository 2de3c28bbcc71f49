------------------------------- MODULE DriveStore -------------------------------
(***************************************************************************)
(* storage/google-drive-object-store.ts: an object store over a folder of  *)
(* Google Drive, and the sweep of vault/reclamation.ts that removes bodies *)
(* no key reads as.  Drive has no conditional create and names are not     *)
(* unique, so every object is an immutable file and one index file, found  *)
(* by listing and rewritten under If-Match, says which file a key reads as.*)
(*                                                                         *)
(* A page runs one mutating call (write) beside one get, which may wait    *)
(* for a fill of the page's index cache.  Every request to Drive is a step *)
(* of its own.  A request that throws was applied, was lost, or is still   *)
(* on its way when the page has given up on it.                            *)
(*                                                                         *)
(* Abstractions.  An object's ETag is the digest of its content; the HTTP  *)
(* ETag of the index changes with every rewrite, so a counter stands for   *)
(* it.  cacheEpoch is compared only with the epoch a fill began in: `stale'*)
(* says that they differ.  Drive itself (listing, If-Match, trash) is      *)
(* external and taken as the release gates require it to be.  A fill that  *)
(* a newer one replaces is not followed further.  Listing pages and the    *)
(* steps of a resumable upload are one request each.                       *)
(***************************************************************************)
EXTENDS Naturals, Sequences, FiniteSets

CONSTANTS Pages, Keys, Contents, None,
          MaxCasAttempts,   \* MAX_CAS_ATTEMPTS
          MaxObjects,       \* MAX_OBJECTS
          Connected,        \* the folder already holds an index
          SlowCommits,      \* an upload may wait the safety age for its commit
          Operations,       \* the calls the pages may make
          MaxCalls,         \* bound: mutating calls
          MaxGets,          \* bound: gets
          MaxFaults         \* bound: failed requests and closed pages

VARIABLES
  roots,    \* the index files, in the order they were created
  files,    \* the segment files; a file ID is a position in it
  request,  \* each page's mutating call, open or last finished
  out,      \* its outcome, "pending" while it is open
  pc,       \* where the call continues once its index is loaded
  tries,    \* attempts its index rewrite has lost
  loaded,   \* the index its last load returned
  mine,     \* the file it uploaded in this attempt
  todo,     \* files it still has to move to the trash
  loads,    \* the index load of the call and of the page's cache fill
  stale,    \* the running fill began in an earlier epoch
  cache,    \* the page's cached index
  reader,   \* the page's get
  wire,     \* an index rewrite the page gave up on that may still arrive
  acked,    \* history: the index ETag of the page's last committed rewrite
  used      \* calls, gets and faults so far

callVars == <<request, out, pc, tries, loaded, mine, todo>>
readVars == <<stale, cache, reader>>
vars == <<roots, files, callVars, loads, readVars, wire, acked, used>>
-------------------------------------------------------------------------------
\* What the store promises, in the terms of ObjectStore: the objects that the first
\* index names, a trash call that has rewritten the index counting as answered.
ObjectsRead ==
  [k \in Keys |-> LET f == IF roots = << >> THEN 0 ELSE roots[1].entries[k]
                  IN  IF f = 0 \/ files[f].trashed THEN None ELSE files[f].content]
Outcomes ==
  [p \in Pages |-> IF pc[p] = "patch" /\ request[p].op = "trash" THEN "removed" ELSE out[p]]
LateRequests == [p \in Pages |-> wire[p].request]

Store == INSTANCE ObjectStore WITH objects <- ObjectsRead, out <- Outcomes, late <- LateRequests

DriveAssumption ==
  /\ None \notin Contents
  /\ MaxCasAttempts \in Nat \ {0} /\ MaxObjects \in Nat \ {0}
  /\ Connected \in BOOLEAN /\ SlowCommits \in BOOLEAN
  /\ Operations \subseteq Store!Requests
  /\ MaxCalls \in Nat /\ MaxGets \in Nat /\ MaxFaults \in Nat

NoRequest == Store!NoRequest
EmptyIndex == [etag |-> 0, entries |-> [k \in Keys |-> 0]]
NoIndex == [root |-> 0, etag |-> 0, entries |-> [k \in Keys |-> 0]]
NoLoad == [at |-> "none", root |-> 0, index |-> NoIndex]
NewLoad == [NoLoad EXCEPT !.at = "list"]
NoReader == [pc |-> "idle", key |-> None, loaded |-> NoIndex, floor |-> 0]
NoWire == [request |-> NoRequest, loaded |-> NoIndex, entries |-> EmptyIndex.entries]

Tracked(entries) == {entries[k] : k \in Keys} \ {0}
Content(f) == IF f = 0 THEN None ELSE files[f].content

Init ==
  /\ roots = IF Connected THEN <<EmptyIndex>> ELSE << >>
  /\ files = << >>
  /\ request = [p \in Pages |-> NoRequest]
  /\ out = [p \in Pages |-> "none"]
  /\ pc = [p \in Pages |-> "idle"]
  /\ tries = [p \in Pages |-> 0]
  /\ loaded = [p \in Pages |-> NoIndex]
  /\ mine = [p \in Pages |-> 0]
  /\ todo = [p \in Pages |-> {}]
  /\ loads = [p \in Pages |-> [call |-> NoLoad, fill |-> NoLoad]]
  /\ stale = [p \in Pages |-> FALSE]
  /\ cache = [p \in Pages |-> NoIndex]
  /\ reader = [p \in Pages |-> NoReader]
  /\ wire = [p \in Pages |-> NoWire]
  /\ acked = [p \in Pages |-> 0]
  /\ used = [calls |-> 0, gets |-> 0, faults |-> 0]
-------------------------------------------------------------------------------
Fault == used.faults < MaxFaults /\ used' = [used EXCEPT !.faults = @ + 1]
Goto(p, label) == pc' = [pc EXCEPT ![p] = label]

\* The mutating call returns or throws; its locals are gone.
Settle(p, answer) ==
  /\ out' = [out EXCEPT ![p] = answer]
  /\ pc' = [pc EXCEPT ![p] = "idle"]
  /\ tries' = [tries EXCEPT ![p] = 0]
  /\ loaded' = [loaded EXCEPT ![p] = NoIndex]
  /\ mine' = [mine EXCEPT ![p] = 0]
  /\ todo' = [todo EXCEPT ![p] = {}]
  /\ UNCHANGED request

\* cacheEpoch += 1, indexCache = undefined.
NextEpoch(p) ==
  /\ stale' = [stale EXCEPT ![p] = loads[p].fill # NoLoad]
  /\ cache' = [cache EXCEPT ![p] = NoIndex]
  /\ UNCHANGED reader

\* loadIndex(signal, true): a fresh load that never joins a fill.
ForceLoad(p) ==
  /\ loads' = [loads EXCEPT ![p].call = NewLoad]
  /\ NextEpoch(p)

\* The next index of a call: one entry replaced, or the trashed keys left out.
NextEntries(p) ==
  [k \in Keys |-> IF k \in request[p].keys THEN mine[p] ELSE loaded[p].entries[k]]

\* putIfAbsent, compareAndSwap, trash, sweepUntracked.
Invoke(p, r) ==
  /\ out[p] # "pending" /\ used.calls < MaxCalls
  /\ request' = [request EXCEPT ![p] = r]
  /\ out' = [out EXCEPT ![p] = "pending"]
  /\ Goto(p, "load")
  /\ ForceLoad(p)
  /\ used' = [used EXCEPT !.calls = @ + 1]
  /\ UNCHANGED <<roots, files, tries, loaded, mine, todo, wire, acked>>

\* A load that fails: the call throws, or the get that waited for the fill does.
LoadFails(p, s) ==
  /\ loads' = [loads EXCEPT ![p][s] = NoLoad]
  /\ IF s = "call"
     THEN Settle(p, "failed") /\ UNCHANGED readVars
     ELSE /\ stale' = [stale EXCEPT ![p] = FALSE]
          /\ reader' = [reader EXCEPT ![p] = IF @.pc = "wait" THEN NoReader ELSE @]
          /\ UNCHANGED <<callVars, cache>>

\* locateOrCreateIndex: one candidate is the index, several are refused, and
\* without one an index file is created and the folder listed again.
List(p, s) ==
  /\ loads[p][s].at \in {"list", "relist"}
  /\ IF Len(roots) > 1
     THEN LoadFails(p, s)
     ELSE /\ loads' = [loads EXCEPT ![p][s] =
                         [@ EXCEPT !.at = IF roots = << >> THEN "create" ELSE "download",
                                   !.root = Len(roots)]]
          /\ UNCHANGED <<callVars, readVars>>
  /\ UNCHANGED <<roots, files, wire, acked, used>>

\* Fault: the file just created is used without listing again.
CreateIndexBug(p, s) ==
  /\ loads[p][s].at = "create"
  /\ roots' = Append(roots, EmptyIndex)
  /\ loads' = [loads EXCEPT ![p][s] =
                 [@ EXCEPT !.at = "download", !.root = Len(roots) + 1]]
  /\ UNCHANGED <<files, callVars, readVars, wire, acked, used>>

CreateIndex(p, s) ==
  /\ loads[p][s].at = "create"
  /\ roots' = Append(roots, EmptyIndex)
  /\ loads' = [loads EXCEPT ![p][s].at = "relist"]
  /\ UNCHANGED <<files, callVars, readVars, wire, acked, used>>

\* A request of a load throws; one that creates the index may have been applied.
LoadThrows(p, s) ==
  /\ loads[p][s] # NoLoad
  /\ Fault
  /\ LoadFails(p, s)
  /\ \/ UNCHANGED roots
     \/ loads[p][s].at = "create" /\ roots' = Append(roots, EmptyIndex)
  /\ UNCHANGED <<files, wire, acked>>

\* The index as the download of a load returns it.
Downloaded(p, s) ==
  LET r == loads[p][s].root
  IN  [root |-> r, etag |-> roots[r].etag, entries |-> roots[r].entries]

\* The call goes on with the index it loaded, or answers from it.
Continue(p, label, index) ==
  /\ Goto(p, label)
  /\ loaded' = [loaded EXCEPT ![p] = index]
  /\ UNCHANGED <<request, out, tries, mine, todo>>

\* Fault: only the first attempt looks whether the key is taken.
PutLoadedBug(p, index) ==
  /\ request[p].op = "put" /\ pc[p] = "load"
  /\ IF tries[p] = 0 /\ \E k \in request[p].keys : index.entries[k] # 0
     THEN Settle(p, "exists")
     ELSE Continue(p, "upload", index)

PutLoaded(p, index) ==
  /\ request[p].op = "put" /\ pc[p] = "load"
  /\ IF \E k \in request[p].keys : index.entries[k] # 0
     THEN Settle(p, "exists")
     ELSE IF Cardinality(Tracked(index.entries)) >= MaxObjects
     THEN Settle(p, "failed")
     ELSE Continue(p, "upload", index)

CasLoaded(p, index) ==
  /\ request[p].op = "cas" /\ pc[p] = "load"
  /\ \E k \in request[p].keys :
       IF index.entries[k] = 0
       THEN Settle(p, "missing")
       ELSE IF Content(index.entries[k]) # request[p].expected
       THEN Settle(p, "mismatch")
       ELSE Continue(p, "upload", index)

\* The retry budget is spent: whatever the key holds now, the swap is refused.
CasSpent(p, index) ==
  /\ pc[p] = "final"
  /\ \E k \in request[p].keys :
       Settle(p, IF index.entries[k] = 0 THEN "missing" ELSE "mismatch")

TrashLoaded(p, index) ==
  /\ request[p].op = "trash" /\ pc[p] = "load"
  /\ IF \A k \in request[p].keys : index.entries[k] = 0
     THEN Settle(p, "removed")
     ELSE Continue(p, "advance", index)

\* listUntrackedProviderObjects, then trashUntrackedProviderObjects: the second
\* reads the index again and leaves alone what has become tracked.
SweepLoaded(p, index) ==
  /\ request[p].op = "sweep"
  /\ IF pc[p] = "load"
     THEN Continue(p, "query", index)
     ELSE \E rest \in {todo[p] \ Tracked(index.entries)} :
            IF rest = {}
            THEN Settle(p, "removed")
            ELSE /\ Goto(p, "patch")
                 /\ todo' = [todo EXCEPT ![p] = rest]
                 /\ UNCHANGED <<request, out, tries, loaded, mine>>

Download(p) ==
  /\ loads[p].call.at = "download"
  /\ loads' = [loads EXCEPT ![p].call = NoLoad]
  /\ \E index \in {Downloaded(p, "call")} :
       \/ PutLoaded(p, index) \/ CasLoaded(p, index) \/ CasSpent(p, index)
       \/ TrashLoaded(p, index) \/ SweepLoaded(p, index)
  /\ UNCHANGED <<roots, files, readVars, wire, acked, used>>
-------------------------------------------------------------------------------
\* uploadSegment: a new file, whatever files there are.
NewFile(p) ==
  [content |-> request[p].content, trashed |-> FALSE, aged |-> FALSE]

Upload(p) ==
  /\ pc[p] = "upload"
  /\ files' = Append(files, NewFile(p))
  /\ mine' = [mine EXCEPT ![p] = Len(files) + 1]
  /\ Goto(p, "advance")
  /\ UNCHANGED <<roots, request, out, tries, loaded, todo, loads, readVars, wire, acked, used>>

UploadThrows(p) ==
  /\ pc[p] = "upload" /\ Fault
  /\ files' \in {files, Append(files, NewFile(p))}
  /\ Settle(p, "failed")
  /\ UNCHANGED <<roots, loads, readVars, wire, acked>>

\* Fault: the rewrite is sent without If-Match.
MatchesBug(index) == TRUE

\* The PATCH of the index under If-Match, as Drive applies it.
Matches(index) == roots[index.root].etag = index.etag
Rewrite(index, entries) ==
  roots' = [roots EXCEPT ![index.root] = [etag |-> @.etag + 1, entries |-> entries]]

\* The rewrite committed: a write is done, trash goes on to the bodies.
Committed(p) ==
  IF request[p].op = "trash"
  THEN /\ Goto(p, "patch")
       /\ todo' = [todo EXCEPT ![p] =
                     {loaded[p].entries[k] : k \in request[p].keys} \ {0}]
       /\ UNCHANGED <<request, out, tries, loaded, mine>>
  ELSE Settle(p, IF request[p].op = "put" THEN "created" ELSE "updated")

\* Fault: a lost rewrite is always tried again.
LostBug(p) ==
  /\ Goto(p, "load")
  /\ tries' = [tries EXCEPT ![p] = @ + 1]
  /\ loaded' = [loaded EXCEPT ![p] = NoIndex]
  /\ mine' = [mine EXCEPT ![p] = 0]
  /\ ForceLoad(p)
  /\ UNCHANGED <<request, out, todo>>

\* The rewrite lost: reload and try again, or the budget is spent.
Lost(p) ==
  IF tries[p] + 1 < MaxCasAttempts \/ request[p].op = "cas"
  THEN /\ Goto(p, IF tries[p] + 1 < MaxCasAttempts THEN "load" ELSE "final")
       /\ tries' = [tries EXCEPT ![p] = @ + 1]
       /\ loaded' = [loaded EXCEPT ![p] = NoIndex]
       /\ mine' = [mine EXCEPT ![p] = 0]
       /\ ForceLoad(p)
       /\ UNCHANGED <<request, out, todo>>
  ELSE Settle(p, "failed") /\ NextEpoch(p) /\ UNCHANGED loads

Advance(p) ==
  /\ pc[p] = "advance"
  /\ IF Matches(loaded[p])
     THEN /\ Rewrite(loaded[p], NextEntries(p))
          /\ Committed(p) /\ NextEpoch(p) /\ UNCHANGED loads
          /\ acked' = [acked EXCEPT ![p] = loaded[p].etag + 1]
     ELSE Lost(p) /\ UNCHANGED <<roots, acked>>
  /\ UNCHANGED <<files, wire, used>>

\* The PATCH throws: it was applied, is lost, or may still arrive.  The epoch
\* moves on only if Drive answered at all.
AdvanceThrows(p) ==
  /\ pc[p] = "advance" /\ Fault
  /\ Settle(p, "failed")
  /\ \/ NextEpoch(p) /\ UNCHANGED <<roots, wire>>
     \/ /\ UNCHANGED <<readVars, wire>>
        /\ Matches(loaded[p]) /\ Rewrite(loaded[p], NextEntries(p))
     \/ /\ UNCHANGED <<readVars, roots>>
        /\ wire[p] = NoWire
        /\ wire' = [wire EXCEPT ![p] = [request |-> request[p], loaded |-> loaded[p],
                                        entries |-> NextEntries(p)]]
  /\ UNCHANGED <<files, loads, acked>>

\* The rewrite that was given up on reaches Drive, or never does.
Arrive(p) ==
  /\ wire[p] # NoWire
  /\ wire' = [wire EXCEPT ![p] = NoWire]
  /\ \/ UNCHANGED roots
     \/ Matches(wire[p].loaded) /\ Rewrite(wire[p].loaded, wire[p].entries)
  /\ UNCHANGED <<files, callVars, loads, readVars, acked, used>>
-------------------------------------------------------------------------------
\* The segments-folder query, and the age the sweep asks of a body.
Query(p) ==
  /\ pc[p] = "query"
  /\ \E found \in {{f \in 1..Len(files) :
                      /\ ~files[f].trashed /\ files[f].aged
                      /\ f \notin Tracked(loaded[p].entries)}} :
       IF found = {}
       THEN Settle(p, "removed") /\ UNCHANGED <<loads, readVars>>
       ELSE /\ todo' = [todo EXCEPT ![p] = found]
            /\ Goto(p, "recheck")
            /\ ForceLoad(p)
            /\ UNCHANGED <<request, out, tries, loaded, mine>>
  /\ UNCHANGED <<roots, files, wire, acked, used>>

\* trashSegment, trashUntrackedSegment: the body goes to the trash, or the
\* request is refused and the file is reported as retained.
Patch(p, f) ==
  /\ pc[p] = "patch" /\ f \in todo[p]
  /\ \/ files' = [files EXCEPT ![f].trashed = TRUE] /\ UNCHANGED used
     \/ UNCHANGED files /\ Fault
  /\ IF todo[p] = {f}
     THEN Settle(p, "removed")
     ELSE /\ todo' = [todo EXCEPT ![p] = @ \ {f}]
          /\ UNCHANGED <<request, out, pc, tries, loaded, mine>>
  /\ UNCHANGED <<roots, loads, readVars, wire, acked>>

\* A body reaches the safety age.  Unless commits may be that slow, no call and
\* no request on the wire still means to make it an object.
Age(f) ==
  /\ ~files[f].aged
  /\ SlowCommits \/ \A p \in Pages : mine[p] # f /\ f \notin Tracked(wire[p].entries)
  /\ files' = [files EXCEPT ![f].aged = TRUE]
  /\ UNCHANGED <<roots, callVars, loads, readVars, wire, acked, used>>
-------------------------------------------------------------------------------
\* get: answered from the cached index, or from a fill of this epoch.
Get(p, k) ==
  /\ reader[p].pc = "idle" /\ used.gets < MaxGets
  /\ used' = [used EXCEPT !.gets = @ + 1]
  /\ \E hit \in {cache[p] # NoIndex} :
       /\ reader' = [reader EXCEPT ![p] =
                       [pc |-> IF hit THEN "fetch" ELSE "wait", key |-> k,
                        loaded |-> cache[p], floor |-> acked[p]]]
       /\ IF hit \/ (loads[p].fill # NoLoad /\ ~stale[p])
          THEN UNCHANGED <<loads, stale>>
          ELSE /\ loads' = [loads EXCEPT ![p].fill = NewLoad]
               /\ stale' = [stale EXCEPT ![p] = FALSE]
  /\ UNCHANGED <<roots, files, callVars, cache, wire, acked>>

\* Drive answers the fill's download; the page has yet to take the answer.
FillAnswered(p) ==
  /\ loads[p].fill.at = "download"
  /\ loads' = [loads EXCEPT ![p].fill =
                 [@ EXCEPT !.at = "answered", !.index = Downloaded(p, "fill")]]
  /\ UNCHANGED <<roots, files, callVars, readVars, wire, acked, used>>

\* Fault: a fill is cached whatever was written since it began.
FilledBug(p) ==
  /\ loads[p].fill.at = "answered"
  /\ \E index \in {loads[p].fill.index} :
       /\ cache' = [cache EXCEPT ![p] = index]
       /\ reader' = [reader EXCEPT ![p] = IF @.pc = "wait"
                       THEN [@ EXCEPT !.pc = "fetch", !.loaded = index] ELSE @]
  /\ loads' = [loads EXCEPT ![p].fill = NoLoad]
  /\ stale' = [stale EXCEPT ![p] = FALSE]
  /\ UNCHANGED <<roots, files, callVars, wire, acked, used>>

\* The fill is cached only in the epoch it began in.
Filled(p) ==
  /\ loads[p].fill.at = "answered"
  /\ \E index \in {loads[p].fill.index} :
       /\ cache' = [cache EXCEPT ![p] = IF stale[p] THEN @ ELSE index]
       /\ reader' = [reader EXCEPT ![p] = IF @.pc = "wait"
                       THEN [@ EXCEPT !.pc = "fetch", !.loaded = index] ELSE @]
  /\ loads' = [loads EXCEPT ![p].fill = NoLoad]
  /\ stale' = [stale EXCEPT ![p] = FALSE]
  /\ UNCHANGED <<roots, files, callVars, wire, acked, used>>

\* The body is downloaded and the get returns, or its caller aborts it; a fill
\* it waited for goes on.
GetEnds(p) ==
  /\ reader[p].pc # "idle"
  /\ reader' = [reader EXCEPT ![p] = NoReader]
  /\ UNCHANGED <<roots, files, callVars, loads, stale, cache, wire, acked, used>>

\* INDEX_CACHE_TTL_MS passes.
Expire(p) ==
  /\ cache[p] # NoIndex
  /\ cache' = [cache EXCEPT ![p] = NoIndex]
  /\ UNCHANGED <<roots, files, callVars, loads, stale, reader, wire, acked, used>>

\* The page closes and is opened again.
Close(p) ==
  /\ out[p] = "pending" /\ Fault
  /\ Settle(p, "failed")
  /\ loads' = [loads EXCEPT ![p] = [call |-> NoLoad, fill |-> NoLoad]]
  /\ stale' = [stale EXCEPT ![p] = FALSE]
  /\ cache' = [cache EXCEPT ![p] = NoIndex]
  /\ reader' = [reader EXCEPT ![p] = NoReader]
  /\ UNCHANGED <<roots, files, wire, acked>>
-------------------------------------------------------------------------------
Next ==
  \/ \E p \in Pages :
       \/ \E r \in Operations : Invoke(p, r)
       \/ \E s \in {"call", "fill"} : List(p, s) \/ CreateIndex(p, s) \/ LoadThrows(p, s)
       \/ Download(p) \/ Upload(p) \/ UploadThrows(p)
       \/ Advance(p) \/ AdvanceThrows(p) \/ Arrive(p)
       \/ Query(p) \/ \E f \in todo[p] : Patch(p, f)
       \/ \E k \in Keys : Get(p, k)
       \/ FillAnswered(p) \/ Filled(p) \/ GetEnds(p) \/ Expire(p) \/ Close(p)
  \/ \E f \in 1..Len(files) : Age(f)

Spec == Init /\ [][Next]_vars
-------------------------------------------------------------------------------
File == [content : Contents, trashed : BOOLEAN, aged : BOOLEAN]
Entries == [Keys -> 0..Len(files)]
Index == [root : 0..Len(roots), etag : Nat, entries : Entries]
Load == [at : {"none", "list", "create", "relist", "download", "answered"},
         root : 0..Len(roots), index : Index]

TypeOK ==
  /\ roots \in Seq([etag : Nat, entries : Entries])
  /\ files \in Seq(File)
  /\ request \in [Pages -> Store!Requests \cup {NoRequest}]
  /\ out \in [Pages -> {"none", "pending", "created", "exists", "updated", "mismatch",
                        "missing", "removed", "failed"}]
  /\ pc \in [Pages -> {"idle", "load", "final", "recheck", "upload", "advance",
                       "query", "patch"}]
  /\ tries \in [Pages -> 0..MaxCasAttempts]
  /\ \A p \in Pages : tries[p] = MaxCasAttempts => pc[p] = "final"
  /\ loaded \in [Pages -> Index] /\ cache \in [Pages -> Index]
  /\ mine \in [Pages -> 0..Len(files)]
  /\ todo \in [Pages -> SUBSET (1..Len(files))]
  /\ loads \in [Pages -> [call : Load, fill : Load]]
  /\ stale \in [Pages -> BOOLEAN]
  /\ reader \in [Pages -> [pc : {"idle", "wait", "fetch"}, key : Keys \cup {None},
                           loaded : Index, floor : Nat]]
  /\ wire \in [Pages -> [request : Store!Requests \cup {NoRequest}, loaded : Index,
                         entries : Entries]]
  /\ acked \in [Pages -> Nat]
  /\ used \in [calls : 0..MaxCalls, gets : 0..MaxGets, faults : 0..MaxFaults]

\* However two pages race to initialise the folder, every index that any of them
\* reads or rewrites is the same file: listing again after the create fails
\* closed, so a write acknowledged on one index is never invisible on another.
OneAuthority ==
  \A p, q \in Pages :
    \A a \in {loaded[p].root, cache[p].root, reader[p].loaded.root},
       b \in {loaded[q].root, cache[q].root, reader[q].loaded.root} :
      a # 0 /\ b # 0 => a = b

\* Whatever trash calls, sweeps, lost answers and late rewrites run beside the
\* writers, every page reads one index, and no key in it reads as a body that is
\* in the trash: a get of it would fail hard.  It rests on If-Match, on trash
\* removing the index entry first, on the sweep's age and on the second listing
\* of locateOrCreateIndex, and assumes that no commit waits the safety age.
IndexedBodiesAreKept ==
  /\ OneAuthority
  /\ \A r \in 1..Len(roots) : \A f \in Tracked(roots[r].entries) : ~files[f].trashed

\* A get that begins after the page's own write committed is never answered from
\* an index older than that write, though fills of the cache may be running from
\* before it: the epoch keeps them out.
ReadsOwnWrites ==
  \A p \in Pages : reader[p].pc = "fetch" => reader[p].loaded.etag >= reader[p].floor

\* A swap whose retry budget is spent is refused whatever the key holds.
SpentRefusal == \E p \in Pages : pc[p] = "final" /\ out'[p] = "mismatch"

\* The store keeps the contract of ObjectStore: every mutation takes effect once,
\* atomically, under its precondition, at a moment while its caller waits for it
\* or after the caller was told that it failed; refusals are true at a moment of
\* the call, that of a spent retry budget excepted; a sweep changes no object.
KeepsContract ==
  /\ Store!Init
  /\ [][SpentRefusal \/ [Store!Next]_(Store!vars)]_vars

\* A swap is answered precondition-failed only if the object was not the expected
\* one (docs/STORAGE_CONFORMANCE.md: a concurrent-operation conflict is never
\* collapsed into a false claim that the precondition definitely failed).
RefusalsAreTrue ==
  \A p \in Pages : out[p] = "pending" /\ out'[p] = "mismatch" =>
    \E k \in request[p].keys : Content(roots[1].entries[k]) # request[p].expected

\* A rewrite never makes an object of a body that is already in the trash; what
\* is left open is a commit during the sweep's own request (object-store.ts:139,
\* "one network round-trip").
CommitsNameKeptBodies ==
  \A r \in 1..Len(roots') : \A f \in Tracked(roots'[r].entries) :
    (f \in 1..Len(files) /\ files[f].trashed) =>
      (r <= Len(roots) /\ f \in Tracked(roots[r].entries))
===============================================================================
