---------------------------- MODULE DriveStoreProofs ----------------------------
(***************************************************************************)
(* Proofs about DriveStore, for any pages, keys, contents and bounds: all  *)
(* pages work on one index, no key reads as a body in the trash, a page    *)
(* reads its own writes through its index cache, and the store keeps the   *)
(* contract of ObjectStore.                                                *)
(***************************************************************************)
EXTENDS DriveStore, TLAPS

(***************************************************************************)
(* The inductive invariant.  First what it says of one page: every index   *)
(* the page holds was read from the one index file R and differs from it   *)
(* once outdated.                                                          *)
(***************************************************************************)
Seen(R, x) ==
  /\ x.root = 1 /\ R # << >>
  /\ x.etag <= R[1].etag
  /\ x.etag = R[1].etag => x.entries = R[1].entries
Known(R, x) == x = NoIndex \/ Seen(R, x)

Located(R, load) == load.at \in {"download", "answered"} => load.root = 1 /\ R # << >>

\* What a call has found in the index it means to rewrite.
Found(F, r, x) ==
  /\ r.op = "put" => \A k \in r.keys : x.entries[k] = 0
  /\ r.op = "cas" => \A k \in r.keys : x.entries[k] # 0 /\ F[x.entries[k]].content = r.expected
  /\ r.op = "trash" => \E k \in r.keys : x.entries[k] # 0

\* Entries that apply request r to index x.
Applied(F, r, x, entries) ==
  /\ \A k \in Keys \ r.keys : entries[k] = x.entries[k]
  /\ \A k \in r.keys : IF r.op = "trash" THEN entries[k] = 0
                       ELSE entries[k] # 0 /\ F[entries[k]].content = r.content

\* A call that is open is where its operation brings it, with what it has found.
CallInv(p) ==
  /\ out[p] = "pending" <=> pc[p] # "idle"
  /\ Located(roots, loads[p].call)
  /\ loads[p].call # NoLoad => pc[p] \in {"load", "final", "recheck"}
  /\ pc[p] # "idle" => request[p] \in Store!Requests
  /\ pc[p] = "final" => request[p].op = "cas"
  /\ pc[p] \in {"recheck", "query"} => request[p].op = "sweep"
  /\ pc[p] = "patch" => request[p].op \in {"trash", "sweep"}
  /\ pc[p] = "upload" => request[p].op \in {"put", "cas"}
  /\ pc[p] = "advance" => request[p].op \in {"put", "cas", "trash"}
  /\ mine[p] # 0 <=> pc[p] = "advance" /\ request[p].op # "trash"
  /\ mine[p] # 0 => files[mine[p]].content = request[p].content
  /\ Known(roots, loaded[p])
  /\ pc[p] \in {"upload", "advance", "query"} => Seen(roots, loaded[p])
  /\ pc[p] \in {"upload", "advance"} => Found(files, request[p], loaded[p])

\* The cache, the running fill and the waiting get are as new as the page's writes.
Newest(R) == IF R = << >> THEN 0 ELSE R[1].etag

ReadInv(p) ==
  /\ Known(roots, cache[p]) /\ Known(roots, reader[p].loaded)
  /\ Located(roots, loads[p].fill)
  /\ loads[p].fill.at = "answered" => Seen(roots, loads[p].fill.index)
  /\ acked[p] <= Newest(roots)
  /\ cache[p] # NoIndex => acked[p] <= cache[p].etag
  /\ loads[p].fill.at = "answered" /\ ~stale[p] => acked[p] <= loads[p].fill.index.etag
  /\ reader[p].floor <= acked[p]
  /\ reader[p].pc = "wait" /\ loads[p].fill.at = "answered" =>
       reader[p].floor <= loads[p].fill.index.etag
  /\ reader[p].pc = "fetch" => reader[p].floor <= reader[p].loaded.etag

\* A rewrite on its way is one that the call it came from could send.
WireInv(p) ==
  wire[p] # NoWire =>
    /\ wire[p].request \in Store!Requests /\ wire[p].request.op # "sweep"
    /\ Seen(roots, wire[p].loaded)
    /\ Found(files, wire[p].request, wire[p].loaded)
    /\ Applied(files, wire[p].request, wire[p].loaded, wire[p].entries)

PageInv(p) == CallInv(p) /\ ReadInv(p) /\ WireInv(p)

(***************************************************************************)
(* And of the folder: index files created in a race stay empty; no file    *)
(* has two claims, one that a call or a late rewrite may still add to the  *)
(* index is young and whole, and what a call is moving to the trash is     *)
(* claimed by nothing.                                                     *)
(***************************************************************************)
OthersAreEmpty == \A r \in 2..Len(roots) : roots[r] = EmptyIndex

Named(R) == IF R = << >> THEN {} ELSE Tracked(R[1].entries)
OneKeyEach(R) ==
  R # << >> => \A k, l \in Keys : R[1].entries[k] = R[1].entries[l] /\ R[1].entries[k] # 0 => k = l

\* The files that a call, with file m uploaded, and a rewrite w mean to add.
Claims(m, w) == ({m} \cup {w.entries[k] : k \in w.request.keys}) \ {0}
Apart(m, w) == \A k \in w.request.keys : w.entries[k] # 0 => w.entries[k] # m
Unclaimed(f) == f \notin Named(roots) /\ \A q \in Pages : f \notin Claims(mine[q], wire[q])

Bodies ==
  /\ \A f \in Named(roots) : ~files[f].trashed
  /\ OneKeyEach(roots)
  /\ \A p \in Pages : \A f \in Claims(mine[p], wire[p]) :
       f \notin Named(roots) /\ ~files[f].trashed /\ ~files[f].aged
  /\ \A p, q \in Pages :
       p # q => Claims(mine[p], wire[p]) \cap Claims(mine[q], wire[q]) = {}
  /\ \A p \in Pages : Apart(mine[p], wire[p])
  /\ \A p \in Pages : pc[p] = "recheck" => \A f \in todo[p] : files[f].aged
  /\ \A p \in Pages : pc[p] = "patch" => \A f \in todo[p] : Unclaimed(f)

PagesInv == TypeOK /\ \A p \in Pages : PageInv(p)
BodyInv == OthersAreEmpty /\ Bodies
DriveInv == PagesInv /\ BodyInv
-------------------------------------------------------------------------------
(* One page moves at a time. *)

Labels == {"idle", "load", "final", "recheck", "upload", "advance", "query", "patch"}
Answers == {"none", "pending", "created", "exists", "updated", "mismatch", "missing", "removed",
            "failed"}
Readers == [pc : {"idle", "wait", "fetch"}, key : Keys \cup {None}, loaded : Index, floor : Nat]
Wires == [request : Store!Requests \cup {NoRequest}, loaded : Index, entries : Entries]

CallTyped(p) ==
  /\ request[p] \in Store!Requests \cup {NoRequest}
  /\ out[p] \in Answers /\ pc[p] \in Labels
  /\ tries[p] \in 0..MaxCasAttempts /\ (tries[p] = MaxCasAttempts => pc[p] = "final")
  /\ loaded[p] \in Index
  /\ mine[p] \in 0..Len(files) /\ todo[p] \in SUBSET (1..Len(files))
  /\ loads[p].call \in Load
ReadTyped(p) ==
  /\ loads[p].fill \in Load /\ stale[p] \in BOOLEAN /\ cache[p] \in Index
  /\ reader[p] \in Readers /\ acked[p] \in Nat
WireTyped(p) == wire[p] \in Wires

PageTyped(p) == CallTyped(p) /\ ReadTyped(p) /\ WireTyped(p)

CallMaps ==
  /\ request = [p \in Pages |-> request[p]] /\ out = [p \in Pages |-> out[p]]
  /\ pc = [p \in Pages |-> pc[p]] /\ tries = [p \in Pages |-> tries[p]]
  /\ loaded = [p \in Pages |-> loaded[p]] /\ mine = [p \in Pages |-> mine[p]]
  /\ todo = [p \in Pages |-> todo[p]]
LoadMaps == loads = [p \in Pages |-> [call |-> loads[p].call, fill |-> loads[p].fill]]
ReadMaps ==
  /\ stale = [p \in Pages |-> stale[p]] /\ cache = [p \in Pages |-> cache[p]]
  /\ reader = [p \in Pages |-> reader[p]]
WireMaps == wire = [p \in Pages |-> wire[p]] /\ acked = [p \in Pages |-> acked[p]]
Maps == CallMaps /\ LoadMaps /\ ReadMaps /\ WireMaps

FolderTyped ==
  /\ roots \in Seq([etag : Nat, entries : Entries]) /\ files \in Seq(File)
  /\ used \in [calls : 0..MaxCalls, gets : 0..MaxGets, faults : 0..MaxFaults]

TypedByPage == FolderTyped /\ Maps /\ \A p \in Pages : PageTyped(p)

LEMMA TypesByPage == TypeOK <=> TypedByPage
<1>1. ASSUME TypeOK
      PROVE  FolderTyped /\ Maps
  BY <1>1 DEF TypeOK, FolderTyped, Maps, CallMaps, LoadMaps, ReadMaps, WireMaps
<1>2. ASSUME TypeOK, NEW p \in Pages
      PROVE  PageTyped(p)
  BY <1>2 DEF TypeOK, PageTyped, CallTyped, ReadTyped, WireTyped, Labels, Answers, Readers, Wires
<1>3. ASSUME TypedByPage
      PROVE  TypeOK
  <2>1. /\ request \in [Pages -> Store!Requests \cup {NoRequest}] /\ out \in [Pages -> Answers]
        /\ pc \in [Pages -> Labels]
    BY <1>3 DEF TypedByPage, Maps, CallMaps, PageTyped, CallTyped
  <2>2. /\ tries \in [Pages -> 0..MaxCasAttempts]
        /\ \A p \in Pages : tries[p] = MaxCasAttempts => pc[p] = "final"
    BY <1>3 DEF TypedByPage, Maps, CallMaps, PageTyped, CallTyped
  <2>3. /\ loaded \in [Pages -> Index] /\ mine \in [Pages -> 0..Len(files)]
        /\ todo \in [Pages -> SUBSET (1..Len(files))]
    BY <1>3 DEF TypedByPage, Maps, CallMaps, PageTyped, CallTyped
  <2>4. loads \in [Pages -> [call : Load, fill : Load]]
    <3>1. \A p \in Pages : loads[p].call \in Load /\ loads[p].fill \in Load
      BY <1>3 DEF TypedByPage, PageTyped, CallTyped, ReadTyped
    <3>2. loads = [p \in Pages |-> [call |-> loads[p].call, fill |-> loads[p].fill]]
      BY <1>3 DEF TypedByPage, Maps, LoadMaps
    <3>3. [p \in Pages |-> [call |-> loads[p].call, fill |-> loads[p].fill]]
            \in [Pages -> [call : Load, fill : Load]]
      BY <3>1
    <3> QED BY <3>2, <3>3, Zenon
  <2>5. /\ stale \in [Pages -> BOOLEAN] /\ cache \in [Pages -> Index]
        /\ reader \in [Pages -> Readers] /\ acked \in [Pages -> Nat]
        /\ wire \in [Pages -> Wires]
    BY <1>3 DEF TypedByPage, Maps, ReadMaps, WireMaps, PageTyped, ReadTyped, WireTyped
  <2> QED BY <1>3, <2>1, <2>2, <2>3, <2>4, <2>5
          DEF TypeOK, TypedByPage, FolderTyped, Labels, Answers, Readers, Wires
<1> QED BY <1>1, <1>2, <1>3 DEF TypedByPage

LEMMA FirstElement ==
  ASSUME NEW S, NEW s \in Seq(S), s # << >>
  PROVE  Len(s) \in Nat /\ Len(s) >= 1 /\ s[1] \in S
<1>1. Len(s) \in Nat /\ (Len(s) = 0 => s = << >>)
  OBVIOUS
<1>2. Len(s) >= 1
  BY <1>1
<1> QED BY <1>1, <1>2

LEMMA WiderSequence ==
  ASSUME NEW S, NEW T, S \subseteq T, NEW s \in Seq(S)
  PROVE  s \in Seq(T)
<1>1. /\ Len(s) \in Nat /\ s = [i \in 1..Len(s) |-> s[i]] /\ \A i \in 1..Len(s) : s[i] \in S
  OBVIOUS
<1>2. s \in [1..Len(s) -> T]
  BY <1>1
<1> QED BY <1>1, <1>2

\* The first index file, once there is one.
LEMMA FirstIndex ==
  ASSUME TypeOK, roots # << >>
  PROVE  /\ Len(roots) \in Nat /\ Len(roots) >= 1
         /\ roots[1] \in [etag : Nat, entries : Entries]
<1>1. roots \in Seq([etag : Nat, entries : Entries])
  BY DEF TypeOK
<1> QED BY <1>1, FirstElement

CallStays(p) ==
  /\ request'[p] = request[p] /\ out'[p] = out[p] /\ pc'[p] = pc[p] /\ tries'[p] = tries[p]
  /\ loaded'[p] = loaded[p] /\ mine'[p] = mine[p] /\ todo'[p] = todo[p]
ReadStays(p) == stale'[p] = stale[p] /\ cache'[p] = cache[p] /\ reader'[p] = reader[p]
WireStays(p) == wire'[p] = wire[p] /\ acked'[p] = acked[p]
Still(q) == CallStays(q) /\ ReadStays(q) /\ loads'[q] = loads[q] /\ WireStays(q)

CallMoved(p) == CallMaps' /\ \A q \in Pages \ {p} : CallStays(q)
LoadMoved(p) == LoadMaps' /\ \A q \in Pages \ {p} : loads'[q] = loads[q]
ReadMoved(p) == ReadMaps' /\ \A q \in Pages \ {p} : ReadStays(q)
WireMoved(p) == WireMaps' /\ \A q \in Pages \ {p} : WireStays(q)
Moved(p) == CallMoved(p) /\ LoadMoved(p) /\ ReadMoved(p) /\ WireMoved(p)

\* How the index file and the bodies change in any step.
Newer(R, S) ==
  /\ Len(R) <= Len(S)
  /\ R # << >> => /\ S # << >> /\ R[1].etag <= S[1].etag
                  /\ R[1].etag = S[1].etag => S[1] = R[1]
Kept(F, G) == Len(F) <= Len(G) /\ \A f \in 1..Len(F) : G[f].content = F[f].content
Grows == FolderTyped' /\ Newer(roots, roots') /\ Kept(files, files')

LEMMA SetsGrow ==
  ASSUME TypeOK, Grows
  PROVE  /\ Len(files) \in Nat /\ Len(files') \in Nat /\ Len(files) <= Len(files')
         /\ Entries \subseteq Entries' /\ Index \subseteq Index' /\ Load \subseteq Load'
         /\ Readers \subseteq Readers' /\ Wires \subseteq Wires'
<1>1. Len(files) \in Nat /\ Len(roots) \in Nat
  BY DEF TypeOK
<1>2. Len(files') \in Nat /\ Len(roots') \in Nat
  BY DEF Grows, FolderTyped
<1>3. 0..Len(files) \subseteq 0..Len(files') /\ 0..Len(roots) \subseteq 0..Len(roots')
  BY <1>1, <1>2 DEF Grows, Newer, Kept
<1>4. Entries \subseteq Entries'
  BY <1>3 DEF Entries
<1>5. Index \subseteq Index'
  BY <1>3, <1>4 DEF Index
<1>6. Load \subseteq Load'
  BY <1>3, <1>5 DEF Load
<1>7. Readers \subseteq Readers' /\ Wires \subseteq Wires'
  BY <1>4, <1>5 DEF Readers, Wires
<1> QED BY <1>1, <1>2, <1>4, <1>5, <1>6, <1>7 DEF Grows, Kept

\* Indexes that were seen stay so, and what they name keeps its content.
LEMMA SeenStays ==
  ASSUME TypeOK, Grows, NEW x \in Index
  PROVE  /\ Seen(roots, x) => Seen(roots', x)
         /\ Known(roots, x) => Known(roots', x)
<1>1. x.etag \in Nat
  BY DEF Index
<1>2. roots # << >> => roots[1].etag \in Nat
  BY FirstIndex
<1>3. roots' # << >> => roots'[1].etag \in Nat
  <2>1. roots' \in Seq([etag : Nat, entries : Entries'])
    BY DEF Grows, FolderTyped
  <2>2. roots' # << >> => roots'[1] \in [etag : Nat, entries : Entries']
    BY <2>1, FirstElement
  <2> QED BY <2>2
<1>4. Seen(roots, x) => Seen(roots', x)
  BY <1>1, <1>2, <1>3 DEF Grows, Newer, Seen
<1> QED BY <1>4 DEF Known

LEMMA FoundStays ==
  ASSUME TypeOK, Grows, NEW r \in Store!Requests, NEW x \in Index
  PROVE  Found(files, r, x) => Found(files', r, x)
<1>1. r.keys \subseteq Keys
  BY DEF Store!Requests
<1>2. ASSUME NEW k \in Keys
      PROVE  x.entries[k] # 0 => files'[x.entries[k]].content = files[x.entries[k]].content
  BY DEF TypeOK, Index, Entries, Grows, Kept
<1> QED BY <1>1, <1>2 DEF Found

LEMMA AppliedStays ==
  ASSUME TypeOK, Grows, NEW r \in Store!Requests, NEW x, NEW e \in Entries
  PROVE  Applied(files, r, x, e) => Applied(files', r, x, e)
<1>1. r.keys \subseteq Keys
  BY DEF Store!Requests
<1>2. ASSUME NEW k \in Keys
      PROVE  e[k] # 0 => files'[e[k]].content = files[e[k]].content
  BY DEF TypeOK, Entries, Grows, Kept
<1> QED BY <1>1, <1>2 DEF Applied
LEMMA NewestGrows ==
  ASSUME TypeOK, Grows
  PROVE  Newest(roots) \in Nat /\ Newest(roots') \in Nat /\ Newest(roots) <= Newest(roots')
<1>1. roots # << >> => roots[1].etag \in Nat
  BY FirstIndex
<1>2. roots' # << >> => roots'[1].etag \in Nat
  <2>1. roots' \in Seq([etag : Nat, entries : Entries'])
    BY DEF Grows, FolderTyped
  <2>2. roots' # << >> => roots'[1] \in [etag : Nat, entries : Entries']
    BY <2>1, FirstElement
  <2> QED BY <2>2
<1> QED BY <1>1, <1>2 DEF Newest, Grows, Newer
-------------------------------------------------------------------------------
(* What the steps do to the folder. *)

UsedTyped(u) == u \in [calls : 0..MaxCalls, gets : 0..MaxGets, faults : 0..MaxFaults]

LEMMA FaultTyped ==
  ASSUME DriveAssumption, TypeOK
  PROVE  /\ UsedTyped(used) /\ (Fault => UsedTyped(used'))
         /\ used.calls < MaxCalls => UsedTyped([used EXCEPT !.calls = @ + 1])
         /\ used.gets < MaxGets => UsedTyped([used EXCEPT !.gets = @ + 1])
<1>1. UsedTyped(used)
  BY DEF TypeOK, UsedTyped
<1>2. PICK c \in 0..MaxCalls, g \in 0..MaxGets, f \in 0..MaxFaults :
        used = [calls |-> c, gets |-> g, faults |-> f]
  BY <1>1 DEF UsedTyped
<1>3. MaxCalls \in Nat /\ MaxGets \in Nat /\ MaxFaults \in Nat
  BY DEF DriveAssumption
<1>4. f < MaxFaults => f + 1 \in 0..MaxFaults
  BY <1>3
<1>5. c < MaxCalls => c + 1 \in 0..MaxCalls
  BY <1>3
<1>6. g < MaxGets => g + 1 \in 0..MaxGets
  BY <1>3
<1>7. Fault => UsedTyped(used')
  BY <1>2, <1>4 DEF Fault, UsedTyped
<1>8. used.calls < MaxCalls => UsedTyped([used EXCEPT !.calls = @ + 1])
  BY <1>2, <1>5 DEF UsedTyped
<1>9. used.gets < MaxGets => UsedTyped([used EXCEPT !.gets = @ + 1])
  BY <1>2, <1>6 DEF UsedTyped
<1> QED BY <1>1, <1>7, <1>8, <1>9

LEMMA FolderStays ==
  ASSUME TypeOK, UNCHANGED <<roots, files>>, UsedTyped(used')
  PROVE  Grows
<1>1. Len(roots) \in Nat /\ Len(files) \in Nat
  BY DEF TypeOK
<1>2. roots # << >> => roots[1].etag \in Nat
  BY FirstIndex
<1>3. FolderTyped'
  BY DEF TypeOK, FolderTyped, UsedTyped, Entries
<1>4. Newer(roots, roots') /\ Kept(files, files')
  BY <1>1, <1>2 DEF Newer, Kept
<1> QED BY <1>3, <1>4 DEF Grows

LEMMA IndexAdded ==
  ASSUME TypeOK, roots' = Append(roots, EmptyIndex), UNCHANGED files, UsedTyped(used')
  PROVE  Grows
<1>1. roots \in Seq([etag : Nat, entries : Entries]) /\ files \in Seq(File) /\ Len(files) \in Nat
  BY DEF TypeOK
<1>2. EmptyIndex \in [etag : Nat, entries : Entries]
  BY <1>1 DEF EmptyIndex, Entries
<1>3. roots' \in Seq([etag : Nat, entries : Entries]) /\ Len(roots') = Len(roots) + 1
  BY <1>1, <1>2
<1>4. FolderTyped'
  BY <1>1, <1>3 DEF FolderTyped, UsedTyped, Entries
<1>5. roots # << >> => roots'[1] = roots[1] /\ roots[1].etag \in Nat
  BY <1>1, FirstIndex
<1>6. roots' # << >> /\ Len(roots) \in Nat
  <2>1. Len(roots) \in Nat
    BY <1>1
  <2>2. Len(roots') # 0
    BY <1>3, <2>1
  <2> QED BY <2>1, <2>2
<1>7. Newer(roots, roots') /\ Kept(files, files')
  BY <1>1, <1>3, <1>5, <1>6 DEF Newer, Kept
<1> QED BY <1>4, <1>7 DEF Grows

LEMMA IndexRewritten ==
  ASSUME TypeOK, NEW x \in Index, NEW e \in Entries, Seen(roots, x), Matches(x), Rewrite(x, e),
         UNCHANGED files, UsedTyped(used')
  PROVE  /\ Grows /\ x.entries = roots[1].entries /\ x.etag = roots[1].etag
         /\ roots' # << >> /\ roots'[1] = [etag |-> roots[1].etag + 1, entries |-> e]
         /\ Len(roots') = Len(roots) /\ \A r \in 2..Len(roots) : roots'[r] = roots[r]
<1>1. roots \in Seq([etag : Nat, entries : Entries]) /\ files \in Seq(File) /\ Len(files) \in Nat
  BY DEF TypeOK
<1>2. Len(roots) \in Nat /\ Len(roots) >= 1 /\ roots[1].etag \in Nat
  BY FirstIndex DEF Seen
<1>3. x.root = 1 /\ x.entries = roots[1].entries /\ x.etag = roots[1].etag
  BY DEF Seen, Matches
<1>4. roots' = [roots EXCEPT ![1] = [etag |-> roots[1].etag + 1, entries |-> e]]
  BY <1>2, <1>3 DEF Rewrite
<1>5. /\ roots' \in Seq([etag : Nat, entries : Entries]) /\ Len(roots') = Len(roots)
      /\ roots'[1] = [etag |-> roots[1].etag + 1, entries |-> e]
      /\ \A r \in 2..Len(roots) : roots'[r] = roots[r]
  BY <1>1, <1>2, <1>4
<1>6. roots' # << >>
  BY <1>2, <1>5
<1>7. FolderTyped'
  BY <1>1, <1>5 DEF FolderTyped, UsedTyped, Entries
<1>8. Newer(roots, roots') /\ Kept(files, files')
  BY <1>1, <1>2, <1>5, <1>6 DEF Newer, Kept
<1> QED BY <1>3, <1>5, <1>6, <1>7, <1>8 DEF Grows

LEMMA BodyAdded ==
  ASSUME TypeOK, NEW b \in File, files' = Append(files, b), UNCHANGED roots, UsedTyped(used')
  PROVE  /\ Grows /\ Len(files') = Len(files) + 1 /\ files'[Len(files) + 1] = b
         /\ \A f \in 1..Len(files) : files'[f] = files[f]
<1>1. /\ roots \in Seq([etag : Nat, entries : Entries]) /\ files \in Seq(File)
      /\ Len(files) \in Nat /\ Len(roots) \in Nat
  BY DEF TypeOK
<1>2. /\ files' \in Seq(File) /\ Len(files') = Len(files) + 1 /\ files'[Len(files) + 1] = b
      /\ \A f \in 1..Len(files) : files'[f] = files[f]
  BY <1>1
<1>3. Entries \subseteq Entries'
  BY <1>1, <1>2 DEF Entries
<1>4. roots' \in Seq([etag : Nat, entries : Entries'])
  <2>1. [etag : Nat, entries : Entries] \subseteq [etag : Nat, entries : Entries']
    BY <1>3
  <2> QED BY <1>1, <2>1, WiderSequence
<1>5. FolderTyped'
  BY <1>2, <1>4 DEF FolderTyped, UsedTyped, File
<1>6. roots # << >> => roots[1].etag \in Nat
  BY FirstIndex
<1>7. Newer(roots, roots') /\ Kept(files, files')
  BY <1>1, <1>2, <1>6 DEF Newer, Kept
<1> QED BY <1>2, <1>5, <1>7 DEF Grows

\* A body that is marked as trashed or as old is otherwise the same.
LEMMA BodyMarked ==
  ASSUME TypeOK, NEW f \in 1..Len(files), NEW b \in File, b.content = files[f].content,
         files' = [files EXCEPT ![f] = b], UNCHANGED roots, UsedTyped(used')
  PROVE  /\ Grows /\ Len(files') = Len(files) /\ files'[f] = b
         /\ \A g \in 1..Len(files) : g # f => files'[g] = files[g]
<1>1. /\ roots \in Seq([etag : Nat, entries : Entries]) /\ files \in Seq(File)
      /\ Len(files) \in Nat /\ Len(roots) \in Nat
  BY DEF TypeOK
<1>2. /\ files' \in Seq(File) /\ Len(files') = Len(files) /\ files'[f] = b
      /\ \A g \in 1..Len(files) : g # f => files'[g] = files[g]
  BY <1>1
<1>3. FolderTyped'
  BY <1>1, <1>2 DEF FolderTyped, UsedTyped, File, Entries
<1>4. roots # << >> => roots[1].etag \in Nat
  BY FirstIndex
<1>5. Newer(roots, roots') /\ Kept(files, files')
  BY <1>1, <1>2, <1>4 DEF Newer, Kept
<1> QED BY <1>2, <1>3, <1>5 DEF Grows
-------------------------------------------------------------------------------
(* What the steps do to a page. *)

LEMMA Blanks ==
  ASSUME TypeOK
  PROVE  /\ NoIndex \in Index /\ NoLoad \in Load /\ NewLoad \in Load
         /\ NoReader \in Readers /\ NoWire \in Wires
         /\ Known(roots, NoIndex) /\ Located(roots, NoLoad) /\ Located(roots, NewLoad)
<1>1. Len(files) \in Nat /\ Len(roots) \in Nat
  BY DEF TypeOK
<1>2. NoIndex \in Index
  BY <1>1 DEF NoIndex, Index, Entries
<1>3. NoLoad \in Load /\ NewLoad \in Load
  BY <1>1, <1>2 DEF NoLoad, NewLoad, Load
<1>4. NoReader \in Readers
  BY <1>2 DEF NoReader, Readers
<1>5. NoWire \in Wires
  BY <1>1, <1>2 DEF NoWire, Wires, EmptyIndex, Entries
<1>6. Known(roots, NoIndex) /\ Located(roots, NoLoad) /\ Located(roots, NewLoad)
  BY DEF Known, Located, NoLoad, NewLoad
<1> QED BY <1>2, <1>3, <1>4, <1>5, <1>6
\* What is at hand in every step of a page.
Ground(p) ==
  /\ DriveAssumption /\ TypeOK /\ Maps /\ PageTyped(p) /\ PageInv(p) /\ Grows
  /\ Len(files) \in Nat /\ Len(files') \in Nat /\ Len(files) <= Len(files')
  /\ Index \subseteq Index' /\ Load \subseteq Load'
  /\ Readers \subseteq Readers' /\ Wires \subseteq Wires'
  /\ NoIndex \in Index /\ NoLoad \in Load /\ NewLoad \in Load
  /\ NoReader \in Readers /\ NoWire \in Wires
  /\ Known(roots', NoIndex) /\ Located(roots', NoLoad) /\ Located(roots', NewLoad)

LEMMA GroundHolds ==
  ASSUME DriveAssumption, PagesInv, Grows, NEW p \in Pages
  PROVE  Ground(p)
<1>1. Known(roots', NoIndex) /\ Located(roots', NoLoad) /\ Located(roots', NewLoad)
  BY DEF Known, Located, NoLoad, NewLoad
<1> QED BY <1>1, TypesByPage, SetsGrow, Blanks DEF PagesInv, TypedByPage, Ground

\* The parts of a page that a step leaves alone keep their invariant.
LEMMA CallKept ==
  ASSUME NEW p \in Pages, Ground(p), CallStays(p), loads'[p].call = loads[p].call
  PROVE  CallTyped(p)' /\ CallInv(p)'
<1>1. CallTyped(p) /\ CallInv(p) /\ loaded[p] \in Index
  BY DEF Ground, PageTyped, PageInv, CallTyped
<1>2. CallTyped(p)'
  <2>1. /\ request'[p] \in Store!Requests \cup {NoRequest} /\ out'[p] \in Answers /\ pc'[p] \in Labels
        /\ tries'[p] \in 0..MaxCasAttempts /\ (tries'[p] = MaxCasAttempts => pc'[p] = "final")
    BY <1>1 DEF CallStays, CallTyped
  <2>2. loaded'[p] \in Index' /\ loads'[p].call \in Load'
    BY <1>1 DEF CallStays, CallTyped, Ground
  <2>3. mine'[p] \in 0..Len(files') /\ todo'[p] \in SUBSET (1..Len(files'))
    BY <1>1 DEF CallStays, CallTyped, Ground
  <2> QED BY <2>1, <2>2, <2>3 DEF CallTyped, Answers, Labels
<1>3. /\ Known(roots', loaded[p])
      /\ pc[p] \in {"upload", "advance", "query"} => Seen(roots', loaded[p])
  BY <1>1, SeenStays DEF CallInv, Ground
<1>4. Located(roots', loads[p].call)
  BY <1>1 DEF Ground, CallInv, Located, Grows, Newer
<1>5. mine[p] # 0 => files'[mine[p]].content = files[mine[p]].content
  BY <1>1 DEF Ground, CallTyped, Grows, Kept
<1>6. pc[p] \in {"upload", "advance"} => Found(files', request[p], loaded[p])
  BY <1>1, FoundStays DEF CallInv, Ground
<1>7. CallInv(p)'
  BY <1>1, <1>3, <1>4, <1>5, <1>6 DEF CallInv, CallStays
<1> QED BY <1>2, <1>7

LEMMA ReadKept ==
  ASSUME NEW p \in Pages, Ground(p), ReadStays(p), loads'[p].fill = loads[p].fill,
         acked'[p] = acked[p]
  PROVE  ReadTyped(p)' /\ ReadInv(p)'
<1>1. ReadTyped(p) /\ ReadInv(p)
  BY DEF Ground, PageTyped, PageInv
<1>2. ReadTyped(p)'
  BY <1>1 DEF ReadTyped, ReadStays, Ground
<1>3. cache[p] \in Index /\ reader[p].loaded \in Index /\ loads[p].fill.index \in Index
  BY <1>1 DEF ReadTyped, Readers, Load
<1>4. /\ Known(roots', cache[p]) /\ Known(roots', reader[p].loaded)
      /\ loads[p].fill.at = "answered" => Seen(roots', loads[p].fill.index)
  BY <1>1, <1>3, SeenStays DEF ReadInv, Ground
<1>5. Located(roots', loads[p].fill)
  BY <1>1 DEF Ground, ReadInv, Located, Grows, Newer
<1>6. acked[p] <= Newest(roots')
  <2>1. Newest(roots) \in Nat /\ Newest(roots') \in Nat /\ Newest(roots) <= Newest(roots')
    BY NewestGrows DEF Ground
  <2> QED BY <1>1, <2>1 DEF ReadTyped, ReadInv
<1>7. ReadInv(p)'
  BY <1>1, <1>4, <1>5, <1>6 DEF ReadInv, ReadStays
<1> QED BY <1>2, <1>7

LEMMA WireKept ==
  ASSUME NEW p \in Pages, Ground(p), wire'[p] = wire[p]
  PROVE  WireTyped(p)' /\ WireInv(p)'
<1>1. WireTyped(p) /\ WireInv(p)
  BY DEF Ground, PageTyped, PageInv
<1>2. wire[p].loaded \in Index /\ wire[p].entries \in Entries
  BY <1>1 DEF WireTyped, Wires
<1>3. wire[p] # NoWire =>
        /\ Seen(roots', wire[p].loaded)
        /\ Found(files', wire[p].request, wire[p].loaded)
        /\ Applied(files', wire[p].request, wire[p].loaded, wire[p].entries)
  BY <1>1, <1>2, SeenStays, FoundStays, AppliedStays DEF WireInv, Ground
<1>4. WireInv(p)'
  BY <1>1, <1>3 DEF WireInv
<1> QED BY <1>1, <1>4 DEF WireTyped, Ground

\* The pages keep their invariant when the one that moves does.
LEMMA OnePageMoves ==
  ASSUME DriveAssumption, PagesInv, Grows, NEW p \in Pages, Moved(p), PageTyped(p)', PageInv(p)'
  PROVE  PagesInv'
<1>1. ASSUME NEW q \in Pages \ {p}
      PROVE  PageTyped(q)' /\ PageInv(q)'
  <2>1. Ground(q) /\ Still(q)
    BY GroundHolds DEF Moved, CallMoved, LoadMoved, ReadMoved, WireMoved, Still
  <2>2. CallStays(q) /\ ReadStays(q) /\ loads'[q] = loads[q] /\ wire'[q] = wire[q]
        /\ acked'[q] = acked[q]
    BY <2>1 DEF Still, WireStays
  <2>3. CallTyped(q)' /\ CallInv(q)' /\ ReadTyped(q)' /\ ReadInv(q)' /\ WireTyped(q)' /\ WireInv(q)'
    BY <2>1, <2>2, CallKept, ReadKept, WireKept
  <2> QED BY <2>3 DEF PageTyped, PageInv
<1>2. FolderTyped' /\ Maps' /\ \A q \in Pages : PageTyped(q)' /\ PageInv(q)'
  BY <1>1 DEF Moved, CallMoved, LoadMoved, ReadMoved, WireMoved, Maps, Grows
<1>3. TypedByPage'
  BY <1>2 DEF TypedByPage
<1>4. TypeOK'
  BY <1>3, TypesByPage, PTL
<1> QED BY <1>2, <1>4 DEF PagesInv
\* What the shared parts of the actions do.
Settled(p, answer) ==
  /\ request'[p] = request[p] /\ out'[p] = answer /\ pc'[p] = "idle" /\ tries'[p] = 0
  /\ loaded'[p] = NoIndex /\ mine'[p] = 0 /\ todo'[p] = {}
EpochMoved(p) ==
  cache'[p] = NoIndex /\ stale'[p] = (loads[p].fill # NoLoad) /\ reader'[p] = reader[p]

LEMMA SettleValues ==
  ASSUME Maps, NEW p \in Pages, NEW answer, Settle(p, answer)
  PROVE  CallMoved(p) /\ Settled(p, answer)
<1>1. CallMaps'
  BY DEF Maps, CallMaps, Settle
<1>2. \A q \in Pages \ {p} : CallStays(q)
  BY DEF Maps, CallMaps, Settle, CallStays
<1>3. Settled(p, answer)
  BY DEF Maps, CallMaps, Settle, Settled
<1> QED BY <1>1, <1>2, <1>3 DEF CallMoved

LEMMA EpochValues ==
  ASSUME Maps, NEW p \in Pages, NextEpoch(p)
  PROVE  ReadMoved(p) /\ EpochMoved(p)
BY DEF Maps, ReadMaps, NextEpoch, ReadMoved, ReadStays, EpochMoved

LEMMA Same ==
  ASSUME Maps, NEW p \in Pages
  PROVE  /\ UNCHANGED callVars => CallMoved(p) /\ CallStays(p)
         /\ UNCHANGED readVars => ReadMoved(p) /\ ReadStays(p)
         /\ UNCHANGED loads => LoadMoved(p) /\ loads'[p] = loads[p]
         /\ UNCHANGED <<wire, acked>> => WireMoved(p) /\ WireStays(p)
<1>1. UNCHANGED callVars => CallMoved(p) /\ CallStays(p)
  BY DEF Maps, CallMaps, callVars, CallMoved, CallStays
<1>2. UNCHANGED readVars => ReadMoved(p) /\ ReadStays(p)
  BY DEF Maps, ReadMaps, readVars, ReadMoved, ReadStays
<1>3. UNCHANGED loads => LoadMoved(p) /\ loads'[p] = loads[p]
  BY Zenon DEF Maps, LoadMaps, LoadMoved
<1>4. UNCHANGED <<wire, acked>> => WireMoved(p) /\ WireStays(p)
  BY DEF Maps, WireMaps, WireMoved, WireStays
<1> QED BY <1>1, <1>2, <1>3, <1>4

LEMMA LoadValues ==
  ASSUME TypeOK, NEW p \in Pages, NEW x \in Load
  PROVE  /\ loads' = [loads EXCEPT ![p].call = x] =>
              LoadMoved(p) /\ loads'[p].call = x /\ loads'[p].fill = loads[p].fill
         /\ loads' = [loads EXCEPT ![p].fill = x] =>
              LoadMoved(p) /\ loads'[p].fill = x /\ loads'[p].call = loads[p].call
<1>1. loads \in [Pages -> [call : Load, fill : Load]]
  BY DEF TypeOK
<1>2. ASSUME loads' = [loads EXCEPT ![p].call = x]
      PROVE  LoadMoved(p) /\ loads'[p].call = x /\ loads'[p].fill = loads[p].fill
  <2>1. loads' \in [Pages -> [call : Load, fill : Load]]
    BY <1>1, <1>2
  <2>2. LoadMaps'
    BY <2>1 DEF LoadMaps
  <2> QED BY <1>1, <1>2, <2>2 DEF LoadMoved
<1>3. ASSUME loads' = [loads EXCEPT ![p].fill = x]
      PROVE  LoadMoved(p) /\ loads'[p].fill = x /\ loads'[p].call = loads[p].call
  <2>1. loads' \in [Pages -> [call : Load, fill : Load]]
    BY <1>1, <1>3
  <2>2. LoadMaps'
    BY <2>1 DEF LoadMaps
  <2> QED BY <1>1, <1>3, <2>2 DEF LoadMoved
<1> QED BY <1>2, <1>3

LEMMA CallSettled ==
  ASSUME NEW p \in Pages, Ground(p), NEW a \in Answers \ {"pending"}, Settled(p, a),
         loads'[p].call = NoLoad
  PROVE  CallTyped(p)' /\ CallInv(p)'
<1>1. CallTyped(p) /\ MaxCasAttempts \in Nat \ {0}
  BY DEF Ground, PageTyped, DriveAssumption
<1>2. /\ request'[p] \in Store!Requests \cup {NoRequest} /\ out'[p] \in Answers /\ pc'[p] \in Labels
      /\ tries'[p] \in 0..MaxCasAttempts /\ tries'[p] # MaxCasAttempts
  BY <1>1 DEF Settled, CallTyped, Labels
<1>3. loaded'[p] \in Index' /\ loads'[p].call \in Load' /\ todo'[p] \in SUBSET (1..Len(files'))
  BY DEF Settled, Ground
<1>4. mine'[p] \in 0..Len(files')
  BY DEF Settled, Ground
<1>5. CallTyped(p)'
  BY <1>2, <1>3, <1>4 DEF CallTyped, Answers, Labels
<1>6. Known(roots', loaded'[p]) /\ Located(roots', loads'[p].call)
  BY DEF Settled, Ground
<1>7. CallInv(p)'
  BY <1>6 DEF CallInv, Settled, Answers
<1> QED BY <1>5, <1>7

LEMMA ReadEpoch ==
  ASSUME NEW p \in Pages, Ground(p), EpochMoved(p), loads'[p].fill = loads[p].fill,
         acked'[p] \in Nat, acked[p] <= acked'[p], acked'[p] <= Newest(roots')
  PROVE  ReadTyped(p)' /\ ReadInv(p)'
<1>1. ReadTyped(p) /\ ReadInv(p)
  BY DEF Ground, PageTyped, PageInv
<1>2. ReadTyped(p)'
  BY <1>1 DEF ReadTyped, EpochMoved, Ground
<1>3. reader[p].loaded \in Index /\ loads[p].fill.index \in Index /\ reader[p].floor \in Nat
  BY <1>1 DEF ReadTyped, Readers, Load
<1>4. /\ Known(roots', NoIndex) /\ Known(roots', reader[p].loaded)
      /\ loads[p].fill.at = "answered" => Seen(roots', loads[p].fill.index)
  BY <1>1, <1>3, SeenStays DEF ReadInv, Ground
<1>5. Located(roots', loads[p].fill)
  BY <1>1 DEF Ground, ReadInv, Located, Grows, Newer
<1>6. loads[p].fill.at = "answered" => stale'[p]
  <2>1. loads[p].fill.at = "answered" => loads[p].fill # NoLoad
    BY DEF NoLoad
  <2> QED BY <2>1, Zenon DEF EpochMoved
<1>7. reader[p].floor <= acked'[p]
  BY <1>1, <1>3 DEF ReadInv, ReadTyped
<1>8. ReadInv(p)'
  BY <1>1, <1>4, <1>5, <1>6, <1>7 DEF ReadInv, EpochMoved
<1> QED BY <1>2, <1>8

\* How an action's parts come together.
LEMMA Together ==
  ASSUME DriveAssumption, PagesInv, Grows, NEW p \in Pages, Moved(p),
         CallTyped(p)', CallInv(p)', ReadTyped(p)', ReadInv(p)', WireTyped(p)', WireInv(p)'
  PROVE  PagesInv'
<1>1. PageTyped(p)' /\ PageInv(p)'
  BY DEF PageTyped, PageInv
<1> QED BY <1>1, OnePageMoves
\* The page's reads when its fill has no answer and its get or cached index may be gone.
LEMMA FillGone ==
  ASSUME NEW p \in Pages, Ground(p), Located(roots', loads'[p].fill),
         loads'[p].fill.at # "answered",
         cache'[p] \in {cache[p], NoIndex}, reader'[p] \in {reader[p], NoReader},
         acked'[p] = acked[p]
  PROVE  ReadInv(p)'
<1>1. ReadTyped(p) /\ ReadInv(p)
  BY DEF Ground, PageTyped, PageInv
<1>2. cache[p] \in Index /\ reader[p].loaded \in Index
  BY <1>1 DEF ReadTyped, Readers
<1>3. Known(roots', cache[p]) /\ Known(roots', reader[p].loaded) /\ Known(roots', NoIndex)
  BY <1>1, <1>2, SeenStays DEF ReadInv, Ground
<1>4. Known(roots', cache'[p]) /\ Known(roots', reader'[p].loaded)
  BY <1>3 DEF NoReader
<1>5. acked[p] <= Newest(roots')
  <2>1. Newest(roots) \in Nat /\ Newest(roots') \in Nat /\ Newest(roots) <= Newest(roots')
    BY NewestGrows DEF Ground
  <2> QED BY <1>1, <2>1 DEF ReadTyped, ReadInv
<1>6. /\ reader'[p].floor <= acked[p]
      /\ reader'[p].pc = "fetch" => reader'[p].floor <= reader'[p].loaded.etag
  BY <1>1 DEF ReadInv, ReadTyped, NoReader
<1> QED BY <1>1, <1>4, <1>5, <1>6 DEF ReadInv
-------------------------------------------------------------------------------
(* The actions. *)

\* putIfAbsent, compareAndSwap, trash and sweepUntracked begin.
LEMMA InvokeInv ==
  ASSUME DriveAssumption, PagesInv, NEW p \in Pages, NEW r \in Operations, Invoke(p, r)
  PROVE  PagesInv'
<1>1. Grows
  BY FaultTyped, FolderStays DEF Invoke, PagesInv
<1>2. Ground(p) /\ r \in Store!Requests /\ Maps /\ TypeOK
  BY <1>1, GroundHolds DEF DriveAssumption, Ground
<1>3. CallTyped(p) /\ CallInv(p) /\ acked[p] \in Nat
  BY <1>2 DEF Ground, PageTyped, PageInv, ReadTyped
<1>4. /\ CallMoved(p) /\ request'[p] = r /\ out'[p] = "pending" /\ pc'[p] = "load"
      /\ tries'[p] = tries[p] /\ loaded'[p] = loaded[p] /\ mine'[p] = mine[p] /\ todo'[p] = todo[p]
  BY <1>2 DEF Maps, CallMaps, CallMoved, CallStays, Invoke, Goto
<1>5. LoadMoved(p) /\ loads'[p].call = NewLoad /\ loads'[p].fill = loads[p].fill
  BY <1>2, LoadValues, Blanks DEF Invoke, ForceLoad
<1>6. ReadMoved(p) /\ EpochMoved(p) /\ WireMoved(p) /\ WireStays(p)
  BY <1>2, EpochValues, Same DEF Invoke, ForceLoad
<1>7. out[p] # "pending" /\ pc[p] = "idle" /\ mine[p] = 0 /\ tries[p] # MaxCasAttempts
  BY <1>3 DEF CallInv, CallTyped, Invoke
<1>8. CallTyped(p)'
  BY <1>2, <1>3, <1>4, <1>5, <1>7 DEF CallTyped, Ground, Labels, Answers
<1>9. CallInv(p)'
  <2>1. Known(roots', loaded[p])
    BY <1>2, <1>3, SeenStays DEF CallTyped, CallInv, Ground
  <2> QED BY <1>2, <1>4, <1>5, <1>7, <2>1 DEF CallInv, Ground
<1>10. ReadTyped(p)' /\ ReadInv(p)'
  <2>1. acked[p] <= Newest(roots')
    BY <1>2 DEF Ground, PageInv, ReadInv, Invoke
  <2> QED BY <1>2, <1>3, <1>5, <1>6, <2>1, ReadEpoch DEF WireStays
<1>11. WireTyped(p)' /\ WireInv(p)'
  BY <1>2, <1>6, WireKept DEF WireStays
<1> QED BY <1>1, <1>4, <1>5, <1>6, <1>8, <1>9, <1>10, <1>11, Together DEF Moved

\* A load of the call or of a fill fails.
LEMMA LoadFailsInv ==
  ASSUME DriveAssumption, PagesInv, Grows, NEW p \in Pages, NEW s \in {"call", "fill"},
         LoadFails(p, s), UNCHANGED <<wire, acked>>
  PROVE  PagesInv'
<1>1. Ground(p) /\ Maps /\ TypeOK /\ ReadTyped(p) /\ ReadInv(p)
  BY GroundHolds DEF Ground, PageTyped, PageInv
<1>2. WireMoved(p) /\ WireStays(p)
  BY <1>1, Same
<1>3. WireTyped(p)' /\ WireInv(p)'
  BY <1>1, <1>2, WireKept DEF WireStays
<1>4. CASE s = "call"
  <2>1. loads' = [loads EXCEPT ![p].call = NoLoad] /\ Settle(p, "failed") /\ UNCHANGED readVars
    BY <1>4 DEF LoadFails
  <2>2. LoadMoved(p) /\ loads'[p].call = NoLoad /\ loads'[p].fill = loads[p].fill
    BY <1>1, <2>1, LoadValues, Blanks
  <2>3. CallMoved(p) /\ Settled(p, "failed") /\ ReadMoved(p) /\ ReadStays(p)
    BY <1>1, <2>1, SettleValues, Same
  <2>4. CallTyped(p)' /\ CallInv(p)'
    BY <1>1, <2>2, <2>3, CallSettled DEF Answers
  <2>5. ReadTyped(p)' /\ ReadInv(p)'
    BY <1>1, <1>2, <2>2, <2>3, ReadKept DEF WireStays
  <2> QED BY <1>2, <1>3, <2>2, <2>3, <2>4, <2>5, Together DEF Moved
<1>5. CASE s = "fill"
  <2>1. /\ loads' = [loads EXCEPT ![p].fill = NoLoad] /\ stale' = [stale EXCEPT ![p] = FALSE]
        /\ reader' = [reader EXCEPT ![p] = IF @.pc = "wait" THEN NoReader ELSE @]
        /\ UNCHANGED callVars /\ UNCHANGED cache
    BY <1>5 DEF LoadFails
  <2>2. LoadMoved(p) /\ loads'[p].fill = NoLoad /\ loads'[p].call = loads[p].call
    BY <1>1, <2>1, LoadValues, Blanks
  <2>3. /\ ReadMoved(p) /\ cache'[p] = cache[p] /\ stale'[p] = FALSE
        /\ reader'[p] = IF reader[p].pc = "wait" THEN NoReader ELSE reader[p]
    BY <1>1, <2>1 DEF Maps, ReadMaps, ReadMoved, ReadStays
  <2>4. CallMoved(p) /\ CallStays(p)
    BY <1>1, <2>1, Same
  <2>5. CallTyped(p)' /\ CallInv(p)'
    BY <1>1, <2>2, <2>4, CallKept
  <2>6. ReadTyped(p)'
    BY <1>1, <1>2, <2>2, <2>3 DEF Ground, ReadTyped, WireStays
  <2>7. ReadInv(p)'
    <3>1. Located(roots', loads'[p].fill) /\ loads'[p].fill.at # "answered"
      BY <1>1, <2>2 DEF Ground, NoLoad
    <3> QED BY <1>1, <1>2, <2>3, <3>1, FillGone DEF WireStays
  <2> QED BY <1>2, <1>3, <2>2, <2>3, <2>4, <2>5, <2>6, <2>7, Together DEF Moved
<1> QED BY <1>4, <1>5
\* A call whose load goes on is otherwise where it was.
LEMMA CallReloads ==
  ASSUME NEW p \in Pages, Ground(p), CallStays(p), loads[p].call # NoLoad,
         loads'[p].call \in Load, Located(roots', loads'[p].call)
  PROVE  CallTyped(p)' /\ CallInv(p)'
<1>1. CallTyped(p) /\ CallInv(p) /\ loaded[p] \in Index
  BY DEF Ground, PageTyped, PageInv, CallTyped
<1>2. CallTyped(p)'
  <2>1. /\ request'[p] \in Store!Requests \cup {NoRequest} /\ out'[p] \in Answers /\ pc'[p] \in Labels
        /\ tries'[p] \in 0..MaxCasAttempts /\ (tries'[p] = MaxCasAttempts => pc'[p] = "final")
    BY <1>1 DEF CallStays, CallTyped
  <2>2. loaded'[p] \in Index' /\ loads'[p].call \in Load'
    BY <1>1 DEF CallStays, CallTyped, Ground
  <2>3. mine'[p] \in 0..Len(files') /\ todo'[p] \in SUBSET (1..Len(files'))
    BY <1>1 DEF CallStays, CallTyped, Ground
  <2> QED BY <2>1, <2>2, <2>3 DEF CallTyped, Answers, Labels
<1>3. Known(roots', loaded[p])
  BY <1>1, SeenStays DEF CallInv, Ground
<1>4. pc[p] \in {"load", "final", "recheck"}
  BY <1>1 DEF CallInv
<1>5. mine[p] = 0
  BY <1>1, <1>4 DEF CallInv
<1>6. CallInv(p)'
  BY <1>1, <1>3, <1>4, <1>5 DEF CallInv, CallStays
<1> QED BY <1>2, <1>6
\* A load goes on: to the creation of the index, to the second listing, to the download.
LEMMA LoadGoesOn ==
  ASSUME DriveAssumption, PagesInv, Grows, NEW p \in Pages, NEW s \in {"call", "fill"},
         NEW x \in Load, x.at # "answered", loads[p][s] # NoLoad, Located(roots', x),
         loads' = [loads EXCEPT ![p][s] = x], UNCHANGED <<callVars, readVars, wire, acked>>
  PROVE  PagesInv'
<1>1. Ground(p) /\ Maps /\ TypeOK /\ CallTyped(p) /\ CallInv(p) /\ ReadTyped(p)
  BY GroundHolds DEF Ground, PageTyped, PageInv
<1>2. /\ WireMoved(p) /\ WireStays(p) /\ CallMoved(p) /\ CallStays(p)
      /\ ReadMoved(p) /\ ReadStays(p)
  BY <1>1, Same
<1>3. WireTyped(p)' /\ WireInv(p)'
  BY <1>1, <1>2, WireKept DEF WireStays
<1>4. CASE s = "call"
  <2>1. LoadMoved(p) /\ loads'[p].call = x /\ loads'[p].fill = loads[p].fill
    BY <1>1, <1>4, LoadValues
  <2>2. CallTyped(p)' /\ CallInv(p)'
    BY <1>1, <1>2, <1>4, <2>1, CallReloads DEF CallInv
  <2>3. ReadTyped(p)' /\ ReadInv(p)'
    BY <1>1, <1>2, <2>1, ReadKept DEF WireStays
  <2> QED BY <1>2, <1>3, <2>1, <2>2, <2>3, Together DEF Moved
<1>5. CASE s = "fill"
  <2>1. LoadMoved(p) /\ loads'[p].fill = x /\ loads'[p].call = loads[p].call
    BY <1>1, <1>5, LoadValues
  <2>2. CallTyped(p)' /\ CallInv(p)'
    BY <1>1, <1>2, <2>1, CallKept
  <2>3. ReadTyped(p)'
    BY <1>1, <1>2, <2>1 DEF ReadTyped, ReadStays, WireStays, Ground
  <2>4. ReadInv(p)'
    BY <1>1, <1>2, <2>1, FillGone DEF ReadStays, WireStays
  <2> QED BY <1>2, <1>3, <2>1, <2>2, <2>3, <2>4, Together DEF Moved
<1> QED BY <1>4, <1>5

LEMMA ListInv ==
  ASSUME DriveAssumption, PagesInv, NEW p \in Pages, NEW s \in {"call", "fill"}, List(p, s)
  PROVE  PagesInv'
<1>1. Grows /\ TypeOK
  BY FaultTyped, FolderStays DEF List, PagesInv
<1>2. CASE Len(roots) > 1
  BY <1>1, <1>2, LoadFailsInv DEF List
<1>3. CASE ~(Len(roots) > 1)
  <2>1. /\ loads' = [loads EXCEPT ![p][s] =
                       [@ EXCEPT !.at = IF roots = << >> THEN "create" ELSE "download",
                                 !.root = Len(roots)]]
        /\ UNCHANGED <<callVars, readVars, wire, acked>> /\ UNCHANGED roots
        /\ loads[p][s].at \in {"list", "relist"}
    BY <1>3 DEF List
  <2>2. PICK y \in Load : y = loads[p][s]
    BY <1>1 DEF TypeOK
  <2>3. PICK x : x = [y EXCEPT !.at = IF roots = << >> THEN "create" ELSE "download",
                               !.root = Len(roots)]
    OBVIOUS
  <2>4. loads' = [loads EXCEPT ![p][s] = x]
    BY <1>1, <2>1, <2>2, <2>3 DEF TypeOK
  <2>5. Len(roots) \in Nat /\ (roots # << >> => Len(roots) >= 1)
    BY <1>1, FirstIndex DEF TypeOK
  <2>6. x \in Load /\ x.at \in {"create", "download"} /\ x.root = Len(roots)
    <3>1. PICK a \in {"create", "download"} : a = IF roots = << >> THEN "create" ELSE "download"
      OBVIOUS
    <3>2. x = [y EXCEPT !.at = a, !.root = Len(roots)] /\ Len(roots) \in 0..Len(roots)
      BY <2>3, <2>5, <3>1
    <3>3. y \in [at : {"none", "list", "create", "relist", "download", "answered"},
                 root : 0..Len(roots), index : Index]
      BY <2>2 DEF Load
    <3> QED BY <3>2, <3>3 DEF Load
  <2>7. Located(roots', x)
    BY <1>3, <2>1, <2>3, <2>5, <2>6 DEF Located
  <2>8. loads[p][s] # NoLoad
    BY <2>1 DEF NoLoad
  <2> QED BY <1>1, <2>1, <2>4, <2>6, <2>7, <2>8, LoadGoesOn
<1> QED BY <1>2, <1>3

LEMMA CreateIndexInv ==
  ASSUME DriveAssumption, PagesInv, NEW p \in Pages, NEW s \in {"call", "fill"}, CreateIndex(p, s)
  PROVE  PagesInv'
<1>1. Grows /\ TypeOK
  BY FaultTyped, IndexAdded DEF CreateIndex, PagesInv
<1>2. PICK y \in Load : y = loads[p][s]
  BY <1>1 DEF TypeOK
<1>3. PICK x : x = [y EXCEPT !.at = "relist"]
  OBVIOUS
<1>4. loads' = [loads EXCEPT ![p][s] = x]
  BY <1>1, <1>2, <1>3 DEF TypeOK, CreateIndex
<1>5. x \in Load /\ x.at = "relist" /\ Located(roots', x)
  BY <1>2, <1>3 DEF Load, Located
<1>6. loads[p][s] # NoLoad
  BY DEF CreateIndex, NoLoad
<1> QED BY <1>1, <1>4, <1>5, <1>6, LoadGoesOn DEF CreateIndex

LEMMA LoadThrowsInv ==
  ASSUME DriveAssumption, PagesInv, NEW p \in Pages, NEW s \in {"call", "fill"}, LoadThrows(p, s)
  PROVE  PagesInv'
<1>1. UsedTyped(used') /\ TypeOK
  BY FaultTyped DEF LoadThrows, PagesInv
<1>2. Grows
  BY <1>1, FolderStays, IndexAdded DEF LoadThrows
<1> QED BY <1>2, LoadFailsInv DEF LoadThrows
\* A download returns the index file as it is.
LEMMA DownloadedIndex ==
  ASSUME TypeOK, NEW p \in Pages, NEW s \in {"call", "fill"}, loads[p][s].at = "download",
         Located(roots, loads[p][s])
  PROVE  /\ Downloaded(p, s) \in Index /\ Seen(roots, Downloaded(p, s))
         /\ Downloaded(p, s) # NoIndex /\ roots # << >>
         /\ Downloaded(p, s).entries = roots[1].entries
         /\ Downloaded(p, s).etag = Newest(roots)
<1>1. loads[p][s].root = 1 /\ roots # << >>
  BY DEF Located
<1>2. /\ Len(roots) \in Nat /\ Len(roots) >= 1 /\ roots[1] \in [etag : Nat, entries : Entries]
  BY <1>1, FirstIndex
<1>3. Downloaded(p, s) = [root |-> 1, etag |-> roots[1].etag, entries |-> roots[1].entries]
  BY <1>1 DEF Downloaded
<1>4. Downloaded(p, s) \in Index
  BY <1>2, <1>3 DEF Index
<1> QED BY <1>1, <1>2, <1>3, <1>4 DEF Seen, NoIndex, Newest

RequestKeys(r) ==
  /\ r.op \in {"put", "cas", "trash", "sweep"} /\ r.keys \in SUBSET Keys
  /\ r.op \in {"put", "cas"} => (\E k \in Keys : r.keys = {k}) /\ r.content \in Contents
  /\ r.op = "cas" => r.expected \in Contents
  /\ r.op = "trash" => r.keys # {} /\ r.content = None
  /\ r.op = "sweep" => r.keys = {}

LEMMA RequestFacts ==
  ASSUME NEW r \in Store!Requests
  PROVE  RequestKeys(r) /\ r # NoRequest
BY DEF Store!Requests, RequestKeys, NoRequest, Store!NoRequest

\* What a call goes on to do with the index it has loaded.
Goes(p, label, x) ==
  /\ pc[p] = "load" /\ Continue(p, label, x)
  /\ \/ label = "upload" /\ request[p].op \in {"put", "cas"} /\ Found(files, request[p], x)
     \/ label = "advance" /\ request[p].op = "trash" /\ Found(files, request[p], x)
     \/ label = "query" /\ request[p].op = "sweep"
Sweeps(p, rest) ==
  /\ pc[p] = "recheck" /\ request[p].op = "sweep" /\ rest = todo[p] \ Named(roots)
  /\ Goto(p, "patch") /\ todo' = [todo EXCEPT ![p] = rest]
  /\ UNCHANGED <<request, out, tries, loaded, mine>>

LEMMA DownloadEffect ==
  ASSUME TypeOK, NEW p \in Pages, CallTyped(p), CallInv(p), Download(p)
  PROVE  /\ UNCHANGED <<roots, files, readVars, wire, acked, used>>
         /\ loads' = [loads EXCEPT ![p].call = NoLoad] /\ loads[p].call # NoLoad
         /\ \/ \E a \in Answers \ {"none", "pending"} : Settle(p, a)
            \/ \E x \in Index, label \in Labels :
                 /\ Seen(roots, x) /\ x.entries = roots[1].entries /\ Goes(p, label, x)
            \/ \E rest \in SUBSET todo[p] : Sweeps(p, rest)
<1>1. /\ UNCHANGED <<roots, files, readVars, wire, acked, used>>
      /\ loads' = [loads EXCEPT ![p].call = NoLoad] /\ loads[p].call # NoLoad
      /\ loads[p].call.at = "download"
  BY DEF Download, NoLoad
<1>2. PICK x \in Index :
        /\ x = Downloaded(p, "call") /\ Seen(roots, x) /\ x.entries = roots[1].entries
        /\ roots # << >>
  BY <1>1, DownloadedIndex DEF CallInv
<1>3. /\ pc[p] \in {"load", "final", "recheck"} /\ request[p] \in Store!Requests
      /\ RequestKeys(request[p])
  BY <1>1, RequestFacts DEF CallInv
<1>4. \/ PutLoaded(p, x) \/ CasLoaded(p, x) \/ CasSpent(p, x)
      \/ TrashLoaded(p, x) \/ SweepLoaded(p, x)
  BY <1>2 DEF Download
<1>5. CASE PutLoaded(p, x)
  <2>1. Settle(p, "exists") \/ Settle(p, "failed") \/ Goes(p, "upload", x)
    BY <1>5 DEF PutLoaded, Goes, Found
  <2> QED BY <1>1, <1>2, <2>1 DEF Answers, Labels
<1>6. CASE CasLoaded(p, x)
  <2>1. PICK k \in request[p].keys :
          IF x.entries[k] = 0 THEN Settle(p, "missing")
          ELSE IF Content(x.entries[k]) # request[p].expected THEN Settle(p, "mismatch")
          ELSE Continue(p, "upload", x)
    BY <1>6 DEF CasLoaded
  <2>2. request[p].op = "cas" /\ pc[p] = "load" /\ request[p].keys = {k}
    BY <1>3, <1>6 DEF CasLoaded, RequestKeys
  <2>3. Settle(p, "missing") \/ Settle(p, "mismatch") \/ Goes(p, "upload", x)
    BY <2>1, <2>2 DEF Goes, Found, Content
  <2> QED BY <1>1, <1>2, <2>3 DEF Answers, Labels
<1>7. CASE CasSpent(p, x)
  <2>1. Settle(p, "missing") \/ Settle(p, "mismatch")
    BY <1>7 DEF CasSpent
  <2> QED BY <1>1, <2>1 DEF Answers
<1>8. CASE TrashLoaded(p, x)
  <2>1. Settle(p, "removed") \/ Goes(p, "advance", x)
    BY <1>8 DEF TrashLoaded, Goes, Found
  <2> QED BY <1>1, <1>2, <2>1 DEF Answers, Labels
<1>9. CASE SweepLoaded(p, x)
  <2>1. CASE pc[p] = "load"
    <3>1. Goes(p, "query", x)
      BY <1>9, <2>1 DEF SweepLoaded, Goes
    <3> QED BY <1>1, <1>2, <3>1 DEF Labels
  <2>2. CASE pc[p] # "load"
    <3>1. pc[p] = "recheck" /\ request[p].op = "sweep"
      BY <1>3, <1>9, <2>2 DEF SweepLoaded, CallInv
    <3>2. PICK rest \in SUBSET todo[p] : rest = todo[p] \ Named(roots)
      OBVIOUS
    <3>3. rest = todo[p] \ Tracked(x.entries)
      BY <1>2, <3>2 DEF Named
    <3>4. Settle(p, "removed") \/ Sweeps(p, rest)
      BY <1>9, <2>2, <3>1, <3>2, <3>3 DEF SweepLoaded, Sweeps
    <3> QED BY <1>1, <3>4 DEF Answers
  <2> QED BY <2>1, <2>2
<1> QED BY <1>4, <1>5, <1>6, <1>7, <1>8, <1>9

LEMMA DownloadInv ==
  ASSUME DriveAssumption, PagesInv, NEW p \in Pages, Download(p)
  PROVE  PagesInv'
<1>1. Grows /\ TypeOK
  BY FaultTyped, FolderStays DEF Download, PagesInv
<1>2. Ground(p) /\ Maps /\ CallTyped(p) /\ CallInv(p)
  BY <1>1, GroundHolds DEF Ground, PageTyped, PageInv
<1>3. /\ UNCHANGED <<roots, files, readVars, wire, acked, used>>
      /\ loads' = [loads EXCEPT ![p].call = NoLoad] /\ loads[p].call # NoLoad
      /\ \/ \E a \in Answers \ {"none", "pending"} : Settle(p, a)
         \/ \E x \in Index, label \in Labels :
              /\ Seen(roots, x) /\ x.entries = roots[1].entries /\ Goes(p, label, x)
         \/ \E rest \in SUBSET todo[p] : Sweeps(p, rest)
  BY <1>1, <1>2, DownloadEffect
<1>4. LoadMoved(p) /\ loads'[p].call = NoLoad /\ loads'[p].fill = loads[p].fill
  BY <1>1, <1>3, LoadValues, Blanks
<1>5. ReadMoved(p) /\ ReadStays(p) /\ WireMoved(p) /\ WireStays(p)
  BY <1>2, <1>3, Same
<1>6. ReadTyped(p)' /\ ReadInv(p)' /\ WireTyped(p)' /\ WireInv(p)'
  BY <1>2, <1>4, <1>5, ReadKept, WireKept DEF WireStays
<1>7. pc[p] = "load" \/ pc[p] = "recheck" => mine[p] = 0 /\ tries[p] # MaxCasAttempts
  BY <1>2 DEF CallInv, CallTyped
<1>8. CallMoved(p) /\ CallTyped(p)' /\ CallInv(p)'
  <2>1. CASE \E a \in Answers \ {"none", "pending"} : Settle(p, a)
    BY <1>2, <1>4, <2>1, SettleValues, CallSettled
  <2>2. ASSUME NEW x \in Index, NEW label \in Labels, Seen(roots, x), Goes(p, label, x)
        PROVE  CallMoved(p) /\ CallTyped(p)' /\ CallInv(p)'
    <3>1. /\ CallMoved(p) /\ pc'[p] = label /\ loaded'[p] = x
          /\ request'[p] = request[p] /\ out'[p] = out[p] /\ tries'[p] = tries[p]
          /\ mine'[p] = mine[p] /\ todo'[p] = todo[p]
      BY <1>2, <2>2 DEF Maps, CallMaps, CallMoved, CallStays, Goes, Continue, Goto
    <3>2. pc[p] = "load" /\ mine[p] = 0 /\ tries[p] # MaxCasAttempts
      BY <1>7, <2>2 DEF Goes
    <3>3. /\ request[p] \in Store!Requests /\ out[p] = "pending" /\ pc'[p] # "idle"
          /\ pc'[p] \in {"upload", "advance", "query"}
      BY <1>2, <2>2, <3>1, <3>2 DEF CallInv, Goes
    <3>4. CallTyped(p)'
      BY <1>2, <1>4, <3>1, <3>2 DEF CallTyped, Ground, Labels, Answers
    <3>5. Seen(roots', x) /\ Known(roots', x) /\ Located(roots', NoLoad)
      BY <1>2, <1>3, <2>2 DEF Known, Ground
    <3>6. /\ pc'[p] = "upload" => request[p].op \in {"put", "cas"}
          /\ pc'[p] = "advance" => request[p].op = "trash"
          /\ pc'[p] = "query" => request[p].op = "sweep"
          /\ pc'[p] \in {"upload", "advance"} => Found(files', request[p], x)
      BY <1>3, <2>2, <3>1 DEF Goes
    <3>7. CallInv(p)'
      BY <1>4, <3>1, <3>2, <3>3, <3>5, <3>6 DEF CallInv
    <3> QED BY <3>1, <3>4, <3>7
  <2>3. ASSUME NEW rest \in SUBSET todo[p], Sweeps(p, rest)
        PROVE  CallMoved(p) /\ CallTyped(p)' /\ CallInv(p)'
    <3>1. /\ CallMoved(p) /\ pc'[p] = "patch" /\ todo'[p] = rest
          /\ request'[p] = request[p] /\ out'[p] = out[p] /\ tries'[p] = tries[p]
          /\ mine'[p] = mine[p] /\ loaded'[p] = loaded[p]
      BY <1>2, <2>3 DEF Maps, CallMaps, CallMoved, CallStays, Sweeps, Goto
    <3>2. /\ pc[p] = "recheck" /\ mine[p] = 0 /\ tries[p] # MaxCasAttempts
          /\ request[p].op = "sweep"
      BY <1>7, <2>3 DEF Sweeps
    <3>3. CallTyped(p)'
      BY <1>2, <1>4, <3>1, <3>2 DEF CallTyped, Ground, Labels, Answers
    <3>4. Known(roots', loaded[p]) /\ Located(roots', NoLoad)
      BY <1>2, <1>3 DEF Ground, CallInv
    <3>5. CallInv(p)'
      BY <1>2, <1>4, <3>1, <3>2, <3>4 DEF CallInv
    <3> QED BY <3>1, <3>3, <3>5
  <2> QED BY <1>3, <2>1, <2>2, <2>3
<1> QED BY <1>1, <1>4, <1>5, <1>6, <1>8, Together DEF Moved
LEMMA NewFileTyped ==
  ASSUME NEW p \in Pages, request[p] \in Store!Requests, request[p].op \in {"put", "cas"}
  PROVE  NewFile(p) \in File /\ NewFile(p).content = request[p].content
         /\ ~NewFile(p).trashed /\ ~NewFile(p).aged
<1>1. request[p].content \in Contents
  BY RequestFacts DEF RequestKeys
<1> QED BY <1>1 DEF NewFile, File

LEMMA UploadInv ==
  ASSUME DriveAssumption, PagesInv, NEW p \in Pages, Upload(p)
  PROVE  PagesInv'
<1>1. TypeOK /\ TypedByPage /\ PageInv(p)
  BY TypesByPage DEF PagesInv
<1>2. CallTyped(p) /\ CallInv(p) /\ pc[p] = "upload"
  BY <1>1 DEF TypedByPage, PageTyped, PageInv, Upload
<1>3. request[p] \in Store!Requests /\ request[p].op \in {"put", "cas"} /\ loads[p].call = NoLoad
  BY <1>2 DEF CallInv
<1>4. /\ Grows /\ Len(files') = Len(files) + 1 /\ files'[Len(files) + 1].content = request[p].content
  BY <1>1, <1>3, NewFileTyped, FaultTyped, BodyAdded DEF Upload
<1>5. Ground(p) /\ Maps
  BY <1>4, GroundHolds DEF Ground
<1>6. /\ ReadMoved(p) /\ ReadStays(p) /\ WireMoved(p) /\ WireStays(p)
      /\ LoadMoved(p) /\ loads'[p] = loads[p]
  BY <1>5, Same DEF Upload
<1>7. ReadTyped(p)' /\ ReadInv(p)' /\ WireTyped(p)' /\ WireInv(p)'
  BY <1>5, <1>6, ReadKept, WireKept DEF WireStays
<1>8. /\ CallMoved(p) /\ pc'[p] = "advance" /\ mine'[p] = Len(files) + 1
      /\ request'[p] = request[p] /\ out'[p] = out[p] /\ tries'[p] = tries[p]
      /\ todo'[p] = todo[p] /\ loaded'[p] = loaded[p]
  BY <1>5 DEF Maps, CallMaps, CallMoved, CallStays, Upload, Goto
<1>9. CallTyped(p)'
  <2>1. mine'[p] \in 0..Len(files') /\ todo'[p] \in SUBSET (1..Len(files'))
    BY <1>2, <1>4, <1>5, <1>8 DEF CallTyped, Ground
  <2> QED BY <1>2, <1>5, <1>6, <1>8, <2>1 DEF CallTyped, Ground, Labels, Answers
<1>10. /\ Seen(roots', loaded[p]) /\ Known(roots', loaded[p]) /\ Located(roots', NoLoad)
       /\ Found(files', request[p], loaded[p])
  BY <1>1, <1>2, <1>3, <1>4, <1>5, SeenStays, FoundStays DEF CallInv, CallTyped, Ground
<1>11. mine'[p] # 0
  BY <1>5, <1>8 DEF Ground
<1>12. CallInv(p)'
  BY <1>2, <1>3, <1>4, <1>6, <1>8, <1>10, <1>11 DEF CallInv
<1> QED BY <1>4, <1>6, <1>7, <1>8, <1>9, <1>12, Together DEF Moved

\* A call that ends while no load of its own is under way.
LEMMA SettleInv ==
  ASSUME DriveAssumption, PagesInv, Grows, NEW p \in Pages,
         NEW a \in Answers \ {"none", "pending"}, Settle(p, a), loads[p].call = NoLoad,
         UNCHANGED <<loads, readVars, wire, acked>>
  PROVE  PagesInv'
<1>1. Ground(p) /\ Maps
  BY GroundHolds DEF Ground
<1>2. /\ ReadMoved(p) /\ ReadStays(p) /\ WireMoved(p) /\ WireStays(p)
      /\ LoadMoved(p) /\ loads'[p] = loads[p]
  BY <1>1, Same
<1>3. ReadTyped(p)' /\ ReadInv(p)' /\ WireTyped(p)' /\ WireInv(p)'
  BY <1>1, <1>2, ReadKept, WireKept DEF WireStays
<1>4. CallMoved(p) /\ CallTyped(p)' /\ CallInv(p)'
  BY <1>1, <1>2, SettleValues, CallSettled
<1> QED BY <1>2, <1>3, <1>4, Together DEF Moved

LEMMA UploadThrowsInv ==
  ASSUME DriveAssumption, PagesInv, NEW p \in Pages, UploadThrows(p)
  PROVE  PagesInv'
<1>1. TypeOK /\ CallInv(p) /\ pc[p] = "upload"
  BY DEF PagesInv, PageInv, UploadThrows
<1>2. request[p] \in Store!Requests /\ request[p].op \in {"put", "cas"} /\ loads[p].call = NoLoad
  BY <1>1 DEF CallInv
<1>3. UsedTyped(used') /\ NewFile(p) \in File
  BY <1>1, <1>2, NewFileTyped, FaultTyped DEF UploadThrows
<1>4. Grows
  BY <1>1, <1>3, FolderStays, BodyAdded DEF UploadThrows
<1> QED BY <1>2, <1>4, SettleInv DEF UploadThrows, Answers

\* The rewrite a call sends.
LEMMA Rewriting ==
  ASSUME TypeOK, NEW p \in Pages, CallTyped(p), CallInv(p), pc[p] = "advance"
  PROVE  /\ NextEntries(p) \in Entries /\ loaded[p] \in Index
         /\ request[p] \in Store!Requests /\ request[p].op \in {"put", "cas", "trash"}
         /\ Seen(roots, loaded[p]) /\ Found(files, request[p], loaded[p])
         /\ Applied(files, request[p], loaded[p], NextEntries(p))
         /\ loads[p].call = NoLoad /\ tries[p] # MaxCasAttempts
<1>1. loaded[p].entries \in [Keys -> 0..Len(files)] /\ mine[p] \in 0..Len(files)
  BY DEF CallTyped, Index, Entries
<1>2. NextEntries(p) \in Entries
  BY <1>1 DEF NextEntries, Entries
<1>3. /\ request[p] \in Store!Requests /\ request[p].op \in {"put", "cas", "trash"}
      /\ Seen(roots, loaded[p]) /\ Found(files, request[p], loaded[p])
      /\ loads[p].call = NoLoad /\ tries[p] # MaxCasAttempts
  BY DEF CallInv, CallTyped
<1>4. request[p].keys \subseteq Keys
  BY <1>3, RequestFacts DEF RequestKeys
<1>5. /\ request[p].op = "trash" => mine[p] = 0
      /\ request[p].op # "trash" => mine[p] # 0 /\ files[mine[p]].content = request[p].content
  BY DEF CallInv
<1>6. Applied(files, request[p], loaded[p], NextEntries(p))
  BY <1>4, <1>5 DEF Applied, NextEntries
<1> QED BY <1>2, <1>3, <1>6 DEF CallTyped
\* The rewrite commits.
LEMMA CommitInv ==
  ASSUME DriveAssumption, PagesInv, NEW p \in Pages, Advance(p), Matches(loaded[p])
  PROVE  PagesInv'
<1>1. TypeOK /\ TypedByPage /\ PageInv(p)
  BY TypesByPage DEF PagesInv
<1>2. CallTyped(p) /\ CallInv(p) /\ pc[p] = "advance"
  BY <1>1 DEF TypedByPage, PageTyped, PageInv, Advance
<1>3. /\ NextEntries(p) \in Entries /\ loaded[p] \in Index /\ Seen(roots, loaded[p])
      /\ loads[p].call = NoLoad /\ tries[p] # MaxCasAttempts
      /\ request[p] \in Store!Requests /\ request[p].op \in {"put", "cas", "trash"}
  BY <1>1, <1>2, Rewriting
<1>4. /\ Rewrite(loaded[p], NextEntries(p)) /\ Committed(p) /\ NextEpoch(p) /\ UNCHANGED loads
      /\ acked' = [acked EXCEPT ![p] = loaded[p].etag + 1] /\ UNCHANGED <<files, wire, used>>
  BY DEF Advance
<1>5. /\ Grows /\ loaded[p].etag = roots[1].etag /\ roots' # << >>
      /\ roots'[1] = [etag |-> roots[1].etag + 1, entries |-> NextEntries(p)]
  BY <1>1, <1>3, <1>4, FaultTyped, IndexRewritten
<1>6. Ground(p) /\ Maps
  BY <1>5, GroundHolds DEF Ground
<1>7. /\ ReadMoved(p) /\ EpochMoved(p) /\ LoadMoved(p) /\ loads'[p] = loads[p]
  BY <1>4, <1>6, EpochValues, Same
<1>8. WireMoved(p) /\ wire'[p] = wire[p] /\ acked'[p] = loaded[p].etag + 1
  BY <1>4, <1>6 DEF Maps, WireMaps, WireMoved, WireStays
<1>9. ReadTyped(p)' /\ ReadInv(p)'
  <2>1. acked[p] \in Nat /\ acked[p] <= Newest(roots)
    BY <1>6 DEF Ground, PageTyped, PageInv, ReadTyped, ReadInv
  <2>2. roots # << >> /\ roots[1].etag \in Nat
    BY <1>1, <1>3, FirstIndex DEF Seen
  <2>3. Newest(roots) = roots[1].etag /\ Newest(roots') = roots[1].etag + 1
    BY <1>5, <2>2 DEF Newest
  <2>4. acked'[p] \in Nat /\ acked[p] <= acked'[p] /\ acked'[p] <= Newest(roots')
    BY <1>5, <1>8, <2>1, <2>2, <2>3
  <2> QED BY <1>6, <1>7, <2>4, ReadEpoch
<1>10. WireTyped(p)' /\ WireInv(p)'
  BY <1>6, <1>8, WireKept
<1>11. CallMoved(p) /\ CallTyped(p)' /\ CallInv(p)'
  <2>1. CASE request[p].op # "trash"
    <3>1. PICK a \in {"created", "updated"} : Settle(p, a)
      BY <1>4, <2>1 DEF Committed
    <3> QED BY <1>3, <1>6, <1>7, <3>1, SettleValues, CallSettled DEF Answers
  <2>2. CASE request[p].op = "trash"
    <3>1. PICK T : T = {loaded[p].entries[k] : k \in request[p].keys} \ {0}
      OBVIOUS
    <3>2. /\ CallMoved(p) /\ pc'[p] = "patch" /\ todo'[p] = T
          /\ request'[p] = request[p] /\ out'[p] = out[p] /\ tries'[p] = tries[p]
          /\ loaded'[p] = loaded[p] /\ mine'[p] = mine[p]
      BY <1>4, <1>6, <2>2, <3>1 DEF Committed, Maps, CallMaps, CallMoved, CallStays, Goto
    <3>3. T \in SUBSET (1..Len(files'))
      <4>1. request[p].keys \subseteq Keys /\ loaded[p].entries \in [Keys -> 0..Len(files)]
        BY <1>3, RequestFacts DEF RequestKeys, Index, Entries
      <4>2. Len(files) \in Nat /\ Len(files') = Len(files)
        BY <1>4, <1>6 DEF Ground
      <4> QED BY <3>1, <4>1, <4>2
    <3>4. CallTyped(p)'
      BY <1>2, <1>3, <1>6, <1>7, <3>2, <3>3 DEF CallTyped, Ground, Labels, Answers
    <3>5. mine[p] = 0 /\ out[p] = "pending"
      BY <1>2, <2>2 DEF CallInv
    <3>6. Known(roots', loaded[p]) /\ Located(roots', NoLoad)
      BY <1>1, <1>2, <1>3, <1>5, <1>6, SeenStays DEF CallInv, Ground
    <3>7. CallInv(p)'
      BY <1>3, <1>7, <2>2, <3>2, <3>5, <3>6 DEF CallInv
    <3> QED BY <3>2, <3>4, <3>7
  <2> QED BY <2>1, <2>2
<1> QED BY <1>5, <1>7, <1>8, <1>9, <1>10, <1>11, Together DEF Moved

\* The rewrite lost: the call reloads, or its budget is spent.
LEMMA LostInv ==
  ASSUME DriveAssumption, PagesInv, NEW p \in Pages, Advance(p), ~Matches(loaded[p])
  PROVE  PagesInv'
<1>1. TypeOK /\ TypedByPage /\ PageInv(p)
  BY TypesByPage DEF PagesInv
<1>2. CallTyped(p) /\ CallInv(p) /\ pc[p] = "advance"
  BY <1>1 DEF TypedByPage, PageTyped, PageInv, Advance
<1>3. /\ loads[p].call = NoLoad /\ tries[p] # MaxCasAttempts
      /\ request[p] \in Store!Requests /\ out[p] = "pending"
  BY <1>1, <1>2, Rewriting DEF CallInv
<1>4. Lost(p) /\ UNCHANGED <<roots, files, wire, acked, used>>
  BY DEF Advance
<1>5. Grows
  BY <1>1, <1>4, FaultTyped, FolderStays
<1>6. Ground(p) /\ Maps
  BY <1>5, GroundHolds DEF Ground
<1>7. WireMoved(p) /\ WireStays(p) /\ NextEpoch(p)
  BY <1>4, <1>6, Same DEF Lost, ForceLoad
<1>8. ReadMoved(p) /\ EpochMoved(p)
  BY <1>6, <1>7, EpochValues
<1>9. acked[p] \in Nat /\ acked[p] <= Newest(roots')
  BY <1>4, <1>6 DEF Ground, PageTyped, PageInv, ReadTyped, ReadInv
<1>10. WireTyped(p)' /\ WireInv(p)'
  BY <1>6, <1>7, WireKept DEF WireStays
<1>11. CASE tries[p] + 1 < MaxCasAttempts \/ request[p].op = "cas"
  <2>1. PICK label \in {"load", "final"} :
          label = IF tries[p] + 1 < MaxCasAttempts THEN "load" ELSE "final"
    OBVIOUS
  <2>2. loads' = [loads EXCEPT ![p].call = NewLoad]
    BY <1>4, <1>11 DEF Lost, ForceLoad
  <2>3. LoadMoved(p) /\ loads'[p].call = NewLoad /\ loads'[p].fill = loads[p].fill
    BY <1>1, <2>2, LoadValues, Blanks
  <2>4. /\ CallMoved(p) /\ pc'[p] = label /\ tries'[p] = tries[p] + 1 /\ loaded'[p] = NoIndex
        /\ mine'[p] = 0 /\ request'[p] = request[p] /\ out'[p] = out[p] /\ todo'[p] = todo[p]
    BY <1>4, <1>6, <1>11, <2>1 DEF Lost, Maps, CallMaps, CallMoved, CallStays, Goto
  <2>5. /\ tries[p] + 1 \in 0..MaxCasAttempts /\ (tries[p] + 1 = MaxCasAttempts => label = "final")
        /\ label = "final" => request[p].op = "cas"
    BY <1>2, <1>3, <1>6, <1>11, <2>1 DEF CallTyped, Ground, DriveAssumption
  <2>6. mine'[p] \in 0..Len(files')
    BY <1>6, <2>4 DEF Ground
  <2>7. CallTyped(p)'
    BY <1>2, <1>6, <2>1, <2>3, <2>4, <2>5, <2>6 DEF CallTyped, Ground, Labels, Answers
  <2>8. CallInv(p)'
    BY <1>3, <1>6, <2>1, <2>3, <2>4, <2>5 DEF CallInv, Ground
  <2>9. ReadTyped(p)' /\ ReadInv(p)'
    BY <1>6, <1>7, <1>8, <1>9, <2>3, ReadEpoch DEF WireStays
  <2> QED BY <1>5, <1>7, <1>8, <1>10, <2>3, <2>4, <2>7, <2>8, <2>9, Together DEF Moved
<1>12. CASE ~(tries[p] + 1 < MaxCasAttempts \/ request[p].op = "cas")
  <2>1. Settle(p, "failed") /\ UNCHANGED loads
    BY <1>4, <1>12 DEF Lost
  <2>2. CallMoved(p) /\ Settled(p, "failed") /\ LoadMoved(p) /\ loads'[p] = loads[p]
    BY <1>6, <2>1, SettleValues, Same
  <2>3. CallTyped(p)' /\ CallInv(p)'
    BY <1>3, <1>6, <2>2, CallSettled DEF Answers
  <2>4. ReadTyped(p)' /\ ReadInv(p)'
    BY <1>6, <1>7, <1>8, <1>9, <2>2, ReadEpoch DEF WireStays
  <2> QED BY <1>5, <1>7, <1>8, <1>10, <2>2, <2>3, <2>4, Together DEF Moved
<1> QED BY <1>11, <1>12
LEMMA AdvanceThrowsInv ==
  ASSUME DriveAssumption, PagesInv, NEW p \in Pages, AdvanceThrows(p)
  PROVE  PagesInv'
<1>1. TypeOK /\ TypedByPage /\ PageInv(p)
  BY TypesByPage DEF PagesInv
<1>2. CallTyped(p) /\ CallInv(p) /\ pc[p] = "advance" /\ UsedTyped(used')
  BY <1>1, FaultTyped DEF TypedByPage, PageTyped, PageInv, AdvanceThrows
<1>3. /\ NextEntries(p) \in Entries /\ loaded[p] \in Index /\ Seen(roots, loaded[p])
      /\ loads[p].call = NoLoad /\ Found(files, request[p], loaded[p])
      /\ request[p] \in Store!Requests /\ request[p].op \in {"put", "cas", "trash"}
      /\ Applied(files, request[p], loaded[p], NextEntries(p))
  BY <1>1, <1>2, Rewriting
<1>4. Settle(p, "failed") /\ UNCHANGED <<files, loads, acked>>
  BY DEF AdvanceThrows
<1>5. ASSUME NextEpoch(p), UNCHANGED <<roots, wire>>
      PROVE  PagesInv'
  <2>1. Grows
    BY <1>1, <1>2, <1>4, <1>5, FolderStays
  <2>2. Ground(p) /\ Maps
    BY <2>1, GroundHolds DEF Ground
  <2>3. /\ CallMoved(p) /\ Settled(p, "failed") /\ LoadMoved(p) /\ loads'[p] = loads[p]
        /\ ReadMoved(p) /\ EpochMoved(p) /\ WireMoved(p) /\ WireStays(p)
    BY <1>4, <1>5, <2>2, SettleValues, EpochValues, Same
  <2>4. CallTyped(p)' /\ CallInv(p)'
    BY <1>3, <2>2, <2>3, CallSettled DEF Answers
  <2>5. acked[p] \in Nat /\ acked[p] <= Newest(roots')
    BY <1>5, <2>2 DEF Ground, PageTyped, PageInv, ReadTyped, ReadInv
  <2>6. ReadTyped(p)' /\ ReadInv(p)' /\ WireTyped(p)' /\ WireInv(p)'
    BY <2>2, <2>3, <2>5, ReadEpoch, WireKept DEF WireStays
  <2> QED BY <2>1, <2>3, <2>4, <2>6, Together DEF Moved
<1>6. ASSUME UNCHANGED <<readVars, wire>>, Matches(loaded[p]), Rewrite(loaded[p], NextEntries(p))
      PROVE  PagesInv'
  <2>1. Grows
    BY <1>1, <1>2, <1>3, <1>4, <1>6, IndexRewritten
  <2> QED BY <1>3, <1>4, <1>6, <2>1, SettleInv DEF Answers
<1>7. ASSUME UNCHANGED <<readVars, roots>>,
             wire' = [wire EXCEPT ![p] = [request |-> request[p], loaded |-> loaded[p],
                                          entries |-> NextEntries(p)]]
      PROVE  PagesInv'
  <2>1. Grows
    BY <1>1, <1>2, <1>4, <1>7, FolderStays
  <2>2. Ground(p) /\ Maps
    BY <2>1, GroundHolds DEF Ground
  <2>3. /\ CallMoved(p) /\ Settled(p, "failed") /\ LoadMoved(p) /\ loads'[p] = loads[p]
        /\ ReadMoved(p) /\ ReadStays(p)
    BY <1>4, <1>7, <2>2, SettleValues, Same
  <2>4. PICK w : w = [request |-> request[p], loaded |-> loaded[p], entries |-> NextEntries(p)]
    OBVIOUS
  <2>5. WireMoved(p) /\ wire'[p] = w /\ acked'[p] = acked[p]
    BY <1>4, <1>7, <2>2, <2>4 DEF Maps, WireMaps, WireMoved, WireStays
  <2>6. w \in Wires
    BY <1>3, <2>4 DEF Wires
  <2>7. WireTyped(p)' /\ WireInv(p)'
    <3>1. WireTyped(p)'
      BY <2>2, <2>5, <2>6 DEF WireTyped, Ground
    <3>2. /\ w.request \in Store!Requests /\ w.request.op # "sweep"
          /\ Seen(roots', w.loaded) /\ Found(files', w.request, w.loaded)
          /\ Applied(files', w.request, w.loaded, w.entries)
      BY <1>3, <1>4, <1>7, <2>4
    <3> QED BY <2>5, <3>1, <3>2 DEF WireInv
  <2>8. CallTyped(p)' /\ CallInv(p)'
    BY <1>3, <2>2, <2>3, CallSettled DEF Answers
  <2>9. ReadTyped(p)' /\ ReadInv(p)'
    BY <2>2, <2>3, <2>5, ReadKept
  <2> QED BY <2>1, <2>3, <2>5, <2>7, <2>8, <2>9, Together DEF Moved
<1> QED BY <1>5, <1>6, <1>7 DEF AdvanceThrows

\* A rewrite that was given up on reaches Drive, or never does.
LEMMA ArriveInv ==
  ASSUME DriveAssumption, PagesInv, NEW p \in Pages, Arrive(p)
  PROVE  PagesInv'
<1>1. TypeOK /\ TypedByPage /\ PageInv(p) /\ wire[p] # NoWire
  BY TypesByPage DEF PagesInv, Arrive
<1>2. /\ wire[p].loaded \in Index /\ wire[p].entries \in Entries /\ Seen(roots, wire[p].loaded)
  BY <1>1 DEF TypedByPage, PageTyped, WireTyped, Wires, PageInv, WireInv
<1>3. Grows
  BY <1>1, <1>2, FaultTyped, FolderStays, IndexRewritten DEF Arrive
<1>4. Ground(p) /\ Maps
  BY <1>3, GroundHolds DEF Ground
<1>5. /\ CallMoved(p) /\ CallStays(p) /\ LoadMoved(p) /\ loads'[p] = loads[p]
      /\ ReadMoved(p) /\ ReadStays(p)
  BY <1>4, Same DEF Arrive
<1>6. WireMoved(p) /\ wire'[p] = NoWire /\ acked'[p] = acked[p]
  BY <1>4 DEF Arrive, Maps, WireMaps, WireMoved, WireStays
<1>7. WireTyped(p)' /\ WireInv(p)'
  <2>1. WireTyped(p)'
    BY <1>4, <1>6 DEF WireTyped, Ground
  <2>2. WireInv(p)'
    BY <1>6 DEF WireInv, NoWire
  <2> QED BY <2>1, <2>2
<1>8. CallTyped(p)' /\ CallInv(p)' /\ ReadTyped(p)' /\ ReadInv(p)'
  BY <1>4, <1>5, <1>6, CallKept, ReadKept
<1> QED BY <1>3, <1>5, <1>6, <1>7, <1>8, Together DEF Moved

LEMMA QueryInv ==
  ASSUME DriveAssumption, PagesInv, NEW p \in Pages, Query(p)
  PROVE  PagesInv'
<1>1. Grows /\ TypeOK
  BY FaultTyped, FolderStays DEF Query, PagesInv
<1>2. Ground(p) /\ Maps /\ CallTyped(p) /\ CallInv(p) /\ pc[p] = "query"
  BY <1>1, GroundHolds DEF Ground, PageTyped, PageInv, Query
<1>3. /\ loads[p].call = NoLoad /\ request[p] \in Store!Requests /\ request[p].op = "sweep"
      /\ mine[p] = 0 /\ tries[p] # MaxCasAttempts /\ out[p] = "pending"
  BY <1>2 DEF CallInv, CallTyped
<1>4. PICK found \in SUBSET (1..Len(files)) :
        IF found = {}
        THEN Settle(p, "removed") /\ UNCHANGED <<loads, readVars>>
        ELSE /\ todo' = [todo EXCEPT ![p] = found]
             /\ Goto(p, "recheck") /\ ForceLoad(p)
             /\ UNCHANGED <<request, out, tries, loaded, mine>>
  BY DEF Query
<1>5. CASE found = {}
  BY <1>1, <1>3, <1>4, <1>5, SettleInv DEF Query, Answers
<1>6. CASE found # {}
  <2>1. /\ CallMoved(p) /\ pc'[p] = "recheck" /\ todo'[p] = found /\ tries'[p] = tries[p]
        /\ loaded'[p] = loaded[p] /\ mine'[p] = mine[p] /\ request'[p] = request[p] /\ out'[p] = out[p]
    BY <1>2, <1>4, <1>6 DEF Maps, CallMaps, CallMoved, CallStays, Goto
  <2>2. loads' = [loads EXCEPT ![p].call = NewLoad] /\ NextEpoch(p)
    BY <1>4, <1>6 DEF ForceLoad
  <2>3. LoadMoved(p) /\ loads'[p].call = NewLoad /\ loads'[p].fill = loads[p].fill
    BY <1>1, <2>2, LoadValues, Blanks
  <2>4. ReadMoved(p) /\ EpochMoved(p) /\ WireMoved(p) /\ WireStays(p)
    BY <1>2, <2>2, EpochValues, Same DEF Query
  <2>5. acked[p] \in Nat /\ acked[p] <= Newest(roots')
    BY <1>2 DEF Ground, PageTyped, PageInv, ReadTyped, ReadInv, Query
  <2>6. ReadTyped(p)' /\ ReadInv(p)' /\ WireTyped(p)' /\ WireInv(p)'
    BY <1>2, <2>3, <2>4, <2>5, ReadEpoch, WireKept DEF WireStays
  <2>7. UNCHANGED <<roots, files>>
    BY DEF Query
  <2>8. CallTyped(p)'
    BY <1>2, <1>3, <2>1, <2>3, <2>7 DEF CallTyped, Ground, Labels, Answers
  <2>9. Known(roots', loaded[p]) /\ Located(roots', NewLoad)
    BY <1>2, <2>7 DEF Ground, CallInv
  <2>10. CallInv(p)'
    BY <1>3, <2>1, <2>3, <2>9 DEF CallInv
  <2> QED BY <1>1, <2>1, <2>3, <2>4, <2>6, <2>8, <2>10, Together DEF Moved
<1> QED BY <1>5, <1>6
\* One more body is in the trash, or the request for it is refused.
LEMMA PatchGrows ==
  ASSUME DriveAssumption, TypeOK, NEW p \in Pages, NEW f \in todo[p], Patch(p, f)
  PROVE  /\ Grows /\ f \in 1..Len(files) /\ Len(files') = Len(files)
         /\ \A g \in 1..Len(files) : g # f => files'[g] = files[g]
         /\ files'[f] = files[f] \/ (files'[f].trashed /\ files'[f].aged = files[f].aged)
<1>1. f \in 1..Len(files) /\ files \in Seq(File) /\ Len(files) \in Nat
  BY DEF TypeOK
<1>2. UNCHANGED roots /\ UsedTyped(used')
  BY FaultTyped DEF Patch
<1>3. CASE UNCHANGED files
  <2>1. Grows
    BY <1>2, <1>3, FolderStays
  <2> QED BY <1>1, <1>3, <2>1
<1>4. CASE files' = [files EXCEPT ![f].trashed = TRUE]
  <2>1. PICK c \in File : c = files[f]
    BY <1>1
  <2>2. PICK b : b = [c EXCEPT !.trashed = TRUE]
    OBVIOUS
  <2>3. b \in File /\ b.content = files[f].content /\ b.trashed /\ b.aged = files[f].aged
    BY <2>1, <2>2 DEF File
  <2>4. files' = [files EXCEPT ![f] = b]
    BY <1>1, <1>4, <2>1, <2>2
  <2>5. /\ Grows /\ Len(files') = Len(files) /\ files'[f] = b
        /\ \A g \in 1..Len(files) : g # f => files'[g] = files[g]
    BY <1>1, <1>2, <2>3, <2>4, BodyMarked
  <2> QED BY <1>1, <2>3, <2>5
<1> QED BY <1>3, <1>4 DEF Patch

LEMMA PatchInv ==
  ASSUME DriveAssumption, PagesInv, NEW p \in Pages, NEW f \in todo[p], Patch(p, f)
  PROVE  PagesInv'
<1>1. Grows /\ TypeOK /\ Len(files') = Len(files)
  BY PatchGrows DEF PagesInv
<1>2. Ground(p) /\ Maps /\ CallTyped(p) /\ CallInv(p) /\ pc[p] = "patch"
  BY <1>1, GroundHolds DEF Ground, PageTyped, PageInv, Patch
<1>3. /\ loads[p].call = NoLoad /\ request[p] \in Store!Requests /\ mine[p] = 0
      /\ tries[p] # MaxCasAttempts /\ out[p] = "pending" /\ request[p].op \in {"trash", "sweep"}
  BY <1>2 DEF CallInv, CallTyped
<1>4. UNCHANGED <<loads, readVars, wire, acked>>
  BY DEF Patch
<1>5. CASE todo[p] = {f}
  BY <1>1, <1>3, <1>4, <1>5, SettleInv DEF Patch, Answers
<1>6. CASE todo[p] # {f}
  <2>1. todo' = [todo EXCEPT ![p] = @ \ {f}] /\ UNCHANGED <<request, out, pc, tries, loaded, mine>>
    BY <1>6 DEF Patch
  <2>2. /\ CallMoved(p) /\ pc'[p] = pc[p] /\ todo'[p] = todo[p] \ {f} /\ tries'[p] = tries[p]
        /\ loaded'[p] = loaded[p] /\ mine'[p] = mine[p] /\ request'[p] = request[p] /\ out'[p] = out[p]
    BY <1>2, <2>1 DEF Maps, CallMaps, CallMoved, CallStays
  <2>3. /\ LoadMoved(p) /\ loads'[p] = loads[p] /\ ReadMoved(p) /\ ReadStays(p)
        /\ WireMoved(p) /\ WireStays(p)
    BY <1>2, <1>4, Same
  <2>4. ReadTyped(p)' /\ ReadInv(p)' /\ WireTyped(p)' /\ WireInv(p)'
    BY <1>2, <2>3, ReadKept, WireKept DEF WireStays
  <2>5. CallTyped(p)'
    BY <1>1, <1>2, <2>2, <2>3 DEF CallTyped, Ground, Labels, Answers
  <2>6. Known(roots', loaded[p]) /\ Located(roots', NoLoad)
    BY <1>1, <1>2, SeenStays DEF Ground, CallInv, CallTyped
  <2>7. CallInv(p)'
    BY <1>2, <1>3, <2>2, <2>3, <2>6 DEF CallInv
  <2> QED BY <1>1, <2>2, <2>3, <2>4, <2>5, <2>7, Together DEF Moved
<1> QED BY <1>5, <1>6

\* A step that moves no page.
LEMMA NoPageMoves ==
  ASSUME DriveAssumption, PagesInv, Grows, UNCHANGED <<callVars, loads, readVars, wire, acked>>
  PROVE  PagesInv'
<1>1. TypeOK /\ Maps
  BY TypesByPage DEF PagesInv, TypedByPage
<1>2. ASSUME NEW q \in Pages
      PROVE  PageTyped(q)' /\ PageInv(q)'
  <2>1. Ground(q)
    BY GroundHolds
  <2>2. CallStays(q) /\ ReadStays(q) /\ loads'[q] = loads[q] /\ WireStays(q)
    BY <1>1, Same
  <2>3. CallTyped(q)' /\ CallInv(q)' /\ ReadTyped(q)' /\ ReadInv(q)' /\ WireTyped(q)' /\ WireInv(q)'
    BY <2>1, <2>2, CallKept, ReadKept, WireKept DEF WireStays
  <2> QED BY <2>3 DEF PageTyped, PageInv
<1>3. CallMaps' /\ LoadMaps' /\ ReadMaps' /\ WireMaps'
  <2>1. CallMaps' /\ ReadMaps' /\ WireMaps'
    BY <1>1 DEF Maps, CallMaps, ReadMaps, WireMaps, callVars, readVars
  <2>2. LoadMaps'
    BY <1>1, Zenon DEF Maps, LoadMaps
  <2> QED BY <2>1, <2>2
<1>4. TypedByPage' /\ \A q \in Pages : PageInv(q)'
  BY <1>2, <1>3 DEF TypedByPage, Maps, Grows
<1>5. TypeOK'
  BY <1>4, TypesByPage, PTL
<1> QED BY <1>4, <1>5 DEF PagesInv

LEMMA AgeGrows ==
  ASSUME DriveAssumption, TypeOK, NEW f \in 1..Len(files), Age(f)
  PROVE  /\ Grows /\ Len(files') = Len(files)
         /\ \A g \in 1..Len(files) : g # f => files'[g] = files[g]
         /\ files'[f].aged /\ files'[f].trashed = files[f].trashed
<1>1. files \in Seq(File) /\ Len(files) \in Nat
  BY DEF TypeOK
<1>2. UNCHANGED roots /\ UsedTyped(used') /\ files' = [files EXCEPT ![f].aged = TRUE]
  BY FaultTyped DEF Age
<1>3. PICK c \in File : c = files[f]
  BY <1>1
<1>4. PICK b : b = [c EXCEPT !.aged = TRUE]
  OBVIOUS
<1>5. b \in File /\ b.content = files[f].content /\ b.aged /\ b.trashed = files[f].trashed
  BY <1>3, <1>4 DEF File
<1>6. files' = [files EXCEPT ![f] = b]
  BY <1>1, <1>2, <1>3, <1>4
<1>7. /\ Grows /\ Len(files') = Len(files) /\ files'[f] = b
      /\ \A g \in 1..Len(files) : g # f => files'[g] = files[g]
  BY <1>1, <1>2, <1>5, <1>6, BodyMarked
<1> QED BY <1>5, <1>7

LEMMA AgeInv ==
  ASSUME DriveAssumption, PagesInv, NEW f \in 1..Len(files), Age(f)
  PROVE  PagesInv'
BY AgeGrows, NoPageMoves DEF PagesInv, Age
\* The steps of a page's get and of the fill of its cache.
LEMMA ReadStep ==
  ASSUME DriveAssumption, PagesInv, Grows, NEW p \in Pages,
         UNCHANGED <<callVars, wire, acked>>, LoadMoved(p), loads'[p].call = loads[p].call,
         ReadMoved(p), ReadTyped(p)', ReadInv(p)'
  PROVE  PagesInv'
<1>1. Ground(p) /\ Maps
  BY GroundHolds DEF Ground
<1>2. CallMoved(p) /\ CallStays(p) /\ WireMoved(p) /\ WireStays(p)
  BY <1>1, Same
<1>3. CallTyped(p)' /\ CallInv(p)' /\ WireTyped(p)' /\ WireInv(p)'
  BY <1>1, <1>2, CallKept, WireKept DEF WireStays
<1> QED BY <1>2, <1>3, Together DEF Moved

LEMMA GetInv ==
  ASSUME DriveAssumption, PagesInv, NEW p \in Pages, NEW k \in Keys, Get(p, k)
  PROVE  PagesInv'
<1>1. Grows /\ TypeOK
  BY FaultTyped, FolderStays DEF Get, PagesInv
<1>2. Ground(p) /\ Maps /\ ReadTyped(p) /\ ReadInv(p)
  BY <1>1, GroundHolds DEF Ground, PageTyped, PageInv
<1>3. UNCHANGED <<roots, files, callVars, cache, wire, acked>>
  BY DEF Get
<1>4. PICK c \in {"wait", "fetch"} :
        /\ c = IF cache[p] # NoIndex THEN "fetch" ELSE "wait"
        /\ reader' = [reader EXCEPT ![p] = [pc |-> c, key |-> k, loaded |-> cache[p],
                                            floor |-> acked[p]]]
        /\ IF c = "fetch" \/ (loads[p].fill # NoLoad /\ ~stale[p])
           THEN UNCHANGED <<loads, stale>>
           ELSE /\ loads' = [loads EXCEPT ![p].fill = NewLoad]
                /\ stale' = [stale EXCEPT ![p] = FALSE]
  BY DEF Get
<1>5. PICK r : r = [pc |-> c, key |-> k, loaded |-> cache[p], floor |-> acked[p]]
  OBVIOUS
<1>6. r \in Readers
  BY <1>2, <1>5 DEF ReadTyped, Readers
<1>7. /\ Known(roots', cache[p]) /\ acked[p] <= Newest(roots')
      /\ c = "fetch" => acked[p] <= cache[p].etag
  BY <1>2, <1>3, <1>4 DEF ReadInv
<1>8. acked'[p] = acked[p] /\ cache'[p] = cache[p] /\ acked[p] \in Nat
  BY <1>2, <1>3 DEF ReadTyped
<1>9. CASE c = "fetch" \/ (loads[p].fill # NoLoad /\ ~stale[p])
  <2>1. UNCHANGED <<loads, stale>>
    BY <1>4, <1>9
  <2>2. LoadMoved(p) /\ loads'[p] = loads[p]
    BY <1>2, <2>1, Same
  <2>3. ReadMoved(p) /\ reader'[p] = r /\ stale'[p] = stale[p]
    BY <1>2, <1>3, <1>4, <1>5, <2>1 DEF Maps, ReadMaps, ReadMoved, ReadStays
  <2>4. ReadTyped(p)'
    BY <1>2, <1>6, <1>8, <2>2, <2>3 DEF ReadTyped, Ground
  <2>5. ~stale[p] \/ c # "wait"
    BY <1>9
  <2>6. /\ Located(roots', loads[p].fill)
        /\ loads[p].fill.at = "answered" => Seen(roots', loads[p].fill.index)
        /\ loads[p].fill.at = "answered" /\ ~stale[p] => acked[p] <= loads[p].fill.index.etag
    BY <1>2, <1>3 DEF ReadInv
  <2>7. cache[p] # NoIndex => acked[p] <= cache[p].etag
    BY <1>2 DEF ReadInv
  <2>8. ReadInv(p)'
    BY <1>5, <1>7, <1>8, <2>2, <2>3, <2>5, <2>6, <2>7 DEF ReadInv
  <2> QED BY <1>1, <1>3, <2>2, <2>3, <2>4, <2>8, ReadStep
<1>10. CASE ~(c = "fetch" \/ (loads[p].fill # NoLoad /\ ~stale[p]))
  <2>1. loads' = [loads EXCEPT ![p].fill = NewLoad] /\ stale' = [stale EXCEPT ![p] = FALSE]
    BY <1>4, <1>10
  <2>2. LoadMoved(p) /\ loads'[p].fill = NewLoad /\ loads'[p].call = loads[p].call
    BY <1>1, <2>1, LoadValues, Blanks
  <2>3. ReadMoved(p) /\ reader'[p] = r /\ stale'[p] = FALSE
    BY <1>2, <1>3, <1>4, <1>5, <2>1 DEF Maps, ReadMaps, ReadMoved, ReadStays
  <2>4. ReadTyped(p)'
    BY <1>2, <1>6, <1>8, <2>2, <2>3 DEF ReadTyped, Ground
  <2>5. Located(roots', NewLoad) /\ NewLoad.at # "answered"
    BY DEF Located, NewLoad, NoLoad
  <2>6. cache[p] # NoIndex => acked[p] <= cache[p].etag
    BY <1>2 DEF ReadInv
  <2>7. ReadInv(p)'
    BY <1>5, <1>7, <1>8, <2>2, <2>3, <2>5, <2>6 DEF ReadInv
  <2> QED BY <1>1, <1>3, <2>2, <2>3, <2>4, <2>7, ReadStep
<1> QED BY <1>9, <1>10

LEMMA FillAnsweredInv ==
  ASSUME DriveAssumption, PagesInv, NEW p \in Pages, FillAnswered(p)
  PROVE  PagesInv'
<1>1. Grows /\ TypeOK
  BY FaultTyped, FolderStays DEF FillAnswered, PagesInv
<1>2. Ground(p) /\ Maps /\ ReadTyped(p) /\ ReadInv(p)
  BY <1>1, GroundHolds DEF Ground, PageTyped, PageInv
<1>3. UNCHANGED <<roots, files, callVars, readVars, wire, acked>> /\ loads[p].fill.at = "download"
  BY DEF FillAnswered
<1>4. PICK x \in Index : /\ x = Downloaded(p, "fill") /\ Seen(roots, x) /\ x.etag = Newest(roots)
  BY <1>1, <1>2, <1>3, DownloadedIndex DEF ReadInv
<1>5. PICK y \in Load : y = loads[p].fill
  BY <1>2 DEF ReadTyped
<1>6. PICK z : z = [y EXCEPT !.at = "answered", !.index = x]
  OBVIOUS
<1>7. loads' = [loads EXCEPT ![p].fill = z]
  BY <1>1, <1>4, <1>5, <1>6 DEF FillAnswered, TypeOK
<1>8. z \in Load /\ z.at = "answered" /\ z.index = x /\ z.root = y.root
  BY <1>4, <1>5, <1>6 DEF Load
<1>9. LoadMoved(p) /\ loads'[p].fill = z /\ loads'[p].call = loads[p].call
  BY <1>1, <1>7, <1>8, LoadValues
<1>10. ReadMoved(p) /\ ReadStays(p) /\ acked'[p] = acked[p]
  BY <1>2, <1>3, Same
<1>11. ReadTyped(p)'
  BY <1>2, <1>8, <1>9, <1>10 DEF ReadTyped, ReadStays, Ground
<1>12. acked[p] <= x.etag /\ reader[p].floor <= x.etag
  <2>1. acked[p] \in Nat /\ x.etag \in Nat /\ reader[p].floor \in Nat
    BY <1>2 DEF ReadTyped, Readers, Index
  <2> QED BY <1>2, <1>4, <2>1 DEF ReadInv
<1>13. Located(roots', z)
  BY <1>2, <1>3, <1>5, <1>8 DEF ReadInv, Located
<1>14. ReadInv(p)'
  BY <1>2, <1>3, <1>4, <1>8, <1>9, <1>10, <1>12, <1>13 DEF ReadInv, ReadStays
<1> QED BY <1>1, <1>3, <1>9, <1>10, <1>11, <1>14, ReadStep

LEMMA FilledInv ==
  ASSUME DriveAssumption, PagesInv, NEW p \in Pages, Filled(p)
  PROVE  PagesInv'
<1>1. Grows /\ TypeOK
  BY FaultTyped, FolderStays DEF Filled, PagesInv
<1>2. Ground(p) /\ Maps /\ ReadTyped(p) /\ ReadInv(p)
  BY <1>1, GroundHolds DEF Ground, PageTyped, PageInv
<1>3. /\ UNCHANGED <<roots, files, callVars, wire, acked>> /\ loads[p].fill.at = "answered"
      /\ loads' = [loads EXCEPT ![p].fill = NoLoad] /\ stale' = [stale EXCEPT ![p] = FALSE]
  BY DEF Filled
<1>4. PICK x \in Index : x = loads[p].fill.index /\ Seen(roots, x)
  BY <1>2, <1>3 DEF ReadTyped, ReadInv, Load
<1>5. PICK r \in Readers : r = reader[p]
  BY <1>2 DEF ReadTyped
<1>6. PICK w : w = IF r.pc = "wait" THEN [r EXCEPT !.pc = "fetch", !.loaded = x] ELSE r
  OBVIOUS
<1>7. /\ w \in Readers /\ w.floor = r.floor /\ w.pc # "wait"
      /\ r.pc = "wait" => w.loaded = x
      /\ r.pc # "wait" => w = r
  BY <1>4, <1>5, <1>6 DEF Readers
<1>8. LoadMoved(p) /\ loads'[p].fill = NoLoad /\ loads'[p].call = loads[p].call
  BY <1>1, <1>3, LoadValues, Blanks
<1>9. /\ ReadMoved(p) /\ stale'[p] = FALSE /\ acked'[p] = acked[p]
      /\ cache'[p] = IF stale[p] THEN cache[p] ELSE x
      /\ reader'[p] = w
  BY <1>2, <1>3, <1>4, <1>5, <1>6 DEF Filled, Maps, ReadMaps, ReadMoved, ReadStays
<1>10. cache'[p] \in {cache[p], x}
  BY <1>9
<1>11. ReadTyped(p)'
  BY <1>2, <1>7, <1>8, <1>9, <1>10 DEF ReadTyped, Ground
<1>12. Known(roots', cache'[p]) /\ Known(roots', w.loaded)
  BY <1>2, <1>3, <1>4, <1>5, <1>7, <1>10 DEF ReadInv, Known
<1>13. cache'[p] # NoIndex => acked[p] <= cache'[p].etag
  BY <1>2, <1>3, <1>4, <1>9 DEF ReadInv
<1>14. /\ w.floor <= acked[p] /\ acked[p] <= Newest(roots')
       /\ w.pc = "fetch" => w.floor <= w.loaded.etag
  BY <1>2, <1>3, <1>4, <1>5, <1>7 DEF ReadInv
<1>15. Located(roots', NoLoad) /\ NoLoad.at = "none"
  BY DEF Located, NoLoad
<1>16. ReadInv(p)'
  BY <1>7, <1>8, <1>9, <1>12, <1>13, <1>14, <1>15 DEF ReadInv
<1> QED BY <1>1, <1>3, <1>8, <1>9, <1>11, <1>16, ReadStep
\* A get ends, or the cached index expires.
LEMMA GetEndsInv ==
  ASSUME DriveAssumption, PagesInv, NEW p \in Pages, GetEnds(p) \/ Expire(p)
  PROVE  PagesInv'
<1>1. /\ UNCHANGED <<roots, files, callVars, loads, stale, wire, acked, used>>
      /\ \/ reader' = [reader EXCEPT ![p] = NoReader] /\ cache' = cache
         \/ cache' = [cache EXCEPT ![p] = NoIndex] /\ reader' = reader
  BY DEF GetEnds, Expire
<1>2. Grows /\ TypeOK
  BY <1>1, FaultTyped, FolderStays DEF PagesInv
<1>3. Ground(p) /\ Maps /\ ReadTyped(p) /\ ReadInv(p)
  BY <1>2, GroundHolds DEF Ground, PageTyped, PageInv
<1>4. LoadMoved(p) /\ loads'[p] = loads[p] /\ acked'[p] = acked[p]
  BY <1>1, <1>3, Same
<1>5. /\ ReadMoved(p) /\ stale'[p] = stale[p]
      /\ cache'[p] \in {cache[p], NoIndex} /\ reader'[p] \in {reader[p], NoReader}
  BY <1>1, <1>3 DEF Maps, ReadMaps, ReadMoved, ReadStays
<1>6. ReadTyped(p)'
  BY <1>3, <1>4, <1>5 DEF ReadTyped, Ground
<1>7. Known(roots', cache'[p]) /\ Known(roots', reader'[p].loaded)
  BY <1>1, <1>3, <1>5 DEF ReadInv, Ground, NoReader
<1>8. /\ cache'[p] # NoIndex => acked[p] <= cache'[p].etag
      /\ reader'[p].floor <= acked[p]
      /\ reader'[p].pc = "fetch" => reader'[p].floor <= reader'[p].loaded.etag
      /\ reader'[p].pc = "wait" => reader'[p] = reader[p]
  BY <1>3, <1>5 DEF ReadInv, ReadTyped, NoReader
<1>9. ReadInv(p)'
  BY <1>1, <1>3, <1>4, <1>5, <1>7, <1>8 DEF ReadInv
<1> QED BY <1>1, <1>2, <1>4, <1>5, <1>6, <1>9, ReadStep

\* The page closes and is opened again.
LEMMA CloseInv ==
  ASSUME DriveAssumption, PagesInv, NEW p \in Pages, Close(p)
  PROVE  PagesInv'
<1>1. Grows /\ TypeOK
  BY FaultTyped, FolderStays DEF Close, PagesInv
<1>2. Ground(p) /\ Maps /\ ReadTyped(p)
  BY <1>1, GroundHolds DEF Ground, PageTyped
<1>3. /\ Settle(p, "failed") /\ UNCHANGED <<roots, files, wire, acked>>
      /\ loads' = [loads EXCEPT ![p] = [call |-> NoLoad, fill |-> NoLoad]]
      /\ stale' = [stale EXCEPT ![p] = FALSE] /\ cache' = [cache EXCEPT ![p] = NoIndex]
      /\ reader' = [reader EXCEPT ![p] = NoReader]
  BY DEF Close
<1>4. CallMoved(p) /\ Settled(p, "failed") /\ WireMoved(p) /\ WireStays(p)
  BY <1>2, <1>3, SettleValues, Same
<1>5. LoadMoved(p) /\ loads'[p].call = NoLoad /\ loads'[p].fill = NoLoad
  <2>1. loads \in [Pages -> [call : Load, fill : Load]] /\ NoLoad \in Load
    BY <1>1, Blanks DEF TypeOK
  <2>2. loads' \in [Pages -> [call : Load, fill : Load]]
    BY <1>3, <2>1
  <2>3. LoadMaps'
    BY <2>2 DEF LoadMaps
  <2> QED BY <1>3, <2>1, <2>3 DEF LoadMoved
<1>6. ReadMoved(p) /\ stale'[p] = FALSE /\ cache'[p] = NoIndex /\ reader'[p] = NoReader
  BY <1>2, <1>3 DEF Maps, ReadMaps, ReadMoved, ReadStays
<1>7. CallTyped(p)' /\ CallInv(p)'
  BY <1>2, <1>4, <1>5, CallSettled DEF Answers
<1>8. ReadTyped(p)'
  BY <1>2, <1>4, <1>5, <1>6 DEF ReadTyped, WireStays, Ground
<1>9. ReadInv(p)'
  <2>1. Located(roots', loads'[p].fill) /\ loads'[p].fill.at # "answered"
    BY <1>5 DEF Located, NoLoad
  <2> QED BY <1>2, <1>4, <1>6, <2>1, FillGone DEF WireStays
<1>10. WireTyped(p)' /\ WireInv(p)'
  BY <1>2, <1>4, WireKept DEF WireStays
<1> QED BY <1>1, <1>4, <1>5, <1>6, <1>7, <1>8, <1>9, <1>10, Together DEF Moved

LEMMA InitPages ==
  ASSUME DriveAssumption, Init
  PROVE  PagesInv
<1>1. /\ roots \in {<< >>, <<EmptyIndex>>} /\ files = << >> /\ Len(files) = 0
  BY DEF Init
<1>2. FolderTyped
  <2>1. EmptyIndex \in [etag : Nat, entries : Entries]
    BY <1>1 DEF EmptyIndex, Entries
  <2>2. roots \in Seq([etag : Nat, entries : Entries])
    <3>1. ASSUME NEW S, NEW e \in S
          PROVE  << >> \in Seq(S) /\ <<e>> \in Seq(S)
      OBVIOUS
    <3> QED BY <1>1, <2>1, <3>1
  <2>3. used = [calls |-> 0, gets |-> 0, faults |-> 0] /\ MaxCalls \in Nat /\ MaxGets \in Nat
        /\ MaxFaults \in Nat
    BY DEF Init, DriveAssumption
  <2> QED BY <1>1, <2>2, <2>3 DEF FolderTyped
<1>3. Maps
  BY DEF Init, Maps, CallMaps, LoadMaps, ReadMaps, WireMaps
<1>4. Len(files) \in Nat /\ Len(roots) \in Nat
  BY <1>1, <1>2 DEF FolderTyped
<1>5. NoIndex \in Index
  BY <1>4 DEF NoIndex, Index, Entries
<1>6. NoLoad \in Load
  BY <1>4, <1>5 DEF NoLoad, Load
<1>7. NoReader \in Readers /\ NoWire \in Wires
  BY <1>4, <1>5 DEF NoReader, Readers, NoWire, Wires, EmptyIndex, Entries
<1>8. ASSUME NEW p \in Pages
      PROVE  PageTyped(p)
  <2>1. CallTyped(p)
    BY <1>4, <1>5, <1>6 DEF Init, CallTyped, Answers, Labels, DriveAssumption
  <2>2. ReadTyped(p) /\ WireTyped(p)
    BY <1>5, <1>6, <1>7 DEF Init, ReadTyped, WireTyped
  <2> QED BY <2>1, <2>2 DEF PageTyped
<1>9. TypeOK
  BY <1>2, <1>3, <1>8, TypesByPage DEF TypedByPage
<1>10. Known(roots, NoIndex) /\ Located(roots, NoLoad)
  BY DEF Known, Located, NoLoad
<1>11. 0 <= Newest(roots)
  BY <1>1 DEF Newest, EmptyIndex
<1>12. ASSUME NEW p \in Pages
       PROVE  PageInv(p)
  <2>1. CallInv(p)
    BY <1>10 DEF Init, CallInv
  <2>2. ReadInv(p)
    BY <1>10, <1>11 DEF Init, ReadInv, NoReader, NoLoad
  <2>3. WireInv(p)
    BY DEF Init, WireInv
  <2> QED BY <2>1, <2>2, <2>3 DEF PageInv
<1> QED BY <1>9, <1>12 DEF PagesInv

LEMMA NextPages ==
  ASSUME DriveAssumption, PagesInv, [Next]_vars
  PROVE  PagesInv'
<1>1. CASE UNCHANGED vars
  <2>1. Grows
    BY <1>1, FaultTyped, FolderStays DEF vars, PagesInv
  <2> QED BY <1>1, <2>1, NoPageMoves DEF vars
<1>2. ASSUME NEW p \in Pages, NEW s \in {"call", "fill"},
             List(p, s) \/ CreateIndex(p, s) \/ LoadThrows(p, s)
      PROVE  PagesInv'
  BY <1>2, ListInv, CreateIndexInv, LoadThrowsInv
<1>3. ASSUME NEW p \in Pages, Advance(p)
      PROVE  PagesInv'
  BY <1>3, CommitInv, LostInv
<1>4. ASSUME NEW p \in Pages,
             \/ \E r \in Operations : Invoke(p, r)
             \/ Download(p) \/ Upload(p) \/ UploadThrows(p) \/ AdvanceThrows(p) \/ Arrive(p)
             \/ Query(p) \/ \E f \in todo[p] : Patch(p, f)
      PROVE  PagesInv'
  BY <1>4, InvokeInv, DownloadInv, UploadInv, UploadThrowsInv, AdvanceThrowsInv, ArriveInv,
     QueryInv, PatchInv
<1>5. ASSUME NEW p \in Pages,
             \/ \E k \in Keys : Get(p, k)
             \/ FillAnswered(p) \/ Filled(p) \/ GetEnds(p) \/ Expire(p) \/ Close(p)
      PROVE  PagesInv'
  BY <1>5, GetInv, FillAnsweredInv, FilledInv, GetEndsInv, CloseInv
<1>6. ASSUME NEW f \in 1..Len(files), Age(f)
      PROVE  PagesInv'
  BY <1>6, AgeInv
<1> QED BY <1>1, <1>2, <1>3, <1>4, <1>5, <1>6 DEF Next
-------------------------------------------------------------------------------
(***************************************************************************)
(* However calls, fills, failures and closing pages interleave, every page *)
(* of the store keeps the shape that the class and its callers rely on.    *)
(***************************************************************************)
THEOREM PagesInductive ==
  ASSUME DriveAssumption
  PROVE  Spec => []PagesInv
<1>1. Init => PagesInv
  BY InitPages
<1>2. PagesInv /\ [Next]_vars => PagesInv'
  BY NextPages
<1> QED BY <1>1, <1>2, PTL DEF Spec

\* The state of the store has its types: indexes name files that exist, a swap's
\* attempts stay within MAX_CAS_ATTEMPTS, and only its final load has spent them.
THEOREM DriveTyped ==
  ASSUME DriveAssumption
  PROVE  Spec => []TypeOK
<1>1. PagesInv => TypeOK
  BY DEF PagesInv
<1> QED BY <1>1, PagesInductive, PTL

\* A get that begins after the page's own write committed is never answered from an
\* index older than that write (cacheEpoch of loadIndex and advanceIndex).
THEOREM OwnWritesAreRead ==
  ASSUME DriveAssumption
  PROVE  Spec => []ReadsOwnWrites
<1>1. ASSUME PagesInv, NEW p \in Pages, reader[p].pc = "fetch"
      PROVE  reader[p].loaded.etag >= reader[p].floor
  <2>1. ReadInv(p) /\ reader[p].loaded \in Index /\ reader[p].floor \in Nat
    BY <1>1 DEF PagesInv, PageInv, TypeOK
  <2>2. reader[p].loaded.etag \in Nat
    BY <2>1 DEF Index
  <2> QED BY <1>1, <2>1, <2>2 DEF ReadInv
<1>2. PagesInv => ReadsOwnWrites
  BY <1>1 DEF ReadsOwnWrites
<1> QED BY <1>2, PagesInductive, PTL

LEMMA OneRoot == PagesInv => OneAuthority
<1>1. ASSUME PagesInv, NEW p \in Pages
      PROVE  \A a \in {loaded[p].root, cache[p].root, reader[p].loaded.root} : a \in {0, 1}
  <2>1. Known(roots, loaded[p]) /\ Known(roots, cache[p]) /\ Known(roots, reader[p].loaded)
    BY <1>1 DEF PagesInv, PageInv, CallInv, ReadInv
  <2> QED BY <2>1 DEF Known, Seen, NoIndex
<1> QED BY <1>1 DEF OneAuthority

\* However pages race to create the index file, every index any of them works from
\* is the same file (locateOrCreateIndex lists again and refuses several).
THEOREM OneIndexFile ==
  ASSUME DriveAssumption
  PROVE  Spec => []OneAuthority
BY OneRoot, PagesInductive, PTL
-------------------------------------------------------------------------------
(* The bodies.  Commits are assumed never to wait the safety age. *)

LEMMA NamesTyped ==
  ASSUME TypeOK
  PROVE  /\ Named(roots) \subseteq 1..Len(files)
         /\ \A p \in Pages : Claims(mine[p], wire[p]) \subseteq 1..Len(files)
<1>1. Len(files) \in Nat
  BY DEF TypeOK
<1>2. Named(roots) \subseteq 1..Len(files)
  <2>1. CASE roots = << >>
    BY <2>1 DEF Named
  <2>2. CASE roots # << >>
    <3>1. roots[1].entries \in [Keys -> 0..Len(files)]
      BY <2>2, FirstIndex DEF Entries
    <3> QED BY <1>1, <2>2, <3>1 DEF Named, Tracked
  <2> QED BY <2>1, <2>2
<1>3. ASSUME NEW p \in Pages
      PROVE  Claims(mine[p], wire[p]) \subseteq 1..Len(files)
  <2>1. mine[p] \in 0..Len(files) /\ wire[p].entries \in [Keys -> 0..Len(files)]
    BY DEF TypeOK, Entries
  <2>2. wire[p].request \in Store!Requests \cup {NoRequest}
    BY DEF TypeOK
  <2>3. wire[p].request.keys \subseteq Keys
    BY <2>2, RequestFacts DEF RequestKeys, NoRequest, Store!NoRequest
  <2> QED BY <1>1, <2>1, <2>3 DEF Claims
<1> QED BY <1>2, <1>3

\* A page's call goes on, with files to move to the trash that nothing claims.
TodoKept(q) ==
  \/ pc'[q] = pc[q] /\ todo'[q] \subseteq todo[q]
  \/ pc'[q] \notin {"recheck", "patch"}
  \/ pc'[q] = "recheck" /\ \A f \in todo'[q] : f \in 1..Len(files) /\ files[f].aged
  \/ pc'[q] = "patch" /\ \A f \in todo'[q] : Unclaimed(f)

\* The bodies keep their invariant when nothing new is named or claimed.
LEMMA BodiesStay ==
  ASSUME TypeOK, Bodies, Named(roots') \subseteq Named(roots), OneKeyEach(roots'),
         \A f \in 1..Len(files) : files'[f] = files[f],
         \A q \in Pages : /\ Claims(mine'[q], wire'[q]) \subseteq Claims(mine[q], wire[q])
                          /\ Apart(mine'[q], wire'[q]) /\ TodoKept(q)
  PROVE  Bodies'
<1>1. \A f \in Named(roots') : ~files'[f].trashed
  BY NamesTyped DEF Bodies
<1>2. ASSUME NEW p \in Pages, NEW f \in Claims(mine'[p], wire'[p])
      PROVE  f \notin Named(roots') /\ ~files'[f].trashed /\ ~files'[f].aged
  BY <1>2, NamesTyped DEF Bodies
<1>3. ASSUME NEW p \in Pages, NEW q \in Pages, p # q
      PROVE  Claims(mine'[p], wire'[p]) \cap Claims(mine'[q], wire'[q]) = {}
  BY <1>3 DEF Bodies
<1>4. ASSUME NEW p \in Pages, pc'[p] = "recheck", NEW f \in todo'[p]
      PROVE  files'[f].aged
  <2>1. f \in 1..Len(files) /\ files[f].aged
    BY <1>4 DEF Bodies, TodoKept, TypeOK
  <2> QED BY <2>1
<1>5. ASSUME NEW p \in Pages, pc'[p] = "patch", NEW f \in todo'[p]
      PROVE  f \notin Named(roots') /\ \A q \in Pages : f \notin Claims(mine'[q], wire'[q])
  <2>1. Unclaimed(f)
    BY <1>5 DEF Bodies, TodoKept
  <2> QED BY <2>1 DEF Unclaimed
<1>6. \A p \in Pages : pc'[p] = "patch" => \A f \in todo'[p] : Unclaimed(f)'
  BY <1>5 DEF Unclaimed
<1> QED BY <1>1, <1>2, <1>3, <1>4, <1>6 DEF Bodies

\* A step of one page that adds no claim and names nothing.
LEMMA PageAddsNothing ==
  ASSUME TypeOK, Bodies, NEW p \in Pages, CallMoved(p), WireMoved(p),
         Named(roots') = Named(roots), OneKeyEach(roots'),
         \A f \in 1..Len(files) : files'[f] = files[f],
         mine'[p] \in {mine[p], 0}, wire'[p] = wire[p], TodoKept(p)
  PROVE  Bodies'
<1>1. ASSUME NEW q \in Pages
      PROVE  /\ Claims(mine'[q], wire'[q]) \subseteq Claims(mine[q], wire[q])
             /\ Apart(mine'[q], wire'[q]) /\ TodoKept(q)
  <2>1. CASE q # p
    BY <2>1 DEF CallMoved, WireMoved, CallStays, WireStays, TodoKept, Bodies
  <2>2. CASE q = p
    <3>1. Apart(mine[p], wire[p])
      BY DEF Bodies
    <3>2. Apart(0, wire[p]) /\ Claims(0, wire[p]) \subseteq Claims(mine[p], wire[p])
      BY DEF Apart, Claims
    <3> QED BY <2>2, <3>1, <3>2
  <2> QED BY <2>1, <2>2
<1> QED BY <1>1, BodiesStay
\* The folder gains at most an empty index file and a body.
FolderGains ==
  /\ UNCHANGED roots \/ roots' = Append(roots, EmptyIndex)
  /\ \A f \in 1..Len(files) : files'[f] = files[f]

LEMMA NamesStay ==
  ASSUME TypeOK, BodyInv, FolderGains
  PROVE  Named(roots') = Named(roots) /\ OneKeyEach(roots') /\ OthersAreEmpty'
<1>1. CASE UNCHANGED roots
  BY <1>1 DEF BodyInv, Bodies, OthersAreEmpty
<1>2. CASE roots' = Append(roots, EmptyIndex)
  <2>1. roots \in Seq([etag : Nat, entries : Entries]) /\ Len(roots) \in Nat
    BY DEF TypeOK
  <2>2. PICK e : e = EmptyIndex
    OBVIOUS
  <2>3. /\ Len(roots') = Len(roots) + 1 /\ roots'[Len(roots) + 1] = e
        /\ \A r \in 1..Len(roots) : roots'[r] = roots[r]
    BY <1>2, <2>1, <2>2
  <2>4. roots' # << >>
    BY <2>1, <2>3
  <2>5. OthersAreEmpty'
    <3>1. ASSUME NEW r \in 2..Len(roots')
          PROVE  roots'[r] = EmptyIndex
      <4>1. CASE r = Len(roots) + 1
        BY <2>2, <2>3, <4>1
      <4>2. CASE r # Len(roots) + 1
        <5>1. r \in 2..Len(roots) /\ r \in 1..Len(roots)
          BY <2>1, <2>3, <4>2
        <5> QED BY <2>3, <5>1 DEF BodyInv, OthersAreEmpty
      <4> QED BY <4>1, <4>2
    <3>2. EmptyIndex' = EmptyIndex
      BY DEF EmptyIndex
    <3> QED BY <3>1, <3>2 DEF OthersAreEmpty
  <2>6. CASE roots = << >>
    <3>1. roots'[1] = EmptyIndex
      BY <2>2, <2>3, <2>6
    <3> QED BY <2>4, <2>5, <2>6, <3>1 DEF Named, Tracked, OneKeyEach, EmptyIndex
  <2>7. CASE roots # << >>
    <3>1. roots'[1] = roots[1]
      BY <2>3, <2>7, FirstIndex
    <3> QED BY <2>4, <2>5, <2>7, <3>1 DEF Named, OneKeyEach, BodyInv, Bodies
  <2> QED BY <2>6, <2>7
<1> QED BY <1>1, <1>2 DEF FolderGains

LEMMA QuietStep ==
  ASSUME TypeOK, BodyInv, FolderGains, NEW p \in Pages, CallMoved(p), WireMoved(p),
         mine'[p] \in {mine[p], 0}, wire'[p] = wire[p], TodoKept(p)
  PROVE  BodyInv'
<1>1. Named(roots') = Named(roots) /\ OneKeyEach(roots') /\ OthersAreEmpty'
  BY NamesStay
<1>2. Bodies'
  BY <1>1, PageAddsNothing DEF BodyInv, FolderGains
<1> QED BY <1>1, <1>2 DEF BodyInv

\* The call ends, or is not concerned.
LEMMA SettleBodies ==
  ASSUME TypeOK, Maps, BodyInv, FolderGains, NEW p \in Pages, UNCHANGED <<wire, acked>>,
         (\E a \in Answers : Settle(p, a)) \/ UNCHANGED callVars
  PROVE  BodyInv'
<1>1. WireMoved(p) /\ wire'[p] = wire[p]
  BY Same DEF WireStays
<1>2. CASE \E a \in Answers : Settle(p, a)
  <2>1. CallMoved(p) /\ mine'[p] = 0 /\ pc'[p] = "idle"
    BY <1>2, SettleValues DEF Settled
  <2> QED BY <1>1, <2>1, QuietStep DEF TodoKept
<1>3. CASE UNCHANGED callVars
  <2>1. CallMoved(p) /\ mine'[p] = mine[p] /\ pc'[p] = pc[p] /\ todo'[p] = todo[p]
    BY <1>3, Same DEF CallStays
  <2> QED BY <1>1, <2>1, QuietStep DEF TodoKept
<1> QED BY <1>2, <1>3

LEMMA LoadBodies ==
  ASSUME TypeOK, Maps, BodyInv, NEW p \in Pages, NEW s \in {"call", "fill"},
         List(p, s) \/ CreateIndex(p, s) \/ LoadThrows(p, s)
  PROVE  BodyInv'
<1>1. FolderGains /\ UNCHANGED <<wire, acked>>
  BY DEF List, CreateIndex, LoadThrows, FolderGains
<1>2. (\E a \in Answers : Settle(p, a)) \/ UNCHANGED callVars
  BY DEF List, CreateIndex, LoadThrows, LoadFails, Answers
<1> QED BY <1>1, <1>2, SettleBodies

LEMMA ReadBodies ==
  ASSUME TypeOK, Maps, BodyInv, NEW p \in Pages,
         \/ \E k \in Keys : Get(p, k)
         \/ FillAnswered(p) \/ Filled(p) \/ GetEnds(p) \/ Expire(p) \/ Close(p)
  PROVE  BodyInv'
<1>1. FolderGains /\ UNCHANGED <<wire, acked>>
  BY DEF Get, FillAnswered, Filled, GetEnds, Expire, Close, FolderGains
<1>2. (\E a \in Answers : Settle(p, a)) \/ UNCHANGED callVars
  BY DEF Get, FillAnswered, Filled, GetEnds, Expire, Close, Answers
<1> QED BY <1>1, <1>2, SettleBodies

LEMMA InvokeBodies ==
  ASSUME TypeOK, Maps, BodyInv, NEW p \in Pages, NEW r \in Operations, Invoke(p, r)
  PROVE  BodyInv'
<1>1. FolderGains /\ WireMoved(p) /\ wire'[p] = wire[p]
  BY Same DEF Invoke, FolderGains, WireStays
<1>2. CallMoved(p) /\ mine'[p] = mine[p] /\ pc'[p] = "load"
  BY DEF Maps, CallMaps, CallMoved, CallStays, Invoke, Goto
<1> QED BY <1>1, <1>2, QuietStep DEF TodoKept

LEMMA DownloadBodies ==
  ASSUME TypeOK, Maps, BodyInv, NEW p \in Pages, CallTyped(p), CallInv(p), Download(p)
  PROVE  BodyInv'
<1>1. /\ FolderGains /\ UNCHANGED <<wire, acked>> /\ WireMoved(p) /\ wire'[p] = wire[p]
  BY Same DEF Download, FolderGains, WireStays
<1>2. CASE \E a \in Answers \ {"none", "pending"} : Settle(p, a)
  BY <1>1, <1>2, SettleBodies
<1>3. ASSUME NEW x \in Index, NEW label \in Labels, Goes(p, label, x)
      PROVE  BodyInv'
  <2>1. CallMoved(p) /\ mine'[p] = mine[p] /\ pc'[p] = label
    BY <1>3 DEF Goes, Continue, Maps, CallMaps, CallMoved, CallStays, Goto
  <2>2. label \notin {"recheck", "patch"}
    BY <1>3 DEF Goes
  <2> QED BY <1>1, <2>1, <2>2, QuietStep DEF TodoKept
<1>4. ASSUME NEW rest \in SUBSET todo[p], Sweeps(p, rest)
      PROVE  BodyInv'
  <2>1. CallMoved(p) /\ mine'[p] = mine[p] /\ pc'[p] = "patch" /\ todo'[p] = rest
    BY <1>4 DEF Sweeps, Maps, CallMaps, CallMoved, CallStays, Goto
  <2>2. ASSUME NEW f \in rest
        PROVE  Unclaimed(f)
    <3>1. files[f].aged /\ f \notin Named(roots)
      BY <1>4, <2>2 DEF Sweeps, BodyInv, Bodies
    <3> QED BY <3>1 DEF Unclaimed, BodyInv, Bodies
  <2> QED BY <1>1, <2>1, <2>2, QuietStep DEF TodoKept
<1> QED BY <1>2, <1>3, <1>4, DownloadEffect

LEMMA QueryBodies ==
  ASSUME TypeOK, Maps, BodyInv, NEW p \in Pages, Query(p)
  PROVE  BodyInv'
<1>1. /\ FolderGains /\ UNCHANGED <<wire, acked>> /\ WireMoved(p) /\ wire'[p] = wire[p]
  BY Same DEF Query, FolderGains, WireStays
<1>2. PICK found \in SUBSET (1..Len(files)) :
        /\ \A f \in found : files[f].aged
        /\ IF found = {}
           THEN Settle(p, "removed")
           ELSE /\ todo' = [todo EXCEPT ![p] = found]
                /\ Goto(p, "recheck") /\ UNCHANGED <<request, out, tries, loaded, mine>>
  BY DEF Query
<1>3. CASE found = {}
  BY <1>1, <1>2, <1>3, SettleBodies DEF Answers
<1>4. CASE found # {}
  <2>1. CallMoved(p) /\ mine'[p] = mine[p] /\ pc'[p] = "recheck" /\ todo'[p] = found
    BY <1>2, <1>4 DEF Maps, CallMaps, CallMoved, CallStays, Goto
  <2> QED BY <1>1, <1>2, <2>1, QuietStep DEF TodoKept
<1> QED BY <1>3, <1>4

LEMMA UploadThrowsBodies ==
  ASSUME TypeOK, Maps, BodyInv, NEW p \in Pages, UploadThrows(p)
  PROVE  BodyInv'
<1>1. \A f \in 1..Len(files) : Append(files, NewFile(p))[f] = files[f]
  BY DEF TypeOK
<1>2. FolderGains /\ UNCHANGED <<wire, acked>> /\ Settle(p, "failed")
  BY <1>1 DEF UploadThrows, FolderGains
<1> QED BY <1>2, SettleBodies DEF Answers

LEMMA LostBodies ==
  ASSUME TypeOK, Maps, BodyInv, NEW p \in Pages, Advance(p), ~Matches(loaded[p])
  PROVE  BodyInv'
<1>1. /\ FolderGains /\ UNCHANGED <<wire, acked>> /\ WireMoved(p) /\ wire'[p] = wire[p] /\ Lost(p)
  BY Same DEF Advance, FolderGains, WireStays
<1>2. CASE tries[p] + 1 < MaxCasAttempts \/ request[p].op = "cas"
  <2>1. PICK label \in {"load", "final"} :
          label = IF tries[p] + 1 < MaxCasAttempts THEN "load" ELSE "final"
    OBVIOUS
  <2>2. CallMoved(p) /\ mine'[p] = 0 /\ pc'[p] = label
    BY <1>1, <1>2, <2>1 DEF Lost, Maps, CallMaps, CallMoved, CallStays, Goto
  <2> QED BY <1>1, <2>1, <2>2, QuietStep DEF TodoKept
<1>3. CASE ~(tries[p] + 1 < MaxCasAttempts \/ request[p].op = "cas")
  BY <1>1, <1>3, SettleBodies DEF Lost, Answers
<1> QED BY <1>2, <1>3
\* Bodies are marked as trashed or as old, those that are named or claimed as before.
LEMMA BodiesMarked ==
  ASSUME TypeOK, BodyInv, UNCHANGED <<roots, wire>>,
         \A g \in Named(roots) : files'[g].trashed => files[g].trashed,
         \A q \in Pages : \A g \in Claims(mine[q], wire[q]) : files'[g] = files[g],
         \A g \in 1..Len(files) : files[g].aged => files'[g].aged,
         \A q \in Pages : /\ mine'[q] = mine[q]
                          /\ \/ pc'[q] = pc[q] /\ todo'[q] \subseteq todo[q]
                             \/ pc'[q] \notin {"recheck", "patch"}
  PROVE  BodyInv'
<1>1. OthersAreEmpty' /\ OneKeyEach(roots')
  BY DEF BodyInv, Bodies, OthersAreEmpty
<1>2. \A f \in Named(roots') : ~files'[f].trashed
  BY DEF BodyInv, Bodies
<1>3. ASSUME NEW p \in Pages, NEW f \in Claims(mine'[p], wire'[p])
      PROVE  f \notin Named(roots') /\ ~files'[f].trashed /\ ~files'[f].aged
  BY <1>3 DEF BodyInv, Bodies
<1>4. ASSUME NEW p \in Pages, pc'[p] = "recheck", NEW f \in todo'[p]
      PROVE  files'[f].aged
  <2>1. f \in 1..Len(files) /\ files[f].aged
    BY <1>4 DEF BodyInv, Bodies, TypeOK
  <2> QED BY <2>1
<1>5. ASSUME NEW p \in Pages, pc'[p] = "patch", NEW f \in todo'[p]
      PROVE  Unclaimed(f)'
  <2>1. Unclaimed(f)
    BY <1>5 DEF BodyInv, Bodies
  <2> QED BY <2>1 DEF Unclaimed
<1>6. \A p \in Pages : Apart(mine'[p], wire'[p])
  BY DEF BodyInv, Bodies
<1>7. \A p, q \in Pages : p # q => Claims(mine'[p], wire'[p]) \cap Claims(mine'[q], wire'[q]) = {}
  BY DEF BodyInv, Bodies
<1> QED BY <1>1, <1>2, <1>3, <1>4, <1>5, <1>6, <1>7 DEF BodyInv, Bodies

LEMMA AgeBodies ==
  ASSUME DriveAssumption, ~SlowCommits, TypeOK, BodyInv, NEW f \in 1..Len(files), Age(f)
  PROVE  BodyInv'
<1>1. /\ \A g \in 1..Len(files) : g # f => files'[g] = files[g]
      /\ files'[f].aged /\ files'[f].trashed = files[f].trashed
  BY AgeGrows
<1>2. UNCHANGED <<roots, wire, pc, mine, todo>>
  BY DEF Age, callVars
<1>3. \A g \in Named(roots) : files'[g].trashed => files[g].trashed
  BY <1>1, NamesTyped
<1>4. ASSUME NEW q \in Pages
      PROVE  f \notin Claims(mine[q], wire[q])
  <2>1. mine[q] # f /\ f \notin Tracked(wire[q].entries)
    BY DEF Age
  <2>2. wire[q].request.keys \subseteq Keys
    <3>1. wire[q].request \in Store!Requests \cup {NoRequest}
      BY DEF TypeOK
    <3> QED BY <3>1, RequestFacts DEF RequestKeys, NoRequest, Store!NoRequest
  <2> QED BY <2>1, <2>2 DEF Claims, Tracked
<1>5. \A q \in Pages : \A g \in Claims(mine[q], wire[q]) : files'[g] = files[g]
  BY <1>1, <1>4, NamesTyped
<1>6. \A g \in 1..Len(files) : files[g].aged => files'[g].aged
  BY <1>1
<1> QED BY <1>2, <1>3, <1>5, <1>6, BodiesMarked

LEMMA PatchBodies ==
  ASSUME DriveAssumption, TypeOK, Maps, BodyInv, NEW p \in Pages, NEW f \in todo[p], Patch(p, f),
         mine[p] = 0
  PROVE  BodyInv'
<1>1. /\ f \in 1..Len(files) /\ \A g \in 1..Len(files) : g # f => files'[g] = files[g]
      /\ files'[f] = files[f] \/ (files'[f].trashed /\ files'[f].aged = files[f].aged)
  BY PatchGrows
<1>2. Unclaimed(f) /\ UNCHANGED <<roots, wire, acked>>
  BY DEF Patch, BodyInv, Bodies
<1>3. \A g \in Named(roots) : files'[g] = files[g]
  BY <1>1, <1>2, NamesTyped DEF Unclaimed
<1>4. \A q \in Pages : \A g \in Claims(mine[q], wire[q]) : files'[g] = files[g]
  BY <1>1, <1>2, NamesTyped DEF Unclaimed
<1>5. \A g \in 1..Len(files) : files[g].aged => files'[g].aged
  BY <1>1
<1>6. ASSUME NEW q \in Pages
      PROVE  /\ mine'[q] = mine[q]
             /\ \/ pc'[q] = pc[q] /\ todo'[q] \subseteq todo[q]
                \/ pc'[q] \notin {"recheck", "patch"}
  <2>1. CASE todo[p] # {f}
    BY <2>1 DEF Patch, Maps, CallMaps
  <2>2. CASE todo[p] = {f}
    <3>1. CallMoved(p) /\ mine'[p] = 0 /\ pc'[p] = "idle"
      BY <2>2, SettleValues DEF Settled, Patch
    <3> QED BY <3>1 DEF CallMoved, CallStays
  <2> QED BY <2>1, <2>2
<1> QED BY <1>2, <1>3, <1>4, <1>5, <1>6, BodiesMarked
LEMMA UploadBodies ==
  ASSUME DriveAssumption, TypeOK, Maps, BodyInv, NEW p \in Pages, CallInv(p), Upload(p)
  PROVE  BodyInv'
<1>1. request[p] \in Store!Requests /\ request[p].op \in {"put", "cas"} /\ mine[p] = 0
  BY DEF CallInv, Upload
<1>2. PICK n : n = Len(files) + 1
  OBVIOUS
<1>3. /\ n \notin 1..Len(files) /\ n # 0 /\ ~files'[n].trashed /\ ~files'[n].aged
      /\ \A f \in 1..Len(files) : files'[f] = files[f]
  <2>1. Len(files) \in Nat
    BY DEF TypeOK
  <2>2. files'[n] = NewFile(p) /\ \A f \in 1..Len(files) : files'[f] = files[f]
    BY <1>1, <1>2, NewFileTyped, FaultTyped, BodyAdded DEF Upload
  <2> QED BY <1>1, <1>2, <2>1, <2>2, NewFileTyped
<1>4. UNCHANGED <<roots, wire>>
  BY DEF Upload
<1>5. CallMoved(p) /\ mine'[p] = n /\ pc'[p] = "advance"
  BY <1>2 DEF Maps, CallMaps, CallMoved, CallStays, Upload, Goto
<1>6. \A q \in Pages : Claims(mine[q], wire[q]) \subseteq 1..Len(files)
  BY NamesTyped
<1>7. Claims(mine'[p], wire'[p]) = Claims(mine[p], wire[p]) \cup {n}
  BY <1>1, <1>3, <1>4, <1>5 DEF Claims
<1>8. \A q \in Pages : q # p => mine'[q] = mine[q] /\ pc'[q] = pc[q] /\ todo'[q] = todo[q]
  BY <1>5 DEF CallMoved, CallStays
<1>9. OthersAreEmpty' /\ OneKeyEach(roots')
  BY <1>4 DEF BodyInv, Bodies, OthersAreEmpty
<1>10. \A f \in Named(roots') : ~files'[f].trashed
  BY <1>3, <1>4, NamesTyped DEF BodyInv, Bodies
<1>11. ASSUME NEW q \in Pages, NEW f \in Claims(mine'[q], wire'[q])
       PROVE  f \notin Named(roots') /\ ~files'[f].trashed /\ ~files'[f].aged
  <2>1. CASE f = n
    BY <1>3, <1>4, <2>1, NamesTyped
  <2>2. CASE f # n
    <3>1. f \in Claims(mine[q], wire[q])
      BY <1>4, <1>7, <1>8, <1>11, <2>2
    <3>2. f \in 1..Len(files) /\ f \notin Named(roots) /\ ~files[f].trashed /\ ~files[f].aged
      BY <1>6, <3>1 DEF BodyInv, Bodies
    <3> QED BY <1>3, <1>4, <3>2
  <2> QED BY <2>1, <2>2
<1>12. ASSUME NEW q \in Pages, NEW s \in Pages, q # s
       PROVE  Claims(mine'[q], wire'[q]) \cap Claims(mine'[s], wire'[s]) = {}
  <2>1. Claims(mine[q], wire[q]) \cap Claims(mine[s], wire[s]) = {}
    BY <1>12 DEF BodyInv, Bodies
  <2> QED BY <1>3, <1>4, <1>6, <1>7, <1>8, <1>12, <2>1
<1>13. ASSUME NEW q \in Pages
       PROVE  Apart(mine'[q], wire'[q])
  <2>1. CASE q # p
    BY <1>4, <1>8, <2>1 DEF BodyInv, Bodies
  <2>2. CASE q = p
    <3>1. \A k \in wire[p].request.keys :
            wire[p].entries[k] # 0 => wire[p].entries[k] \in Claims(mine[p], wire[p])
      BY DEF Claims
    <3> QED BY <1>3, <1>4, <1>5, <1>6, <2>2, <3>1 DEF Apart
  <2> QED BY <2>1, <2>2
<1>14. ASSUME NEW q \in Pages, pc'[q] = "recheck", NEW f \in todo'[q]
       PROVE  files'[f].aged
  <2>1. pc[q] = "recheck" /\ f \in todo[q]
    BY <1>5, <1>8, <1>14
  <2>2. f \in 1..Len(files) /\ files[f].aged
    BY <2>1 DEF BodyInv, Bodies, TypeOK
  <2> QED BY <1>3, <2>2
<1>15. ASSUME NEW q \in Pages, pc'[q] = "patch", NEW f \in todo'[q]
       PROVE  Unclaimed(f)'
  <2>1. pc[q] = "patch" /\ f \in todo[q]
    BY <1>5, <1>8, <1>15
  <2>2. f \in 1..Len(files) /\ Unclaimed(f)
    BY <2>1 DEF BodyInv, Bodies, TypeOK
  <2>3. \A s \in Pages : f \notin Claims(mine'[s], wire'[s])
    BY <1>3, <1>4, <1>7, <1>8, <2>2 DEF Unclaimed
  <2> QED BY <1>4, <2>2, <2>3 DEF Unclaimed
<1> QED BY <1>9, <1>10, <1>11, <1>12, <1>13, <1>14, <1>15 DEF BodyInv, Bodies

\* A rewrite of the entries at some keys: body c, which page p had claimed, or none.
Enters(p, keys, c, e) ==
  /\ keys \subseteq Keys
  /\ roots # << >> /\ roots' # << >> /\ roots'[1].entries = e
  /\ Len(roots') = Len(roots) /\ \A i \in 2..Len(roots) : roots'[i] = roots[i]
  /\ \A k \in Keys \ keys : e[k] = roots[1].entries[k]
  /\ \A k \in keys : e[k] = c
  /\ c # 0 => c \in Claims(mine[p], wire[p]) /\ \E k \in Keys : keys = {k}
  /\ c \notin Claims(mine'[p], wire'[p])
Leaves(q, keys, c) ==
  /\ Claims(mine'[q], wire'[q]) \subseteq Claims(mine[q], wire[q]) /\ Apart(mine'[q], wire'[q])
  /\ \/ pc'[q] = pc[q] /\ todo'[q] \subseteq todo[q]
     \/ pc'[q] \notin {"recheck", "patch"}
     \/ /\ pc'[q] = "patch" /\ c = 0
        /\ todo'[q] \subseteq {roots[1].entries[k] : k \in keys} \ {0}

LEMMA CommitBodies ==
  ASSUME TypeOK, BodyInv, UNCHANGED files, NEW p \in Pages, NEW keys, NEW c, NEW e,
         Enters(p, keys, c, e), \A q \in Pages : Leaves(q, keys, c)
  PROVE  BodyInv'
<1> USE DEF Enters, Leaves
<1>1. /\ Named(roots) = {roots[1].entries[k] : k \in Keys} \ {0}
      /\ Named(roots') = {e[k] : k \in Keys} \ {0}
  BY DEF Named, Tracked
<1>2. Named(roots') \subseteq Named(roots) \cup {c} /\ 0 \notin Named(roots')
  BY <1>1
<1>3. OthersAreEmpty'
  BY DEF BodyInv, OthersAreEmpty, EmptyIndex
<1>4. c # 0 => c \notin Named(roots) /\ ~files[c].trashed
  BY DEF BodyInv, Bodies
<1>5. OneKeyEach(roots')
  <2>1. ASSUME NEW k \in Keys, NEW l \in Keys, e[k] = e[l], e[k] # 0
        PROVE  k = l
    <3>1. CASE k \in keys /\ l \in keys
      BY <2>1, <3>1
    <3>2. CASE k \notin keys /\ l \notin keys
      BY <2>1, <3>2 DEF BodyInv, Bodies, OneKeyEach
    <3>3. CASE k \in keys /\ l \notin keys
      BY <1>1, <1>4, <2>1, <3>3
    <3>4. CASE k \notin keys /\ l \in keys
      BY <1>1, <1>4, <2>1, <3>4
    <3> QED BY <3>1, <3>2, <3>3, <3>4
  <2> QED BY <2>1 DEF OneKeyEach
<1>6. \A f \in Named(roots') : ~files'[f].trashed
  BY <1>2, <1>4 DEF BodyInv, Bodies
<1>7. ASSUME NEW q \in Pages
      PROVE  c # 0 => c \notin Claims(mine'[q], wire'[q])
  BY DEF BodyInv, Bodies
<1>8. ASSUME NEW q \in Pages, NEW f \in Claims(mine'[q], wire'[q])
      PROVE  f \notin Named(roots') /\ ~files'[f].trashed /\ ~files'[f].aged
  <2>1. f \notin Named(roots) /\ ~files[f].trashed /\ ~files[f].aged
    BY <1>8 DEF BodyInv, Bodies
  <2> QED BY <1>2, <1>7, <1>8, <2>1
<1>9. ASSUME NEW q \in Pages, NEW s \in Pages, q # s
      PROVE  Claims(mine'[q], wire'[q]) \cap Claims(mine'[s], wire'[s]) = {}
  BY <1>9 DEF BodyInv, Bodies
<1>10. ASSUME NEW q \in Pages, pc'[q] = "recheck", NEW f \in todo'[q]
       PROVE  files'[f].aged
  BY <1>10 DEF BodyInv, Bodies
<1>11. ASSUME NEW q \in Pages, pc'[q] = "patch", NEW f \in todo'[q]
       PROVE  Unclaimed(f)'
  <2>1. CASE pc[q] = "patch" /\ f \in todo[q]
    <3>1. Unclaimed(f) /\ f # c
      <4>1. Unclaimed(f) /\ f \in 1..Len(files)
        BY <2>1 DEF BodyInv, Bodies, TypeOK
      <4>2. f # 0
        BY <4>1 DEF TypeOK
      <4> QED BY <4>1, <4>2 DEF Unclaimed
    <3> QED BY <1>2, <3>1 DEF Unclaimed
  <2>2. CASE c = 0 /\ f \in {roots[1].entries[k] : k \in keys} \ {0}
    <3>1. PICK k \in keys : f = roots[1].entries[k] /\ f # 0
      BY <2>2
    <3>2. f \in Named(roots)
      BY <1>1, <3>1
    <3>3. \A q1 \in Pages : f \notin Claims(mine'[q1], wire'[q1])
      BY <3>2 DEF BodyInv, Bodies
    <3>4. f \notin Named(roots')
      <4>1. ASSUME NEW l \in Keys, e[l] = f
            PROVE  FALSE
        <5>1. l \notin keys
          BY <2>2, <3>1, <4>1
        <5>2. roots[1].entries[l] = roots[1].entries[k]
          BY <3>1, <4>1, <5>1
        <5> QED BY <3>1, <5>1, <5>2 DEF BodyInv, Bodies, OneKeyEach
      <4> QED BY <1>1, <4>1
    <3> QED BY <3>3, <3>4 DEF Unclaimed
  <2> QED BY <1>11, <2>1, <2>2
<1> QED BY <1>3, <1>5, <1>6, <1>8, <1>9, <1>10, <1>11 DEF BodyInv, Bodies
\* What the rewrite of a call enters in the index.
LEMMA CallEnters ==
  ASSUME TypeOK, NEW p \in Pages, CallTyped(p), CallInv(p), pc[p] = "advance"
  PROVE  /\ request[p].keys \subseteq Keys
         /\ \A k \in Keys \ request[p].keys : NextEntries(p)[k] = loaded[p].entries[k]
         /\ \A k \in request[p].keys : NextEntries(p)[k] = mine[p]
         /\ request[p].op = "trash" => mine[p] = 0
         /\ mine[p] # 0 => \E k \in Keys : request[p].keys = {k}
<1>1. request[p] \in Store!Requests /\ request[p].op \in {"put", "cas", "trash"}
  BY Rewriting
<1>2. RequestKeys(request[p])
  BY <1>1, RequestFacts
<1>3. mine[p] # 0 => request[p].op # "trash"
  BY DEF CallInv
<1> QED BY <1>1, <1>2, <1>3 DEF RequestKeys, NextEntries

\* A call's rewrite is applied and the call ends, or goes on to trash the bodies.
LEMMA CallCommits ==
  ASSUME TypeOK, Maps, BodyInv, UNCHANGED files, NEW p \in Pages, CallTyped(p), CallInv(p),
         pc[p] = "advance", UsedTyped(used'), Matches(loaded[p]),
         Rewrite(loaded[p], NextEntries(p)), UNCHANGED wire, CallMoved(p), mine'[p] = 0,
         \/ pc'[p] = "idle"
         \/ /\ pc'[p] = "patch" /\ mine[p] = 0
            /\ todo'[p] = {loaded[p].entries[k] : k \in request[p].keys} \ {0}
  PROVE  BodyInv'
<1>1. /\ NextEntries(p) \in Entries /\ loaded[p] \in Index /\ Seen(roots, loaded[p])
  BY Rewriting
<1>2. /\ loaded[p].entries = roots[1].entries /\ roots' # << >> /\ Len(roots') = Len(roots)
      /\ roots'[1].entries = NextEntries(p) /\ \A i \in 2..Len(roots) : roots'[i] = roots[i]
  <2>1. PICK x \in Index, e \in Entries : x = loaded[p] /\ e = NextEntries(p)
    BY <1>1
  <2>2. /\ x.entries = roots[1].entries /\ roots' # << >> /\ Len(roots') = Len(roots)
        /\ roots'[1] = [etag |-> roots[1].etag + 1, entries |-> e]
        /\ \A i \in 2..Len(roots) : roots'[i] = roots[i]
    BY <1>1, <2>1, IndexRewritten
  <2> QED BY <2>1, <2>2
<1>3. roots # << >>
  BY <1>1 DEF Seen
<1>4. mine[p] # 0 => mine[p] \in Claims(mine[p], wire[p])
  BY DEF Claims
<1>5. /\ mine[p] \notin Claims(0, wire[p]) /\ Apart(0, wire[p])
      /\ Claims(0, wire[p]) \subseteq Claims(mine[p], wire[p])
  <2>1. Apart(mine[p], wire[p])
    BY DEF BodyInv, Bodies
  <2> QED BY <2>1 DEF Claims, Apart
<1>6. PICK keys, c, e : keys = request[p].keys /\ c = mine[p] /\ e = NextEntries(p)
  OBVIOUS
<1>7. /\ keys \subseteq Keys /\ \A k \in keys : e[k] = c
      /\ \A k \in Keys \ keys : e[k] = roots[1].entries[k]
      /\ c # 0 => \E k \in Keys : keys = {k}
  BY <1>2, <1>6, CallEnters
<1>8. Enters(p, keys, c, e)
  BY <1>2, <1>3, <1>4, <1>5, <1>6, <1>7 DEF Enters
<1>9. ASSUME NEW q \in Pages
      PROVE  Leaves(q, keys, c)
  <2>1. CASE q # p
    BY <2>1 DEF CallMoved, CallStays, BodyInv, Bodies, Leaves
  <2>2. CASE q = p
    BY <1>2, <1>5, <1>6, <2>2 DEF Leaves
  <2> QED BY <2>1, <2>2
<1> QED BY <1>8, <1>9, CommitBodies

LEMMA AdvanceBodies ==
  ASSUME DriveAssumption, TypeOK, Maps, BodyInv, NEW p \in Pages, CallTyped(p), CallInv(p),
         Advance(p), Matches(loaded[p])
  PROVE  BodyInv'
<1>1. /\ Rewrite(loaded[p], NextEntries(p)) /\ Committed(p) /\ UNCHANGED <<files, wire, used>>
      /\ pc[p] = "advance" /\ UsedTyped(used')
  BY FaultTyped DEF Advance
<1>2. CASE request[p].op # "trash"
  <2>1. PICK a : Settle(p, a)
    BY <1>1, <1>2 DEF Committed
  <2>2. CallMoved(p) /\ mine'[p] = 0 /\ pc'[p] = "idle"
    BY <2>1, SettleValues DEF Settled
  <2> QED BY <1>1, <2>2, CallCommits
<1>3. CASE request[p].op = "trash"
  <2>1. mine[p] = 0
    BY <1>3 DEF CallInv
  <2>2. PICK T : T = {loaded[p].entries[k] : k \in request[p].keys} \ {0}
    OBVIOUS
  <2>3. CallMoved(p) /\ mine'[p] = 0 /\ pc'[p] = "patch" /\ todo'[p] = T
    BY <1>1, <1>3, <2>1, <2>2 DEF Committed, Maps, CallMaps, CallMoved, CallStays, Goto
  <2> QED BY <1>1, <2>1, <2>2, <2>3, CallCommits
<1> QED BY <1>2, <1>3

LEMMA AdvanceThrowsBodies ==
  ASSUME DriveAssumption, TypeOK, Maps, BodyInv, NEW p \in Pages, CallTyped(p), CallInv(p),
         AdvanceThrows(p)
  PROVE  BodyInv'
<1>1. /\ Settle(p, "failed") /\ UNCHANGED <<files, acked>> /\ pc[p] = "advance"
      /\ UsedTyped(used')
  BY FaultTyped DEF AdvanceThrows
<1>2. CallMoved(p) /\ mine'[p] = 0 /\ pc'[p] = "idle"
  BY <1>1, SettleValues DEF Settled
<1>3. CASE UNCHANGED <<roots, wire>>
  BY <1>1, <1>3, SettleBodies DEF FolderGains, Answers
<1>4. CASE UNCHANGED wire /\ Matches(loaded[p]) /\ Rewrite(loaded[p], NextEntries(p))
  BY <1>1, <1>2, <1>4, CallCommits
<1>5. ASSUME UNCHANGED roots, wire[p] = NoWire,
             wire' = [wire EXCEPT ![p] = [request |-> request[p], loaded |-> loaded[p],
                                          entries |-> NextEntries(p)]]
      PROVE  BodyInv'
  <2>1. PICK w : w = [request |-> request[p], loaded |-> loaded[p], entries |-> NextEntries(p)]
    OBVIOUS
  <2>2. wire'[p] = w /\ \A q \in Pages \ {p} : wire'[q] = wire[q]
    BY <1>5, <2>1 DEF Maps, WireMaps
  <2>3. Claims(0, w) \subseteq Claims(mine[p], wire[p]) /\ Apart(0, w)
    <3>1. \A k \in request[p].keys : NextEntries(p)[k] = mine[p]
      BY <1>1, CallEnters
    <3>2. w.request = request[p] /\ w.entries = NextEntries(p)
      BY <2>1
    <3> QED BY <3>1, <3>2 DEF Claims, Apart
  <2>4. ASSUME NEW q \in Pages
        PROVE  /\ Claims(mine'[q], wire'[q]) \subseteq Claims(mine[q], wire[q])
               /\ Apart(mine'[q], wire'[q]) /\ TodoKept(q)
    <3>1. CASE q # p
      BY <1>2, <2>2, <3>1 DEF CallMoved, CallStays, TodoKept, BodyInv, Bodies
    <3>2. CASE q = p
      BY <1>2, <2>2, <2>3, <3>2 DEF TodoKept
    <3> QED BY <3>1, <3>2
  <2>5. Bodies'
    BY <1>1, <1>5, <2>4, BodiesStay DEF BodyInv, Bodies
  <2> QED BY <1>5, <2>5 DEF BodyInv, OthersAreEmpty
<1> QED BY <1>3, <1>4, <1>5 DEF AdvanceThrows

LEMMA ArriveBodies ==
  ASSUME DriveAssumption, TypeOK, Maps, BodyInv, NEW p \in Pages, WireTyped(p), WireInv(p), Arrive(p)
  PROVE  BodyInv'
<1>1. wire[p] # NoWire /\ UNCHANGED <<files, callVars, used>> /\ UsedTyped(used')
  BY FaultTyped DEF Arrive
<1>2. wire'[p] = NoWire /\ \A q \in Pages \ {p} : wire'[q] = wire[q]
  BY DEF Arrive, Maps, WireMaps
<1>3. /\ Claims(mine[p], NoWire) = {mine[p]} \ {0} /\ Apart(mine[p], NoWire)
      /\ Claims(mine[p], NoWire) \subseteq Claims(mine[p], wire[p])
  BY DEF Claims, Apart, NoWire, NoRequest, Store!NoRequest
<1>4. ASSUME NEW q \in Pages
      PROVE  /\ Claims(mine'[q], wire'[q]) \subseteq Claims(mine[q], wire[q])
             /\ Apart(mine'[q], wire'[q]) /\ pc'[q] = pc[q] /\ todo'[q] = todo[q]
  <2>1. CASE q # p
    BY <1>1, <1>2, <2>1 DEF callVars, BodyInv, Bodies
  <2>2. CASE q = p
    BY <1>1, <1>2, <1>3, <2>2 DEF callVars
  <2> QED BY <2>1, <2>2
<1>5. CASE UNCHANGED roots
  <2>1. Bodies'
    BY <1>1, <1>4, <1>5, BodiesStay DEF TodoKept, BodyInv, Bodies
  <2> QED BY <1>5, <2>1 DEF BodyInv, OthersAreEmpty
<1>6. CASE Matches(wire[p].loaded) /\ Rewrite(wire[p].loaded, wire[p].entries)
  <2>1. /\ wire[p].loaded \in Index /\ wire[p].entries \in Entries
        /\ wire[p].request \in Store!Requests /\ wire[p].request.op # "sweep"
        /\ Seen(roots, wire[p].loaded)
        /\ Applied(files, wire[p].request, wire[p].loaded, wire[p].entries)
    BY <1>1 DEF WireTyped, Wires, WireInv
  <2>2. PICK r \in Store!Requests, e \in Entries : r = wire[p].request /\ e = wire[p].entries
    BY <2>1
  <2>3. RequestKeys(r) /\ roots # << >> /\ r.op # "sweep"
    BY <2>1, <2>2, RequestFacts DEF Seen
  <2>4. /\ wire[p].loaded.entries = roots[1].entries /\ roots' # << >> /\ Len(roots') = Len(roots)
        /\ roots'[1].entries = e /\ \A i \in 2..Len(roots) : roots'[i] = roots[i]
    <3>1. PICK x \in Index : x = wire[p].loaded
      BY <2>1
    <3>2. /\ x.entries = roots[1].entries /\ roots' # << >> /\ Len(roots') = Len(roots)
          /\ roots'[1] = [etag |-> roots[1].etag + 1, entries |-> e]
          /\ \A i \in 2..Len(roots) : roots'[i] = roots[i]
      BY <1>1, <1>6, <2>1, <2>2, <3>1, IndexRewritten
    <3> QED BY <3>1, <3>2
  <2>5. PICK c : /\ \A k \in r.keys : e[k] = c
                 /\ c # 0 => \E k \in Keys : r.keys = {k}
    <3>1. CASE r.op = "trash"
      BY <2>1, <2>2, <3>1 DEF Applied
    <3>2. CASE r.op # "trash"
      <4>1. PICK k \in Keys : r.keys = {k}
        BY <2>3, <3>2 DEF RequestKeys
      <4> QED BY <4>1
    <3> QED BY <3>1, <3>2
  <2>6. r.keys \subseteq Keys /\ \A k \in Keys \ r.keys : e[k] = roots[1].entries[k]
    BY <2>1, <2>2, <2>3, <2>4 DEF Applied, RequestKeys
  <2>7. c # 0 => c \in Claims(mine[p], wire[p]) /\ c # mine[p]
    <3>1. Apart(mine[p], wire[p])
      BY DEF BodyInv, Bodies
    <3> QED BY <2>2, <2>5, <3>1 DEF Claims, Apart
  <2>8. c \notin Claims(mine'[p], wire'[p])
    BY <1>1, <1>2, <1>3, <2>7 DEF callVars
  <2>9. Enters(p, r.keys, c, e)
    BY <2>3, <2>4, <2>5, <2>6, <2>7, <2>8 DEF Enters
  <2>10. \A q \in Pages : Leaves(q, r.keys, c)
    BY <1>4 DEF Leaves
  <2> QED BY <1>1, <2>9, <2>10, CommitBodies
<1> QED BY <1>5, <1>6 DEF Arrive

LEMMA InitBodies ==
  ASSUME Init
  PROVE  BodyInv
<1>1. roots \in {<< >>, <<EmptyIndex>>}
  BY DEF Init
<1>2. OthersAreEmpty
  BY <1>1 DEF OthersAreEmpty
<1>3. Named(roots) = {} /\ OneKeyEach(roots)
  BY <1>1 DEF Named, Tracked, OneKeyEach, EmptyIndex
<1>4. Claims(0, NoWire) = {} /\ Apart(0, NoWire)
  BY DEF Claims, Apart, NoWire, NoRequest, Store!NoRequest
<1>5. Bodies
  BY <1>3, <1>4 DEF Init, Bodies
<1> QED BY <1>2, <1>5 DEF BodyInv

LEMMA NextBodies ==
  ASSUME DriveAssumption, ~SlowCommits, PagesInv, BodyInv, [Next]_vars
  PROVE  BodyInv'
<1>1. TypeOK /\ Maps /\ \A p \in Pages : CallTyped(p) /\ CallInv(p) /\ WireTyped(p) /\ WireInv(p)
  BY TypesByPage DEF PagesInv, PageInv, TypedByPage, PageTyped
<1>2. CASE UNCHANGED vars
  <2>1. UNCHANGED <<roots, files, mine, wire, pc, todo>>
    BY <1>2 DEF vars, callVars
  <2> QED BY <2>1 DEF BodyInv, OthersAreEmpty, Bodies, Unclaimed
<1>3. ASSUME NEW p \in Pages, NEW s \in {"call", "fill"},
             List(p, s) \/ CreateIndex(p, s) \/ LoadThrows(p, s)
      PROVE  BodyInv'
  BY <1>1, <1>3, LoadBodies
<1>4. ASSUME NEW p \in Pages, Advance(p) \/ AdvanceThrows(p) \/ Arrive(p)
      PROVE  BodyInv'
  BY <1>1, <1>4, AdvanceBodies, LostBodies, AdvanceThrowsBodies, ArriveBodies
<1>5. ASSUME NEW p \in Pages,
             \/ \E r \in Operations : Invoke(p, r)
             \/ Download(p) \/ Upload(p) \/ UploadThrows(p) \/ Query(p)
      PROVE  BodyInv'
  BY <1>1, <1>5, InvokeBodies, DownloadBodies, UploadBodies, UploadThrowsBodies, QueryBodies
<1>6. ASSUME NEW p \in Pages, NEW f \in todo[p], Patch(p, f)
      PROVE  BodyInv'
  <2>1. mine[p] = 0
    BY <1>1, <1>6 DEF Patch, CallInv
  <2> QED BY <1>1, <1>6, <2>1, PatchBodies
<1>7. ASSUME NEW p \in Pages,
             \/ \E k \in Keys : Get(p, k)
             \/ FillAnswered(p) \/ Filled(p) \/ GetEnds(p) \/ Expire(p) \/ Close(p)
      PROVE  BodyInv'
  BY <1>1, <1>7, ReadBodies
<1>8. ASSUME NEW f \in 1..Len(files), Age(f)
      PROVE  BodyInv'
  BY <1>1, <1>8, AgeBodies
<1> QED BY <1>2, <1>3, <1>4, <1>5, <1>6, <1>7, <1>8 DEF Next
\* What the invariant says of pages and of bodies holds in every state, provided that
\* no upload waits the safety age for its commit.
THEOREM DriveInductive ==
  ASSUME DriveAssumption, ~SlowCommits
  PROVE  Spec => []DriveInv
<1>1. Init => DriveInv
  BY InitPages, InitBodies DEF DriveInv
<1>2. DriveInv /\ [Next]_vars => DriveInv'
  BY NextPages, NextBodies DEF DriveInv
<1> QED BY <1>1, <1>2, PTL DEF Spec

\* No key of the index ever reads as a body in the trash, whatever trash calls, sweeps,
\* lost answers and late rewrites run beside the writers (trash, sweepUntracked,
\* advanceIndex): a get of it would fail hard.
THEOREM IndexedBodiesStay ==
  ASSUME DriveAssumption, ~SlowCommits
  PROVE  Spec => []IndexedBodiesAreKept
<1>1. ASSUME DriveInv, NEW r \in 1..Len(roots), NEW f \in Tracked(roots[r].entries)
      PROVE  ~files[f].trashed
  <2>1. Len(roots) \in Nat
    BY <1>1 DEF DriveInv, PagesInv, TypeOK
  <2>2. CASE r = 1
    <3>1. roots # << >>
      BY <2>1, <2>2
    <3>2. f \in Named(roots)
      BY <1>1, <2>2, <3>1 DEF Named
    <3> QED BY <1>1, <3>2 DEF DriveInv, BodyInv, Bodies
  <2>3. CASE r # 1
    <3>1. r \in 2..Len(roots)
      BY <2>1, <2>3
    <3>2. roots[r] = EmptyIndex
      BY <1>1, <3>1 DEF DriveInv, BodyInv, OthersAreEmpty
    <3> QED BY <1>1, <3>2 DEF EmptyIndex, Tracked
  <2> QED BY <2>2, <2>3
<1>2. DriveInv => IndexedBodiesAreKept
  BY <1>1, OneRoot DEF IndexedBodiesAreKept, DriveInv
<1> QED BY <1>2, DriveInductive, PTL
-------------------------------------------------------------------------------
(* The contract.  The objects are those that the first index names. *)

View(R, F) ==
  [k \in Keys |-> IF R = << >> THEN None
                  ELSE IF R[1].entries[k] = 0 THEN None ELSE F[R[1].entries[k]].content]
Outcome(r, o, label) == IF label = "patch" /\ r.op = "trash" THEN "removed" ELSE o

LEMMA ReadAs == DriveInv => ObjectsRead = View(roots, files)
<1>1. ASSUME DriveInv, NEW k \in Keys
      PROVE  ObjectsRead[k] = View(roots, files)[k]
  <2>1. CASE roots = << >>
    BY <2>1 DEF ObjectsRead, View
  <2>2. CASE roots # << >>
    <3>1. roots[1].entries[k] # 0 => roots[1].entries[k] \in Named(roots)
      BY <2>2 DEF Named, Tracked
    <3>2. roots[1].entries[k] # 0 => ~files[roots[1].entries[k]].trashed
      BY <1>1, <3>1 DEF DriveInv, BodyInv, Bodies
    <3> QED BY <2>2, <3>2 DEF ObjectsRead, View
  <2> QED BY <2>1, <2>2
<1> QED BY <1>1 DEF ObjectsRead, View

LEMMA ReadAsNext == DriveInv' => ObjectsRead' = View(roots', files')
<1>1. (DriveInv => ObjectsRead = View(roots, files))'
  BY ReadAs, PTL
<1> QED BY <1>1

\* Neither a new index file nor a body that is added or marked changes an object.
LEMMA ObjectsStay ==
  ASSUME TypeOK, DriveInv, DriveInv', UNCHANGED roots \/ roots' = Append(roots, EmptyIndex),
         \A f \in 1..Len(files) : files'[f].content = files[f].content
  PROVE  ObjectsRead' = ObjectsRead
<1>1. ObjectsRead = View(roots, files) /\ ObjectsRead' = View(roots', files')
  BY ReadAs, ReadAsNext
<1>2. CASE roots = << >>
  <2>1. roots' = << >> \/ (roots' = <<EmptyIndex>> /\ roots' # << >> /\ roots'[1] = EmptyIndex)
    BY <1>2
  <2>2. View(roots', files') = [k \in Keys |-> None]
    BY <2>1 DEF View, EmptyIndex
  <2> QED BY <1>1, <1>2, <2>2 DEF View
<1>3. CASE roots # << >>
  <2>1. roots \in Seq([etag : Nat, entries : Entries]) /\ Len(roots) \in Nat /\ Len(roots) >= 1
    BY <1>3, FirstIndex DEF TypeOK
  <2>2. roots' # << >> /\ roots'[1] = roots[1]
    <3>1. CASE UNCHANGED roots
      BY <1>3, <3>1
    <3>2. CASE roots' = Append(roots, EmptyIndex)
      <4>1. PICK e : e = EmptyIndex
        OBVIOUS
      <4>2. Len(roots') = Len(roots) + 1 /\ roots'[1] = roots[1]
        BY <2>1, <3>2, <4>1
      <4> QED BY <2>1, <4>2
    <3> QED BY <3>1, <3>2
  <2>3. ASSUME NEW k \in Keys
        PROVE  roots[1].entries[k] = 0 \/ roots[1].entries[k] \in 1..Len(files)
    <3>1. roots[1].entries \in [Keys -> 0..Len(files)] /\ Len(files) \in Nat
      <4>1. roots[1] \in [etag : Nat, entries : Entries]
        BY <1>3, FirstIndex
      <4>2. Len(files) \in Nat
        BY DEF TypeOK
      <4> QED BY <4>1, <4>2 DEF Entries
    <3> QED BY <3>1
  <2>4. View(roots', files') = View(roots, files)
    BY <1>3, <2>2, <2>3 DEF View
  <2> QED BY <1>1, <2>4
<1> QED BY <1>2, <1>3

\* An entry of an index reads as an object.
LEMMA ContentsAreHeld ==
  ASSUME DriveAssumption, TypeOK, NEW x \in Index
  PROVE  \A k \in Keys : x.entries[k] # 0 => files[x.entries[k]].content # None
<1>1. x.entries \in [Keys -> 0..Len(files)] /\ files \in Seq(File) /\ Len(files) \in Nat
  BY DEF TypeOK, Index, Entries
<1>2. ASSUME NEW f \in 1..Len(files)
      PROVE  files[f].content \in Contents
  <2>1. files[f] \in File
    BY <1>1
  <2> QED BY <2>1 DEF File
<1> QED BY <1>1, <1>2 DEF DriveAssumption

\* A rewrite that applies request r to the index applies it to the objects.
LEMMA ObjectsApply ==
  ASSUME DriveAssumption, TypeOK, DriveInv, DriveInv', NEW r \in Store!Requests, r.op # "sweep",
         NEW x \in Index, NEW e \in Entries, Seen(roots, x), Found(files, r, x),
         Applied(files, r, x, e), x.entries = roots[1].entries, roots' # << >>,
         roots'[1].entries = e, UNCHANGED files
  PROVE  Store!Apply(r)
<1>1. roots # << >> /\ RequestKeys(r)
  BY RequestFacts DEF Seen
<1>2. \A k \in Keys : ObjectsRead[k] = IF x.entries[k] = 0 THEN None ELSE files[x.entries[k]].content
  BY <1>1, ReadAs DEF View
<1>3. ObjectsRead' = [k \in Keys |-> IF e[k] = 0 THEN None ELSE files[e[k]].content]
  BY ReadAsNext DEF View
<1>4. \A k \in Keys : x.entries[k] # 0 => files[x.entries[k]].content # None
  BY ContentsAreHeld
<1>5. Store!Applies(r)
  BY <1>1, <1>2, <1>4 DEF Store!Applies, Found, RequestKeys
<1>6. ASSUME NEW k \in Keys
      PROVE  (IF e[k] = 0 THEN None ELSE files[e[k]].content)
               = IF k \in r.keys THEN r.content ELSE ObjectsRead[k]
  BY <1>1, <1>2 DEF Applied, RequestKeys
<1>7. ObjectsRead' = [k \in Keys |-> IF k \in r.keys THEN r.content ELSE ObjectsRead[k]]
  BY <1>3, <1>6
<1> QED BY <1>5, <1>7 DEF Store!Apply

LEMMA OutcomeMoves ==
  ASSUME Maps, NEW p \in Pages, CallMoved(p)
  PROVE  /\ Outcomes' = [Outcomes EXCEPT ![p] = Outcome(request'[p], out'[p], pc'[p])]
         /\ Outcomes[p] = Outcome(request[p], out[p], pc[p])
         /\ Outcomes = [Outcomes EXCEPT ![p] = Outcome(request[p], out[p], pc[p])]
         /\ request' = [request EXCEPT ![p] = request'[p]]
         /\ request = [request EXCEPT ![p] = request[p]]
<1>1. /\ Outcomes = [q \in Pages |-> Outcome(request[q], out[q], pc[q])]
      /\ Outcomes' = [q \in Pages |-> Outcome(request'[q], out'[q], pc'[q])]
  BY DEF Outcomes, Outcome
<1>2. \A q \in Pages \ {p} : request'[q] = request[q] /\ out'[q] = out[q] /\ pc'[q] = pc[q]
  BY DEF CallMoved, CallStays
<1>3. request = [q \in Pages |-> request[q]] /\ request' = [q \in Pages |-> request'[q]]
  BY DEF Maps, CallMaps, CallMoved
<1> QED BY <1>1, <1>2, <1>3

LEMMA LateMoves ==
  ASSUME Maps, NEW p \in Pages, WireMoved(p)
  PROVE  /\ LateRequests' = [LateRequests EXCEPT ![p] = wire'[p].request]
         /\ LateRequests[p] = wire[p].request
         /\ wire'[p] = wire[p] => LateRequests' = LateRequests
<1>1. \A q \in Pages \ {p} : wire'[q] = wire[q]
  BY DEF WireMoved, WireStays
<1> QED BY <1>1 DEF LateRequests
\* What a page is seen to do: nothing, or its call ends.
SeenStill(p) ==
  /\ CallMoved(p) /\ WireMoved(p) /\ wire'[p] = wire[p] /\ request'[p] = request[p]
  /\ ObjectsRead' = ObjectsRead
  /\ Outcome(request'[p], out'[p], pc'[p]) = Outcome(request[p], out[p], pc[p])
SeenEnding(p, a) ==
  /\ Settle(p, a) /\ pc[p] # "idle" /\ CallInv(p)
  /\ WireMoved(p) /\ wire'[p] = wire[p] /\ ObjectsRead' = ObjectsRead

LEMMA StillStutters ==
  ASSUME Maps, NEW p \in Pages, SeenStill(p)
  PROVE  UNCHANGED Store!vars
<1>1. Outcomes' = Outcomes /\ request' = request
  BY OutcomeMoves DEF SeenStill
<1>2. LateRequests' = LateRequests
  BY LateMoves DEF SeenStill
<1> QED BY <1>1, <1>2 DEF Store!vars, SeenStill

\* The outcomes around the end of a call.
LEMMA EndingOutcomes ==
  ASSUME Maps, NEW p \in Pages, NEW a, SeenEnding(p, a)
  PROVE  /\ Outcomes' = [Outcomes EXCEPT ![p] = a] /\ request' = request
         /\ LateRequests' = LateRequests
         /\ Outcomes[p] = IF pc[p] = "patch" /\ request[p].op = "trash" THEN "removed" ELSE "pending"
<1>1. CallMoved(p) /\ Settled(p, a)
  BY SettleValues DEF SeenEnding
<1>2. Outcome(request'[p], out'[p], pc'[p]) = a /\ request'[p] = request[p]
  BY <1>1 DEF Outcome, Settled
<1>3. Outcomes' = [Outcomes EXCEPT ![p] = a] /\ request' = request
  BY <1>1, <1>2, OutcomeMoves
<1>4. LateRequests' = LateRequests
  BY LateMoves DEF SeenEnding
<1>5. Outcomes[p] = Outcome(request[p], out[p], pc[p]) /\ out[p] = "pending"
  BY <1>1, OutcomeMoves DEF SeenEnding, CallInv
<1> QED BY <1>3, <1>4, <1>5 DEF Outcome

LEMMA FailureIsTold ==
  ASSUME Maps, NEW p \in Pages, SeenEnding(p, "failed")
  PROVE  Store!Next
<1>1. /\ Outcomes[p] \in {"pending", "removed"} /\ Outcomes' = [Outcomes EXCEPT ![p] = "failed"]
      /\ request' = request /\ ObjectsRead' = ObjectsRead /\ LateRequests' = LateRequests
  BY EndingOutcomes DEF SeenEnding
<1>2. Store!Fail(p)
  BY <1>1 DEF Store!Fail
<1> QED BY <1>2 DEF Store!Next

\* There is nothing to remove, or a trash call has removed its last body.
LEMMA NothingIsLeft ==
  ASSUME Maps, NEW p \in Pages, SeenEnding(p, "removed"), request[p].op \in {"trash", "sweep"},
         pc[p] # "patch" \/ request[p].op = "sweep" => \A k \in request[p].keys : ObjectsRead[k] = None
  PROVE  [Store!Next]_(Store!vars)
<1>1. /\ Outcomes' = [Outcomes EXCEPT ![p] = "removed"] /\ request' = request
      /\ LateRequests' = LateRequests /\ ObjectsRead' = ObjectsRead
      /\ Outcomes[p] = IF pc[p] = "patch" /\ request[p].op = "trash" THEN "removed" ELSE "pending"
  BY EndingOutcomes DEF SeenEnding
<1>2. CASE pc[p] = "patch" /\ request[p].op = "trash"
  <2>1. Outcomes = [q \in Pages |-> Outcomes[q]]
    BY DEF Outcomes
  <2>2. Outcomes' = Outcomes
    BY <1>1, <1>2, <2>1
  <2> QED BY <1>1, <2>2 DEF Store!vars
<1>3. CASE ~(pc[p] = "patch" /\ request[p].op = "trash")
  <2>1. Outcomes[p] = "pending" /\ \A k \in request[p].keys : ObjectsRead[k] = None
    BY <1>1, <1>3
  <2>2. Store!Nothing(p)
    BY <1>1, <2>1 DEF Store!Nothing
  <2> QED BY <2>2 DEF Store!Next
<1> QED BY <1>2, <1>3

\* A refusal that tells the truth about key k.
LEMMA RefusalIsTrue ==
  ASSUME Maps, NEW p \in Pages, NEW k \in request[p].keys, pc[p] # "patch",
         NEW a \in {"exists", "missing", "mismatch"}, SeenEnding(p, a),
         a = "exists" => request[p].op = "put" /\ ObjectsRead[k] # None,
         a = "missing" => request[p].op = "cas" /\ ObjectsRead[k] = None,
         a = "mismatch" => request[p].op = "cas" /\ ObjectsRead[k] \notin {None, request[p].expected}
  PROVE  Store!Next
<1>1. /\ Outcomes[p] = "pending" /\ Outcomes' = [Outcomes EXCEPT ![p] = a]
      /\ request' = request /\ ObjectsRead' = ObjectsRead /\ LateRequests' = LateRequests
  BY EndingOutcomes DEF SeenEnding
<1>2. Store!Refuse(p)
  <2>1. CASE a = "exists"
    BY <1>1, <2>1 DEF Store!Refuse
  <2>2. CASE a = "missing"
    BY <1>1, <2>2 DEF Store!Refuse
  <2>3. CASE a = "mismatch"
    BY <1>1, <2>3 DEF Store!Refuse
  <2> QED BY <2>1, <2>2, <2>3
<1> QED BY <1>2 DEF Store!Next
\* A step of the store is one the contract allows.
Contract == SpentRefusal \/ [Store!Next]_(Store!vars)

LEMMA PageFacts ==
  ASSUME DriveInv, NEW p \in Pages
  PROVE  TypeOK /\ Maps /\ CallTyped(p) /\ CallInv(p) /\ WireTyped(p) /\ WireInv(p)
BY TypesByPage DEF DriveInv, PagesInv, PageInv, TypedByPage, PageTyped

LEMMA GainsShowNothing ==
  ASSUME DriveInv, DriveInv', FolderGains
  PROVE  ObjectsRead' = ObjectsRead
<1>1. TypeOK
  BY DEF DriveInv, PagesInv
<1> QED BY <1>1, ObjectsStay DEF FolderGains

\* A step that leaves the call alone, or in which it fails, shows no more than that.
LEMMA QuietContract ==
  ASSUME DriveInv, DriveInv', FolderGains, NEW p \in Pages, UNCHANGED <<wire, acked>>,
         UNCHANGED callVars \/ (Settle(p, "failed") /\ pc[p] # "idle")
  PROVE  Contract
<1>1. Maps /\ CallInv(p) /\ ObjectsRead' = ObjectsRead
  BY PageFacts, GainsShowNothing
<1>2. WireMoved(p) /\ wire'[p] = wire[p]
  BY <1>1, Same DEF WireStays
<1>3. CASE UNCHANGED callVars
  <2>1. CallMoved(p) /\ CallStays(p)
    BY <1>1, <1>3, Same
  <2>2. SeenStill(p)
    BY <1>1, <1>2, <2>1 DEF SeenStill, CallStays
  <2> QED BY <1>1, <2>2, StillStutters DEF Contract
<1>4. CASE Settle(p, "failed") /\ pc[p] # "idle"
  BY <1>1, <1>2, <1>4, FailureIsTold DEF SeenEnding, Contract
<1> QED BY <1>3, <1>4

LEMMA LoadContract ==
  ASSUME DriveInv, DriveInv', NEW p \in Pages, NEW s \in {"call", "fill"},
         List(p, s) \/ CreateIndex(p, s) \/ LoadThrows(p, s)
  PROVE  Contract
<1>1. FolderGains /\ UNCHANGED <<wire, acked>>
  BY DEF List, CreateIndex, LoadThrows, FolderGains
<1>2. loads[p][s] # NoLoad
  BY DEF List, CreateIndex, LoadThrows, NoLoad
<1>3. UNCHANGED callVars \/ (s = "call" /\ Settle(p, "failed"))
  BY DEF List, CreateIndex, LoadThrows, LoadFails
<1>4. s = "call" => pc[p] # "idle"
  BY <1>2, PageFacts DEF CallInv
<1> QED BY <1>1, <1>3, <1>4, QuietContract

LEMMA ReadContract ==
  ASSUME DriveInv, DriveInv', NEW p \in Pages,
         \/ \E k \in Keys : Get(p, k)
         \/ FillAnswered(p) \/ Filled(p) \/ GetEnds(p) \/ Expire(p) \/ Close(p)
  PROVE  Contract
<1>1. FolderGains /\ UNCHANGED <<wire, acked>>
  BY DEF Get, FillAnswered, Filled, GetEnds, Expire, Close, FolderGains
<1>2. UNCHANGED callVars \/ (out[p] = "pending" /\ Settle(p, "failed"))
  BY DEF Get, FillAnswered, Filled, GetEnds, Expire, Close
<1>3. out[p] = "pending" => pc[p] # "idle"
  BY PageFacts DEF CallInv
<1> QED BY <1>1, <1>2, <1>3, QuietContract

LEMMA InvokeContract ==
  ASSUME DriveAssumption, DriveInv, DriveInv', NEW p \in Pages, NEW r \in Operations, Invoke(p, r)
  PROVE  Contract
<1>1. Maps /\ CallInv(p) /\ FolderGains
  BY PageFacts DEF Invoke, FolderGains
<1>2. ObjectsRead' = ObjectsRead /\ WireMoved(p) /\ wire'[p] = wire[p]
  BY <1>1, GainsShowNothing, Same DEF Invoke, WireStays
<1>3. CallMoved(p) /\ request'[p] = r /\ out'[p] = "pending" /\ pc'[p] = "load"
  BY <1>1 DEF Maps, CallMaps, CallMoved, CallStays, Invoke, Goto
<1>4. out[p] # "pending" /\ pc[p] = "idle" /\ r \in Store!Requests
  BY <1>1 DEF Invoke, CallInv, DriveAssumption
<1>5. Outcomes[p] # "pending" /\ Outcomes' = [Outcomes EXCEPT ![p] = "pending"]
  BY <1>1, <1>3, <1>4, OutcomeMoves DEF Outcome
<1>6. request' = [request EXCEPT ![p] = r] /\ LateRequests' = LateRequests
  BY <1>1, <1>2, LateMoves DEF Invoke
<1>7. Store!Invoke(p)
  BY <1>2, <1>4, <1>5, <1>6 DEF Store!Invoke
<1> QED BY <1>7 DEF Store!Next, Contract

LEMMA UploadContract ==
  ASSUME DriveInv, DriveInv', NEW p \in Pages, Upload(p) \/ UploadThrows(p)
  PROVE  Contract
<1>1. Maps /\ CallInv(p) /\ TypeOK
  BY PageFacts
<1>2. \A f \in 1..Len(files) : Append(files, NewFile(p))[f] = files[f]
  BY <1>1 DEF TypeOK
<1>3. FolderGains /\ UNCHANGED <<wire, acked>>
  BY <1>2 DEF Upload, UploadThrows, FolderGains
<1>4. CASE UploadThrows(p)
  BY <1>3, <1>4, QuietContract DEF UploadThrows
<1>5. CASE Upload(p)
  <2>1. /\ CallMoved(p) /\ request'[p] = request[p] /\ out'[p] = out[p] /\ pc'[p] = "advance"
        /\ pc[p] = "upload"
    BY <1>1, <1>5 DEF Maps, CallMaps, CallMoved, CallStays, Upload, Goto
  <2>2. ObjectsRead' = ObjectsRead /\ WireMoved(p) /\ wire'[p] = wire[p]
    BY <1>1, <1>3, GainsShowNothing, Same DEF WireStays
  <2>3. SeenStill(p)
    BY <2>1, <2>2 DEF SeenStill, Outcome
  <2> QED BY <1>1, <2>3, StillStutters DEF Contract
<1> QED BY <1>4, <1>5

LEMMA QueryContract ==
  ASSUME DriveInv, DriveInv', NEW p \in Pages, Query(p)
  PROVE  Contract
<1>1. Maps /\ CallInv(p) /\ FolderGains /\ pc[p] = "query" /\ UNCHANGED <<wire, acked>>
  BY PageFacts DEF Query, FolderGains
<1>2. ObjectsRead' = ObjectsRead /\ WireMoved(p) /\ wire'[p] = wire[p]
  BY <1>1, GainsShowNothing, Same DEF WireStays
<1>3. request[p].op = "sweep" /\ request[p].keys = {}
  BY <1>1, RequestFacts DEF CallInv, RequestKeys
<1>4. \/ Settle(p, "removed")
      \/ Goto(p, "recheck") /\ UNCHANGED <<request, out, tries, loaded, mine>>
         /\ \E found : todo' = [todo EXCEPT ![p] = found]
  BY DEF Query
<1>5. CASE Settle(p, "removed")
  <2>1. SeenEnding(p, "removed")
    BY <1>1, <1>2, <1>5 DEF SeenEnding
  <2> QED BY <1>1, <1>3, <2>1, NothingIsLeft DEF Contract
<1>6. ASSUME Goto(p, "recheck"), UNCHANGED <<request, out, tries, loaded, mine>>,
             NEW found, todo' = [todo EXCEPT ![p] = found]
      PROVE  Contract
  <2>1. CallMoved(p) /\ request'[p] = request[p] /\ out'[p] = out[p] /\ pc'[p] = "recheck"
    BY <1>1, <1>6 DEF Maps, CallMaps, CallMoved, CallStays, Goto
  <2>2. SeenStill(p)
    BY <1>1, <1>2, <2>1 DEF SeenStill, Outcome
  <2> QED BY <1>1, <2>2, StillStutters DEF Contract
<1> QED BY <1>4, <1>5, <1>6

LEMMA PatchContract ==
  ASSUME DriveAssumption, DriveInv, DriveInv', NEW p \in Pages, NEW f \in todo[p], Patch(p, f)
  PROVE  Contract
<1>1. TypeOK /\ Maps /\ CallInv(p) /\ pc[p] = "patch" /\ UNCHANGED <<roots, wire, acked>>
  BY PageFacts DEF Patch
<1>2. Kept(files, files')
  BY <1>1, PatchGrows DEF Grows
<1>3. ObjectsRead' = ObjectsRead /\ WireMoved(p) /\ wire'[p] = wire[p]
  BY <1>1, <1>2, ObjectsStay, Same DEF WireStays, Kept
<1>4. request[p].op \in {"trash", "sweep"} /\ (request[p].op = "sweep" => request[p].keys = {})
  BY <1>1, RequestFacts DEF CallInv, RequestKeys
<1>5. CASE todo[p] = {f}
  <2>1. SeenEnding(p, "removed")
    BY <1>1, <1>3, <1>5 DEF SeenEnding, Patch
  <2> QED BY <1>1, <1>4, <2>1, NothingIsLeft DEF Contract
<1>6. CASE todo[p] # {f}
  <2>1. /\ CallMoved(p) /\ request'[p] = request[p] /\ out'[p] = out[p] /\ pc'[p] = pc[p]
    BY <1>1, <1>6 DEF Maps, CallMaps, CallMoved, CallStays, Patch
  <2>2. SeenStill(p)
    BY <1>3, <2>1 DEF SeenStill
  <2> QED BY <1>1, <2>2, StillStutters DEF Contract
<1> QED BY <1>5, <1>6

LEMMA AgeContract ==
  ASSUME DriveAssumption, DriveInv, DriveInv', NEW f \in 1..Len(files), Age(f)
  PROVE  Contract
<1>1. TypeOK /\ UNCHANGED <<roots, request, out, pc, wire>>
  BY DEF DriveInv, PagesInv, Age, callVars
<1>2. Kept(files, files')
  BY <1>1, AgeGrows DEF Grows
<1>3. ObjectsRead' = ObjectsRead
  BY <1>1, <1>2, ObjectsStay DEF Kept
<1>4. Outcomes' = Outcomes /\ LateRequests' = LateRequests
  BY <1>1 DEF Outcomes, LateRequests
<1> QED BY <1>1, <1>3, <1>4 DEF Store!vars, Contract
\* What a call answers from the index it has just downloaded is true of the objects.
LEMMA DownloadContract ==
  ASSUME DriveAssumption, DriveInv, DriveInv', NEW p \in Pages, Download(p)
  PROVE  Contract
<1>1. TypeOK /\ Maps /\ CallTyped(p) /\ CallInv(p) /\ FolderGains /\ UNCHANGED <<wire, acked>>
  BY PageFacts DEF Download, FolderGains
<1>2. ObjectsRead' = ObjectsRead /\ WireMoved(p) /\ wire'[p] = wire[p]
  BY <1>1, GainsShowNothing, Same DEF WireStays
<1>3. loads[p].call.at = "download" /\ loads[p].call # NoLoad
  BY DEF Download, NoLoad
<1>4. PICK x \in Index :
        /\ x = Downloaded(p, "call") /\ Seen(roots, x) /\ x.entries = roots[1].entries
        /\ roots # << >>
  BY <1>1, <1>3, DownloadedIndex DEF CallInv
<1>5. /\ pc[p] \in {"load", "final", "recheck"} /\ request[p] \in Store!Requests
      /\ RequestKeys(request[p])
  BY <1>1, <1>3, RequestFacts DEF CallInv
<1>6. ASSUME NEW a, Settle(p, a)
      PROVE  SeenEnding(p, a)
  BY <1>1, <1>2, <1>5, <1>6 DEF SeenEnding
<1>7. \A k \in Keys : ObjectsRead[k] = IF x.entries[k] = 0 THEN None ELSE files[x.entries[k]].content
  BY <1>4, ReadAs DEF View
<1>8. \A k \in Keys : x.entries[k] # 0 => files[x.entries[k]].content # None
  BY <1>1, ContentsAreHeld
<1>9. ASSUME NEW label \in {"upload", "advance", "query"}, pc[p] = "load", Continue(p, label, x)
      PROVE  Contract
  <2>1. /\ CallMoved(p) /\ request'[p] = request[p] /\ out'[p] = out[p] /\ pc'[p] = label
    BY <1>1, <1>9 DEF Maps, CallMaps, CallMoved, CallStays, Continue, Goto
  <2>2. SeenStill(p)
    BY <1>2, <1>9, <2>1 DEF SeenStill, Outcome
  <2> QED BY <1>1, <2>2, StillStutters DEF Contract
<1>10. ASSUME SeenEnding(p, "failed")
       PROVE  Contract
  BY <1>1, <1>10, FailureIsTold DEF Contract
<1>11. CASE PutLoaded(p, x)
  <2>1. CASE \E k \in request[p].keys : x.entries[k] # 0
    <3>1. PICK k \in request[p].keys : x.entries[k] # 0
      BY <2>1
    <3>2. ObjectsRead[k] # None /\ request[p].op = "put" /\ SeenEnding(p, "exists")
      BY <1>5, <1>6, <1>7, <1>8, <1>11, <2>1, <3>1 DEF RequestKeys, PutLoaded
    <3> QED BY <1>1, <1>5, <3>2, RefusalIsTrue DEF Contract
  <2>2. CASE ~\E k \in request[p].keys : x.entries[k] # 0
    BY <1>6, <1>9, <1>10, <1>11, <2>2 DEF PutLoaded
  <2> QED BY <2>1, <2>2
<1>12. CASE CasLoaded(p, x)
  <2>1. PICK k \in request[p].keys :
          IF x.entries[k] = 0 THEN Settle(p, "missing")
          ELSE IF Content(x.entries[k]) # request[p].expected THEN Settle(p, "mismatch")
          ELSE Continue(p, "upload", x)
    BY <1>12 DEF CasLoaded
  <2>2. request[p].op = "cas" /\ pc[p] = "load" /\ k \in Keys
    BY <1>5, <1>12 DEF CasLoaded, RequestKeys
  <2>3. CASE x.entries[k] = 0
    <3>1. SeenEnding(p, "missing") /\ ObjectsRead[k] = None
      BY <1>6, <1>7, <2>1, <2>2, <2>3
    <3> QED BY <1>1, <1>5, <2>2, <3>1, RefusalIsTrue DEF Contract
  <2>4. CASE x.entries[k] # 0 /\ Content(x.entries[k]) # request[p].expected
    <3>1. SeenEnding(p, "mismatch") /\ ObjectsRead[k] \notin {None, request[p].expected}
      BY <1>6, <1>7, <1>8, <2>1, <2>2, <2>4 DEF Content
    <3> QED BY <1>1, <1>5, <2>2, <3>1, RefusalIsTrue DEF Contract
  <2>5. CASE x.entries[k] # 0 /\ Content(x.entries[k]) = request[p].expected
    BY <1>9, <2>1, <2>2, <2>5
  <2> QED BY <2>3, <2>4, <2>5
<1>13. CASE CasSpent(p, x)
  <2>1. PICK k \in request[p].keys :
          Settle(p, IF x.entries[k] = 0 THEN "missing" ELSE "mismatch")
    BY <1>13 DEF CasSpent
  <2>2. pc[p] = "final" /\ request[p].op = "cas" /\ k \in Keys
    BY <1>1, <1>5, <1>13 DEF CasSpent, CallInv, RequestKeys
  <2>3. CASE x.entries[k] = 0
    <3>1. SeenEnding(p, "missing") /\ ObjectsRead[k] = None
      BY <1>6, <1>7, <2>1, <2>2, <2>3
    <3> QED BY <1>1, <1>5, <2>2, <3>1, RefusalIsTrue DEF Contract
  <2>4. CASE x.entries[k] # 0
    <3>1. out'[p] = "mismatch"
      BY <1>1, <2>1, <2>4, SettleValues DEF Settled
    <3> QED BY <2>2, <3>1 DEF SpentRefusal, Contract
  <2> QED BY <2>3, <2>4
<1>14. CASE TrashLoaded(p, x)
  <2>1. CASE \A k \in request[p].keys : x.entries[k] = 0
    <3>1. /\ request[p].op = "trash" /\ SeenEnding(p, "removed")
          /\ \A k \in request[p].keys : ObjectsRead[k] = None
      BY <1>5, <1>6, <1>7, <1>14, <2>1 DEF RequestKeys, TrashLoaded
    <3> QED BY <1>1, <3>1, NothingIsLeft DEF Contract
  <2>2. CASE ~\A k \in request[p].keys : x.entries[k] = 0
    BY <1>9, <1>14, <2>2 DEF TrashLoaded
  <2> QED BY <2>1, <2>2
<1>15. CASE SweepLoaded(p, x)
  <2>1. request[p].op = "sweep" /\ request[p].keys = {}
    BY <1>5, <1>15 DEF SweepLoaded, RequestKeys
  <2>2. CASE pc[p] = "load"
    BY <1>9, <1>15, <2>2 DEF SweepLoaded
  <2>3. CASE pc[p] # "load" /\ Settle(p, "removed")
    BY <1>1, <1>6, <2>1, <2>3, NothingIsLeft DEF Contract
  <2>4. CASE /\ pc[p] # "load" /\ Goto(p, "patch")
             /\ UNCHANGED <<request, out, tries, loaded, mine>>
             /\ \E rest : todo' = [todo EXCEPT ![p] = rest]
    <3>1. PICK rest : todo' = [todo EXCEPT ![p] = rest]
      BY <2>4
    <3>2. /\ CallMoved(p) /\ request'[p] = request[p] /\ out'[p] = out[p] /\ pc'[p] = "patch"
      BY <1>1, <2>4, <3>1 DEF Maps, CallMaps, CallMoved, CallStays, Goto
    <3>3. SeenStill(p)
      BY <1>2, <2>1, <3>2 DEF SeenStill, Outcome
    <3> QED BY <1>1, <3>3, StillStutters DEF Contract
  <2> QED BY <1>15, <2>2, <2>3, <2>4 DEF SweepLoaded
<1> QED BY <1>4, <1>11, <1>12, <1>13, <1>14, <1>15 DEF Download

\* The rewrite of an open call that Drive applies.
LEMMA CallApplies ==
  ASSUME DriveAssumption, DriveInv, DriveInv', NEW p \in Pages, pc[p] = "advance", UNCHANGED files,
         UsedTyped(used'), Matches(loaded[p]), Rewrite(loaded[p], NextEntries(p))
  PROVE  Store!Apply(request[p])
<1>1. TypeOK /\ CallTyped(p) /\ CallInv(p)
  BY PageFacts
<1>2. /\ NextEntries(p) \in Entries /\ loaded[p] \in Index /\ Seen(roots, loaded[p])
      /\ Found(files, request[p], loaded[p]) /\ Applied(files, request[p], loaded[p], NextEntries(p))
      /\ request[p] \in Store!Requests /\ request[p].op # "sweep"
  BY <1>1, Rewriting
<1>3. PICK r \in Store!Requests, x \in Index, e \in Entries :
        r = request[p] /\ x = loaded[p] /\ e = NextEntries(p)
  BY <1>2
<1>4. /\ Seen(roots, x) /\ Found(files, r, x) /\ Applied(files, r, x, e) /\ r.op # "sweep"
      /\ Matches(x) /\ Rewrite(x, e)
  BY <1>2, <1>3
<1>5. /\ x.entries = roots[1].entries /\ roots' # << >>
      /\ roots'[1] = [etag |-> roots[1].etag + 1, entries |-> e]
  BY <1>1, <1>4, IndexRewritten
<1>6. roots'[1].entries = e
  BY <1>5
<1>7. Store!Apply(r)
  BY <1>1, <1>4, <1>5, <1>6, ObjectsApply
<1> QED BY <1>3, <1>7

LEMMA AdvanceContract ==
  ASSUME DriveAssumption, DriveInv, DriveInv', NEW p \in Pages, Advance(p)
  PROVE  Contract
<1>1. /\ TypeOK /\ Maps /\ CallTyped(p) /\ CallInv(p) /\ pc[p] = "advance"
      /\ UNCHANGED <<files, wire, used>> /\ UsedTyped(used')
  BY PageFacts, FaultTyped DEF Advance
<1>2. out[p] = "pending" /\ request[p].op \in {"put", "cas", "trash"}
  BY <1>1 DEF CallInv
<1>3. CASE Matches(loaded[p])
  <2>1. Rewrite(loaded[p], NextEntries(p)) /\ Committed(p)
    BY <1>3 DEF Advance
  <2>2. Store!Apply(request[p])
    BY <1>1, <1>3, <2>1, CallApplies
  <2>3. /\ CallMoved(p) /\ request'[p] = request[p]
        /\ Outcome(request'[p], out'[p], pc'[p]) = Store!Answers(request[p])
    <3>1. CASE request[p].op = "trash"
      <4>1. PICK T : T = {loaded[p].entries[k] : k \in request[p].keys} \ {0}
        OBVIOUS
      <4>2. CallMoved(p) /\ request'[p] = request[p] /\ pc'[p] = "patch"
        BY <1>1, <2>1, <3>1, <4>1 DEF Committed, Maps, CallMaps, CallMoved, CallStays, Goto
      <4> QED BY <3>1, <4>2 DEF Outcome, Store!Answers
    <3>2. CASE request[p].op # "trash"
      <4>1. PICK a : a = IF request[p].op = "put" THEN "created" ELSE "updated"
        OBVIOUS
      <4>2. CallMoved(p) /\ Settled(p, a)
        BY <1>1, <2>1, <3>2, <4>1, SettleValues DEF Committed
      <4> QED BY <1>2, <3>2, <4>1, <4>2 DEF Outcome, Settled, Store!Answers
    <3> QED BY <3>1, <3>2
  <2>4. /\ Outcomes[p] = "pending" /\ request' = request
        /\ Outcomes' = [Outcomes EXCEPT ![p] = Store!Answers(request[p])]
    BY <1>1, <1>2, <2>3, OutcomeMoves DEF Outcome
  <2>5. LateRequests' = LateRequests
    BY <1>1 DEF LateRequests
  <2>6. Store!Take(p)
    BY <2>2, <2>4, <2>5 DEF Store!Take
  <2> QED BY <2>6 DEF Store!Next, Contract
<1>4. CASE ~Matches(loaded[p])
  <2>1. Lost(p) /\ FolderGains /\ UNCHANGED <<wire, acked>>
    BY <1>4 DEF Advance, FolderGains
  <2>2. CASE tries[p] + 1 < MaxCasAttempts \/ request[p].op = "cas"
    <3>1. PICK label \in {"load", "final"} :
            label = IF tries[p] + 1 < MaxCasAttempts THEN "load" ELSE "final"
      OBVIOUS
    <3>2. CallMoved(p) /\ request'[p] = request[p] /\ out'[p] = out[p] /\ pc'[p] = label
      BY <1>1, <2>1, <2>2, <3>1 DEF Lost, Maps, CallMaps, CallMoved, CallStays, Goto
    <3>3. ObjectsRead' = ObjectsRead /\ WireMoved(p) /\ wire'[p] = wire[p]
      BY <1>1, <2>1, GainsShowNothing, Same DEF WireStays
    <3>4. SeenStill(p)
      BY <1>1, <3>1, <3>2, <3>3 DEF SeenStill, Outcome
    <3> QED BY <1>1, <3>4, StillStutters DEF Contract
  <2>3. CASE ~(tries[p] + 1 < MaxCasAttempts \/ request[p].op = "cas")
    <3>1. Settle(p, "failed")
      BY <2>1, <2>3 DEF Lost
    <3> QED BY <1>1, <2>1, <3>1, QuietContract
  <2> QED BY <2>2, <2>3
<1> QED BY <1>3, <1>4

LEMMA AdvanceThrowsContract ==
  ASSUME DriveAssumption, DriveInv, DriveInv', NEW p \in Pages, AdvanceThrows(p)
  PROVE  Contract
<1>1. /\ TypeOK /\ Maps /\ CallTyped(p) /\ CallInv(p) /\ pc[p] = "advance"
      /\ UNCHANGED <<files, acked>> /\ UsedTyped(used') /\ Settle(p, "failed")
  BY PageFacts, FaultTyped DEF AdvanceThrows
<1>2. out[p] = "pending" /\ CallMoved(p) /\ Settled(p, "failed")
  BY <1>1, SettleValues DEF CallInv
<1>3. /\ Outcomes[p] = "pending" /\ Outcomes' = [Outcomes EXCEPT ![p] = "failed"]
      /\ request' = request
  BY <1>1, <1>2, OutcomeMoves DEF Outcome, Settled
<1>4. CASE UNCHANGED <<roots, wire>>
  BY <1>1, <1>4, QuietContract DEF FolderGains
<1>5. CASE UNCHANGED wire /\ Matches(loaded[p]) /\ Rewrite(loaded[p], NextEntries(p))
  <2>1. Store!Apply(request[p])
    BY <1>1, <1>5, CallApplies
  <2>2. LateRequests' = LateRequests
    BY <1>5 DEF LateRequests
  <2>3. Store!Fail(p)
    BY <1>3, <2>1, <2>2 DEF Store!Fail
  <2> QED BY <2>3 DEF Store!Next, Contract
<1>6. ASSUME UNCHANGED roots,
             wire' = [wire EXCEPT ![p] = [request |-> request[p], loaded |-> loaded[p],
                                          entries |-> NextEntries(p)]]
      PROVE  Contract
  <2>1. ObjectsRead' = ObjectsRead
    BY <1>1, <1>6, GainsShowNothing DEF FolderGains
  <2>2. WireMoved(p) /\ wire'[p].request = request[p]
    BY <1>1, <1>6 DEF Maps, WireMaps, WireMoved, WireStays
  <2>3. LateRequests' = [LateRequests EXCEPT ![p] = request[p]]
    BY <1>1, <2>2, LateMoves
  <2>4. Store!Fail(p)
    BY <1>3, <2>1, <2>3 DEF Store!Fail
  <2> QED BY <2>4 DEF Store!Next, Contract
<1> QED BY <1>4, <1>5, <1>6 DEF AdvanceThrows

LEMMA ArriveContract ==
  ASSUME DriveAssumption, DriveInv, DriveInv', NEW p \in Pages, Arrive(p)
  PROVE  Contract
<1>1. /\ TypeOK /\ Maps /\ WireTyped(p) /\ WireInv(p) /\ wire[p] # NoWire
      /\ UNCHANGED <<files, callVars, acked, used>> /\ UsedTyped(used')
  BY PageFacts, FaultTyped DEF Arrive
<1>2. Outcomes' = Outcomes /\ request' = request
  BY <1>1 DEF Outcomes, callVars
<1>3. WireMoved(p) /\ wire'[p] = NoWire
  BY <1>1 DEF Arrive, Maps, WireMaps, WireMoved, WireStays
<1>4. PICK r \in Store!Requests, x \in Index, e \in Entries :
        r = wire[p].request /\ x = wire[p].loaded /\ e = wire[p].entries
  BY <1>1 DEF WireTyped, Wires, WireInv
<1>5. /\ Seen(roots, x) /\ Found(files, r, x) /\ Applied(files, r, x, e) /\ r.op # "sweep"
      /\ r # NoRequest
  BY <1>1, <1>4, RequestFacts DEF WireInv
<1>6. LateRequests[p] = r /\ LateRequests' = [LateRequests EXCEPT ![p] = NoRequest]
  BY <1>1, <1>3, <1>4, LateMoves DEF NoWire
<1>7. Store!Apply(r) \/ ObjectsRead' = ObjectsRead
  <2>1. CASE UNCHANGED roots
    BY <1>1, <2>1, GainsShowNothing DEF FolderGains
  <2>2. CASE Matches(x) /\ Rewrite(x, e)
    <3>1. /\ x.entries = roots[1].entries /\ roots' # << >>
          /\ roots'[1] = [etag |-> roots[1].etag + 1, entries |-> e]
      BY <1>1, <1>5, <2>2, IndexRewritten
    <3>2. roots'[1].entries = e
      BY <3>1
    <3> QED BY <1>1, <1>5, <3>1, <3>2, ObjectsApply
  <2> QED BY <1>4, <2>1, <2>2 DEF Arrive
<1>8. Store!Arrive(p)
  BY <1>2, <1>5, <1>6, <1>7 DEF Store!Arrive, NoRequest
<1> QED BY <1>8 DEF Store!Next, Contract
LEMMA InitContract ==
  ASSUME Init
  PROVE  Store!Init
<1>1. roots = << >> \/ (roots = <<EmptyIndex>> /\ roots # << >> /\ roots[1] = EmptyIndex)
  BY DEF Init
<1>2. ObjectsRead = [k \in Keys |-> None]
  BY <1>1 DEF ObjectsRead, EmptyIndex
<1>3. Outcomes = [p \in Pages |-> "none"] /\ request = [p \in Pages |-> Store!NoRequest]
  BY DEF Init, Outcomes, NoRequest
<1>4. LateRequests = [p \in Pages |-> Store!NoRequest]
  BY DEF Init, LateRequests, NoWire, NoRequest
<1> QED BY <1>2, <1>3, <1>4 DEF Store!Init

LEMMA NextContract ==
  ASSUME DriveAssumption, DriveInv, DriveInv', Next
  PROVE  Contract
<1>1. ASSUME NEW p \in Pages, NEW s \in {"call", "fill"},
             List(p, s) \/ CreateIndex(p, s) \/ LoadThrows(p, s)
      PROVE  Contract
  BY <1>1, LoadContract
<1>2. ASSUME NEW p \in Pages,
             \/ \E r \in Operations : Invoke(p, r)
             \/ Download(p) \/ Upload(p) \/ UploadThrows(p) \/ Query(p)
      PROVE  Contract
  BY <1>2, InvokeContract, DownloadContract, UploadContract, QueryContract
<1>3. ASSUME NEW p \in Pages,
             Advance(p) \/ AdvanceThrows(p) \/ Arrive(p) \/ \E f \in todo[p] : Patch(p, f)
      PROVE  Contract
  BY <1>3, AdvanceContract, AdvanceThrowsContract, ArriveContract, PatchContract
<1>4. ASSUME NEW p \in Pages,
             \/ \E k \in Keys : Get(p, k)
             \/ FillAnswered(p) \/ Filled(p) \/ GetEnds(p) \/ Expire(p) \/ Close(p)
      PROVE  Contract
  BY <1>4, ReadContract
<1>5. ASSUME NEW f \in 1..Len(files), Age(f)
      PROVE  Contract
  BY <1>5, AgeContract
<1> QED BY <1>1, <1>2, <1>3, <1>4, <1>5 DEF Next

\* The store over Drive implements the contract of ObjectStore: each mutation takes
\* effect once, atomically, under its precondition, while its caller waits or after it
\* was told of a failure; refusals but that of a spent retry budget are true; a sweep
\* changes no object (putIfAbsent, compareAndSwap, trash, sweepUntracked).
THEOREM ContractIsKept ==
  ASSUME DriveAssumption, ~SlowCommits
  PROVE  Spec => KeepsContract
<1>1. Init => Store!Init
  BY InitContract
<1>2. DriveInv /\ DriveInv' /\ [Next]_vars => [SpentRefusal \/ [Store!Next]_(Store!vars)]_vars
  BY NextContract DEF Contract
<1> QED BY <1>1, <1>2, DriveInductive, PTL DEF Spec, KeepsContract
===============================================================================
