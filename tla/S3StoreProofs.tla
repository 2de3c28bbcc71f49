----------------------------- MODULE S3StoreProofs -----------------------------
(***************************************************************************)
(* Proofs about S3Store, for any pages, keys, contents and faults: the     *)
(* bucket behind storage/s3-object-store.ts keeps the contract of          *)
(* ObjectStore, and a listing that returns is sound although keys come and *)
(* go between its pages.                                                   *)
(***************************************************************************)
EXTENDS S3Store, FiniteSetTheorems, TLAPS

Outcomes ==
  {"none", "pending", "created", "exists", "missing", "updated", "mismatch", "removed", "failed"}

Calls ==
  [op : {"none", "put", "cas", "trash", "get", "list"}, pc : {"idle", "sent", "next"},
   attempt : 0..2, left : SUBSET Keys, key : Nat, listed : SUBSET Keys,
   reclaimed : SUBSET Keys, retained : SUBSET Keys]

\* The requests that go over the wire: each names one key.
Puts == {WriteRequest("put", k, None, c) : k \in Keys, c \in Contents}
Swaps == {WriteRequest("cas", k, e, c) : k \in Keys, e \in Contents \ {None}, c \in Contents}
Deletes == {WriteRequest("trash", k, None, None) : k \in Keys}
Writes == Puts \cup Swaps \cup Deletes

(***************************************************************************)
(* The inductive invariant.  A page that waits for a write has sent the    *)
(* request its call is about; a trash has each of its keys still to do, in *)
(* flight, reclaimed or retained; a listing under way has passed no key    *)
(* that was there all along without listing it.                            *)
(***************************************************************************)
Sent(p) ==
  /\ out[p] = "pending" <=> Writing(p) \/ Deleting(p)
  /\ Writing(p) \/ Deleting(p) =>
       /\ call[p].key \in Keys /\ request[p] \in Writes
       /\ request[p].op = call[p].op /\ request[p].keys = {call[p].key}
  /\ call[p].pc = "next" => call[p].op = "trash"

Receipts(p) ==
  /\ call[p].reclaimed \cap call[p].retained = {}
  /\ call[p].left \cap (call[p].reclaimed \cup call[p].retained) = {}
  /\ Deleting(p) => call[p].key \notin call[p].left \cup call[p].reclaimed \cup call[p].retained

Listed(p) ==
  call[p].op = "list" =>
    /\ call[p].pc # "next" /\ call[p].listed \subseteq ever[p]
    /\ call[p].pc = "sent" =>
         /\ always[p] \subseteq Held(objects)
         /\ \A k \in always[p] : k <= call[p].key => k \in call[p].listed
    /\ call[p].pc = "idle" => always[p] \subseteq call[p].listed

Typed ==
  /\ objects \in [Keys -> Contents \cup {None}]
  /\ call \in [Pages -> Calls]
  /\ request \in [Pages -> Writes \cup {NoRequest}]
  /\ out \in [Pages -> Outcomes]
  /\ late \in [Pages -> Writes \cup {NoRequest}]

S3Inv == Typed /\ \A p \in Pages : Sent(p) /\ Receipts(p) /\ Listed(p)
-------------------------------------------------------------------------------
LEMMA WriteFacts ==
  ASSUME NEW r \in Writes
  PROVE  /\ r \in Contract!Requests /\ r # NoRequest
         /\ r.op \in {"put", "cas", "trash"}
         /\ r.content \in Contents \cup {None}
         /\ r.op = "trash" => r.content = None
         /\ r.op = "cas" => r.expected # None
         /\ \E k \in Keys : r.keys = {k}
<1>1. CASE r \in Puts
  BY <1>1 DEF Puts, WriteRequest, Contract!Requests, NoRequest, Contract!NoRequest
<1>2. CASE r \in Swaps
  BY <1>2 DEF Swaps, WriteRequest, Contract!Requests, NoRequest, Contract!NoRequest
<1>3. CASE r \in Deletes
  <2>1. PICK k \in Keys : r = [op |-> "trash", keys |-> {k}, expected |-> None, content |-> None]
    BY <1>3 DEF Deletes, WriteRequest
  <2>2. {k} \in (SUBSET Keys) \ {{}}
    OBVIOUS
  <2>3. r \in Contract!Requests
    BY <2>1, <2>2 DEF Contract!Requests
  <2> QED BY <2>1, <2>3 DEF NoRequest, Contract!NoRequest
<1> QED BY <1>1, <1>2, <1>3 DEF Writes

\* What another step does to a listing: keys come and go, its own progress stays.
LEMMA ListedStays ==
  ASSUME Watched, NEW p \in Pages, Listed(p),
         call'[p].op = call[p].op, call'[p].pc = call[p].pc,
         call'[p].key = call[p].key, call'[p].listed = call[p].listed
  PROVE  Listed(p)'
<1> SUFFICES ASSUME call[p].op = "list"
             PROVE  Listed(p)'
  BY DEF Listed
<1>1. CASE call[p].pc = "sent"
  <2>1. always'[p] = always[p] \cap Held(objects') /\ ever'[p] = ever[p] \cup Held(objects')
    BY <1>1 DEF Watched, Listing
  <2>2. always'[p] \subseteq Held(objects)'
    BY <2>1 DEF Held
  <2> QED BY <1>1, <2>1, <2>2 DEF Listed
<1>2. CASE call[p].pc # "sent"
  <2>1. always'[p] = always[p] /\ ever'[p] = ever[p]
    BY <1>2 DEF Watched, Listing
  <2> QED BY <1>2, <2>1 DEF Listed
<1> QED BY <1>1, <1>2

\* The step is page p's own: the other pages' calls stay as they are.
Own(p) ==
  \A q \in Pages \ {p} :
    call'[q] = call[q] /\ request'[q] = request[q] /\ out'[q] = out[q] /\ late'[q] = late[q]

LEMMA OwnStep ==
  ASSUME S3Inv, Typed', Watched, NEW p \in Pages, Own(p), Sent(p)', Receipts(p)', Listed(p)'
  PROVE  S3Inv'
<1>1. ASSUME NEW q \in Pages \ {p}
      PROVE  Sent(q)' /\ Receipts(q)' /\ Listed(q)'
  <2>1. Sent(q) /\ Receipts(q) /\ Listed(q)
    BY DEF S3Inv
  <2>2. call'[q] = call[q] /\ request'[q] = request[q] /\ out'[q] = out[q] /\ late'[q] = late[q]
    BY DEF Own
  <2>3. Sent(q)' /\ Receipts(q)'
    BY <2>1, <2>2 DEF Sent, Receipts, Writing, Deleting
  <2>4. Listed(q)'
    BY <2>1, <2>2, ListedStays
  <2> QED BY <2>3, <2>4
<1> QED BY <1>1 DEF S3Inv
-------------------------------------------------------------------------------
(* The calls *)

LEMMA NoCallTyped == NoCall \in Calls /\ NoCall.pc = "idle" /\ NoCall.op = "none"
  /\ NoCall.left = {} /\ NoCall.reclaimed = {} /\ NoCall.retained = {} /\ NoCall.listed = {}
  /\ NoCall.attempt = 0 /\ NoCall.key = 0
BY DEF NoCall, Calls

\* A new call c of page p, that is not a listing.
LEMMA NewCall ==
  ASSUME S3Inv, Watched, NEW p \in Pages, NEW c \in Calls,
         call' = [call EXCEPT ![p] = c], c.op # "list",
         c.pc = "next" => c.op = "trash",
         c.reclaimed \cap c.retained = {}, c.left \cap (c.reclaimed \cup c.retained) = {},
         c.pc = "sent" /\ c.op = "trash" => c.key \notin c.left \cup c.reclaimed \cup c.retained,
         NEW r \in Writes \cup {NoRequest}, request' = [request EXCEPT ![p] = r],
         NEW o \in Outcomes, out' = [out EXCEPT ![p] = o],
         o = "pending" <=> (c.pc = "sent" /\ c.op \in {"put", "cas", "trash"}),
         o = "pending" => c.key \in Keys /\ r \in Writes /\ r.op = c.op /\ r.keys = {c.key},
         NEW l \in Writes \cup {NoRequest}, late' = [late EXCEPT ![p] = l],
         objects' \in [Keys -> Contents \cup {None}]
  PROVE  S3Inv'
<1>1. Typed
  BY DEF S3Inv
<1>2. Typed'
  BY <1>1 DEF Typed
<1>3. call'[p] = c /\ request'[p] = r /\ out'[p] = o /\ Own(p)
  BY <1>1 DEF Typed, Own
<1>4. Sent(p)'
  BY <1>3 DEF Sent, Writing, Deleting
<1>5. Receipts(p)' /\ Listed(p)'
  BY <1>3 DEF Receipts, Listed, Deleting
<1> QED BY <1>2, <1>3, <1>4, <1>5, OwnStep
\* The call c is over, or waits for its next request; nothing of it is in flight.
LEMMA Returns ==
  ASSUME S3Inv, Watched, NEW p \in Pages, Writing(p) \/ Deleting(p), NEW c \in Calls,
         call' = [call EXCEPT ![p] = c], c.op = call[p].op, c.pc \in {"idle", "next"},
         c.pc = "next" => Deleting(p), c.left = call[p].left,
         c.reclaimed \cap c.retained = {}, c.left \cap (c.reclaimed \cup c.retained) = {},
         UNCHANGED request,
         NEW o \in Outcomes \ {"pending"}, out' = [out EXCEPT ![p] = o],
         late' = late \/ late' = [late EXCEPT ![p] = request[p]],
         objects' \in [Keys -> Contents \cup {None}]
  PROVE  S3Inv'
<1>1. Typed /\ Sent(p)
  BY DEF S3Inv
<1>2. PICK r \in Writes \cup {NoRequest} : r = request[p] /\ request' = [request EXCEPT ![p] = r]
  BY <1>1 DEF Typed
<1>3. PICK l \in Writes \cup {NoRequest} : late' = [late EXCEPT ![p] = l]
  BY <1>1 DEF Typed
<1>4. c.op # "list" /\ c.op # "none" /\ (c.pc = "next" => c.op = "trash")
  BY DEF Writing, Deleting
<1> QED BY <1>2, <1>3, <1>4, NewCall

LEMMA InvokeKeeps ==
  ASSUME S3Inv, S3Assumption, Watched, NEW p \in Pages, Invoke(p)
  PROVE  S3Inv'
<1>1. Typed /\ Sent(p)
  BY DEF S3Inv
<1>2. call[p].pc = "idle" /\ UNCHANGED <<objects, late>>
  BY DEF Invoke
<1>3. PICK r0 \in Writes \cup {NoRequest}, l \in Writes \cup {NoRequest}, o0 \in Outcomes :
        r0 = request[p] /\ l = late[p] /\ o0 = out[p]
  BY <1>1 DEF Typed
<1>4. /\ late' = [late EXCEPT ![p] = l] /\ request = [request EXCEPT ![p] = r0]
      /\ out = [out EXCEPT ![p] = o0] /\ objects' \in [Keys -> Contents \cup {None}]
  BY <1>1, <1>2, <1>3 DEF Typed
<1>5. o0 # "pending"
  BY <1>1, <1>2, <1>3 DEF Sent, Writing, Deleting
<1>6. ASSUME NEW op \in Ops \cap {"put", "cas"}, NEW k \in Keys, NEW expected \in Contents \cup {None},
             NEW c \in Contents, op = "put" <=> expected = None,
             request' = [request EXCEPT ![p] = WriteRequest(op, k, expected, c)],
             out' = [out EXCEPT ![p] = "pending"],
             call' = [call EXCEPT ![p] = [NoCall EXCEPT !.op = op, !.pc = "sent", !.key = k]]
      PROVE  S3Inv'
  <2>1. PICK r \in Writes : r = WriteRequest(op, k, expected, c)
    BY <1>6 DEF Writes, Puts, Swaps
  <2>2. r.op = op /\ r.keys = {k} /\ request' = [request EXCEPT ![p] = r]
    BY <1>6, <2>1 DEF WriteRequest
  <2>3. PICK n \in Calls : n = [NoCall EXCEPT !.op = op, !.pc = "sent", !.key = k]
    <3>1. [NoCall EXCEPT !.op = op, !.pc = "sent", !.key = k] \in Calls
      BY NoCallTyped DEF Calls, S3Assumption
    <3> QED BY <3>1
  <2>4. /\ call' = [call EXCEPT ![p] = n] /\ n.op = op /\ n.pc = "sent" /\ n.key = k /\ n.left = {}
        /\ n.reclaimed = {} /\ n.retained = {}
    BY <1>6, <2>3 DEF NoCall
  <2>5. "pending" \in Outcomes
    BY DEF Outcomes
  <2>6. /\ n.op # "list" /\ (n.pc = "next" => n.op = "trash")
        /\ n.reclaimed \cap n.retained = {} /\ n.left \cap (n.reclaimed \cup n.retained) = {}
        /\ n.pc = "sent" /\ n.op = "trash" => n.key \notin n.left \cup n.reclaimed \cup n.retained
        /\ n.pc = "sent" /\ n.op \in {"put", "cas", "trash"}
        /\ n.key \in Keys /\ r.op = n.op /\ r.keys = {n.key}
    BY <2>2, <2>4
  <2> QED BY <1>4, <1>6, <2>2, <2>4, <2>5, <2>6, NewCall
<1>7. ASSUME NEW keys \in (SUBSET Keys) \ {{}}, UNCHANGED <<request, out>>,
             call' = [call EXCEPT ![p] = [NoCall EXCEPT !.op = "trash", !.pc = "next", !.left = keys]]
      PROVE  S3Inv'
  <2>1. PICK n \in Calls : n = [NoCall EXCEPT !.op = "trash", !.pc = "next", !.left = keys]
    <3>1. [NoCall EXCEPT !.op = "trash", !.pc = "next", !.left = keys] \in Calls
      BY NoCallTyped DEF Calls, S3Assumption
    <3> QED BY <3>1
  <2>2. /\ call' = [call EXCEPT ![p] = n] /\ n.op = "trash" /\ n.pc = "next"
        /\ n.reclaimed = {} /\ n.retained = {}
    BY <1>7, <2>1 DEF NoCall
  <2> QED BY <1>4, <1>5, <1>7, <2>2, NewCall
<1>8. ASSUME NEW k \in Keys, UNCHANGED <<request, out>>,
             call' = [call EXCEPT ![p] = [NoCall EXCEPT !.op = "get", !.pc = "sent", !.key = k]]
      PROVE  S3Inv'
  <2>1. PICK n \in Calls : n = [NoCall EXCEPT !.op = "get", !.pc = "sent", !.key = k]
    <3>1. [NoCall EXCEPT !.op = "get", !.pc = "sent", !.key = k] \in Calls
      BY NoCallTyped DEF Calls, S3Assumption
    <3> QED BY <3>1
  <2>2. /\ call' = [call EXCEPT ![p] = n] /\ n.op = "get" /\ n.pc = "sent" /\ n.left = {}
        /\ n.reclaimed = {} /\ n.retained = {}
    BY <1>8, <2>1 DEF NoCall
  <2> QED BY <1>4, <1>5, <1>8, <2>2, NewCall
<1>9. ASSUME UNCHANGED <<request, out>>,
             call' = [call EXCEPT ![p] = [NoCall EXCEPT !.op = "list", !.pc = "sent", !.key = 0]]
      PROVE  S3Inv'
  <2>1. PICK n \in Calls : n = [NoCall EXCEPT !.op = "list", !.pc = "sent", !.key = 0]
    <3>1. [NoCall EXCEPT !.op = "list", !.pc = "sent", !.key = 0] \in Calls
      BY NoCallTyped DEF Calls, S3Assumption
    <3> QED BY <3>1
  <2>2. /\ call' = [call EXCEPT ![p] = n] /\ n.op = "list" /\ n.pc = "sent" /\ n.key = 0 /\ n.listed = {}
        /\ n.left = {} /\ n.reclaimed = {} /\ n.retained = {}
    BY <1>9, <2>1 DEF NoCall
  <2>3. Typed'
    BY <1>1, <1>2, <1>9, <2>2 DEF Typed
  <2>4. call'[p] = n /\ Own(p)
    BY <1>1, <1>2, <1>9, <2>2 DEF Typed, Own
  <2>5. out[p] # "pending"
    BY <1>3, <1>5
  <2>6. Sent(p)' /\ Receipts(p)'
    BY <1>9, <2>2, <2>4, <2>5 DEF Sent, Receipts, Writing, Deleting
  <2>7. always'[p] = Held(objects)'
    BY <1>2, <2>2, <2>4 DEF Watched, Listing, Held
  <2>8. \A k \in always'[p] : ~(k <= 0)
    <3>1. \A k \in Keys : k \in Nat /\ k # 0
      BY DEF S3Assumption
    <3>2. \A k \in Keys : ~(k <= 0)
      BY <3>1
    <3> QED BY <2>7, <3>2 DEF Held
  <2>9. Listed(p)'
    BY <2>2, <2>4, <2>7, <2>8 DEF Listed
  <2> QED BY <2>3, <2>4, <2>6, <2>9, OwnStep
<1>10. \/ \E op \in Ops \cap {"put", "cas"}, k \in Keys, expected \in Contents \cup {None}, c \in Contents :
            /\ op = "put" <=> expected = None
            /\ request' = [request EXCEPT ![p] = WriteRequest(op, k, expected, c)]
            /\ out' = [out EXCEPT ![p] = "pending"]
            /\ call' = [call EXCEPT ![p] = [NoCall EXCEPT !.op = op, !.pc = "sent", !.key = k]]
       \/ /\ UNCHANGED <<request, out>>
          /\ \E k \in Keys :
               call' = [call EXCEPT ![p] = [NoCall EXCEPT !.op = "get", !.pc = "sent", !.key = k]]
       \/ /\ UNCHANGED <<request, out>>
          /\ call' = [call EXCEPT ![p] = [NoCall EXCEPT !.op = "list", !.pc = "sent", !.key = 0]]
       \/ /\ UNCHANGED <<request, out>>
          /\ \E keys \in (SUBSET Keys) \ {{}} :
               call' = [call EXCEPT ![p] = [NoCall EXCEPT !.op = "trash", !.pc = "next", !.left = keys]]
  BY Zenon DEF Invoke
<1> QED BY <1>6, <1>7, <1>8, <1>9, <1>10

LEMMA NextKeyKeeps ==
  ASSUME S3Inv, S3Assumption, Watched, NEW p \in Pages, NextKey(p)
  PROVE  S3Inv'
<1>1. Typed /\ Sent(p) /\ Receipts(p)
  BY DEF S3Inv
<1>2. PICK k \in call[p].left :
        /\ call' = [call EXCEPT ![p].pc = "sent", ![p].key = k, ![p].left = @ \ {k}]
        /\ request' = [request EXCEPT ![p] = WriteRequest("trash", k, None, None)]
        /\ out' = [out EXCEPT ![p] = "pending"]
  BY DEF NextKey
<1>3. call[p].pc = "next" /\ call[p].op = "trash" /\ UNCHANGED <<objects, late>>
  BY <1>1 DEF NextKey, Sent
<1>4. call[p] \in Calls /\ k \in Keys
  BY <1>1 DEF Typed, Calls
<1>5. PICK n \in Calls : n = [call[p] EXCEPT !.pc = "sent", !.key = k, !.left = @ \ {k}]
  BY <1>4 DEF Calls, S3Assumption
<1>6. /\ call' = [call EXCEPT ![p] = n] /\ n.op = "trash" /\ n.pc = "sent" /\ n.key = k
      /\ n.left = call[p].left \ {k} /\ n.reclaimed = call[p].reclaimed
      /\ n.retained = call[p].retained
  BY <1>1, <1>2, <1>3, <1>4, <1>5 DEF Typed, Calls
<1>7. PICK r \in Writes : r = WriteRequest("trash", k, None, None)
  BY <1>4 DEF Writes, Deletes
<1>8. r.op = "trash" /\ r.keys = {k}
  BY <1>7 DEF WriteRequest
<1>9. PICK l \in Writes \cup {NoRequest} : late' = [late EXCEPT ![p] = l]
  BY <1>1, <1>3 DEF Typed
<1>10. /\ n.reclaimed \cap n.retained = {} /\ n.left \cap (n.reclaimed \cup n.retained) = {}
       /\ n.key \notin n.left \cup n.reclaimed \cup n.retained
  BY <1>1, <1>6 DEF Receipts
<1>11. objects' \in [Keys -> Contents \cup {None}]
  BY <1>1, <1>3 DEF Typed
<1>12. "pending" \in Outcomes
  BY DEF Outcomes
<1>13. /\ n.op # "list" /\ (n.pc = "next" => n.op = "trash")
       /\ n.pc = "sent" /\ n.op \in {"put", "cas", "trash"}
       /\ n.key \in Keys /\ r.op = n.op /\ r.keys = {n.key} /\ request' = [request EXCEPT ![p] = r]
  BY <1>2, <1>4, <1>6, <1>7, <1>8
<1> QED BY <1>2, <1>6, <1>9, <1>10, <1>11, <1>12, <1>13, NewCall

LEMMA ReceiptKeeps ==
  ASSUME S3Inv, Watched, NEW p \in Pages, Receipt(p)
  PROVE  S3Inv'
<1>1. Typed /\ Sent(p) /\ Receipts(p)
  BY DEF S3Inv
<1>2. /\ call[p].pc = "next" /\ call[p].op = "trash" /\ call' = [call EXCEPT ![p].pc = "idle"]
      /\ UNCHANGED <<objects, request, out, late>>
  BY <1>1 DEF Receipt, Sent
<1>3. call[p] \in Calls
  BY <1>1 DEF Typed
<1>4. PICK n \in Calls : n = [call[p] EXCEPT !.pc = "idle"]
  BY <1>3 DEF Calls
<1>5. /\ call' = [call EXCEPT ![p] = n] /\ n.op = "trash" /\ n.pc = "idle"
      /\ n.left = call[p].left /\ n.reclaimed = call[p].reclaimed /\ n.retained = call[p].retained
  BY <1>1, <1>2, <1>3, <1>4 DEF Typed, Calls
<1>6. PICK r \in Writes \cup {NoRequest}, l \in Writes \cup {NoRequest}, o \in Outcomes :
        r = request[p] /\ l = late[p] /\ o = out[p]
  BY <1>1 DEF Typed
<1>7. /\ request' = [request EXCEPT ![p] = r] /\ late' = [late EXCEPT ![p] = l]
      /\ out' = [out EXCEPT ![p] = o] /\ objects' \in [Keys -> Contents \cup {None}]
  BY <1>1, <1>2, <1>6 DEF Typed
<1>8. o # "pending"
  BY <1>1, <1>2, <1>6 DEF Sent, Writing, Deleting
<1>9. n.reclaimed \cap n.retained = {} /\ n.left \cap (n.reclaimed \cup n.retained) = {}
  BY <1>1, <1>5 DEF Receipts
<1> QED BY <1>5, <1>7, <1>8, <1>9, NewCall
LEMMA RespondKeeps ==
  ASSUME S3Inv, Watched, NEW p \in Pages,
         Respond(p) \/ Conflict(p) \/ Unsigned(p) \/ WriteLost(p)
  PROVE  S3Inv'
<1>1. Typed /\ Sent(p) /\ Receipts(p)
  BY DEF S3Inv
<1>2. Writing(p) /\ UNCHANGED request
  BY DEF Respond, Conflict, Unsigned, WriteLost
<1>3. call[p] \in Calls /\ call[p].key \in Keys /\ request[p] \in Writes
  BY <1>1, <1>2 DEF Typed, Sent
<1>4. Answer(p) \in Outcomes \ {"pending"} /\ "failed" \in Outcomes \ {"pending"}
  BY <1>3 DEF Answer, Outcomes
<1>5. Applied(p) => objects' \in [Keys -> Contents \cup {None}]
  <2>1. request[p].content \in Contents \cup {None}
    BY <1>3, WriteFacts
  <2> QED BY <1>1, <1>3, <2>1 DEF Applied, Typed
<1>6. ASSUME NEW o \in Outcomes \ {"pending"}, out' = [out EXCEPT ![p] = o],
             call' = [call EXCEPT ![p].pc = "idle"],
             late' = late \/ late' = [late EXCEPT ![p] = request[p]],
             objects' \in [Keys -> Contents \cup {None}]
      PROVE  S3Inv'
  <2>1. PICK n \in Calls : n = [call[p] EXCEPT !.pc = "idle"]
    BY <1>3 DEF Calls
  <2>2. /\ call' = [call EXCEPT ![p] = n] /\ n.op = call[p].op /\ n.pc = "idle"
        /\ n.left = call[p].left /\ n.reclaimed = call[p].reclaimed /\ n.retained = call[p].retained
    BY <1>1, <1>3, <1>6, <2>1 DEF Typed, Calls
  <2>3. n.reclaimed \cap n.retained = {} /\ n.left \cap (n.reclaimed \cup n.retained) = {}
    BY <1>1, <2>2 DEF Receipts
  <2> QED BY <1>2, <1>6, <2>2, <2>3, Returns
<1>7. CASE Respond(p)
  <2>1. /\ out' = [out EXCEPT ![p] = Answer(p)] /\ call' = [call EXCEPT ![p].pc = "idle"]
        /\ late' = late /\ Applied(p)
    BY <1>7 DEF Respond
  <2> QED BY <1>4, <1>5, <1>6, <2>1
<1>8. CASE WriteFailed(p) /\ (Applied(p) \/ UNCHANGED objects)
           /\ (late' = late \/ late' = [late EXCEPT ![p] = request[p]])
  <2>1. out' = [out EXCEPT ![p] = "failed"] /\ call' = [call EXCEPT ![p].pc = "idle"]
    BY <1>8 DEF WriteFailed
  <2>2. objects' \in [Keys -> Contents \cup {None}]
    BY <1>1, <1>5, <1>8 DEF Typed
  <2> QED BY <1>4, <1>6, <1>8, <2>1, <2>2
<1>9. CASE /\ call[p].attempt < 2 /\ call' = [call EXCEPT ![p].attempt = @ + 1]
           /\ UNCHANGED <<out, objects, late>>
  <2>1. call[p].attempt + 1 \in 0..2
    BY <1>3, <1>9 DEF Calls
  <2>2. PICK n \in Calls : n = [call[p] EXCEPT !.attempt = @ + 1]
    BY <1>3, <2>1 DEF Calls
  <2>3. /\ call' = [call EXCEPT ![p] = n] /\ n.op = call[p].op /\ n.pc = call[p].pc
        /\ n.key = call[p].key
        /\ n.left = call[p].left /\ n.reclaimed = call[p].reclaimed /\ n.retained = call[p].retained
    BY <1>1, <1>3, <1>9, <2>2 DEF Typed, Calls
  <2>4. Typed'
    BY <1>1, <1>2, <1>9, <2>3 DEF Typed
  <2>5. call'[p] = n /\ Own(p)
    BY <1>1, <1>2, <1>9, <2>3 DEF Typed, Own
  <2>6. Sent(p)' /\ Receipts(p)'
    BY <1>1, <1>2, <1>9, <2>3, <2>5 DEF Sent, Receipts, Writing, Deleting
  <2>7. Listed(p)'
    BY <1>2, <2>3, <2>5 DEF Listed, Writing
  <2> QED BY <2>4, <2>5, <2>6, <2>7, OwnStep
<1>10. ASSUME Conflict(p)
       PROVE  S3Inv'
  BY <1>8, <1>9, <1>10 DEF Conflict
<1>11. ASSUME Unsigned(p) \/ WriteLost(p)
       PROVE  S3Inv'
  BY <1>8, <1>11 DEF Unsigned, WriteLost
<1> QED BY <1>7, <1>10, <1>11

LEMMA DeleteKeeps ==
  ASSUME S3Inv, Watched, NEW p \in Pages, Delete(p) \/ DeleteAborted(p)
  PROVE  S3Inv'
<1>1. Typed /\ Sent(p) /\ Receipts(p)
  BY DEF S3Inv
<1>2. Deleting(p) /\ UNCHANGED request
  BY DEF Delete, DeleteAborted
<1>3. call[p] \in Calls /\ call[p].key \in Keys /\ objects \in [Keys -> Contents \cup {None}]
  BY <1>1, <1>2 DEF Typed, Sent
<1>4. call[p].key \notin call[p].left \cup call[p].reclaimed \cup call[p].retained
  BY <1>1, <1>2 DEF Receipts
<1> DEFINE gone == [objects EXCEPT ![call[p].key] = None]
           reclaimed == [call[p] EXCEPT !.reclaimed = @ \cup {call[p].key}]
           retained == [call[p] EXCEPT !.retained = @ \cup {call[p].key}]
<1>5. ASSUME NEW s \in {objects, gone}, NEW o \in {"removed", "failed"}, NEW c \in {reclaimed, retained},
             Deleted(p, s, o, c), late' = late \/ late' = [late EXCEPT ![p] = request[p]]
      PROVE  S3Inv'
  <2>1. objects' \in [Keys -> Contents \cup {None}]
    BY <1>3, <1>5 DEF Deleted
  <2>2. /\ c \in Calls /\ c.op = call[p].op /\ c.left = call[p].left
        /\ c.reclaimed \cap c.retained = {} /\ c.left \cap (c.reclaimed \cup c.retained) = {}
    <3>1. CASE c = reclaimed
      BY <1>1, <1>3, <1>4, <3>1 DEF Calls, Receipts
    <3>2. CASE c = retained
      BY <1>1, <1>3, <1>4, <3>2 DEF Calls, Receipts
    <3> QED BY <1>5, <3>1, <3>2
  <2> HIDE DEF gone, reclaimed, retained
  <2>3. PICK n \in Calls : n = [c EXCEPT !.pc = "next"]
    BY <2>2 DEF Calls
  <2>4. /\ n.op = call[p].op /\ n.pc = "next" /\ n.left = call[p].left
        /\ n.reclaimed \cap n.retained = {} /\ n.left \cap (n.reclaimed \cup n.retained) = {}
    BY <2>2, <2>3 DEF Calls
  <2>5. call' = [call EXCEPT ![p] = n] /\ out' = [out EXCEPT ![p] = o]
    BY <1>5, <2>3 DEF Deleted
  <2>6. o \in Outcomes \ {"pending"}
    BY <1>5 DEF Outcomes
  <2> QED BY <1>2, <1>5, <2>1, <2>4, <2>5, <2>6, Returns
<1>6. CASE Delete(p)
  <2>1. \E s \in {objects, gone}, o \in {"removed", "failed"}, c \in {reclaimed, retained} :
          /\ Deleted(p, s, o, c)
          /\ late' = late \/ late' = [late EXCEPT ![p] = request[p]]
    BY <1>6 DEF Delete
  <2> QED BY <1>5, <2>1
<1>7. CASE DeleteAborted(p)
  <2>1. /\ out' = [out EXCEPT ![p] = "failed"] /\ call' = [call EXCEPT ![p].pc = "idle"]
        /\ objects' \in {objects, gone}
        /\ late' = late \/ late' = [late EXCEPT ![p] = request[p]]
    BY <1>7 DEF DeleteAborted
  <2>2. PICK n \in Calls : n = [call[p] EXCEPT !.pc = "idle"]
    BY <1>3 DEF Calls
  <2>3. /\ call' = [call EXCEPT ![p] = n] /\ n.op = call[p].op /\ n.pc = "idle"
        /\ n.left = call[p].left /\ n.reclaimed = call[p].reclaimed /\ n.retained = call[p].retained
    BY <1>1, <1>3, <2>1, <2>2 DEF Typed, Calls
  <2>4. n.reclaimed \cap n.retained = {} /\ n.left \cap (n.reclaimed \cup n.retained) = {}
    BY <1>1, <2>3 DEF Receipts
  <2>5. "failed" \in Outcomes \ {"pending"} /\ objects' \in [Keys -> Contents \cup {None}]
    BY <1>3, <2>1 DEF Outcomes
  <2> QED BY <1>2, <2>1, <2>3, <2>4, <2>5, Returns
<1> QED BY <1>6, <1>7

LEMMA ArriveKeeps ==
  ASSUME S3Inv, Watched, NEW p \in Pages, Arrive(p)
  PROVE  S3Inv'
<1>1. Typed /\ Sent(p) /\ Receipts(p) /\ Listed(p)
  BY DEF S3Inv
<1>2. /\ late[p] # NoRequest /\ late' = [late EXCEPT ![p] = NoRequest]
      /\ UNCHANGED <<request, out, call>>
  BY DEF Arrive
<1>3. late[p] \in Writes
  BY <1>1, <1>2 DEF Typed
<1>4. objects' \in [Keys -> Contents \cup {None}]
  <2>1. PICK k \in Keys : late[p].keys = {k} /\ late[p].content \in Contents \cup {None}
    BY <1>3, WriteFacts
  <2>2. objects' = objects \/ objects' = [objects EXCEPT ![k] = late[p].content]
    BY <2>1 DEF Arrive
  <2> QED BY <1>1, <2>1, <2>2 DEF Typed
<1>5. Typed'
  BY <1>1, <1>2, <1>4 DEF Typed
<1>6. Own(p)
  BY <1>1, <1>2 DEF Typed, Own
<1>7. Sent(p)' /\ Receipts(p)'
  BY <1>1, <1>2 DEF Sent, Receipts, Writing, Deleting
<1>8. Listed(p)'
  BY <1>1, <1>2, ListedStays
<1> QED BY <1>5, <1>6, <1>7, <1>8, OwnStep
-------------------------------------------------------------------------------
(* The pages of a listing *)

\* Among subsets of a finite set there is one that none of the others is part of.
LEMMA MinimalSubset ==
  ASSUME NEW S, IsFiniteSet(S), NEW T \in SUBSET SUBSET S, T # {}
  PROVE  \E x \in T : \A y \in T : y \subseteq x => y = x
<1>1. PICK R : R = StrictSubsetOrdering(S)
  OBVIOUS
<1>2. IsWellFoundedOn(R, FiniteSubsetsOf(S))
  BY <1>1, FS_StrictSubsetOrderingWellFounded
<1>3. FiniteSubsetsOf(S) = SUBSET S
  BY FS_FiniteSubsetsOfFinite
<1>4. IsWellFoundedOn(R, SUBSET S)
  BY <1>2, <1>3
<1>5. \E x \in T : \A y \in T : ~ (<<y, x>> \in R)
  BY <1>4, WFMin
<1>6. \A x, y \in SUBSET S : y \subseteq x /\ y # x => <<y, x>> \in R
  BY <1>1 DEF StrictSubsetOrdering
<1> QED BY <1>5, <1>6

Numbers(S) == \A k \in S : k \in Nat

\* A finite, non-empty set of numbers has a least and a greatest element.
LEMMA LeastAndGreatest ==
  ASSUME NEW S, Numbers(S), IsFiniteSet(S), S # {}
  PROVE  /\ \E k \in S : \A j \in S : k <= j
         /\ \E k \in S : \A j \in S : j <= k
<1> DEFINE Below(k) == {j \in S : j < k}
           Above(k) == {j \in S : j > k}
<1>1. \E k \in S : \A i \in S : Below(i) \subseteq Below(k) => Below(i) = Below(k)
  <2>1. PICK T : T = {Below(k) : k \in S}
    OBVIOUS
  <2>2. T \in SUBSET SUBSET S /\ T # {}
    BY <2>1
  <2> HIDE DEF Below, Above
  <2>3. PICK x \in T : \A y \in T : y \subseteq x => y = x
    BY <2>2, MinimalSubset
  <2>4. PICK k \in S : x = Below(k)
    BY <2>1
  <2>5. ASSUME NEW i \in S
        PROVE  Below(i) \in T
    BY <2>1
  <2> QED BY <2>3, <2>4, <2>5
<1>2. \E k \in S : \A i \in S : Above(i) \subseteq Above(k) => Above(i) = Above(k)
  <2>1. PICK T : T = {Above(k) : k \in S}
    OBVIOUS
  <2>2. T \in SUBSET SUBSET S /\ T # {}
    BY <2>1
  <2> HIDE DEF Below, Above
  <2>3. PICK x \in T : \A y \in T : y \subseteq x => y = x
    BY <2>2, MinimalSubset
  <2>4. PICK k \in S : x = Above(k)
    BY <2>1
  <2>5. ASSUME NEW i \in S
        PROVE  Above(i) \in T
    BY <2>1
  <2> QED BY <2>3, <2>4, <2>5
<1>3. \E k \in S : \A j \in S : k <= j
  <2>1. PICK k \in S : \A i \in S : Below(i) \subseteq Below(k) => Below(i) = Below(k)
    BY <1>1
  <2>2. ASSUME NEW j \in S, ~(k <= j)
        PROVE  FALSE
    <3>1. j \in Nat /\ k \in Nat /\ j < k
      BY <2>2 DEF Numbers
    <3>2. j \in Below(k) /\ j \notin Below(j)
      BY <3>1
    <3>3. ASSUME NEW i \in Below(j)
          PROVE  i \in Below(k)
      <4>1. i \in S /\ i \in Nat /\ i < j
        BY DEF Numbers
      <4>2. i < k
        BY <3>1, <4>1
      <4> QED BY <4>1, <4>2
    <3>4. Below(j) = Below(k)
      BY <2>1, <3>3
    <3> QED BY <3>2, <3>4
  <2> QED BY <2>2
<1>4. \E k \in S : \A j \in S : j <= k
  <2>1. PICK k \in S : \A i \in S : Above(i) \subseteq Above(k) => Above(i) = Above(k)
    BY <1>2
  <2>2. ASSUME NEW j \in S, ~(j <= k)
        PROVE  FALSE
    <3>1. j \in Nat /\ k \in Nat /\ j > k
      BY <2>2 DEF Numbers
    <3>2. j \in Above(k) /\ j \notin Above(j)
      BY <3>1
    <3>3. ASSUME NEW i \in Above(j)
          PROVE  i \in Above(k)
      <4>1. i \in S /\ i \in Nat /\ i > j
        BY DEF Numbers
      <4>2. i > k
        BY <3>1, <4>1
      <4> QED BY <4>1, <4>2
    <3>4. Above(j) = Above(k)
      BY <2>1, <3>3
    <3> QED BY <3>2, <3>4
  <2> QED BY <2>2
<1> QED BY <1>3, <1>4

PageOf(rest) == {k \in rest : Cardinality({j \in rest : j < k}) < PageSize}

\* A last page holds all that is left; another one holds the keys up to its last, and some.
LEMMA PageFacts ==
  ASSUME S3Assumption, NEW rest \in SUBSET Keys
  PROVE  /\ PageOf(rest) \subseteq rest
         /\ LastPage(rest) => PageOf(rest) = rest
         /\ ~LastPage(rest) =>
              \E m \in PageOf(rest) :
                /\ \A j \in PageOf(rest) : j <= m
                /\ \A k \in rest : k <= m => k \in PageOf(rest)
                /\ (CHOOSE k \in PageOf(rest) : \A j \in PageOf(rest) : j <= k) = m
<1> DEFINE Below(k) == {j \in rest : j < k}
<1>1. rest \subseteq Nat /\ IsFiniteSet(rest) /\ PageSize \in Nat /\ PageSize # 0
  BY FS_Subset DEF S3Assumption
<1>2. ASSUME NEW k \in rest
      PROVE  /\ IsFiniteSet(Below(k)) /\ Cardinality(Below(k)) \in Nat /\ Cardinality(rest) \in Nat
             /\ Cardinality(Below(k)) < Cardinality(rest)
  <2>1. Below(k) \in SUBSET rest /\ k \notin Below(k)
    BY <1>1
  <2>2. IsFiniteSet(Below(k)) /\ Cardinality(Below(k)) <= Cardinality(rest)
        /\ (Cardinality(rest) = Cardinality(Below(k)) => rest = Below(k))
    BY <1>1, <2>1, FS_Subset
  <2>3. Cardinality(Below(k)) \in Nat /\ Cardinality(rest) \in Nat
    BY <1>1, <2>2, FS_CardinalityType
  <2> HIDE DEF Below
  <2>4. Cardinality(rest) # Cardinality(Below(k))
    BY <2>1, <2>2
  <2> QED BY <2>2, <2>3, <2>4
<1>3. ASSUME NEW m \in PageOf(rest), NEW k \in rest, k <= m
      PROVE  k \in PageOf(rest)
  <2>1. m \in rest /\ Cardinality(Below(m)) < PageSize
    BY DEF PageOf
  <2>2. Below(k) \in SUBSET Below(m)
    <3>1. ASSUME NEW i \in Below(k)
          PROVE  i \in Below(m)
      <4>1. i \in rest /\ i \in Nat /\ k \in Nat /\ m \in Nat /\ i < k
        BY <1>1, <2>1
      <4>2. i < m
        BY <1>3, <4>1
      <4> QED BY <4>1, <4>2
    <3> QED BY <3>1
  <2>3. Cardinality(Below(k)) <= Cardinality(Below(m))
    <3> HIDE DEF Below
    <3> QED BY <1>2, <2>1, <2>2, FS_Subset
  <2>4. Cardinality(Below(k)) \in Nat /\ Cardinality(Below(m)) \in Nat
    BY <1>2, <2>1
  <2>5. Cardinality(Below(k)) < PageSize
    <3> HIDE DEF Below
    <3> QED BY <1>1, <2>1, <2>3, <2>4
  <2> QED BY <2>5 DEF PageOf
<1>4. ASSUME LastPage(rest)
      PROVE  PageOf(rest) = rest
  <2>1. ASSUME NEW k \in rest
        PROVE  Cardinality(Below(k)) < PageSize
    <3>1. Cardinality(Below(k)) < Cardinality(rest) /\ Cardinality(Below(k)) \in Nat /\ Cardinality(rest) \in Nat
      BY <1>2
    <3> HIDE DEF Below
    <3> QED BY <1>1, <1>4, <3>1 DEF LastPage
  <2> QED BY <2>1 DEF PageOf
<1>5. ASSUME ~LastPage(rest)
      PROVE  \E m \in PageOf(rest) :
                /\ \A j \in PageOf(rest) : j <= m
                /\ (CHOOSE k \in PageOf(rest) : \A j \in PageOf(rest) : j <= k) = m
  <2>1. rest # {}
    <3>1. Cardinality(rest) \in Nat
      BY <1>1, FS_CardinalityType
    <3>2. Cardinality(rest) # 0
      BY <1>1, <1>5, <3>1 DEF LastPage
    <3> QED BY <3>2, FS_EmptySet
  <2>2. PICK k \in rest : \A j \in rest : k <= j
    <3>1. Numbers(rest) /\ IsFiniteSet(rest)
      BY <1>1 DEF Numbers
    <3> QED BY <2>1, <3>1, LeastAndGreatest
  <2>3. Below(k) = {}
    <3>1. ASSUME NEW j \in rest, j < k
          PROVE  FALSE
      <4>1. j \in Nat /\ k \in Nat /\ k <= j
        BY <1>1, <2>2
      <4> QED BY <3>1, <4>1
    <3> QED BY <3>1
  <2>4. Cardinality(Below(k)) < PageSize
    <3>1. Cardinality(Below(k)) = 0
      BY <2>3, FS_EmptySet
    <3> HIDE DEF Below
    <3> QED BY <1>1, <3>1
  <2>5. PageOf(rest) # {}
    BY <2>4 DEF PageOf
  <2>6. PageOf(rest) \in SUBSET rest
    BY DEF PageOf
  <2>7. Numbers(PageOf(rest)) /\ IsFiniteSet(PageOf(rest))
    BY <1>1, <2>6, FS_Subset DEF Numbers
  <2>8. \E m \in PageOf(rest) : \A j \in PageOf(rest) : j <= m
    BY <2>5, <2>7, LeastAndGreatest
  <2>9. PICK m : m = CHOOSE k2 \in PageOf(rest) : \A j \in PageOf(rest) : j <= k2
    OBVIOUS
  <2>10. m \in PageOf(rest) /\ \A j \in PageOf(rest) : j <= m
    BY <2>8, <2>9
  <2> QED BY <2>9, <2>10
<1> QED BY <1>3, <1>4, <1>5 DEF PageOf
\* A read's step: its page waits for no write, and the bucket is as it was.
LEMMA ReadStep ==
  ASSUME S3Inv, Watched, NEW p \in Pages, Reading(p), NEW c \in Calls,
         call' = [call EXCEPT ![p] = c], UNCHANGED <<objects, request, out, late>>,
         c.op \in {"none", "get", "list"}, c.pc # "next", c.left = call[p].left,
         c.reclaimed = call[p].reclaimed, c.retained = call[p].retained,
         c.op = "list" => Listed(p)'
  PROVE  S3Inv'
<1>1. Typed /\ Sent(p) /\ Receipts(p)
  BY DEF S3Inv
<1>2. Typed'
  BY <1>1 DEF Typed
<1>3. call'[p] = c /\ Own(p)
  BY <1>1 DEF Typed, Own
<1>4. out'[p] # "pending"
  BY <1>1 DEF Sent, Reading, Writing, Deleting
<1>5. Sent(p)'
  BY <1>3, <1>4 DEF Sent, Writing, Deleting
<1>6. Receipts(p)'
  BY <1>1, <1>3 DEF Receipts, Deleting
<1>7. Listed(p)'
  BY <1>3 DEF Listed
<1> QED BY <1>2, <1>3, <1>5, <1>6, <1>7, OwnStep

\* The calls once page p has a page of its listing, rest being what was left of it.
After(p, rest, page) ==
  [call EXCEPT ![p].listed = @ \cup page, ![p].attempt = 0,
     ![p].pc = IF LastPage(rest) THEN "idle" ELSE "sent",
     ![p].key = IF LastPage(rest) THEN @ ELSE CHOOSE k \in page : \A j \in page : j <= k]

LEMMA AnsweredKeeps ==
  ASSUME S3Inv, S3Assumption, Watched, NEW p \in Pages, Answered(p)
  PROVE  S3Inv'
<1>1. Typed /\ Listed(p) /\ call[p] \in Calls
  BY DEF S3Inv, Typed
<1>2. Reading(p) /\ UNCHANGED <<objects, request, out, late>>
  BY DEF Answered
<1>3. CASE call[p].op = "get"
  <2>1. call' = [call EXCEPT ![p].pc = "idle"]
    BY <1>3 DEF Answered
  <2>2. PICK n \in Calls : n = [call[p] EXCEPT !.pc = "idle"]
    BY <1>1 DEF Calls
  <2>3. /\ call' = [call EXCEPT ![p] = n] /\ n.op = "get" /\ n.pc = "idle"
        /\ n.left = call[p].left /\ n.reclaimed = call[p].reclaimed /\ n.retained = call[p].retained
    BY <1>1, <1>3, <2>1, <2>2 DEF Typed, Calls
  <2> QED BY <1>2, <2>3, ReadStep
<1>4. CASE call[p].op = "list"
  <2>1. call[p].pc = "sent" /\ call[p].listed \subseteq ever[p] /\ always[p] \subseteq Held(objects)
        /\ \A k \in always[p] : k <= call[p].key => k \in call[p].listed
    BY <1>1, <1>2, <1>4 DEF Listed, Reading
  <2>2. always'[p] = always[p] /\ ever'[p] = ever[p] \cup Held(objects)
    <3>1. Held(objects') = Held(objects)
      BY <1>2
    <3>2. /\ always'[p] = always[p] \cap Held(objects')
          /\ ever'[p] = ever[p] \cup Held(objects')
      BY <1>4, <2>1 DEF Watched, Listing
    <3> QED BY <2>1, <3>1, <3>2
  <2>3. PICK rest : rest = {k \in Held(objects) : k > call[p].key}
    OBVIOUS
  <2>4. rest \in SUBSET Keys /\ rest \subseteq Held(objects)
    BY <2>3 DEF Held
  <2>5. call' = After(p, rest, PageOf(rest))
    <3>1. PICK keys \in {{k \in Held(objects) : k > call[p].key}} :
            \E page \in {{k \in keys : Cardinality({j \in keys : j < k}) < PageSize}} :
              call' = After(p, keys, page)
      BY <1>4, Zenon DEF Answered, After
    <3>2. keys = rest
      BY <2>3
    <3>3. {k \in keys : Cardinality({j \in keys : j < k}) < PageSize} = PageOf(keys)
      BY DEF PageOf
    <3> QED BY <3>1, <3>2, <3>3
  <2>6. \A k \in always[p] : k <= call[p].key \/ k \in rest
    <3>1. ASSUME NEW k \in always[p]
          PROVE  k <= call[p].key \/ k \in rest
      <4>1. k \in Held(objects) /\ k \in Nat /\ call[p].key \in Nat
        BY <1>1, <2>1 DEF Held, S3Assumption, Calls
      <4>2. k <= call[p].key \/ k > call[p].key
        BY <4>1
      <4> QED BY <2>3, <4>1, <4>2
    <3> QED BY <3>1
  <2>7. PageOf(rest) \in SUBSET Keys /\ PageOf(rest) \subseteq Held(objects)
    BY <2>4, PageFacts
  <2>8. CASE LastPage(rest)
    <3>1. PageOf(rest) = rest
      BY <2>4, <2>8, PageFacts
    <3>2. PICK n \in Calls : n = [call[p] EXCEPT !.listed = @ \cup rest, !.attempt = 0, !.pc = "idle"]
      <4>1. PICK l \in SUBSET Keys, a \in 0..2 : l = call[p].listed \cup rest /\ a = 0
        <5>1. call[p].listed \in SUBSET Keys
          BY <1>1 DEF Calls
        <5>2. call[p].listed \cup rest \in SUBSET Keys
          BY <2>4, <5>1
        <5>3. 0 \in 0..2
          OBVIOUS
        <5> QED BY <5>2, <5>3, Zenon
      <4>2. [call[p] EXCEPT !.listed = l, !.attempt = a, !.pc = "idle"] \in Calls
        BY <1>1 DEF Calls
      <4> QED BY <4>1, <4>2
    <3>3. /\ call' = [call EXCEPT ![p] = n] /\ n.op = "list" /\ n.pc = "idle"
          /\ n.listed = call[p].listed \cup rest
          /\ n.left = call[p].left /\ n.reclaimed = call[p].reclaimed /\ n.retained = call[p].retained
      <4>1. call' = [call EXCEPT ![p] = n]
        BY <1>1, <2>5, <2>8, <3>1, <3>2 DEF Typed, Calls, After
      <4> QED BY <1>1, <1>4, <3>2, <4>1 DEF Calls
    <3>4. call'[p] = n
      BY <1>1, <3>3 DEF Typed
    <3>5. n.listed \subseteq ever'[p]
      BY <2>1, <2>2, <2>4, <3>3
    <3>6. always'[p] \subseteq n.listed
      BY <2>1, <2>2, <2>6, <3>3
    <3>7. Listed(p)'
      BY <3>3, <3>4, <3>5, <3>6 DEF Listed
    <3> QED BY <1>2, <3>3, <3>7, ReadStep
  <2>9. CASE ~LastPage(rest)
    <3>1. PICK m \in PageOf(rest) :
            /\ \A k \in rest : k <= m => k \in PageOf(rest)
            /\ (CHOOSE k \in PageOf(rest) : \A j \in PageOf(rest) : j <= k) = m
      BY <2>4, <2>9, PageFacts
    <3>2. m \in Nat
      BY <2>7 DEF S3Assumption
    <3>3. PICK n \in Calls :
            n = [call[p] EXCEPT !.listed = @ \cup PageOf(rest), !.attempt = 0, !.pc = "sent", !.key = m]
      <4>1. PICK l \in SUBSET Keys, a \in 0..2 : l = call[p].listed \cup PageOf(rest) /\ a = 0
        <5>1. call[p].listed \in SUBSET Keys
          BY <1>1 DEF Calls
        <5>2. call[p].listed \cup PageOf(rest) \in SUBSET Keys
          BY <2>7, <5>1
        <5>3. 0 \in 0..2
          OBVIOUS
        <5> QED BY <5>2, <5>3, Zenon
      <4>2. [call[p] EXCEPT !.listed = l, !.attempt = a, !.pc = "sent", !.key = m] \in Calls
        BY <1>1, <3>2 DEF Calls
      <4> QED BY <4>1, <4>2
    <3>4. /\ call' = [call EXCEPT ![p] = n] /\ n.op = "list" /\ n.pc = "sent" /\ n.key = m
          /\ n.listed = call[p].listed \cup PageOf(rest)
          /\ n.left = call[p].left /\ n.reclaimed = call[p].reclaimed /\ n.retained = call[p].retained
      <4>1. call' = [call EXCEPT ![p].listed = @ \cup PageOf(rest), ![p].attempt = 0,
                       ![p].pc = "sent", ![p].key = m]
        BY <2>5, <2>9, <3>1 DEF After
      <4>2. call' = [call EXCEPT ![p] = n]
        BY <1>1, <3>3, <4>1 DEF Typed, Calls
      <4> QED BY <1>1, <1>4, <3>3, <4>2 DEF Calls
    <3>5. call'[p] = n
      BY <1>1, <3>4 DEF Typed
    <3>6. n.listed \subseteq ever'[p] /\ always'[p] \subseteq Held(objects)
      BY <2>1, <2>2, <2>7, <3>4
    <3>7. ASSUME NEW k \in always'[p], k <= m
          PROVE  k \in n.listed
      BY <2>1, <2>2, <2>6, <3>1, <3>4, <3>7
    <3>8. Held(objects)' = Held(objects)
      BY <1>2 DEF Held
    <3>9. Listed(p)'
      BY <3>4, <3>5, <3>6, <3>7, <3>8 DEF Listed
    <3> QED BY <1>2, <3>4, <3>9, ReadStep
  <2> QED BY <2>8, <2>9
<1> QED BY <1>2, <1>3, <1>4 DEF Reading

LEMMA UnansweredKeeps ==
  ASSUME S3Inv, Watched, NEW p \in Pages, Unanswered(p)
  PROVE  S3Inv'
<1>1. Typed /\ Listed(p) /\ Sent(p) /\ Receipts(p) /\ call[p] \in Calls
  BY DEF S3Inv, Typed
<1>2. /\ Reading(p) /\ UNCHANGED <<objects, request, out, late>>
      /\ call' = IF call[p].attempt < 2 THEN [call EXCEPT ![p].attempt = @ + 1]
                                        ELSE [call EXCEPT ![p] = NoCall]
  BY DEF Unanswered
<1>3. CASE call[p].attempt < 2
  <2>1. call[p].attempt + 1 \in 0..2
    BY <1>1, <1>3 DEF Calls
  <2>2. PICK n \in Calls : n = [call[p] EXCEPT !.attempt = @ + 1]
    BY <1>1, <2>1 DEF Calls
  <2>3. /\ call' = [call EXCEPT ![p] = n] /\ n.op = call[p].op /\ n.pc = call[p].pc
        /\ n.key = call[p].key /\ n.listed = call[p].listed
        /\ n.left = call[p].left /\ n.reclaimed = call[p].reclaimed /\ n.retained = call[p].retained
    <3>1. call' = [call EXCEPT ![p] = n]
      BY <1>1, <1>2, <1>3, <2>2 DEF Typed
    <3> QED BY <1>1, <2>2, <3>1 DEF Calls
  <2>4. call'[p] = n
    BY <1>1, <2>3 DEF Typed
  <2>5. Listed(p)'
    BY <1>1, <2>3, <2>4, ListedStays
  <2>6. n.op \in {"none", "get", "list"} /\ n.pc # "next"
    BY <1>2, <2>3 DEF Reading
  <2> QED BY <1>2, <2>3, <2>5, <2>6, ReadStep
<1>4. CASE ~(call[p].attempt < 2)
  <2>1. PICK n \in Calls : n = NoCall
    BY NoCallTyped
  <2>2. /\ call' = [call EXCEPT ![p] = n] /\ n.op = "none" /\ n.pc = "idle"
        /\ n.left = {} /\ n.reclaimed = {} /\ n.retained = {}
    BY <1>2, <1>4, <2>1, NoCallTyped
  <2>3. PICK r \in Writes \cup {NoRequest}, l \in Writes \cup {NoRequest}, o \in Outcomes :
          r = request[p] /\ l = late[p] /\ o = out[p]
    BY <1>1 DEF Typed
  <2>4. /\ request' = [request EXCEPT ![p] = r] /\ late' = [late EXCEPT ![p] = l]
        /\ out' = [out EXCEPT ![p] = o] /\ objects' \in [Keys -> Contents \cup {None}]
    BY <1>1, <1>2, <2>3 DEF Typed
  <2>5. o # "pending"
    BY <1>1, <1>2, <2>3 DEF Sent, Reading, Writing, Deleting
  <2> QED BY <2>2, <2>4, <2>5, NewCall
<1> QED BY <1>3, <1>4
-------------------------------------------------------------------------------
LEMMA InitInv == ASSUME Init PROVE S3Inv
<1>1. /\ objects = [k \in Keys |-> None] /\ request = [p \in Pages |-> NoRequest]
      /\ out = [p \in Pages |-> "none"] /\ late = [p \in Pages |-> NoRequest]
      /\ call = [p \in Pages |-> NoCall]
  BY DEF Init, Contract!Init, NoRequest
<1>2. Typed
  BY <1>1, NoCallTyped DEF Typed, Outcomes
<1>3. ASSUME NEW p \in Pages
      PROVE  Sent(p) /\ Receipts(p) /\ Listed(p)
  BY <1>1, NoCallTyped DEF Sent, Receipts, Listed, Writing, Deleting
<1> QED BY <1>2, <1>3 DEF S3Inv

LEMMA NextKeepsInv == ASSUME S3Inv, S3Assumption, [Next]_vars PROVE S3Inv'
<1>1. CASE Next
  <2>1. PICK p \in Pages :
          \/ Invoke(p) \/ NextKey(p) \/ Receipt(p) \/ Respond(p) \/ Conflict(p) \/ Unsigned(p)
          \/ WriteLost(p) \/ Delete(p) \/ DeleteAborted(p) \/ Arrive(p)
          \/ Answered(p) \/ Unanswered(p)
    BY <1>1 DEF Next
  <2>2. Watched
    BY <1>1 DEF Next
  <2> QED BY <2>1, <2>2, InvokeKeeps, NextKeyKeeps, ReceiptKeeps, RespondKeeps, DeleteKeeps,
             ArriveKeeps, AnsweredKeeps, UnansweredKeeps
<1>2. CASE UNCHANGED vars
  BY <1>2 DEF vars, S3Inv, Typed, Sent, Receipts, Listed, Writing, Deleting, Held
<1> QED BY <1>1, <1>2

\* S3Inv holds throughout, under any interleaving of the pages' calls and any faults.
THEOREM S3Inductive == ASSUME S3Assumption PROVE Spec => []S3Inv
<1>1. Init => S3Inv
  BY InitInv
<1>2. S3Inv /\ [Next]_vars => S3Inv'
  BY NextKeepsInv
<1> QED BY <1>1, <1>2, PTL DEF Spec

\* A page has one write in flight at most, sends nothing more than three times, and a trash
\* receipt (reclaimed, retained) names no key twice.
THEOREM S3Typed == ASSUME S3Assumption PROVE Spec => []TypeOK
<1>1. S3Inv => TypeOK
  BY DEF S3Inv, Typed, Sent, Receipts, TypeOK, Calls
<1> QED BY <1>1, S3Inductive, PTL

\* A listing that returns holds every key that was there from its call to its return and no
\* key that never was, whatever the page size and however keys come and go between pages:
\* the continuation token skips nothing that was listable all along.
THEOREM ListingsSound == ASSUME S3Assumption PROVE Spec => []ListingsAreSound
<1>1. S3Inv => ListingsAreSound
  BY DEF S3Inv, Listed, ListingsAreSound
<1> QED BY <1>1, S3Inductive, PTL
-------------------------------------------------------------------------------
(* Refinement of ObjectStore *)

\* One object set by a request on one key is what the contract's Apply does.
LEMMA OneKeyApplies ==
  ASSUME NEW r \in Writes, NEW k \in Keys, r.keys = {k},
         objects \in [Keys -> Contents \cup {None}],
         \/ r.op = "put" /\ objects[k] = None
         \/ r.op = "cas" /\ objects[k] = r.expected
         \/ r.op = "trash" /\ objects[k] # None,
         objects' = [objects EXCEPT ![k] = r.content]
  PROVE  Contract!Apply(r)
<1>1. Contract!Applies(r)
  BY DEF Contract!Applies
<1>2. objects' = [j \in Keys |-> IF j \in r.keys THEN r.content ELSE objects[j]]
  OBVIOUS
<1> QED BY <1>1, <1>2 DEF Contract!Apply

\* A conditional write that is applied took its effect as the contract has it, or is refused.
LEMMA WriteEffect ==
  ASSUME S3Inv, NEW p \in Pages, Writing(p), Applied(p)
  PROVE  \/ /\ Contract!Apply(request[p])
            /\ Answer(p) = Contract!Answers(request[p])
         \/ /\ UNCHANGED objects
            /\ \E k \in request[p].keys, answer \in {"exists", "mismatch", "missing"} :
                 /\ Answer(p) = answer
                 /\ CASE answer = "exists" -> request[p].op = "put" /\ objects[k] # None
                      [] answer = "missing" -> request[p].op = "cas" /\ objects[k] = None
                      [] answer = "mismatch" ->
                           request[p].op = "cas" /\ objects[k] \notin {None, request[p].expected}
<1>1. Typed /\ Sent(p)
  BY DEF S3Inv
<1>2. PICK r \in Writes, k \in Keys : r = request[p] /\ k = call[p].key
  BY <1>1 DEF Sent
<1>3. r.keys = {k} /\ r.op \in {"put", "cas"} /\ objects \in [Keys -> Contents \cup {None}]
  BY <1>1, <1>2 DEF Sent, Typed, Writing
<1>4. r.op = "cas" => r.expected # None
  BY WriteFacts
<1>5. Answer(p) = CASE r.op = "put" /\ objects[k] = None -> "created"
                    [] r.op = "put" /\ objects[k] # None -> "exists"
                    [] r.op = "cas" /\ objects[k] = None -> "missing"
                    [] r.op = "cas" /\ objects[k] = r.expected -> "updated"
                    [] OTHER -> "mismatch"
  BY <1>2, Zenon DEF Answer
<1>6. objects' = IF Answer(p) \in {"created", "updated"}
                   THEN [objects EXCEPT ![k] = r.content] ELSE objects
  BY <1>2 DEF Applied
<1>7. CASE r.op = "put" /\ objects[k] = None
  <2>1. Answer(p) = "created"
    BY <1>5, <1>7
  <2>2. Contract!Apply(r)
    BY <1>3, <1>6, <1>7, <2>1, OneKeyApplies
  <2>3. Contract!Answers(r) = "created"
    BY <1>7 DEF Contract!Answers
  <2> QED BY <1>2, <2>1, <2>2, <2>3
<1>8. CASE r.op = "cas" /\ objects[k] = r.expected
  <2>1. Answer(p) = "updated"
    BY <1>4, <1>5, <1>8
  <2>2. Contract!Apply(r)
    BY <1>3, <1>6, <1>8, <2>1, OneKeyApplies
  <2>3. Contract!Answers(r) = "updated"
    BY <1>8 DEF Contract!Answers
  <2> QED BY <1>2, <2>1, <2>2, <2>3
<1>9. CASE r.op = "put" /\ objects[k] # None
  <2>1. Answer(p) = "exists"
    BY <1>5, <1>9
  <2>2. UNCHANGED objects
    BY <1>6, <2>1
  <2> QED BY <1>2, <1>3, <1>9, <2>1, <2>2
<1>10. CASE r.op = "cas" /\ objects[k] = None
  <2>1. Answer(p) = "missing"
    BY <1>4, <1>5, <1>10
  <2>2. UNCHANGED objects
    BY <1>6, <2>1
  <2> QED BY <1>2, <1>3, <1>10, <2>1, <2>2
<1>11. CASE r.op = "cas" /\ objects[k] \notin {None, r.expected}
  <2>1. Answer(p) = "mismatch"
    BY <1>5, <1>11
  <2>2. UNCHANGED objects
    BY <1>6, <2>1
  <2> QED BY <1>2, <1>3, <1>11, <2>1, <2>2
<1> QED BY <1>3, <1>7, <1>8, <1>9, <1>10, <1>11

\* The steps of the contract that the bucket may take for page p, or none.
Contracted(p) ==
  \/ Contract!Invoke(p) \/ Contract!Take(p) \/ Contract!Refuse(p) \/ Contract!Nothing(p)
  \/ Contract!Fail(p) \/ Contract!Arrive(p) \/ UNCHANGED <<objects, request, out, late>>

LEMMA InvokeRefines ==
  ASSUME S3Inv, NEW p \in Pages, Invoke(p) \/ NextKey(p)
  PROVE  Contracted(p)
<1>1. Typed /\ Sent(p)
  BY DEF S3Inv
<1>2. out[p] # "pending" /\ UNCHANGED <<objects, late>>
  BY <1>1 DEF Sent, Writing, Deleting, Invoke, NextKey
<1>3. ASSUME NEW r \in Writes, request' = [request EXCEPT ![p] = r], out' = [out EXCEPT ![p] = "pending"]
      PROVE  Contracted(p)
  <2>1. r \in Contract!Requests
    BY WriteFacts
  <2>2. Contract!Invoke(p)
    BY <1>2, <1>3, <2>1 DEF Contract!Invoke
  <2> QED BY <2>2 DEF Contracted
<1>4. CASE Invoke(p)
  <2>1. \/ \E op \in Ops \cap {"put", "cas"}, k \in Keys, expected \in Contents \cup {None}, c \in Contents :
             /\ op = "put" <=> expected = None
             /\ request' = [request EXCEPT ![p] = WriteRequest(op, k, expected, c)]
             /\ out' = [out EXCEPT ![p] = "pending"]
        \/ UNCHANGED <<request, out>>
    BY <1>4, Zenon DEF Invoke
  <2>2. ASSUME NEW op \in {"put", "cas"}, NEW k \in Keys, NEW expected \in Contents \cup {None},
               NEW c \in Contents, op = "put" <=> expected = None
        PROVE  WriteRequest(op, k, expected, c) \in Writes
    BY <2>2 DEF Writes, Puts, Swaps
  <2>3. CASE UNCHANGED <<request, out>>
    BY <1>2, <2>3 DEF Contracted
  <2> QED BY <1>3, <2>1, <2>2, <2>3
<1>5. CASE NextKey(p)
  <2>1. PICK k \in call[p].left :
          /\ request' = [request EXCEPT ![p] = WriteRequest("trash", k, None, None)]
          /\ out' = [out EXCEPT ![p] = "pending"]
    BY <1>5 DEF NextKey
  <2>2. k \in Keys
    BY <1>1 DEF Typed, Calls
  <2>3. WriteRequest("trash", k, None, None) \in Writes
    BY <2>2 DEF Writes, Deletes
  <2> QED BY <1>3, <2>1, <2>3
<1> QED BY <1>4, <1>5

LEMMA WriteRefines ==
  ASSUME S3Inv, NEW p \in Pages, Respond(p) \/ Conflict(p) \/ Unsigned(p) \/ WriteLost(p)
  PROVE  Contracted(p)
<1>1. Typed /\ Sent(p)
  BY DEF S3Inv
<1>2. Writing(p) /\ UNCHANGED request
  BY DEF Respond, Conflict, Unsigned, WriteLost
<1>3. out[p] = "pending"
  BY <1>1, <1>2 DEF Sent
<1>4. CASE Respond(p)
  <2>1. Applied(p) /\ out' = [out EXCEPT ![p] = Answer(p)] /\ UNCHANGED <<request, late>>
    BY <1>4 DEF Respond
  <2>2. CASE Contract!Apply(request[p]) /\ Answer(p) = Contract!Answers(request[p])
    <3>1. Contract!Take(p)
      BY <1>3, <2>1, <2>2 DEF Contract!Take
    <3> QED BY <3>1 DEF Contracted
  <2>3. ASSUME UNCHANGED objects, NEW k \in request[p].keys,
               NEW answer \in {"exists", "mismatch", "missing"}, Answer(p) = answer,
               CASE answer = "exists" -> request[p].op = "put" /\ objects[k] # None
                 [] answer = "missing" -> request[p].op = "cas" /\ objects[k] = None
                 [] answer = "mismatch" ->
                      request[p].op = "cas" /\ objects[k] \notin {None, request[p].expected}
        PROVE  Contracted(p)
    <3>1. out' = [out EXCEPT ![p] = answer]
      BY <2>1, <2>3
    <3>2. Contract!Refuse(p)
      BY <1>3, <2>1, <2>3, <3>1, Zenon DEF Contract!Refuse
    <3> QED BY <3>2 DEF Contracted
  <2> QED BY <1>2, <2>1, <2>2, <2>3, WriteEffect
<1>5. CASE Conflict(p) \/ Unsigned(p)
  <2>1. UNCHANGED <<objects, request, late>> /\ (UNCHANGED out \/ out' = [out EXCEPT ![p] = "failed"])
    BY <1>5 DEF Conflict, Unsigned, WriteFailed
  <2>2. CASE UNCHANGED out
    BY <2>1, <2>2 DEF Contracted
  <2>3. CASE out' = [out EXCEPT ![p] = "failed"]
    BY <1>3, <2>1, <2>3 DEF Contracted, Contract!Fail
  <2> QED BY <2>1, <2>2, <2>3
<1>6. CASE WriteLost(p)
  <2>1. out' = [out EXCEPT ![p] = "failed"] /\ UNCHANGED request
    BY <1>6 DEF WriteLost, WriteFailed
  <2>2. \/ UNCHANGED <<objects, late>>
        \/ Applied(p) /\ UNCHANGED late
        \/ late' = [late EXCEPT ![p] = request[p]] /\ UNCHANGED objects
    BY <1>6 DEF WriteLost
  <2>3. ASSUME Applied(p)
        PROVE  Contract!Apply(request[p]) \/ UNCHANGED objects
    BY <1>2, <2>3, WriteEffect
  <2>4. Contract!Fail(p)
    BY <1>3, <2>1, <2>2, <2>3 DEF Contract!Fail
  <2> QED BY <2>4 DEF Contracted
<1> QED BY <1>4, <1>5, <1>6

LEMMA DeleteRefines ==
  ASSUME S3Inv, NEW p \in Pages, Delete(p) \/ DeleteAborted(p)
  PROVE  Contracted(p)
<1>1. Typed /\ Sent(p)
  BY DEF S3Inv
<1>2. Deleting(p) /\ UNCHANGED request
  BY DEF Delete, DeleteAborted
<1>3. out[p] = "pending"
  BY <1>1, <1>2 DEF Sent
<1>4. PICK r \in Writes, k \in Keys : r = request[p] /\ k = call[p].key
  BY <1>1, <1>2 DEF Sent
<1>5. r.keys = {k} /\ r.op = "trash" /\ objects \in [Keys -> Contents \cup {None}]
  BY <1>1, <1>2, <1>4 DEF Sent, Typed, Deleting
<1>6. r.content = None
  BY <1>5, WriteFacts
<1> DEFINE gone == [objects EXCEPT ![k] = None]
<1>7. ASSUME objects' = gone
      PROVE  Contract!Apply(r) \/ (UNCHANGED objects /\ objects[k] = None)
  <2>1. CASE objects[k] # None
    BY <1>5, <1>6, <1>7, <2>1, OneKeyApplies
  <2>2. CASE objects[k] = None
    BY <1>5, <1>7, <2>2
  <2> QED BY <2>1, <2>2
<1>8. CASE /\ out' = [out EXCEPT ![p] = "failed"]
           /\ \/ UNCHANGED <<objects, late>>
              \/ objects' = gone /\ UNCHANGED late
              \/ late' = [late EXCEPT ![p] = request[p]] /\ UNCHANGED objects
  <2> HIDE DEF gone
  <2>1. Contract!Fail(p)
    BY <1>2, <1>3, <1>4, <1>7, <1>8 DEF Contract!Fail
  <2> QED BY <2>1 DEF Contracted
<1>9. CASE out' = [out EXCEPT ![p] = "removed"] /\ objects' = gone /\ UNCHANGED late
  <2> HIDE DEF gone
  <2>1. CASE Contract!Apply(r)
    <3>1. Contract!Answers(r) = "removed"
      BY <1>5 DEF Contract!Answers
    <3>2. Contract!Take(p)
      BY <1>2, <1>3, <1>4, <1>9, <2>1, <3>1 DEF Contract!Take
    <3> QED BY <3>2 DEF Contracted
  <2>2. CASE UNCHANGED objects /\ objects[k] = None
    <3>1. Contract!Nothing(p)
      BY <1>2, <1>3, <1>4, <1>5, <1>9, <2>2 DEF Contract!Nothing
    <3> QED BY <3>1 DEF Contracted
  <2> QED BY <1>7, <1>9, <2>1, <2>2
<1>10. CASE Delete(p)
  <2>1. \/ /\ out' = [out EXCEPT ![p] = "failed"]
           /\ \/ UNCHANGED <<objects, late>>
              \/ objects' = gone /\ UNCHANGED late
              \/ late' = [late EXCEPT ![p] = request[p]] /\ UNCHANGED objects
        \/ out' = [out EXCEPT ![p] = "removed"] /\ objects' = gone /\ UNCHANGED late
    BY <1>4, <1>10 DEF Delete, Deleted
  <2> QED BY <1>8, <1>9, <2>1
<1>11. CASE DeleteAborted(p)
  BY <1>4, <1>8, <1>11 DEF DeleteAborted
<1> QED BY <1>10, <1>11

LEMMA ArriveRefines ==
  ASSUME S3Inv, NEW p \in Pages, Arrive(p)
  PROVE  Contracted(p)
<1>1. Typed
  BY DEF S3Inv
<1>2. /\ late[p] # NoRequest /\ late' = [late EXCEPT ![p] = NoRequest] /\ UNCHANGED <<request, out>>
  BY DEF Arrive
<1>3. PICK r \in Writes : r = late[p]
  BY <1>1, <1>2 DEF Typed
<1>4. PICK k \in Keys : r.keys = {k}
  BY WriteFacts
<1>5. r.op \in {"put", "cas", "trash"}
  BY WriteFacts
<1>6. CASE UNCHANGED objects
  BY <1>2, <1>6 DEF Contracted, Contract!Arrive, NoRequest
<1>7. CASE /\ CASE r.op = "put" -> objects[k] = None [] r.op = "cas" -> objects[k] = r.expected
                [] r.op = "trash" -> objects[k] # None
           /\ objects' = [objects EXCEPT ![k] = r.content]
  <2>1. Contract!Apply(r)
    <3>1. \/ r.op = "put" /\ objects[k] = None
          \/ r.op = "cas" /\ objects[k] = r.expected
          \/ r.op = "trash" /\ objects[k] # None
      BY <1>5, <1>7
    <3>2. objects \in [Keys -> Contents \cup {None}]
      BY <1>1 DEF Typed
    <3> QED BY <1>4, <1>7, <3>1, <3>2, OneKeyApplies
  <2>2. Contract!Arrive(p)
    BY <1>2, <1>3, <2>1 DEF Contract!Arrive, NoRequest
  <2> QED BY <2>2 DEF Contracted
<1>8. \/ UNCHANGED objects
      \/ /\ CASE r.op = "put" -> objects[k] = None [] r.op = "cas" -> objects[k] = r.expected
              [] r.op = "trash" -> objects[k] # None
         /\ objects' = [objects EXCEPT ![k] = r.content]
  BY <1>3, <1>4 DEF Arrive
<1> QED BY <1>6, <1>7, <1>8

\* storage/s3-object-store.ts implements object-store.ts: every step is one of the contract's
\* or leaves what the contract sees unchanged, a retried conflict, a lost answer and a write
\* that arrives late included.
THEOREM S3KeepsContract == ASSUME S3Assumption PROVE Spec => KeepsContract
<1>1. Init => Contract!Init
  BY DEF Init
<1>2. S3Inv /\ [Next]_vars => [Contract!Next]_(Contract!vars)
  <2> SUFFICES ASSUME S3Inv, [Next]_vars
               PROVE  [Contract!Next]_(Contract!vars)
    OBVIOUS
  <2>1. CASE Next
    <3>1. PICK p \in Pages :
            \/ Invoke(p) \/ NextKey(p) \/ Receipt(p) \/ Respond(p) \/ Conflict(p) \/ Unsigned(p)
            \/ WriteLost(p) \/ Delete(p) \/ DeleteAborted(p) \/ Arrive(p)
            \/ Answered(p) \/ Unanswered(p)
      BY <2>1 DEF Next
    <3>2. ASSUME Receipt(p) \/ Answered(p) \/ Unanswered(p)
          PROVE  Contracted(p)
      BY <3>2 DEF Receipt, Answered, Unanswered, Contracted
    <3>3. Contracted(p)
      BY <3>1, <3>2, InvokeRefines, WriteRefines, DeleteRefines, ArriveRefines
    <3> QED BY <3>3 DEF Contracted, Contract!Next, Contract!vars
  <2>2. CASE UNCHANGED vars
    BY <2>2 DEF vars, Contract!vars
  <2> QED BY <2>1, <2>2
<1> QED BY <1>1, <1>2, S3Inductive, PTL DEF Spec, KeepsContract, Contract!Spec
===============================================================================
