-------------------------------- MODULE S3Store --------------------------------
(***************************************************************************)
(* storage/s3-object-store.ts over a bucket that answers conditional       *)
(* writes.  Pages write, read, trash and list at once; a request may go    *)
(* unsigned for want of fresh credentials, be refused, conflict with a     *)
(* concurrent one, or lose its answer before or after it took effect.      *)
(*                                                                         *)
(* A request and the code that runs on its answer are one step.  Keys are  *)
(* numbers, for the order of a listing; a listing page holds PageSize keys *)
(* of the bucket as it is when the page is asked for.                      *)
(***************************************************************************)
EXTENDS Integers, FiniteSets

CONSTANTS Pages, Keys, Contents, None,
          Ops,       \* "put", "cas", "trash", "get", "list"
          Faults,    \* "conflict", "status", "lost", "credentials", "etag", "abort"
          PageSize, MaxCalls, MaxFaults

\* A listing starts after 0, before every key.
S3Assumption == Keys \subseteq Nat \ {0} /\ IsFiniteSet(Keys) /\ PageSize \in Nat \ {0}

VARIABLES objects,   \* the object of each key
          request,   \* each page's write request, open or last finished
          out,       \* its outcome, "pending" while it is open
          late,      \* a request each page gave up on that may still arrive
          call,      \* each page's call
          always, ever,  \* keys held throughout, or at a moment of, a page's listing
          calls, faults

vars == <<objects, request, out, late, call, always, ever, calls, faults>>

Contract == INSTANCE ObjectStore
NoRequest == Contract!NoRequest

NoCall == [op |-> "none", pc |-> "idle", attempt |-> 0, left |-> {}, key |-> 0,
           listed |-> {}, reclaimed |-> {}, retained |-> {}]

Init ==
  /\ Contract!Init
  /\ call = [p \in Pages |-> NoCall]
  /\ always = [p \in Pages |-> {}] /\ ever = [p \in Pages |-> {}]
  /\ calls = 0 /\ faults = 0

Held(store) == {k \in Keys : store[k] # None}
Fault(f) == f \in Faults /\ faults < MaxFaults /\ faults' = faults + 1

WriteRequest(op, k, expected, content) ==
  [op |-> op, keys |-> {k}, expected |-> expected, content |-> content]

Invoke(p) ==
  /\ call[p].pc = "idle" /\ calls < MaxCalls /\ calls' = calls + 1
  /\ UNCHANGED <<objects, late, faults>>
  /\ \/ \E op \in Ops \cap {"put", "cas"}, k \in Keys, expected \in Contents \cup {None}, c \in Contents :
          /\ op = "put" <=> expected = None
          /\ request' = [request EXCEPT ![p] = WriteRequest(op, k, expected, c)]
          /\ out' = [out EXCEPT ![p] = "pending"]
          /\ call' = [call EXCEPT ![p] = [NoCall EXCEPT !.op = op, !.pc = "sent", !.key = k]]
     \/ \E op \in Ops \cap {"get", "list"}, k \in Keys :
          /\ call' = [call EXCEPT ![p] =
               [NoCall EXCEPT !.op = op, !.pc = "sent", !.key = IF op = "list" THEN 0 ELSE k]]
          /\ UNCHANGED <<request, out>>
     \/ \E keys \in (SUBSET Keys) \ {{}} :
          /\ "trash" \in Ops
          /\ call' = [call EXCEPT ![p] = [NoCall EXCEPT !.op = "trash", !.pc = "next", !.left = keys]]
          /\ UNCHANGED <<request, out>>

\* trash: one DELETE per key, in the order of the call.
NextKey(p) ==
  /\ call[p].pc = "next" /\ call[p].left # {}
  /\ \E k \in call[p].left :
       /\ call' = [call EXCEPT ![p].pc = "sent", ![p].key = k, ![p].left = @ \ {k}]
       /\ request' = [request EXCEPT ![p] = WriteRequest("trash", k, None, None)]
       /\ out' = [out EXCEPT ![p] = "pending"]
  /\ UNCHANGED <<objects, late, calls, faults>>

Receipt(p) ==
  /\ call[p].pc = "next" /\ call[p].left = {}
  /\ call' = [call EXCEPT ![p].pc = "idle"]
  /\ UNCHANGED <<objects, request, out, late, calls, faults>>

Writing(p) == call[p].pc = "sent" /\ call[p].op \in {"put", "cas"}
Deleting(p) == call[p].pc = "sent" /\ call[p].op = "trash"
Reading(p) == call[p].pc = "sent" /\ call[p].op \in {"get", "list"}

\* The bucket's answer to a conditional PUT: 200, 412 or 404.
Answer(p) ==
  LET r == request[p]  held == objects[call[p].key]
  IN  CASE r.op = "put" /\ held = None -> "created"
        [] r.op = "put" /\ held # None -> "exists"
        [] r.op = "cas" /\ held = None -> "missing"
        [] r.op = "cas" /\ held = r.expected -> "updated"
        [] OTHER -> "mismatch"

Applied(p) ==
  objects' = IF Answer(p) \in {"created", "updated"}
               THEN [objects EXCEPT ![call[p].key] = request[p].content] ELSE objects

Respond(p) ==
  /\ Writing(p)
  /\ Applied(p)
  /\ out' = [out EXCEPT ![p] = Answer(p)]
  /\ call' = [call EXCEPT ![p].pc = "idle"]
  /\ UNCHANGED <<request, late, calls, faults>>

WriteFailed(p) ==
  /\ out' = [out EXCEPT ![p] = "failed"]
  /\ call' = [call EXCEPT ![p].pc = "idle"]

\* Fault: a write that took effect unanswered is sent again like one that conflicted.
ConflictBug(p) ==
  /\ Writing(p) /\ Fault("conflict")
  /\ Applied(p)
  /\ IF call[p].attempt < 2
       THEN call' = [call EXCEPT ![p].attempt = @ + 1] /\ UNCHANGED out
       ELSE WriteFailed(p)
  /\ UNCHANGED <<request, late, calls>>

\* 409: another conditional request was in progress; two retries.
Conflict(p) ==
  /\ Writing(p) /\ Fault("conflict")
  /\ IF call[p].attempt < 2
       THEN call' = [call EXCEPT ![p].attempt = @ + 1] /\ UNCHANGED out
       ELSE WriteFailed(p)
  /\ UNCHANGED <<objects, request, late, calls>>

\* No credentials that live long enough: nothing is sent.
Unsigned(p) ==
  /\ Writing(p) /\ Fault("credentials")
  /\ WriteFailed(p)
  /\ UNCHANGED <<objects, request, late, calls>>

\* Another status, no answer, an abort or an answer without an ETag: the write
\* was refused, was applied, or is on its way.
WriteLost(p) ==
  /\ Writing(p) /\ WriteFailed(p)
  /\ \/ (Fault("status") \/ Fault("lost") \/ Fault("abort")) /\ UNCHANGED <<objects, late>>
     \/ (Fault("etag") \/ Fault("lost") \/ Fault("abort")) /\ Applied(p) /\ UNCHANGED late
     \/ /\ (Fault("lost") \/ Fault("abort")) /\ late[p] = NoRequest
        /\ late' = [late EXCEPT ![p] = request[p]]
        /\ UNCHANGED objects
  /\ UNCHANGED <<request, calls>>

Deleted(p, store, outcome, list) ==
  /\ objects' = store
  /\ out' = [out EXCEPT ![p] = outcome]
  /\ call' = [call EXCEPT ![p] = [list EXCEPT !.pc = "next"]]

\* DELETE is idempotent; a refusal or an error keeps the key in the receipt.
Delete(p) ==
  /\ Deleting(p)
  /\ \E gone \in {[objects EXCEPT ![call[p].key] = None]},
        reclaimed \in {[call[p] EXCEPT !.reclaimed = @ \cup {call[p].key}]},
        retained \in {[call[p] EXCEPT !.retained = @ \cup {call[p].key}]} :
       \/ Deleted(p, gone, "removed", reclaimed) /\ UNCHANGED <<late, faults>>
       \/ /\ Fault("status") \/ Fault("credentials") \/ Fault("lost")
          /\ Deleted(p, objects, "failed", retained) /\ UNCHANGED late
       \/ /\ Fault("lost")
          /\ Deleted(p, gone, "failed", retained) /\ UNCHANGED late
       \/ /\ Fault("lost") /\ late[p] = NoRequest
          /\ Deleted(p, objects, "failed", retained)
          /\ late' = [late EXCEPT ![p] = request[p]]
  /\ UNCHANGED <<request, calls>>

\* An abort ends the trash; the keys already removed have no receipt, and the
\* DELETE that was cut off was not sent, was applied or is on its way.
DeleteAborted(p) ==
  /\ Deleting(p) /\ Fault("abort")
  /\ out' = [out EXCEPT ![p] = "failed"]
  /\ call' = [call EXCEPT ![p].pc = "idle"]
  /\ \/ UNCHANGED <<objects, late>>
     \/ objects' = [objects EXCEPT ![call[p].key] = None] /\ UNCHANGED late
     \/ /\ late[p] = NoRequest
        /\ late' = [late EXCEPT ![p] = request[p]]
        /\ UNCHANGED objects
  /\ UNCHANGED <<request, calls>>

Arrive(p) ==
  /\ late[p] # NoRequest
  /\ late' = [late EXCEPT ![p] = NoRequest]
  /\ \/ \E r \in {late[p]} :
          \E k \in r.keys :
            /\ CASE r.op = "put" -> objects[k] = None [] r.op = "cas" -> objects[k] = r.expected
                 [] r.op = "trash" -> objects[k] # None
            /\ objects' = [objects EXCEPT ![k] = r.content]
     \/ UNCHANGED objects
  /\ UNCHANGED <<request, out, call, calls, faults>>

\* Fault: a truncated page is taken for the last.
LastPageBug(rest) == TRUE

\* The page ends the listing: the bucket does not say that it was truncated.
LastPage(rest) == Cardinality(rest) <= PageSize

\* get, and the pages of list from the continuation token on.
Answered(p) ==
  /\ Reading(p)
  /\ IF call[p].op = "get" THEN call' = [call EXCEPT ![p].pc = "idle"]
     ELSE \E rest \in {{k \in Held(objects) : k > call[p].key}} :
            \E page \in {{k \in rest : Cardinality({j \in rest : j < k}) < PageSize}} :
              call' = [call EXCEPT ![p].listed = @ \cup page, ![p].attempt = 0,
                         ![p].pc = IF LastPage(rest) THEN "idle" ELSE "sent",
                         ![p].key = IF LastPage(rest) THEN @
                                    ELSE CHOOSE k \in page : \A j \in page : j <= k]
  /\ UNCHANGED <<objects, request, out, late, calls, faults>>

\* A read is sent three times before its caller is told.
Unanswered(p) ==
  /\ Reading(p) /\ (Fault("lost") \/ Fault("status"))
  /\ call' = IF call[p].attempt < 2 THEN [call EXCEPT ![p].attempt = @ + 1]
                                    ELSE [call EXCEPT ![p] = NoCall]
  /\ UNCHANGED <<objects, request, out, late, calls>>

\* What a listing must and may hold, from its call to its return.
Listing(c) == c.op = "list" /\ c.pc = "sent"

Watched ==
  /\ always' = [p \in Pages |->
       CASE Listing(call[p]) -> always[p] \cap Held(objects')
         [] ~Listing(call[p]) /\ Listing(call'[p]) -> Held(objects')
         [] OTHER -> IF call'[p].op = "list" THEN always[p] ELSE {}]
  /\ ever' = [p \in Pages |->
       CASE Listing(call[p]) -> ever[p] \cup Held(objects')
         [] ~Listing(call[p]) /\ Listing(call'[p]) -> Held(objects')
         [] OTHER -> IF call'[p].op = "list" THEN ever[p] ELSE {}]

Next ==
  /\ \E p \in Pages :
       \/ Invoke(p) \/ NextKey(p) \/ Receipt(p) \/ Respond(p) \/ Conflict(p) \/ Unsigned(p)
       \/ WriteLost(p) \/ Delete(p) \/ DeleteAborted(p) \/ Arrive(p)
       \/ Answered(p) \/ Unanswered(p)
  /\ Watched

Spec == Init /\ [][Next]_vars

----
\* Calls, requests and receipts keep their shapes; a page waits for one write at most.
TypeOK ==
  /\ objects \in [Keys -> Contents \cup {None}]
  /\ \A p \in Pages :
       /\ call[p].attempt \in 0..2
       /\ (out[p] = "pending") <=> (Writing(p) \/ Deleting(p))
       /\ call[p].reclaimed \cap call[p].retained = {}

\* Puts, swaps and the deletions of a trash keep the contract of ObjectStore, whatever is
\* lost, conflicts or arrives late.
KeepsContract == Contract!Spec

\* A listing that returns holds every key that was there all along, and none that never was,
\* however keys come and go between its pages.
ListingsAreSound ==
  \A p \in Pages : (call[p].op = "list" /\ call[p].pc = "idle") =>
    call[p].listed \subseteq ever[p] /\ always[p] \subseteq call[p].listed
===============================================================================
