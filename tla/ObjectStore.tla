------------------------------ MODULE ObjectStore ------------------------------
(***************************************************************************)
(* What storage/object-store.ts promises every journal, workspace and      *)
(* queue that is built on it: objects under keys, created if absent and    *)
(* swapped if unchanged, each atomically or not at all, and removed only   *)
(* by trash.  A page has one call open at a time.                          *)
(*                                                                         *)
(* A call that fails may have been applied, may never be, or may still be  *)
(* on its way: late holds the request the page gave up on.  An ETag stands *)
(* for the content it was computed from.                                   *)
(***************************************************************************)
CONSTANTS Pages, Keys, Contents,
          None      \* no object under a key, or no content in a request

VARIABLES objects,  \* the object each key reads as
          request,  \* each page's call, open or last finished
          out,      \* its outcome, "pending" while it is open
          late      \* a request each page gave up on that may still arrive

vars == <<objects, request, out, late>>

NoRequest == [op |-> "none", keys |-> {}, expected |-> None, content |-> None]

Requests ==
  [op : {"put"}, keys : {{k} : k \in Keys}, expected : {None}, content : Contents]
  \cup [op : {"cas"}, keys : {{k} : k \in Keys}, expected : Contents, content : Contents]
  \cup [op : {"trash"}, keys : (SUBSET Keys) \ {{}}, expected : {None}, content : {None}]
  \cup [op : {"sweep"}, keys : {{}}, expected : {None}, content : {None}]

Init ==
  /\ objects = [k \in Keys |-> None]
  /\ request = [p \in Pages |-> NoRequest]
  /\ out = [p \in Pages |-> "none"]
  /\ late = [p \in Pages |-> NoRequest]

\* A write is applied only where its precondition holds; trash where a key is held.
Applies(r) ==
  \/ r.op = "put" /\ \A k \in r.keys : objects[k] = None
  \/ r.op = "cas" /\ \A k \in r.keys : objects[k] = r.expected
  \/ r.op = "trash" /\ \E k \in r.keys : objects[k] # None

Apply(r) ==
  /\ Applies(r)
  /\ objects' = [k \in Keys |-> IF k \in r.keys THEN r.content ELSE objects[k]]

Answers(r) ==
  CASE r.op = "put" -> "created" [] r.op = "cas" -> "updated" [] OTHER -> "removed"

Invoke(p) ==
  /\ out[p] # "pending"
  /\ out' = [out EXCEPT ![p] = "pending"]
  /\ \E r \in Requests : request' = [request EXCEPT ![p] = r]
  /\ UNCHANGED <<objects, late>>

\* The one step that changes an object, taken while the call is open.
Take(p) ==
  /\ out[p] = "pending"
  /\ Apply(request[p])
  /\ out' = [out EXCEPT ![p] = Answers(request[p])]
  /\ UNCHANGED <<request, late>>

\* A refusal is the truth about the key at a moment of the call.
Refuse(p) ==
  /\ out[p] = "pending"
  /\ \E k \in request[p].keys, answer \in {"exists", "mismatch", "missing"} :
       /\ CASE answer = "exists" -> request[p].op = "put" /\ objects[k] # None
            [] answer = "missing" -> request[p].op = "cas" /\ objects[k] = None
            [] answer = "mismatch" ->
                 request[p].op = "cas" /\ objects[k] \notin {None, request[p].expected}
       /\ out' = [out EXCEPT ![p] = answer]
  /\ UNCHANGED <<objects, request, late>>

\* Nothing left to remove, or a sweep of bodies that no key reads as.
Nothing(p) ==
  /\ out[p] = "pending" /\ request[p].op \in {"trash", "sweep"}
  /\ \A k \in request[p].keys : objects[k] = None
  /\ out' = [out EXCEPT ![p] = "removed"]
  /\ UNCHANGED <<objects, request, late>>

\* The caller is told of a failure: the request was applied, is lost, or is late.
Fail(p) ==
  /\ out[p] \in {"pending", "removed"}
  /\ out' = [out EXCEPT ![p] = "failed"]
  /\ UNCHANGED request
  /\ \/ UNCHANGED <<objects, late>>
     \/ out[p] = "pending" /\ Apply(request[p]) /\ UNCHANGED late
     \/ /\ out[p] = "pending"
        /\ late' = [late EXCEPT ![p] = request[p]]
        /\ UNCHANGED objects

\* The late request arrives: it applies if its precondition still holds, or not.
Arrive(p) ==
  /\ late[p] # NoRequest
  /\ late' = [late EXCEPT ![p] = NoRequest]
  /\ Apply(late[p]) \/ UNCHANGED objects
  /\ UNCHANGED <<request, out>>

Next ==
  \E p \in Pages :
    Invoke(p) \/ Take(p) \/ Refuse(p) \/ Nothing(p) \/ Fail(p) \/ Arrive(p)

Spec == Init /\ [][Next]_vars
===============================================================================
