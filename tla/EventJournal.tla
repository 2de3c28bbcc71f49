----------------------------- MODULE EventJournal -----------------------------
(***************************************************************************)
(* The per-session append queue of EventJournal (core/journal.ts): one     *)
(* page's append, appendAtHead and deleteSession calls on one              *)
(* conversation, chained so that each waits for the link of the one before *)
(* it, over a backend that offers the JournalBackend contract to this and  *)
(* to other clients.                                                       *)
(*                                                                         *)
(* A step is what runs between two awaits: waiting for the predecessor,    *)
(* reading the head, sealing and committing, settling the link, clearing   *)
(* the tail.  The backend may lose the answer of a committed write, other  *)
(* clients may move the head at any time, and a caller's signal may fire   *)
(* at any time.                                                            *)
(*                                                                         *)
(* Calls are numbered in the order they are made; a call's number stands   *)
(* for the events it appends and 0 for another client's events.  A digest  *)
(* chains over all earlier events, so a head is the log itself.  Snapshots *)
(* of drafts, JSON checks and record projections are left out.             *)
(***************************************************************************)
EXTENDS Naturals, Sequences

CONSTANTS MaxCalls,   \* bound: calls this page makes
          MaxRemote,  \* bound: head moves of other clients
          MaxFaults   \* bound: backend calls that throw

ASSUME QueueAssumption == MaxCalls \in Nat /\ MaxRemote \in Nat /\ MaxFaults \in Nat

Call == 1..MaxCalls
NoCall == 0
Remote == 0

VARIABLES
  live,      \* the backend has the session
  log,       \* the backend's events
  calls,     \* calls made so far
  kind,      \* append, appendAtHead or delete
  expected,  \* the head a call will commit at
  pred,      \* the link a call found at the tail of appendQueue
  pc,        \* where the call is
  aborted,   \* the caller's signal has fired
  settled,   \* links that have settled
  tail,      \* appendQueue.get(sessionId)
  moves, faults,
  outrun     \* history: another client moved the head this call committed at

backend == <<live, log>>
request == <<calls, kind, pred>>
vars == <<backend, request, expected, pc, aborted, settled, tail, moves, faults, outrun>>

Done == {"ok", "refused", "failed", "aborted"}
Working == {"reading", "committing", "deleting"}
Made == 1..calls
-------------------------------------------------------------------------------
Init ==
  /\ live = TRUE /\ log = << >>
  /\ calls = 0
  /\ kind = [w \in Call |-> "none"]
  /\ expected = [w \in Call |-> << >>]
  /\ pred = [w \in Call |-> NoCall]
  /\ pc = [w \in Call |-> "unborn"]
  /\ aborted = [w \in Call |-> FALSE]
  /\ settled = {} /\ tail = NoCall
  /\ moves = 0 /\ faults = 0
  /\ outrun = [w \in Call |-> FALSE]

\* Heads a caller may have audited: what the log was at some earlier time.
Audited == {SubSeq(log, 1, n) : n \in 0..Len(log)}

\* A call enters the queue behind the current tail and becomes the tail.
Enter(k, head, start) ==
  /\ calls < MaxCalls
  /\ LET w == calls + 1
     IN  /\ calls' = w
         /\ kind' = [kind EXCEPT ![w] = k]
         /\ expected' = [expected EXCEPT ![w] = head]
         /\ pred' = [pred EXCEPT ![w] = tail]
         /\ tail' = w
         /\ pc' = [pc EXCEPT ![w] = IF tail = NoCall THEN start ELSE "queued"]
  /\ UNCHANGED <<backend, aborted, settled, moves, faults, outrun>>

\* append: without a predecessor the head is read at once.
AppendCall == Enter("append", << >>, "reading")

\* appendAtHead: the supplied head is the compare-and-set precondition.
AppendAtHead == \E head \in Audited : Enter("appendAtHead", head, "committing")

\* deleteSession, fenced to the head the caller read; always one turn later.
DeleteSession == \E head \in Audited : Enter("delete", head, "queued")

\* The link of the predecessor has settled.
TurnWithoutQueue(w) == TRUE
HasTurn(w) == pred[w] = NoCall \/ pred[w] \in settled

\* The queued call goes on: commit, commitAtHead or the backend's delete.
Begin(w) ==
  /\ pc[w] = "queued" /\ HasTurn(w)
  /\ pc' = [pc EXCEPT ![w] =
              CASE kind[w] = "delete" -> "deleting"
                [] aborted[w] -> "aborted"
                [] kind[w] = "append" -> "reading"
                [] OTHER -> "committing"]
  /\ UNCHANGED <<backend, request, expected, aborted, settled, tail, moves, faults, outrun>>

\* raceAbort: the caller's signal wins against the predecessor; a delete waits.
LeaveQueue(w) ==
  /\ pc[w] = "queued" /\ kind[w] # "delete" /\ aborted[w]
  /\ pc' = [pc EXCEPT ![w] = "aborted"]
  /\ UNCHANGED <<backend, request, expected, aborted, settled, tail, moves, faults, outrun>>

\* commit: read the head, which becomes the compare-and-set precondition.
ReadHeadOfPredecessor(w) ==
  /\ pc[w] = "reading"
  /\ expected' = [expected EXCEPT ![w] = IF pred[w] = NoCall THEN log ELSE expected[pred[w]]]
  /\ pc' = [pc EXCEPT ![w] = "committing"]
  /\ UNCHANGED <<backend, request, aborted, settled, tail, moves, faults, outrun>>

ReadHead(w) ==
  /\ pc[w] = "reading"
  /\ IF live
     THEN /\ expected' = [expected EXCEPT ![w] = log]
          /\ pc' = [pc EXCEPT ![w] = "committing"]
     ELSE pc' = [pc EXCEPT ![w] = "failed"] /\ UNCHANGED expected
  /\ UNCHANGED <<backend, request, aborted, settled, tail, moves, faults, outrun>>

\* The backend's compare-and-set on the head.
Fits(w) == live /\ expected[w] = log
Apply(w) ==
  IF kind[w] = "delete"
  THEN live' = FALSE /\ log' = << >>
  ELSE log' = Append(log, w) /\ UNCHANGED live

\* A delete of an absent session succeeds.
CommitThenCheckSignal(w) ==
  /\ pc[w] \in {"committing", "deleting"} /\ Fits(w) /\ Apply(w)
  /\ pc' = [pc EXCEPT ![w] = IF aborted[w] THEN "aborted" ELSE "ok"]
  /\ UNCHANGED <<request, expected, aborted, settled, tail, moves, faults, outrun>>

Commit(w) ==
  /\ pc[w] \in {"committing", "deleting"}
  /\ \/ Fits(w) /\ Apply(w) /\ pc' = [pc EXCEPT ![w] = "ok"]
     \/ /\ ~Fits(w) /\ UNCHANGED backend
        /\ pc' = [pc EXCEPT ![w] = IF kind[w] = "delete" /\ ~live THEN "ok" ELSE "refused"]
  /\ UNCHANGED <<request, expected, aborted, settled, tail, moves, faults, outrun>>

\* A backend call throws; a write may have been applied all the same.
BackendThrows(w) ==
  /\ pc[w] \in Working /\ faults < MaxFaults
  /\ faults' = faults + 1
  /\ \/ pc[w] # "reading" /\ Fits(w) /\ Apply(w)
     \/ UNCHANGED backend
  /\ pc' = [pc EXCEPT ![w] = "failed"]
  /\ UNCHANGED <<request, expected, aborted, settled, tail, moves, outrun>>

\* The backend honours the signal up to its compare-and-set.
BackendAborts(w) ==
  /\ pc[w] \in Working /\ aborted[w]
  /\ pc' = [pc EXCEPT ![w] = "aborted"]
  /\ UNCHANGED <<backend, request, expected, aborted, settled, tail, moves, faults, outrun>>

\* trackAppend: the link waits for the predecessor and then for the call.
LinkOfSuccess(w) == pc[w] = "ok" /\ HasTurn(w)
LinkSettles(w) == pc[w] \in Done /\ HasTurn(w)

SettleLink(w) ==
  /\ w \in Made \ settled /\ LinkSettles(w)
  /\ settled' = settled \cup {w}
  /\ UNCHANGED <<backend, request, expected, pc, aborted, tail, moves, faults, outrun>>

\* A settled link clears the queue only while it is still the tail.
ClearTail(w) ==
  /\ w \in settled /\ tail = w
  /\ tail' = NoCall
  /\ UNCHANGED <<backend, request, expected, pc, aborted, settled, moves, faults, outrun>>

\* The caller's signal fires.
Abort(w) ==
  /\ w \in Made /\ ~aborted[w] /\ pc[w] \notin Done
  /\ aborted' = [aborted EXCEPT ![w] = TRUE]
  /\ UNCHANGED <<backend, request, expected, pc, settled, tail, moves, faults, outrun>>

\* Another client appends to or deletes the session.
RemoteMove ==
  /\ live /\ moves < MaxRemote
  /\ moves' = moves + 1
  /\ \/ log' = Append(log, Remote) /\ UNCHANGED live
     \/ live' = FALSE /\ log' = << >>
  /\ outrun' = [w \in Call |-> outrun[w] \/ pc[w] = "committing"]
  /\ UNCHANGED <<request, expected, pc, aborted, settled, tail, faults>>

\* What the event loop and an answering backend owe the queue.
Progress(w) == Begin(w) \/ ReadHead(w) \/ Commit(w) \/ SettleLink(w)

Next ==
  \/ AppendCall \/ AppendAtHead \/ DeleteSession \/ RemoteMove
  \/ \E w \in Call :
       \/ Progress(w) \/ LeaveQueue(w) \/ BackendThrows(w) \/ BackendAborts(w)
       \/ ClearTail(w) \/ Abort(w)

Spec == Init /\ [][Next]_vars

\* The backend answers every call.
FairSpec == Spec /\ \A w \in Call : WF_vars(Progress(w))
-------------------------------------------------------------------------------
\* The types; the queue's tail is always the page's latest call.
TypeOK ==
  /\ live \in BOOLEAN /\ log \in Seq(0..MaxCalls)
  /\ calls \in 0..MaxCalls
  /\ kind \in [Call -> {"none", "append", "appendAtHead", "delete"}]
  /\ expected \in [Call -> Seq(0..MaxCalls)]
  /\ pred \in [Call -> 0..MaxCalls]
  /\ pc \in [Call -> {"unborn", "queued"} \cup Working \cup Done]
  /\ aborted \in [Call -> BOOLEAN]
  /\ settled \subseteq Made /\ tail \in {NoCall, calls}
  /\ moves \in 0..MaxRemote /\ faults \in 0..MaxFaults
  /\ outrun \in [Call -> BOOLEAN]

(***************************************************************************)
(* One writer of this page at a time: between reading the head and the     *)
(* backend's answer no other call of the page has entered the backend,     *)
(* whoever aborts, fails or leaves the queue early.                        *)
(***************************************************************************)
OneWriterAtATime ==
  \A v, w \in Call : pc[v] \in Working /\ pc[w] \in Working => v = w

(***************************************************************************)
(* In-page writers never refuse each other: an append is refused with a    *)
(* JournalConflictError only when another client moved the head between    *)
(* its read and its compare-and-set (the failed turn that an in-page       *)
(* rename used to cause).                                                  *)
(***************************************************************************)
ConflictsComeFromOutside ==
  \A w \in Call : kind[w] = "append" /\ pc[w] = "refused" => outrun[w]

(***************************************************************************)
(* The page's events land in the order of the calls, also when some of the *)
(* calls fail, abort, or commit without an answer.                         *)
(***************************************************************************)
CommittedInCallOrder ==
  \A i, j \in 1..Len(log) : i < j /\ log[i] # Remote /\ log[j] # Remote => log[i] < log[j]

(***************************************************************************)
(* Leaving the queue early commits nothing: a call that ended because of   *)
(* its own signal is not in the log and never will be.                     *)
(***************************************************************************)
AbortedCommitsNothing ==
  \A w \in Call : pc[w] = "aborted" => \A i \in 1..Len(log) : log[i] # w

(***************************************************************************)
(* With a backend that answers, every call returns: failures and aborts    *)
(* never block what is queued behind them.                                 *)
(***************************************************************************)
EveryCallReturns == \A w \in Call : pc[w] = "queued" ~> pc[w] \in Done
===============================================================================
