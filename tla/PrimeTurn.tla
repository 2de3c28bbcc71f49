------------------------------- MODULE PrimeTurn -------------------------------
(***************************************************************************)
(* The turns of one conversation under the PRIME engine: the session       *)
(* authority (prime/runtime/session.ts) with its one driver, the agent     *)
(* loop it drives (prime/agent/agent-loop.ts, agent.ts, tool-batches.ts),  *)
(* and what runs beside a turn: steering, Stop, the host's signal,         *)
(* dispose, kernel notices, a model change, another tab's authority over   *)
(* the same journal, and a journal that fails or loses its answer.         *)
(*                                                                         *)
(* The events are those of CoreTurn and the audit is the same walk.  Three *)
(* things are PRIME's own.  A session keeps a cache of the journal, read   *)
(* from the last sequence it has seen (seen: the positions it holds).  The *)
(* assistant, tool-result and end records are written by listeners of the  *)
(* loop's events, which do nothing once the session is disposed; the       *)
(* request, the review decisions and the inference start are written by    *)
(* direct calls.  And the loop abandons a hook or a tool when its signal   *)
(* fires, so an abandoned review may still answer later.                   *)
(*                                                                         *)
(* A step is what runs between two awaits.  After the signal fires, every  *)
(* branch of the loop reaches agent_end without a further record (each     *)
(* append on the way is refused), so those branches are one step.          *)
(***************************************************************************)
EXTENDS TurnAudit, TLC

CONSTANTS Sessions,       \* PRIME authorities attached to the journal
          Replies,        \* what the provider may answer: [text, calls]
          Effect,         \* the declared effect of each call, or "unknown"
          KeyOf,          \* the tool and argument digest of each call
          Decisions,      \* what a review may do: "allow", "deny", "throws"
          Models,         \* values of the model control
          Claimed,        \* did runPrimeTurn's gate write its marker first
          Compresses,     \* may the history be over its threshold
          Preserve,       \* preserveRecentTurns
          MaxSteps,       \* maxStepsLimit
          StopAt,         \* REPEATED_FAILURE_STOP_AT
          MaxEntries,     \* bound on the prompts and steers accepted
          MaxNotices,     \* bound on kernel notices
          MaxFaults,      \* bound on journal faults
          Stops           \* which of "abort", "host", "dispose" may happen

PrimeAssumption ==
  /\ MaxSteps \in Nat \ {0} /\ StopAt \in Nat \ {0} /\ Preserve \in Nat
  /\ MaxEntries \in Nat /\ MaxNotices \in Nat /\ MaxFaults \in Nat
  /\ Claimed \in BOOLEAN /\ Compresses \in BOOLEAN

VARIABLES
  log,       \* the durable journal of the session
  seen,      \* eventsCache: the positions of log each authority holds
  ses,       \* the driver and the active turn of each authority
  fired,     \* the turns whose controller has aborted
  entries,   \* prompts and steers accepted so far; a turn is numbered by its entry
  notices,   \* kernel notices so far
  faults     \* journal faults so far

vars == <<log, seen, ses, fired, entries, notices, faults>>

Keys == {KeyOf[c] : c \in DOMAIN KeyOf}
Notice == Event("prime.session.notice", NoTurn, NoOp)

NewTurn ==
  [pc |-> "idle", turn |-> NoTurn, head |-> 0, model |-> ManifestModel, step |-> 0,
   history |-> <<>>, calls |-> <<>>, cursor |-> 1, end |-> 0, at |-> 0,
   batch |-> <<>>, results |-> <<>>, failures |-> [k \in Keys |-> 0], closed |-> FALSE]

Idle == NewTurn @@ [queue |-> <<>>, booted |-> FALSE, disposed |-> FALSE,
                    host |-> FALSE, late |-> {}]

Init ==
  /\ log = IF Claimed THEN <<Event("prime.runtime-selected", NoTurn, NoOp)>> ELSE <<>>
  /\ seen = [s \in Sessions |-> {}]
  /\ ses = [s \in Sessions |-> Idle]
  /\ fired = {} /\ entries = 0 /\ notices = 0 /\ faults = 0
-------------------------------------------------------------------------------
(* The journal and the cache. *)
Commit(events) == log' = log \o events

Fresh(events) == {Len(log) + i : i \in DOMAIN events}
CommitSeen(s, events) ==
  Commit(events) /\ seen' = [seen EXCEPT ![s] = @ \cup Fresh(events)]
CommitUnseen(events) == Commit(events) /\ UNCHANGED seen
Keep == UNCHANGED <<log, seen>>

(* refreshEvents: what follows the last sequence the cache holds. *)
Newest(s) == Max(seen[s] \cup {0})
Refreshed(s) == seen[s] \cup {i \in DOMAIN log : i > Newest(s)}

(* A cache as the code reads it: what it does not hold is not there. *)
View(positions) ==
  [i \in DOMAIN log |-> IF i \in positions THEN log[i] ELSE Event("unseen", NoTurn, NoOp)]

EffectiveModel ==
  LET changes == {i \in DOMAIN log : log[i].type = "session.model-changed"}
  IN  IF changes = {} THEN ManifestModel ELSE log[Max(changes)].model

Goto(s, fields) == ses' = [ses EXCEPT ![s] = fields]
At(s, pc) == [ses[s] EXCEPT !.pc = pc]
Fired(s) == ses[s].turn \in fired

(***************************************************************************)
(* appendTurnDrafts carries the turn's signal: committed and cached,       *)
(* refused because the signal fired, or an error after which the commit    *)
(* may still be durable.                                                   *)
(***************************************************************************)
SignalAllowsBug(t) == TRUE
SignalAllows(t) == t \notin fired

AppendThen(s, events, fields, failed) ==
  \/ /\ SignalAllows(ses[s].turn)
     /\ CommitSeen(s, events) /\ Goto(s, fields) /\ UNCHANGED faults
  \/ /\ ~ SignalAllows(ses[s].turn)
     /\ Keep /\ Goto(s, At(s, failed)) /\ UNCHANGED faults
  \/ /\ SignalAllows(ses[s].turn) /\ faults < MaxFaults /\ faults' = faults + 1
     /\ CommitUnseen(events) \/ Keep
     /\ Goto(s, At(s, failed))

(* onAgentEvent: the listeners of a disposed session return at once. *)
ListenerAppends(s, events, fields) ==
  IF ses[s].disposed THEN Keep /\ Goto(s, fields) /\ UNCHANGED faults
  ELSE AppendThen(s, events, fields, "ending")
-------------------------------------------------------------------------------
(***************************************************************************)
(* The driver.  An entry accepted while the driver is busy waits; a prompt *)
(* is refused then, a steer or a follow-up is queued.  The three queues    *)
(* are one here: each entry is a turn of its own, whatever its kind.       *)
(***************************************************************************)
Busy(s) == ses[s].pc # "idle"

DrainedBug(s) == NewTurn @@ ses[s]
(* Fields of the next run: drain stops when disposed or out of entries. *)
Drained(s) ==
  LET next == NewTurn @@ ses[s]
  IN  IF ses[s].disposed \/ ses[s].queue = <<>> THEN next
      ELSE [next EXCEPT !.pc = "attaching", !.turn = Head(ses[s].queue),
                        !.queue = Tail(@)]

Accept(s, queues) ==
  /\ ~ ses[s].disposed /\ entries < MaxEntries
  /\ Busy(s) = queues
  /\ entries' = entries + 1
  /\ Goto(s, IF queues THEN [ses[s] EXCEPT !.queue = Append(@, entries + 1)]
             ELSE [At(s, "attaching") EXCEPT !.turn = entries + 1])
  /\ Keep /\ UNCHANGED <<fired, notices, faults>>

(* bootstrap reads the journal once, then writes the custody notice. *)
Attach(s) ==
  /\ ses[s].pc = "attaching"
  /\ IF ses[s].booted THEN Goto(s, At(s, "snapshotting")) /\ UNCHANGED seen
     ELSE /\ seen' = [seen EXCEPT ![s] = DOMAIN log]
          /\ Goto(s, [At(s, "booting") EXCEPT !.booted = TRUE])
  /\ UNCHANGED <<log, fired, entries, notices, faults>>

PrimeEvents == {"prime.runtime-selected", "prime.session.notice"}

TakeCustody(s) ==
  /\ ses[s].pc = "booting"
  /\ \/ /\ \/ \E i \in seen[s] : log[i].type \in PrimeEvents
           \/ ses[s].disposed
        /\ Keep /\ UNCHANGED faults
     \/ /\ \A i \in seen[s] : log[i].type \notin PrimeEvents
        /\ ~ ses[s].disposed
        /\ \/ CommitSeen(s, <<Notice>>) /\ UNCHANGED faults
           \/ faults < MaxFaults /\ faults' = faults + 1 /\ Keep
  /\ Goto(s, At(s, "snapshotting"))
  /\ UNCHANGED <<fired, entries, notices>>

(* Head and model are one snapshot; the events are refreshed after it. *)
Snapshot(s) ==
  /\ ses[s].pc = "snapshotting"
  /\ Goto(s, [At(s, "checking") EXCEPT !.head = Len(log), !.model = EffectiveModel])
  /\ Keep /\ UNCHANGED <<fired, entries, notices, faults>>

(* The host's signal is read again once the turn object exists. *)
HostStoppedBug(s) == FALSE
HostStopped(s) == ses[s].host

Check(s) ==
  /\ ses[s].pc = "checking"
  /\ seen' = [seen EXCEPT ![s] = Refreshed(s)]
  /\ \E view \in {View(Refreshed(s))} :
       IF Unfinished(view) # {}
       THEN Goto(s, Drained(s)) /\ UNCHANGED fired
       ELSE /\ Goto(s, At(s, "preflight"))
            /\ fired' = fired \cup (IF HostStopped(s) THEN {ses[s].turn} ELSE {})
  /\ UNCHANGED <<log, entries, notices, faults>>

(* Admission at the exact head of the snapshot; a refusal, or an error of  *)
(* the prompt or live-environment providers before it, is not a turn.      *)
HeadIsCurrentBug(s) == TRUE
HeadIsCurrent(s) == ses[s].head = Len(log)

Admit(s) ==
  LET requested == <<Requested(ses[s].turn, FALSE, FALSE)>>
      refused == ~ HeadIsCurrent(s) \/ Fired(s)
  IN  /\ ses[s].pc = "preflight"
      /\ \/ /\ ~ refused
            /\ CommitSeen(s, requested) /\ Goto(s, At(s, "admitted")) /\ UNCHANGED faults
         \/ Keep /\ Goto(s, Drained(s)) /\ UNCHANGED faults
         \/ /\ ~ refused /\ faults < MaxFaults /\ faults' = faults + 1
            /\ CommitUnseen(requested) \/ Keep
            /\ Goto(s, Drained(s))
      /\ UNCHANGED <<fired, entries, notices>>
-------------------------------------------------------------------------------
(* Preprocessing.  An error before the loop runs goes straight to settle. *)
SelectContext(s) ==
  /\ ses[s].pc = "admitted"
  /\ IF TurnContext = "disabled"
     THEN Keep /\ Goto(s, At(s, "selected")) /\ UNCHANGED faults
     ELSE AppendThen(s, <<Event("turn.context.selected", ses[s].turn, NoOp)>>,
                     At(s, "selected"), "settling")
  /\ UNCHANGED <<fired, entries, notices>>

PlanTurnCompression(s) ==
  /\ ses[s].pc = "selected"
  /\ \/ Keep /\ Goto(s, At(s, "stepping")) /\ UNCHANGED faults
     \/ /\ Compresses
        /\ \E cut \in Cutoffs(SubSeq(View(seen[s]), 1, ses[s].head), Preserve) :
             AppendThen(s, <<SummaryUpdated(ses[s].turn, cut)>>, At(s, "noting"), "settling")
  /\ UNCHANGED <<fired, entries, notices>>

RestatePlan(s) ==
  /\ ses[s].pc = "noting"
  /\ \/ Keep /\ Goto(s, At(s, "stepping")) /\ UNCHANGED faults
     \/ AppendThen(s, <<Event("turn.plan.restated", ses[s].turn, NoOp)>>,
                   At(s, "stepping"), "settling")
  /\ UNCHANGED <<fired, entries, notices>>
-------------------------------------------------------------------------------
(* One step of the loop: convertToLlm, prepareStepRequest, the stream. *)
ConvertToLlm(s) ==
  /\ ses[s].pc = "stepping"
  /\ seen' = [seen EXCEPT ![s] = Refreshed(s)]
  /\ \E view \in {View(Refreshed(s))} :
       Goto(s, [At(s, "requesting") EXCEPT !.history = materializeMessages(view, TRUE)])
  /\ UNCHANGED <<log, fired, entries, notices, faults>>

InferenceStarted(s) ==
  [type |-> "inference.started", turn |-> ses[s].turn, op |-> <<ses[s].turn, ses[s].step>>,
   step |-> ses[s].step, model |-> ses[s].model, history |-> ses[s].history]

PrepareStepRequest(s) ==
  /\ ses[s].pc = "requesting"
  /\ IF ses[s].step >= MaxSteps THEN Keep /\ Goto(s, At(s, "ending")) /\ UNCHANGED faults
     ELSE AppendThen(s, <<InferenceStarted(s)>>,
                     [At(s, "inferring") EXCEPT !.step = @ + 1], "ending")
  /\ UNCHANGED <<fired, entries, notices>>

RequestId(s) == <<ses[s].turn, ses[s].step - 1>>

(* reservedOperationIds: the calls this authority has read or accepted. *)
Reservable(s, calls) ==
  IsInjective(calls) /\ Range(calls) \cap {log[i].op : i \in seen[s]} = {}

RequestedCalls(t, calls) == [i \in DOMAIN calls |-> Event("tool.requested", t, calls[i])]

JournalToolBatch(s) ==
  /\ ses[s].pc = "inferring"
  /\ \E r \in Replies :
       /\ r.calls # <<>>
       /\ IF Reservable(s, r.calls)
          THEN ListenerAppends(s,
                 <<AssistantCompleted(ses[s].turn, RequestId(s), r.text, r.calls)>>
                   \o RequestedCalls(ses[s].turn, r.calls),
                 [At(s, "batch") EXCEPT !.calls = r.calls, !.cursor = 1,
                                        !.results = <<>>])
          ELSE Keep /\ Goto(s, At(s, "ending")) /\ UNCHANGED faults
  /\ UNCHANGED <<fired, entries, notices>>

(* closed is terminalKind: set after the record here, before it below. *)
CompleteAssistantTurn(s) ==
  /\ ses[s].pc = "inferring"
  /\ ListenerAppends(s,
       <<AssistantCompleted(ses[s].turn, RequestId(s), TRUE, <<>>),
         Event("turn.completed", ses[s].turn, NoOp)>>,
       [At(s, "ending") EXCEPT !.closed = ~ ses[s].disposed])
  /\ UNCHANGED <<fired, entries, notices>>

(* A provider, context, plan or window error; the loop's own abort. *)
Fails(s) ==
  /\ ses[s].pc \in {"admitted", "selected", "noting", "stepping", "inferring"}
  /\ Goto(s, At(s, IF ses[s].pc \in {"stepping", "inferring"} THEN "ending" ELSE "settling"))
  /\ Keep /\ UNCHANGED <<fired, entries, notices, faults>>
-------------------------------------------------------------------------------
(***************************************************************************)
(* Tool calls.  A step whose calls are all reads (or unknown) is one       *)
(* batch; a step of writes runs and records call by call; a mixed step     *)
(* runs planPrimeToolBatches and records when the last batch has run.      *)
(***************************************************************************)
Parallel(call) == Effect[call] \in {"read", "unknown"}

planPrimeToolBatches(calls, cursor) ==
  LET reads == {n \in cursor..Len(calls) : \A i \in cursor..n : Parallel(calls[i])}
  IN  IF reads = {} THEN cursor ELSE Max(reads)

SequentialLane(calls) == \A i \in DOMAIN calls : ~ Parallel(calls[i])

TakeBatch(s) ==
  /\ ses[s].pc = "batch" /\ ~ Fired(s)
  /\ ses[s].cursor <= Len(ses[s].calls)
  /\ Goto(s, [At(s, "review") EXCEPT
                !.end = planPrimeToolBatches(ses[s].calls, ses[s].cursor),
                !.at = ses[s].cursor, !.batch = <<>>])
  /\ Keep /\ UNCHANGED <<fired, entries, notices, faults>>

noteFailedOutcome(fields, call) == [fields EXCEPT !.failures[KeyOf[call]] = @ + 1]
Entry(call, state) == [call |-> call, state |-> state]

Reviewed(s) ==
  IF ses[s].at = ses[s].end THEN At(s, "executing") ELSE [ses[s] EXCEPT !.at = @ + 1]
Joins(s, call, state) == [Reviewed(s) EXCEPT !.batch = Append(@, Entry(call, state))]

Approval(t, call) == [type |-> "tool.approved", turn |-> t, op |-> call, mode |-> ManifestMode]

(* prepareToolCall: an unknown tool is answered without a review. *)
AnswerUnknown(s) ==
  LET call == ses[s].calls[ses[s].at]
  IN  /\ ses[s].pc = "review" /\ Effect[call] = "unknown"
      /\ Goto(s, Joins(s, call, "tool.denied"))
      /\ Keep /\ UNCHANGED <<fired, entries, notices, faults>>

(* beforeToolCall: the decision is written by the hook itself. *)
Review(s, decision) ==
  LET call == ses[s].calls[ses[s].at]
      t == ses[s].turn
      blocked == noteFailedOutcome(Reviewed(s), call)
  IN  /\ ses[s].pc = "review" /\ Effect[call] # "unknown"
      /\ CASE decision = "allow" ->
                AppendThen(s, <<Approval(t, call)>>, Joins(s, call, "pending"), "ending")
           [] decision = "deny" ->
                AppendThen(s, <<Event("tool.denied", t, call)>>, blocked, "ending")
           [] decision = "throws" ->
                AppendThen(s, <<Event("tool.failed", t, call)>>, blocked, "ending")
      /\ UNCHANGED <<fired, entries, notices>>

(* The loop stops waiting for a hook when the signal fires. *)
AbandonReview(s) ==
  /\ ses[s].pc = "review" /\ Fired(s)
  /\ Goto(s, [At(s, "ending") EXCEPT
                !.late = @ \cup {[turn |-> ses[s].turn, call |-> ses[s].calls[ses[s].at]]}])
  /\ Keep /\ UNCHANGED <<fired, entries, notices, faults>>

(* Its answer still reaches the hook, which tries to record it. *)
AbandonedReviewAnswers(s, review) ==
  /\ review \in ses[s].late
  /\ Goto(s, [ses[s] EXCEPT !.late = @ \ {review}])
  /\ \/ SignalAllows(review.turn) /\ CommitSeen(s, <<Approval(review.turn, review.call)>>)
     \/ ~ SignalAllows(review.turn) /\ Keep
  /\ UNCHANGED <<fired, entries, notices, faults>>

Execute(s, i) ==
  /\ ses[s].pc = "executing"
  /\ i \in DOMAIN ses[s].batch /\ ses[s].batch[i].state = "pending"
  /\ \E outcome \in {"tool.resulted", "tool.failed"} :
       Goto(s, [ses[s] EXCEPT !.batch[i].state = outcome])
  /\ Keep /\ UNCHANGED <<fired, entries, notices, faults>>

EndBatch(s) ==
  LET last == ses[s].end = Len(ses[s].calls)
      records == last \/ SequentialLane(ses[s].calls)
  IN  /\ ses[s].pc = "executing"
      /\ \A i \in DOMAIN ses[s].batch : ses[s].batch[i].state # "pending"
      /\ Goto(s, [At(s, IF records THEN "recording" ELSE "batch") EXCEPT
                    !.cursor = ses[s].end + 1, !.results = @ \o ses[s].batch])
      /\ Keep /\ UNCHANGED <<fired, entries, notices, faults>>

(* onToolResultEnd, for each result in source order. *)
RecordResult(s) ==
  /\ ses[s].pc = "recording" /\ ses[s].results # <<>>
  /\ LET result == Head(ses[s].results)
         rest == [ses[s] EXCEPT !.results = Tail(@)]
     IN  ListenerAppends(s, <<Event(result.state, ses[s].turn, result.call)>>,
                         IF result.state = "tool.failed"
                         THEN noteFailedOutcome(rest, result.call) ELSE rest)
  /\ UNCHANGED <<fired, entries, notices>>

(* shouldStopAfterTurn stops the run of a turn that keeps failing. *)
EndRecords(s) ==
  /\ ses[s].pc = "recording" /\ ses[s].results = <<>>
  /\ Goto(s, At(s, CASE ses[s].cursor <= Len(ses[s].calls) -> "batch"
                     [] \E k \in Keys : ses[s].failures[k] >= StopAt -> "ending"
                     [] OTHER -> "stepping"))
  /\ Keep /\ UNCHANGED <<fired, entries, notices, faults>>

(* throwIfAborted and raceWithAbort: the loop leaves for its end. *)
StopsRunning(s) ==
  /\ ses[s].pc \in {"stepping", "inferring", "batch", "executing", "recording"} /\ Fired(s)
  /\ Goto(s, At(s, "ending"))
  /\ Keep /\ UNCHANGED <<fired, entries, notices, faults>>
-------------------------------------------------------------------------------
(***************************************************************************)
(* The end.  agent_end writes the terminal a handler did not, without the  *)
(* signal and without reading the journal; settleTurn refreshes the cache  *)
(* and writes one if it holds none, then reads the whole journal.          *)
(***************************************************************************)
Terminal(s) == Event(IF Fired(s) THEN "turn.cancelled" ELSE "turn.failed", ses[s].turn, NoOp)

OnAgentEnd(s) ==
  /\ ses[s].pc = "ending"
  /\ \/ /\ ses[s].disposed \/ ses[s].closed
        /\ Keep /\ UNCHANGED faults
     \/ /\ ~ ses[s].disposed /\ ~ ses[s].closed
        /\ CommitSeen(s, <<Terminal(s)>>) /\ UNCHANGED faults
     \/ /\ ~ ses[s].disposed /\ ~ ses[s].closed
        /\ faults < MaxFaults /\ faults' = faults + 1
        /\ CommitUnseen(<<Terminal(s)>>) \/ Keep
  /\ Goto(s, At(s, "settling"))
  /\ UNCHANGED <<fired, entries, notices>>

HoldsTerminalBug(s) == TRUE
HoldsTerminal(s) ==
  \E i \in Refreshed(s) : log[i].turn = ses[s].turn /\ log[i].type \in Terminals

SettleTurn(s) ==
  /\ ses[s].pc = "settling"
  /\ \/ /\ HoldsTerminal(s)
        /\ seen' = [seen EXCEPT ![s] = DOMAIN log]
        /\ UNCHANGED <<log, faults>>
     \/ /\ ~ HoldsTerminal(s)
        /\ Commit(<<Terminal(s)>>)
        /\ seen' = [seen EXCEPT ![s] = 1..(Len(log) + 1)]
        /\ UNCHANGED faults
     \/ /\ ~ HoldsTerminal(s) /\ faults < MaxFaults /\ faults' = faults + 1
        /\ Commit(<<Terminal(s)>>) \/ UNCHANGED log
        /\ seen' = [seen EXCEPT ![s] = Refreshed(s)]
  /\ Goto(s, Drained(s))
  /\ UNCHANGED <<fired, entries, notices>>
-------------------------------------------------------------------------------
(***************************************************************************)
(* Stopping.  abortTurn drops the queue and aborts the turn it finds: the  *)
(* admitted one, or the one in preflight.  Before the turn object exists   *)
(* it finds none.                                                          *)
(***************************************************************************)
Findable(s) == ses[s].pc \notin {"idle", "attaching", "booting", "snapshotting", "checking"}

abortTurn(s, fields) ==
  /\ Goto(s, [fields EXCEPT !.queue = <<>>])
  /\ fired' = fired \cup (IF Findable(s) THEN {ses[s].turn} ELSE {})
  /\ Keep /\ UNCHANGED <<entries, notices, faults>>

Abort(s) ==
  /\ "abort" \in Stops /\ Busy(s) /\ ~ Fired(s)
  /\ abortTurn(s, ses[s])

HostAborts(s) ==
  /\ "host" \in Stops /\ ~ ses[s].host
  /\ abortTurn(s, [ses[s] EXCEPT !.host = TRUE])

Dispose(s) ==
  /\ "dispose" \in Stops /\ ~ ses[s].disposed
  /\ abortTurn(s, [ses[s] EXCEPT !.disposed = TRUE])

(* onKernelEvent: a notice of the kernel, outside any turn's order. *)
appendSideband(s) ==
  /\ ~ ses[s].disposed /\ ses[s].booted /\ notices < MaxNotices
  /\ notices' = notices + 1
  /\ CommitSeen(s, <<Notice>>)
  /\ UNCHANGED <<ses, fired, entries, faults>>

ChangeModel(m) ==
  /\ m # EffectiveModel /\ EventsOf(log, "session.model-changed") = {}
  /\ CommitUnseen(<<ModelChanged(m)>>)
  /\ UNCHANGED <<ses, fired, entries, notices, faults>>
-------------------------------------------------------------------------------
Drive(s) ==
  \/ Attach(s) \/ TakeCustody(s) \/ Snapshot(s) \/ Check(s) \/ Admit(s)
  \/ SelectContext(s) \/ PlanTurnCompression(s) \/ RestatePlan(s)
  \/ ConvertToLlm(s) \/ PrepareStepRequest(s) \/ JournalToolBatch(s)
  \/ CompleteAssistantTurn(s) \/ Fails(s)
  \/ TakeBatch(s) \/ AnswerUnknown(s) \/ AbandonReview(s) \/ EndBatch(s)
  \/ RecordResult(s) \/ EndRecords(s) \/ StopsRunning(s)
  \/ OnAgentEnd(s) \/ SettleTurn(s)
  \/ \E d \in Decisions : Review(s, d)
  \/ \E i \in DOMAIN ses[s].batch : Execute(s, i)

Environment(s) ==
  \/ Accept(s, FALSE) \/ Accept(s, TRUE)
  \/ Abort(s) \/ HostAborts(s) \/ Dispose(s) \/ appendSideband(s)
  \/ \E review \in ses[s].late : AbandonedReviewAnswers(s, review)

Next ==
  \/ \E s \in Sessions : Drive(s) \/ Environment(s)
  \/ \E m \in Models : ChangeModel(m)

Spec == Init /\ [][Next]_vars

(* A started run goes on: streams, reviews and tools end or are abandoned. *)
FairSpec == Spec /\ \A s \in Sessions : WF_vars(Drive(s))
-------------------------------------------------------------------------------
Pcs == {"idle", "attaching", "booting", "snapshotting", "checking", "preflight",
        "admitted", "selected", "noting", "stepping", "requesting", "inferring",
        "batch", "review", "executing", "recording", "ending", "settling"}

TypeOK ==
  /\ \A s \in Sessions :
       /\ ses[s].pc \in Pcs /\ ses[s].turn \in 0..MaxEntries
       /\ ses[s].step \in 0..MaxSteps /\ ses[s].head \in 0..Len(log)
       /\ seen[s] \subseteq DOMAIN log
       /\ ses[s].pc = "idle" => ses[s].turn = NoTurn /\ ses[s].queue = <<>>
  /\ fired \subseteq 1..MaxEntries /\ faults \in 0..MaxFaults

(***************************************************************************)
(* The session audit accepts what the PRIME engine writes though Stop,     *)
(* steering, a second tab and a model change come at any point: nothing is *)
(* recorded after a turn's terminal (an abandoned review may still answer),*)
(* no turn overlaps another, and each request names the model and hashes   *)
(* the history of its admission.                                           *)
(***************************************************************************)
AuditFindings == AuditAll(AuditInit, <<>>, log).findings
AuditAccepts == AuditFindings = {}

(***************************************************************************)
(* No request carries a tool call without its answer or an answer without  *)
(* its call, though an append may fail after it is durable and the next    *)
(* turn reads the journal through the cache (convertToLlm).                *)
(***************************************************************************)
HistoriesAreWellFormed ==
  \A s \in Sessions : ses[s].pc = "requesting" => WellFormedHistory(ses[s].history)

(***************************************************************************)
(* Once the host's signal has fired the session admits no further turn,    *)
(* though it may fire before the turn's own controller exists.             *)
(***************************************************************************)
Admissions == EventsOf(log, "turn.requested")
HostStopHolds == (\A s \in Sessions : ses[s].host) => Admissions' = Admissions

Admitted(t) == Has(log, "turn.requested", t) /\ ~Terminated(log, t)

(***************************************************************************)
(* "A run never ends without exactly one durable terminal event": what was *)
(* admitted terminates under any Stop, dispose, review or tool error.      *)
(***************************************************************************)
AdmittedTurnsTerminate == \A t \in 1..MaxEntries : Admitted(t) ~> ~Admitted(t)

(***************************************************************************)
(* ... "exactly one": no turn has two terminals.                           *)
(***************************************************************************)
OneTerminalEach ==
  \A t \in 1..MaxEntries :
    Cardinality({i \in DOMAIN log : log[i].turn = t /\ log[i].type \in Terminals}) <= 1

(***************************************************************************)
(* "an abort can never leave a `tool.approved` with no result": in a turn  *)
(* that has ended, every approved call has its outcome.                    *)
(***************************************************************************)
ApprovedCallsAnswered ==
  \A e \in EventsOf(log, "tool.approved") :
    Terminated(log, e.turn) => e.op \in ResolvedCalls(log, e.turn)

(***************************************************************************)
(* The review gate mirrors "core/agent.ts phase 1 exactly": the audit, which *)
(* accepts core's records, accepts the gate's.                             *)
(***************************************************************************)
ReviewRecordsAccepted == "TOOL_TERMINAL_INVALID" \notin AuditFindings

(***************************************************************************)
(* "A stop means stop": a disposed session approves no further call.       *)
(***************************************************************************)
ApprovalsOf(events) == EventsOf(events, "tool.approved")
DisposedMeansStopped ==
  (\A s \in Sessions : ses[s].disposed) => ApprovalsOf(log') = ApprovalsOf(log)

(***************************************************************************)
(* "open checks mirror core/agent.ts#runTurn in order": a turn starts only *)
(* when no other turn is unfinished.                                       *)
(***************************************************************************)
TurnsNeverOverlap == "TURN_OVERLAP" \notin AuditFindings
===============================================================================
