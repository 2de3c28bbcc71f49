------------------------------ MODULE Transcript ------------------------------
(***************************************************************************)
(* The provider history of a conversation (materializeMessages,            *)
(* core/agent.ts): what a request to the model contains is computed from   *)
(* the durable journal, by both engines and again by the session audit.    *)
(*                                                                         *)
(* An event is a record with its type, its turn and its operation; the     *)
(* other fields are those of its payload that decide the history.  A       *)
(* message is a record too: its text is identified by where it came from,  *)
(* so two messages are equal when the code would send equal text.          *)
(***************************************************************************)
EXTENDS Naturals, FiniteSets, SequencesExt

NoTurn == 0
NoOp == <<>>

Event(type, turn, op) == [type |-> type, turn |-> turn, op |-> op]

Requested(t, slash, env) ==
  [type |-> "turn.requested", turn |-> t, op |-> NoOp, slash |-> slash, env |-> env]
AssistantCompleted(t, op, text, calls) ==
  [type |-> "assistant.completed", turn |-> t, op |-> op, text |-> text, calls |-> calls]
SummaryUpdated(t, through) ==
  [type |-> "context.summary.updated", turn |-> t, op |-> NoOp, through |-> through]
ModelChanged(m) ==
  [type |-> "session.model-changed", turn |-> NoTurn, op |-> NoOp, model |-> m]

Outcomes == {"tool.resulted", "tool.failed", "tool.denied"}
Terminals == {"turn.completed", "turn.failed", "turn.cancelled"}

Has(log, type, t) == \E i \in DOMAIN log : log[i].type = type /\ log[i].turn = t
Terminated(log, t) == \E i \in DOMAIN log : log[i].type \in Terminals /\ log[i].turn = t
EventsOf(log, type) == {log[i] : i \in {j \in DOMAIN log : log[j].type = type}}

UnfinishedBug(log) == {}
(* findUnfinishedProviderTurn: the last requested turn without a terminal. *)
Unfinished(log) ==
  LET requests == {i \in DOMAIN log : log[i].type = "turn.requested"}
  IN  {log[i].turn : i \in {j \in requests :
         /\ \A k \in requests : k <= j
         /\ ~ Terminated(SubSeq(log, j, Len(log)), log[j].turn)}}
-------------------------------------------------------------------------------
(* Summaries: the newest one stands for every event it covers. *)
CoveredThrough(log) ==
  LET summaries == {i \in DOMAIN log : log[i].type = "context.summary.updated"}
  IN  IF summaries = {} THEN 0 ELSE log[Max(summaries)].through

Visible(log) == SubSeq(log, CoveredThrough(log) + 1, Len(log))

(* Where a new summary would end: the newest completed turn it may cover. *)
Cutoffs(log, preserveRecentTurns) ==
  LET completed == {i \in DOMAIN log :
                      log[i].type = "turn.completed" /\ i > CoveredThrough(log)}
  IN  {i \in completed : Cardinality({j \in completed : j > i}) = preserveRecentTurns}
-------------------------------------------------------------------------------
(***************************************************************************)
(* A cancelled turn keeps the work that landed: it needs an assistant step *)
(* and something that step accomplished.                                   *)
(***************************************************************************)
Steps(events, t) == {e \in EventsOf(events, "assistant.completed") : e.turn = t}
ResolvedCalls(events, t) ==
  {events[i].op : i \in {j \in DOMAIN events :
                           events[j].turn = t /\ events[j].type \in Outcomes}}
DeclaredCalls(events, t) == UNION {Range(e.calls) : e \in Steps(events, t)}

Salvaged(events) ==
  {t \in {e.turn : e \in EventsOf(events, "turn.cancelled")} :
     /\ Steps(events, t) # {}
     /\ (\E e \in Steps(events, t) : e.text) \/ ResolvedCalls(events, t) # {}}

NonActionableBug(log) == {e.turn : e \in EventsOf(log, "turn.failed")}
(* Failed turns, and cancelled turns with nothing to salvage. *)
NonActionable(log) ==
  {e.turn : e \in EventsOf(log, "turn.failed") \cup EventsOf(log, "turn.cancelled")}
    \ Salvaged(Visible(log))

LatestRequest(log) ==
  LET events == Visible(log)
      live == {i \in DOMAIN events :
                 /\ events[i].type = "turn.requested"
                 /\ events[i].turn \notin NonActionable(log) \cup Salvaged(events)}
  IN  IF live = {} THEN NoTurn ELSE events[Max(live)].turn
-------------------------------------------------------------------------------
Summary(through) == [role |-> "user", summary |-> through]
Checkpoint(t, unresolved) == [role |-> "user", checkpoint |-> t, unresolved |-> unresolved]
PlanNote(t) == [role |-> "user", note |-> t]
User(t, env, selection) == [role |-> "user", turn |-> t, env |-> env, selection |-> selection]
Assistant(op, text, calls) ==
  [role |-> "assistant", op |-> op, text |-> text, calls |-> calls]
ToolMessage(call, type) == [role |-> "tool", call |-> call, type |-> type]

UserMessageBug(log, e, inject) ==
  LET injected == inject /\ e.turn = LatestRequest(log)
  IN  User(e.turn, injected /\ e.env,
           injected /\ Has(Visible(log), "turn.context.selected", e.turn))

(* The request as sent: context is injected into the newest one only. *)
UserMessage(log, e, inject) ==
  LET injected == inject /\ ~ e.slash /\ e.turn = LatestRequest(log)
  IN  User(e.turn, injected /\ e.env,
           injected /\ Has(Visible(log), "turn.context.selected", e.turn))

(* The calls of a cancelled step that nothing answered are dropped. *)
AnsweredCallsBug(calls, resolved) == calls
AnsweredCalls(calls, resolved) == SelectSeq(calls, LAMBDA c : c \in resolved)

(* The messages one visible event contributes: none or one. *)
MessagesOf(log, e, inject) ==
  LET events == Visible(log)
      salvaged == e.turn \in Salvaged(events)
      resolved == ResolvedCalls(events, e.turn)
      calls(s) == IF salvaged THEN AnsweredCalls(s, resolved) ELSE s
  IN  CASE e.turn \in NonActionable(log) -> <<>>
        [] e.type = "turn.requested" ->
             IF salvaged
             THEN <<Checkpoint(e.turn, Cardinality(DeclaredCalls(events, e.turn) \ resolved))>>
             ELSE <<UserMessage(log, e, inject)>>
        [] e.type = "turn.plan.restated" -> <<PlanNote(e.turn)>>
        [] e.type = "assistant.completed" ->
             IF salvaged /\ ~ e.text /\ calls(e.calls) = <<>> THEN <<>>
             ELSE <<Assistant(e.op, e.text, calls(e.calls))>>
        [] e.type \in Outcomes -> <<ToolMessage(e.op, e.type)>>
        [] OTHER -> <<>>

materializeMessages(log, inject) ==
  LET events == Visible(log)
      covered == CoveredThrough(log)
  IN  (IF covered = 0 THEN <<>> ELSE <<Summary(covered)>>)
        \o FlattenSeq([i \in DOMAIN events |-> MessagesOf(log, events[i], inject)])
-------------------------------------------------------------------------------
(***************************************************************************)
(* What every provider demands of a history: each tool message answers a   *)
(* call of the assistant message before it, and no call is left dangling.  *)
(***************************************************************************)
Answers(messages, i) ==
  {j \in (i + 1)..Len(messages) :
     /\ messages[j].role = "tool"
     /\ \A k \in (i + 1)..j : messages[k].role = "tool"}

WellFormedHistory(messages) ==
  /\ \A i \in DOMAIN messages :
       messages[i].role = "assistant" =>
         /\ {messages[j].call : j \in Answers(messages, i)} = Range(messages[i].calls)
         /\ Cardinality(Answers(messages, i)) = Len(messages[i].calls)
  /\ \A j \in DOMAIN messages :
       messages[j].role = "tool" =>
         \E i \in DOMAIN messages :
            messages[i].role = "assistant" /\ j \in Answers(messages, i)
===============================================================================
