------------------------------- MODULE TurnAudit -------------------------------
(***************************************************************************)
(* The session audit's walk over the turns of a journal                    *)
(* (core/session-audit.ts): an automaton that reads the events in order    *)
(* and records a finding for each one the protocol does not allow there.   *)
(* It keeps its own copy of the provider history, edited event by event,   *)
(* and compares the digest of each request with it.                        *)
(*                                                                         *)
(* Findings of severity "info" (an unfinished turn, an operation whose     *)
(* outcome is unknown) are observations and are not recorded here.  Chain  *)
(* digests, payload shapes, receipts, local commands and forks are left    *)
(* out; a request digest stands for the messages it hashes.                *)
(***************************************************************************)
EXTENDS Transcript

CONSTANTS ManifestModel,     \* the model the session manifest names
          ManifestMode,      \* the approval mode its profile pins
          TurnContext        \* "required" or "disabled"

ToolState(call) == [call |-> call, requested |-> FALSE, decision |-> "none",
                    terminal |-> FALSE]

(* TurnState, with active = NoTurn when no turn is. *)
Inactive == [active |-> NoTurn, turnModel |-> ManifestModel, step |-> 0,
             selected |-> FALSE, compacted |-> FALSE, restated |-> FALSE,
             inference |-> NoOp, tools |-> <<>>, final |-> FALSE,
             slash |-> FALSE, env |-> FALSE]

AuditInit ==
  [turn |-> Inactive, model |-> ManifestModel, mode |-> ManifestMode,
   seenTurns |-> {}, seenOps |-> {}, messages |-> <<>>, lastContext |-> 0,
   findings |-> {}]

Find(a, code) == [a EXCEPT !.findings = @ \cup {code}]
Findings(a, broken, code) == IF broken THEN Find(a, code) ELSE a
IsActive(a, e) == e.turn # NoTurn /\ e.turn = a.turn.active
NoneOpen(tools) == \A i \in DOMAIN tools : tools[i].terminal

(* The first tool of the step with this call ID, if any. *)
Slot(a, call) ==
  LET slots == {i \in DOMAIN a.turn.tools : a.turn.tools[i].call = call}
  IN  IF slots = {} THEN 0 ELSE Min(slots)
-------------------------------------------------------------------------------
(* A request starts a turn and takes the injected context out of the last. *)
PlainAgain(a) ==
  IF a.lastContext = 0 THEN a.messages
  ELSE [a.messages EXCEPT ![a.lastContext] = [@ EXCEPT !.env = FALSE, !.selection = FALSE]]

OnRequested(a, e) ==
  LET overlap == Findings(a, a.turn.active # NoTurn, "TURN_OVERLAP")
      message == User(e.turn, e.env /\ ~ e.slash, FALSE)
  IN  IF e.turn \in a.seenTurns
      THEN [Find(overlap, "TURN_REQUEST_INVALID") EXCEPT !.turn = Inactive]
      ELSE [overlap EXCEPT
              !.turn = [Inactive EXCEPT !.active = e.turn, !.turnModel = a.model,
                                        !.slash = e.slash, !.env = e.env],
              !.seenTurns = @ \cup {e.turn},
              !.messages = Append(PlainAgain(a), message),
              !.lastContext = IF e.env THEN Len(a.messages) + 1 ELSE 0]

RequestIndex(a) ==
  CHOOSE i \in DOMAIN a.messages :
     "turn" \in DOMAIN a.messages[i] /\ a.messages[i].turn = a.turn.active

OnContextSelected(a, e) ==
  IF \/ ~ IsActive(a, e) \/ a.turn.step # 0 \/ a.turn.inference # NoOp
     \/ a.turn.tools # <<>> \/ a.turn.selected \/ TurnContext = "disabled"
  THEN Find(a, "TURN_CONTEXT_LIFECYCLE_INVALID")
  ELSE [a EXCEPT !.messages[RequestIndex(a)] =
                    User(e.turn, a.turn.env /\ ~ a.turn.slash, ~ a.turn.slash),
                 !.turn.selected = TRUE,
                 !.lastContext = RequestIndex(a)]

(* The walk edits its messages; a summary or a retraction reprojects them. *)
OnSummary(a, log, e) ==
  LET preprocessing == /\ IsActive(a, e) /\ a.turn.step = 0 /\ a.turn.inference = NoOp
                       /\ ~ a.turn.final /\ a.turn.tools = <<>>
      outside == a.turn.active = NoTurn /\ e.turn = NoTurn
      messages == materializeMessages(log, preprocessing)
  IN  IF ~ preprocessing /\ ~ outside THEN Find(a, "CONTEXT_SUMMARY_INVALID")
      ELSE [a EXCEPT !.messages = messages,
                     !.turn.compacted = preprocessing \/ @,
                     !.lastContext = IF preprocessing /\ (a.turn.selected \/ a.turn.env)
                                     THEN Len(messages) ELSE 0]

OnPlanRestated(a, e) ==
  IF \/ ~ IsActive(a, e) \/ a.turn.step # 0 \/ a.turn.inference # NoOp
     \/ a.turn.tools # <<>> \/ ~ a.turn.compacted \/ a.turn.restated
  THEN Find(a, "TURN_PLAN_NOTE_INVALID")
  ELSE [a EXCEPT !.turn.restated = TRUE, !.messages = Append(@, PlanNote(e.turn))]
-------------------------------------------------------------------------------
(***************************************************************************)
(* Inference.  step counts the inferences of the turn, so the code's       *)
(* turn.step + 1, starting from -1, is step here.                          *)
(***************************************************************************)
OnInferenceStarted(a, e) ==
  LET missing == TurnContext = "required" /\ ~ a.turn.selected
      known == Findings(a, missing, "TURN_CONTEXT_REQUIRED_MISSING")
      bound == Findings(known, e.model # a.turn.turnModel, "INFERENCE_BINDING_MISMATCH")
      sent == Findings(bound, e.history # a.messages, "INFERENCE_REQUEST_DIGEST_MISMATCH")
  IN  IF ~ IsActive(a, e) THEN Find(a, "EVENT_OUTSIDE_ACTIVE_TURN")
      ELSE IF \/ e.op \in a.seenOps \/ a.turn.inference # NoOp
              \/ e.step # a.turn.step \/ ~ NoneOpen(a.turn.tools)
      THEN Find(known, "INFERENCE_LIFECYCLE_INVALID")
      ELSE [sent EXCEPT !.seenOps = @ \cup {e.op}, !.turn.step = e.step + 1,
                        !.turn.tools = <<>>, !.turn.final = FALSE,
                        !.turn.inference = e.op]

OnAssistant(a, e) ==
  LET reused == Range(e.calls) \cap a.seenOps # {} \/ ~ IsInjective(e.calls)
      known == Findings(a, reused, "TOOL_CALL_ID_REUSED")
  IN  IF ~ IsActive(a, e) \/ a.turn.inference # e.op THEN Find(a, "ASSISTANT_ORPHANED")
      ELSE [known EXCEPT
              !.messages = Append(@, Assistant(e.op, e.text, e.calls)),
              !.turn.tools = IF e.calls = <<>> THEN @
                             ELSE [i \in DOMAIN e.calls |-> ToolState(e.calls[i])],
              !.turn.final = (e.calls = <<>>),
              !.turn.inference = NoOp]
-------------------------------------------------------------------------------
(* Tool calls. *)
OnToolRequested(a, e) ==
  LET slot == Slot(a, e.op)
  IN  IF ~ IsActive(a, e) THEN Find(a, "EVENT_OUTSIDE_ACTIVE_TURN")
      ELSE IF a.turn.inference # NoOp THEN a
      ELSE IF slot = 0 \/ a.turn.tools[slot].requested
      THEN Find(a, "TOOL_REQUEST_MISMATCH")
      ELSE [a EXCEPT !.turn.tools[slot].requested = TRUE,
                     !.seenOps = @ \cup {e.op}]

OnDecision(a, e) ==
  LET slot == Slot(a, e.op)
      denied == e.type = "tool.denied"
      proven == Findings(a, ~ denied /\ e.mode # a.mode,
                         "TOOL_APPROVAL_PROVENANCE_INVALID")
  IN  IF ~ IsActive(a, e) THEN Find(a, "EVENT_OUTSIDE_ACTIVE_TURN")
      ELSE IF slot = 0 \/ ~ a.turn.tools[slot].requested
              \/ a.turn.tools[slot].decision # "none"
      THEN Find(a, "TOOL_DECISION_INVALID")
      ELSE [proven EXCEPT
              !.turn.tools[slot].decision = IF denied THEN "denied" ELSE "approved",
              !.turn.tools[slot].terminal = denied,
              !.messages = IF denied THEN Append(@, ToolMessage(e.op, e.type)) ELSE @]

OnOutcome(a, e) ==
  LET slot == Slot(a, e.op)
  IN  IF ~ IsActive(a, e) THEN Find(a, "EVENT_OUTSIDE_ACTIVE_TURN")
      ELSE IF slot = 0 \/ a.turn.tools[slot].decision # "approved"
              \/ a.turn.tools[slot].terminal
      THEN Find(a, "TOOL_TERMINAL_INVALID")
      ELSE [a EXCEPT !.turn.tools[slot].terminal = TRUE,
                     !.messages = Append(@, ToolMessage(e.op, e.type))]
-------------------------------------------------------------------------------
(* The end of a turn. *)
OnCompleted(a, e) ==
  LET closed == /\ a.turn.inference = NoOp /\ NoneOpen(a.turn.tools) /\ a.turn.final
  IN  IF ~ IsActive(a, e) THEN Find(a, "EVENT_OUTSIDE_ACTIVE_TURN")
      ELSE [Findings(a, ~ closed, "TURN_COMPLETION_INVALID") EXCEPT !.turn = Inactive]

OnAborted(a, log, e) ==
  IF ~ IsActive(a, e) THEN Find(a, "EVENT_OUTSIDE_ACTIVE_TURN")
  ELSE [a EXCEPT !.turn = Inactive, !.messages = materializeMessages(log, FALSE),
                 !.lastContext = 0]

(* One event of the walk; log ends with it. *)
AuditEvent(a, log, e) ==
  CASE e.type = "session.model-changed" -> [a EXCEPT !.model = e.model]
    [] e.type = "session.approval-policy-changed" -> [a EXCEPT !.mode = e.mode]
    [] e.type = "turn.requested" -> OnRequested(a, e)
    [] e.type = "turn.context.selected" -> OnContextSelected(a, e)
    [] e.type = "context.summary.updated" -> OnSummary(a, log, e)
    [] e.type = "turn.plan.restated" -> OnPlanRestated(a, e)
    [] e.type = "inference.started" -> OnInferenceStarted(a, e)
    [] e.type = "assistant.completed" -> OnAssistant(a, e)
    [] e.type = "tool.requested" -> OnToolRequested(a, e)
    [] e.type \in {"tool.approved", "tool.denied"} -> OnDecision(a, e)
    [] e.type \in {"tool.resulted", "tool.failed"} -> OnOutcome(a, e)
    [] e.type = "turn.completed" -> OnCompleted(a, e)
    [] e.type \in {"turn.failed", "turn.cancelled"} -> OnAborted(a, log, e)
    [] OTHER -> a

(* The walk over the events a batch adds to the journal. *)
AuditAll(a, log, events) ==
  LET walk[n \in 0..Len(events)] ==
        IF n = 0 THEN a
        ELSE AuditEvent(walk[n - 1], log \o SubSeq(events, 1, n), events[n])
  IN  walk[Len(events)]
===============================================================================
