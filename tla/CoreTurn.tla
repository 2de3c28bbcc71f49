------------------------------- MODULE CoreTurn -------------------------------
(***************************************************************************)
(* The turns of one conversation under the airship-core engine: runTurn    *)
(* (core/agent.ts), from its preflight to its terminal event, with what    *)
(* runs beside it: other tabs that start a turn of the same session, a     *)
(* model change, the approval-mode control (ui/app.tsx), the other engine  *)
(* claiming the session (prime/runtime/runtime.ts), Stop, a tab that dies, *)
(* and a journal that fails or loses its answer.                           *)
(*                                                                         *)
(* A step is what runs between two awaits.  An append that carries the     *)
(* turn's signal is refused once the signal has fired; the terminal event  *)
(* carries none.  audit is the session audit's walk over the journal,      *)
(* maintained as the journal grows.                                        *)
(*                                                                         *)
(* Abstractions.  Provider replies are drawn from Replies.  Usage and      *)
(* reasoning events, receipts, byte budgets, images and wording are left   *)
(* out; a request that no longer fits the window is one of the errors a    *)
(* turn may meet.  ToolApproval details the review itself.                 *)
(***************************************************************************)
EXTENDS TurnAudit

CONSTANTS Turns,          \* the runTurn calls, numbered
          Replies,        \* what the provider may answer: [text, calls]
          Effect,         \* the declared effect of each call, or "unknown"
          KeyOf,          \* the tool and argument digest of each call
          Decisions,      \* what a review may do: "allow", "deny", "throws"
          Models, Modes,  \* values of the model and approval-mode controls
          MaxSteps,       \* maxSteps
          StopAt,         \* REPEATED_FAILURE_STOP_AT
          Preserve,       \* preserveRecentTurns
          Compresses,     \* may the history be over its threshold
          Prompts,        \* prompts: [slash, env], starting with "/", with an environment
          MaxFaults,      \* bound on journal faults
          MaxCrashes,     \* bound on tabs that die
          PrimeMayClaim   \* may the other engine be asked to run

CoreAssumption ==
  /\ Turns \subseteq Nat \ {0} /\ MaxSteps \in Nat \ {0} /\ StopAt \in Nat \ {0}
  /\ Preserve \in Nat /\ MaxFaults \in Nat /\ MaxCrashes \in Nat
  /\ Decisions \subseteq {"allow", "deny", "throws"}
  /\ \A r \in Replies : r.calls \in Seq(DOMAIN Effect)

VARIABLES
  log,       \* the durable journal of the session
  audit,     \* the audit's state after the events of log
  turn,      \* the locals of each runTurn call
  aborted,   \* the signals that have fired
  policy,    \* the mode of the page's SwitchableApprovalPolicy
  switching, \* a mode journaled by the control and not yet applied
  prime,     \* the head the other engine classified, if it is claiming
  faults,    \* journal faults so far
  crashes,   \* tabs that died
  ran        \* history: calls whose effect happened

pageVars == <<aborted, policy, switching, prime>>
vars == <<log, audit, turn, pageVars, faults, crashes, ran>>

NoMode == "none"
Keys == {KeyOf[c] : c \in DOMAIN KeyOf}
Idle == [claiming |-> FALSE, head |-> 0]

NewTurn ==
  [pc |-> "new", head |-> 0, model |-> ManifestModel, step |-> 0, history |-> <<>>,
   calls |-> <<>>, cursor |-> 1, end |-> 0, at |-> 0, mode |-> NoMode,
   admitted |-> <<>>, outcome |-> <<>>,
   failures |-> [k \in Keys |-> 0]]

Init ==
  /\ log = <<>> /\ audit = AuditInit
  /\ turn = [t \in Turns |-> NewTurn]
  /\ aborted = {} /\ policy = ManifestMode /\ switching = NoMode /\ prime = Idle
  /\ faults = 0 /\ crashes = 0 /\ ran = {}
-------------------------------------------------------------------------------
(* The journal. *)
Commit(events) == log' = log \o events
Keep == UNCHANGED log

(* The session audit walks over what a step adds. *)
AuditFollows ==
  audit' = AuditAll(audit, log, SubSeq(log', Len(log) + 1, Len(log')))

EffectiveModel ==
  LET changes == {i \in DOMAIN log : log[i].type = "session.model-changed"}
  IN  IF changes = {} THEN ManifestModel ELSE log[Max(changes)].model

PrimeClaimed == EventsOf(log, "prime.runtime-selected") # {}
CoreStarted == EventsOf(log, "turn.requested") # {}

Goto(t, fields) == turn' = [turn EXCEPT ![t] = fields]
At(t, pc) == [turn[t] EXCEPT !.pc = pc]
Throw(t) == Goto(t, At(t, "catch"))

(***************************************************************************)
(* append(drafts) under the turn's signal: committed, refused because the  *)
(* signal fired, or an error, after which the commit may still be durable. *)
(***************************************************************************)
SignalAllows(t) == t \notin aborted

AppendThen(t, events, fields) ==
  \/ SignalAllows(t) /\ Commit(events) /\ Goto(t, fields) /\ UNCHANGED faults
  \/ ~ SignalAllows(t) /\ Keep /\ Throw(t) /\ UNCHANGED faults
  \/ /\ SignalAllows(t) /\ faults < MaxFaults /\ faults' = faults + 1
     /\ Commit(events) \/ Keep
     /\ Throw(t)
-------------------------------------------------------------------------------
(* Preflight: the head is read first, the events after it.  Calls are       *)
(* numbered in the order they start.                                        *)
Snapshot(t) ==
  /\ turn[t].pc = "new"
  /\ \A u \in Turns : u < t => turn[u].pc # "new"
  /\ Goto(t, [At(t, "snapshot") EXCEPT !.head = Len(log), !.model = EffectiveModel])
  /\ Keep /\ UNCHANGED <<pageVars, faults, crashes, ran>>

Check(t) ==
  /\ turn[t].pc = "snapshot"
  /\ Goto(t, At(t, IF PrimeClaimed \/ Unfinished(log) # {} \/ t \in aborted
                   THEN "refused" ELSE "checked"))
  /\ Keep /\ UNCHANGED <<pageVars, faults, crashes, ran>>

(* Admission at the exact head of the snapshot. *)
HeadIsCurrentBug(t) == TRUE
HeadIsCurrent(t) == turn[t].head = Len(log)

Admit(t) ==
  /\ turn[t].pc = "checked"
  /\ \E p \in Prompts :
       \/ /\ HeadIsCurrent(t) /\ t \notin aborted
          /\ Commit(<<Requested(t, p.slash, p.env)>>)
          /\ Goto(t, At(t, "admitted")) /\ UNCHANGED faults
       \/ /\ ~ HeadIsCurrent(t) \/ t \in aborted
          /\ Keep /\ Goto(t, At(t, "refused")) /\ UNCHANGED faults
       \/ /\ HeadIsCurrent(t) /\ t \notin aborted
          /\ faults < MaxFaults /\ faults' = faults + 1
          /\ Commit(<<Requested(t, p.slash, p.env)>>) \/ Keep
          /\ Goto(t, At(t, "refused"))
  /\ UNCHANGED <<pageVars, crashes, ran>>
-------------------------------------------------------------------------------
(* Preprocessing of an admitted turn. *)
SelectContext(t) ==
  /\ turn[t].pc = "admitted"
  /\ IF TurnContext = "disabled"
     THEN Keep /\ Goto(t, At(t, "selected")) /\ UNCHANGED faults
     ELSE AppendThen(t, <<Event("turn.context.selected", t, NoOp)>>, At(t, "selected"))
  /\ UNCHANGED <<pageVars, crashes, ran>>

(* planContextCompression plans over the events read before admission. *)
Compress(t) ==
  /\ turn[t].pc = "selected"
  /\ \/ Keep /\ Goto(t, At(t, "stepping")) /\ UNCHANGED faults
     \/ /\ Compresses
        /\ \E cut \in Cutoffs(SubSeq(log, 1, turn[t].head), Preserve) :
             AppendThen(t, <<SummaryUpdated(t, cut)>>, At(t, "noting"))
  /\ UNCHANGED <<pageVars, crashes, ran>>

RestatePlan(t) ==
  /\ turn[t].pc = "noting"
  /\ \/ Keep /\ Goto(t, At(t, "stepping")) /\ UNCHANGED faults
     \/ AppendThen(t, <<Event("turn.plan.restated", t, NoOp)>>, At(t, "stepping"))
  /\ UNCHANGED <<pageVars, crashes, ran>>
-------------------------------------------------------------------------------
(* One step: read the history, journal the request, stream the answer. *)
StepsLeftBug(t) == turn[t].step <= MaxSteps
StepsLeft(t) == turn[t].step < MaxSteps

ReadHistory(t) ==
  /\ turn[t].pc = "stepping"
  /\ IF t \in aborted \/ ~ StepsLeft(t) THEN Throw(t)
     ELSE Goto(t, [At(t, "requesting") EXCEPT !.history = materializeMessages(log, TRUE)])
  /\ Keep /\ UNCHANGED <<pageVars, faults, crashes, ran>>

InferenceOp(t) == <<t, turn[t].step>>

InferenceStarted(t) ==
  [type |-> "inference.started", turn |-> t, op |-> InferenceOp(t),
   step |-> turn[t].step, model |-> turn[t].model, history |-> turn[t].history]

StartInference(t) ==
  /\ turn[t].pc = "requesting"
  /\ AppendThen(t, <<InferenceStarted(t)>>, At(t, "inferring"))
  /\ UNCHANGED <<pageVars, crashes, ran>>

Reserved == {log[i].op : i \in DOMAIN log}
Reservable(calls) == IsInjective(calls) /\ Range(calls) \cap Reserved = {}

RequestedCalls(t, calls) == [i \in DOMAIN calls |-> Event("tool.requested", t, calls[i])]

ProposesCalls(t) ==
  /\ turn[t].pc = "inferring"
  /\ \E r \in Replies :
       /\ r.calls # <<>>
       /\ IF Reservable(r.calls)
          THEN AppendThen(t,
                 <<AssistantCompleted(t, InferenceOp(t), r.text, r.calls)>>
                   \o RequestedCalls(t, r.calls),
                 [At(t, "batch") EXCEPT !.calls = r.calls, !.cursor = 1])
          ELSE Keep /\ Throw(t) /\ UNCHANGED faults
  /\ UNCHANGED <<pageVars, crashes, ran>>

Completes(t) ==
  /\ turn[t].pc = "inferring"
  /\ AppendThen(t, <<AssistantCompleted(t, InferenceOp(t), TRUE, <<>>),
                     Event("turn.completed", t, NoOp)>>, At(t, "settled"))
  /\ UNCHANGED <<pageVars, crashes, ran>>

(* A provider, context or plan error, or a request over its window. *)
Fails(t) ==
  /\ turn[t].pc \in {"admitted", "selected", "noting", "stepping", "inferring"}
  /\ Throw(t)
  /\ Keep /\ UNCHANGED <<pageVars, faults, crashes, ran>>
-------------------------------------------------------------------------------
(***************************************************************************)
(* Tool calls, in batches: neighbouring reads together, any other alone.   *)
(* Reviews run one at a time, executions overlap, results are journaled in *)
(* call order.                                                             *)
(***************************************************************************)
readEffectBatch(calls, cursor) ==
  LET reads == {n \in cursor..Len(calls) : \A i \in cursor..n : Effect[calls[i]] = "read"}
  IN  IF reads = {} THEN cursor ELSE Max(reads)

TakeBatch(t) ==
  /\ turn[t].pc = "batch"
  /\ turn[t].cursor <= Len(turn[t].calls)
  /\ IF t \in aborted THEN Throw(t)
     ELSE Goto(t, [At(t, "review") EXCEPT
                     !.end = readEffectBatch(turn[t].calls, turn[t].cursor),
                     !.at = turn[t].cursor, !.mode = policy,
                     !.admitted = <<>>, !.outcome = <<>>])
  /\ Keep /\ UNCHANGED <<pageVars, faults, crashes, ran>>

EndStep(t) ==
  /\ turn[t].pc = "batch"
  /\ turn[t].cursor > Len(turn[t].calls)
  /\ IF \E k \in Keys : turn[t].failures[k] >= StopAt THEN Throw(t)
     ELSE Goto(t, [At(t, "stepping") EXCEPT !.step = @ + 1])
  /\ Keep /\ UNCHANGED <<pageVars, faults, crashes, ran>>

noteFailedOutcome(fields, call) == [fields EXCEPT !.failures[KeyOf[call]] = @ + 1]

(* The next review asks the policy in force when it starts. *)
Reviewed(t) ==
  IF turn[t].at = turn[t].end
  THEN [At(t, "executing") EXCEPT !.at = 1]
  ELSE [At(t, "review") EXCEPT !.at = @ + 1, !.mode = policy]

Approval(t) ==
  [type |-> "tool.approved", turn |-> t, op |-> turn[t].calls[turn[t].at],
   mode |-> turn[t].mode]

(* A review that throws is journaled as the denial it is. *)
ThrownReviewBug(t) == Event("tool.failed", t, turn[t].calls[turn[t].at])
ThrownReview(t) == Event("tool.denied", t, turn[t].calls[turn[t].at])

Review(t, decision) ==
  LET call == turn[t].calls[turn[t].at]
  IN  /\ turn[t].pc = "review"
      /\ Effect[call] = "unknown" => decision = "deny"
      /\ CASE decision = "allow" ->
                AppendThen(t, <<Approval(t)>>,
                           [Reviewed(t) EXCEPT !.admitted = Append(@, call),
                                               !.outcome = Append(@, "pending")])
           [] decision = "deny" ->
                AppendThen(t, <<Event("tool.denied", t, call)>>,
                           noteFailedOutcome(Reviewed(t), call))
           [] decision = "throws" ->
                AppendThen(t, <<ThrownReview(t)>>, noteFailedOutcome(Reviewed(t), call))
      /\ UNCHANGED <<pageVars, crashes, ran>>

(* executeApproved: with the signal fired it may still refuse to run. *)
Execute(t, i) ==
  /\ turn[t].pc = "executing"
  /\ i \in DOMAIN turn[t].outcome /\ turn[t].outcome[i] = "pending"
  /\ \/ /\ Goto(t, [turn[t] EXCEPT !.outcome[i] = "resulted"])
        /\ ran' = ran \cup {turn[t].admitted[i]}
     \/ /\ Goto(t, [turn[t] EXCEPT !.outcome[i] = "failed"])
        /\ ran' \in {ran, ran \cup {turn[t].admitted[i]}}
  /\ Keep /\ UNCHANGED <<pageVars, faults, crashes>>

Settled(t) == \A i \in DOMAIN turn[t].outcome : turn[t].outcome[i] # "pending"

Record(t) ==
  LET slot == turn[t].at
      failed == turn[t].outcome[slot] = "failed"
  IN  /\ turn[t].pc = "executing" /\ Settled(t)
      /\ slot <= Len(turn[t].admitted)
      /\ AppendThen(t,
           <<Event(IF failed THEN "tool.failed" ELSE "tool.resulted", t,
                   turn[t].admitted[slot])>>,
           LET next == [turn[t] EXCEPT !.at = @ + 1]
           IN  IF failed THEN noteFailedOutcome(next, turn[t].admitted[slot]) ELSE next)
      /\ UNCHANGED <<pageVars, crashes, ran>>

EndBatch(t) ==
  /\ turn[t].pc = "executing" /\ Settled(t)
  /\ turn[t].at > Len(turn[t].admitted)
  /\ Goto(t, [At(t, "batch") EXCEPT !.cursor = turn[t].end + 1])
  /\ Keep /\ UNCHANGED <<pageVars, faults, crashes, ran>>
-------------------------------------------------------------------------------
(***************************************************************************)
(* The catch block: find out whether the terminal is already durable, else *)
(* append one without the signal, and look again if that append fails.     *)
(***************************************************************************)
AlreadyTerminal(t) == Terminated(log, t)

(* The request's signal does not govern the terminal record. *)
TerminalAllowedBug(t) == t \notin aborted
TerminalAllowed(t) == TRUE

Terminal(t) == Event(IF t \in aborted THEN "turn.cancelled" ELSE "turn.failed", t, NoOp)

Catch(t) ==
  /\ turn[t].pc = "catch"
  /\ \/ AlreadyTerminal(t) /\ Keep /\ UNCHANGED faults
     \/ /\ ~ AlreadyTerminal(t)
        /\ IF TerminalAllowed(t) THEN Commit(<<Terminal(t)>>) ELSE Keep
        /\ UNCHANGED faults
     \/ /\ ~ AlreadyTerminal(t)
        /\ faults < MaxFaults /\ faults' = faults + 1
        /\ Commit(<<Terminal(t)>>) \/ Keep
  /\ Goto(t, At(t, "settled"))
  /\ UNCHANGED <<pageVars, crashes, ran>>

InTurn(t) == turn[t].pc \notin {"new", "snapshot", "checked", "refused", "settled", "crashed"}

Crash(t) ==
  /\ InTurn(t) /\ crashes < MaxCrashes
  /\ crashes' = crashes + 1
  /\ Goto(t, At(t, "crashed"))
  /\ Keep /\ UNCHANGED <<pageVars, faults, ran>>
-------------------------------------------------------------------------------
(* Beside the turn. *)
Abort(t) ==
  /\ turn[t].pc \notin {"new", "refused", "settled", "crashed"} /\ t \notin aborted
  /\ aborted' = aborted \cup {t}
  /\ Keep /\ UNCHANGED <<turn, policy, switching, prime, faults, crashes, ran>>

ChangeModel(m) ==
  /\ m # EffectiveModel /\ EventsOf(log, "session.model-changed") = {}
  /\ Commit(<<ModelChanged(m)>>)
  /\ UNCHANGED <<turn, pageVars, faults, crashes, ran>>

(* changeActiveApprovalMode journals the mode, then replaces the policy. *)
JournalMode(m) ==
  /\ switching = NoMode /\ m # policy
  /\ EventsOf(log, "session.approval-policy-changed") = {}
  /\ Commit(<<[type |-> "session.approval-policy-changed", turn |-> NoTurn,
               op |-> NoOp, mode |-> m]>>)
  /\ switching' = m
  /\ UNCHANGED <<turn, aborted, policy, prime, faults, crashes, ran>>

ReplacePolicy ==
  /\ switching # NoMode
  /\ policy' = switching /\ switching' = NoMode
  /\ Keep /\ UNCHANGED <<turn, aborted, prime, faults, crashes, ran>>

(* runPrimeTurn classifies the session and claims it at that head. *)
PrimeClassifies ==
  /\ PrimeMayClaim /\ ~ prime.claiming /\ ~ CoreStarted /\ ~ PrimeClaimed
  /\ prime' = [claiming |-> TRUE, head |-> Len(log)]
  /\ Keep /\ UNCHANGED <<turn, aborted, policy, switching, faults, crashes, ran>>

ClaimAtHead == prime.head = Len(log)

PrimeClaims ==
  /\ prime.claiming
  /\ prime' = Idle
  /\ IF ClaimAtHead THEN Commit(<<Event("prime.runtime-selected", NoTurn, NoOp)>>) ELSE Keep
  /\ UNCHANGED <<turn, aborted, policy, switching, faults, crashes, ran>>
-------------------------------------------------------------------------------
TurnStep(t) ==
  /\ \/ Snapshot(t) \/ Check(t) \/ Admit(t)
     \/ SelectContext(t) \/ Compress(t) \/ RestatePlan(t)
     \/ ReadHistory(t) \/ StartInference(t) \/ ProposesCalls(t) \/ Completes(t) \/ Fails(t)
     \/ TakeBatch(t) \/ EndStep(t) \/ EndBatch(t) \/ Record(t) \/ Catch(t)
     \/ \E d \in Decisions : Review(t, d)
     \/ \E i \in DOMAIN turn[t].outcome : Execute(t, i)
  /\ AuditFollows

Environment ==
  /\ \/ \E t \in Turns : Crash(t) \/ Abort(t)
     \/ \E m \in Models : ChangeModel(m)
     \/ \E m \in Modes : JournalMode(m)
     \/ ReplacePolicy \/ PrimeClassifies \/ PrimeClaims
  /\ AuditFollows

Next == Environment \/ \E t \in Turns : TurnStep(t)

Spec == Init /\ [][Next]_vars

(***************************************************************************)
(* A started turn goes on: the provider's stream, a review and a tool all  *)
(* end, by their own bounds, by an answer or by the signal.                *)
(***************************************************************************)
FairSpec == Spec /\ \A t \in Turns : WF_vars(TurnStep(t))
-------------------------------------------------------------------------------
Pcs == {"new", "snapshot", "checked", "refused", "admitted", "selected", "noting",
        "stepping", "requesting", "inferring", "batch", "review", "executing",
        "catch", "settled", "crashed"}

TypeOK ==
  /\ \A t \in Turns :
       /\ turn[t].pc \in Pcs /\ turn[t].head \in 0..Len(log)
       /\ turn[t].model \in Models \cup {ManifestModel}
       /\ turn[t].step \in 0..MaxSteps
       /\ Len(turn[t].outcome) = Len(turn[t].admitted)
  /\ aborted \subseteq Turns /\ policy \in Modes \cup {ManifestMode}
  /\ faults \in 0..MaxFaults /\ crashes \in 0..MaxCrashes

(***************************************************************************)
(* The session audit accepts every journal the engine writes, whatever     *)
(* races with it: turns never overlap, one terminal ends each, requests    *)
(* name the model of their admission and hash the history the audit        *)
(* rebuilds, and every tool event follows the one it needs.                *)
(***************************************************************************)
Audited == audit.findings = {}

(***************************************************************************)
(* No request carries a tool call without its answer or an answer without  *)
(* its call, though turns are failed, cancelled and compacted at any point *)
(* (readEffectBatch's callers, cancelledTurnSalvage).                      *)
(***************************************************************************)
RequestsAreWellFormed ==
  \A t \in Turns : turn[t].pc = "requesting" => WellFormedHistory(turn[t].history)

(***************************************************************************)
(* Stop means the instruction is not acted on: no later request replays    *)
(* the request of a cancelled or failed turn (materializeMessages).        *)
(***************************************************************************)
RequestsStayStopped ==
  \A t \in Turns : turn[t].pc = "requesting" =>
    \A i \in DOMAIN turn[t].history :
      LET m == turn[t].history[i]
      IN  "turn" \in DOMAIN m =>
            ~ Has(log, "turn.cancelled", m.turn) /\ ~ Has(log, "turn.failed", m.turn)

Requests == {i \in DOMAIN log : log[i].type = "turn.requested"}

OneEngine == ~ (PrimeClaimed /\ CoreStarted)

TurnsNeverOverlap ==
  \A i, j \in Requests : i < j =>
    /\ log[i].turn # log[j].turn
    /\ \E k \in i..j : log[k].type \in Terminals /\ log[k].turn = log[i].turn

\* Position k follows the request of its turn, with no end and no other request between.
InsideItsTurn(k) ==
  \E i \in Requests :
    /\ i <= k /\ log[i].turn = log[k].turn
    /\ \A j \in (i + 1)..k : log[j].type # "turn.requested"
    /\ \A j \in i..(k - 1) : log[j].type \notin Terminals

(***************************************************************************)
(* A conversation has one engine and one turn at a time, whatever tabs,    *)
(* engines and lost answers race for it: a core turn and the other         *)
(* engine's claim are never both durable (appendAtHead on both sides), a   *)
(* turn is requested once and only when every turn before it has ended,    *)
(* and each record of a turn lies between its request and its one end.     *)
(***************************************************************************)
OneTurnOneEngine ==
  /\ OneEngine /\ TurnsNeverOverlap
  /\ \A k \in DOMAIN log : log[k].turn # NoTurn => InsideItsTurn(k)

Admitted(t) == Has(log, "turn.requested", t) /\ ~Terminated(log, t)

(***************************************************************************)
(* A turn that was admitted ends in a durable terminal event, under any    *)
(* Stop and any error of a provider, a review or a tool.                   *)
(***************************************************************************)
AdmittedTurnsTerminate == \A t \in Turns : Admitted(t) ~> ~Admitted(t)

(***************************************************************************)
(* cancellationCheckpoint tells the model how many calls "were requested   *)
(* and never ran": none of the calls it counts has run.                    *)
(***************************************************************************)
CheckpointIsTrue ==
  \A t \in Salvaged(log) :
    (DeclaredCalls(log, t) \ ResolvedCalls(log, t)) \cap ran = {}

(***************************************************************************)
(* The audit checks an approval "against the mode that was actually in     *)
(* force when it happened": it accepts every approval a review made.       *)
(***************************************************************************)
ApprovalsMatchTheirMode == "TOOL_APPROVAL_PROVENANCE_INVALID" \notin audit.findings
===============================================================================
