----------------------------- MODULE ToolApproval -----------------------------
(***************************************************************************)
(* From a proposed tool call to its effect: ToolRegistry.review and        *)
(* executeApproved (tools/registry.ts), the per-conversation               *)
(* SwitchableApprovalPolicy, the approval-mode and human-intent policies   *)
(* (approvals/modes.ts) and the ApprovalBroker (approvals/broker.ts) they  *)
(* all ask, with the agent's journaling of the decision (core/agent.ts).   *)
(*                                                                         *)
(* One broker and one registry serve every conversation of the page.  A    *)
(* step is what runs between two awaits, so the person's answer, the       *)
(* decision timer, an abort of the turn, a mode switch and the page's own  *)
(* withdrawals fall between any two steps of a review.                     *)
(*                                                                         *)
(* Abstractions.  A call is its effect class, whether its arguments name   *)
(* an attached folder, and who proposed it; argument values stand for      *)
(* their digests.  Network and identity effects are treated like execute   *)
(* by every rule here.  Each conversation runs one turn (one AbortSignal). *)
(* Sentences, redaction and the dialog are left out.                       *)
(***************************************************************************)
EXTENDS Naturals, FiniteSets, SequencesExt

CONSTANTS Sessions,      \* conversations with a turn running
          Ops,           \* operation IDs of the tool calls
          SessionOf,     \* the conversation of each operation
          Calls,         \* the calls an operation may be
          ModesInUse,    \* approval modes conversations are switched between
          Args,          \* argument values
          NoSession,     \* no conversation is on screen
          MaxPending,    \* maxPending of the broker
          MaxOutcomes    \* MAX_SETTLED_OUTCOMES

Modes == {"ask-first", "auto-approve", "full-access"}
AllCalls == [effect : {"read", "write", "execute"}, folder : BOOLEAN,
             by : {"model", "person"}]

(***************************************************************************)
(* An unread outcome belongs to a review whose continuation is already     *)
(* queued, so as many fit as reviews can be waiting at once.               *)
(***************************************************************************)
ASSUME ApprovalAssumption ==
  /\ SessionOf \in [Ops -> Sessions] /\ NoSession \notin Sessions
  /\ Calls \subseteq AllCalls /\ ModesInUse \subseteq Modes
  /\ MaxPending \in Nat \ {0}
  /\ IsFiniteSet(Ops) /\ MaxOutcomes \in Nat /\ MaxOutcomes >= Cardinality(Ops)

VARIABLES
  mode,       \* the delegate of each conversation's SwitchableApprovalPolicy
  aborted,    \* whether the turn's signal has fired
  focused,    \* the conversation on screen
  call,       \* the call behind each operation
  review,     \* where the registry's review of the operation is
  shown,      \* the arguments whose digest the review took
  delegate,   \* the mode of the policy that reviews it
  decision,   \* what that policy answered
  entries,    \* the broker's live requests
  postponed,  \* the live requests that are not modal
  outcomes,   \* settled outcomes nobody has taken, oldest first
  provenance, \* what the deciding policy remembered
  completed,  \* reviews whose delegate SwitchableApprovalPolicy remembers
  tickets,    \* live approvals, with the digest they are bound to
  journal,    \* the decision event of each operation
  executing,  \* executions between consuming the ticket and the effect
  ran,        \* history: argument values each operation's effect ran with
  answered    \* history: what a person answered to each request

brokerVars == <<entries, postponed, outcomes>>
reviewVars == <<review, shown, delegate, decision, provenance, completed>>
pageVars   == <<mode, aborted, focused>>
execVars   == <<tickets, journal, executing, ran>>
vars == <<pageVars, call, reviewVars, brokerVars, execVars, answered>>
-------------------------------------------------------------------------------
None == "none"
NoRecord == [mode |-> None, source |-> None]
NoEvent == [decision |-> None, approval |-> NoRecord]

Init ==
  /\ mode \in [Sessions -> ModesInUse]
  /\ aborted = [s \in Sessions |-> FALSE]
  /\ focused \in Sessions \cup {NoSession}
  /\ call \in [Ops -> Calls]
  /\ review = [o \in Ops |-> "new"]
  /\ shown = [o \in Ops |-> None]
  /\ delegate = [o \in Ops |-> None]
  /\ decision = [o \in Ops |-> None]
  /\ entries = {} /\ postponed = {} /\ outcomes = << >>
  /\ provenance = [o \in Ops |-> NoRecord]
  /\ completed = {}
  /\ tickets = [o \in Ops |-> None]
  /\ journal = [o \in Ops |-> NoEvent]
  /\ executing = [o \in Ops |-> << >>]
  /\ ran = [o \in Ops |-> << >>]
  /\ answered = [o \in Ops |-> None]

TurnAborted(o) == aborted[SessionOf[o]]

\* approvalWasAnswered
Answered(outcome) == outcome \in {"allow", "deny"}

\* Everything but an explicit allow fails closed at the gate.
Gate(outcome) == IF outcome = "allow" THEN "allow" ELSE "deny"

\* remember, for a set of requests: the oldest unread outcomes make room for the new.
Remember(unread, ops, outcome) ==
  LET order == SetToSeq(ops)
      all == unread \o [i \in 1..Cardinality(ops) |-> [op |-> order[i], outcome |-> outcome]]
  IN  SubSeq(all, IF Len(all) <= MaxOutcomes THEN 1 ELSE Len(all) - MaxOutcomes + 1, Len(all))

\* takeOutcome, falling back to the decision where the record is gone.
Unread(o) == {i \in DOMAIN outcomes : outcomes[i].op = o}
OutcomeOf(o) ==
  IF Unread(o) = {} THEN decision[o] ELSE outcomes[CHOOSE i \in Unread(o) : TRUE].outcome
Taken(o) ==
  IF Unread(o) = {} THEN outcomes ELSE RemoveAt(outcomes, CHOOSE i \in Unread(o) : TRUE)

(***************************************************************************)
(* settle for a set of live requests: they leave the broker, each outcome  *)
(* is remembered and each waiting policy gets its decision.                *)
(***************************************************************************)
Settle(ops, outcome) ==
  /\ entries' = entries \ ops
  /\ postponed' = postponed \ ops
  /\ outcomes' = Remember(outcomes, ops, outcome)
  /\ decision' = [o \in Ops |-> IF o \in ops THEN Gate(outcome) ELSE decision[o]]
  /\ review' = [o \in Ops |-> IF o \in ops THEN "settled" ELSE review[o]]
-------------------------------------------------------------------------------
(* ToolRegistry.review *)

\* Admission: snapshot the arguments and reserve the operation, then digest.
Review(o, a) ==
  /\ review[o] = "new" /\ ~TurnAborted(o)
  /\ review' = [review EXCEPT ![o] = "digest"]
  /\ shown' = [shown EXCEPT ![o] = a]
  /\ UNCHANGED <<pageVars, call, delegate, decision, provenance, completed, brokerVars, execVars,
                 answered>>

\* A turn that is already stopped is denied before any policy is consulted.
ReviewRefused(o) ==
  /\ review[o] = "new" /\ TurnAborted(o)
  /\ decision' = [decision EXCEPT ![o] = "deny"]
  /\ review' = [review EXCEPT ![o] = "returned"]
  /\ UNCHANGED <<pageVars, call, shown, delegate, provenance, completed, brokerVars, execVars,
                 answered>>

\* What a policy lets run without asking anybody.
AutomaticAnywhere(m, k) ==
  k.effect = "read" \/ m = "full-access" \/ (m = "auto-approve" /\ k.effect = "write")
Automatic(m, k) ==
  \/ k.effect = "read"
  \/ ~k.folder /\ m = "full-access"
  \/ ~k.folder /\ m = "auto-approve" /\ k.effect = "write" /\ k.by = "model"

AutomaticSource(k) == IF k.effect = "read" THEN "automatic-read" ELSE "bounded-browser-sandbox"

(***************************************************************************)
(* The delegate in force now reviews the call.  It allows at once, or      *)
(* calls broker.request: an aborted turn, a full broker or a live request  *)
(* of the same identity is refused on the spot, anything else waits.       *)
(***************************************************************************)
Room(o) == Cardinality(entries) < MaxPending /\ o \notin entries
Refused(o) == TurnAborted(o) \/ ~Room(o)

PolicyAllows(o) ==
  /\ review[o] = "digest"
  /\ LET m == mode[SessionOf[o]]
     IN  /\ Automatic(m, call[o])
         /\ delegate' = [delegate EXCEPT ![o] = m]
         /\ provenance' = [provenance EXCEPT ![o] =
                             [mode |-> m, source |-> AutomaticSource(call[o])]]
  /\ decision' = [decision EXCEPT ![o] = "allow"]
  /\ review' = [review EXCEPT ![o] = "decided"]
  /\ UNCHANGED <<pageVars, call, shown, completed, brokerVars, execVars, answered>>

PolicyAsks(o) ==
  /\ review[o] = "digest" /\ ~Automatic(mode[SessionOf[o]], call[o])
  /\ delegate' = [delegate EXCEPT ![o] = mode[SessionOf[o]]]
  /\ \/ /\ Refused(o)
        /\ outcomes' = Remember(outcomes, {o}, IF TurnAborted(o) THEN "withdrawn" ELSE "unavailable")
        /\ decision' = [decision EXCEPT ![o] = "deny"]
        /\ review' = [review EXCEPT ![o] = "settled"]
        /\ UNCHANGED <<entries, postponed>>
     \/ /\ ~Refused(o)
        /\ entries' = entries \cup {o}
        /\ postponed' = IF focused \notin {NoSession, SessionOf[o]}
                        THEN postponed \cup {o} ELSE postponed
        /\ review' = [review EXCEPT ![o] = "asked"]
        /\ UNCHANGED <<outcomes, decision>>
  /\ UNCHANGED <<pageVars, call, shown, provenance, completed, execVars, answered>>

\* Whom the record names once the broker has answered.
AskedSource(m, k, outcome) ==
  CASE ~Answered(outcome) -> "unattended"
    [] Answered(outcome) /\ m = "ask-first" -> "human"
    [] Answered(outcome) /\ k.by = "person" /\ ~(m = "full-access" /\ k.folder) -> "human"
    [] OTHER -> "human-fallback"

\* The policy resumes after the broker's answer and remembers what happened.
PolicyResumes(o) ==
  /\ review[o] = "settled"
  /\ provenance' = [provenance EXCEPT ![o] =
                      [mode |-> delegate[o],
                       source |-> AskedSource(delegate[o], call[o], OutcomeOf(o))]]
  /\ outcomes' = Taken(o)
  /\ review' = [review EXCEPT ![o] = "decided"]
  /\ UNCHANGED <<pageVars, call, shown, delegate, decision, completed, entries, postponed, execVars,
                 answered>>

\* SwitchableApprovalPolicy notes the delegate, the registry closes the operation.
AllowsEvenIfAborted(o) == decision[o] = "allow"
Allows(o) == decision[o] = "allow" /\ ~TurnAborted(o)

ReviewReturns(o) ==
  /\ review[o] = "decided"
  /\ completed' = completed \cup {o}
  /\ IF Allows(o)
     THEN tickets' = [tickets EXCEPT ![o] = shown[o]] /\ UNCHANGED decision
     ELSE decision' = [decision EXCEPT ![o] = "deny"] /\ UNCHANGED tickets
  /\ review' = [review EXCEPT ![o] = "returned"]
  /\ UNCHANGED <<pageVars, call, shown, delegate, provenance, brokerVars, journal, executing, ran,
                 answered>>
-------------------------------------------------------------------------------
(* The agent's use of the decision *)

\* takeProvenance: the record is asked of the delegate that decided.
TakenProvenance(o) == IF o \in completed THEN provenance[o] ELSE NoRecord

\* tool.approved or tool.denied is appended with the provenance.
JournalDecision(o) ==
  /\ review[o] = "returned"
  /\ journal' = [journal EXCEPT ![o] =
                   [decision |-> decision[o], approval |-> TakenProvenance(o)]]
  /\ completed' = completed \ {o}
  /\ provenance' = [provenance EXCEPT ![o] = NoRecord]
  /\ review' = [review EXCEPT ![o] = "closed"]
  /\ UNCHANGED <<pageVars, call, shown, delegate, decision, brokerVars, tickets, executing, ran,
                 answered>>

\* executeApproved: consume the ticket, digest the arguments again.
ExecuteApproved(o, a) ==
  /\ review[o] = "closed" /\ decision[o] = "allow"
  /\ ~TurnAborted(o) /\ tickets[o] # None
  /\ executing' = [executing EXCEPT ![o] = Append(@, [args |-> a, ticket |-> tickets[o]])]
  /\ tickets' = [tickets EXCEPT ![o] = None]
  /\ UNCHANGED <<pageVars, call, reviewVars, brokerVars, journal, ran, answered>>

\* The digests must agree and the turn must still be live.
AnyArguments(o) == ~TurnAborted(o)
Admitted(o) ==
  Head(executing[o]).args = Head(executing[o]).ticket /\ ~TurnAborted(o)

Effect(o) ==
  /\ executing[o] # << >>
  /\ ran' = IF Admitted(o) THEN [ran EXCEPT ![o] = Append(@, Head(executing[o]).args)] ELSE ran
  /\ executing' = [executing EXCEPT ![o] = Tail(@)]
  /\ UNCHANGED <<pageVars, call, reviewVars, brokerVars, tickets, journal, answered>>
-------------------------------------------------------------------------------
(* The person, the clock and the page *)

\* decide: the person answers one request, postponed or not.
Decide(o, outcome) ==
  /\ o \in entries
  /\ Settle({o}, outcome)
  /\ answered' = [answered EXCEPT ![o] = outcome]
  /\ UNCHANGED <<pageVars, call, shown, delegate, provenance, completed, execVars>>

\* settleAll("human"): the person denies everything waiting.
DenyAll ==
  /\ entries # {}
  /\ Settle(entries, "deny")
  /\ answered' = [o \in Ops |-> IF o \in entries THEN "deny" ELSE answered[o]]
  /\ UNCHANGED <<pageVars, call, shown, delegate, provenance, completed, execVars>>

\* settleAll("page"): the dialog failed to load, the shell unmounts, or a
\* conversation's mode changed under its prompts.
Asked(s) == {o \in entries : SessionOf[o] = s}
PersonOutcome == "deny"
PageOutcome == "withdrawn"
PageWithdraws ==
  /\ \E ops \in {entries} \cup {Asked(s) : s \in Sessions} : ops # {} /\ Settle(ops, PageOutcome)
  /\ UNCHANGED <<pageVars, call, shown, delegate, provenance, completed, execVars, answered>>

\* The decision timer.
ExpireOutcome == "expired"
Expire(o) ==
  /\ o \in entries
  /\ Settle({o}, ExpireOutcome)
  /\ UNCHANGED <<pageVars, call, shown, delegate, provenance, completed, execVars, answered>>

\* Stop, a profile switch or a storage transition: the abort listeners of the
\* broker's entries and of the registry's tickets run at once.
Abort(s) ==
  /\ ~aborted[s]
  /\ aborted' = [aborted EXCEPT ![s] = TRUE]
  /\ Settle(Asked(s), "withdrawn")
  /\ tickets' = [o \in Ops |-> IF SessionOf[o] = s THEN None ELSE tickets[o]]
  /\ UNCHANGED <<mode, focused, call, shown, delegate, provenance, completed, journal, executing,
                 ran, answered>>

\* SwitchableApprovalPolicy.replace
Replace(s, m) ==
  /\ mode[s] # m
  /\ mode' = [mode EXCEPT ![s] = m]
  /\ UNCHANGED <<aborted, focused, call, reviewVars, brokerVars, execVars, answered>>

\* focusSession
FocusSession(s) ==
  /\ focused # s /\ focused' = s
  /\ UNCHANGED <<mode, aborted, call, reviewVars, brokerVars, execVars, answered>>

\* defer and resume
Defer(o) ==
  /\ o \in entries \ postponed
  /\ postponed' = postponed \cup {o}
  /\ UNCHANGED <<pageVars, call, reviewVars, entries, outcomes, execVars, answered>>

Resume(o) ==
  /\ o \in postponed
  /\ postponed' = postponed \ {o}
  /\ UNCHANGED <<pageVars, call, reviewVars, entries, outcomes, execVars, answered>>
-------------------------------------------------------------------------------
\* What the event loop owes a review once it has begun.
Continue(o) ==
  \/ PolicyAllows(o) \/ PolicyAsks(o) \/ PolicyResumes(o) \/ ReviewReturns(o) \/ Effect(o)

Next ==
  \/ \E o \in Ops :
       \/ Continue(o) \/ ReviewRefused(o) \/ JournalDecision(o)
       \/ Expire(o) \/ Defer(o) \/ Resume(o)
       \/ \E a \in Args : Review(o, a) \/ ExecuteApproved(o, a)
       \/ \E outcome \in {"allow", "deny"} : Decide(o, outcome)
  \/ DenyAll \/ PageWithdraws
  \/ \E s \in Sessions : Abort(s) \/ \E m \in ModesInUse : Replace(s, m)
  \/ \E s \in Sessions \cup {NoSession} : FocusSession(s)

Spec == Init /\ [][Next]_vars

\* Queued continuations run, and so does the decision timer of a live request.
FairSpec == Spec /\ \A o \in Ops : WF_vars(Continue(o)) /\ WF_vars(Expire(o))
-------------------------------------------------------------------------------
Sources == {None, "automatic-read", "bounded-browser-sandbox", "unattended", "human",
            "human-fallback"}
Records == [mode : Modes \cup {None}, source : Sources]

\* The types, with the bounds the broker keeps on live requests and unread outcomes.
TypeOK ==
  /\ mode \in [Sessions -> Modes] /\ aborted \in [Sessions -> BOOLEAN]
  /\ focused \in Sessions \cup {NoSession}
  /\ call \in [Ops -> Calls]
  /\ review \in [Ops -> {"new", "digest", "asked", "settled", "decided", "returned", "closed"}]
  /\ shown \in [Ops -> Args \cup {None}]
  /\ delegate \in [Ops -> Modes \cup {None}]
  /\ decision \in [Ops -> {None, "allow", "deny"}]
  /\ entries \subseteq Ops /\ Cardinality(entries) <= MaxPending
  /\ postponed \subseteq entries
  /\ Len(outcomes) <= MaxOutcomes
  /\ provenance \in [Ops -> Records] /\ completed \subseteq Ops
  /\ tickets \in [Ops -> Args \cup {None}]
  /\ answered \in [Ops -> {None, "allow", "deny"}]

(***************************************************************************)
(* Nothing runs on nobody's authority: an effect has either a person's     *)
(* explicit allow for this very request, or is a read, or was reviewed     *)
(* under a mode that covers it; a call that names an attached folder is    *)
(* always asked (modes.ts: "every approval mode reviews it").              *)
(***************************************************************************)
EffectsAuthorized ==
  \A o \in Ops : ran[o] # << >> =>
    \/ answered[o] = "allow"
    \/ call[o].effect = "read"
    \/ ~call[o].folder /\ delegate[o] = "full-access"
    \/ ~call[o].folder /\ delegate[o] = "auto-approve"
         /\ call[o].by = "model" /\ call[o].effect = "write"

(***************************************************************************)
(* One review pays for one effect, run with the arguments that were        *)
(* reviewed, however often executeApproved is called and with whatever     *)
(* arguments.                                                              *)
(***************************************************************************)
RunsOnceAsReviewed ==
  \A o \in Ops : Len(ran[o]) <= 1 /\ (ran[o] # << >> => ran[o] = <<shown[o]>>)

(***************************************************************************)
(* The journaled decision names a person exactly when a person answered    *)
(* this request: never for an expiry, a withdrawal or a full broker        *)
(* (approvalWasAnswered), and always when somebody did.                    *)
(***************************************************************************)
RecordsNameWhoAnswered ==
  \A o \in Ops : journal[o] # NoEvent =>
    (journal[o].approval.source \in {"human", "human-fallback"} <=> answered[o] # None)

(***************************************************************************)
(* The audit requires provenance on every approval: whatever mode switches *)
(* happen while a review is under way, the record found for it is the one  *)
(* of the delegate that decided.                                           *)
(***************************************************************************)
DecisionsCarryProvenance ==
  \A o \in Ops :
    journal[o] # NoEvent /\ delegate[o] # None =>
      journal[o].approval.mode = delegate[o] /\ journal[o].approval.source # None

(***************************************************************************)
(* No effect starts once the turn was stopped, wherever the abort falls    *)
(* between the person's answer and the effect.                             *)
(***************************************************************************)
NothingStartsAfterAbort ==
  [][\A o \in Ops : TurnAborted(o) => ran'[o] = ran[o]]_vars

(***************************************************************************)
(* Nothing of a stopped turn stays behind: no request waits for an answer  *)
(* nobody needs and no granted approval can still be spent, also when the  *)
(* abort falls between the policy's answer and the registry's ticket or    *)
(* between the admission and the broker's abort listener.                  *)
(***************************************************************************)
NothingSurvivesAbort ==
  \A o \in Ops : TurnAborted(o) => tickets[o] = None /\ o \notin entries

UnderReview(o) == review[o] \in {"digest", "asked", "settled", "decided"}

(***************************************************************************)
(* A review is never stuck: postponed, behind a full broker, re-moded or   *)
(* abandoned, the caller gets a decision.                                  *)
(***************************************************************************)
ReviewsSettle == \A o \in Ops : UnderReview(o) ~> ~UnderReview(o)
===============================================================================
