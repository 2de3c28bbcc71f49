-------------------------- MODULE SubagentRegistry --------------------------
(***************************************************************************)
(* The registry of spawned subagents (prime/subagents/registry.ts) with    *)
(* what the product attaches to it: the child sessions and their sinks     *)
(* (prime/runtime/agent-factory.ts) and the late-bound sink of the owner   *)
(* (prime/runtime/subagent-registry.ts), whose turn runs the registry.     *)
(*                                                                         *)
(* A spawn is admitted while other spawns await their model; the child is  *)
(* built and started by a task nobody awaits; its end is observed through  *)
(* the agent_end event of its loop, a stop, or a failing factory, in any   *)
(* order.  A step is what runs between two awaits.                         *)
(*                                                                         *)
(* Abstractions.  A message is a count in a sink's queue.  A turn of a     *)
(* child is its preflight, its loop and its settling.  Argument            *)
(* validation and the depth gate refuse a spawn before any state changes   *)
(* and are the absence of a step.  No ledger is attached.  One             *)
(* reapCompleted call runs at a time.                                      *)
(***************************************************************************)
EXTENDS Naturals, FiniteSets

CONSTANTS Spawns,            \* calls of spawn, which become child IDs
          Names,             \* agent names
          OwnerName,         \* the name of the owner node ("root")
          MaxPending,        \* MAX_PENDING_AGENT_MESSAGES
          Burst,             \* PRIME_MESSAGE_BURST_CAPACITY
          MaxMessages,       \* bound on the messages the owner sends
          PreflightMayFail   \* may a child's turn end before its loop starts

RegistryAssumption ==
  /\ OwnerName \notin Names
  /\ MaxPending \in Nat \ {0} /\ Burst \in Nat \ {0} /\ MaxMessages \in Nat
  /\ PreflightMayFail \in BOOLEAN

VARIABLES
  phase,          \* where spawn, then the detached task of the child, is
  name,           \* the name a spawn reserved
  attached,       \* the names of host-attached nodes
  terminal,       \* the child's terminal reason, "none" until settled
  terminals,      \* history: subagent-terminal events emitted for the child
  stopRequested,  \* ChildEntry.stopRequested
  stopping,       \* children whose stop() awaits runtime.stop
  replied,        \* ChildEntry.replied
  errored,        \* history: the last turn of the child failed in its loop
  run,            \* where the child's session is in a turn
  inbox,          \* messages waiting in the child's sink
  disposed,       \* the child's session is disposed
  aborted,        \* the signal of the child's turn has fired
  subscribed,     \* the registry listens to the child's agent events
  owner,          \* whose prompt the owner's session runs
  ownerDisposed,  \* the owner's session is disposed
  heard,          \* children whose terminal notice the owner's session took
  tokens,         \* the owner's token bucket
  sent,           \* messages the owner has sent
  todo,           \* children reapCompleted has still to visit
  reaping         \* the child whose runtime.stop reapCompleted awaits

spawnVars == <<phase, name, attached>>
entryVars == <<terminal, terminals, stopRequested, stopping, replied>>
childVars == <<errored, run, inbox, disposed, aborted, subscribed>>
ownerVars == <<owner, ownerDisposed, heard, tokens, sent>>
reapVars  == <<todo, reaping>>
vars == <<spawnVars, entryVars, childVars, ownerVars, reapVars>>

Phases == {"new", "resolving", "admitted", "creating", "lateStop",
           "delivering", "live", "ended", "reaped", "refused"}
Reasons == {"replied", "completed_without_reply", "failed", "stopped"}
NoChild == "nobody"
-------------------------------------------------------------------------------
Listed == {c \in Spawns : phase[c] \in {"admitted", "creating", "lateStop",
                                        "delivering", "live", "ended"}}
Bundled(c) == phase[c] \in {"delivering", "live"}
Running(c) == c \in Listed /\ terminal[c] = "none"
InTurn(c) == run[c] # "idle"

Init ==
  /\ phase = [c \in Spawns |-> "new"]
  /\ name = [c \in Spawns |-> OwnerName]
  /\ attached = {}
  /\ terminal = [c \in Spawns |-> "none"]
  /\ terminals = [c \in Spawns |-> 0]
  /\ stopRequested = [c \in Spawns |-> FALSE]
  /\ stopping = {}
  /\ replied = [c \in Spawns |-> FALSE]
  /\ errored = [c \in Spawns |-> FALSE]
  /\ run = [c \in Spawns |-> "idle"]
  /\ inbox = [c \in Spawns |-> 0]
  /\ disposed = [c \in Spawns |-> FALSE]
  /\ aborted = [c \in Spawns |-> FALSE]
  /\ subscribed = [c \in Spawns |-> FALSE]
  /\ owner = "user" /\ ownerDisposed = FALSE /\ heard = {}
  /\ tokens = Burst /\ sent = 0
  /\ todo = {} /\ reaping = NoChild
-------------------------------------------------------------------------------
(* Admission. *)
NodeNames == {OwnerName} \cup attached \cup {name[c] : c \in Listed}
PendingNames ==
  {name[c] : c \in {d \in Spawns : phase[d] \in {"resolving", "admitted"}}}

NameAvailable(n) == n \notin NodeNames /\ n \notin PendingNames

Spawn(c, n) ==
  /\ phase[c] = "new"
  /\ NameAvailable(n)
  /\ phase' = [phase EXCEPT ![c] = "resolving"]
  /\ name' = [name EXCEPT ![c] = n]
  /\ UNCHANGED <<attached, entryVars, childVars, ownerVars, reapVars>>

(* The model is resolved; the name is checked again and the child recorded. *)
StillAvailableBug(c) == TRUE
StillAvailable(c) == name[c] \notin NodeNames

Admit(c) ==
  /\ phase[c] = "resolving"
  /\ phase' = [phase EXCEPT ![c] = IF StillAvailable(c) THEN "admitted" ELSE "refused"]
  /\ UNCHANGED <<name, attached, entryVars, childVars, ownerVars, reapVars>>

ModelUnresolved(c) ==
  /\ phase[c] = "resolving"
  /\ phase' = [phase EXCEPT ![c] = "refused"]
  /\ UNCHANGED <<name, attached, entryVars, childVars, ownerVars, reapVars>>

(* spawn resolves with the handle; the detached task calls the factory. *)
Detach(c) ==
  /\ phase[c] = "admitted"
  /\ phase' = [phase EXCEPT ![c] = "creating"]
  /\ UNCHANGED <<name, attached, entryVars, childVars, ownerVars, reapVars>>

AttachNode(n) ==
  /\ n \notin NodeNames
  /\ attached' = attached \cup {n}
  /\ UNCHANGED <<phase, name, entryVars, childVars, ownerVars, reapVars>>
-------------------------------------------------------------------------------
(***************************************************************************)
(* settle: only the first call has an effect.  The notice goes to the      *)
(* owner's sink, which prompts the owner's session: a busy or disposed     *)
(* session refuses the prompt and the refusal is swallowed.                *)
(***************************************************************************)
TakesPrompt == owner = NoChild /\ ~ownerDisposed

SettleAgain(c, reason) ==
  /\ terminal' = [terminal EXCEPT ![c] = reason]
  /\ terminals' = [terminals EXCEPT ![c] = @ + 1]
  /\ IF reason # "replied" /\ TakesPrompt
       THEN owner' = "notice" /\ heard' = heard \cup {c}
       ELSE UNCHANGED <<owner, heard>>
Settle(c, reason) ==
  IF terminal[c] # "none"
  THEN UNCHANGED <<terminal, terminals, owner, heard>>
  ELSE SettleAgain(c, reason)

FactoryThrowsBug(c) ==
  /\ phase[c] = "creating"
  /\ phase' = [phase EXCEPT ![c] = "ended"]
  /\ UNCHANGED <<name, attached, entryVars, childVars, ownerVars, reapVars>>
FactoryThrows(c) ==
  /\ phase[c] = "creating"
  /\ phase' = [phase EXCEPT ![c] = "ended"]
  /\ Settle(c, "stopped")
  /\ UNCHANGED <<name, attached, stopRequested, stopping, replied, childVars,
                 ownerDisposed, tokens, sent, reapVars>>

(***************************************************************************)
(* A stop that came before the bundle is applied to it (lateStop).         *)
(* Otherwise the registry subscribes to the child and delivers the task,   *)
(* which starts the sink's drain and with it the first turn.               *)
(***************************************************************************)
FactoryReturns(c) ==
  /\ phase[c] = "creating"
  /\ IF stopRequested[c]
       THEN /\ phase' = [phase EXCEPT ![c] = "lateStop"]
            /\ disposed' = [disposed EXCEPT ![c] = TRUE]
            /\ UNCHANGED <<run, subscribed>>
       ELSE /\ phase' = [phase EXCEPT ![c] = "delivering"]
            /\ subscribed' = [subscribed EXCEPT ![c] = TRUE]
            /\ run' = [run EXCEPT ![c] = "opening"]
            /\ UNCHANGED disposed
  /\ UNCHANGED <<name, attached, entryVars, errored, inbox, aborted, ownerVars, reapVars>>

LateStopApplied(c) ==
  /\ phase[c] = "lateStop"
  /\ phase' = [phase EXCEPT ![c] = "ended"]
  /\ Settle(c, "stopped")
  /\ UNCHANGED <<name, attached, stopRequested, stopping, replied, childVars,
                 ownerDisposed, tokens, sent, reapVars>>

TaskDelivered(c) ==
  /\ phase[c] = "delivering"
  /\ phase' = [phase EXCEPT ![c] = "live"]
  /\ UNCHANGED <<name, attached, entryVars, childVars, ownerVars, reapVars>>
-------------------------------------------------------------------------------
(***************************************************************************)
(* A turn of the child's session, for the message at the front of its      *)
(* sink.  The turn has a signal from its preflight on.  A prompt that      *)
(* rejects (the turn was not admitted) ends the drain; a turn that fails   *)
(* after its admission but before its loop resolves.  Neither emits        *)
(* agent_end.                                                              *)
(***************************************************************************)
Preflight(c) ==
  /\ run[c] = "opening"
  /\ run' = [run EXCEPT ![c] = "preflight"]
  /\ aborted' = [aborted EXCEPT ![c] = FALSE]
  /\ UNCHANGED <<spawnVars, entryVars, errored, inbox, disposed, subscribed, ownerVars, reapVars>>

EnterLoop(c) ==
  /\ run[c] = "preflight" /\ ~aborted[c]
  /\ run' = [run EXCEPT ![c] = "loop"]
  /\ errored' = [errored EXCEPT ![c] = FALSE]
  /\ UNCHANGED <<spawnVars, entryVars, inbox, disposed, aborted, subscribed, ownerVars, reapVars>>

NotAdmitted(c) ==
  /\ run[c] = "preflight" /\ (aborted[c] \/ PreflightMayFail)
  /\ run' = [run EXCEPT ![c] = "idle"]
  /\ UNCHANGED <<spawnVars, entryVars, errored, inbox, disposed, aborted, subscribed,
                 ownerVars, reapVars>>

FailsBeforeLoop(c) ==
  /\ run[c] = "preflight" /\ PreflightMayFail
  /\ run' = [run EXCEPT ![c] = "settling"]
  /\ UNCHANGED <<spawnVars, entryVars, errored, inbox, disposed, aborted, subscribed,
                 ownerVars, reapVars>>

(* settleFromAgentEnd *)
EndReasonBug(c, failed) ==
  IF failed THEN "failed"
  ELSE IF replied[c] THEN "replied" ELSE "completed_without_reply"
EndReason(c, failed) ==
  IF stopRequested[c] THEN "stopped"
  ELSE IF failed THEN "failed"
  ELSE IF replied[c] THEN "replied" ELSE "completed_without_reply"

LoopEnds(c, failed) ==
  /\ run[c] = "loop"
  /\ owner # c \/ aborted[c]        \* a tool call of the loop is awaited
  /\ aborted[c] => failed
  /\ run' = [run EXCEPT ![c] = "settling"]
  /\ errored' = [errored EXCEPT ![c] = failed]
  /\ IF subscribed[c] THEN Settle(c, EndReason(c, failed))
                      ELSE UNCHANGED <<terminal, terminals, owner, heard>>
  /\ UNCHANGED <<spawnVars, stopRequested, stopping, replied, inbox, disposed,
                 aborted, subscribed, ownerDisposed, tokens, sent, reapVars>>

(***************************************************************************)
(* The prompt resolves and the drain takes the next message, which a       *)
(* disposed session refuses.                                               *)
(***************************************************************************)
TurnSettles(c) ==
  /\ run[c] = "settling"
  /\ inbox' = [inbox EXCEPT ![c] = IF @ > 0 THEN @ - 1 ELSE 0]
  /\ run' = [run EXCEPT ![c] = IF inbox[c] > 0 /\ ~disposed[c] THEN "opening" ELSE "idle"]
  /\ UNCHANGED <<spawnVars, entryVars, errored, disposed, aborted, subscribed, ownerVars, reapVars>>
-------------------------------------------------------------------------------
(***************************************************************************)
(* route.send: the owner to a child, a child to the owner (once: a later   *)
(* reply only replaces the preview).                                       *)
(***************************************************************************)
HasRoomBug(c) == inbox[c] <= MaxPending
HasRoom(c) == inbox[c] < MaxPending

OwnerSends(c) ==
  /\ Bundled(c) /\ HasRoom(c) /\ tokens > 0 /\ sent < MaxMessages
  /\ tokens' = tokens - 1 /\ sent' = sent + 1
  /\ IF InTurn(c) \/ disposed[c]
       THEN /\ inbox' = [inbox EXCEPT ![c] = IF InTurn(c) THEN @ + 1 ELSE @]
            /\ UNCHANGED run
       ELSE run' = [run EXCEPT ![c] = "opening"] /\ UNCHANGED inbox
  /\ UNCHANGED <<spawnVars, entryVars, errored, disposed, aborted, subscribed,
                 owner, ownerDisposed, heard, reapVars>>

Refill ==
  /\ tokens < Burst
  /\ tokens' = tokens + 1
  /\ UNCHANGED <<spawnVars, entryVars, childVars, owner, ownerDisposed, heard, sent, reapVars>>

ChildSends(c) ==
  /\ run[c] = "loop" /\ c \in Listed /\ TakesPrompt /\ ~replied[c]
  /\ owner' = c
  /\ UNCHANGED <<spawnVars, entryVars, childVars, ownerDisposed, heard, tokens, sent, reapVars>>

(* The owner's turn settles; a child whose message it ran has replied. *)
OwnerTurnSettles ==
  /\ owner # NoChild
  /\ owner' = NoChild
  /\ replied' = [c \in Spawns |-> replied[c] \/ (c = owner /\ c \in Listed)]
  /\ UNCHANGED <<spawnVars, terminal, terminals, stopRequested, stopping, childVars,
                 ownerDisposed, heard, tokens, sent, reapVars>>

(* runPrimeTurn's finally, once the turn it ran for the user is over. *)
OwnerDisposed ==
  /\ owner # "user" /\ ~ownerDisposed
  /\ ownerDisposed' = TRUE
  /\ UNCHANGED <<spawnVars, entryVars, childVars, owner, heard, tokens, sent, reapVars>>
-------------------------------------------------------------------------------
(***************************************************************************)
(* stop and reapCompleted: runtime.stop disposes the child's session,      *)
(* which aborts the turn whose signal it can see and awaits its end.       *)
(***************************************************************************)
Dispose(c) ==
  /\ disposed' = [disposed EXCEPT ![c] = TRUE]
  /\ aborted' = [aborted EXCEPT ![c] = @ \/ run[c] \in {"preflight", "loop"}]
StopRuntimeBug(c) == UNCHANGED <<disposed, aborted>>
StopRuntime(c) == Dispose(c)

Stop(c) ==
  /\ Running(c)
  /\ stopRequested' = [stopRequested EXCEPT ![c] = TRUE]
  /\ IF Bundled(c)
       THEN stopping' = stopping \cup {c} /\ StopRuntime(c)
       ELSE UNCHANGED <<stopping, disposed, aborted>>
  /\ UNCHANGED <<spawnVars, terminal, terminals, replied, errored, run, inbox,
                 subscribed, ownerVars, reapVars>>

StopResolves(c) ==
  /\ c \in stopping /\ ~InTurn(c)
  /\ stopping' = stopping \ {c}
  /\ Settle(c, "stopped")
  /\ UNCHANGED <<spawnVars, stopRequested, replied, childVars, ownerDisposed,
                 tokens, sent, reapVars>>

ReapStart ==
  /\ todo = {} /\ reaping = NoChild /\ Listed # {}
  /\ todo' = Listed
  /\ UNCHANGED <<spawnVars, entryVars, childVars, ownerVars, reaping>>

Reap(c) ==
  /\ c \in todo /\ reaping = NoChild
  /\ todo' = todo \ {c}
  /\ IF Running(c)
       THEN UNCHANGED <<phase, subscribed, disposed, aborted, reaping>>
       ELSE /\ subscribed' = [subscribed EXCEPT ![c] = FALSE]
            /\ IF Bundled(c)
                 THEN reaping' = c /\ Dispose(c) /\ UNCHANGED phase
                 ELSE phase' = [phase EXCEPT ![c] = "reaped"] /\ UNCHANGED <<reaping, disposed, aborted>>
  /\ UNCHANGED <<name, attached, entryVars, errored, run, inbox, ownerVars>>

Reaped ==
  /\ reaping # NoChild /\ ~InTurn(reaping)
  /\ phase' = [phase EXCEPT ![reaping] = "reaped"]
  /\ reaping' = NoChild
  /\ UNCHANGED <<name, attached, entryVars, childVars, ownerVars, todo>>
-------------------------------------------------------------------------------
Progress(c) ==
  \/ Admit(c) \/ Detach(c) \/ FactoryReturns(c) \/ LateStopApplied(c)
  \/ TaskDelivered(c) \/ Preflight(c) \/ EnterLoop(c) \/ NotAdmitted(c) \/ FailsBeforeLoop(c)
  \/ \E failed \in BOOLEAN : LoopEnds(c, failed)
  \/ TurnSettles(c) \/ StopResolves(c)

Next ==
  \/ \E c \in Spawns :
       \/ Progress(c)
       \/ \E n \in Names : Spawn(c, n)
       \/ ModelUnresolved(c) \/ FactoryThrows(c)
       \/ OwnerSends(c) \/ ChildSends(c) \/ Stop(c) \/ Reap(c)
  \/ \E n \in Names : AttachNode(n)
  \/ Refill \/ OwnerTurnSettles \/ OwnerDisposed \/ ReapStart \/ Reaped

Spec == Init /\ [][Next]_vars

(***************************************************************************)
(* Promises resolve: the factory answers, a loop ends, the owner's turn    *)
(* ends.  Nothing is assumed of spawns, stops, messages or reaping.        *)
(***************************************************************************)
FairSpec ==
  /\ Spec
  /\ \A c \in Spawns : WF_vars(Progress(c))
  /\ WF_vars(OwnerTurnSettles)
-------------------------------------------------------------------------------
TypeOK ==
  /\ phase \in [Spawns -> Phases] /\ name \in [Spawns -> Names \cup {OwnerName}]
  /\ attached \subseteq Names
  /\ terminal \in [Spawns -> Reasons \cup {"none"}] /\ terminals \in [Spawns -> Nat]
  /\ stopRequested \in [Spawns -> BOOLEAN] /\ stopping \subseteq Spawns
  /\ replied \in [Spawns -> BOOLEAN] /\ errored \in [Spawns -> BOOLEAN]
  /\ run \in [Spawns -> {"idle", "opening", "preflight", "loop", "settling"}]
  /\ inbox \in [Spawns -> 0 .. MaxPending]
  /\ disposed \in [Spawns -> BOOLEAN] /\ aborted \in [Spawns -> BOOLEAN]
  /\ subscribed \in [Spawns -> BOOLEAN]
  /\ owner \in Spawns \cup {"user", "notice", NoChild}
  /\ ownerDisposed \in BOOLEAN /\ heard \subseteq Spawns
  /\ tokens \in 0 .. Burst /\ sent \in 0 .. MaxMessages
  /\ todo \subseteq Spawns /\ reaping \in Spawns \cup {NoChild}

(***************************************************************************)
(* Two spawns racing through their model resolution, and a node attached   *)
(* meanwhile, never leave two live agents under one name, so a name always *)
(* routes to one agent (spawn, assertNameAvailable, pendingNames).         *)
(***************************************************************************)
NamesAreUnique ==
  /\ \A c, d \in Listed : name[c] = name[d] => c = d
  /\ \A c \in Listed : name[c] \notin attached

(***************************************************************************)
(* stop, the child's own end and a failing factory race, and the run still *)
(* settles once (settle).                                                  *)
(***************************************************************************)
SettlesOnce ==
  \A c \in Spawns : terminals[c] = IF terminal[c] = "none" THEN 0 ELSE 1

(***************************************************************************)
(* A stop that was accepted while the child ran names the child's end,     *)
(* whether the bundle, the end of the loop or runtime.stop comes first.    *)
(***************************************************************************)
AcceptedStopNamesTheEnd ==
  \A c \in Spawns :
    stopRequested[c] /\ terminal[c] # "none" => terminal[c] = "stopped"

(***************************************************************************)
(* A child that settled as stopped starts no further turn, whatever is     *)
(* still in its sink or sent to it later.                                  *)
(***************************************************************************)
StoppedStartsNothing ==
  \A c \in Spawns :
    terminal[c] = "stopped" /\ run[c] # "loop" => run'[c] # "loop"

(***************************************************************************)
(* "Running children are architecturally out of scope" of reapCompleted:   *)
(* it never disposes a session whose loop is running.                      *)
(***************************************************************************)
ReapSparesRunning ==
  \A c \in Spawns : reaping' = c /\ reaping # c => run[c] # "loop"

(***************************************************************************)
(* "The parent ALWAYS hears finality": a child that settled without a      *)
(* reply has its notice taken by the owner's session.                      *)
(***************************************************************************)
ParentHearsFinality ==
  \A c \in Spawns : terminal[c] \in Reasons \ {"replied"} => c \in heard

Unsettled(c) == phase[c] \notin {"new", "resolving", "refused"} /\ terminal[c] = "none"

\* A turn of the child ended before its loop began, and nothing of the child runs: no
\* agent_end was emitted, and the sink's onSettled does nothing.
Stranded(c) == Bundled(c) /\ ~InTurn(c) /\ terminal[c] = "none" /\ ~stopRequested[c]

(***************************************************************************)
(* Every admitted child is settled in the end, so that no dead child looks *)
(* alive for ever, unless it is stranded.                                  *)
(***************************************************************************)
EveryChildSettles ==
  \A c \in Spawns : Unsettled(c) ~> ~Unsettled(c) \/ Stranded(c)
===============================================================================
