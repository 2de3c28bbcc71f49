-------------------------------- MODULE MCTurns --------------------------------
(***************************************************************************)
(* The turns of a conversation for TLC: CoreTurn under the configuration's *)
(* constants, other instances of it, and instances of PrimeTurn, the other *)
(* engine, with a journal of its own.  The scenario is chosen at the start *)
(* and never changes; the engine it does not use writes nothing.           *)
(***************************************************************************)
EXTENDS CoreTurn

VARIABLES scenario, plog, pfaults, seen, ses, fired, entries, notices

primeVars == <<plog, pfaults, seen, ses, fired, entries, notices>>
turnsVars == <<scenario, vars, primeVars>>
-------------------------------------------------------------------------------
Calls == {<<"r1">>, <<"r2">>, <<"w1">>, <<"w2">>, <<"u1">>}
Effects == [c \in Calls |-> CASE c \in {<<"r1">>, <<"r2">>} -> "read"
                               [] c \in {<<"w1">>, <<"w2">>} -> "write"
                               [] c = <<"u1">> -> "unknown"]
KeysOf == [c \in Calls |-> IF c \in {<<"w1">>, <<"w2">>} THEN "write" ELSE "other"]

Reply(text, calls) == [text |-> text, calls |-> calls]
OneWrite == {Reply(FALSE, <<<<"w1">>>>)}
Plain == [slash |-> FALSE, env |-> FALSE]
PlainPrompts == {Plain}
Described == {[slash |-> FALSE, env |-> TRUE], [slash |-> TRUE, env |-> TRUE]}

\* The configuration is two tabs, the other engine, a model change and a dying tab.

\* One turn with batched, unknown, denied and throwing calls and a journal fault.
Batches == INSTANCE CoreTurn WITH
  ManifestModel <- "m1", ManifestMode <- "ask-first", TurnContext <- "required",
  Turns <- {1}, Effect <- Effects, KeyOf <- KeysOf, Decisions <- {"allow", "deny", "throws"},
  Replies <- {Reply(FALSE, <<<<"r1">>, <<"r2">>, <<"w1">>>>), Reply(TRUE, <<<<"u1">>>>),
              Reply(TRUE, <<<<"w2">>>>)},
  Models <- {"m1"}, Modes <- {"ask-first"}, MaxSteps <- 2, StopAt <- 2, Preserve <- 1,
  Compresses <- FALSE, Prompts <- PlainPrompts,
  MaxFaults <- 1, MaxCrashes <- 0, PrimeMayClaim <- FALSE

\* Two turns that may be compacted, completed, failed or stopped anywhere.
Histories == INSTANCE CoreTurn WITH
  ManifestModel <- "m1", ManifestMode <- "ask-first", TurnContext <- "required",
  Turns <- {1, 2}, Effect <- Effects, KeyOf <- KeysOf, Decisions <- {"allow", "deny", "throws"},
  Replies <- {Reply(FALSE, <<<<"r1">>, <<"w1">>>>)},
  Models <- {"m1"}, Modes <- {"ask-first"}, MaxSteps <- 2, StopAt <- 2, Preserve <- 0,
  Compresses <- TRUE, Prompts <- Described, MaxFaults <- 0, MaxCrashes <- 0, PrimeMayClaim <- FALSE

\* Three turns with compaction, injected context and slash prompts.
Compaction == INSTANCE CoreTurn WITH
  ManifestModel <- "m1", ManifestMode <- "ask-first", TurnContext <- "required",
  Turns <- {1, 2, 3}, Effect <- Effects, KeyOf <- KeysOf, Decisions <- {"allow"},
  Replies <- OneWrite, Models <- {"m1"}, Modes <- {"ask-first"}, MaxSteps <- 1, StopAt <- 2,
  Preserve <- 0, Compresses <- TRUE, Prompts <- Described,
  MaxFaults <- 0, MaxCrashes <- 0, PrimeMayClaim <- FALSE

\* One turn through each lane of the loop, with Stop and a kernel notice.
Lanes == INSTANCE PrimeTurn WITH
  log <- plog, faults <- pfaults,
  ManifestModel <- "m1", ManifestMode <- "ask-first", TurnContext <- "disabled",
  Sessions <- {"a"}, Effect <- Effects, KeyOf <- KeysOf, Decisions <- {"allow", "deny"},
  Replies <- {Reply(FALSE, <<<<"r1">>, <<"u1">>, <<"w1">>>>), Reply(TRUE, <<<<"r1">>, <<"r2">>>>),
              Reply(TRUE, <<<<"w1">>, <<"w2">>>>)},
  Models <- {"m1"}, Claimed <- TRUE, Compresses <- FALSE, Preserve <- 0, MaxSteps <- 2,
  StopAt <- 2, MaxEntries <- 1, MaxNotices <- 1, MaxFaults <- 0, Stops <- {"abort"}

\* Two authorities over one claimed session.
Tabs == INSTANCE PrimeTurn WITH
  log <- plog, faults <- pfaults,
  ManifestModel <- "m1", ManifestMode <- "ask-first", TurnContext <- "disabled",
  Sessions <- {"a", "b"}, Effect <- Effects, KeyOf <- KeysOf, Decisions <- {"allow"},
  Replies <- OneWrite, Models <- {"m1", "m2"}, Claimed <- TRUE, Compresses <- FALSE, Preserve <- 0,
  MaxSteps <- 1, StopAt <- 2, MaxEntries <- 2, MaxNotices <- 0, MaxFaults <- 0, Stops <- {"abort"}

\* An append that fails or loses its answer anywhere in two turns.
Lost == INSTANCE PrimeTurn WITH
  log <- plog, faults <- pfaults,
  ManifestModel <- "m1", ManifestMode <- "ask-first", TurnContext <- "required",
  Sessions <- {"a"}, Effect <- Effects, KeyOf <- KeysOf, Decisions <- {"allow", "deny"},
  Replies <- OneWrite, Models <- {"m1"}, Claimed <- FALSE, Compresses <- TRUE, Preserve <- 0,
  MaxSteps <- 2, StopAt <- 2, MaxEntries <- 2, MaxNotices <- 0, MaxFaults <- 1, Stops <- {"abort"}

\* Stop, the host's signal, dispose and throwing reviews.
Stopped == INSTANCE PrimeTurn WITH
  log <- plog, faults <- pfaults,
  ManifestModel <- "m1", ManifestMode <- "ask-first", TurnContext <- "disabled",
  Sessions <- {"a"}, Effect <- Effects, KeyOf <- KeysOf, Decisions <- {"allow", "deny", "throws"},
  Replies <- OneWrite, Models <- {"m1"}, Claimed <- FALSE, Compresses <- FALSE, Preserve <- 0,
  MaxSteps <- 2, StopAt <- 2, MaxEntries <- 2, MaxNotices <- 0, MaxFaults <- 0,
  Stops <- {"abort", "host", "dispose"}

ASSUME /\ Batches!CoreAssumption /\ Histories!CoreAssumption
       /\ Compaction!CoreAssumption /\ CoreAssumption
       /\ Lanes!PrimeAssumption /\ Tabs!PrimeAssumption
       /\ Lost!PrimeAssumption /\ Stopped!PrimeAssumption
-------------------------------------------------------------------------------
NoCore ==
  /\ log = <<>> /\ faults = 0 /\ audit = 0 /\ turn = 0 /\ aborted = 0 /\ policy = 0
  /\ switching = 0 /\ prime = 0 /\ crashes = 0 /\ ran = 0
NoPrime ==
  /\ plog = <<>> /\ pfaults = 0 /\ seen = 0 /\ ses = 0 /\ fired = 0
  /\ entries = 0 /\ notices = 0

TurnsInit ==
  \/ scenario = "races" /\ Init /\ NoPrime
  \/ scenario = "batches" /\ Batches!Init /\ NoPrime
  \/ scenario = "histories" /\ Histories!Init /\ NoPrime
  \/ scenario = "compaction" /\ Compaction!Init /\ NoPrime
  \/ scenario = "lanes" /\ Lanes!Init /\ NoCore
  \/ scenario = "tabs" /\ Tabs!Init /\ NoCore
  \/ scenario = "lost" /\ Lost!Init /\ NoCore
  \/ scenario = "stopped" /\ Stopped!Init /\ NoCore

Core ==
  /\ \/ scenario = "races" /\ Next
     \/ scenario = "batches" /\ Batches!Next
     \/ scenario = "histories" /\ Histories!Next
     \/ scenario = "compaction" /\ Compaction!Next
  /\ UNCHANGED <<scenario, primeVars>>

Prime ==
  /\ \/ scenario = "lanes" /\ Lanes!Next
     \/ scenario = "tabs" /\ Tabs!Next
     \/ scenario = "lost" /\ Lost!Next
     \/ scenario = "stopped" /\ Stopped!Next
  /\ UNCHANGED <<scenario, vars>>

TurnsNext == Core \/ Prime
TurnsSpec == TurnsInit /\ [][TurnsNext]_turnsVars
-------------------------------------------------------------------------------
(***************************************************************************)
(* The session audit accepts every journal an engine writes, whatever      *)
(* races with it (Stop, other tabs, the other engine, a model change, a    *)
(* lost append under the core engine, a review that answers late): turns   *)
(* never overlap, one terminal ends each, requests name the model of their *)
(* admission and hash the history the audit rebuilds, and every tool event *)
(* follows the one it needs.  Of a PRIME engine that loses an append it    *)
(* still finds no overlap.                                                 *)
(***************************************************************************)
AuditAccepts ==
  /\ scenario \in {"batches", "histories", "compaction", "races"} => Audited
  /\ scenario \in {"lanes", "tabs"} => Lanes!AuditAccepts
  /\ scenario = "lost" => Lost!TurnsNeverOverlap

(***************************************************************************)
(* No request carries a tool call without its answer or an answer without  *)
(* its call, though turns are failed, cancelled and compacted at any point *)
(* and an append may fail after it is durable (readEffectBatch's callers,  *)
(* cancelledTurnSalvage, convertToLlm).                                    *)
(***************************************************************************)
HistoriesAreWellFormed ==
  /\ scenario = "histories" => Histories!RequestsAreWellFormed
  /\ scenario = "lost" => Lost!HistoriesAreWellFormed

(***************************************************************************)
(* Stop means the instruction is not acted on: no later request replays    *)
(* the request of a cancelled or failed turn (materializeMessages), and    *)
(* after the host's signal PRIME admits no turn, though the signal may     *)
(* fire before the turn's own controller exists.                           *)
(***************************************************************************)
StoppedRequestsStayStopped ==
  /\ [](scenario = "histories" => Histories!RequestsStayStopped)
  /\ [][scenario = "stopped" => Stopped!HostStopHolds]_turnsVars
===============================================================================
