------------------------------- MODULE MCSettles -------------------------------
(***************************************************************************)
(* What must eventually happen, for TLC: an instance of every component    *)
(* with a fairness condition of its own.  The scenario is chosen at the    *)
(* start and never changes.  The components have no state in common, so    *)
(* all of them keep theirs in the same variables, v1, v2, ... in the order *)
(* of their own declarations; what a scenario does not use is 0.           *)
(***************************************************************************)
EXTENDS Naturals, TLC

CONSTANTS p1, p2,  \* pages, tabs, operations, jobs or children
          Nil      \* no value

VARIABLES scenario,
          v1, v2, v3, v4, v5, v6, v7, v8, v9, v10, v11, v12, v13, v14, v15, v16, v17, v18, v19,
          v20, v21

After18 == <<v19, v20, v21>>
After17 == <<v18, After18>>
After16 == <<v17, After17>>
After14 == <<v15, v16, After16>>
After12 == <<v13, v14, After14>>
After11 == <<v12, After12>>
After10 == <<v11, After11>>
After7 == <<v8, v9, v10, After10>>
After5 == <<v6, v7, After7>>
vars == <<scenario, v1, v2, v3, v4, v5, After5>>
-------------------------------------------------------------------------------
Calls == {<<"r1">>, <<"w1">>}
Effects == [c \in Calls |-> IF c = <<"r1">> THEN "read" ELSE "write"]
KeysOf == [c \in Calls |-> IF c = <<"r1">> THEN "other" ELSE "write"]
Reply(calls) == [text |-> FALSE, calls |-> calls]

\* Two pages append to, delete and restore a conversation in a store that does not confirm
\* what is already gone; requests fail and pages close.
Journal == INSTANCE EncryptedJournal WITH
  Clients <- {p1, p2}, Tokenless <- {}, Events <- {"e"}, MaxSegments <- 1, TrashBatch <- 1,
  CreateAttempts <- 2, AbsentReclaimed <- FALSE, IndexCache <- FALSE, LegacyCleanup <- FALSE,
  MaxIds <- 2, MaxFaults <- 1,
  head <- v1, store <- v2, pc <- v3, op <- v4, known <- v5, loaded <- v6, mine <- v7, todo <- v8,
  tries <- v9, seq <- v10, cache <- v11, faults <- v12, published <- v13, retired <- v14

\* Files are replaced and swept.
Sweeps == INSTANCE VaultWorkspace WITH
  Pages <- {p1, p2}, Paths <- {p1}, Operations <- {"write"}, MaxFiles <- 2, MaxQueueEntries <- 3,
  MaxCommitAttempts <- 2, TrashBatch <- 1, Reclaims <- TRUE, MaxRevisions <- 2, MaxFaults <- 1,
  manifest <- v1, stored <- v2, queue <- v3, aged <- v4, call <- v5, pc <- v6, base <- v7,
  minted <- v8, old <- v9, tries <- v10, held <- v11, todo <- v12, settled <- v13, late <- v14,
  saw <- v15, used <- v16

\* Two pages open, write, restore and destroy a Local Device vault.
Local == INSTANCE LocalStore WITH None <- Nil,
  Pages <- {p1, p2}, Keys <- {"k"}, Contents <- {"c"}, Secrets <- {"s"},
  Operations <- {"put", "export", "restore", "destroy"}, Faults <- {"crash"}, Founded <- TRUE,
  Opfs <- TRUE, MaxGens <- 5, MaxCalls <- 3, MaxFaults <- 1, Torn <- "torn",
  opfs <- v1, head <- v2, gens <- v3, idb <- v4, lock <- v5, selecting <- v6, page <- v7,
  request <- v8, out <- v9, backup <- v10, restored <- v11, used <- v12

\* Two tabs read through one ciphertext cache.
Caching == INSTANCE CiphertextCache WITH
  Tabs <- {p1, p2}, Keys <- {"k"}, Parts <- {"full"}, Ops <- {"get", "drop"},
  Faults <- {"crash", "write", "list", "lock"}, Slots <- {1}, Stored <- {"k"}, MaxEntries <- 1,
  MaxBytes <- 1, MaxCalls <- 3, MaxFaults <- 1, NoIndex <- Nil,
  objects <- v1, pages <- v2, persisted <- v3, lock <- v4, tab <- v5, job <- v6, call <- v7,
  gone <- v8, orphans <- v9, calls <- v10, faults <- v11

\* Two probes crossed by every command.
Probing == INSTANCE VaultCoordinator WITH
  Vaults <- {1, 2}, Keys <- {1}, Probes <- {1, 2},
  Commands <- {"configure", "key", "cancel", "disconnect", "probe", "abort", "reprobe"},
  Reclaimable <- TRUE, MaxCommands <- 4, MaxFaults <- 1,
  generation <- v1, config <- v2, workspaceKey <- v3, store <- v4, runtime <- v5,
  acceleratedStore <- v6, open <- v7, phase <- v8, evidence <- v9, controller <- v10,
  probe <- v11, commands <- v12, faults <- v13, opened <- v14

\* A page with work moves into a blank Vault.
Adopting == INSTANCE VaultAdoption WITH
  Sessions <- {1}, UserPaths <- {"notes"}, ControlPaths <- {"git"}, Vault <- "blank",
  Bootstrap <- FALSE, Between <- {"asked", "ended", "rename"},
  During <- {"ended", "rename", "edit"}, Others <- {"append", "file", "catalog"}, Segment <- 1,
  MaxWrites <- 2, MaxFaults <- 1, MaxAttempts <- 2,
  source <- v1, target <- v2, sourceFiles <- v3, targetFiles <- v4, sourceCatalog <- v5,
  targetCatalog <- v6, authority <- v7, attempt <- v8, running <- v9, writes <- v10,
  faults <- v11, attempts <- v12

\* Two pages mark and choose a conversation that others write to.
Listing == INSTANCE SessionLibrary WITH None <- Nil,
  Pages <- {p1, p2}, Sessions <- {"a"}, Present <- {"a"}, Starred <- {},
  Operations <- {"star", "select", "inspect"}, Routes <- {}, Attempts <- 3, MaxCalls <- 2,
  MaxStamps <- 2, MaxTurns <- 2, MaxFaults <- 1,
  life <- v1, log <- v2, drawn <- v3, lineage <- v4, call <- v5, seen <- v6, calls <- v7,
  turns <- v8, faults <- v9, voided <- v10

\* Two calls wait for a broker that holds one; nobody need answer.
Approval == INSTANCE ToolApproval WITH
  Sessions <- {"s1", "s2"}, Ops <- {p1, p2}, SessionOf <- (p1 :> "s1") @@ (p2 :> "s2"),
  Calls <- {[effect |-> "execute", folder |-> FALSE, by |-> "model"]},
  ModesInUse <- {"ask-first", "auto-approve"}, Args <- {"x"}, NoSession <- "none",
  MaxPending <- 1, MaxOutcomes <- 2,
  mode <- v1, aborted <- v2, focused <- v3, call <- v4, review <- v5, shown <- v6,
  delegate <- v7, decision <- v8, entries <- v9, postponed <- v10, outcomes <- v11,
  provenance <- v12, completed <- v13, tickets <- v14, journal <- v15, executing <- v16,
  ran <- v17, answered <- v18

\* One turn of the core engine under every Stop and error.
Core == INSTANCE CoreTurn WITH
  ManifestModel <- "m1", ManifestMode <- "ask-first", TurnContext <- "required", Turns <- {1},
  Effect <- Effects, KeyOf <- KeysOf, Decisions <- {"allow", "deny", "throws"},
  Replies <- {Reply(<<<<"r1">>, <<"w1">>>>)}, Models <- {"m1"}, Modes <- {"ask-first"},
  MaxSteps <- 1, StopAt <- 2, Preserve <- 1, Compresses <- FALSE,
  Prompts <- {[slash |-> FALSE, env |-> FALSE]}, MaxFaults <- 0, MaxCrashes <- 0,
  PrimeMayClaim <- FALSE,
  log <- v1, audit <- v2, turn <- v3, aborted <- v4, policy <- v5, switching <- v6, prime <- v7,
  faults <- v8, crashes <- v9, ran <- v10

\* Two entries of a PRIME session under every Stop and error.
Prime == INSTANCE PrimeTurn WITH
  ManifestModel <- "m1", ManifestMode <- "ask-first", TurnContext <- "disabled",
  Sessions <- {"a"}, Effect <- Effects, KeyOf <- KeysOf,
  Decisions <- {"allow", "deny", "throws"}, Replies <- {Reply(<<<<"w1">>>>)}, Models <- {"m1"},
  Claimed <- FALSE, Compresses <- FALSE, Preserve <- 0, MaxSteps <- 1, StopAt <- 2,
  MaxEntries <- 2, MaxNotices <- 0, MaxFaults <- 0, Stops <- {"abort", "host", "dispose"},
  log <- v1, seen <- v2, ses <- v3, fired <- v4, entries <- v5, notices <- v6, faults <- v7

\* Two jobs of a kernel with a fault, cancelled and terminated.
Kernel == INSTANCE KernelHost WITH None <- Nil,
  Jobs <- {p1, p2}, MaxQueuedJobs <- 1, MaxBridgeCalls <- 1, Reentrant <- FALSE,
  Interface <- {"terminate"}, MaxCalls <- 2, MaxFaults <- 1,
  state <- v1, worker <- v2, job <- v3, active <- v4, queue <- v5, jobTimer <- v6,
  cancelTimer <- v7, kills <- v8, killPromise <- v9, boots <- v10, bootEpoch <- v11,
  bootPromise <- v12, stack <- v13, micro <- v14, outcome <- v15, effects <- v16, live <- v17,
  cell <- v18, stopped <- v19, calls <- v20, faults <- v21

\* One child, messaged and stopped.
Children == INSTANCE SubagentRegistry WITH
  Spawns <- {p1}, Names <- {"n"}, OwnerName <- "root", MaxPending <- 1, Burst <- 1,
  MaxMessages <- 1, PreflightMayFail <- TRUE,
  phase <- v1, name <- v2, attached <- v3, terminal <- v4, terminals <- v5, stopRequested <- v6,
  stopping <- v7, replied <- v8, errored <- v9, run <- v10, inbox <- v11, disposed <- v12,
  aborted <- v13, subscribed <- v14, owner <- v15, ownerDisposed <- v16, heard <- v17,
  tokens <- v18, sent <- v19, todo <- v20, reaping <- v21

\* Two pages want one terminal; one of them may be frozen.
Terminal == INSTANCE TerminalSession WITH
  Pages <- {p1, p2}, Slots <- {1}, Procs <- {1}, Overlap <- {}, Calls <- {"start", "renew"},
  Faults <- {"frozen"}, MaxCommitAttempts <- 2, MaxFaults <- 0,
  lease <- v1, page <- v2, task <- v3, procs <- v4, used <- v5

\* Two terminal tabs over one mount.
Mounts == INSTANCE TerminalSync WITH
  Tabs <- {p1, p2}, Paths <- {"a"}, Contents <- {1}, Kinds <- {"start", "exit", "quiesce"},
  Faults <- {"refuse", "gone"}, MaxEdits <- 1, MaxShell <- 1, MaxCalls <- 4, MaxFaults <- 1,
  ws <- v1, clock <- v2, dir <- v3, mount <- v4, bound <- v5, baseline <- v6, tab <- v7,
  queue <- v8, sync <- v9, base <- v10, touched <- v11, adopted <- v12,
  bare <- v13, edits <- v14, shell <- v15, calls <- v16, used <- v17

ASSUME /\ Journal!JournalAssumption /\ Sweeps!WorkspaceAssumption
       /\ Local!LocalAssumption /\ Caching!CacheAssumption
       /\ Probing!CoordinatorAssumption /\ Adopting!AdoptionAssumption
       /\ Listing!LibraryAssumption /\ Approval!ApprovalAssumption
       /\ Core!CoreAssumption /\ Prime!PrimeAssumption
       /\ Kernel!KernelAssumption /\ Children!RegistryAssumption
       /\ Terminal!TerminalAssumption /\ Mounts!SyncAssumption
-------------------------------------------------------------------------------
Unused18 == v19 = 0 /\ v20 = 0 /\ v21 = 0
Unused17 == v18 = 0 /\ Unused18
Unused16 == v17 = 0 /\ Unused17
Unused14 == v15 = 0 /\ v16 = 0 /\ Unused16
Unused12 == v13 = 0 /\ v14 = 0 /\ Unused14
Unused11 == v12 = 0 /\ Unused12
Unused10 == v11 = 0 /\ Unused11
Unused7 == v8 = 0 /\ v9 = 0 /\ v10 = 0 /\ Unused10
Unused5 == v6 = 0 /\ v7 = 0 /\ Unused7

Init ==
  \/ scenario = "journal" /\ Journal!Init /\ Unused14
  \/ scenario = "sweeps" /\ Sweeps!Init /\ Unused16
  \/ scenario = "local" /\ Local!Init /\ Unused12
  \/ scenario = "cache" /\ Caching!Init /\ Unused11
  \/ scenario = "probes" /\ Probing!Init /\ Unused14
  \/ scenario = "adoption" /\ Adopting!Init /\ Unused12
  \/ scenario = "library" /\ Listing!Init /\ Unused10
  \/ scenario = "approval" /\ Approval!Init /\ Unused18
  \/ scenario = "core" /\ Core!Init /\ Unused10
  \/ scenario = "prime" /\ Prime!Init /\ Unused7
  \/ scenario = "jobs" /\ Kernel!Init
  \/ scenario = "children" /\ Children!Init
  \/ scenario = "terminal" /\ Terminal!Init /\ Unused5
  \/ scenario = "mounts" /\ Mounts!Init /\ Unused17

Next ==
  /\ UNCHANGED scenario
  /\ \/ scenario = "journal" /\ Journal!Next /\ UNCHANGED After14
     \/ scenario = "sweeps" /\ Sweeps!Next /\ UNCHANGED After16
     \/ scenario = "local" /\ Local!Next /\ UNCHANGED After12
     \/ scenario = "cache" /\ Caching!Next /\ UNCHANGED After11
     \/ scenario = "probes" /\ Probing!Next /\ UNCHANGED After14
     \/ scenario = "adoption" /\ Adopting!Next /\ UNCHANGED After12
     \/ scenario = "library" /\ Listing!Next /\ UNCHANGED After10
     \/ scenario = "approval" /\ Approval!Next /\ UNCHANGED After18
     \/ scenario = "core" /\ Core!Next /\ UNCHANGED After10
     \/ scenario = "prime" /\ Prime!Next /\ UNCHANGED After7
     \/ scenario = "jobs" /\ Kernel!Next
     \/ scenario = "children" /\ Children!Next
     \/ scenario = "terminal" /\ Terminal!Next /\ UNCHANGED After5
     \/ scenario = "mounts" /\ Mounts!Next /\ UNCHANGED After17

Spec == Init /\ [][Next]_vars
-------------------------------------------------------------------------------
(***************************************************************************)
(* Fairness is what the components' own FairSpec states: a call, a queued  *)
(* continuation or a running process goes on (Continues), a timer fires    *)
(* and a browser task ends (Elapses), a lock that keeps coming free is     *)
(* granted, and somebody presses "Reclaim storage" again and again         *)
(* (Granted).  No caller is assumed to repeat anything else.  Failures,    *)
(* crashes and edits are never forced, and bounded.                        *)
(***************************************************************************)
Actor == <<p1, p2>>

Continues(i) ==
  /\ UNCHANGED scenario
  /\ \/ scenario = "journal" /\ Journal!Progress(Actor[i]) /\ UNCHANGED After14
     \/ scenario = "sweeps" /\ Sweeps!Step(Actor[i]) /\ UNCHANGED After16
     \/ scenario = "cache" /\ Caching!CallStep(<<Actor[i], 1>>) /\ UNCHANGED After11
     \/ scenario = "probes" /\ Probing!ProbeStep(i) /\ UNCHANGED After14
     \/ scenario = "adoption" /\ i = 1 /\ Adopting!Step /\ UNCHANGED After12
     \/ scenario = "library" /\ Listing!CallStep(Actor[i]) /\ UNCHANGED After10
     \/ scenario = "approval" /\ Approval!Continue(Actor[i]) /\ UNCHANGED After18
     \/ scenario = "core" /\ i = 1 /\ Core!TurnStep(1) /\ UNCHANGED After10
     \/ scenario = "prime" /\ i = 1 /\ Prime!Drive("a") /\ UNCHANGED After7
     \/ scenario = "jobs" /\ i = 1 /\ Kernel!Run
     \/ scenario = "jobs" /\ i = 2 /\ Kernel!BridgeEnds
     \/ scenario = "children" /\ i = 1 /\ Children!Progress(p1)
     \/ scenario = "children" /\ i = 2 /\ Children!OwnerTurnSettles
     \/ scenario = "terminal" /\ Terminal!Step(Actor[i], 1) /\ UNCHANGED After5
     \/ scenario = "mounts" /\ i = 1 /\ Mounts!SyncStep /\ UNCHANGED After17

Elapses(i) ==
  /\ UNCHANGED scenario
  /\ \/ scenario = "cache" /\ Caching!TabStep(Actor[i]) /\ UNCHANGED After11
     \/ scenario = "approval" /\ Approval!Expire(Actor[i]) /\ UNCHANGED After18
     \/ scenario = "jobs" /\ i = 1 /\ Kernel!WallClock
     \/ scenario = "jobs" /\ i = 2 /\ Kernel!BeginHardCancellation
     \/ scenario = "terminal" /\ Terminal!Settles(Actor[i], 1) /\ UNCHANGED After5

Renews(i) ==
  /\ UNCHANGED scenario
  /\ \/ scenario = "jobs" /\ i = 1 /\ Kernel!BootGoesOn
     \/ scenario = "terminal" /\ Terminal!RenewRead(Actor[i]) /\ UNCHANGED After5

RenewalGoesOn(i) ==
  /\ UNCHANGED scenario
  /\ scenario = "terminal" /\ Terminal!Step(Actor[i], 0) /\ UNCHANGED After5

Granted(i) ==
  /\ UNCHANGED scenario
  /\ \/ scenario = "sweeps" /\ Sweeps!SweepRead(Actor[i]) /\ UNCHANGED After16
     \/ scenario = "local" /\ Local!Step(Actor[i]) /\ UNCHANGED After12
     \/ scenario = "cache" /\ Caching!Lock(Actor[i]) /\ UNCHANGED After11

FairSpec ==
  /\ Spec
  /\ \A i \in {1, 2} : /\ WF_vars(Continues(i)) /\ WF_vars(Elapses(i)) /\ WF_vars(Renews(i))
                       /\ WF_vars(RenewalGoesOn(i)) /\ SF_vars(Granted(i))

\* What somebody still waits for, by its number in the scenario.
Owed(i) ==
  \/ scenario = "journal" /\ Journal!Busy(Actor[i])
  \/ scenario = "sweeps" /\ i \in Sweeps!Past
  \/ scenario = "local" /\ Local!Busy(Actor[i])
  \/ scenario = "cache" /\ Caching!Busy(<<Actor[i], 1>>)
  \/ scenario = "probes" /\ i = 1 /\ Probing!IsProbing
  \/ scenario = "adoption" /\ i = 1 /\ Adopting!FenceIsUp
  \/ scenario = "library" /\ Listing!Busy(Actor[i])
  \/ scenario = "approval" /\ Approval!UnderReview(Actor[i])
  \/ scenario = "core" /\ Core!Admitted(i)
  \/ scenario = "prime" /\ Prime!Admitted(i)
  \/ scenario = "jobs" /\ Kernel!Owed(Actor[i])
  \/ scenario = "children" /\ i = 1 /\ Children!Unsettled(p1) /\ ~Children!Stranded(p1)
  \/ scenario = "terminal" /\ Terminal!Starting(Actor[i])
  \/ scenario = "mounts" /\ Mounts!Starting(Actor[i])

(***************************************************************************)
(* Nobody waits for ever: every call of the journal, a store, a cache or   *)
(* the library returns, whatever its rivals do; aged files leave the queue *)
(* if sweeps are run; a probe ends and an adoption lowers its fence;       *)
(* reviews are decided though nobody answers; admitted turns end in a      *)
(* terminal event under any Stop; jobs settle; a child settles, unless its *)
(* turn was refused before its loop began, of which nothing tells its      *)
(* registry (prime/runtime/agent-factory.ts); a starting terminal starts   *)
(* or fails; and a page whose terminal lease another page has taken        *)
(* notices (the last conjunct).  It is not claimed that a deletion a page  *)
(* left unfinished is ever finished: no caller takes it up again.          *)
(***************************************************************************)
EverythingSettles ==
  /\ \A i \in {1, 2} : []<>~Owed(i)
  /\ \A i \in {1, 2} : []<>~(scenario = "terminal" /\ Terminal!Superseded(Actor[i]))
===============================================================================
