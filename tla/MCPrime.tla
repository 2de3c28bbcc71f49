-------------------------------- MODULE MCPrime --------------------------------
(***************************************************************************)
(* What PRIME runs beside its turns, for TLC: KernelHost under the         *)
(* configuration's constants, another instance of it, and instances of     *)
(* SubagentRegistry and HarnessStore.  The scenario is chosen at the start *)
(* and never changes.  The host has no worker and no job where it is not   *)
(* used; any other variable a scenario does not use is 0.                  *)
(***************************************************************************)
EXTENDS KernelHost, TLC

CONSTANTS a1, a2,  \* subagents, jobs or tabs
          a3, n1, n2

VARIABLES scenario,
          phase, name, attached, terminal, terminals, stopRequested, stopping,
          replied, errored, run, inbox, disposed, aborted, subscribed, owner,
          ownerDisposed, heard, tokens, sent, todo, reaping,
          db, cache, plan, clock, writes, last, used

registryVars ==
  <<phase, name, attached, terminal, terminals, stopRequested, stopping,
    replied, errored, run, inbox, disposed, aborted, subscribed, owner,
    ownerDisposed, heard, tokens, sent, todo, reaping>>
\* What the host does not share with the harness.
kernelVars ==
  <<state, worker, job, active, jobTimer, cancelTimer, lifecycle, stack, micro, outcome, world>>
harnessVars == <<db, cache, plan, clock, writes, last, used>>
primeVars == <<scenario, vars, registryVars, harnessVars>>
-------------------------------------------------------------------------------
\* Two spawns race for names; one child is messaged at every point of its life.
Spawning == INSTANCE SubagentRegistry WITH
  Spawns <- {a1, a2}, Names <- {n1, n2}, OwnerName <- "root", MaxPending <- 1, Burst <- 1,
  MaxMessages <- 0, PreflightMayFail <- TRUE
Messages == INSTANCE SubagentRegistry WITH
  Spawns <- {a1}, Names <- {n1}, OwnerName <- "root", MaxPending <- 1, Burst <- 1,
  MaxMessages <- 3, PreflightMayFail <- TRUE

\* The configuration is three jobs with a fault and a restart.  The same jobs with listeners
\* that call back into the host:
Listeners == INSTANCE KernelHost WITH
  Reentrant <- TRUE, Interface <- {"start", "terminate"}, MaxFaults <- 0

C(k) == [action |-> "create", key |-> k]
U(k) == [action |-> "update", key |-> k]
D(k) == [action |-> "delete", key |-> k]

\* Two tabs edit and refine, with proposals that edit a key twice; two tabs roll
\* back what was edited, deleted and created again; one tab whose transactions fail.
Edits == INSTANCE HarnessStore WITH
  Tabs <- {a1, a2}, Keys <- {"a", "b"}, Ops <- {"create", "update", "delete", "plan"},
  Proposals <- {<<C("a"), U("a")>>, <<U("a"), D("a")>>, <<D("a"), C("a")>>, <<U("b"), U("a")>>},
  Versions <- {0, 1}, Elapsed <- {1}, Faults <- {}, MaxCalls <- 1, MaxWrites <- 3, MaxTick <- 2,
  MaxSuffix <- 1, MaxFaults <- 0
Rollbacks == INSTANCE HarnessStore WITH
  Tabs <- {a1, a2}, Keys <- {"a"}, Ops <- {"create", "update", "delete", "plan", "rollback"},
  Proposals <- {<<C("a")>>, <<U("a")>>, <<D("a")>>},
  Versions <- {0}, Elapsed <- {1}, Faults <- {}, MaxCalls <- 1, MaxWrites <- 3, MaxTick <- 3,
  MaxSuffix <- 1, MaxFaults <- 0
Alone == INSTANCE HarnessStore WITH
  Tabs <- {a1}, Keys <- {"a", "b"},
  Ops <- {"get", "create", "update", "delete", "plan", "rollback"},
  Proposals <- {<<C("b"), U("a")>>, <<D("a")>>, <<U("a"), U("a")>>},
  Versions <- {0}, Elapsed <- {1}, Faults <- {"fail", "reload"}, MaxCalls <- 1, MaxWrites <- 4,
  MaxTick <- 3, MaxSuffix <- 1, MaxFaults <- 2

ASSUME /\ Spawning!RegistryAssumption /\ Messages!RegistryAssumption
       /\ KernelAssumption /\ Listeners!KernelAssumption
       /\ Edits!HarnessAssumption /\ Rollbacks!HarnessAssumption /\ Alone!HarnessAssumption

Symmetry == Permutations({a1, a2})
-------------------------------------------------------------------------------
NoRegistry ==
  /\ phase = 0 /\ name = 0 /\ attached = 0 /\ terminal = 0 /\ terminals = 0
  /\ stopRequested = 0 /\ stopping = 0 /\ replied = 0 /\ errored = 0 /\ run = 0
  /\ inbox = 0 /\ disposed = 0 /\ aborted = 0 /\ subscribed = 0 /\ owner = 0
  /\ ownerDisposed = 0 /\ heard = 0 /\ tokens = 0 /\ sent = 0 /\ todo = 0 /\ reaping = 0
NoKernel ==
  /\ job = None /\ jobTimer = None /\ cancelTimer = None
  /\ effects = {} /\ live = {} /\ stopped = {}
  /\ state = 0 /\ worker = 0 /\ active = 0
  /\ kills = 0 /\ killPromise = 0 /\ boots = 0 /\ bootEpoch = 0 /\ bootPromise = 0
  /\ stack = 0 /\ micro = 0 /\ outcome = 0 /\ cell = 0 /\ calls = 0 /\ faults = 0
NoHarness ==
  db = 0 /\ cache = 0 /\ plan = 0 /\ clock = 0 /\ writes = 0 /\ last = 0 /\ used = 0

PrimeInit ==
  \/ scenario = "spawning" /\ Spawning!Init /\ NoKernel /\ NoHarness /\ queue = 0
  \/ scenario = "messages" /\ Messages!Init /\ NoKernel /\ NoHarness /\ queue = 0
  \/ scenario = "jobs" /\ Init /\ NoRegistry /\ NoHarness
  \/ scenario = "listeners" /\ Listeners!Init /\ NoRegistry /\ NoHarness
  \/ scenario = "edits" /\ Edits!Init /\ NoRegistry /\ NoKernel
  \/ scenario = "rollbacks" /\ Rollbacks!Init /\ NoRegistry /\ NoKernel
  \/ scenario = "alone" /\ Alone!Init /\ NoRegistry /\ NoKernel

Registry ==
  /\ \/ scenario = "spawning" /\ Spawning!Next
     \/ scenario = "messages" /\ Messages!Next
  /\ UNCHANGED <<scenario, queue, kernelVars, harnessVars>>
Kernel ==
  /\ \/ scenario = "jobs" /\ Next
     \/ scenario = "listeners" /\ Listeners!Next
  /\ UNCHANGED <<scenario, registryVars, harnessVars>>
Harness ==
  /\ \/ scenario = "edits" /\ Edits!Next
     \/ scenario = "rollbacks" /\ Rollbacks!Next
     \/ scenario = "alone" /\ Alone!Next
  /\ UNCHANGED <<scenario, registryVars, kernelVars>>

PrimeNext == Registry \/ Kernel \/ Harness
PrimeSpec == PrimeInit /\ [][PrimeNext]_primeVars
-------------------------------------------------------------------------------
(***************************************************************************)
(* A name routes to one agent though spawns and attached nodes race for    *)
(* it; a child's run settles once, as stopped if a stop was accepted while *)
(* it ran, and a stopped child starts no turn, whatever is still in its    *)
(* sink (spawn, pendingNames, settle, stop).                               *)
(***************************************************************************)
ChildrenSettleOnce ==
  /\ [](scenario = "spawning" => Spawning!NamesAreUnique /\ Spawning!SettlesOnce)
  /\ [](scenario = "messages" => Messages!SettlesOnce /\ Messages!AcceptedStopNamesTheEnd)
  /\ [][scenario = "messages" => Messages!StoppedStartsNothing]_primeVars

(***************************************************************************)
(* Every batch builds on what is stored, whichever tab stored it: an       *)
(* update replaces the entry it was computed from, a refinement edits no   *)
(* entry that changed during planning, and its event tells what it found   *)
(* and left (commit, validateRefinementEdits, applyRefinement).            *)
(***************************************************************************)
RefinementsBuildOnWhatIsStored ==
  [][scenario = "edits" => /\ Edits!UpdatesBuildOnWhatIsStored
                           /\ Edits!EventsTellTheTruth
                           /\ Edits!BaselineIsRespected]_primeVars

(***************************************************************************)
(* A rollback brings back exactly what the refinement found and writes     *)
(* over nothing newer, except a key that the refinement deleted, somebody  *)
(* created again and the rolling tab knew.  It is refused only if          *)
(* something changed since, or the refinement edited a key twice; and a    *)
(* refinement that fails changes nothing (rollback, proposeAndApply).      *)
(***************************************************************************)
RollbacksAreExact ==
  /\ [](scenario = "alone" => Alone!RefusalsMeanDrift)
  /\ [][scenario = "alone" => Alone!FailedRefinementsChangeNothing]_primeVars
  /\ [][scenario = "alone" => Alone!RollbackRestores /\ Alone!RollbackRefusesDrift]_primeVars
  /\ [][scenario = "rollbacks" => Rollbacks!RollbackRestores /\ Rollbacks!RollbackRefusesDrift]_primeVars
===============================================================================
