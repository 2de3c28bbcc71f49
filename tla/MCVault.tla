-------------------------------- MODULE MCVault --------------------------------
(***************************************************************************)
(* The Vault above its object store, for TLC: VaultWorkspace (files,       *)
(* manifest and reclamation queue), whose constants the configuration      *)
(* gives, and instances of VaultCoordinator (probing) and of VaultAdoption *)
(* (moving a page over).  The scenario is chosen at the start and never    *)
(* changes.  The variables of the workspace keep their initial values in   *)
(* the other scenarios; what a scenario does not use of the rest is 0.     *)
(***************************************************************************)
EXTENDS VaultWorkspace, TLC

CONSTANTS p1, p2,  \* pages
          f1, f2   \* paths

VARIABLES scenario, faults,
          generation, config, workspaceKey, store, runtime, acceleratedStore, open, phase,
          evidence, controller, probe, commands, opened,
          source, target, sourceFiles, targetFiles, sourceCatalog, targetCatalog, authority,
          attempt, running, writes, attempts

coordinatorVars == <<generation, config, workspaceKey, store, runtime, acceleratedStore, open,
                     phase, evidence, controller, probe, commands, opened>>
adoptionVars == <<source, target, sourceFiles, targetFiles, sourceCatalog, targetCatalog,
                  authority, attempt, running, writes, attempts>>
vaultVars == <<scenario, faults, vars, coordinatorVars, adoptionVars>>
-------------------------------------------------------------------------------
\* Two pages write, read and remove two files; sweeps, lost answers, late swaps.
TwoPages == {p1, p2}
TwoPaths == {f1, f2}
AllOperations == {"write", "remove", "read"}

\* Three probes, of a Vault that is ready already too, crossed by configuration
\* and key changes, cancels, disconnects and one another.
Probing == INSTANCE VaultCoordinator WITH
  Vaults <- {1, 2}, Keys <- {1, 2}, Probes <- {1, 2, 3},
  Commands <- {"configure", "key", "cancel", "disconnect", "probe", "abort", "reprobe"},
  Reclaimable <- TRUE, MaxCommands <- 5, MaxFaults <- 1

\* The same over a store that cannot remove the objects of a probe.
Retaining == INSTANCE VaultCoordinator WITH
  Vaults <- {1, 2}, Keys <- {1}, Probes <- {1, 2, 3},
  Commands <- {"configure", "key", "cancel", "disconnect", "probe", "abort", "reprobe"},
  Reclaimable <- FALSE, MaxCommands <- 5, MaxFaults <- 1

\* A page with work moves into a blank Vault that other devices write to.
Moving == INSTANCE VaultAdoption WITH
  Sessions <- {1, 2}, UserPaths <- {"notes"}, ControlPaths <- {"git"}, Vault <- "blank",
  Bootstrap <- FALSE, Between <- {"asked", "ended", "rename"},
  During <- {"ended", "rename", "edit"}, Others <- {"append", "file", "catalog"},
  Segment <- 1, MaxWrites <- 3, MaxFaults <- 1, MaxAttempts <- 2

\* The Vault holds another chain under one of the IDs.
Refused == INSTANCE VaultAdoption WITH
  Sessions <- {1, 2}, UserPaths <- {}, ControlPaths <- {}, Vault <- "foreign",
  Bootstrap <- FALSE, Between <- {"asked", "ended", "rename"}, During <- {"ended"},
  Others <- {"append"}, Segment <- 1, MaxWrites <- 3, MaxFaults <- 2, MaxAttempts <- 3

\* A page as it was born meets a Vault in use.
Newborn == INSTANCE VaultAdoption WITH
  Sessions <- {1}, UserPaths <- {"notes"}, ControlPaths <- {"git"}, Vault <- "filled",
  Bootstrap <- TRUE, Between <- {"asked", "ended", "rename"},
  During <- {"ended", "rename", "edit"}, Others <- {"catalog", "file"},
  Segment <- 1, MaxWrites <- 3, MaxFaults <- 1, MaxAttempts <- 2

ASSUME /\ WorkspaceAssumption
       /\ Probing!CoordinatorAssumption /\ Retaining!CoordinatorAssumption
       /\ Moving!AdoptionAssumption /\ Refused!AdoptionAssumption /\ Newborn!AdoptionAssumption

Symmetry == Permutations({p1, p2}) \cup Permutations({f1, f2})
-------------------------------------------------------------------------------
NoCoordinator ==
  /\ generation = 0 /\ config = 0 /\ workspaceKey = 0 /\ store = 0 /\ runtime = 0
  /\ acceleratedStore = 0 /\ open = 0 /\ phase = 0 /\ evidence = 0 /\ controller = 0
  /\ probe = 0 /\ commands = 0 /\ opened = 0
NoAdoption ==
  /\ source = 0 /\ target = 0 /\ sourceFiles = 0 /\ targetFiles = 0 /\ sourceCatalog = 0
  /\ targetCatalog = 0 /\ authority = 0 /\ attempt = 0 /\ running = 0 /\ writes = 0
  /\ attempts = 0

OnlyWorkspace == NoCoordinator /\ NoAdoption /\ faults = 0
OnlyCoordinator == Init /\ NoAdoption
OnlyAdoption == Init /\ NoCoordinator

VaultInit ==
  \/ scenario = "files" /\ Init /\ OnlyWorkspace
  \/ scenario = "probing" /\ Probing!Init /\ OnlyCoordinator
  \/ scenario = "retaining" /\ Retaining!Init /\ OnlyCoordinator
  \/ scenario = "moving" /\ Moving!Init /\ OnlyAdoption
  \/ scenario = "refused" /\ Refused!Init /\ OnlyAdoption
  \/ scenario = "newborn" /\ Newborn!Init /\ OnlyAdoption

Workspace ==
  /\ scenario = "files" /\ Next
  /\ UNCHANGED <<scenario, faults, coordinatorVars, adoptionVars>>
Coordinator ==
  /\ \/ scenario = "probing" /\ Probing!Next
     \/ scenario = "retaining" /\ Retaining!Next
  /\ UNCHANGED <<scenario, vars, adoptionVars>>
Adoption ==
  /\ \/ scenario = "moving" /\ Moving!Next
     \/ scenario = "refused" /\ Refused!Next
     \/ scenario = "newborn" /\ Newborn!Next
  /\ UNCHANGED <<scenario, vars, coordinatorVars>>

VaultNext == Workspace \/ Coordinator \/ Adoption
VaultSpec == VaultInit /\ [][VaultNext]_vaultVars
-------------------------------------------------------------------------------
(***************************************************************************)
(* A runtime that is handed out as ready was probed over the configured    *)
(* Vault with the attached key, whatever commands crossed the probes; only *)
(* the running probe claims readiness, a superseded one closes its cache,  *)
(* and no probe replaces a runtime in use.  There is one exception, which  *)
(* each part names: a re-probe that was superseded while it removed its    *)
(* objects puts its runtime back and claims readiness, against the comment *)
(* of probe that the retained runtime cannot be another's; with a store    *)
(* that cannot remove them it never does (probe, readyRuntime, catch).     *)
(***************************************************************************)
ReadyIsProbed ==
  /\ [](scenario = "probing" => Probing!ReadyIsProbed /\ Probing!CachesAreClosed)
  /\ [][scenario = "probing" => /\ Probing!ReadinessIsTheRunningProbes
                                /\ Probing!RuntimeIsKept]_vaultVars
  /\ [](scenario = "retaining" => /\ Retaining!ReadyIsProbed /\ Retaining!CachesAreClosed
                                  /\ \A p \in {1, 2, 3} : ~probe[p].revived)
  /\ [][scenario = "retaining" => ~Retaining!LateClaim]_vaultVars

(***************************************************************************)
(* A page that moves over loses nothing migrateJournalState listed and     *)
(* overwrites nothing the Vault holds; a copy of its own chain is never    *)
(* refused, one refusal does not decide the others, and a page nobody has  *)
(* worked on yields to a Vault in use.                                     *)
(***************************************************************************)
AdoptionLosesNothing ==
  /\ [](scenario = "moving" => Moving!CarriesWhatItListed)
  /\ [][scenario = "moving" => Moving!TargetKeepsItsOwn]_vaultVars
  /\ [][scenario = "refused" => /\ Refused!OwnCopyIsNotRefused
                                /\ Refused!OneRefusalDoesNotDecide]_vaultVars
  /\ [][scenario = "newborn" => Newborn!BootstrapYields]_vaultVars
===============================================================================
