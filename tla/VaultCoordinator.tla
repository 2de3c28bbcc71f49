--------------------------- MODULE VaultCoordinator ---------------------------
(***************************************************************************)
(* vault/coordinator.ts: the one VaultCoordinator of a page.  A person     *)
(* configures a vault, attaches or clears the workspace key, probes,       *)
(* cancels and disconnects while earlier probes are still waiting for the  *)
(* provider.  Every synchronous method is one step; a probe is one step    *)
(* for each of its awaits.                                                 *)
(*                                                                         *)
(* Vaults and keys are numbers, 0 standing for undefined.  A ciphertext    *)
(* cache is its number in the order of opening; a runtime is the vault,    *)
(* key and cache it was composed over.  config is this.config with the     *)
(* provider or store it arrived with; the wording of a snapshot, and its   *)
(* revision, are left out.  Two fields of a probe only remember: revived,  *)
(* that it put back a runtime the coordinator had let go of, and left, the *)
(* cache that was in use then.                                             *)
(***************************************************************************)
EXTENDS Integers, FiniteSets

CONSTANTS Vaults, Keys,     \* positive numbers
          Probes,           \* the probe calls a person may make
          Commands,         \* the commands a person uses
          Reclaimable,      \* whether the store can trash the probe's objects
          MaxCommands, MaxFaults

CoordinatorAssumption ==
  /\ Vaults \subseteq Nat \ {0} /\ Keys \subseteq Nat \ {0} /\ 0 \notin Probes
  /\ Reclaimable \in BOOLEAN

NoRuntime == [vault |-> 0, key |-> 0, cache |-> 0]

VARIABLES generation,
          config, workspaceKey,
          store,            \* the vault this.directStore ?? this.store belongs to
          runtime,
          acceleratedStore, \* its cache, 0 for none
          open,             \* the caches that are open
          phase, evidence,  \* of the snapshot; evidence is the vault and key it was gathered on
          controller,       \* the probe whose AbortController this.abortController is, or 0
          probe,            \* each probe call
          commands, faults,
          opened            \* how many caches were ever opened

vars == <<generation, config, workspaceKey, store, runtime, acceleratedStore, open,
          phase, evidence, controller, probe, commands, faults, opened>>

NoEvidence == [vault |-> 0, key |-> 0]
NoProbe == [pc |-> "unused", gen |-> 0, vault |-> 0, key |-> 0, store |-> 0,
            retained |-> NoRuntime, retainedStore |-> 0, aborted |-> FALSE, out |-> "none",
            revived |-> FALSE, left |-> 0]

Init ==
  /\ generation = 0 /\ config = 0 /\ workspaceKey = 0 /\ store = 0
  /\ runtime = NoRuntime /\ acceleratedStore = 0 /\ open = {}
  /\ phase = "disconnected" /\ evidence = NoEvidence
  /\ controller = 0 /\ probe = [p \in Probes |-> NoProbe]
  /\ commands = 0 /\ faults = 0 /\ opened = 0

-------------------------------------------------------------------------------
(* Helpers of the synchronous methods. *)

Command(c) == c \in Commands /\ commands < MaxCommands /\ commands' = commands + 1

invalidateProbe ==
  /\ generation' = generation + 1 /\ controller' = 0
  /\ probe' = [p \in Probes |->
       IF p = controller THEN [probe[p] EXCEPT !.aborted = TRUE] ELSE probe[p]]

\* Fault: the cache is closed and the reference to it kept.
resetAccelerationBug == open' = open \ {acceleratedStore} /\ UNCHANGED acceleratedStore

resetAcceleration ==
  /\ acceleratedStore' = 0
  /\ open' = open \ {acceleratedStore}

DropRuntime == resetAcceleration /\ runtime' = NoRuntime

Show(p, e) == phase' = p /\ evidence' = e

-------------------------------------------------------------------------------
(* The synchronous methods. *)

\* configure and configureGoogleDrive; the S3 store is composed by the probe.
Configure(v, k, direct) ==
  /\ Command("configure")
  /\ invalidateProbe
  /\ DropRuntime
  /\ config' = v /\ workspaceKey' = k
  /\ store' = IF direct THEN v ELSE 0
  /\ Show("configured", NoEvidence)
  /\ UNCHANGED <<faults, opened>>

\* attachWorkspaceKey, and clearWorkspaceKey for k = 0.
SetKey(k) ==
  /\ Command("key") /\ config # 0
  /\ invalidateProbe
  /\ DropRuntime
  /\ workspaceKey' = k
  /\ Show("configured", NoEvidence)
  /\ UNCHANGED <<config, store, faults, opened>>

cancelProbe ==
  /\ Command("cancel") /\ phase = "probing"
  /\ invalidateProbe
  /\ Show("configured", NoEvidence)
  /\ UNCHANGED <<config, workspaceKey, store, runtime, acceleratedStore, open, faults, opened>>

disconnect ==
  /\ Command("disconnect") /\ phase # "disconnected"
  /\ invalidateProbe
  /\ DropRuntime
  /\ store' = 0 /\ workspaceKey' = 0 /\ config' = 0
  /\ Show("disconnected", NoEvidence)
  /\ UNCHANGED <<faults, opened>>

-------------------------------------------------------------------------------
(* probe(): its synchronous head, and one step for each await. *)

\* Without a key the probe only degrades the snapshot.
ProbeWithoutKey(p) ==
  /\ Command("probe") /\ config # 0 /\ workspaceKey = 0
  /\ probe[p].pc = "unused"
  /\ probe' = [probe EXCEPT ![p].pc = "done", ![p].out = "degraded"]
  /\ Show("degraded", NoEvidence)
  /\ UNCHANGED <<generation, config, workspaceKey, store, runtime, acceleratedStore, open,
                 controller, faults, opened>>

Probe(p) ==
  /\ Command(IF runtime = NoRuntime THEN "probe" ELSE "reprobe")
  /\ config # 0 /\ workspaceKey # 0
  /\ probe[p].pc = "unused"
  /\ generation' = generation + 2
  /\ probe' = [q \in Probes |->
       IF q = p THEN [NoProbe EXCEPT !.pc = "modules", !.gen = generation + 2, !.vault = config,
                                     !.key = workspaceKey, !.retained = runtime,
                                     !.retainedStore = acceleratedStore]
       ELSE IF q = controller THEN [probe[q] EXCEPT !.aborted = TRUE]
       ELSE probe[q]]
  /\ controller' = p
  /\ Show("probing", NoEvidence)
  /\ UNCHANGED <<config, workspaceKey, store, runtime, acceleratedStore, open, faults, opened>>

\* The caller's own signal reaches the controller of its probe.
ExternalAbort(p) ==
  /\ Command("abort") /\ probe[p].pc \notin {"unused", "done"} /\ ~probe[p].aborted
  /\ probe' = [probe EXCEPT ![p].aborted = TRUE]
  /\ UNCHANGED <<generation, config, workspaceKey, store, runtime, acceleratedStore, open,
                 phase, evidence, controller, faults, opened>>

Current(p) == probe[p].gen = generation
Live(p) == Current(p) /\ ~probe[p].aborted

\* The finally block: only the current run clears this.abortController.
Ended(p, call) ==
  /\ probe' = [probe EXCEPT ![p] = call]
  /\ controller' = IF Current(p) THEN 0 ELSE controller

Settle(p, out) == Ended(p, [probe[p] EXCEPT !.pc = "done", !.out = out])

\* Fault: a failed re-probe destroys the runtime the application has adopted.
CatchDropsBug(p, closed, raised) ==
  \E aborts \in {raised \/ probe[p].aborted} :
    IF Current(p)
    THEN /\ runtime' = NoRuntime /\ acceleratedStore' = 0
         /\ open' = open \ (closed \cup {acceleratedStore})
         /\ Show(IF aborts THEN "configured" ELSE "degraded", NoEvidence)
         /\ Settle(p, IF aborts THEN "aborted" ELSE "degraded")
    ELSE /\ UNCHANGED <<runtime, acceleratedStore, phase, evidence>> /\ open' = open \ closed
         /\ Settle(p, "aborted")

\* Fault: an aborted run only rethrows.
CatchSilentBug(p, closed, raised) ==
  \E aborts \in {raised \/ probe[p].aborted} :
    IF Current(p) /\ ~aborts
    THEN /\ UNCHANGED <<runtime, acceleratedStore>> /\ open' = open \ closed
         /\ Show("degraded", NoEvidence)
         /\ Settle(p, "degraded")
    ELSE /\ UNCHANGED <<runtime, acceleratedStore, phase, evidence>> /\ open' = open \ closed
         /\ Settle(p, "aborted")

\* The catch block, after the caches in closed were closed on the way to it;
\* raised when the error itself is an abort.
Catch(p, closed, raised) ==
  \E aborts \in {raised \/ probe[p].aborted} :
    IF Current(p)
    THEN /\ IF probe[p].retained = NoRuntime
            THEN /\ runtime' = NoRuntime /\ acceleratedStore' = 0
                 /\ open' = open \ (closed \cup {acceleratedStore})
            ELSE UNCHANGED <<runtime, acceleratedStore>> /\ open' = open \ closed
         /\ Show(IF aborts THEN "configured" ELSE "degraded", NoEvidence)
         /\ Settle(p, IF aborts THEN "aborted" ELSE "degraded")
    ELSE /\ UNCHANGED <<runtime, acceleratedStore, phase, evidence>> /\ open' = open \ closed
         /\ Settle(p, "aborted")

At(p, pc) == probe[p].pc = pc /\ UNCHANGED <<generation, config, workspaceKey, commands>>

\* Fault: the modules' arrival is not checked against the generation, and the
\* store of a later configuration is taken for this run's.
LoadedBug(p) ==
  /\ At(p, "modules")
  /\ \E s \in {IF store # 0 THEN store ELSE probe[p].vault} :
       /\ probe' = [probe EXCEPT ![p].pc = "checks", ![p].store = s]
       /\ store' = s
  /\ UNCHANGED <<runtime, acceleratedStore, open, phase, evidence, controller, faults, opened>>

\* The deferred modules have loaded: compose or take the store.
Loaded(p) ==
  /\ At(p, "modules")
  /\ IF Live(p)
     THEN /\ \E s \in {IF store # 0 THEN store ELSE probe[p].vault} :
               /\ probe' = [probe EXCEPT ![p].pc = "checks", ![p].store = s]
               /\ store' = s
          /\ UNCHANGED <<runtime, acceleratedStore, open, phase, evidence, controller>>
     ELSE Catch(p, {}, TRUE) /\ UNCHANGED store
  /\ UNCHANGED <<faults, opened>>

\* The call of a re-probe that restores its runtime.  A run that was
\* superseded meanwhile may put back another runtime than the one in use.
Restored(p, out) ==
  LET back == ~Current(p) /\ probe[p].retained # runtime
  IN  [probe[p] EXCEPT !.pc = "done", !.out = out, !.revived = back,
                       !.left = IF back THEN acceleratedStore ELSE 0]

\* What follows reclaimProbeObjects: evidence is assembled, and a re-probe
\* restores the runtime it retained where a first one opens a cache.  Neither
\* looks at the generation or the signal again before that.
Gathered(p) ==
  IF probe[p].retained # NoRuntime /\ probe[p].retainedStore # 0
  THEN /\ runtime' = probe[p].retained /\ acceleratedStore' = probe[p].retainedStore
       /\ open' = open
       /\ IF config # 0 THEN Show("ready", [vault |-> probe[p].store, key |-> probe[p].key])
          ELSE UNCHANGED <<phase, evidence>>       \* configuredFields throws
       /\ Ended(p, Restored(p, IF config # 0 THEN "ready" ELSE "aborted"))
  ELSE /\ probe' = [probe EXCEPT ![p].pc = "cache"]
       /\ UNCHANGED <<runtime, acceleratedStore, open, phase, evidence, controller>>

\* reclaimProbeObjects awaits the provider only when the store can trash.
Reclaim(p) ==
  IF Reclaimable
  THEN /\ probe' = [probe EXCEPT ![p].pc = "reclaim"]
       /\ UNCHANGED <<runtime, acceleratedStore, open, phase, evidence, controller>>
  ELSE Gathered(p)

\* Fault: a run that passed its checks goes on although it was superseded.
CheckedBug(p) ==
  /\ At(p, "checks")
  /\ Reclaim(p)
  /\ UNCHANGED <<store, faults, opened>>

\* The conformance and composition checks have run.  They raise the abort of
\* their signal, or fail, a provider's own abort included.
Checked(p) ==
  /\ At(p, "checks")
  /\ \/ Live(p) /\ Reclaim(p) /\ UNCHANGED faults
     \/ ~Live(p) /\ Catch(p, {}, TRUE) /\ UNCHANGED faults
     \/ /\ Live(p) /\ faults < MaxFaults /\ faults' = faults + 1
        /\ \E raised \in BOOLEAN : Catch(p, {}, raised)
  /\ UNCHANGED <<store, opened>>

\* store.trash has answered, or failed or been aborted, which is swallowed.
Reclaimed(p) ==
  /\ At(p, "reclaim")
  /\ Gathered(p)
  /\ UNCHANGED <<store, faults, opened>>

\* Fault: a superseded run drops the cache it opened without closing it.
CacheOpenedBug(p) ==
  /\ At(p, "cache") /\ opened' = opened + 1
  /\ \E c \in {opened + 1} :
       IF Live(p)
       THEN /\ acceleratedStore' = c /\ open' = open \cup {c}
            /\ runtime' = [vault |-> probe[p].store, key |-> probe[p].key, cache |-> c]
            /\ Show("ready", [vault |-> probe[p].store, key |-> probe[p].key])
            /\ Settle(p, "ready")
       ELSE /\ UNCHANGED <<runtime, acceleratedStore, phase, evidence>>
            /\ open' = open \cup {c}
            /\ Settle(p, "aborted")
  /\ UNCHANGED <<store, faults>>

\* createClientCiphertextCache has answered: the runtime is composed.
CacheOpened(p) ==
  /\ At(p, "cache") /\ opened' = opened + 1
  /\ \E c \in {opened + 1} :
       IF Live(p)
       THEN /\ acceleratedStore' = c /\ open' = open \cup {c}
            /\ runtime' = [vault |-> probe[p].store, key |-> probe[p].key, cache |-> c]
            /\ Show("ready", [vault |-> probe[p].store, key |-> probe[p].key])
            /\ Settle(p, "ready")
       ELSE Catch(p, {c}, TRUE)
  /\ UNCHANGED <<store, faults>>

CacheRefused(p) ==
  /\ At(p, "cache") /\ faults < MaxFaults /\ faults' = faults + 1
  /\ Catch(p, {}, FALSE) /\ UNCHANGED <<store, opened>>

ProbeStep(p) == Loaded(p) \/ Checked(p) \/ Reclaimed(p) \/ CacheOpened(p) \/ CacheRefused(p)

Next ==
  \/ \E v \in Vaults, k \in Keys \cup {0}, direct \in BOOLEAN : Configure(v, k, direct)
  \/ \E k \in Keys \cup {0} : SetKey(k)
  \/ cancelProbe
  \/ disconnect
  \/ \E p \in Probes : ProbeWithoutKey(p) \/ Probe(p) \/ ExternalAbort(p) \/ ProbeStep(p)

Spec == Init /\ [][Next]_vars
\* A page's event loop runs every continuation whose await has settled.
FairSpec == Spec /\ \A p \in Probes : WF_vars(ProbeStep(p))

-------------------------------------------------------------------------------
(* Properties. *)

\* The shape of the coordinator's state; the cache in use is the runtime's.
TypeOK ==
  /\ generation \in Nat /\ config \in Vaults \cup {0} /\ workspaceKey \in Keys \cup {0}
  /\ store \in Vaults \cup {0} /\ controller \in Probes \cup {0}
  /\ phase \in {"disconnected", "configured", "probing", "ready", "degraded"}
  /\ runtime \in [vault : Vaults \cup {0}, key : Keys \cup {0}, cache : 0..opened]
  /\ open \subseteq 1..opened
  /\ runtime.cache = acceleratedStore

\* A superseded re-probe put this runtime back: its objects were being removed
\* when a command let go of the runtime, or a later probe composed another.
Revived(r) == \E p \in Probes : probe[p].revived /\ probe[p].retained = r

\* The runtime readyRuntime() hands out was composed over the configured vault
\* and the attached key, its cache is open, and the snapshot's evidence was
\* gathered on that vault with that key, whatever commands crossed the probes
\* that were running.  The one exception is a runtime that a superseded
\* re-probe put back, against the comment that none can be (probe).
ReadyIsProbed ==
  phase = "ready" =>
    \/ /\ runtime.vault = config /\ runtime.key = workspaceKey
       /\ runtime.cache \in open
       /\ evidence = [vault |-> config, key |-> workspaceKey]
    \/ runtime # NoRuntime /\ Revived(runtime)

\* No cache stays open once the coordinator has let go of it: a run that was
\* superseded while its cache was opening closes it.  Only the cache that was
\* in use when a superseded re-probe put its own runtime back stays.
CachesAreClosed == open \subseteq {acceleratedStore} \cup {probe[p].left : p \in Probes}

\* A superseded re-probe whose objects have been removed goes on to "ready".
LateClaim ==
  \E p \in Probes : /\ probe[p].pc = "reclaim" /\ ~Current(p) /\ probe[p].retained # NoRuntime
                    /\ probe'[p].pc = "done" /\ probe'[p].out = "ready"

\* Only the probe that is running claims readiness: one that was cancelled,
\* superseded, or crossed by a configuration or key change does so only as a
\* re-probe that was already removing its objects.
ReadinessIsTheRunningProbes ==
  phase' = "ready" /\ phase # "ready" =>
    \/ phase = "probing" /\ controller # 0 /\ probe'[controller].out = "ready"
    \/ LateClaim

\* A runtime the application may have adopted is replaced only by a
\* configuration or key change or a disconnect: a probe that fails, is
\* aborted or succeeds leaves the very same one.  A superseded re-probe may
\* replace it by its own, which the next probe to end may replace in turn.
RuntimeIsKept ==
  runtime # NoRuntime =>
    \/ runtime' = runtime
    \/ commands' # commands /\ phase' \in {"configured", "disconnected"}
    \/ Revived(runtime) \/ Revived(runtime)'

\* The snapshot never stays "probing".
IsProbing == phase = "probing"
ProbingEnds == IsProbing ~> ~IsProbing
===============================================================================
