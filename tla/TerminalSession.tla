---------------------------- MODULE TerminalSession ----------------------------
(***************************************************************************)
(* One terminal tab of src/terminal/manager.ts, opened in several pages:   *)
(* the jsh process of each page, the generation that fences its callbacks, *)
(* the durable writer lease between pages, and the authority of the page's *)
(* manager over the mounted workspace.                                     *)
(*                                                                         *)
(* Every async call of a page (start, restart, close, the handlers of a    *)
(* process that ended, a lease renewal, quiesce) is a task that advances   *)
(* one await at a time, beside the others.                                 *)
(*                                                                         *)
(* Abstractions.  Generations and storage revisions are only ever compared *)
(* with the current one: cur says that a task's or a process's generation  *)
(* is still the session's, fresh that the lease file is still as the task  *)
(* read it.  The owner id of a manager is its page; after a reload the old *)
(* id is dead.  The files of the mount are TerminalSync; metadata and      *)
(* transcript are left out; a probe of the lease is one step.              *)
(***************************************************************************)
EXTENDS Naturals, FiniteSets, FiniteSetsExt

CONSTANTS Pages, Slots,       \* concurrent calls of a page
          Procs,              \* processes of a page not yet forgotten
          Calls,              \* the calls views and shell make
          Overlap,            \* the calls and handlers a view's call may meet
          Faults,             \* what may go wrong
          MaxCommitAttempts,  \* MAX_METADATA_CAS_ATTEMPTS
          MaxFaults           \* bound on Faults

TerminalAssumption ==
  /\ Calls \subseteq {"start", "restart", "close", "quiesce", "renew"}
  /\ Faults \subseteq {"reload", "storage", "spawn", "host", "output", "hang", "frozen"}
  /\ Overlap \subseteq {"start", "restart", "close", "quiesce", "quiesceEnd", "exit"}
  /\ MaxCommitAttempts \in Nat \ {0} /\ MaxFaults \in Nat
  /\ Slots \subseteq Nat \ {0} /\ Procs \subseteq Nat \ {0}

VARIABLES
  lease,  \* the owner of the lease file: a page, Nobody or Dead
  page,   \* the session as each page has it
  task,   \* the page's calls in flight
  procs,  \* the page's processes
  used    \* faults so far

vars == <<lease, page, task, procs, used>>
-------------------------------------------------------------------------------
Nobody == "nobody"
Dead == "dead"
Active == {"running", "starting"}
AllSlots == Slots \cup {0}  \* slot 0 is the renewal's

NoTask == [kind |-> "none", pc |-> "none", cur |-> FALSE, fresh |-> FALSE, tries |-> 0, proc |-> 0,
           eluded |-> FALSE]
NoProc == [state |-> "gone", cur |-> FALSE, eluded |-> FALSE, displaced |-> FALSE]
NewPage == [status |-> "idle", process |-> 0, pstart |-> 0, held |-> FALSE,
            suppress |-> FALSE, closed |-> FALSE, observed |-> "none",
            mounted |-> FALSE, taken |-> FALSE, robbed |-> FALSE]

Init ==
  /\ lease = Nobody
  /\ page = [p \in Pages |-> NewPage]
  /\ task = [p \in Pages |-> [s \in AllSlots |-> NoTask]]
  /\ procs = [p \in Pages |-> [k \in Procs |-> NoProc]]
  /\ used = 0

Fault(f) == f \in Faults /\ used < MaxFaults /\ used' = used + 1

Put(p, s, t) == [task EXCEPT ![p][s] = t]
Moved(p, s, pc) == [task[p][s] EXCEPT !.pc = pc]

\* ++session.generation: every callback of an older generation is fenced off.
Fenced(p, ts) == [ts EXCEPT ![p] = [s \in AllSlots |-> [ts[p][s] EXCEPT !.cur = FALSE]]]
Outdated(p, ps) == [ps EXCEPT ![p] = [k \in Procs |-> [ps[p][k] EXCEPT !.cur = FALSE]]]

\* A stop begins.  A start that still acquires its lease has no generation yet, and goes
\* on afterwards.
Eluded(p, ts) ==
  [ts EXCEPT ![p] = [s \in AllSlots |-> [ts[p][s] EXCEPT
     !.eluded = @ \/ ts[p][s].cur \/ ts[p][s].pc \in {"retained", "acquire", "acquireWrite"}]]]

\* The lease file has a new revision.
Touched(ts) == [q \in Pages |-> [s \in AllSlots |-> [ts[q][s] EXCEPT !.fresh = FALSE]]]
Unobserved(g) == [q \in Pages |-> [g[q] EXCEPT !.observed = "none"]]

\* process.kill(); the exit settles later.
Killed(p, k, ps) ==
  IF k # 0 /\ ps[p][k].state = "live" THEN [ps EXCEPT ![p][k].state = "dying"] ELSE ps

Gone(p, k) == k \in {0} \cup {j \in Procs : procs[p][j].state = "gone"}

\* processStart of a process that is stopped: nothing once the process is gone.
Settling(p, k) == IF Gone(p, k) THEN 0 ELSE k
Free(p) == {k \in Procs : /\ Gone(p, k) /\ k \notin {page[p].process, page[p].pstart}
                          /\ \A s \in Slots : task[p][s].proc # k}

\* The slot the next call of the page takes.
NextSlot(p, s) == task[p][s] = NoTask /\ \A x \in Slots : x < s => task[p][x] # NoTask

\* The call of a view meets only what is in Overlap; quiesce comes from the shell.
MayCall(p) ==
  /\ ~page[p].closed
  /\ \A s \in Slots : task[p][s].kind \in {"none"} \cup Overlap

\* The host authority lock: quiesce holds it from its first stop to its unmount.
Locked(p) == \E s \in Slots : task[p][s].kind \in {"quiesce", "quiesceEnd"}
-------------------------------------------------------------------------------
\* start, up to its first await: a retained process that is still stopping is
\* waited for.
Closing(p) ==
  \E s \in Slots : task[p][s].kind = "close" /\ task[p][s].pc \in {"stopping", "stopped"}

Entering(p, kind) ==
  [NoTask EXCEPT !.kind = kind, !.proc = page[p].pstart, !.eluded = Closing(p),
                 !.pc = IF page[p].pstart = 0 THEN "acquire" ELSE "retained"]

BeginStart(p, s) ==
  /\ "start" \in Calls /\ NextSlot(p, s) /\ MayCall(p)
  /\ page[p].status \notin Active
  /\ task' = Put(p, s, Entering(p, "start"))
  /\ UNCHANGED <<lease, page, procs, used>>

Retained(p, s) ==
  /\ task[p][s].pc = "retained"
  /\ \/ /\ Gone(p, task[p][s].proc) /\ UNCHANGED used
        /\ IF page[p].closed \/ page[p].status \in Active
           THEN task' = Put(p, s, NoTask) /\ UNCHANGED page
           ELSE /\ page' = [page EXCEPT ![p].pstart = IF @ = task[p][s].proc THEN 0 ELSE @]
                /\ task' = Put(p, s, [Moved(p, s, "acquire") EXCEPT !.proc = 0])
     \/ ~Gone(p, task[p][s].proc) /\ Fault("hang") /\ task' = Put(p, s, NoTask) /\ UNCHANGED page
  /\ UNCHANGED <<lease, procs>>

\* acquireSessionLease reads the lease.  A foreign heartbeat refuses the start until
\* this page has seen the same revision for the whole TTL; seeing it earlier starts
\* that time again.
AcquireRead(p, s) ==
  /\ task[p][s].pc = "acquire"
  /\ IF page[p].suppress /\ task[p][s].tries = 0
     THEN task' = Put(p, s, NoTask) /\ UNCHANGED page
     ELSE IF lease \notin {Nobody, p} /\ page[p].observed # "aged"
     THEN /\ page' = [page EXCEPT ![p].observed = "seen"]
          /\ task' = Put(p, s, NoTask)
     ELSE /\ task' = Put(p, s, [Moved(p, s, "acquireWrite") EXCEPT !.fresh = TRUE])
          /\ UNCHANGED page
  /\ UNCHANGED <<lease, procs, used>>

\* The session is no longer as start found it before it acquired the lease: another start
\* went on, or a stop began.  Start does not look again; of its process and the ones there
\* are, the session can only stop one.
Outrun(p) ==
  \/ page[p].status \in Active
  \/ \E k \in Procs : procs[p][k].state \in {"spawning", "live"}
Crossed(p, ps) ==
  [ps EXCEPT ![p] = [k \in Procs |-> [ps[p][k] EXCEPT !.eluded = @ \/ (~Gone(p, k) /\ Outrun(p))]]]

\* Fault: the lease is written whatever revision was read.
WritesBug(p, s) == TRUE

\* The write under the revision read goes through.
Writes(p, s) == task[p][s].fresh

\* Fault: off by one, a conflict is tried once more than the limit allows.
AcquireWriteBug(p, s) ==
  /\ task[p][s].pc = "acquireWrite"
  /\ IF Writes(p, s)
     THEN /\ lease' = p
          /\ page' = [q \in Pages |->
               IF q = p
               THEN [page[p] EXCEPT !.observed = "none", !.held = TRUE, !.status = "starting",
                                    !.robbed = FALSE]
               ELSE [page[q] EXCEPT !.observed = "none", !.taken = @ \/ lease = q]]
          /\ \E ts \in {Touched(Fenced(p, Put(p, s, Moved(p, s, "host"))))} :
               task' = [ts EXCEPT ![p][s].cur = TRUE, ![p][s].tries = 0,
                                  ![p][s].eluded = @ \/ Outrun(p)]
          /\ procs' = Outdated(p, Crossed(p, procs))
     ELSE /\ task' = Put(p, s, IF task[p][s].tries < MaxCommitAttempts
                               THEN [Moved(p, s, "acquire") EXCEPT !.tries = @ + 1]
                               ELSE NoTask)
          /\ UNCHANGED <<lease, page, procs>>
  /\ UNCHANGED used

\* The lease is written and installed, and start goes on in the same turn: a new
\* generation in state starting.
AcquireWrite(p, s) ==
  /\ task[p][s].pc = "acquireWrite"
  /\ IF Writes(p, s)
     THEN /\ lease' = p
          /\ page' = [q \in Pages |->
               IF q = p
               THEN [page[p] EXCEPT !.observed = "none", !.held = TRUE, !.status = "starting",
                                    !.robbed = FALSE]
               ELSE [page[q] EXCEPT !.observed = "none", !.taken = @ \/ lease = q]]
          /\ \E ts \in {Touched(Fenced(p, Put(p, s, Moved(p, s, "host"))))} :
               task' = [ts EXCEPT ![p][s].cur = TRUE, ![p][s].tries = 0,
                                  ![p][s].eluded = @ \/ Outrun(p)]
          /\ procs' = Outdated(p, Crossed(p, procs))
     ELSE /\ task' = Put(p, s, IF task[p][s].tries + 1 < MaxCommitAttempts
                               THEN [Moved(p, s, "acquire") EXCEPT !.tries = @ + 1]
                               ELSE NoTask)
          /\ UNCHANGED <<lease, page, procs>>
  /\ UNCHANGED used
-------------------------------------------------------------------------------
\* The end of start's catch: the session failed and its lease is released.
StartFailed(p, s) ==
  /\ page' = [page EXCEPT ![p].status = "failed", ![p].process = 0, ![p].held = FALSE]
  /\ task' = Put(p, s, [NoTask EXCEPT !.kind = "start", !.pc = "release"])

\* The catch of start: a process that an earlier start published is stopped first.
StartFails(p, s, ps) ==
  /\ procs' = Killed(p, page[p].process, ps)
  /\ IF page[p].process = 0
     THEN StartFailed(p, s)
     ELSE /\ page' = [page EXCEPT ![p].pstart = Settling(p, page[p].process)]
          /\ task' = Put(p, s, [Moved(p, s, "unwritable") EXCEPT !.proc = page[p].process])

\* session.process is set, or cleared, whatever process is there: it is lost to the session.
Displaced(p, ps) ==
  IF Gone(p, page[p].process) THEN ps ELSE [ps EXCEPT ![p][page[p].process].displaced = TRUE]

\* ensureHost and the sync behind the host authority lock, then spawn.
StartHost(p, s) ==
  /\ task[p][s].pc = "host" /\ ~Locked(p)
  /\ \/ /\ task[p][s].cur
        /\ Free(p) # {} /\ \E k \in {Min(Free(p))} :
             /\ procs' = [procs EXCEPT ![p][k] = [NoProc EXCEPT !.state = "spawning",
                                                                !.eluded = task[p][s].eluded]]
             /\ page' = [page EXCEPT ![p].mounted = TRUE, ![p].pstart = k]
             /\ task' = Put(p, s, [Moved(p, s, "spawn") EXCEPT !.proc = k, !.eluded = FALSE])
        /\ UNCHANGED used
     \/ /\ ~task[p][s].cur
        /\ page' = [page EXCEPT ![p].mounted = TRUE]
        /\ task' = Put(p, s, NoTask) /\ UNCHANGED <<procs, used>>
     \/ /\ Fault("host")
        /\ IF task[p][s].cur THEN StartFails(p, s, procs)
           ELSE task' = Put(p, s, NoTask) /\ UNCHANGED <<page, procs>>
  /\ UNCHANGED lease

\* Fault: a process that was overtaken is dropped, not stopped.
SpawnedBug(p, s) ==
  /\ task[p][s].pc = "spawn"
  /\ \E k \in {task[p][s].proc} :
       \/ /\ task[p][s].cur /\ procs[p][k].state = "spawning"
          /\ procs' = [Displaced(p, procs) EXCEPT ![p][k].state = "live", ![p][k].cur = TRUE]
          /\ page' = [page EXCEPT ![p].process = k, ![p].status = "running",
                                  ![p].pstart = IF @ = k THEN 0 ELSE @]
          /\ task' = Put(p, s, NoTask) /\ UNCHANGED used
       \/ /\ ~task[p][s].cur /\ procs[p][k].state = "spawning"
          /\ procs' = [procs EXCEPT ![p][k].state = "live"]
          /\ page' = page
          /\ task' = Put(p, s, NoTask) /\ UNCHANGED used
       \/ /\ IF procs[p][k].state = "gone" THEN UNCHANGED used ELSE Fault("spawn")
          /\ \E ps \in {[procs EXCEPT ![p][k] = NoProc]} :
               IF task[p][s].cur THEN StartFails(p, s, ps)
               ELSE task' = Put(p, s, NoTask) /\ procs' = ps /\ UNCHANGED page
       \/ /\ task[p][s].cur /\ procs[p][k].state = "spawning"
          /\ Fault("spawn")  \* the input writer cannot be had
          /\ procs' = [Displaced(p, procs) EXCEPT ![p][k].state = "dying"]
          /\ page' = [page EXCEPT ![p].process = k, ![p].pstart = k]
          /\ task' = Put(p, s, Moved(p, s, "unwritable"))
  /\ UNCHANGED lease

\* host.spawn settles; it rejects when the container is gone.  A process of an older
\* generation is stopped unpublished.
Spawned(p, s) ==
  /\ task[p][s].pc = "spawn"
  /\ \E k \in {task[p][s].proc} :
       \/ /\ task[p][s].cur /\ procs[p][k].state = "spawning"
          /\ procs' = [Displaced(p, procs) EXCEPT ![p][k].state = "live", ![p][k].cur = TRUE]
          /\ page' = [page EXCEPT ![p].process = k, ![p].status = "running",
                                  ![p].pstart = IF @ = k THEN 0 ELSE @]
          /\ task' = Put(p, s, NoTask) /\ UNCHANGED used
       \/ /\ ~task[p][s].cur /\ procs[p][k].state = "spawning"
          /\ procs' = [procs EXCEPT ![p][k].state = "dying"]
          /\ page' = [page EXCEPT ![p].pstart = k]
          /\ task' = Put(p, s, Moved(p, s, "overtaken")) /\ UNCHANGED used
       \/ /\ IF procs[p][k].state = "gone" THEN UNCHANGED used ELSE Fault("spawn")
          /\ \E ps \in {[procs EXCEPT ![p][k] = NoProc]} :
               IF task[p][s].cur THEN StartFails(p, s, ps)
               ELSE task' = Put(p, s, NoTask) /\ procs' = ps /\ UNCHANGED page
       \/ /\ task[p][s].cur /\ procs[p][k].state = "spawning"
          /\ Fault("spawn")  \* the input writer cannot be had
          /\ procs' = [Displaced(p, procs) EXCEPT ![p][k].state = "dying"]
          /\ page' = [page EXCEPT ![p].process = k, ![p].pstart = k]
          /\ task' = Put(p, s, Moved(p, s, "unwritable"))
  /\ UNCHANGED lease

\* A start waits for the process it stopped, or for as long as a kill may take.
StartStopped(p, s) ==
  /\ task[p][s].pc \in {"overtaken", "unwritable"}
  /\ IF Gone(p, task[p][s].proc) THEN UNCHANGED used ELSE Fault("hang")
  /\ IF task[p][s].pc = "unwritable"
     THEN StartFailed(p, s) /\ procs' = Displaced(p, procs)
     ELSE task' = Put(p, s, NoTask) /\ UNCHANGED <<page, procs>>
  /\ UNCHANGED lease

\* A killed process is gone; whoever retained its settlement forgets it.
Settles(p, k) ==
  /\ procs[p][k].state = "dying"
  /\ procs' = [procs EXCEPT ![p][k] = NoProc]
  /\ page' = [page EXCEPT ![p].pstart = IF @ = k THEN 0 ELSE @]
  /\ UNCHANGED <<lease, task, used>>
-------------------------------------------------------------------------------
\* Fault: a session that is being started keeps its state.
LoseBug(p, s, t) ==
  /\ page' = [page EXCEPT ![p].held = FALSE, ![p].suppress = TRUE,
                          ![p].process = IF page[p].status \in Active THEN 0 ELSE @,
                          ![p].status = IF @ = "running" THEN "failed" ELSE @]
  /\ IF page[p].status \in Active
     THEN /\ task' = Fenced(p, Put(p, s, t))
          /\ procs' = Outdated(p, Killed(p, page[p].process, procs))
     ELSE task' = Put(p, s, t) /\ UNCHANGED procs

\* loseSessionLease: the lease is another page's; nothing is persisted any more,
\* and a live process is killed.
Lose(p, s, t) ==
  /\ page' = [page EXCEPT ![p].held = FALSE, ![p].suppress = TRUE,
                          ![p].process = IF page[p].status \in Active THEN 0 ELSE @,
                          ![p].status = IF @ \in Active THEN "failed" ELSE @]
  /\ IF page[p].status \in Active
     THEN /\ task' = Fenced(p, Put(p, s, t))
          /\ procs' = Outdated(p, Killed(p, page[p].process, procs))
     ELSE task' = Put(p, s, t) /\ UNCHANGED procs

\* What a call does when its release is over.
Released(p, s) ==
  IF task[p][s].kind \in {"quiesce", "quiesceEnd"}
  THEN Moved(p, s, IF task[p][s].kind = "quiesce" THEN "sync" ELSE "unmount")
  ELSE NoTask

\* A release comes so late that the session is being started again.
Robs(p) == page[p].robbed \/ page[p].status \in Active

\* releaseSessionLease: the lease is read, and removed if it is this page's.
ReleaseRead(p, s) ==
  /\ task[p][s].pc = "release"
  /\ \/ /\ lease = Nobody
        /\ task' = Put(p, s, Released(p, s)) /\ UNCHANGED <<page, procs>>
     \/ lease \notin {Nobody, p} /\ Lose(p, s, Released(p, s))
     \/ /\ lease = p
        /\ task' = Put(p, s, [Moved(p, s, "remove") EXCEPT !.fresh = TRUE])
        /\ UNCHANGED <<page, procs>>
  /\ UNCHANGED <<lease, used>>

ReleaseRemove(p, s) ==
  /\ task[p][s].pc = "remove"
  /\ IF task[p][s].fresh
     THEN /\ lease' = Nobody
          /\ task' = Touched(Put(p, s, Released(p, s)))
          /\ page' = [Unobserved(page) EXCEPT ![p].robbed = Robs(p)]
     ELSE task' = Put(p, s, Released(p, s)) /\ UNCHANGED <<lease, page>>
  /\ UNCHANGED <<procs, used>>

\* Fault: a heartbeat that reads a foreign lease does nothing.
RenewReadBug(p) ==
  /\ "renew" \in Calls /\ page[p].held /\ task[p][0] = NoTask
  /\ IF lease = p
     THEN /\ task' = Put(p, 0, [NoTask EXCEPT !.kind = "renew", !.pc = "renew", !.fresh = TRUE])
          /\ UNCHANGED <<page, procs>>
     ELSE UNCHANGED <<task, page, procs>>
  /\ UNCHANGED <<lease, used>>

\* The heartbeat timer of a held lease: at most one renewal at a time.
RenewRead(p) ==
  /\ "renew" \in Calls /\ page[p].held /\ task[p][0] = NoTask
  /\ IF lease = p
     THEN /\ task' = Put(p, 0, [NoTask EXCEPT !.kind = "renew", !.pc = "renew", !.fresh = TRUE])
          /\ UNCHANGED <<page, procs>>
     ELSE Lose(p, 0, NoTask)
  /\ UNCHANGED <<lease, used>>

\* The renewal writes.  After a conflict the page reads again: its own id means that
\* it raced itself.
RenewWrite(p, s) ==
  /\ task[p][s].pc = "renew"
  /\ IF task[p][s].fresh
     THEN /\ page' = [Unobserved(page) EXCEPT ![p].held = TRUE]
          /\ task' = Touched(Put(p, s, NoTask))
     ELSE /\ task' = Put(p, s, Moved(p, s, "reread")) /\ UNCHANGED page
  /\ UNCHANGED <<lease, procs, used>>

RenewReread(p, s) ==
  /\ task[p][s].pc = "reread"
  /\ IF lease = p
     THEN /\ page' = [page EXCEPT ![p].held = TRUE]
          /\ task' = Put(p, s, NoTask) /\ UNCHANGED procs
     ELSE Lose(p, s, NoTask)
  /\ UNCHANGED <<lease, used>>

\* observeSessionLeaseOwner: input of a live tab looks for a foreign owner.
Probe(p) ==
  /\ page[p].status = "running" /\ page[p].held
  /\ lease \notin {Nobody, p}
  /\ Lose(p, 0, task[p][0])
  /\ UNCHANGED <<lease, used>>
-------------------------------------------------------------------------------
\* The process exits by itself: processExited, unless it is not the session's.
Exits(p, s, k) ==
  /\ procs[p][k].state = "live" /\ NextSlot(p, s)
  /\ procs' = [procs EXCEPT ![p][k] = NoProc]
  /\ IF procs[p][k].cur /\ page[p].process = k
     THEN /\ page' = [page EXCEPT ![p].status = "exited", ![p].process = 0]
          /\ task' = Put(p, s, [NoTask EXCEPT !.kind = "exit", !.pc = "exitSync"])
     ELSE UNCHANGED <<page, task>>
  /\ UNCHANGED <<lease, used>>

\* ... the workspace is synced, well or not, and the lease released.
ExitSync(p, s) ==
  /\ task[p][s].pc = "exitSync" /\ ~Locked(p)
  /\ page' = [page EXCEPT ![p].held = FALSE, ![p].robbed = Robs(p)]
  /\ task' = Put(p, s, Moved(p, s, "release"))
  /\ UNCHANGED <<lease, procs, used>>

\* processFailed: the output stream or the exit promise rejects.
ProcessFails(p, s, k) ==
  /\ procs[p][k].state = "live" /\ procs[p][k].cur /\ page[p].process = k
  /\ NextSlot(p, s) /\ Fault("output")
  /\ page' = [page EXCEPT ![p].status = "failed", ![p].process = 0, ![p].held = FALSE]
  /\ task' = Put(p, s, [NoTask EXCEPT !.kind = "exit", !.pc = "release"])
  /\ procs' = Outdated(p, Killed(p, k, procs))
  /\ UNCHANGED lease
-------------------------------------------------------------------------------
\* What stopTerminalSession waits for: the process, or the one being started.
Stopping(p) == IF page[p].process # 0 THEN page[p].process ELSE page[p].pstart
NothingToStop(p) == page[p].status \notin Active /\ Stopping(p) = 0

\* Fault: a running process is not counted as active.
BeginStopBug(p, s, kind) ==
  /\ kind \in Calls \cap {"restart", "close"} /\ NextSlot(p, s) /\ MayCall(p)
  /\ IF page[p].status # "starting" /\ page[p].pstart = 0
     THEN /\ task' = Put(p, s, [NoTask EXCEPT !.kind = kind, !.pc = "stopped"])
          /\ UNCHANGED <<page, procs>>
     ELSE /\ task' = Fenced(p, Put(p, s, [NoTask EXCEPT !.kind = kind, !.pc = "stopping",
                                                        !.proc = Stopping(p)]))
          /\ page' = [page EXCEPT ![p].status = "starting", ![p].process = 0,
                                  ![p].pstart = Settling(p, Stopping(p))]
          /\ procs' = Outdated(p, Killed(p, page[p].process, procs))
  /\ UNCHANGED <<lease, used>>

\* restart and close: stopSessionForAction.
BeginStop(p, s, kind) ==
  /\ kind \in Calls \cap {"restart", "close"} /\ NextSlot(p, s) /\ MayCall(p)
  /\ IF NothingToStop(p)
     THEN /\ task' = Eluded(p, Put(p, s, [NoTask EXCEPT !.kind = kind, !.pc = "stopped"]))
          /\ UNCHANGED <<page, procs>>
     ELSE /\ task' = Eluded(p, Fenced(p, Put(p, s, [NoTask EXCEPT !.kind = kind, !.pc = "stopping",
                                                                  !.proc = Stopping(p)])))
          /\ page' = [page EXCEPT ![p].status = "starting", ![p].process = 0,
                                  ![p].pstart = Settling(p, Stopping(p))]
          /\ procs' = Outdated(p, Killed(p, page[p].process, procs))
  /\ UNCHANGED <<lease, used>>

StopSettled(p, s) == Gone(p, task[p][s].proc)

Stopped(p, s) ==
  /\ task[p][s].pc = "stopping"
  /\ \/ /\ StopSettled(p, s) /\ UNCHANGED <<page, used>>
        /\ task' = Put(p, s, [Moved(p, s, "stopped") EXCEPT !.proc = 0])
     \/ /\ ~StopSettled(p, s) /\ Fault("hang")
        /\ page' = [page EXCEPT ![p].status = "failed"]
        /\ task' = Put(p, s, NoTask)
  /\ UNCHANGED <<lease, procs>>

\* restart goes on with start.
Restart(p, s) ==
  /\ task[p][s].pc = "stopped" /\ task[p][s].kind = "restart"
  /\ page' = [page EXCEPT ![p].status = "idle"]
  /\ task' = Put(p, s, IF page[p].closed THEN NoTask ELSE Entering(p, "start"))
  /\ UNCHANGED <<lease, procs, used>>

\* close archives the tab once its workspace is synced.
Close(p, s) ==
  /\ task[p][s].pc = "stopped" /\ task[p][s].kind = "close" /\ ~Locked(p)
  /\ \/ /\ page' = [page EXCEPT ![p].closed = TRUE, ![p].status = "exited", ![p].held = FALSE]
        /\ task' = Put(p, s, Moved(p, s, "release")) /\ UNCHANGED used
     \/ /\ Fault("host")
        /\ page' = [page EXCEPT ![p].status = "failed"]
        /\ task' = Put(p, s, NoTask)
  /\ UNCHANGED <<lease, procs>>
-------------------------------------------------------------------------------
\* stopLiveSessions, and what it leaves to be waited for.
StopLive(p, s, t) ==
  IF NothingToStop(p)
  THEN task' = Put(p, s, t) /\ UNCHANGED <<page, procs>>
  ELSE /\ page' = [page EXCEPT ![p].status = IF @ \in Active THEN "restart" ELSE @,
                               ![p].held = FALSE, ![p].process = 0,
                               ![p].pstart = Settling(p, Stopping(p))]
       /\ procs' = IF page[p].status \in Active
                   THEN Outdated(p, Killed(p, page[p].process, procs))
                   ELSE Killed(p, page[p].process, procs)
       /\ task' = IF page[p].status \in Active THEN Fenced(p, Put(p, s, t)) ELSE Put(p, s, t)

\* quiesce: releaseAuthorityWithinLock stops everything, ...
BeginQuiesce(p, s) ==
  /\ "quiesce" \in Calls /\ NextSlot(p, s) /\ ~Locked(p) /\ page[p].mounted
  /\ StopLive(p, s, [NoTask EXCEPT !.kind = "quiesce", !.proc = Stopping(p),
                                   !.pc = IF NothingToStop(p) THEN "sync" ELSE "quiesceStop"])
  /\ UNCHANGED <<lease, used>>

\* Fault: a process that is still being started is not waited for.
QuiesceStoppedBug(p, s) ==
  /\ task[p][s].pc = "quiesceStop"
  /\ (IF StopSettled(p, s) THEN TRUE ELSE procs[p][task[p][s].proc].state = "spawning")
  /\ task' = Put(p, s, [Moved(p, s, "release") EXCEPT !.proc = 0])
  /\ UNCHANGED <<lease, page, procs, used>>

\* ... waits for what it stopped, ...
QuiesceStopped(p, s) ==
  /\ task[p][s].pc = "quiesceStop"
  /\ \/ /\ StopSettled(p, s) /\ UNCHANGED used
        /\ task' = Put(p, s, [Moved(p, s, "release") EXCEPT !.proc = 0])
     \/ /\ ~StopSettled(p, s) /\ Fault("hang")
        /\ task' = Put(p, s, [Moved(p, s, "release") EXCEPT !.proc = 0, !.kind = "exit"])
  /\ UNCHANGED <<lease, page, procs>>

\* ... syncs the workspace and releases what leases there still are, ...
QuiesceSync(p, s) ==
  /\ task[p][s].pc = "sync"
  /\ \/ /\ task' = Put(p, s, [Moved(p, s, IF page[p].held THEN "release" ELSE "unmount")
                                EXCEPT !.kind = "quiesceEnd"])
        /\ page' = [page EXCEPT ![p].held = FALSE] /\ UNCHANGED used
     \/ Fault("host") /\ task' = Put(p, s, NoTask) /\ UNCHANGED page
  /\ UNCHANGED <<lease, procs>>

\* ... and unmounts.
Unmount(p, s) ==
  /\ task[p][s].pc = "unmount"
  /\ page' = [page EXCEPT ![p].mounted = FALSE]
  /\ task' = Put(p, s, NoTask)
  /\ UNCHANGED <<lease, procs, used>>

\* invalidateHost: the container is torn down under the page, processes and all.
HostGone(p, s) ==
  /\ page[p].mounted /\ NextSlot(p, s) /\ Fault("host")
  /\ page' = [page EXCEPT ![p].status = IF @ \in Active THEN "restart" ELSE @,
                          ![p].held = @ /\ NothingToStop(p), ![p].process = 0,
                          ![p].pstart = Settling(p, Stopping(p)), ![p].mounted = FALSE]
  /\ procs' = [procs EXCEPT ![p] = [k \in Procs |->
       IF procs[p][k].state \in {"gone", "spawning"} THEN NoProc
       ELSE [procs[p][k] EXCEPT !.state = "dying", !.cur = FALSE]]]
  /\ \E ts \in {IF page[p].status \in Active THEN Fenced(p, task) ELSE task} :
       task' = IF NothingToStop(p) THEN ts
               ELSE [ts EXCEPT ![p][s] = [NoTask EXCEPT !.kind = "exit", !.pc = "release"]]
  /\ UNCHANGED lease
-------------------------------------------------------------------------------
\* The page reloads: nothing of it survives but its lease, under an id nobody has.
Reload(p) ==
  /\ Fault("reload")
  /\ page' = [page EXCEPT ![p] = [NewPage EXCEPT !.status = "restart", !.closed = page[p].closed]]
  /\ task' = [task EXCEPT ![p] = [s \in AllSlots |-> NoTask]]
  /\ procs' = [procs EXCEPT ![p] = [k \in Procs |-> NoProc]]
  /\ lease' = IF lease = p THEN Dead ELSE lease

\* A storage request throws, before or after it was applied.
StorageThrows(p, s) ==
  /\ Fault("storage")
  /\ \/ /\ task[p][s].pc \in {"acquire", "acquireWrite", "release", "remove"}
        /\ task' = Put(p, s, NoTask) /\ UNCHANGED <<lease, page, procs>>
     \/ /\ task[p][s].pc = "acquireWrite" /\ Writes(p, s)
        /\ lease' = p /\ task' = Touched(Put(p, s, NoTask))
        /\ page' = [q \in Pages |-> [page[q] EXCEPT !.observed = "none",
                                                    !.taken = @ \/ (lease = q /\ q # p)]]
        /\ UNCHANGED procs
     \/ task[p][s].pc \in {"renew", "reread"} /\ Lose(p, s, NoTask) /\ UNCHANGED lease

\* Time passes on an observed foreign lease.  Its owner, while it holds the lease and
\* is not frozen, renews it well before the TTL is over.
Silent == \A q \in Pages : lease = q /\ "frozen" \notin Faults => ~page[q].held

Age(p) ==
  /\ \/ page[p].observed = "seen" /\ page' = [page EXCEPT ![p].observed = "half"]
     \/ /\ page[p].observed = "half" /\ Silent
        /\ page' = [page EXCEPT ![p].observed = "aged"]
  /\ UNCHANGED <<lease, task, procs, used>>
-------------------------------------------------------------------------------
Step(p, s) ==
  \/ Retained(p, s) \/ AcquireRead(p, s) \/ AcquireWrite(p, s)
  \/ StartHost(p, s) \/ Spawned(p, s) \/ StartStopped(p, s)
  \/ ReleaseRead(p, s) \/ ReleaseRemove(p, s) \/ RenewWrite(p, s) \/ RenewReread(p, s)
  \/ ExitSync(p, s) \/ Stopped(p, s) \/ Restart(p, s) \/ Close(p, s)
  \/ QuiesceStopped(p, s) \/ QuiesceSync(p, s) \/ Unmount(p, s)

Next ==
  \E p \in Pages :
    \/ \E s \in AllSlots : Step(p, s) \/ StorageThrows(p, s)
    \/ \E s \in Slots :
         \/ BeginStart(p, s) \/ BeginQuiesce(p, s)
         \/ \E kind \in {"restart", "close"} : BeginStop(p, s, kind)
         \/ \E k \in Procs : Exits(p, s, k) \/ ProcessFails(p, s, k)
         \/ HostGone(p, s)
    \/ \E k \in Procs : Settles(p, k)
    \/ RenewRead(p) \/ Probe(p) \/ Reload(p) \/ Age(p)

Spec == Init /\ [][Next]_vars

\* Calls that were made go on, kills settle, heartbeats fire.
FairSpec ==
  /\ Spec
  /\ \A p \in Pages :
       /\ \A s \in AllSlots : WF_vars(Step(p, s))
       /\ \A k \in Procs : WF_vars(Settles(p, k))
       /\ WF_vars(RenewRead(p))

\* Time passes, and a page that has no process asks for one again and again.
RetryingSpec ==
  /\ FairSpec
  /\ \A p \in Pages : WF_vars(Age(p)) /\ WF_vars(\E s \in Slots : BeginStart(p, s))
-------------------------------------------------------------------------------
TypeOK ==
  /\ lease \in Pages \cup {Nobody, Dead}
  /\ page \in [Pages -> [status : {"idle", "starting", "running", "exited", "failed", "restart"},
                         process : Procs \cup {0}, pstart : Procs \cup {0},
                         held : BOOLEAN, suppress : BOOLEAN, closed : BOOLEAN,
                         observed : {"none", "seen", "half", "aged"},
                         mounted : BOOLEAN, taken : BOOLEAN, robbed : BOOLEAN]]
  /\ \A p \in Pages, s \in AllSlots :
       /\ task[p][s].tries \in 0..MaxCommitAttempts - 1
       /\ task[p][s].proc \in Procs \cup {0}
  /\ procs \in [Pages -> [Procs -> [state : {"gone", "spawning", "live", "dying"},
                                 cur : BOOLEAN, eluded : BOOLEAN, displaced : BOOLEAN]]]
  /\ used \in 0..MaxFaults

\* Two pages never run a process for one tab: the lease admits one writer, and a writer
\* that lives and is not frozen keeps it.  Excepted is a page whose own call or exit handler
\* released the lease only after a later start of the page had acquired it.
OneWriter == Cardinality({p \in Pages : page[p].status = "running" /\ ~page[p].robbed}) <= 1

\* A process that runs is the one its session has published, so that input, stop and
\* exit reach it.  Excepted is a process that a second start, which was acquiring the lease
\* while the first one ran, put its own in the place of.
LiveProcessesArePublished ==
  \A p \in Pages, k \in Procs :
    procs[p][k].state = "live" => page[p].process = k \/ procs[p][k].displaced

Quiet(p, k) ==
  \/ procs[p][k].state \in {"gone", "dying"}
  \/ procs[p][k].eluded \/ procs[p][k].displaced

\* The mount is removed only when no process has its cwd in it or is about to; and a closed
\* tab has no process (terminal-view.tsx: "Its process ended.").  Excepted is the process of
\* a start that eluded a stop: it was acquiring its lease when the stop looked for something
\* to stop, or was called while a close went on; and a process that was displaced.
UnmountedOnlyWhenQuiet == \A p \in Pages : ~page[p].mounted => \A k \in Procs : Quiet(p, k)
ClosedTabsAreStopped == \A p \in Pages : page[p].closed => \A k \in Procs : Quiet(p, k)

\* Persistence is given up only after another page wrote the lease (manager.ts:
\* "Set after this page observes another durable writer").
SuppressedMeansTaken == \A p \in Pages : page[p].suppress => page[p].taken

\* A start, a restart or a stop comes to an end.
Starting(p) == page[p].status = "starting"
StartsSettle == \A p \in Pages : Starting(p) ~> ~Starting(p)

\* A page whose lease another page has taken notices, typing or not, unless it takes
\* the lease back first.
Superseded(p) == page[p].held /\ lease \notin {p, Nobody}
StaleHolderStops == \A p \in Pages : Superseded(p) ~> ~Superseded(p)

\* A page that retries gets the lease of a page that is gone.
DeadLeaseIsTaken == lease = Dead ~> lease # Dead
===============================================================================
