------------------------------ MODULE KernelHost ------------------------------
(***************************************************************************)
(* The PRIME kernel host (prime/kernel/kernel-host.ts): a queue of code    *)
(* jobs, one worker that is booted, given one job and terminated, tool     *)
(* calls the job makes through the bridge, and the ways a job ends: its    *)
(* finished frame, a cancellation with its grace timer, the wall clock, a  *)
(* worker fault, terminate() and restart().                                *)
(*                                                                         *)
(* The code is one thread.  stack holds the frames a synchronous call has  *)
(* still to run, the innermost first, and micro the promise continuations  *)
(* that wait for the stack to empty.  Frames and timers of the browser     *)
(* (a worker's message, a timeout, a fetch) come only when both are empty. *)
(* A call of the host's interface comes when the stack is empty, from some *)
(* continuation of the caller, or, if Reentrant, out of a listener that    *)
(* emit is notifying: then the top frame is one marked open.               *)
(*                                                                         *)
(* Job ids are used once, as execute_code forms them from the operation.   *)
(* Which frame of a worker is malformed is not told apart: any of them may *)
(* be, and the answer is protocolViolation.  A worker is named by the      *)
(* number of the boot that made it.                                        *)
(***************************************************************************)
EXTENDS FiniteSetsExt, SequencesExt

CONSTANTS Jobs,            \* the jobs callers may submit
          None,            \* no job
          MaxQueuedJobs,   \* budgets.maxQueuedJobs
          MaxBridgeCalls,  \* budgets.maxBridgeCallsPerJob
          Reentrant,       \* may a listener call back into the host
          Interface,       \* which of "start", "terminate", "restart" callers use
          MaxCalls,        \* bound on those calls
          MaxFaults        \* bound on failed boots and worker faults

KernelAssumption ==
  /\ None \notin Jobs /\ IsFiniteSet(Jobs)
  /\ MaxQueuedJobs \in Nat /\ MaxBridgeCalls \in Nat
  /\ MaxCalls \in Nat /\ MaxFaults \in Nat
  /\ Reentrant \in BOOLEAN /\ Interface \subseteq {"start", "terminate", "restart"}

VARIABLES
  state,       \* what description() shows, and what dispatch asks
  worker,      \* the current worker, 0 when there is none
  job,         \* the job the worker was given
  active,      \* activeProtocol of that job
  queue,       \* admitted jobs not yet dispatched
  jobTimer,    \* the job whose wall clock is armed
  cancelTimer, \* the job whose cancellation grace is armed
  kills,       \* every killWorker attempt: what it captured, who awaits it
  killPromise, \* the attempt that start() and killWorker() join, 0 for none
  boots,       \* every boot attempt, numbered by its epoch
  bootEpoch,   \* the epoch in force
  bootPromise, \* the attempt that start() joins, 0 for none
  stack,       \* synchronous frames still to run
  micro,       \* promise continuations still to run
  outcome,     \* what each job's promise settled with
  effects,     \* bridge calls admitted and not settled
  live,        \* workers that have not been terminated
  cell,        \* the job each worker executes
  stopped,     \* jobs whose cancellation the host accepted
  calls,       \* start(), terminate() and restart() calls so far
  faults       \* failed boots and worker faults so far

host == <<state, worker, job, active, queue, jobTimer, cancelTimer>>
lifecycle == <<kills, killPromise, boots, bootEpoch, bootPromise>>
world == <<effects, live, cell, stopped, calls, faults>>
vars == <<host, lifecycle, stack, micro, outcome, world>>

Idle == [job |-> None, seq |-> 0, cancel |-> FALSE, deferred |-> "none", hard |-> FALSE]
Settled == {"completed", "failed", "cancelled", "crashed", "rejected"}

Init ==
  /\ state = "booting" /\ worker = 0 /\ job = None /\ active = Idle /\ queue = <<>>
  /\ jobTimer = None /\ cancelTimer = None
  /\ kills = <<>> /\ killPromise = 0
  /\ boots = <<>> /\ bootEpoch = 0 /\ bootPromise = 0
  /\ stack = <<>> /\ micro = <<>>
  /\ outcome = [j \in Jobs |-> "idle"]
  /\ effects = {} /\ live = {} /\ cell = <<>> /\ stopped = {}
  /\ calls = 0 /\ faults = 0

(***************************************************************************)
(* Frames and continuations.                                               *)
(***************************************************************************)
Frame(f) == [f |-> f, open |-> FALSE, then |-> "none", job |-> None, ref |-> 0, to |-> "none"]
Open(fr, b) == [fr EXCEPT !.open = b]
StartThen(next) == [Frame("start") EXCEPT !.then = next]
KillThen(next) == [Frame("kill") EXCEPT !.then = next]
Cont(k, ref) == [k |-> k, ref |-> ref, then |-> "none"]
\* What a caller does after its await; "none" when it does nothing the host sees.
Await(next) == IF next = "none" THEN <<>> ELSE <<Cont(next, 0)>>

Callable == IF stack = <<>> THEN TRUE ELSE Reentrant /\ Head(stack).open
Idling == stack = <<>> /\ micro = <<>>
Top(f) == stack # <<>> /\ Head(stack).f = f
Return(frames) == stack' = frames \o Tail(stack)

EffectsOf(j) == {e \in effects : e.job = j}
Settle(js, o) == outcome' = [j \in Jobs |-> IF j \in js THEN o ELSE outcome[j]]
Elements(s) == ToSet(s)

\* The timers of the active job are disarmed, and the host lets go of the job and its worker.
ClearTimersBug == jobTimer' = None /\ UNCHANGED cancelTimer
ClearTimers == jobTimer' = None /\ cancelTimer' = None
ReleaseKeepsProtocolBug == job' = None /\ worker' = 0 /\ UNCHANGED active
ReleaseKeepsJobBug == worker' = 0 /\ UNCHANGED <<job, active>>
Release == job' = None /\ active' = Idle /\ worker' = 0

\* invalidateBoot: an attempt in flight finds a newer epoch and gives up.
InvalidateBoot == bootEpoch' = bootEpoch + 1 /\ bootPromise' = 0

(***************************************************************************)
(* The interface: exec, cancel, terminate, restart.                        *)
(***************************************************************************)
QueueCapacity == IF job # None THEN MaxQueuedJobs ELSE MaxQueuedJobs + 1

Exec(j) ==
  /\ Callable /\ outcome[j] = "idle"
  /\ IF Len(queue) >= QueueCapacity
     THEN /\ outcome' = [outcome EXCEPT ![j] = "refused"]
          /\ UNCHANGED <<queue, stack>>
     ELSE /\ outcome' = [outcome EXCEPT ![j] = "pending"]
          /\ queue' = Append(queue, j)
          /\ stack' = <<IF worker = 0 \/ state \in {"booting", "failed", "stopped"}
                        THEN StartThen("dispatch") ELSE Frame("dispatch")>> \o stack
  /\ UNCHANGED <<state, worker, job, active, jobTimer, cancelTimer, lifecycle, micro, world>>

CancelQueued(j) ==
  /\ Callable
  /\ \E i \in DOMAIN queue : queue[i] = j /\ queue' = RemoveAt(queue, i)
  /\ Settle({j}, "cancelled")
  /\ stopped' = stopped \union {j}
  /\ UNCHANGED <<state, worker, job, active, jobTimer, cancelTimer, lifecycle, stack, micro,
                 effects, live, cell, calls, faults>>

CancelActive(j) ==
  /\ Callable /\ job = j /\ active.job = j /\ ~active.cancel
  /\ active' = [active EXCEPT !.cancel = TRUE]
  /\ jobTimer' = None
  /\ cancelTimer' = j
  /\ stopped' = stopped \union {j}
  /\ UNCHANGED <<state, worker, job, queue, lifecycle, stack, micro, outcome,
                 effects, live, cell, calls, faults>>

\* A call of start(), terminate() or restart(), which runs as the given frame.
Call(name, frame) ==
  /\ Callable /\ name \in Interface /\ calls < MaxCalls
  /\ calls' = calls + 1
  /\ stack' = <<frame>> \o stack
  /\ UNCHANGED <<host, lifecycle, micro, outcome, effects, live, cell, stopped, faults>>

StartCall == Call("start", StartThen("none"))
Terminate == Call("terminate", KillThen("terminate"))
Restart == Call("restart", KillThen("restart"))

(***************************************************************************)
(* Boot.  start() awaits a kill in progress and does not look again.       *)
(***************************************************************************)
Start ==
  /\ Top("start") /\ killPromise # 0
  /\ kills' = [kills EXCEPT ![killPromise].waiters =
                 Append(@, [Cont("start", 0) EXCEPT !.then = Head(stack).then])]
  /\ Return(<<>>)
  /\ UNCHANGED <<host, killPromise, boots, bootEpoch, bootPromise, micro, outcome, world>>

Booted == worker # 0 /\ state \in {"ready", "busy"}

StartBody ==
  /\ Top("startBody") \/ (Top("start") /\ killPromise = 0)
  /\ LET next == Await(Head(stack).then) IN
       \/ /\ Booted
          /\ micro' = micro \o next
          /\ UNCHANGED <<state, boots, bootEpoch, bootPromise>>
       \/ /\ ~Booted /\ bootPromise # 0
          /\ IF boots[bootPromise].phase = "done"
             THEN micro' = micro \o next /\ UNCHANGED boots
             ELSE boots' = [boots EXCEPT ![bootPromise].waiters = @ \o next] /\ UNCHANGED micro
          /\ UNCHANGED <<state, bootEpoch, bootPromise>>
       \/ /\ ~Booted /\ bootPromise = 0
          /\ bootEpoch' = bootEpoch + 1
          /\ bootPromise' = bootEpoch + 1
          /\ boots' = [e \in 1..(bootEpoch + 1) |->
                         IF e \in DOMAIN boots THEN boots[e]
                         ELSE [phase |-> IF e = bootEpoch + 1 THEN "preflight" ELSE "dead",
                               waiters |-> IF e = bootEpoch + 1 THEN next ELSE <<>>]]
          /\ state' = "booting"
          /\ UNCHANGED micro
  /\ Return(<<>>)
  /\ UNCHANGED <<worker, job, active, queue, jobTimer, cancelTimer, kills, killPromise, outcome, world>>

AssertCurrentBootBug(e) == TRUE
AssertCurrentBoot(e) == bootEpoch = e

\* The worker asset is checked, the worker constructed and sent its init frame.
PreflightDone(e) ==
  /\ Idling /\ boots[e].phase = "preflight"
  /\ IF AssertCurrentBoot(e)
     THEN /\ worker' = e
          /\ live' = live \union {e}
          /\ cell' = [w \in 1..bootEpoch |-> IF w \in DOMAIN cell THEN cell[w] ELSE None]
          /\ boots' = [boots EXCEPT ![e].phase = "handshake"]
     ELSE /\ boots' = [boots EXCEPT ![e] = [phase |-> "dead", waiters |-> <<>>]]
          /\ UNCHANGED <<worker, live, cell>>
  /\ UNCHANGED <<state, job, active, queue, jobTimer, cancelTimer, kills, killPromise, bootEpoch,
                 bootPromise, stack, micro, outcome, effects, stopped, calls, faults>>

Ready(e) ==
  /\ Idling /\ boots[e].phase = "handshake" /\ e \in live
  /\ AssertCurrentBoot(e) /\ worker = e
  /\ state' = "ready"
  /\ boots' = [boots EXCEPT ![e].phase = "ready"]
  /\ micro' = Append(micro, Cont("booted", e))
  /\ UNCHANGED <<worker, job, active, queue, jobTimer, cancelTimer, kills, killPromise, bootEpoch,
                 bootPromise, stack, outcome, world>>

\* The asset, the constructor or the ready frame is refused, before a newer epoch.
BootFails(e) ==
  /\ Idling /\ faults < MaxFaults
  /\ boots[e].phase = "preflight" \/ (boots[e].phase = "handshake" /\ e \in live)
  /\ bootEpoch = e /\ bootPromise = e
  /\ faults' = faults + 1
  /\ bootPromise' = 0
  /\ boots' = [boots EXCEPT ![e] = [phase |-> "dead", waiters |-> <<>>]]
  /\ live' = live \ {worker}
  /\ worker' = 0
  /\ state' = "failed"
  /\ Settle(Elements(queue), "rejected")
  /\ queue' = <<>>
  /\ UNCHANGED <<job, active, jobTimer, cancelTimer, kills, killPromise, bootEpoch, stack, micro,
                 effects, cell, stopped, calls>>

(***************************************************************************)
(* Dispatch, in two halves around the announcement of the start.           *)
(***************************************************************************)
Dispatch ==
  /\ Top("dispatch")
  /\ IF state # "ready" \/ job # None \/ queue = <<>>
     THEN /\ Return(<<>>)
          /\ UNCHANGED <<state, job, active, queue>>
     ELSE /\ job' = Head(queue)
          /\ active' = [Idle EXCEPT !.job = Head(queue)]
          /\ queue' = Tail(queue)
          /\ state' = "busy"
          /\ Return(<<[Open(Frame("dispatched"), TRUE) EXCEPT !.job = Head(queue), !.ref = worker]>>)
  /\ UNCHANGED <<worker, jobTimer, cancelTimer, lifecycle, micro, outcome, world>>

StillCurrentBug(fr) == fr.ref # 0
StillCurrent(fr) == fr.ref # 0 /\ worker = fr.ref /\ job = fr.job /\ active.job = fr.job

PostExec ==
  /\ Top("dispatched")
  /\ LET fr == Head(stack) IN
       IF StillCurrent(fr)
       THEN /\ jobTimer' = fr.job
            /\ cell' = [cell EXCEPT ![fr.ref] = fr.job]
       ELSE UNCHANGED <<jobTimer, cell>>
  /\ Return(<<>>)
  /\ UNCHANGED <<state, worker, job, active, queue, cancelTimer, lifecycle, micro, outcome,
                 effects, live, stopped, calls, faults>>

(***************************************************************************)
(* What the worker of a job sends, and the bridge.                         *)
(***************************************************************************)
Executing == Idling /\ worker \in live /\ cell[worker] # None /\ cell[worker] = job

BridgeRequest ==
  /\ Executing
  /\ IF active.seq >= MaxBridgeCalls
     THEN /\ stack' = <<KillThen("none")>>
          /\ UNCHANGED <<active, effects>>
     ELSE /\ active' = [active EXCEPT !.seq = @ + 1]
          /\ effects' = effects \union {[job |-> job, seq |-> active.seq]}
          /\ UNCHANGED stack
  /\ UNCHANGED <<state, worker, job, queue, jobTimer, cancelTimer, lifecycle, micro, outcome,
                 live, cell, stopped, calls, faults>>

AuthoritativeBug(o) == o
Authoritative(o) == IF active.cancel THEN "cancelled" ELSE o

\* The kill that awaits this effect and no other, if there is one: two kills captured the
\* tasks of two jobs.
Drained(e) ==
  {k \in DOMAIN kills : kills[k].phase = "drain" /\ kills[k].tasks \cap effects = {e}}

FinishFrame(w, o) == [Frame("finish") EXCEPT !.ref = w, !.to = o]
HardFrame(j) == [Frame("finalizeHard") EXCEPT !.job = j]

BridgeSettles(e) ==
  /\ stack = <<>> /\ e \in effects
  /\ effects' = effects \ {e}
  /\ IF Drained(e) = {} THEN UNCHANGED <<kills, micro>>
     ELSE LET k == CHOOSE x \in Drained(e) : TRUE IN
            /\ kills' = [kills EXCEPT ![k].phase = "publish"]
            /\ micro' = Append(micro, Cont("publish", k))
  /\ IF active.job = e.job /\ job = e.job /\ EffectsOf(job) = {e}
     THEN \/ active.hard /\ stack' = <<HardFrame(job)>> /\ UNCHANGED active
          \/ /\ ~active.hard /\ active.deferred # "none"
             /\ stack' = <<FinishFrame(worker, Authoritative(active.deferred))>>
             /\ active' = [active EXCEPT !.deferred = "none"]
          \/ ~active.hard /\ active.deferred = "none" /\ UNCHANGED <<stack, active>>
     ELSE UNCHANGED <<stack, active>>
  /\ UNCHANGED <<state, worker, job, queue, jobTimer, cancelTimer, killPromise, boots, bootEpoch,
                 bootPromise, outcome, live, cell, stopped, calls, faults>>

\* A finished frame; with effects outstanding the queue is cancelled and the worker ended first.
Finished(o) ==
  /\ Executing
  /\ IF EffectsOf(job) = {}
     THEN /\ stack' = <<FinishFrame(worker, Authoritative(o))>>
          /\ UNCHANGED <<queue, outcome>>
     ELSE /\ Settle(Elements(queue), "cancelled")
          /\ queue' = <<>>
          /\ stack' = <<[Open(Frame("defer"), queue # <<>>)
                           EXCEPT !.job = job, !.ref = worker, !.to = Authoritative(o)]>>
  /\ UNCHANGED <<state, worker, job, active, jobTimer, cancelTimer, lifecycle, micro, world>>

Defer ==
  /\ Top("defer")
  /\ LET fr == Head(stack) IN
       /\ active' = IF active.job = fr.job THEN [active EXCEPT !.deferred = fr.to] ELSE active
       /\ live' = live \ {fr.ref}
  /\ Return(<<>>)
  /\ UNCHANGED <<state, worker, job, queue, jobTimer, cancelTimer, lifecycle, micro, outcome,
                 effects, cell, stopped, calls, faults>>

\* A malformed or unexpected frame, or the worker's error event.
WorkerFault ==
  /\ Idling /\ worker \in live /\ boots[worker].phase = "done" /\ faults < MaxFaults
  /\ faults' = faults + 1
  /\ stack' = <<KillThen("none")>>
  /\ UNCHANGED <<host, lifecycle, micro, outcome, effects, live, cell, stopped, calls>>

Finish ==
  /\ Top("finish")
  /\ LET fr == Head(stack) IN
       IF fr.ref # worker
       THEN /\ Return(<<>>)
            /\ UNCHANGED <<host, bootEpoch, bootPromise, outcome, live>>
       ELSE /\ ClearTimers /\ Release
            /\ InvalidateBoot
            /\ live' = live \ {fr.ref}
            /\ state' = "ready"
            /\ Settle({job}, fr.to)
            /\ Return(<<Open(Frame("next"), TRUE)>>)
            /\ UNCHANGED queue
  /\ UNCHANGED <<kills, killPromise, boots, micro, effects, cell, stopped, calls, faults>>

StartNextBug == Top("next") /\ Return(<<>>) /\ UNCHANGED <<host, lifecycle, micro, outcome, world>>
\* The tail of finish and of finalizeHardCancellation.
StartNext ==
  /\ Top("next")
  /\ Return(IF queue = <<>> THEN <<>> ELSE <<StartThen("dispatch")>>)
  /\ UNCHANGED <<host, lifecycle, micro, outcome, world>>

(***************************************************************************)
(* Cancellation past its grace.                                            *)
(***************************************************************************)
BeginHardCancellation ==
  /\ Idling /\ cancelTimer # None
  /\ cancelTimer' = None
  /\ IF active.job = cancelTimer /\ job = cancelTimer
     THEN /\ jobTimer' = None
          /\ Settle(Elements(queue), "cancelled")
          /\ queue' = <<>>
          /\ stack' = <<[Open(Frame("hard"), queue # <<>>) EXCEPT !.job = job]>>
     ELSE UNCHANGED <<jobTimer, outcome, queue, stack>>
  /\ UNCHANGED <<state, worker, job, active, lifecycle, micro, world>>

HardTerminate ==
  /\ Top("hard")
  /\ LET j == Head(stack).job IN
       /\ active' = IF active.job = j THEN [active EXCEPT !.hard = TRUE] ELSE active
       /\ live' = live \ {worker}
       /\ Return(IF EffectsOf(j) = {} THEN <<HardFrame(j)>> ELSE <<>>)
  /\ UNCHANGED <<state, worker, job, queue, jobTimer, cancelTimer, lifecycle, micro, outcome,
                 effects, cell, stopped, calls, faults>>

FinalizeHardCancellation ==
  /\ Top("finalizeHard")
  /\ LET j == Head(stack).job IN
       IF active.job # j \/ job # j
       THEN /\ Return(<<>>)
            /\ UNCHANGED <<state, worker, job, active, bootEpoch, bootPromise, outcome>>
       ELSE /\ Release /\ InvalidateBoot
            /\ state' = "ready"
            /\ Settle({j}, "cancelled")
            /\ Return(<<Open(Frame("next"), TRUE)>>)
  /\ UNCHANGED <<queue, jobTimer, cancelTimer, kills, killPromise, boots, micro, world>>

\* The wall clock of dispatch kills whatever worker is current.
WallClock ==
  /\ Idling /\ jobTimer # None
  /\ jobTimer' = None
  /\ stack' = <<KillThen("none")>>
  /\ UNCHANGED <<state, worker, job, active, queue, cancelTimer, lifecycle, micro, outcome, world>>

(***************************************************************************)
(* killWorker.  killPromise is set when performKillWorker first awaits or  *)
(* returns, so a listener it notifies before that does not find it.        *)
(***************************************************************************)
JoinKill ==
  /\ Top("kill") /\ killPromise # 0
  /\ kills' = [kills EXCEPT ![killPromise].waiters = @ \o Await(Head(stack).then)]
  /\ Return(<<>>)
  /\ UNCHANGED <<host, killPromise, boots, bootEpoch, bootPromise, micro, outcome, world>>

\* protocol.bridgeTasks at the moment of the kill.
CapturedTasksBug == {}
CapturedTasks == EffectsOf(job)

PerformKill ==
  /\ Top("kill") /\ killPromise = 0
  /\ kills' = Append(kills, [phase |-> "sync", job |-> job, tasks |-> CapturedTasks, waiters |-> <<>>])
  /\ ClearTimers /\ Release /\ InvalidateBoot
  /\ state' = "draining"
  /\ queue' = <<>>
  /\ live' = live \ {worker}
  /\ Settle(Elements(queue), "cancelled")
  /\ Return(<<[Open(Frame("killed"), queue # <<>>)
                 EXCEPT !.then = Head(stack).then, !.ref = Len(kills) + 1]>>)
  /\ UNCHANGED <<killPromise, boots, micro, effects, cell, stopped, calls, faults>>

\* The captured bridge tasks are awaited, or the crash is published at once.
AwaitTasks ==
  /\ Top("killed")
  /\ LET fr == Head(stack)
         k == kills[fr.ref]
     IN IF k.tasks # {}
        THEN /\ killPromise' = fr.ref
             /\ kills' = [kills EXCEPT ![fr.ref].phase = "drain",
                                       ![fr.ref].waiters = Await(fr.then)]
             /\ Return(<<>>)
             /\ UNCHANGED outcome
        ELSE /\ Settle({k.job}, "crashed")
             /\ Return(<<[Open(Frame("killEnd"), k.job # None)
                            EXCEPT !.then = fr.then, !.ref = fr.ref]>>)
             /\ UNCHANGED <<kills, killPromise>>
  /\ UNCHANGED <<host, boots, bootEpoch, bootPromise, micro, world>>

\* performKillWorker returns; one that never awaited is recorded only now.
KillEnds ==
  /\ Top("killEnd")
  /\ LET fr == Head(stack) IN
       /\ state' = "failed"
       /\ IF kills[fr.ref].phase = "sync"
          THEN /\ killPromise' = fr.ref
               /\ kills' = [kills EXCEPT ![fr.ref].phase = "ended", ![fr.ref].waiters = Await(fr.then)]
          ELSE /\ kills' = [kills EXCEPT ![fr.ref].phase = "ended"]
               /\ UNCHANGED killPromise
       /\ micro' = Append(micro, Cont("killed", fr.ref))
  /\ Return(<<>>)
  /\ UNCHANGED <<worker, job, active, queue, jobTimer, cancelTimer, boots, bootEpoch, bootPromise,
                 outcome, world>>

(***************************************************************************)
(* Promise continuations, in the order their promises settled.             *)
(***************************************************************************)
Continue(k) == stack = <<>> /\ micro # <<>> /\ Head(micro).k = k

\* start() resumes after the kill it awaited.
ResumeStart ==
  /\ Continue("start")
  /\ micro' = Tail(micro)
  /\ stack' = <<[Frame("startBody") EXCEPT !.then = Head(micro).then]>>
  /\ UNCHANGED <<host, lifecycle, outcome, world>>

ResumeDispatch ==
  /\ Continue("dispatch")
  /\ micro' = Tail(micro)
  /\ stack' = <<Frame("dispatch")>>
  /\ UNCHANGED <<host, lifecycle, outcome, world>>

ResumeTerminate ==
  /\ Continue("terminate")
  /\ micro' = Tail(micro)
  /\ state' = "stopped"
  /\ UNCHANGED <<worker, job, active, queue, jobTimer, cancelTimer, lifecycle, stack, outcome, world>>

ResumeRestart ==
  /\ Continue("restart")
  /\ micro' = Tail(micro)
  /\ bootPromise' = 0
  /\ stack' = <<StartThen("none")>>
  /\ UNCHANGED <<host, kills, killPromise, boots, bootEpoch, outcome, world>>

\* The last captured task settled: the crash is published.
PublishCrash ==
  /\ Continue("publish")
  /\ LET k == Head(micro).ref IN
       /\ Settle({kills[k].job}, "crashed")
       /\ stack' = <<[Open(Frame("killEnd"), kills[k].job # None) EXCEPT !.ref = k]>>
  /\ micro' = Tail(micro)
  /\ UNCHANGED <<host, lifecycle, world>>

KillSettles ==
  /\ Continue("killed")
  /\ LET k == Head(micro).ref IN
       /\ killPromise' = IF killPromise = k THEN 0 ELSE killPromise
       /\ micro' = Tail(micro) \o kills[k].waiters
       /\ kills' = [kills EXCEPT ![k] = [phase |-> "over", job |-> None, tasks |-> {}, waiters |-> <<>>]]
  /\ UNCHANGED <<host, boots, bootEpoch, bootPromise, stack, outcome, world>>

BootSettles ==
  /\ Continue("booted")
  /\ LET e == Head(micro).ref
         current == bootEpoch = e /\ bootPromise = e
     IN /\ boots' = [boots EXCEPT ![e] = [phase |-> IF current THEN "done" ELSE "dead", waiters |-> <<>>]]
        /\ micro' = Tail(micro) \o (IF current THEN boots[e].waiters ELSE <<>>)
  /\ UNCHANGED <<host, kills, killPromise, bootEpoch, bootPromise, stack, outcome, world>>

Run ==
  \/ Start \/ StartBody \/ Dispatch \/ PostExec \/ Defer \/ Finish \/ StartNext
  \/ HardTerminate \/ FinalizeHardCancellation \/ JoinKill \/ PerformKill \/ AwaitTasks \/ KillEnds
  \/ ResumeStart \/ ResumeDispatch \/ ResumeTerminate \/ ResumeRestart
  \/ PublishCrash \/ KillSettles \/ BootSettles

Next ==
  \/ \E j \in Jobs : Exec(j) \/ CancelQueued(j) \/ CancelActive(j)
  \/ StartCall \/ Terminate \/ Restart
  \/ \E e \in DOMAIN boots : PreflightDone(e) \/ Ready(e) \/ BootFails(e)
  \/ BridgeRequest \/ (\E e \in effects : BridgeSettles(e))
  \/ (\E o \in {"completed", "failed", "cancelled"} : Finished(o))
  \/ WorkerFault \/ BeginHardCancellation \/ WallClock
  \/ Run

(***************************************************************************)
(* Fairness: the thread runs what is queued on it, the browser fires the   *)
(* timers and answers the fetch, a booting worker says it is ready or      *)
(* fails, and a bridge call returns.  A job itself may run for ever: the   *)
(* wall clock ends it.                                                     *)
(***************************************************************************)
BootGoesOn == \E e \in DOMAIN boots : PreflightDone(e) \/ Ready(e)
BridgeEnds == \E e \in effects : BridgeSettles(e)
Fairness ==
  /\ WF_vars(Run) /\ WF_vars(WallClock) /\ WF_vars(BeginHardCancellation)
  /\ WF_vars(BootGoesOn) /\ WF_vars(BridgeEnds)

Spec == Init /\ [][Next]_vars
FairSpec == Spec /\ Fairness

(***************************************************************************)
(* Properties.                                                             *)
(***************************************************************************)
JobOrNone == Jobs \union {None}

TypeOK ==
  /\ state \in {"booting", "ready", "busy", "draining", "failed", "stopped"}
  /\ worker \in 0..bootEpoch /\ job \in JobOrNone /\ queue \in Seq(Jobs)
  /\ active.job = job /\ active.deferred \in Settled \union {"none"}
  /\ jobTimer \in JobOrNone /\ cancelTimer \in JobOrNone
  /\ killPromise \in 0..Len(kills) /\ bootPromise \in 0..bootEpoch
  /\ outcome \in [Jobs -> Settled \union {"idle", "pending", "refused"}]
  /\ live \subseteq DOMAIN cell

\* A tool effect a job started through the bridge is over before the job's promise settles:
\* no reviewed mutation happens after a published result (onWorkerMessage, performKillWorker).
EffectsPrecedeResults == \A e \in effects : outcome[e.job] = "pending"

\* Once cancel() has answered true the job ends cancelled, or crashed with its worker; a value
\* it returns, even one deferred behind a bridge call, is never published (onWorkerMessage).
CancellationIsFinal == \A j \in stopped : outcome[j] \in {"pending", "cancelled", "crashed"}

\* The only worker alive is the host's, and the code it runs is that of the unsettled active job:
\* no boot that was overtaken leaves a worker behind and no job runs on after its result (finish).
GuestCodeIsContained ==
  \A w \in live : w = worker /\ (cell[w] = None \/ (cell[w] = job /\ outcome[job] = "pending"))

\* An armed wall clock or cancellation grace is that of the job being run, so that neither fires
\* at a later job (dispatch, cancel, finish, performKillWorker).
TimersBelongToTheJob == jobTimer \in {None, job} /\ cancelTimer \in {None, job}

\* Nothing a job does outlives its result: its tool effects are over, its worker is gone, no timer
\* of it is armed, and a cancelled job's value is never published, whichever of the worker's
\* frame, the timers, cancel, terminate and listeners that call back come together
\* (onWorkerMessage, finish, performKillWorker).
JobsAreContained ==
  /\ EffectsPrecedeResults /\ CancellationIsFinal /\ GuestCodeIsContained /\ TimersBelongToTheJob

\* A promise of exec settles once and keeps its result, whichever of the worker's frame, the
\* timers, cancel() and terminate() come together (finish, performKillWorker, cancel).
SettlesOnce ==
  \A j \in Jobs : outcome[j] \in Settled => outcome'[j] = outcome[j]

\* Nothing is running, pending, armed or booting.
Quiet ==
  /\ Idling /\ effects = {} /\ jobTimer = None /\ cancelTimer = None
  /\ \A e \in DOMAIN boots : boots[e].phase \notin {"preflight", "handshake"} \/ e # bootEpoch

\* A quiet host owes nobody an answer: an admitted job is dispatched or settled, never left in
\* the queue of a host that does nothing more (exec, start, dispatch).
NoJobStranded == Quiet => \A j \in Jobs : outcome[j] # "pending"

\* Every admitted job's promise settles (exec, dispatch, cancel, killWorker).
Owed(j) == outcome[j] = "pending"
AdmittedJobsSettle == \A j \in Jobs : Owed(j) ~> ~Owed(j)

=============================================================================
