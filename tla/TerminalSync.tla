------------------------------ MODULE TerminalSync ------------------------------
(***************************************************************************)
(* The files of the terminal: src/terminal/workspace-sync.ts and the calls *)
(* of it in src/terminal/manager.ts.                                       *)
(*                                                                         *)
(* The workspace is mounted as a copy that the shells of all tabs share.   *)
(* A sync exports the mount, compares it with the baseline of the last     *)
(* sync or mount, checks every change against the workspace, applies the   *)
(* changes and confirms them, one await at a time; a reconcile then also   *)
(* removes the mount and builds it anew.  The Editor saves and deletes     *)
(* files of the workspace between any two awaits.                          *)
(*                                                                         *)
(* Abstractions.  A file is a content and a revision, an absent one has    *)
(* content 0 and revision 0; revisions are numbered in the order they are  *)
(* written.  The tail of the syncs and the lock of the host are one queue. *)
(* A tab makes one call at a time; its process, generation and lease are   *)
(* the subject of TerminalSession.                                         *)
(***************************************************************************)
EXTENDS Naturals, Sequences, FiniteSets

CONSTANTS Tabs, Paths,
          Contents,   \* what a file may hold
          Kinds,      \* the calls that are made
          Faults,     \* what may go wrong
          MaxEdits,   \* bound on what the Editor writes
          MaxShell,   \* bound on what the shells write
          MaxCalls,   \* bound on the calls of tabs and operator
          MaxFaults   \* bound on Faults

SyncAssumption ==
  /\ 0 \notin Contents /\ Contents \subseteq Nat
  /\ Kinds \subseteq {"start", "exit", "close", "explicit", "quiesce", "retry"}
  /\ Faults \subseteq {"refuse", "storage", "mount", "gone"}
  /\ MaxEdits \in Nat /\ MaxShell \in Nat /\ MaxCalls \in Nat /\ MaxFaults \in Nat

VARIABLES ws,        \* the authoritative workspace
          clock,     \* the last revision it has given out
          dir,       \* the directory of the mount exists
          mount,     \* what the mount holds
          bound,     \* this.host and this.baseline are set
          baseline,  \* this.baseline
          tab,       \* status of each tab
          queue,     \* calls waiting for the syncs and the host lock
          sync,      \* the call that holds the lock
          base,      \* history: the revision each mount path comes from
          touched,   \* history: what the shells changed since the last export
          adopted,   \* history: the revision an outgoing sync adopted unmounted, or 0
          bare,      \* history: a mount failed and left the directory without its files
          edits, shell, calls, used

vars == <<ws, clock, dir, mount, bound, baseline, tab, queue, sync,
          base, touched, adopted, bare, edits, shell, calls, used>>

hostVars == <<dir, mount, bound, baseline, tab>>
pastVars == <<adopted, bare>>
counters == <<edits, shell, calls, used>>

NoFile == [content |-> 0, rev |-> 0]
Empty == [p \in Paths |-> 0]
NoOp == [kind |-> "none", tab |-> "none", mode |-> "none"]
NoSync == [pc |-> "idle", op |-> NoOp, exported |-> Empty, touched |-> {},
           todo |-> {}, applied |-> {}, next |-> [p \in Paths |-> NoFile]]

Init ==
  /\ ws \in [Paths -> {NoFile, [content |-> 1, rev |-> 1]}]
  /\ clock = 1
  /\ dir = FALSE /\ mount = Empty
  /\ bound = FALSE /\ baseline = [p \in Paths |-> NoFile]
  /\ tab = [t \in Tabs |-> "idle"]
  /\ queue = <<>> /\ sync = NoSync
  /\ base = Empty /\ touched = {} /\ adopted = Empty /\ bare = FALSE
  /\ edits = 0 /\ shell = 0 /\ calls = 0 /\ used = 0

Fault(f) == f \in Faults /\ used < MaxFaults /\ used' = used + 1 /\ UNCHANGED <<edits, shell, calls>>

(***************************************************************************)
(* The calls.  What a call will do with the mount is decided when it is    *)
(* made, not when its turn comes.                                          *)
(***************************************************************************)

\* Fault: only a running process keeps the mount, not one that is starting.
QuiescentBug(t) == \A o \in Tabs \ {t} : tab[o] # "running"

\* mountIsQuiescent: no other tab holds the mount open.
Quiescent(t) == \A o \in Tabs \ {t} : tab[o] \notin {"running", "starting"}

Mode(t) == IF Quiescent(t) THEN "reconcile" ELSE "outgoing"

At(pc) == sync.pc = pc

Busy(t) == sync.op.tab = t \/ \E i \in DOMAIN queue : queue[i].tab = t

Call(kind, t, mode) ==
  /\ \/ calls < MaxCalls /\ calls' = calls + 1
     \/ /\ "retry" \in Kinds /\ t = "none" /\ queue = <<>> /\ At("idle")
        /\ UNCHANGED calls
  /\ queue' = Append(queue, [kind |-> kind, tab |-> t, mode |-> mode])
  /\ UNCHANGED <<ws, clock, dir, mount, bound, baseline, sync, base, touched, edits, shell, used>>

\* start: the status is set before the host is asked for.
Start(t) ==
  /\ "start" \in Kinds /\ tab[t] = "idle" /\ ~Busy(t)
  /\ Call(IF bound THEN "mounted" ELSE "cold", t, "host")
  /\ tab' = [tab EXCEPT ![t] = "starting"]

\* processExited: the exit handler syncs.
Exit(t) ==
  /\ "exit" \in Kinds /\ tab[t] = "running" /\ ~Busy(t)
  /\ Call("exit", t, Mode(t))
  /\ tab' = [tab EXCEPT ![t] = "idle"]

\* close: stop the process, sync, and only then close the tab.
Close(t) ==
  /\ "close" \in Kinds /\ tab[t] \in {"running", "idle"} /\ ~Busy(t)
  /\ Call("close", t, Mode(t))
  /\ tab' = [tab EXCEPT ![t] = "idle"]

\* syncWorkspace: the operator's Reconcile, also beside a running shell.
Explicit ==
  /\ "explicit" \in Kinds /\ bound
  /\ Call("explicit", "none", "reconcile")
  /\ UNCHANGED tab

Quiesce ==
  /\ "quiesce" \in Kinds
  /\ Call("quiesce", "none", "outgoing")
  /\ UNCHANGED tab

(***************************************************************************)
(* The end of a call.                                                      *)
(***************************************************************************)

\* What the caller does after its sync: spawn, or close the tab.
Settled(op) ==
  CASE op.kind \in {"start", "cold"} /\ tab[op.tab] = "starting" ->
         [tab EXCEPT ![op.tab] = "running"]
    [] op.kind = "close" -> [tab EXCEPT ![op.tab] = "closed"]
    [] OTHER -> tab

\* Fault: a failed sync does not stop quiesce from removing the mount.
FailedBug ==
  /\ sync' = NoSync
  /\ touched' = touched \cup sync.touched
  /\ tab' = IF sync.op.tab \in Tabs /\ tab[sync.op.tab] = "starting"
            THEN [tab EXCEPT ![sync.op.tab] = "idle"] ELSE tab
  /\ bound' = (bound /\ sync.op.kind # "quiesce")
  /\ dir' = (dir /\ sync.op.kind # "quiesce")
  /\ mount' = IF sync.op.kind = "quiesce" THEN Empty ELSE mount
  /\ UNCHANGED <<ws, clock, baseline, queue, base>>

\* Fault: the tab whose start failed stays starting.
FailedSilentBug ==
  /\ sync' = NoSync
  /\ touched' = touched \cup sync.touched
  /\ UNCHANGED <<ws, clock, dir, mount, bound, baseline, tab, queue, base>>

\* A sync that throws: the baseline and the mount stay as they are.
Failed ==
  /\ sync' = NoSync
  /\ touched' = touched \cup sync.touched
  /\ tab' = IF sync.op.tab \in Tabs /\ tab[sync.op.tab] = "starting"
            THEN [tab EXCEPT ![sync.op.tab] = "idle"] ELSE tab
  /\ UNCHANGED <<ws, clock, dir, mount, bound, baseline, queue, base>>

(***************************************************************************)
(* syncTerminalWorkspace.                                                  *)
(***************************************************************************)

Changed(p) == sync.exported[p] # baseline[p].content

\* Creations and modifications come before deletions.
Ready(p) == p \in sync.todo /\ (sync.exported[p] = 0 => \A q \in sync.todo : sync.exported[q] = 0)

StopLive == [t \in Tabs |-> IF tab[t] \in {"running", "starting"} THEN "idle" ELSE tab[t]]

\* The lock is taken; without host and baseline there is nothing to sync.
Export ==
  /\ At("idle") /\ queue # <<>> /\ Head(queue).mode # "host"
  /\ queue' = Tail(queue)
  /\ IF bound /\ dir
     THEN \/ /\ sync' = [NoSync EXCEPT !.pc = "check", !.op = Head(queue), !.exported = mount,
                           !.touched = touched,
                           !.todo = {p \in Paths : mount[p] # baseline[p].content}]
             /\ tab' = IF Head(queue).kind = "quiesce" THEN StopLive ELSE tab
             /\ touched' = {}
             /\ UNCHANGED counters
          \/ /\ Fault("refuse")
             /\ tab' = IF Head(queue).kind = "quiesce" THEN StopLive
                       ELSE IF Head(queue).kind = "start" /\ tab[Head(queue).tab] = "starting"
                       THEN [tab EXCEPT ![Head(queue).tab] = "idle"] ELSE tab
             /\ UNCHANGED <<sync, touched>>
     ELSE /\ tab' = IF Head(queue).kind = "quiesce" THEN StopLive
                    ELSE IF ~bound THEN Settled(Head(queue))
                    ELSE IF Head(queue).kind = "start" /\ tab[Head(queue).tab] = "starting"
                    THEN [tab EXCEPT ![Head(queue).tab] = "idle"] ELSE tab
          /\ UNCHANGED <<sync, touched, counters>>
  /\ UNCHANGED <<ws, clock, dir, mount, bound, baseline, base>>

\* Every change is read before the first one is written.
Check(p) ==
  /\ At("check") /\ Ready(p) /\ UNCHANGED counters
  /\ IF sync.exported[p] = 0 /\ ws[p].rev = 0
     THEN /\ sync' = [sync EXCEPT !.todo = @ \ {p}]
          /\ UNCHANGED <<ws, clock, hostVars, queue, base, touched>>
     ELSE IF ws[p].rev # baseline[p].rev
     THEN Failed
     ELSE /\ sync' = [sync EXCEPT !.todo = @ \ {p}, !.applied = @ \cup {p}]
          /\ UNCHANGED <<ws, clock, hostVars, queue, base, touched>>

Checked ==
  /\ At("check") /\ sync.todo = {}
  /\ sync' = [sync EXCEPT !.pc = "apply", !.todo = sync.applied]
  /\ UNCHANGED <<ws, clock, hostVars, queue, base, touched, counters>>

\* Fault: the write does not name the revision it replaces.
FencedBug(p) == TRUE

\* checkRevision of the workspace: write and remove name the revision they replace.
Fenced(p) == ws[p].rev = baseline[p].rev

\* Fault: a deletion is written as an empty file.
WrittenBug(p) == [content |-> sync.exported[p], rev |-> clock + 1]

Written(p) == IF sync.exported[p] = 0 THEN NoFile
              ELSE [content |-> sync.exported[p], rev |-> clock + 1]

\* workspace.write or workspace.remove; a file already gone is no error.
Apply(p) ==
  /\ At("apply") /\ Ready(p)
  /\ \/ /\ UNCHANGED counters
        /\ IF sync.exported[p] = 0 /\ ws[p].rev = 0
           THEN /\ sync' = [sync EXCEPT !.todo = @ \ {p}]
                /\ UNCHANGED <<ws, clock, hostVars, queue, base, touched>>
           ELSE IF ~Fenced(p)
           THEN Failed
           ELSE /\ ws' = [ws EXCEPT ![p] = Written(p)]
                /\ clock' = IF sync.exported[p] = 0 THEN clock ELSE clock + 1
                /\ base' = [base EXCEPT ![p] = ws'[p].rev]
                /\ sync' = [sync EXCEPT !.todo = @ \ {p}]
                /\ UNCHANGED <<hostVars, queue, touched>>
     \/ Fault("storage") /\ Failed

Applied ==
  /\ At("apply") /\ sync.todo = {}
  /\ sync' = [sync EXCEPT !.pc = "confirm", !.todo = {p \in Paths : sync.exported[p] # 0}]
  /\ UNCHANGED <<ws, clock, hostVars, queue, base, touched, counters>>

\* Fault: the body the workspace holds is adopted, although the mount does not hold it.
BaselineBug(p) ==
  [content |-> IF ws[p].rev # 0 THEN ws[p].content ELSE sync.exported[p],
   rev |-> IF ws[p].rev # 0 THEN ws[p].rev ELSE baseline[p].rev]

\* The next baseline: the body of the mount, the revision of the workspace.
Baseline(p) ==
  [content |-> sync.exported[p],
   rev |-> IF ws[p].rev # 0 THEN ws[p].rev ELSE baseline[p].rev]

Confirm(p) ==
  /\ At("confirm") /\ p \in sync.todo
  /\ \/ /\ UNCHANGED counters
        /\ IF Changed(p) /\ ws[p].content # sync.exported[p]
           THEN Failed
           ELSE /\ sync' = [sync EXCEPT !.todo = @ \ {p}, !.next[p] = Baseline(p)]
                /\ UNCHANGED <<ws, clock, hostVars, queue, base, touched>>
     \/ Fault("storage") /\ Failed

\* The outgoing sync is over; its caller takes the snapshot.
Outgoing ==
  /\ At("confirm") /\ sync.todo = {}
  /\ sync.op.mode = "outgoing" /\ sync.op.kind # "quiesce"
  /\ baseline' = sync.next
  /\ adopted' = [p \in Paths |-> IF sync.next[p].rev = base[p] THEN 0 ELSE sync.next[p].rev]
  /\ sync' = NoSync
  /\ tab' = Settled(sync.op)
  /\ UNCHANGED <<ws, clock, dir, mount, bound, queue, base, touched, bare, counters>>

(***************************************************************************)
(* reconcileTerminalWorkspace and mountTerminalWorkspace.                  *)
(***************************************************************************)

\* host.fs.rm, of a reconcile or at the end of a quiesce.
Unmount ==
  /\ At("confirm") /\ sync.todo = {} /\ UNCHANGED counters
  /\ sync.op.mode = "reconcile" \/ sync.op.kind = "quiesce"
  /\ IF ~bound
     THEN Failed
     ELSE /\ dir' = FALSE /\ mount' = Empty
          /\ IF sync.op.kind = "quiesce"
             THEN /\ bound' = FALSE /\ baseline' = sync.next /\ sync' = NoSync
             ELSE /\ sync' = [sync EXCEPT !.pc = "list"]
                  /\ UNCHANGED <<bound, baseline>>
          /\ UNCHANGED <<ws, clock, tab, queue, base, touched>>

\* ensureHost: a host that is bound is returned, and start goes on to its sync.
EnsureHost ==
  /\ At("idle") /\ queue # <<>> /\ Head(queue).mode = "host"
  /\ IF bound
     THEN /\ queue' = IF Head(queue).kind = "mounted"
                      THEN Append(Tail(queue), [kind |-> "start", tab |-> Head(queue).tab,
                                                mode |-> Mode(Head(queue).tab)])
                      ELSE Tail(queue)
          /\ tab' = IF Head(queue).kind = "cold" THEN Settled(Head(queue)) ELSE tab
          /\ UNCHANGED sync
     ELSE /\ queue' = Tail(queue)
          /\ sync' = [NoSync EXCEPT !.pc = "list", !.op = Head(queue)]
          /\ UNCHANGED tab
  /\ UNCHANGED <<ws, clock, dir, mount, bound, baseline, base, touched, counters>>

\* workspace.list: paths with their revisions.
List ==
  /\ At("list")
  /\ sync' = [sync EXCEPT !.pc = "read", !.next = ws, !.todo = {p \in Paths : ws[p].rev # 0}]
  /\ UNCHANGED <<ws, clock, hostVars, queue, base, touched, counters>>

\* Each listed file is read, and must still have the revision that was listed.
Read(p) ==
  /\ At("read") /\ p \in sync.todo
  /\ \/ /\ UNCHANGED counters
        /\ IF ws[p].rev # sync.next[p].rev
           THEN Failed
           ELSE /\ sync' = [sync EXCEPT !.todo = @ \ {p}]
                /\ UNCHANGED <<ws, clock, hostVars, queue, base, touched>>
     \/ Fault("refuse") /\ Failed

\* Fault: the mount is built, but the baseline stays the one of the sync before it.
SnapshotBug == baseline

\* The snapshot that mountTerminalWorkspace returns.
Snapshot == sync.next

\* mkdir and host.mount; the manager takes host and snapshot.
Mount ==
  /\ At("read") /\ sync.todo = {}
  /\ \/ /\ sync.op.mode = "reconcile" => bound
        /\ UNCHANGED counters
        /\ dir' = TRUE
        /\ mount' = [p \in Paths |-> IF sync.next[p].rev # 0 THEN sync.next[p].content ELSE mount[p]]
        /\ bound' = TRUE /\ baseline' = Snapshot
        /\ base' = [p \in Paths |-> sync.next[p].rev]
        /\ touched' = {} /\ adopted' = Empty /\ bare' = FALSE
        /\ sync' = NoSync
        /\ queue' = IF sync.op.kind = "mounted"
                    THEN Append(queue, [kind |-> "start", tab |-> sync.op.tab, mode |-> Mode(sync.op.tab)])
                    ELSE queue
        /\ tab' = Settled(sync.op)
        /\ UNCHANGED <<ws, clock>>
     \/ /\ sync.op.mode = "reconcile" /\ ~bound
        /\ Failed /\ UNCHANGED <<pastVars, counters>>
     \/ /\ Fault("mount")
        /\ dir' = TRUE /\ bare' = bound /\ sync' = NoSync
        /\ tab' = IF sync.op.tab \in Tabs /\ tab[sync.op.tab] = "starting"
                  THEN [tab EXCEPT ![sync.op.tab] = "idle"] ELSE tab
        /\ UNCHANGED <<ws, clock, mount, bound, baseline, queue, base, touched, adopted>>

(***************************************************************************)
(* The Editor, the shells and the host.                                    *)
(***************************************************************************)

EditorSaves(p, c) ==
  /\ edits < MaxEdits /\ edits' = edits + 1
  /\ ws' = [ws EXCEPT ![p] = [content |-> c, rev |-> clock + 1]]
  /\ clock' = clock + 1
  /\ UNCHANGED <<hostVars, queue, sync, base, touched, shell, calls, used>>

EditorDeletes(p) ==
  /\ edits < MaxEdits /\ edits' = edits + 1 /\ ws[p].rev # 0
  /\ ws' = [ws EXCEPT ![p] = NoFile]
  /\ UNCHANGED <<clock, hostVars, queue, sync, base, touched, shell, calls, used>>

\* A running shell writes a file of the mount, or removes it (content 0).
ShellWrites(p, c) ==
  /\ shell < MaxShell /\ shell' = shell + 1
  /\ dir /\ \E t \in Tabs : tab[t] = "running"
  /\ mount[p] # c
  /\ mount' = [mount EXCEPT ![p] = c]
  /\ touched' = touched \cup {p}
  /\ UNCHANGED <<ws, clock, dir, bound, baseline, tab, queue, sync, base, edits, calls, used>>

\* invalidateHost: the container is gone, and what was not synced with it.
HostGone ==
  /\ bound /\ Fault("gone")
  /\ bound' = FALSE /\ dir' = FALSE /\ mount' = Empty /\ touched' = {}
  /\ tab' = StopLive
  /\ UNCHANGED <<ws, clock, baseline, queue, sync, base>>

SyncStep ==
  \/ Outgoing \/ Mount
  \/ /\ \/ Export \/ Checked \/ Applied \/ Unmount \/ EnsureHost \/ List
        \/ \E p \in Paths : Check(p) \/ Apply(p) \/ Confirm(p) \/ Read(p)
     /\ UNCHANGED pastVars

Outside ==
  \/ \E t \in Tabs : Start(t) \/ Exit(t) \/ Close(t)
  \/ Explicit \/ Quiesce \/ HostGone
  \/ \E p \in Paths : EditorDeletes(p)
  \/ \E p \in Paths, c \in Contents : EditorSaves(p, c)
  \/ \E p \in Paths, c \in Contents \cup {0} : ShellWrites(p, c)

Next == SyncStep \/ (Outside /\ UNCHANGED pastVars)

Spec == Init /\ [][Next]_vars

\* The promises of a sync settle, so each of its steps is eventually taken.
FairSpec == Spec /\ WF_vars(SyncStep)

\* The operator tries again and again to reconcile, and to quiesce.
RetryingSpec == FairSpec /\ SF_vars(Explicit) /\ SF_vars(Quiesce)

(***************************************************************************)
(* Properties.                                                             *)
(***************************************************************************)

TypeOK ==
  /\ ws \in [Paths -> [content : Contents \cup {0}, rev : 0..clock]]
  /\ dir \in BOOLEAN /\ bound \in BOOLEAN
  /\ mount \in [Paths -> Contents \cup {0}]
  /\ baseline \in [Paths -> [content : Contents \cup {0}, rev : 0..clock]]
  /\ tab \in [Tabs -> {"idle", "starting", "running", "closed"}]
  /\ sync.pc \in {"idle", "check", "apply", "confirm", "list", "read"}
  /\ \A p \in Paths : (ws[p].rev = 0) = (ws[p].content = 0)

Publishes(p) == At("apply") /\ edits' = edits /\ ws'[p] # ws[p]

\* Only what a shell changed in the mount is written to the workspace or removed from it: a
\* copy that has merely become old is never published (syncTerminalWorkspace's next
\* baseline).  Excepted are the files that a failed mount left out: the baseline still
\* names them, and the next sync removes them.
OnlyShellChangesArePublished ==
  \A p \in Paths : Publishes(p) => p \in sync.touched \/ (bare /\ sync.exported[p] = 0)

\* A sync replaces or removes a revision only if the copy in the mount was made from it: no
\* save of the Editor is overwritten unseen (syncTerminalWorkspace's expected revisions).
\* Excepted is a revision that an earlier outgoing sync took into the baseline, with the
\* body of the mount.
UnseenRevisionsSurvive ==
  \A p \in Paths : Publishes(p) => ws[p].rev \in {0, base[p], adopted[p]}

\* A sync removes the mount, and the host did not go away by itself.
Removes == dir /\ ~dir' /\ used' = used

\* The mount is removed only when everything the shells wrote to it has been adopted
\* (reconcileTerminalWorkspace, releaseAuthorityWithinLock).  Excepted is the operator's
\* own sync, which runs beside live shells.
ShellWorkIsAdoptedFirst == Removes /\ sync.op.kind # "explicit" => touched' = {}

\* No sync of a tab's life cycle removes the mount under a running shell: the mode is chosen
\* when the call is queued, and the shell of a tab that starts later waits for its own sync
\* behind it (start, mountIsQuiescent).  The operator's own sync does.
LiveShellKeepsItsMount ==
  Removes /\ sync.op.kind # "explicit" => \A t \in Tabs : tab'[t] # "running"

WorkSurvives ==
  /\ OnlyShellChangesArePublished /\ UnseenRevisionsSurvive
  /\ ShellWorkIsAdoptedFirst /\ LiveShellKeepsItsMount

\* Between syncs the baseline describes the mount but for what the shells have changed since:
\* the next export is compared with it.  Excepted is the mount of a failed mount.
BaselineDescribesMount ==
  bound /\ dir /\ At("idle") /\ ~bare =>
    \A p \in Paths \ touched : baseline[p].content = mount[p]

\* A sync refuses a change only if the file was changed by someone else: what
\* an earlier sync of the terminal wrote itself is no conflict.
OwnWritesAreNoConflict ==
  \A p \in Paths : At("check") /\ Check(p) /\ sync' = NoSync => ws[p].rev # base[p]

\* Whatever is queued, a start comes to an end.
Starting(t) == tab[t] = "starting"
StartsSettle == \A t \in Tabs : Starting(t) ~> ~Starting(t)

\* A manager whose mount is gone gets it back, or lets go of the host.
MountComesBack == bound /\ ~dir ~> dir \/ ~bound
================================================================================
