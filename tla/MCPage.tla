--------------------------------- MODULE MCPage ---------------------------------
(***************************************************************************)
(* What the pages of one user do beside their turns, for TLC: instances of *)
(* SessionLibrary (favorites, the active conversation, deletions, forks,   *)
(* re-pins), of ProfileCatalog, of TerminalSession (one terminal tab in    *)
(* several pages) and of TerminalSync (the files all tabs share).  The     *)
(* scenario is chosen at the start and never changes; what it does not use *)
(* is 0.                                                                   *)
(***************************************************************************)
EXTENDS Naturals, TLC

CONSTANTS p1, p2,  \* pages
          a, b, d, \* conversations
          None

VARIABLES scenario, page, used, calls, faults,
          life, log, drawn, lineage, call, seen, turns, voided,
          head,
          lease, task, procs,
          ws, clock, dir, mount, bound, baseline, tab, queue, sync,
          base, touched, adopted, bare, edits, shell

libraryVars == <<life, log, drawn, lineage, call, seen, turns, voided>>
sessionVars == <<lease, task, procs>>
syncVars == <<ws, clock, dir, mount, bound, baseline, tab, queue, sync,
              base, touched, adopted, bare, edits, shell>>
vars == <<scenario, page, used, calls, faults, libraryVars, head, sessionVars, syncVars>>
-------------------------------------------------------------------------------
\* Favorites are dropped, taken up again and moved.
Favorites == INSTANCE SessionLibrary WITH
  Pages <- {p1, p2}, Sessions <- {a, b}, Present <- {a, b}, Starred <- {a, b},
  Operations <- {"star", "unstar", "move"}, Routes <- {}, Attempts <- 3, MaxCalls <- 3,
  MaxStamps <- 5, MaxTurns <- 0, MaxFaults <- 0

\* Three favorites are moved.
Orders == INSTANCE SessionLibrary WITH
  Pages <- {p1, p2}, Sessions <- {a, b, d}, Present <- {a, b, d}, Starred <- {a, b, d},
  Operations <- {"move", "star"}, Routes <- {}, Attempts <- 3, MaxCalls <- 2, MaxStamps <- 5,
  MaxTurns <- 0, MaxFaults <- 0

\* Conversations are chosen and deleted while others write to them.
Active == INSTANCE SessionLibrary WITH
  Pages <- {p1, p2}, Sessions <- {a, b}, Present <- {a, b}, Starred <- {},
  Operations <- {"select", "deleteRow", "delete"}, Routes <- {}, Attempts <- 3, MaxCalls <- 3,
  MaxStamps <- 3, MaxTurns <- 1, MaxFaults <- 1

\* A conversation is inspected and forked while turns are appended to it.
Forks == INSTANCE SessionLibrary WITH
  Pages <- {p1, p2}, Sessions <- {a, b, d}, Present <- {a}, Starred <- {},
  Operations <- {"fork", "inspect"}, Routes <- {}, Attempts <- 3, MaxCalls <- 3, MaxStamps <- 3,
  MaxTurns <- 2, MaxFaults <- 1

\* A conversation is re-pinned between two routes.
RePins == INSTANCE SessionLibrary WITH
  Pages <- {p1, p2}, Sessions <- {a}, Present <- {a}, Starred <- {}, Operations <- {"repin"},
  Routes <- {1, 2}, Attempts <- 3, MaxCalls <- 5, MaxStamps <- 5, MaxTurns <- 1, MaxFaults <- 1

\* A release, one that revises a skill and brings another one and a theme,
\* and one that repaints the theme of every profile.
Old == [themes |-> ("foundry" :> 1) @@ ("nord" :> 0),
        skills |-> ("steward" :> 1) @@ ("loop" :> 0) @@ ("custom" :> 0)]
New == [themes |-> ("foundry" :> 1) @@ ("nord" :> 1),
        skills |-> ("steward" :> 2) @@ ("loop" :> 1) @@ ("custom" :> 0)]
Painted == [New EXCEPT !.themes["foundry"] = 2]

\* Every edit of one page, with lost answers.
Editing == INSTANCE ProfileCatalog WITH
  Pages <- {p1}, Themes <- {"foundry", "nord"}, Skills <- {"steward", "loop", "custom"},
  Custom <- {"custom"}, Profiles <- {"general", "copy"}, First <- "general",
  Theme <- "foundry", Releases <- {Old}, Store <- "vault",
  Edits <- {"mode", "global", "fork", "archive", "upsert", "remove"}, Faults <- {"lost"},
  MaxGeneration <- 7, MaxDigest <- 1, MaxFaults <- 1

\* Two pages of two releases over one Vault, with lost answers and reloads.
Sharing == INSTANCE ProfileCatalog WITH
  Pages <- {p1, p2}, Themes <- {"foundry", "nord"}, Skills <- {"steward", "loop", "custom"},
  Custom <- {"custom"}, Profiles <- {"general", "copy"}, First <- "general",
  Theme <- "foundry", Releases <- {Old, New}, Store <- "vault",
  Edits <- {"save", "global", "upsert"}, Faults <- {"lost", "reload"},
  MaxGeneration <- 4, MaxDigest <- 2, MaxFaults <- 2

\* Three owners of one catalogue in the memory of a page.
InMemory == INSTANCE ProfileCatalog WITH
  Pages <- {p1, p2, "p3"}, Themes <- {"foundry", "nord"}, Skills <- {"steward", "loop", "custom"},
  Custom <- {"custom"}, Profiles <- {"general", "copy"}, First <- "general",
  Theme <- "foundry", Releases <- {Old}, Store <- "memory", Edits <- {"global", "upsert"},
  Faults <- {}, MaxGeneration <- 4, MaxDigest <- 1, MaxFaults <- 0

\* Pages are reloaded with another release.
Upgrades == INSTANCE ProfileCatalog WITH
  Pages <- {p1, p2}, Themes <- {"foundry", "nord"}, Skills <- {"steward", "loop", "custom"},
  Custom <- {"custom"}, Profiles <- {"general"}, First <- "general",
  Theme <- "foundry", Releases <- {Old, New, Painted}, Store <- "vault", Edits <- {"upsert", "save"},
  Faults <- {"reload"}, MaxGeneration <- 4, MaxDigest <- 1, MaxFaults <- 2

\* One page: calls, exit handlers and the handover of the workspace meet one another.
Tab == INSTANCE TerminalSession WITH
  Pages <- {p1}, Slots <- {1, 2}, Procs <- {1, 2},
  Overlap <- {"start", "restart", "close", "quiesce", "quiesceEnd", "exit"}, used <- faults,
  Calls <- {"start", "restart", "close", "quiesce"},
  Faults <- {"spawn", "host", "output", "hang", "storage"},
  MaxCommitAttempts <- 2, MaxFaults <- 2

\* One page, one call at a time, and the heartbeat of its lease.
Heartbeat == INSTANCE TerminalSession WITH
  Pages <- {p1}, Slots <- {1, 2}, Procs <- {1, 2}, Overlap <- {}, used <- faults,
  Calls <- {"start", "restart", "close", "quiesce", "renew"},
  Faults <- {"spawn", "host", "output", "hang", "storage"},
  MaxCommitAttempts <- 2, MaxFaults <- 2

\* Two pages compete for one tab, each with its heartbeat.
Lease == INSTANCE TerminalSession WITH
  Pages <- {p1, p2}, Slots <- {1, 2}, Procs <- {1}, Overlap <- {}, used <- faults,
  Calls <- {"start", "renew"}, Faults <- {"reload", "storage", "output"},
  MaxCommitAttempts <- 2, MaxFaults <- 1

\* ... and each starting again while an exit handler or an earlier start goes on.
Handlers == INSTANCE TerminalSession WITH
  Pages <- {p1, p2}, Slots <- {1, 2}, Procs <- {1}, Overlap <- {"start", "exit"},
  used <- faults, Calls <- {"start"}, Faults <- {"reload"},
  MaxCommitAttempts <- 1, MaxFaults <- 1

\* One tab over two files, from its start to the handover of the workspace.
Life == INSTANCE TerminalSync WITH
  Tabs <- {"t1"}, Paths <- {"a", "b"}, Contents <- {1, 2},
  Kinds <- {"start", "exit", "close", "quiesce"}, Faults <- {"refuse", "storage", "gone"},
  MaxEdits <- 1, MaxShell <- 1, MaxCalls <- 4, MaxFaults <- 1

\* Two tabs share the mount.
Shared == INSTANCE TerminalSync WITH
  Tabs <- {"t1", "t2"}, Paths <- {"a"}, Contents <- {1, 2},
  Kinds <- {"start", "exit", "close", "explicit", "quiesce"},
  Faults <- {"refuse", "storage", "mount"},
  MaxEdits <- 1, MaxShell <- 1, MaxCalls <- 4, MaxFaults <- 1

\* One tab and an operator who reconciles again and again.
Fence == INSTANCE TerminalSync WITH
  Tabs <- {"t1"}, Paths <- {"a", "b"}, Contents <- {1, 2},
  Kinds <- {"start", "exit", "explicit", "retry"}, Faults <- {"mount", "storage"},
  MaxEdits <- 1, MaxShell <- 1, MaxCalls <- 3, MaxFaults <- 1

ASSUME /\ Favorites!LibraryAssumption /\ Orders!LibraryAssumption /\ Active!LibraryAssumption
       /\ Forks!LibraryAssumption /\ RePins!LibraryAssumption
       /\ Editing!CatalogAssumption /\ Sharing!CatalogAssumption
       /\ InMemory!CatalogAssumption /\ Upgrades!CatalogAssumption
       /\ Tab!TerminalAssumption /\ Heartbeat!TerminalAssumption
       /\ Lease!TerminalAssumption /\ Handlers!TerminalAssumption
       /\ Life!SyncAssumption /\ Shared!SyncAssumption /\ Fence!SyncAssumption

Symmetry == Permutations({p1, p2})
-------------------------------------------------------------------------------
NoLibrary ==
  /\ life = 0 /\ log = 0 /\ drawn = 0 /\ lineage = 0 /\ call = 0 /\ seen = 0
  /\ turns = 0 /\ voided = 0
NoSession == lease = 0 /\ task = 0 /\ procs = 0
NoSync ==
  /\ ws = 0 /\ clock = 0 /\ dir = 0 /\ mount = 0 /\ bound = 0 /\ baseline = 0
  /\ tab = 0 /\ queue = 0 /\ sync = 0 /\ base = 0 /\ touched = 0 /\ adopted = 0 /\ bare = 0
  /\ edits = 0 /\ shell = 0

OnlyLibrary == NoSession /\ NoSync /\ head = 0 /\ page = 0 /\ used = 0
OnlyCatalog == NoLibrary /\ NoSession /\ NoSync /\ calls = 0 /\ faults = 0
OnlySession == NoLibrary /\ NoSync /\ head = 0 /\ used = 0 /\ calls = 0
OnlySync == NoLibrary /\ NoSession /\ head = 0 /\ page = 0 /\ faults = 0

Init ==
  \/ scenario = "favorites" /\ Favorites!Init /\ OnlyLibrary
  \/ scenario = "orders" /\ Orders!Init /\ OnlyLibrary
  \/ scenario = "active" /\ Active!Init /\ OnlyLibrary
  \/ scenario = "forks" /\ Forks!Init /\ OnlyLibrary
  \/ scenario = "repins" /\ RePins!Init /\ OnlyLibrary
  \/ scenario = "editing" /\ Editing!Init /\ OnlyCatalog
  \/ scenario = "sharing" /\ Sharing!Init /\ OnlyCatalog
  \/ scenario = "memory" /\ InMemory!Init /\ OnlyCatalog
  \/ scenario = "upgrades" /\ Upgrades!Init /\ OnlyCatalog
  \/ scenario = "tab" /\ Tab!Init /\ OnlySession
  \/ scenario = "heartbeat" /\ Heartbeat!Init /\ OnlySession
  \/ scenario = "lease" /\ Lease!Init /\ OnlySession
  \/ scenario = "handlers" /\ Handlers!Init /\ OnlySession
  \/ scenario = "life" /\ Life!Init /\ OnlySync
  \/ scenario = "shared" /\ Shared!Init /\ OnlySync
  \/ scenario = "fence" /\ Fence!Init /\ OnlySync

Library ==
  /\ \/ scenario = "favorites" /\ Favorites!Next
     \/ scenario = "orders" /\ Orders!Next
     \/ scenario = "active" /\ Active!Next
     \/ scenario = "forks" /\ Forks!Next
     \/ scenario = "repins" /\ RePins!Next
  /\ UNCHANGED <<scenario, page, used, head, sessionVars, syncVars>>
Catalog ==
  /\ \/ scenario = "editing" /\ Editing!Next
     \/ scenario = "sharing" /\ Sharing!Next
     \/ scenario = "memory" /\ InMemory!Next
     \/ scenario = "upgrades" /\ Upgrades!Next
  /\ UNCHANGED <<scenario, calls, faults, libraryVars, sessionVars, syncVars>>
Terminal ==
  /\ \/ scenario = "tab" /\ Tab!Next
     \/ scenario = "heartbeat" /\ Heartbeat!Next
     \/ scenario = "lease" /\ Lease!Next
     \/ scenario = "handlers" /\ Handlers!Next
  /\ UNCHANGED <<scenario, used, calls, head, libraryVars, syncVars>>
Files ==
  /\ \/ scenario = "life" /\ Life!Next
     \/ scenario = "shared" /\ Shared!Next
     \/ scenario = "fence" /\ Fence!Next
  /\ UNCHANGED <<scenario, page, faults, head, libraryVars, sessionVars>>

Next == Library \/ Catalog \/ Terminal \/ Files
Spec == Init /\ [][Next]_vars
-------------------------------------------------------------------------------
(***************************************************************************)
(* A move that nobody raced does what was asked, whatever the clocks say   *)
(* and whatever was moved, dropped or deleted before; and dropping a       *)
(* favorite and taking it up again never brings an old position back       *)
(* (moveFavoriteBefore, favorite-order.ts).                                *)
(***************************************************************************)
MovesLand ==
  /\ [](scenario = "favorites" => Favorites!VoidedMovesAreDead)
  /\ [][scenario = "orders" => Orders!MoveLands]_vars

(***************************************************************************)
(* A deletion discards nothing its caller has not read, and a choice of    *)
(* the active conversation that nobody raced is the one readers find,      *)
(* whatever the clocks say (delete, select, profile-cockpit.ts).           *)
(***************************************************************************)
DeletesWhatWasRead ==
  [][scenario = "active" => Active!DeletesWhatWasRead /\ Active!ChoiceWins]_vars

(***************************************************************************)
(* What a page derives from a log is true of one head of it: a stable      *)
(* inspection is exactly its head, a fork names the last boundary at the   *)
(* head it names, and a re-pin nobody raced is the latest one when it is   *)
(* done (readSnapshot, session-fork.ts, session-repin.ts).                 *)
(***************************************************************************)
DerivedFromOneHead ==
  /\ [](scenario = "forks" => Forks!SnapshotsAgree /\ Forks!ForksDescribeTheirSource)
  /\ [][scenario = "repins" => RePins!RePinNamesRoute]_vars

(***************************************************************************)
(* No commit of the catalogue is overwritten unseen, also after a lost     *)
(* answer; every edit and every stored head is valid and loses no profile; *)
(* a release brings its skills and themes, keeps what people wrote, and    *)
(* writes nothing when there is nothing to bring.  Two exceptions, both    *)
(* stated: a release that repaints a theme some profile is pinned to is    *)
(* refused as a whole, its skills included, and a catalogue that holds a   *)
(* theme of another release is written again at every start (commit,       *)
(* validateProfileCatalog, reconcileBuiltInSkills, reconcileBuiltInThemes).*)
(***************************************************************************)
CatalogIsChained ==
  /\ [](scenario = "editing" => Editing!EditsAreValid /\ Editing!HistoryIsRetained)
  /\ [](scenario = "sharing" => Sharing!CheckpointsAreHeads)
  /\ [][(scenario \in {"sharing", "memory"}) => Sharing!HeadsAreChained]_vars
  /\ [][scenario = "upgrades" => /\ Upgrades!AuthoredSkillsSurviveReleases
                                 /\ Upgrades!BuiltInsArrive
                                 /\ Upgrades!AdoptionIsStill]_vars

(***************************************************************************)
(* No process of a tab is out of reach.  Two pages do not run one for the  *)
(* same tab, whatever reloads, storage faults and late acquisitions come   *)
(* between, unless a release came after a later start of its own page (the *)
(* exit handler's, say).  A process that runs is the one the tab           *)
(* publishes, and a tab is closed, and the mount removed, only when        *)
(* nothing runs or is being spawned.  A start looks at the session before  *)
(* it acquires the lease and not after: excepted are the processes of      *)
(* starts that a stop, a close or another start overtook in between        *)
(* (acquireSessionLease, releaseSessionLease, start, stopSessionForAction, *)
(* processExited, releaseAuthorityWithinLock).                             *)
(***************************************************************************)
ProcessesStayInReach ==
  /\ scenario \in {"lease", "handlers"} => Lease!OneWriter
  /\ scenario \in {"tab", "heartbeat"} => /\ Tab!LiveProcessesArePublished
                                         /\ Tab!UnmountedOnlyWhenQuiet
                                         /\ Tab!ClosedTabsAreStopped

(***************************************************************************)
(* Neither side's work is lost between the workspace and the mount.  Only  *)
(* paths the shell changed are published, unless a mount failed halfway;   *)
(* a revision is written over only if the mount was made from it or an     *)
(* outgoing sync had put it into the baseline; but for the operator's own  *)
(* sync beside live shells, the mount is replaced only when what they left *)
(* is adopted and none runs; and the baseline tells what the mount held,   *)
(* unless a mount failed (syncTerminalWorkspace,                           *)
(* reconcileTerminalWorkspace, mountTerminalWorkspace, runWorkspaceSync,   *)
(* syncWorkspaceForSession).                                               *)
(***************************************************************************)
NoWorkIsLost ==
  /\ [](/\ scenario = "life" => Life!BaselineDescribesMount
        /\ scenario = "shared" => Shared!BaselineDescribesMount
        /\ scenario = "fence" => Fence!BaselineDescribesMount)
  /\ [][/\ scenario = "life" => Life!WorkSurvives
        /\ scenario = "shared" => Shared!WorkSurvives
        /\ scenario = "fence" => Fence!WorkSurvives]_vars
===============================================================================
