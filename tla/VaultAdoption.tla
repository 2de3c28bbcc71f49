---------------------------- MODULE VaultAdoption -----------------------------
(***************************************************************************)
(* vault/runtime-adoption.ts and adoptDurableRuntime of ui/app.tsx: a page *)
(* copies its profile catalog, workspace files and conversations into an   *)
(* encrypted Vault and then moves its runtime over.  An attempt may fail   *)
(* anywhere and be tried again; meanwhile the page goes on writing to the  *)
(* runtime it is leaving and other devices to the Vault.  Every await of   *)
(* an attempt ends a step.                                                 *)
(*                                                                         *)
(* An event is its kind and a value, a digest head the events it commits,  *)
(* a file its revision; fresh values come from one counter.  Of a session  *)
(* record the birth (everything createSession fixes), the title and one    *)
(* device-granted pin are kept; updatedAt follows from the events in the   *)
(* same way on both sides.  A catalog is what a person authored and        *)
(* whether it holds this build's skills.                                   *)
(***************************************************************************)
EXTENDS Integers, FiniteSets, Sequences, SequencesExt

CONSTANTS Sessions,            \* numbers, in listing order
          UserPaths, ControlPaths,
          Vault,               \* what the Vault holds at first: "blank", "filled", "foreign"
          Bootstrap,           \* whether the page's catalog is the one it was born with
          Between, During,     \* the page's writes while no attempt runs, and while one does
          Others,              \* what other devices write to the Vault
          Segment,             \* events of one append
          MaxWrites, MaxFaults, MaxAttempts

AdoptionAssumption ==
  /\ Sessions \subseteq Nat \ {0} /\ Segment \in Nat \ {0}
  /\ Bootstrap \in BOOLEAN

VARIABLES source, target,             \* the sessions of both journals
          sourceFiles, targetFiles,
          sourceCatalog, targetCatalog,
          authority,                  \* the runtime in use: "page" or "vault"
          attempt,                    \* the adoption under way; the fence is up unless it is idle
          running,                    \* sessions of the page with a turn in flight
          writes, faults, attempts

page == <<source, sourceFiles, sourceCatalog, running>>
vault == <<target, targetFiles, targetCatalog>>
vars == <<page, vault, authority, attempt, writes, faults, attempts>>

Files == UserPaths \cup ControlPaths
NoSession == [birth |-> 0, events |-> <<>>, title |-> 0, pin |-> 0]
NoCatalog == [authored |-> 0, skills |-> FALSE, generation |-> 0]
Event(kind, v) == [kind |-> kind, v |-> v]

Idle == [pc |-> "idle", pristine |-> FALSE, listed |-> [s \in Sessions |-> NoSession],
         todo |-> {}, s |-> 0, events |-> <<>>, head |-> <<>>,
         refused |-> [s \in Sessions |-> "none"], files |-> [f \in Files |-> 0],
         paths |-> {}, catalog |-> NoCatalog]

\* A session's birth is its own number; a foreign conversation's is another.
Init ==
  /\ source = [s \in Sessions |-> [NoSession EXCEPT !.birth = s]]
  /\ target = [s \in Sessions |->
       IF Vault = "foreign" /\ s = Min(Sessions) THEN [NoSession EXCEPT !.birth = s + 100] ELSE NoSession]
  /\ sourceFiles = [f \in Files |-> 1]
  /\ targetFiles = [f \in Files |-> IF Vault = "filled" /\ f \in ControlPaths THEN 2 ELSE 0]
  /\ sourceCatalog = [authored |-> 1, skills |-> TRUE, generation |-> 1]
  /\ targetCatalog = IF Vault # "filled" THEN NoCatalog
                     ELSE [authored |-> IF Bootstrap THEN 2 ELSE 1, skills |-> ~Bootstrap, generation |-> 1]
  /\ authority = "page" /\ attempt = Idle /\ running = {}
  /\ writes = 0 /\ faults = 0 /\ attempts = 0

-------------------------------------------------------------------------------
(* What the journals derive from events. *)

Fresh == writes + 10
Renames(events) == {i \in DOMAIN events : events[i].kind = "rename"}

projectedSessionTitle(events, title) ==
  IF Renames(events) = {} THEN title ELSE events[Max(Renames(events))].v

\* An append by the page or a device grants the pins its events name.
Appended(record, e) ==
  [record EXCEPT !.events = Append(@, e),
                 !.title = IF e.kind = "rename" THEN e.v ELSE @,
                 !.pin = IF e.kind = "pin" THEN e.v ELSE @]

\* A replay grants none.
Replayed(record, events) ==
  [record EXCEPT !.events = @ \o events, !.title = projectedSessionTitle(events, @)]

\* recordsUserWork
Touched(events) == \E i \in DOMAIN events : events[i].kind \in {"asked", "ended", "rename"}

-------------------------------------------------------------------------------
(* The page's own writes, and other devices'. *)

Writes(kind) ==
  /\ kind \in (IF attempt.pc = "idle" THEN Between ELSE During)
  /\ writes < MaxWrites /\ writes' = writes + 1
  /\ UNCHANGED <<sourceCatalog, vault, authority, attempt, faults, attempts>>

\* A turn is admitted only outside the fence, but its last event is written
\* when the turn ends, to the journal it began on.
Ask(s) ==
  /\ Writes("asked") /\ authority = "page" /\ s \notin running
  /\ source' = [source EXCEPT ![s] = Appended(@, Event("asked", Fresh))]
  /\ running' = running \cup {s} /\ UNCHANGED sourceFiles

End(s) ==
  /\ Writes("ended") /\ s \in running
  /\ source' = [source EXCEPT ![s] = Appended(@, Event("ended", Fresh))]
  /\ running' = running \ {s} /\ UNCHANGED sourceFiles

Change(s, kind) ==
  /\ Writes(kind) /\ authority = "page"
  /\ source' = [source EXCEPT ![s] = Appended(@, Event(kind, Fresh))]
  /\ UNCHANGED <<running, sourceFiles>>

Edit(f) ==
  /\ Writes("edit") /\ authority = "page"
  /\ sourceFiles' = [sourceFiles EXCEPT ![f] = Fresh]
  /\ UNCHANGED <<running, source>>

Other(kind) ==
  /\ kind \in Others /\ writes < MaxWrites /\ writes' = writes + 1
  /\ UNCHANGED <<page, authority, attempt, faults, attempts>>

OtherDevice ==
  \/ /\ Other("append") /\ UNCHANGED <<targetFiles, targetCatalog>>
     /\ \E s \in Sessions : /\ target[s] # NoSession
                            /\ target' = [target EXCEPT ![s] = Appended(@, Event("asked", Fresh))]
  \/ /\ Other("file") /\ UNCHANGED <<target, targetCatalog>>
     /\ \E f \in Files : targetFiles' = [targetFiles EXCEPT ![f] = Fresh]
  \/ /\ Other("catalog") /\ UNCHANGED <<target, targetFiles>>
     /\ targetCatalog' = [authored |-> Fresh, skills |-> targetCatalog.skills,
                          generation |-> targetCatalog.generation + 1]

-------------------------------------------------------------------------------
(* An attempt. *)

At(pc) == attempt.pc = pc /\ UNCHANGED <<page, writes, attempts>>
Goto(pc) == attempt' = [attempt EXCEPT !.pc = pc]
Fault == faults < MaxFaults /\ faults' = faults + 1

\* Fault: the fence is lowered only behind a successful adoption.
StopBug ==
  attempt' = [attempt EXCEPT !.pc = IF authority = "page" /\ @ # "bind" THEN "stuck" ELSE "idle"]

Stop == attempt' = [attempt EXCEPT !.pc = "idle"]

\* adoptDurableRuntime raises the fence; every turn is aborted, none awaited.
Begin ==
  /\ attempt.pc = "idle" /\ authority = "page"
  /\ attempts < MaxAttempts /\ attempts' = attempts + 1
  /\ attempt' = [Idle EXCEPT !.pc = "pristine"]
  /\ UNCHANGED <<page, vault, authority, writes, faults>>

isPristineBootstrapRuntime ==
  /\ At("pristine")
  /\ attempt' = [attempt EXCEPT !.pc = "catalog", !.pristine =
       (\A f \in UserPaths : sourceFiles[f] = 1) /\ (\A s \in Sessions : ~Touched(source[s].events))]
  /\ UNCHANGED <<vault, authority, faults>>

\* resolveExistingCatalog
Resolve(existing) ==
  IF \/ existing.authored = sourceCatalog.authored /\ existing.skills = sourceCatalog.skills
     \/ Bootstrap /\ attempt.pristine
  THEN attempt' = [attempt EXCEPT !.pc = "reconcile", !.catalog = existing]
  ELSE Stop

Reads(pc) == At(pc) /\ UNCHANGED <<vault, faults, authority>>

LoadCatalog ==
  /\ Reads("catalog")
  /\ IF targetCatalog = NoCatalog THEN Goto("initialize") ELSE Resolve(targetCatalog)

InitializeCatalog ==
  /\ At("initialize") /\ UNCHANGED <<target, targetFiles, faults, authority>>
  /\ IF targetCatalog = NoCatalog
     THEN targetCatalog' = sourceCatalog /\ Goto("blank")
     ELSE UNCHANGED targetCatalog /\ Resolve(targetCatalog)

\* Best effort: a commit that another device's crossed leaves what was read.
reconcileAdoptedProfileCatalog ==
  /\ At("reconcile") /\ Goto("blank")
  /\ IF attempt.catalog.skills \/ targetCatalog # attempt.catalog
     THEN UNCHANGED targetCatalog
     ELSE targetCatalog' = [targetCatalog EXCEPT !.skills = TRUE, !.generation = @ + 1]
  /\ UNCHANGED <<target, targetFiles, faults, authority>>

\* Fault: a pristine page seeds whatever it finds.
TargetIsBlankBug ==
  /\ Reads("blank")
  /\ attempt' = [attempt EXCEPT !.pc = "files", !.paths = UserPaths]

TargetIsBlank ==
  /\ Reads("blank")
  /\ \E blank \in {\A f \in Files : targetFiles[f] = 0} :
       attempt' = IF attempt.pristine /\ ~blank
                  THEN [attempt EXCEPT !.pc = "bind"]
                  ELSE [attempt EXCEPT !.pc = "files", !.paths = IF blank THEN Files ELSE UserPaths]

ReadFiles ==
  /\ Reads("files")
  /\ attempt' = [attempt EXCEPT !.pc = "stable", !.files = sourceFiles]

ListFilesAgain ==
  /\ Reads("stable")
  /\ IF \A f \in attempt.paths : sourceFiles[f] = attempt.files[f] THEN Goto("look") ELSE Stop

LookAtFile ==
  /\ Reads("look")
  /\ IF attempt.paths = {} THEN Goto(IF attempt.pristine THEN "bind" ELSE "list")
     ELSE \E f \in {CHOOSE g \in attempt.paths : TRUE} :
            CASE targetFiles[f] = 0 -> Goto("put")
              [] targetFiles[f] = attempt.files[f] -> attempt' = [attempt EXCEPT !.paths = @ \ {f}]
              [] OTHER -> Stop

\* Fault: the write does not expect the path to be absent.
PutFileBug ==
  /\ At("put") /\ UNCHANGED <<target, targetCatalog, authority, faults>>
  /\ \E f \in {CHOOSE g \in attempt.paths : TRUE} :
       /\ targetFiles' = [targetFiles EXCEPT ![f] = attempt.files[f]]
       /\ attempt' = [attempt EXCEPT !.pc = "look", !.paths = @ \ {f}]

\* A failed write may have landed.
PutFile ==
  /\ At("put") /\ UNCHANGED <<target, targetCatalog, authority>>
  /\ \E f \in {CHOOSE g \in attempt.paths : TRUE}, ok, landed \in BOOLEAN :
       /\ IF ok THEN UNCHANGED faults ELSE Fault
       /\ IF targetFiles[f] = 0 /\ (ok \/ landed)
          THEN targetFiles' = [targetFiles EXCEPT ![f] = attempt.files[f]]
          ELSE UNCHANGED targetFiles
       /\ IF ok /\ targetFiles[f] = 0
          THEN attempt' = [attempt EXCEPT !.pc = "look", !.paths = @ \ {f}]
          ELSE Stop

-------------------------------------------------------------------------------
(* migrateJournalState: every conversation on its own. *)

ListSessions ==
  /\ Reads("list")
  /\ attempt' = [attempt EXCEPT !.pc = "next", !.listed = source, !.todo = Sessions]

\* Fault: the refusals are not reported, and the page moves over without them.
NextSessionBug ==
  /\ Reads("next")
  /\ attempt' = IF attempt.todo = {} THEN [attempt EXCEPT !.pc = "bind"]
                ELSE [attempt EXCEPT !.pc = "read", !.s = Min(attempt.todo), !.todo = @ \ {Min(@)}]

\* Fault: the first refusal ends the loop.
NextSessionStopsBug ==
  /\ Reads("next")
  /\ IF \E s \in Sessions : attempt.refused[s] # "none" THEN Stop
     ELSE attempt' = IF attempt.todo = {} THEN [attempt EXCEPT !.pc = "bind"]
                     ELSE [attempt EXCEPT !.pc = "read", !.s = Min(attempt.todo), !.todo = @ \ {Min(@)}]

NextSession ==
  /\ Reads("next")
  /\ IF attempt.todo # {}
     THEN attempt' = [attempt EXCEPT !.pc = "read", !.s = Min(attempt.todo), !.todo = @ \ {Min(@)}]
     ELSE IF \E s \in Sessions : attempt.refused[s] # "none" THEN Stop ELSE Goto("bind")

Session == attempt.listed[attempt.s]
Refuse(why) == attempt' = [attempt EXCEPT !.pc = "next", !.refused[attempt.s] = why]

\* A call of the Vault that raises: an abort ends the attempt, anything else
\* refuses this conversation.
Raise == Fault /\ (Stop \/ Refuse("failed"))

ReadEvents ==
  /\ Reads("read")
  /\ attempt' = [attempt EXCEPT !.pc = "fresh", !.events = source[attempt.s].events]

GetFresh ==
  /\ Reads("fresh")
  /\ IF source[attempt.s].events = Session.events /\ attempt.events = Session.events
     THEN Goto("existing") ELSE Refuse("changed")

\* Fault: the record part-way along is held against the source's own title.
replayedRecordBug(session, prefix, held) ==
  [session EXCEPT !.title = projectedSessionTitle(prefix, session.title), !.events = prefix, !.pin = held.pin]

replayedRecord(session, prefix, held) ==
  [session EXCEPT !.title = projectedSessionTitle(prefix, held.title), !.events = prefix, !.pin = held.pin]

\* Fault: a matching head is permission enough to take the record for ours.
GetExistingBug ==
  /\ Reads("existing")
  /\ \E existing \in {target[attempt.s]} :
       IF existing = NoSession THEN Goto("create")
       ELSE IF existing.events = Session.events THEN Goto("next")
       ELSE IF IsPrefix(existing.events, Session.events)
       THEN attempt' = [attempt EXCEPT !.pc = "append", !.head = existing.events]
       ELSE Refuse("conflict")

GetExisting ==
  /\ Reads("existing")
  /\ \E existing \in {target[attempt.s]} :
       IF existing = NoSession THEN Goto("create")
       ELSE \E finished \in {existing.events = Session.events} :
         IF existing # IF finished THEN Session
                       ELSE replayedRecord(Session,
                              SubSeq(attempt.events, 1,
                                Min({Len(existing.events), Len(attempt.events)})), existing)
         THEN Refuse("conflict")
         ELSE IF finished THEN Goto("next")
         ELSE attempt' = [attempt EXCEPT !.pc = "append", !.head = existing.events]

Created == [Session EXCEPT !.events = <<>>]

\* createSession refuses a name that is taken.
CreateSession ==
  /\ At("create") /\ UNCHANGED <<targetFiles, targetCatalog, authority>>
  /\ \E ok, landed \in BOOLEAN :
       /\ IF target[attempt.s] = NoSession /\ (ok \/ landed)
          THEN target' = [target EXCEPT ![attempt.s] = Created] ELSE UNCHANGED target
       /\ IF ~ok THEN Raise
          ELSE UNCHANGED faults /\ IF target[attempt.s] = NoSession THEN Goto("created") ELSE Refuse("failed")

GetCreated ==
  /\ Reads("created")
  /\ attempt' = [attempt EXCEPT !.pc = "append", !.head = target[attempt.s].events]

Rest == SubSeq(attempt.events, Len(attempt.head) + 1,
               Min({Len(attempt.head) + Segment, Len(attempt.events)}))

\* One segment of the replay, or the end of it.  The Vault takes a segment
\* only on the head it was read at and on the chain it extends.
AppendSegment ==
  /\ At("append") /\ UNCHANGED <<targetFiles, targetCatalog, authority>>
  /\ IF Len(attempt.head) >= Len(attempt.events)
     THEN /\ UNCHANGED <<target, faults>>
          /\ IF attempt.head = Session.events THEN Goto("next") ELSE Refuse("failed")
     ELSE \E ok, landed \in BOOLEAN,
             taken \in {target[attempt.s].events = attempt.head /\ IsPrefix(attempt.head, attempt.events)} :
       /\ IF taken /\ (ok \/ landed)
          THEN target' = [target EXCEPT ![attempt.s] = Replayed(@, Rest)] ELSE UNCHANGED target
       /\ IF ~ok THEN Raise
          ELSE /\ UNCHANGED faults
               /\ IF taken THEN attempt' = [attempt EXCEPT !.head = @ \o Rest] ELSE Refuse("failed")

\* The adopted workspace is opened, the profile bound and a conversation
\* resumed or created, none of which touches what was copied; then the
\* runtime moves over.
Bind ==
  /\ At("bind") /\ UNCHANGED vault
  /\ Stop
  /\ \/ authority' = "vault" /\ UNCHANGED faults
     \/ UNCHANGED authority /\ Fault

Step ==
  \/ isPristineBootstrapRuntime \/ LoadCatalog \/ InitializeCatalog \/ reconcileAdoptedProfileCatalog
  \/ TargetIsBlank \/ ReadFiles \/ ListFilesAgain \/ LookAtFile \/ PutFile
  \/ ListSessions \/ NextSession \/ ReadEvents \/ GetFresh \/ GetExisting
  \/ CreateSession \/ GetCreated \/ AppendSegment \/ Bind

Next ==
  \/ \E s \in Sessions : Ask(s) \/ End(s) \/ (\E kind \in {"rename", "pin"} : Change(s, kind))
  \/ \E f \in UserPaths : Edit(f)
  \/ OtherDevice \/ Begin \/ Step

Spec == Init /\ [][Next]_vars
\* Every promise an attempt awaits settles, and the event loop runs what follows.
FairSpec == Spec /\ WF_vars(Step)

-------------------------------------------------------------------------------
(* Properties. *)

Record == [birth : Nat, events : Seq([kind : STRING, v : Nat]), title : Nat, pin : Nat]

\* The shape of the state; a conversation that was not refused is this page's.
TypeOK ==
  /\ \A s \in Sessions : source[s] \in Record /\ target[s] \in Record
  /\ sourceFiles \in [Files -> Nat \ {0}] /\ targetFiles \in [Files -> Nat]
  /\ authority \in {"page", "vault"} /\ running \subseteq Sessions
  /\ attempt.s \in Sessions \cup {0} /\ attempt.paths \subseteq Files
  /\ attempt.todo \subseteq Sessions
  /\ attempt.pc \in {"idle", "pristine", "catalog", "initialize", "reconcile", "blank", "files",
       "stable", "look", "put", "list", "next", "read", "fresh", "existing", "create", "created",
       "append", "bind"}
  /\ attempt.pc = "next" /\ attempt.s # 0 /\ attempt.refused[attempt.s] = "none" =>
       target[attempt.s].birth = attempt.s

\* An adoption never overwrites what the Vault holds: no event, no file, no
\* authored catalog, whoever wrote it and however often the adoption is tried.
TargetKeepsItsOwn ==
  attempt' # attempt =>
    /\ \A s \in Sessions : target[s] # NoSession =>
         /\ target'[s].birth = target[s].birth /\ target'[s].pin = target[s].pin
         /\ IsPrefix(target[s].events, target'[s].events)
    /\ \A f \in Files : targetFiles[f] # 0 => targetFiles'[f] = targetFiles[f]
    /\ targetCatalog # NoCatalog => targetCatalog'.authored = targetCatalog.authored

\* A page that moved over left nothing behind of what migrateJournalState
\* listed: each conversation is in the Vault with its own birth and chain.
CarriesWhatItListed ==
  authority = "vault" /\ ~attempt.pristine =>
    \A s \in Sessions : /\ target[s].birth = s
                       /\ IsPrefix(attempt.listed[s].events, target[s].events)

\* A conversation the Vault holds a part or the whole of, from this very
\* chain, is finished or skipped and never refused as a conflicting one.
OwnCopyIsNotRefused ==
  \A s \in Sessions :
    attempt'.refused[s] = "conflict" /\ attempt.refused[s] # "conflict" =>
      \/ target[s].birth # source[s].birth
      \/ ~IsPrefix(target[s].events, source[s].events)

\* When an attempt ends by reporting refusals, every conversation it did not
\* refuse is in the Vault in full.
OneRefusalDoesNotDecide ==
  attempt.pc = "next" /\ attempt'.pc = "idle" =>
    \A s \in Sessions : attempt.refused[s] = "none" =>
      IsPrefix(attempt.listed[s].events, target[s].events)

\* A page nobody has worked on copies no file into a Vault that holds any.
BootstrapYields ==
  attempt' # attempt /\ attempt.pristine /\ (\E f \in ControlPaths : targetFiles[f] = 2) =>
    targetFiles' = targetFiles

\* The fence an attempt raises is lowered again.
FenceIsUp == attempt.pc # "idle"
FenceLifts == FenceIsUp ~> ~FenceIsUp

\* What the page has written by the time it moves over came along.
NothingIsLeftBehind ==
  authority' # authority /\ ~attempt.pristine =>
    \A s \in Sessions : IsPrefix(source[s].events, target[s].events)

\* A Vault that was blank receives the workspace whole.
SeedIsWhole ==
  Vault = "blank" /\ authority = "vault" /\ ~attempt.pristine =>
    \A f \in Files : targetFiles[f] # 0
===============================================================================
