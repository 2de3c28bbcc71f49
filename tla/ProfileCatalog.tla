----------------------------- MODULE ProfileCatalog -----------------------------
(***************************************************************************)
(* The profile catalogue: its operations (src/profiles/catalog.ts and the  *)
(* edits of src/ui/app.tsx), its validation and the two stores that hold   *)
(* it (src/profiles/persistence.ts), and the union with the skills and     *)
(* themes a release ships (src/vault/runtime-adoption.ts).                 *)
(*                                                                         *)
(* Several pages of one or more releases open the same catalogue.  A page  *)
(* runs one edit after the other (mutateProfileCatalog's tail): it takes   *)
(* its checkpoint, computes the next catalogue, which is validated and     *)
(* hashed, and commits it if the head is still the checkpoint.             *)
(*                                                                         *)
(* Abstractions.  A theme or skill is its id and a digest, 0 where it is   *)
(* absent; a profile keeps the number of its revision, its theme pin and   *)
(* its skill modes.  The digest of a catalogue is the catalogue.  Editor   *)
(* settings, texts, the order of the lists and size limits are left out.   *)
(***************************************************************************)
EXTENDS Naturals, FiniteSets

CONSTANTS Pages,
          Themes, Skills, Custom,   \* ids; Custom is the authored namespace
          Profiles, First,          \* profile ids, and the one a release seeds
          Theme,                    \* the theme that profile has
          Releases,                 \* what each release ships
          Store,                    \* "memory" or "vault"
          Edits,                    \* the edits people make
          Faults,                   \* what may go wrong
          MaxGeneration,            \* bound on the commits
          MaxDigest,                \* bound on the texts of an authored skill
          MaxFaults                 \* bound on Faults

CatalogAssumption ==
  /\ Custom \subseteq Skills /\ First \in Profiles /\ Theme \in Themes
  /\ Store \in {"memory", "vault"}
  /\ Releases \subseteq [themes : [Themes -> Nat], skills : [Skills -> Nat]]
  /\ \A r \in Releases : r.themes[Theme] # 0 /\ \A s \in Custom : r.skills[s] = 0
  /\ Edits \subseteq {"save", "mode", "global", "fork", "archive", "upsert", "remove"}
  /\ Faults \subseteq {"lost", "reload"}
  /\ MaxGeneration \in Nat /\ MaxDigest \in Nat /\ MaxFaults \in Nat

VARIABLES head,  \* the stored head
          page,  \* what each page does
          used   \* Faults so far

vars == <<head, page, used>>

(***************************************************************************)
(* Catalogues.                                                             *)
(***************************************************************************)

NoProfile == [rev |-> 0, theme |-> Theme, digest |-> 0, modes |-> [s \in Skills |-> "none"]]
NoCatalog == [themes |-> [t \in Themes |-> 0], skills |-> [s \in Skills |-> 0],
              profiles |-> [p \in Profiles |-> NoProfile], archived |-> {}, globals |-> {}]

Held(c) == {p \in Profiles : c.profiles[p].rev # 0}

\* managedProfileRevisions
managed(c) == Held(c) \ c.archived

\* validateProfileCatalog
Valid(c) ==
  /\ \A p \in Held(c) : /\ c.profiles[p].digest # 0
                        /\ c.profiles[p].digest = c.themes[c.profiles[p].theme]
  /\ \A p \in Held(c), s \in Skills : c.profiles[p].modes[s] # "none" => c.skills[s] # 0
  /\ c.globals \subseteq {s \in Skills : c.skills[s] # 0}
  /\ c.archived \subseteq Held(c)
  /\ managed(c) # {}

\* createBuiltInProfileCatalog: one profile, which spells an inherited mode out.
BuiltIn(r) ==
  [themes |-> r.themes, skills |-> r.skills,
   profiles |-> [NoCatalog.profiles EXCEPT ![First] =
     [rev |-> 1, theme |-> Theme, digest |-> r.themes[Theme],
      modes |-> [s \in Skills |-> IF r.skills[s] # 0 THEN "inherit" ELSE "none"]]],
   archived |-> {}, globals |-> {s \in Skills : r.skills[s] # 0}]

Revised(c, p, q) == [c EXCEPT !.profiles[p] = [q EXCEPT !.rev = c.profiles[p].rev + 1]]

\* saveProfileRevision: the theme is pinned at the digest the catalogue holds.
SaveProfile(c, p, t) == Revised(c, p, [c.profiles[p] EXCEPT !.theme = t, !.digest = c.themes[t]])

\* Fault: an inherited mode is stored as undefined instead of being deleted.
SetModeBug(c, p, s, m) ==
  Revised(c, p, [c.profiles[p] EXCEPT !.modes[s] = IF m = "inherit" THEN "undefined" ELSE m])

\* setProfileSkill, whose profileSkillModes deletes the key of an inherited mode.
SetMode(c, p, s, m) ==
  Revised(c, p, [c.profiles[p] EXCEPT !.modes[s] = IF m = "inherit" THEN "none" ELSE m])

\* setGlobalSkill
SetGlobal(c, s) == [c EXCEPT !.globals = @ \cup {s}]

\* forkProfile
Fork(c, p, q) == [c EXCEPT !.profiles[q] = [c.profiles[p] EXCEPT !.rev = 1]]

\* Fault: the archived revision is removed.
ArchiveBug(c, p) == [c EXCEPT !.profiles[p] = NoProfile]

\* archiveProfileRevision: hidden from new work, kept for old conversations.
Archive(c, p) == [c EXCEPT !.archived = @ \cup {p}]

\* upsertAuthoredSkill
Upsert(c, s, d) == [c EXCEPT !.skills[s] = d]

\* skillReferences
skillReferences(c, s) == {p \in managed(c) : c.profiles[p].modes[s] \notin {"none", "inherit"}}

\* A further revision, which does not name the skill.
Unnamed(q, s) == [q EXCEPT !.rev = q.rev + 1, !.modes[s] = "none"]

\* Fault: the modes of archived profiles are forgotten.
RemoveSkillBug(c, s) ==
  [c EXCEPT !.skills[s] = 0, !.globals = @ \ {s},
            !.profiles = [p \in Profiles |->
               IF p \in managed(c) /\ c.profiles[p].modes[s] # "none" THEN Unnamed(c.profiles[p], s) ELSE c.profiles[p]]]

\* removeAuthoredSkill: the skill, its global setting and every mode that names it.
RemoveSkill(c, s) ==
  [c EXCEPT !.skills[s] = 0, !.globals = @ \ {s},
            !.profiles = [p \in Profiles |->
               IF c.profiles[p].modes[s] # "none" THEN Unnamed(c.profiles[p], s) ELSE c.profiles[p]]]

\* What one edit of a person makes of the catalogue the page shows.
Edited(c, e) ==
  CASE e = "save" -> {SaveProfile(c, p, t) : p \in managed(c), t \in {x \in Themes : c.themes[x] # 0}}
    [] e = "mode" -> {SetMode(c, p, s, m) : p \in managed(c), m \in {"inherit", "on"},
                                            s \in {x \in Skills : c.skills[x] # 0}}
    [] e = "global" -> {SetGlobal(c, s) : s \in {x \in Skills : c.skills[x] # 0}}
    [] e = "fork" -> {Fork(c, p, q) : p \in managed(c), q \in Profiles \ Held(c)}
    [] e = "archive" -> {Archive(c, p) : p \in {x \in managed(c) : managed(c) # {x}}}
    [] e = "upsert" -> {Upsert(c, s, d) : s \in Custom, d \in 1..MaxDigest}
    [] e = "remove" -> {RemoveSkill(c, s) : s \in {x \in Custom : c.skills[x] # 0 /\ skillReferences(c, x) = {}}}

\* Fault: a skill this release does not ship is dropped when nothing names it.
ReconcileSkillsBug(c, r) ==
  [c EXCEPT !.skills = [s \in Skills |->
     IF r.skills[s] = 0 /\ (s \in c.globals \/ \E p \in Held(c) : c.profiles[p].modes[s] # "none")
     THEN @[s] ELSE r.skills[s]]]

\* Fault: a skill the catalogue has in an older form keeps it.
ReconcileSkillsOldBug(c, r) ==
  [c EXCEPT !.skills = [s \in Skills |-> IF @[s] = 0 THEN r.skills[s] ELSE @[s]]]

\* reconcileBuiltInSkills: what the release ships is added or replaced.
ReconcileSkills(c, r) ==
  [c EXCEPT !.skills = [s \in Skills |-> IF r.skills[s] # 0 THEN r.skills[s] ELSE @[s]]]

\* reconcileBuiltInThemes, the same for themes.
ReconcileThemes(c, r) ==
  [c EXCEPT !.themes = [t \in Themes |-> IF r.themes[t] # 0 THEN r.themes[t] ELSE @[t]]]

\* Fault: the union is committed whether or not it adds anything.
UnchangedBug(c, r) == FALSE

\* Both return their argument unless something changed; a theme that the
\* release does not ship counts as a change.
Unchanged(c, r) ==
  /\ \A s \in Skills : r.skills[s] \in {0, c.skills[s]}
  /\ \A t \in Themes : r.themes[t] = c.themes[t]

(***************************************************************************)
(* The pages.                                                              *)
(***************************************************************************)

NoHead == [gen |-> 0, prev |-> NoCatalog, catalog |-> NoCatalog, tag |-> 0]
NoRelease == [themes |-> NoCatalog.themes, skills |-> NoCatalog.skills]
Out == [pc |-> "out", kind |-> "none", release |-> NoRelease, checkpoint |-> NoHead, next |-> NoCatalog]

Init == head = NoHead /\ page = [p \in Pages |-> Out] /\ used = 0

Fault(f) == f \in Faults /\ used < MaxFaults /\ used' = used + 1

At(p, pc) == page[p].pc = pc
Goto(p, pc) == page' = [page EXCEPT ![p].pc = pc]
Return(p) == page' = [page EXCEPT ![p].pc = "ready", ![p].next = NoCatalog]

\* A page of some release opens the catalogue: load, and create it if there is none.
Open(p, r) ==
  /\ At(p, "out") /\ head.gen < MaxGeneration
  /\ page' = [page EXCEPT ![p] = IF head.gen = 0
       THEN [Out EXCEPT !.pc = "create", !.release = r]
       ELSE [Out EXCEPT !.pc = "reconcile", !.release = r, !.checkpoint = head]]
  /\ UNCHANGED <<head, used>>

\* Fault: the catalogue is written although another page has created it meanwhile.
CreateBug(p) ==
  /\ At(p, "create")
  /\ head' = [gen |-> 1, prev |-> NoCatalog, catalog |-> BuiltIn(page[p].release), tag |-> head.tag + 1]
  /\ page' = [page EXCEPT ![p].pc = "ready", ![p].checkpoint = head']
  /\ UNCHANGED used

\* initialize: putIfAbsent, or the assignment after a second look.
Create(p) ==
  /\ At(p, "create")
  /\ IF head.gen = 0
     THEN /\ head' = [gen |-> 1, prev |-> NoCatalog, catalog |-> BuiltIn(page[p].release), tag |-> 1]
          /\ page' = [page EXCEPT ![p].pc = "ready", ![p].checkpoint = head']
     ELSE /\ page' = [page EXCEPT ![p].pc = "reconcile", ![p].checkpoint = head]
          /\ UNCHANGED head
  /\ UNCHANGED used

\* reconcileAdoptedProfileCatalog: the union, committed as any other edit.
Reconcile(p) ==
  /\ At(p, "reconcile")
  /\ LET c == page[p].checkpoint.catalog
         r == page[p].release
     IN IF Unchanged(c, r) THEN Return(p)
        ELSE page' = [page EXCEPT ![p].pc = "validate", ![p].kind = "boot",
                        ![p].next = ReconcileThemes(ReconcileSkills(c, r), r)]
  /\ UNCHANGED <<head, used>>

\* mutateProfileCatalog: an edit that changes nothing is not committed.
Edit(p, e) ==
  /\ At(p, "ready") /\ e \in Edits /\ head.gen < MaxGeneration
  /\ \E c \in Edited(page[p].checkpoint.catalog, e) :
       /\ c # page[p].checkpoint.catalog
       /\ page' = [page EXCEPT ![p].pc = "validate", ![p].kind = "edit", ![p].next = c]
  /\ UNCHANGED <<head, used>>

\* Fault: the Vault is written whatever its head is.
CurrentBug(p) == TRUE

\* The head is still the page's checkpoint.
Current(p) == head.tag = page[p].checkpoint.tag

\* commit validates before it writes; the page-memory store looks at its head first.
Validate(p) ==
  /\ At(p, "validate")
  /\ IF Valid(page[p].next) /\ (Store = "memory" => Current(p)) THEN Goto(p, "commit") ELSE Return(p)
  /\ UNCHANGED <<head, used>>

Committed(p) ==
  [gen |-> page[p].checkpoint.gen + 1, prev |-> page[p].checkpoint.catalog,
   catalog |-> page[p].next, tag |-> head.tag + 1]

\* Fault: the tag of the head does not change with its content.
CommitBug(p) ==
  /\ At(p, "commit")
  /\ IF Current(p)
     THEN /\ head' = [Committed(p) EXCEPT !.tag = head.tag]
          /\ page' = [page EXCEPT ![p].pc = "ready", ![p].checkpoint = head', ![p].next = NoCatalog]
     ELSE Return(p) /\ UNCHANGED head
  /\ UNCHANGED used

\* compareAndSwap, or the second look of the page-memory store.
Commit(p) ==
  /\ At(p, "commit")
  /\ IF Current(p)
     THEN /\ head' = Committed(p)
          /\ page' = [page EXCEPT ![p].pc = "ready", ![p].checkpoint = head', ![p].next = NoCatalog]
     ELSE Return(p) /\ UNCHANGED head
  /\ UNCHANGED used

\* The Vault takes the write, and its answer is lost.
CommitLost(p) ==
  /\ At(p, "commit") /\ Store = "vault" /\ Current(p) /\ Fault("lost")
  /\ head' = Committed(p) /\ Return(p)

\* The page is closed or reloaded; a Vault keeps the catalogue.
Reload(p) ==
  /\ page[p].pc # "out" /\ Store = "vault" /\ Fault("reload")
  /\ page' = [page EXCEPT ![p] = Out]
  /\ UNCHANGED head

Step(p) == Create(p) \/ Reconcile(p) \/ Validate(p) \/ Commit(p)

Next ==
  \E p \in Pages :
    \/ Step(p) \/ CommitLost(p) \/ Reload(p)
    \/ \E r \in Releases : Open(p, r)
    \/ \E e \in Edits : Edit(p, e)

Spec == Init /\ [][Next]_vars

(***************************************************************************)
(* Properties.                                                             *)
(***************************************************************************)

Catalogs ==
  [themes : [Themes -> Nat], skills : [Skills -> Nat],
   profiles : [Profiles -> [rev : Nat, theme : Themes, digest : Nat, modes : [Skills -> {"none", "inherit", "on"}]]],
   archived : SUBSET Profiles, globals : SUBSET Skills]

Heads == [gen : Nat, prev : Catalogs, catalog : Catalogs, tag : Nat]

TypeOK ==
  /\ head \in Heads
  /\ page \in [Pages -> [pc : {"out", "create", "reconcile", "validate", "commit", "ready"},
                         kind : {"none", "boot", "edit"},
                         release : [themes : [Themes -> Nat], skills : [Skills -> Nat]],
                         checkpoint : Heads, next : Catalogs]]
  /\ used \in Nat

\* Every new head is one generation after the head it replaces and names that
\* one's digest: no commit, of another page or of this one with a lost answer,
\* is overwritten unseen (commit, initialize).
HeadsAreChained ==
  head' # head => head'.gen = head.gen + 1 /\ head'.prev = head.catalog

\* A page whose checkpoint has the tag of the head holds the head itself.
CheckpointsAreHeads ==
  \A p \in Pages : page[p].checkpoint.tag = head.tag => page[p].checkpoint = head

\* No edit of a person leads to a catalogue that validation refuses: the
\* operations clear together what refers to each other (removeAuthoredSkill).
EditsAreValid ==
  \A p \in Pages : page[p].kind = "edit" /\ page[p].pc \in {"validate", "commit"} => Valid(page[p].next)

\* What is stored can be loaded again: the head passes the validation of
\* openRecord, and a profile that an old conversation names is never lost,
\* only revised or hidden (archiveProfileRevision).
HistoryIsRetained ==
  /\ head.gen # 0 => Valid(head.catalog)
  /\ \A p \in Profiles : head.prev.profiles[p].rev # 0 =>
        head.catalog.profiles[p].rev \in {head.prev.profiles[p].rev, head.prev.profiles[p].rev + 1}

Boots(p) == page[p].kind = "boot" /\ At(p, "commit") /\ head' # head /\ page'[p] # page[p]

\* A release replaces its own skills and no one else's: what a person wrote,
\* and what another release brought, is still there (reconcileBuiltInSkills).
AuthoredSkillsSurviveReleases ==
  \A p \in Pages : Boots(p) =>
    \A s \in Skills : page[p].release.skills[s] = 0 => head'.catalog.skills[s] = head.catalog.skills[s]

\* The release changes a theme that a profile is pinned to.
Repaints(c, r) == \E q \in Held(c) : r.themes[c.profiles[q].theme] \notin {0, c.profiles[q].digest}

\* A page that opens the catalogue with no other writer about has the skills
\* and themes of its release; unless the release repaints a pinned theme:
\* validation refuses that union, and the page goes on with the catalogue as
\* it was, none of the release's skills in it (reconcileAdoptedProfileCatalog,
\* validateProfileCatalog).
BuiltInsArrive ==
  \A p \in Pages :
    /\ page[p].pc \in {"reconcile", "validate", "commit"} /\ page[p].kind # "edit"
    /\ page'[p].pc = "ready" /\ Current(p) /\ used' = used
    => IF Repaints(page[p].checkpoint.catalog, page[p].release)
       THEN page'[p].checkpoint = page[p].checkpoint /\ head' = head
       ELSE /\ \A s \in Skills : page[p].release.skills[s] \in {0, page'[p].checkpoint.catalog.skills[s]}
            /\ \A t \in Themes : page[p].release.themes[t] \in {0, page'[p].checkpoint.catalog.themes[t]}

\* Opening a catalogue that carries what the release ships writes nothing,
\* unless the catalogue holds a theme that the release does not ship, which
\* reconcileBuiltInThemes counts as a change.
AdoptionIsStill ==
  \A p \in Pages : Boots(p) =>
    \/ head'.catalog # head.catalog
    \/ \E t \in Themes : page[p].release.themes[t] = 0 /\ head.catalog.themes[t] # 0
================================================================================
