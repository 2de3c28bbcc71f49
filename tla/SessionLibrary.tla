---------------------------- MODULE SessionLibrary ----------------------------
(***************************************************************************)
(* The session library (sessions/library.ts, favorite-order.ts,            *)
(* profile-cockpit.ts, session-fork.ts, session-repin.ts): what pages that *)
(* share one journal do to a profile's conversations.  Stars, favourite    *)
(* moves and the active-conversation choice are events in the              *)
(* conversations' own logs, and every reader projects them again; nothing  *)
(* else is shared.  Each journal call is a step, so a projection reads the *)
(* logs one at a time while others write.                                  *)
(*                                                                         *)
(* Abstractions.  The journal keeps the JournalBackend contract; IDs are   *)
(* never used twice, so a head is the length of the log.  An event's       *)
(* recordedAt and random ID are compared together and only with other      *)
(* events: they are one stamp, drawn in any order, because the clocks of   *)
(* two browsers agree on nothing.  All sessions belong to one profile.     *)
(* Renames and setting changes are appends like a turn's.  Audits of a     *)
(* history, manifests, titles, signals and the read-only list are left     *)
(* out.                                                                    *)
(***************************************************************************)
EXTENDS Naturals, Sequences, FiniteSets, SequencesExt, TLC

CONSTANTS Pages, Sessions, None,
          Present,      \* sessions that exist at the start
          Starred,      \* those of them that are favourites
          Operations,   \* the operations pages call
          Routes,       \* routes a page can continue a conversation on
          Attempts,     \* attempts of setFavorite and moveFavoriteBefore
          MaxCalls,     \* bound: calls of all pages
          MaxStamps,    \* bound: preference events
          MaxTurns,     \* bound: turn events of other writers
          MaxFaults     \* bound: journal calls that fail

LibraryAssumption ==
  /\ Starred \subseteq Present /\ Present \subseteq Sessions /\ None \notin Sessions
  /\ Operations \subseteq {"star", "unstar", "move", "select", "delete", "deleteRow",
                           "fork", "inspect", "repin"}
  /\ Attempts \in Nat \ {0} /\ MaxCalls \in Nat /\ MaxTurns \in Nat /\ MaxFaults \in Nat
  /\ MaxStamps \in Nat /\ MaxStamps >= MaxCalls + Cardinality(Starred)

VARIABLES
  life,    \* unborn, live, marked (deleted, ciphertext still to be reclaimed) or gone
  log,     \* the events of each session
  drawn,   \* stamps used
  lineage, \* what a fork's manifest says of its source
  call,    \* what each page is doing
  seen,    \* the logs a page's projection has read
  calls, turns, faults,
  voided   \* history: moves whose item or anchor has changed its membership since

journal == <<life, log, drawn, lineage>>
bounds == <<calls, turns, faults>>
vars == <<journal, call, seen, bounds, voided>>

Stamps == 1..MaxStamps
Idle == [op |-> "none", s |-> None, arg |-> None, pc |-> "idle", tries |-> 0, head |-> 0, to |-> None]
Unread == <<[type |-> "unread"]>>
NoLineage == [source |-> None, head |-> 0, boundary |-> 0]

Created == [type |-> "created"]
Requested == [type |-> "requested"]
Completed == [type |-> "completed"]
Seeded == [type |-> "seeded"]
Favorite(on, at) == [type |-> "favorite", on |-> on, at |-> at]
RePinned(route) == [type |-> "repinned", route |-> route]

\* The logs a reader would find now.
Journal == [s \in {t \in Sessions : life[t] = "live"} |-> log[s]]
-------------------------------------------------------------------------------
(* The projections, of any view: a function from sessions to logs.         *)

OfType(l, t) == {i \in 1..Len(l) : l[i].type = t}
Latest(l, t) == l[CHOOSE i \in OfType(l, t) : \A j \in OfType(l, t) : j <= i]

\* currentMembership: the last membership event decides.
IsFavorite(l) == OfType(l, "favorite") # {} /\ Latest(l, "favorite").on
Members(view) == {s \in DOMAIN view : IsFavorite(view[s])}
Membership(view, s) == Latest(view[s], "favorite").at

Moves(view) ==
  UNION {{[item |-> s] @@ view[s][i] : i \in OfType(view[s], "move")} : s \in DOMAIN view}

\* compareMovesOldestFirst
Older(a, b) == a.gen < b.gen \/ (a.gen = b.gen /\ a.at < b.at)

\* Fault: the membership event of the moved item is not compared.
BoundBug(view, m) ==
  /\ m.item \in Members(view)
  /\ m.before # None =>
       m.before \in Members(view) /\ Membership(view, m.before) = m.anchor

\* A move counts while its item, and its anchor if it has one, are the same members.
Bound(view, m) ==
  /\ m.item \in Members(view) /\ Membership(view, m.item) = m.member
  /\ m.before # None =>
       m.before \in Members(view) /\ Membership(view, m.before) = m.anchor

IndexIn(q, s) == CHOOSE i \in 1..Len(q) : q[i] = s

\* The item leaves its place and goes before its anchor, or to the end.
Placed(q, item, before) ==
  LET rest == SelectSeq(q, LAMBDA s : s # item) IN
  IF before = None THEN Append(rest, item) ELSE InsertAt(rest, IndexIn(rest, before), item)

\* resolveProfileFavoriteOrder: members by stamp, then the moves oldest first.
Order(view) ==
  LET base == SetToSortSeq(Members(view),
                           LAMBDA a, b : Membership(view, a) < Membership(view, b))
      replay == SetToSortSeq(Moves(view), Older)
      Step(q, m) == IF Bound(view, m) THEN Placed(q, m.item, m.before) ELSE q
  IN FoldLeft(Step, base, replay)

\* The generation of the latest move; dropped ones count too.
MoveGeneration(view) ==
  IF Moves(view) = {} THEN 0
  ELSE (CHOOSE m \in Moves(view) : \A n \in Moves(view) : ~Older(m, n)).gen

Selections(view) ==
  UNION {{[host |-> s, gen |-> view[s][i].gen, at |-> view[s][i].at] :
            i \in OfType(view[s], "selected")} : s \in DOMAIN view}

\* resolveProfileActiveConversation: the newest choice; its host is its target.
Pointer(view) ==
  IF Selections(view) = {} THEN [host |-> None, gen |-> 0, at |-> 0]
  ELSE CHOOSE c \in Selections(view) : \A d \in Selections(view) : ~Older(c, d)

\* A turn boundary, where a conversation can be forked.
IsForkBoundary(e) == e.type \in {"created", "completed"}
LastBoundary(l) == LET B == {i \in 1..Len(l) : IsForkBoundary(l[i])} IN
                   IF B = {} THEN 0 ELSE CHOOSE i \in B : \A j \in B : j <= i
-------------------------------------------------------------------------------
Init ==
  /\ life = [s \in Sessions |-> IF s \in Present THEN "live" ELSE "unborn"]
  /\ \E at \in [Starred -> 1..Cardinality(Starred)] :
       /\ \A s, t \in Starred : s # t => at[s] # at[t]
       /\ log = [s \in Sessions |-> CASE s \in Starred -> <<Created, Favorite(TRUE, at[s])>>
                                      [] s \in Present \ Starred -> <<Created>>
                                      [] OTHER -> << >>]
       /\ drawn = {at[s] : s \in Starred}
  /\ lineage = [s \in Sessions |-> NoLineage]
  /\ call = [p \in Pages |-> Idle]
  /\ seen = [p \in Pages |-> << >>]
  /\ calls = 0 /\ turns = 0 /\ faults = 0
  /\ voided = {}

At(p, pc) == call[p].pc = pc
Op(p) == call[p].op
Item(p) == call[p].s
Go(p, pc) == call' = [call EXCEPT ![p].pc = pc]

\* A call ends; what it answered stays to be read until the page's next call.
Ends(p, answer) == call' = [call EXCEPT ![p].pc = answer]
Answers == {"idle", "ok", "unstable", "unknown", "conflict", "refused", "failed", "cleanup"}

FirstStep(o) ==
  CASE o = "move" -> "list"
    [] o = "repin" -> "events"
    [] o = "delete" -> "remove"
    [] OTHER -> "get"

\* A page calls an operation on a conversation it has read.
Begin(p) ==
  /\ call[p].pc \in Answers
  /\ calls < MaxCalls
  /\ \E o \in Operations, s \in {t \in Sessions : life[t] # "unborn"} :
     \E arg \in CASE o = "move" -> Sessions \cup {None}
                  [] o = "repin" -> Routes
                  [] o \in {"select", "fork"} -> {"audited", "unread"}
                  [] OTHER -> {None} :
       call' = [call EXCEPT ![p] = [op |-> o, s |-> s, arg |-> arg, pc |-> FirstStep(o),
                                    tries |-> 1, head |-> Len(log[s]), to |-> None]]
  /\ calls' = calls + 1
  /\ UNCHANGED <<journal, seen, turns, faults, voided>>

\* getSession, the first step of a call; a head the caller did not supply is read here.
GetSession(p) ==
  /\ At(p, "get")
  /\ LET c == call[p]
         now == Len(log[c.s]) IN
     call' = [call EXCEPT ![p] =
       IF life[c.s] # "live" THEN [c EXCEPT !.pc = "unknown"]
       ELSE IF c.arg = "audited" /\ c.head # now THEN [c EXCEPT !.pc = "conflict"]
       ELSE [c EXCEPT !.head = now,
                      !.pc = CASE c.op \in {"star", "unstar", "select"} -> "list"
                               [] c.op = "deleteRow" -> "remove"
                               [] c.op \in {"fork", "inspect"} -> "events"]]
  /\ UNCHANGED <<journal, seen, bounds, voided>>

\* listSessions, the first read of a projection.
ListSessions(p) ==
  /\ At(p, "list")
  /\ seen' = [seen EXCEPT ![p] = [s \in DOMAIN Journal |-> Unread]]
  /\ Go(p, "project")
  /\ UNCHANGED <<journal, bounds, voided>>

\* readEvents of one listed session; one that was deleted meanwhile has none.
ReadEvents(p) ==
  /\ At(p, "project")
  /\ \E s \in {t \in DOMAIN seen[p] : seen[p][t] = Unread} :
       seen' = [seen EXCEPT ![p][s] = IF life[s] = "live" THEN log[s] ELSE << >>]
  /\ UNCHANGED <<journal, call, bounds, voided>>

Projected(p) == At(p, "project") /\ \A s \in DOMAIN seen[p] : seen[p][s] # Unread

\* setFavorite: nothing to do when the projection already says so.
DecideFavorite(p) ==
  /\ Projected(p) /\ Op(p) \in {"star", "unstar"}
  /\ Go(p, IF (Item(p) \in Members(seen[p])) = (Op(p) = "star") THEN "ok" ELSE "head")
  /\ UNCHANGED <<journal, seen, bounds, voided>>

\* moveFavoriteBefore
DecideMove(p) ==
  /\ Projected(p) /\ Op(p) = "move"
  /\ LET item == Item(p)
         before == call[p].arg
         ids == Order(seen[p]) IN
     Go(p, CASE item \notin Range(ids) -> "refused"
             [] item \in Range(ids) /\ before = item -> "ok"
             [] item \in Range(ids) /\ before # item /\ before \notin Range(ids) \cup {None} -> "refused"
             [] OTHER -> IF Placed(ids, item, before) = ids THEN "ok" ELSE "head")
  /\ UNCHANGED <<journal, seen, bounds, voided>>

\* selectProfileActiveConversation: a choice that already holds is only confirmed.
DecideSelect(p) ==
  /\ Projected(p) /\ Op(p) = "select"
  /\ Go(p, IF Pointer(seen[p]).host = Item(p) THEN "confirm" ELSE "commit")
  /\ UNCHANGED <<journal, seen, bounds, voided>>

ConfirmSelect(p) ==
  /\ At(p, "confirm")
  /\ Ends(p, IF life[Item(p)] = "live" /\ Len(log[Item(p)]) = call[p].head THEN "ok" ELSE "conflict")
  /\ UNCHANGED <<journal, seen, bounds, voided>>

\* The read of the head an append commits at (EventJournal.commit).
ReadHead(p) ==
  /\ At(p, "head")
  /\ call' = [call EXCEPT ![p] =
       IF life[Item(p)] = "live" THEN [@ EXCEPT !.head = Len(log[Item(p)]), !.pc = "commit"]
       ELSE [@ EXCEPT !.pc = "unknown"]]
  /\ UNCHANGED <<journal, seen, bounds, voided>>

\* Fault: a choice takes the generation it saw.
DraftBug(p, at) ==
  IF Op(p) = "select" THEN [type |-> "selected", at |-> at, gen |-> Pointer(seen[p]).gen]
  ELSE IF Op(p) = "move"
  THEN [type |-> "move", at |-> at, gen |-> MoveGeneration(seen[p]),
        member |-> Membership(seen[p], Item(p)), before |-> call[p].arg,
        anchor |-> IF call[p].arg = None THEN 0 ELSE Membership(seen[p], call[p].arg)]
  ELSE IF Op(p) = "repin" THEN RePinned(call[p].arg)
  ELSE Favorite(Op(p) = "star", at)

\* The event a call appends, stamped at (nextFavoriteMovePayload, the choice's payload).
Draft(p, at) ==
  LET item == Item(p)
      before == call[p].arg
      view == seen[p] IN
  CASE Op(p) = "star" -> Favorite(TRUE, at)
    [] Op(p) = "unstar" -> Favorite(FALSE, at)
    [] Op(p) = "move" ->
         [type |-> "move", at |-> at, gen |-> MoveGeneration(view) + 1,
          member |-> Membership(view, item), before |-> before,
          anchor |-> IF before = None THEN 0 ELSE Membership(view, before)]
    [] Op(p) = "select" -> [type |-> "selected", at |-> at, gen |-> Pointer(view).gen + 1]
    [] Op(p) = "repin" -> RePinned(call[p].arg)

\* Fault: a removal carries no identity of its own.
StampedBug(o) == o \notin {"repin", "unstar"}

\* Whether the event's stamp is ever compared.
Stamped(o) == o # "repin"

\* Fault: a conflict is retried at the same head, without counting.
RefusedBug(c) ==
  IF c.op \in {"star", "unstar", "move"}
  THEN [c EXCEPT !.pc = "commit"]
  ELSE [c EXCEPT !.pc = "conflict"]

\* What a refused compare-and-set does: setFavorite and moveFavoriteBefore start
\* over until the last attempt, the others give up.
Refused(c) ==
  IF c.op \in {"star", "unstar", "move"} /\ c.tries < Attempts
  THEN [c EXCEPT !.tries = @ + 1, !.pc = FirstStep(c.op)]
  ELSE [c EXCEPT !.pc = "conflict"]

\* The moves a membership event of s puts out of force.
MovesAbout(s) ==
  {m.at : m \in {n \in Moves(Journal) : n.item = s \/ n.before = s}}

\* The compare-and-set of an append.
Commit(p) ==
  /\ At(p, "commit")
  /\ LET s == Item(p)
         free == life[s] = "live" /\ Len(log[s]) = call[p].head IN
     \/ /\ ~free
        /\ call' = [call EXCEPT ![p] =
             IF life[s] = "live" THEN Refused(@) ELSE [@ EXCEPT !.pc = "unknown"]]
        /\ UNCHANGED <<life, log, drawn, lineage, faults, voided>>
     \/ /\ free
        /\ \E at \in IF Stamped(Op(p)) THEN Stamps \ drawn ELSE {0} :
             /\ log' = [log EXCEPT ![s] = Append(@, Draft(p, at))]
             /\ drawn' = drawn \cup ({at} \ {0})
        /\ \/ Ends(p, "ok") /\ UNCHANGED faults
           \/ faults < MaxFaults /\ faults' = faults + 1 /\ Ends(p, "failed")
        /\ voided' = IF Op(p) \in {"star", "unstar"} THEN voided \cup MovesAbout(s) ELSE voided
        /\ UNCHANGED <<life, lineage>>
  /\ seen' = [seen EXCEPT ![p] = << >>]
  /\ UNCHANGED <<calls, turns>>

\* A journal call that fails before it changes anything.
Fails(p) ==
  /\ call[p].pc \notin Answers \cup {"clean"}
  /\ faults < MaxFaults /\ faults' = faults + 1
  /\ Ends(p, "failed")
  /\ UNCHANGED <<journal, seen, calls, turns, voided>>
-------------------------------------------------------------------------------
\* Fault: the head is not compared.
RemoveSessionBug(p) ==
  /\ At(p, "remove")
  /\ LET s == Item(p) IN
     \/ life[s] = "gone" /\ Ends(p, "ok") /\ UNCHANGED life
     \/ life[s] = "marked" /\ Go(p, "clean") /\ UNCHANGED life
     \/ life[s] = "live" /\ life' = [life EXCEPT ![s] = "marked"] /\ Go(p, "clean")
  /\ UNCHANGED <<log, drawn, lineage, seen, bounds, voided>>

\* deleteSession: an unknown or cleaned session is done, a marked one is cleaned,
\* a live one is marked at the head the caller names.
RemoveSession(p) ==
  /\ At(p, "remove")
  /\ LET s == Item(p) IN
     \/ life[s] = "gone" /\ Ends(p, "ok") /\ UNCHANGED life
     \/ life[s] = "marked" /\ Go(p, "clean") /\ UNCHANGED life
     \/ /\ life[s] = "live" /\ Len(log[s]) # call[p].head
        /\ Ends(p, "conflict") /\ UNCHANGED life
     \/ /\ life[s] = "live" /\ Len(log[s]) = call[p].head
        /\ life' = [life EXCEPT ![s] = "marked"]
        /\ Go(p, "clean")
  /\ UNCHANGED <<log, drawn, lineage, seen, bounds, voided>>

\* finishDeletion
Clean(p) ==
  /\ At(p, "clean")
  /\ \/ Ends(p, "ok") /\ life' = [life EXCEPT ![Item(p)] = "gone"] /\ UNCHANGED faults
     \/ faults < MaxFaults /\ faults' = faults + 1 /\ Ends(p, "cleanup") /\ UNCHANGED life
  /\ UNCHANGED <<log, drawn, lineage, seen, calls, turns, voided>>
-------------------------------------------------------------------------------
\* readEvents of the call's own session, for a fork, an inspection or a re-pin.
ReadOwn(p) ==
  /\ At(p, "events")
  /\ seen' = [seen EXCEPT ![p] = [s \in {Item(p)} |-> IF life[s] = "live" THEN log[s] ELSE << >>]]
  /\ Go(p, CASE Op(p) = "fork" -> "stable" [] Op(p) = "inspect" -> "after" [] Op(p) = "repin" -> "route")
  /\ UNCHANGED <<journal, bounds, voided>>

Read(p) == seen[p][Item(p)]

\* Fault: the head is not looked at again.
AfterBug(p) ==
  /\ At(p, "after")
  /\ Ends(p, "ok")
  /\ UNCHANGED <<journal, seen, bounds, voided>>

\* readSnapshot: a second look at the head; two attempts.
After(p) ==
  /\ At(p, "after")
  /\ LET s == Item(p)
         now == Len(log[s]) IN
     call' = [call EXCEPT ![p] =
       IF life[s] # "live" THEN [@ EXCEPT !.pc = "unknown"]
       ELSE IF call[p].head = now THEN [@ EXCEPT !.pc = "ok"]
       ELSE IF call[p].tries < 2 THEN [@ EXCEPT !.pc = "get", !.tries = 2]
       ELSE [@ EXCEPT !.pc = "unstable", !.head = now]]
  /\ UNCHANGED <<journal, seen, bounds, voided>>

Unmoved(p) == life[Item(p)] = "live" /\ Len(log[Item(p)]) = call[p].head

\* Fault: the head is not compared after the events are read.
StableBug(p) ==
  /\ At(p, "stable")
  /\ IF LastBoundary(Read(p)) > 0 THEN Go(p, "create") ELSE Ends(p, "conflict")
  /\ UNCHANGED <<journal, seen, bounds, voided>>

\* forkSession: the head is compared after the events are read; the boundary is the
\* last quiescent event and the prefix must pass the audit.
Stable(p) ==
  /\ At(p, "stable")
  /\ IF Unmoved(p) /\ LastBoundary(Read(p)) > 0 THEN Go(p, "fresh") ELSE Ends(p, "conflict")
  /\ UNCHANGED <<journal, seen, bounds, voided>>

\* The comparison made as late as possible before the new session.
Fresh(p) ==
  /\ At(p, "fresh")
  /\ IF Unmoved(p) THEN Go(p, "create") ELSE Ends(p, "conflict")
  /\ UNCHANGED <<journal, seen, bounds, voided>>

\* createSession, first half: the record with its lineage, at the genesis head.
CreateFork(p) ==
  /\ At(p, "create")
  /\ \E s \in {t \in Sessions : life[t] = "unborn"} :
       /\ life' = [life EXCEPT ![s] = "live"]
       /\ lineage' = [lineage EXCEPT ![s] = [source |-> Item(p), head |-> call[p].head,
                                             boundary |-> LastBoundary(Read(p))]]
       /\ call' = [call EXCEPT ![p].pc = "seed", ![p].to = s]
  /\ UNCHANGED <<log, drawn, seen, bounds, voided>>

\* createSession, second half: creation and seed in one batch, at whatever the head
\* is by then (append reads it); a session deleted meanwhile fails the call.
SeedFork(p) ==
  /\ At(p, "seed")
  /\ LET s == call[p].to IN
     \/ life[s] = "live" /\ log' = [log EXCEPT ![s] = @ \o <<Created, Seeded>>] /\ Ends(p, "ok")
     \/ life[s] # "live" /\ UNCHANGED log /\ Ends(p, "failed")
  /\ UNCHANGED <<life, drawn, lineage, seen, bounds, voided>>

\* Fault: any identical record makes the call a no-op.
DecideRePinBug(p) ==
  /\ At(p, "route")
  /\ LET l == Read(p) IN
     Go(p, IF \E i \in OfType(l, "repinned") : l[i].route = call[p].arg THEN "ok" ELSE "head")
  /\ UNCHANGED <<journal, seen, bounds, voided>>
-------------------------------------------------------------------------------
TurnOpen(l) ==
  \E i \in OfType(l, "requested") : \A j \in OfType(l, "completed") : j < i

\* journalSessionRePin: an identical latest record makes the call a no-op.
DecideRePin(p) ==
  /\ At(p, "route")
  /\ LET l == Read(p) IN
     Go(p, IF OfType(l, "repinned") # {} /\ Latest(l, "repinned").route = call[p].arg
           THEN "ok" ELSE "head")
  /\ UNCHANGED <<journal, seen, bounds, voided>>

\* A turn of another writer begins or ends in a session that has been created.
Turn(s) ==
  /\ life[s] = "live" /\ log[s] # << >> /\ turns < MaxTurns
  /\ log' = [log EXCEPT ![s] =
       Append(@, IF TurnOpen(@) THEN Completed ELSE Requested)]
  /\ turns' = turns + 1
  /\ UNCHANGED <<life, drawn, lineage, call, seen, calls, faults, voided>>

CallStep(p) ==
  \/ GetSession(p) \/ ListSessions(p) \/ ReadEvents(p)
  \/ DecideFavorite(p) \/ DecideMove(p) \/ DecideSelect(p) \/ ConfirmSelect(p)
  \/ ReadHead(p) \/ Commit(p)
  \/ RemoveSession(p) \/ Clean(p)
  \/ ReadOwn(p) \/ After(p) \/ Stable(p) \/ Fresh(p) \/ CreateFork(p) \/ SeedFork(p)
  \/ DecideRePin(p)

Next ==
  \/ \E p \in Pages : Begin(p) \/ CallStep(p) \/ Fails(p)
  \/ \E s \in Sessions : Turn(s)

Spec == Init /\ [][Next]_vars

\* A page that is not closed goes on with the call it is in.
FairSpec == Spec /\ \A p \in Pages : WF_vars(CallStep(p))
-------------------------------------------------------------------------------
TypeOK ==
  /\ life \in [Sessions -> {"unborn", "live", "marked", "gone"}]
  /\ \A s \in Sessions :
       /\ life[s] = "unborn" => log[s] = << >>
       /\ \A i \in 1..Len(log[s]) : "at" \in DOMAIN log[s][i] => log[s][i].at \in drawn
  /\ drawn \subseteq Stamps
  /\ \A p \in Pages : call[p].tries <= Attempts + 1 /\ call[p].head \in Nat
  /\ voided \subseteq drawn
  /\ calls \in 0..MaxCalls /\ turns \in 0..MaxTurns /\ faults \in 0..MaxFaults

Without(view, dead) ==
  [s \in DOMAIN view |-> SelectSeq(view[s], LAMBDA e : e.type = "move" => e.at \notin dead)]

\* Removing a favourite and adding it again never brings an old position back: the
\* order is the one of a journal without the moves whose item or anchor has left or
\* joined the favourites since, whoever wrote what in between (favorite-order.ts).
VoidedMovesAreDead == Order(Journal) = Order(Without(Journal, voided))

\* The membership and move events of a view.
Facts(view) ==
  UNION {{<<s, view[s][i]>> : i \in OfType(view[s], "favorite") \cup OfType(view[s], "move")}
         : s \in DOMAIN view}

\* A move that nobody raced does what was asked, whatever the clocks say and
\* whatever was moved, dropped or deleted before: the item stands right before its
\* anchor, or last, and the others keep their order (library.ts).
MoveLands ==
  \A p \in Pages :
    At(p, "commit") /\ Op(p) = "move" /\ log'[Item(p)] # log[Item(p)]
      /\ call'[p] # call[p] /\ Facts(seen[p]) = Facts(Journal)
    => LET old == Order(Journal)
           new == Order(Journal')
           others(q) == SelectSeq(q, LAMBDA s : s # Item(p))
           at == IndexIn(new, Item(p)) IN
       /\ others(new) = others(old)
       /\ IF call[p].arg = None THEN at = Len(new) ELSE new[at + 1] = call[p].arg

\* A choice of the active conversation that nobody raced is the one readers find,
\* whatever the clocks say (profile-cockpit.ts).
ChoiceWins ==
  \A p \in Pages :
    At(p, "commit") /\ Op(p) = "select" /\ log'[Item(p)] # log[Item(p)]
      /\ call'[p] # call[p] /\ Selections(seen[p]) = Selections(Journal)
    => Pointer(Journal').host = Item(p)

\* An inspection that calls its snapshot stable returns exactly the events of the
\* head it returns (library.ts, readSnapshot).
SnapshotsAgree ==
  \A p \in Pages : Op(p) = "inspect" /\ At(p, "ok") => Len(Read(p)) = call[p].head

\* A fork names the last boundary of the source as it was at the head it names
\* (session-fork.ts).
ForksDescribeTheirSource ==
  \A s \in Sessions : lineage[s].source # None =>
    LET l == log[lineage[s].source] IN
    /\ lineage[s].head <= Len(l)
    /\ lineage[s].boundary = LastBoundary(SubSeq(l, 1, lineage[s].head))

\* A deletion discards nothing that its caller has not read (library.ts, journal.ts).
DeletesWhatWasRead ==
  \A s \in Sessions : life[s] = "live" /\ life'[s] = "marked" =>
    \E p \in Pages : Item(p) = s /\ call[p].head = Len(log[s]) /\ call'[p] # call[p]

\* When a re-pin that nobody raced is done, the latest re-pin record names its route
\* (session-repin.ts).
RePinNamesRoute ==
  \A p \in Pages :
    /\ Op(p) = "repin" /\ ~At(p, "ok") /\ call'[p].pc = "ok" /\ call'[p].op = "repin"
    /\ life[Item(p)] = "live"
    /\ OfType(Read(p), "repinned") = OfType(log[Item(p)], "repinned")
    => Latest(log'[Item(p)], "repinned").route = call[p].arg

\* Every call ends: a conflict is retried a bounded number of times.
Busy(p) == call[p].pc \notin Answers
CallsEnd == \A p \in Pages : Busy(p) ~> ~Busy(p)

\* Deleting again finishes a deletion that was committed and not cleaned up
\* (encrypted-object-journal.ts asks for the retry).
RetryIsNotRefused ==
  \A p \in Pages :
    Op(p) \in {"delete", "deleteRow"} /\ At(p, "unknown") => life[Item(p)] # "marked"

\* When the newest choice was deleted, readers are told that there is none to open
\* and are not given another conversation (profile-cockpit.ts).
DeletedChoiceIsReported ==
  LET newest == Pointer([s \in {t \in Sessions : life[t] # "unborn"} |-> log[s]]).host IN
  newest # None /\ life[newest] # "live" => Pointer(Journal).host = None

\* The first event after a fork's creation is its context seed (SESSION_LIBRARY.md).
ForkSeedComesFirst ==
  \A s \in Sessions :
    lineage[s].source # None /\ Len(log[s]) >= 2 => SubSeq(log[s], 1, 2) = <<Created, Seeded>>
===============================================================================
