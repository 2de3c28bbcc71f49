---------------------------- MODULE JournalBackend ----------------------------
(***************************************************************************)
(* What every journal backend promises its callers about one conversation  *)
(* (the JournalBackend interface of core/journal.ts, whose reference       *)
(* implementation is MemoryJournalBackend): the conversation is absent or  *)
(* holds one log, the log grows by whole appends and never changes below   *)
(* its head, deleting removes all of it, and a later conversation created  *)
(* under the same ID is a new incarnation with an empty log.               *)
(*                                                                         *)
(* An event digest chains over everything before it, so a head (sequence,  *)
(* digest) identifies the whole log: a log stands for its own head here.   *)
(***************************************************************************)
EXTENDS Naturals, Sequences

CONSTANTS Events,        \* the event batches callers append
          Incarnations   \* tokens that tell apart lives of one session ID

VARIABLES session,       \* the session record and its events
          retired        \* incarnations that have been deleted

vars == <<session, retired>>

Missing == [live |-> FALSE]
Session(inc, log) == [live |-> TRUE, inc |-> inc, log |-> log]

Init == session = Missing /\ retired = {}

\* createSession: refused while a session holds the ID; starts at genesis.
CreateSession ==
  /\ ~session.live
  /\ \E inc \in Incarnations \ retired : session' = Session(inc, << >>)
  /\ UNCHANGED retired

\* append: compare-and-set on the head, so the log only ever grows at its end.
AppendEvents ==
  /\ session.live
  /\ \E e \in Events : session' = Session(session.inc, Append(session.log, e))
  /\ UNCHANGED retired

\* deleteSession: fenced on the head the caller read, removes record and events.
DeleteSession ==
  /\ session.live
  /\ session' = Missing
  /\ retired' = retired \cup {session.inc}

Next == CreateSession \/ AppendEvents \/ DeleteSession

Spec == Init /\ [][Next]_vars
===============================================================================
