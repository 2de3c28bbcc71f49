-------------------------- MODULE ConversationProofs --------------------------
(***************************************************************************)
(* Proofs about a conversation's log: the turns of the airship-core engine *)
(* (CoreTurn), for any tabs, replies, decisions, faults and crashes, and   *)
(* the session library (SessionLibrary), for any pages, conversations and  *)
(* calls.  Each part stands alone; the names that both use (log, faults,   *)
(* MaxFaults) mean what they mean in the specification a theorem starts    *)
(* from.                                                                   *)
(*                                                                         *)
(* What a preflight saw still holds at its admission because the admission *)
(* names the head of the snapshot and the journal only grows: as long as   *)
(* that head is the length of the log, nothing was written since           *)
(* (Preflights, Claim).  A turn that runs is the one whose request is the  *)
(* newest and has no end after it (Holders), so two never run and what it  *)
(* writes lies inside it (Journal).                                        *)
(*                                                                         *)
(* The same reason makes the library's reads agree: logs only grow, and a  *)
(* deleted conversation does not come back (Onward), so a head that is the *)
(* same before and after a read is the head of what was read (OwnRead).    *)
(* A choice that nobody raced names a generation above all others, because *)
(* what a page reads, log by log, are beginnings of the logs (ChoiceInv).  *)
(***************************************************************************)
EXTENDS CoreTurn, WellFoundedInduction, TLAPS

IsSeq(s) == \E S : s \in Seq(S)

Selects == "prime.runtime-selected"
Asks == "turn.requested"
Ends == {"turn.completed", "turn.failed", "turn.cancelled"}

\* The pcs of a turn that was admitted and has not thrown or ended.
Running == {"admitted", "selected", "noting", "stepping", "requesting", "inferring",
            "batch", "review", "executing"}
Early == {"new", "snapshot", "checked"}

\* Turn t has the newest request, and nothing has ended since.
Holds(t) ==
  \E i \in 1..Len(log) :
    /\ log[i].type = Asks /\ log[i].turn = t
    /\ \A j \in (i + 1)..Len(log) : log[j].type # Asks /\ log[j].type \notin Ends

Ended(t) == \E i \in 1..Len(log) : log[i].type \in Ends /\ log[i].turn = t

\* What a preflight demands: no claim of the other engine, and every request has its end.
Unclaimed == \A i \in 1..Len(log) : log[i].type # Selects
Unstarted == \A i \in 1..Len(log) : log[i].type # Asks
AllEnded ==
  \A i \in 1..Len(log) : log[i].type = Asks =>
    \E k \in i..Len(log) : log[k].type \in Ends /\ log[k].turn = log[i].turn

(* The journal, in the words of its positions. *)
Overlapless ==
  \A i, j \in 1..Len(log) : i < j /\ log[i].type = Asks /\ log[j].type = Asks =>
    /\ log[i].turn # log[j].turn
    /\ \E k \in i..j : log[k].type \in Ends /\ log[k].turn = log[i].turn

Bracketed ==
  \A k \in 1..Len(log) : log[k].turn # 0 =>
    \E i \in 1..k :
      /\ log[i].type = Asks /\ log[i].turn = log[k].turn
      /\ \A j \in (i + 1)..k : log[j].type # Asks
      /\ \A j \in i..(k - 1) : log[j].type \notin Ends

\* If anything was requested, some request is the newest.
HasNewest ==
  Unstarted \/ \E i \in 1..Len(log) :
                 log[i].type = Asks /\ \A j \in (i + 1)..Len(log) : log[j].type # Asks

Journal ==
  /\ IsSeq(log)
  /\ Unclaimed \/ Unstarted
  /\ Overlapless /\ Bracketed /\ HasNewest

(* The turns and the other engine, against the journal. *)
TurnRecords ==
  /\ turn = [t \in Turns |-> turn[t]]
  /\ \A t \in Turns : "pc" \in DOMAIN turn[t] /\ "head" \in DOMAIN turn[t]

Preflights ==
  \A t \in Turns :
    /\ turn[t].head \in 0..Len(log)
    /\ turn[t].pc \in Early => \A i \in 1..Len(log) : log[i].turn # t
    /\ turn[t].pc = "checked" /\ turn[t].head = Len(log) => Unclaimed /\ AllEnded

Holders ==
  \A t \in Turns :
    /\ turn[t].pc \in Running => Holds(t)
    /\ turn[t].pc = "catch" => Holds(t) \/ Ended(t)

Claim ==
  /\ prime.head \in 0..Len(log)
  /\ prime.claiming /\ prime.head = Len(log) => Unstarted

TurnInv == Journal /\ TurnRecords /\ Preflights /\ Holders /\ Claim
-------------------------------------------------------------------------------
\* What appending does to a sequence.
LEMMA Appended ==
  ASSUME NEW s, NEW e, IsSeq(s), IsSeq(e)
  PROVE  /\ IsSeq(s \o e) /\ Len(s) \in Nat /\ Len(e) \in Nat
         /\ Len(s \o e) = Len(s) + Len(e)
         /\ \A i \in 1..Len(s) : (s \o e)[i] = s[i]
         /\ \A i \in 1..Len(e) : (s \o e)[Len(s) + i] = e[i]
         /\ \A i \in (Len(s) + 1)..(Len(s) + Len(e)) :
              i - Len(s) \in 1..Len(e) /\ (s \o e)[i] = e[i - Len(s)]
<1>1. PICK S : s \in Seq(S)
  BY DEF IsSeq
<1>2. PICK T : e \in Seq(T)
  BY DEF IsSeq
<1>3. s \in Seq(S \cup T) /\ e \in Seq(S \cup T)
  BY <1>1, <1>2
<1>4. s \o e \in Seq(S \cup T)
  BY <1>3
<1> QED BY <1>3, <1>4 DEF IsSeq

LEMMA LogLength ==
  ASSUME IsSeq(log)
  PROVE  Len(log) \in Nat /\ DOMAIN log = 1..Len(log)
BY DEF IsSeq

\* At most one turn holds the journal.
LEMMA OneHolder ==
  ASSUME IsSeq(log), NEW t, NEW u, Holds(t), Holds(u)
  PROVE  t = u
<1>1. PICK i \in 1..Len(log) :
        /\ log[i].type = Asks /\ log[i].turn = t
        /\ \A j \in (i + 1)..Len(log) : log[j].type # Asks
  BY DEF Holds
<1>2. PICK k \in 1..Len(log) :
        /\ log[k].type = Asks /\ log[k].turn = u
        /\ \A j \in (k + 1)..Len(log) : log[j].type # Asks
  BY DEF Holds
<1>3. Len(log) \in Nat
  BY LogLength
<1>4. ~(i < k) /\ ~(k < i)
  BY <1>1, <1>2, <1>3
<1> QED BY <1>1, <1>2, <1>3, <1>4

\* A turn that holds the journal has not ended.
LEMMA HolderIsOpen ==
  ASSUME Journal, NEW t \in Turns, CoreAssumption, Holds(t)
  PROVE  Unclaimed /\ ~Ended(t)
<1>1. PICK i \in 1..Len(log) :
        /\ log[i].type = Asks /\ log[i].turn = t
        /\ \A j \in (i + 1)..Len(log) : log[j].type # Asks /\ log[j].type \notin Ends
  BY DEF Holds
<1>2. Unclaimed
  BY <1>1 DEF Journal, Unstarted
<1>3. ASSUME NEW k \in 1..Len(log), log[k].type \in Ends, log[k].turn = t
      PROVE  FALSE
  <2>1. t # 0 /\ Len(log) \in Nat
    BY LogLength DEF CoreAssumption, Journal
  <2>2. k <= i
    BY <1>1, <1>3, <2>1
  <2>3. PICK h \in 1..k :
          /\ log[h].type = Asks /\ log[h].turn = log[k].turn
          /\ \A j \in (h + 1)..k : log[j].type # Asks
    BY <1>3, <2>1 DEF Journal, Bracketed
  <2>4. log[k].type # Asks
    BY <1>3 DEF Ends, Asks
  <2>5. h < i
    BY <2>1, <2>2, <2>3, <2>4, <1>1
  <2>6. log[h].turn # log[i].turn
    BY <2>1, <2>2, <2>3, <2>5, <1>1 DEF Journal, Overlapless
  <2> QED BY <2>3, <2>6, <1>3, <1>1
<1> QED BY <1>2, <1>3 DEF Ended
-------------------------------------------------------------------------------
(* How the journal grows. *)

\* What is appended leaves everything before it as it was.
Grown == /\ IsSeq(log) /\ IsSeq(log') /\ Len(log) \in Nat /\ Len(log') \in Nat
         /\ Len(log) < Len(log')
         /\ \A i \in 1..Len(log) : log'[i] = log[i]

LEMMA Grows ==
  ASSUME IsSeq(log), NEW events, IsSeq(events), Len(events) > 0, log' = log \o events
  PROVE  /\ Grown
         /\ \A i \in (Len(log) + 1)..Len(log') :
              i - Len(log) \in 1..Len(events) /\ log'[i] = events[i - Len(log)]
         /\ Len(log') = Len(log) + Len(events)
BY Appended DEF Grown

LEMMA GrowsByOne ==
  ASSUME IsSeq(log), NEW e, log' = log \o <<e>>
  PROVE  /\ Grown /\ Len(log') = Len(log) + 1 /\ log'[Len(log) + 1] = e
         /\ \A i \in 1..Len(log') : i \in 1..Len(log) \/ (i = Len(log) + 1 /\ log'[i] = e)
<1> DEFINE events == <<e>>
<1>1. IsSeq(events) /\ Len(events) = 1 /\ events[1] = e /\ log' = log \o events
  <2>1. events \in Seq({e})
    OBVIOUS
  <2> QED BY <2>1 DEF IsSeq
<1> HIDE DEF events
<1>2. /\ Grown /\ Len(log') = Len(log) + 1
      /\ \A i \in (Len(log) + 1)..Len(log') : log'[i] = events[i - Len(log)]
  BY <1>1, Grows
<1>3. Len(log) + 1 \in (Len(log) + 1)..Len(log') /\ Len(log) + 1 - Len(log) = 1
  BY <1>2 DEF Grown
<1>4. log'[Len(log) + 1] = e
  BY <1>1, <1>2, <1>3
<1> QED BY <1>2, <1>4 DEF Grown

\* What lay inside its turn still does.
LEMMA OldBrackets ==
  ASSUME Bracketed, Grown, NEW k \in 1..Len(log), log'[k].turn # 0
  PROVE  \E i \in 1..k :
           /\ log'[i].type = Asks /\ log'[i].turn = log'[k].turn
           /\ \A j \in (i + 1)..k : log'[j].type # Asks
           /\ \A j \in i..(k - 1) : log'[j].type \notin Ends
<1>1. PICK i \in 1..k :
        /\ log[i].type = Asks /\ log[i].turn = log[k].turn
        /\ \A j \in (i + 1)..k : log[j].type # Asks
        /\ \A j \in i..(k - 1) : log[j].type \notin Ends
  BY DEF Bracketed, Grown
<1>2. \A j \in i..k : j \in 1..Len(log)
  BY DEF Grown
<1> QED BY <1>1, <1>2 DEF Grown

\* A record outside any turn.
LEMMA OutsideRecord ==
  ASSUME Journal, NEW e, log' = log \o <<e>>,
         e.turn = 0, e.type # Asks, e.type \notin Ends,
         e.type = Selects => Unstarted
  PROVE  /\ Journal' /\ Grown
         /\ \A i \in 1..Len(log') : i \in 1..Len(log) \/ log'[i] = e
         /\ \A t : Holds(t) => Holds(t)'
         /\ \A t : Ended(t) => Ended(t)'
<1>1. /\ Grown /\ Len(log') = Len(log) + 1 /\ log'[Len(log) + 1] = e
      /\ \A i \in 1..Len(log') : i \in 1..Len(log) \/ (i = Len(log) + 1 /\ log'[i] = e)
  BY GrowsByOne DEF Journal
<1>2. \A i \in 1..Len(log') :
        \/ i \in 1..Len(log)
        \/ /\ i > Len(log) /\ log'[i] = e /\ log'[i].turn = 0
           /\ log'[i].type # Asks /\ log'[i].type \notin Ends
  BY <1>1 DEF Grown
<1>3. (Unclaimed \/ Unstarted)'
  BY <1>1, <1>2 DEF Journal, Grown, Unclaimed, Unstarted
<1>4. Overlapless'
  BY <1>1, <1>2 DEF Journal, Grown, Overlapless
<1>5. Bracketed'
  <2>1. \A k \in 1..Len(log') : log'[k].turn # 0 => k \in 1..Len(log)
    BY <1>2
  <2> QED BY <1>1, <2>1, OldBrackets DEF Journal, Bracketed
<1>6. HasNewest'
  <2>1. CASE Unstarted
    BY <1>1, <1>2, <2>1 DEF Grown, HasNewest, Unstarted
  <2>2. CASE ~Unstarted
    <3>1. PICK i \in 1..Len(log) :
            log[i].type = Asks /\ \A j \in (i + 1)..Len(log) : log[j].type # Asks
      BY <2>2 DEF Journal, HasNewest
    <3>2. i \in 1..Len(log') /\ log'[i].type = Asks
      BY <1>1, <3>1 DEF Grown
    <3>3. \A j \in (i + 1)..Len(log') : log'[j].type # Asks
      BY <1>1, <1>2, <3>1 DEF Grown
    <3> QED BY <3>2, <3>3 DEF HasNewest
  <2> QED BY <2>1, <2>2
<1>7. ASSUME NEW t, Holds(t) PROVE Holds(t)'
  BY <1>1, <1>2, <1>7 DEF Grown, Holds
<1>8. ASSUME NEW t, Ended(t) PROVE Ended(t)'
  BY <1>1, <1>8 DEF Grown, Ended
<1> QED BY <1>1, <1>2, <1>3, <1>4, <1>5, <1>6, <1>7, <1>8 DEF Journal, Grown

\* The request that admits a turn.
LEMMA Admission ==
  ASSUME Journal, Unclaimed, AllEnded, NEW t, NEW e, log' = log \o <<e>>,
         e.type = Asks, e.turn = t, \A i \in 1..Len(log) : log[i].turn # t
  PROVE  /\ Journal' /\ Grown /\ Holds(t)'
         /\ \A i \in 1..Len(log') : i \in 1..Len(log) \/ log'[i].turn = t
         /\ \A u : Ended(u) => Ended(u)'
<1>1. Grown /\ Len(log') = Len(log) + 1 /\ log'[Len(log) + 1] = e
  BY GrowsByOne DEF Journal
<1>2. \A i \in 1..Len(log') : i \in 1..Len(log) \/ (i = Len(log) + 1 /\ log'[i] = e)
  BY GrowsByOne DEF Journal
<1>3. (Unclaimed \/ Unstarted)'
  <2>1. e.type # Selects
    BY DEF Asks, Selects
  <2> QED BY <1>1, <1>2, <2>1 DEF Grown, Unclaimed
<1>4. Overlapless'
  <2>1. SUFFICES ASSUME NEW i \in 1..Len(log'), NEW j \in 1..Len(log'), i < j,
                        log'[i].type = Asks, log'[j].type = Asks
                 PROVE  /\ log'[i].turn # log'[j].turn
                        /\ \E k \in i..j : log'[k].type \in Ends /\ log'[k].turn = log'[i].turn
    BY DEF Overlapless
  <2>2. i \in 1..Len(log) /\ log'[i] = log[i]
    BY <1>1, <1>2, <2>1 DEF Grown
  <2>3. CASE j \in 1..Len(log)
    <3>1. log'[j] = log[j] /\ i < j
      BY <1>1, <2>1, <2>3 DEF Grown
    <3>2. PICK k \in i..j : log[k].type \in Ends /\ log[k].turn = log[i].turn
      BY <2>1, <2>2, <2>3, <3>1 DEF Journal, Overlapless
    <3>3. k \in 1..Len(log) /\ log'[k] = log[k]
      BY <1>1, <2>2, <2>3, <3>2 DEF Grown
    <3>4. log[i].turn # log[j].turn
      BY <2>1, <2>2, <2>3, <3>1 DEF Journal, Overlapless
    <3> QED BY <2>2, <3>1, <3>2, <3>3, <3>4
  <2>4. CASE j = Len(log) + 1 /\ log'[j] = e
    <3>1. PICK k \in i..Len(log) : log[k].type \in Ends /\ log[k].turn = log[i].turn
      BY <2>1, <2>2 DEF AllEnded
    <3>2. k \in i..j /\ log'[k] = log[k]
      BY <1>1, <2>2, <2>4, <3>1 DEF Grown
    <3> QED BY <2>2, <2>4, <3>1, <3>2
  <2> QED BY <1>2, <2>3, <2>4
<1>5. Bracketed'
  <2>1. SUFFICES ASSUME NEW k \in 1..Len(log'), log'[k].turn # 0
                 PROVE  \E i \in 1..k :
                          /\ log'[i].type = Asks /\ log'[i].turn = log'[k].turn
                          /\ \A j \in (i + 1)..k : log'[j].type # Asks
                          /\ \A j \in i..(k - 1) : log'[j].type \notin Ends
    BY DEF Bracketed
  <2>2. CASE k \in 1..Len(log)
    BY <1>1, <2>1, <2>2, OldBrackets DEF Journal
  <2>3. CASE k = Len(log) + 1 /\ log'[k] = e
    BY <1>1, <2>3 DEF Grown
  <2> QED BY <1>2, <2>2, <2>3
<1>6. Holds(t)'
  BY <1>1 DEF Grown, Holds
<1>7. HasNewest'
  BY <1>6 DEF HasNewest, Holds
<1>8. ASSUME NEW u, Ended(u) PROVE Ended(u)'
  BY <1>1, <1>8 DEF Grown, Ended
<1> QED BY <1>1, <1>2, <1>3, <1>4, <1>5, <1>6, <1>7, <1>8 DEF Journal, Grown

\* Records of the turn that holds the journal; only the last may end it.
Records(t, events) ==
  /\ IsSeq(events) /\ Len(events) > 0
  /\ \A n \in 1..Len(events) :
       /\ events[n].turn = t /\ events[n].type # Asks /\ events[n].type # Selects
       /\ n < Len(events) => events[n].type \notin Ends

LEMMA InsideRecords ==
  ASSUME Journal, CoreAssumption, NEW t \in Turns, Holds(t),
         NEW events, Records(t, events), log' = log \o events
  PROVE  /\ Journal' /\ Grown
         /\ \A i \in 1..Len(log') : i \in 1..Len(log) \/ log'[i].turn = t
         /\ \A u : Ended(u) => Ended(u)'
         /\ IF events[Len(events)].type \in Ends THEN Ended(t)' ELSE Holds(t)'
<1>1. /\ Grown /\ Len(events) \in Nat /\ Len(log') = Len(log) + Len(events)
      /\ \A i \in (Len(log) + 1)..Len(log') :
           i - Len(log) \in 1..Len(events) /\ log'[i] = events[i - Len(log)]
  BY Grows, Appended DEF Journal, Records
<1>2. \A i \in 1..Len(log') :
        \/ i \in 1..Len(log)
        \/ /\ i > Len(log) /\ log'[i].turn = t
           /\ log'[i].type # Asks /\ log'[i].type # Selects
           /\ i < Len(log') => log'[i].type \notin Ends
  <2>1. SUFFICES ASSUME NEW i \in 1..Len(log'), i \notin 1..Len(log)
                 PROVE  /\ i > Len(log) /\ log'[i].turn = t
                        /\ log'[i].type # Asks /\ log'[i].type # Selects
                        /\ i < Len(log') => log'[i].type \notin Ends
    OBVIOUS
  <2>2. i \in (Len(log) + 1)..Len(log') /\ i > Len(log)
    BY <1>1, <2>1 DEF Grown
  <2>3. i - Len(log) \in 1..Len(events) /\ log'[i] = events[i - Len(log)]
    BY <1>1, <2>2
  <2>4. i < Len(log') => i - Len(log) < Len(events)
    BY <1>1, <2>2 DEF Grown
  <2> QED BY <2>2, <2>3, <2>4 DEF Records
<1>3. PICK h \in 1..Len(log) :
        /\ log[h].type = Asks /\ log[h].turn = t
        /\ \A j \in (h + 1)..Len(log) : log[j].type # Asks /\ log[j].type \notin Ends
  BY DEF Holds
<1>4. log[h].type \notin Ends
  BY <1>3 DEF Asks, Ends
<1>5. (Unclaimed \/ Unstarted)'
  <2>1. Unclaimed
    BY HolderIsOpen
  <2> QED BY <1>1, <1>2, <2>1 DEF Grown, Unclaimed
<1>6. Overlapless'
  BY <1>1, <1>2 DEF Journal, Grown, Overlapless
<1>7. Bracketed'
  <2>1. SUFFICES ASSUME NEW k \in 1..Len(log'), log'[k].turn # 0
                 PROVE  \E i \in 1..k :
                          /\ log'[i].type = Asks /\ log'[i].turn = log'[k].turn
                          /\ \A j \in (i + 1)..k : log'[j].type # Asks
                          /\ \A j \in i..(k - 1) : log'[j].type \notin Ends
    BY DEF Bracketed
  <2>2. CASE k \in 1..Len(log)
    BY <1>1, <2>1, <2>2, OldBrackets DEF Journal
  <2>3. CASE k > Len(log) /\ log'[k].turn = t
    <3>1. h \in 1..k /\ log'[h] = log[h]
      BY <1>1, <2>3 DEF Grown
    <3>2. ASSUME NEW j \in (h + 1)..k PROVE log'[j].type # Asks
      <4>1. j \in 1..Len(log')
        BY <1>1 DEF Grown
      <4>2. CASE j \in 1..Len(log)
        BY <1>1, <1>3, <4>2 DEF Grown
      <4> QED BY <1>2, <4>1, <4>2
    <3>3. ASSUME NEW j \in h..(k - 1) PROVE log'[j].type \notin Ends
      <4>1. j \in 1..Len(log') /\ j < Len(log')
        BY <1>1 DEF Grown
      <4>2. CASE j \in 1..Len(log)
        BY <1>1, <1>3, <1>4, <4>2 DEF Grown
      <4> QED BY <1>2, <4>1, <4>2
    <3> QED BY <1>3, <2>3, <3>1, <3>2, <3>3
  <2> QED BY <1>2, <2>2, <2>3
<1>8. HasNewest'
  <2>1. h \in 1..Len(log') /\ log'[h].type = Asks
    BY <1>1, <1>3 DEF Grown
  <2>2. \A j \in (h + 1)..Len(log') : log'[j].type # Asks
    BY <1>1, <1>2, <1>3 DEF Grown
  <2> QED BY <2>1, <2>2 DEF HasNewest
<1>9. ASSUME NEW u, Ended(u) PROVE Ended(u)'
  BY <1>1, <1>9 DEF Grown, Ended
<1>10. IF events[Len(events)].type \in Ends THEN Ended(t)' ELSE Holds(t)'
  <2>1. /\ Len(log') \in 1..Len(log') /\ Len(log') \notin 1..Len(log)
        /\ log'[Len(log')] = events[Len(events)]
    <3>1. Len(log') \in (Len(log) + 1)..Len(log') /\ Len(log') - Len(log) = Len(events)
      BY <1>1 DEF Grown
    <3>2. log'[Len(log')] = events[Len(log') - Len(log)]
      BY <1>1, <3>1
    <3> QED BY <1>1, <3>1, <3>2 DEF Grown
  <2>2. CASE events[Len(events)].type \in Ends
    BY <1>2, <2>1, <2>2 DEF Ended
  <2>3. CASE events[Len(events)].type \notin Ends
    <3>1. h \in 1..Len(log') /\ log'[h].type = Asks /\ log'[h].turn = t
      BY <1>1, <1>3 DEF Grown
    <3>2. ASSUME NEW j \in (h + 1)..Len(log')
          PROVE  log'[j].type # Asks /\ log'[j].type \notin Ends
      <4>1. j \in 1..Len(log')
        BY <1>1 DEF Grown
      <4>2. CASE j \in 1..Len(log)
        BY <1>1, <1>3, <4>2 DEF Grown
      <4>3. CASE j \notin 1..Len(log)
        <5>0. Len(log') \in Nat
          BY <1>1 DEF Grown
        <5>1. j < Len(log') \/ j = Len(log')
          BY <4>1, <5>0
        <5> QED BY <1>2, <2>1, <2>3, <4>1, <4>3, <5>1
      <4> QED BY <4>2, <4>3
    <3>3. \A j \in (h + 1)..Len(log') : log'[j].type # Asks /\ log'[j].type \notin Ends
      BY <3>2
    <3> QED BY <2>3, <3>1, <3>3 DEF Holds
  <2> QED BY <2>2, <2>3
<1> QED BY <1>1, <1>2, <1>5, <1>6, <1>7, <1>8, <1>9, <1>10 DEF Journal, Grown
-------------------------------------------------------------------------------
(* The journal in CoreTurn's words. *)

LEMMA Words ==
  ASSUME IsSeq(log)
  PROVE  /\ \A t : Terminated(log, t) <=> Ended(t)
         /\ PrimeClaimed <=> ~Unclaimed
         /\ CoreStarted <=> ~Unstarted
         /\ Requests = {i \in 1..Len(log) : log[i].type = Asks}
BY LogLength
DEF Terminated, Terminals, Ended, Ends, PrimeClaimed, CoreStarted, EventsOf,
    Unclaimed, Unstarted, Selects, Asks, Requests

\* A session without an unfinished turn has only turns that ended.
LEMMA NothingUnfinished ==
  ASSUME Journal, Unfinished(log) = {}
  PROVE  AllEnded
<1> DEFINE requests == {i \in DOMAIN log : log[i].type = Asks}
<1>1. Len(log) \in Nat /\ DOMAIN log = 1..Len(log)
  BY LogLength DEF Journal
<1>2. SUFFICES ASSUME NEW i \in 1..Len(log), log[i].type = Asks
               PROVE  \E k \in i..Len(log) : log[k].type \in Ends /\ log[k].turn = log[i].turn
  BY DEF AllEnded
<1>3. PICK n \in 1..Len(log) :
        log[n].type = Asks /\ \A j \in (n + 1)..Len(log) : log[j].type # Asks
  BY <1>2 DEF Journal, HasNewest, Unstarted
<1>4. \A k \in requests : k <= n
  BY <1>1, <1>3
<1>5. Terminated(SubSeq(log, n, Len(log)), log[n].turn)
  BY <1>1, <1>3, <1>4 DEF Unfinished, Asks
<1>6. PICK m \in DOMAIN SubSeq(log, n, Len(log)) :
        /\ SubSeq(log, n, Len(log))[m].type \in Ends
        /\ SubSeq(log, n, Len(log))[m].turn = log[n].turn
  BY <1>5 DEF Terminated, Terminals, Ends
<1>7. PICK k \in n..Len(log) : log[k].type \in Ends /\ log[k].turn = log[n].turn
  <2>1. PICK S : log \in Seq(S)
    BY DEF Journal, IsSeq
  <2>2. /\ m \in 1..(Len(log) - n + 1)
        /\ SubSeq(log, n, Len(log))[m] = log[n + m - 1]
    BY <1>1, <1>3, <1>6, <2>1
  <2>3. n + m - 1 \in n..Len(log)
    BY <1>1, <2>2
  <2> QED BY <1>6, <2>2, <2>3
<1>8. CASE i = n
  BY <1>7, <1>8
<1>9. CASE i # n
  <2>1. i < n
    BY <1>1, <1>2, <1>4, <1>9
  <2>2. PICK j \in i..n : log[j].type \in Ends /\ log[j].turn = log[i].turn
    BY <1>2, <1>3, <2>1 DEF Journal, Overlapless
  <2>3. j \in i..Len(log)
    BY <1>1, <2>2
  <2> QED BY <2>2, <2>3
<1> QED BY <1>8, <1>9

LEMMA JournalIsOrderly ==
  ASSUME Journal
  PROVE  OneTurnOneEngine
<1>1. IsSeq(log) /\ Len(log) \in Nat /\ DOMAIN log = 1..Len(log)
  BY LogLength DEF Journal
<1>2. OneEngine
  BY <1>1, Words DEF OneEngine, Journal
<1>3. TurnsNeverOverlap
  <2>1. SUFFICES ASSUME NEW i \in Requests, NEW j \in Requests, i < j
                 PROVE  /\ log[i].turn # log[j].turn
                        /\ \E k \in i..j : log[k].type \in Ends /\ log[k].turn = log[i].turn
    BY DEF TurnsNeverOverlap, Terminals, Ends
  <2>2. i \in 1..Len(log) /\ j \in 1..Len(log) /\ log[i].type = Asks /\ log[j].type = Asks
    BY <1>1, <2>1, Words
  <2> QED BY <2>1, <2>2 DEF Journal, Overlapless
<1>4. ASSUME NEW k \in DOMAIN log, log[k].turn # NoTurn
      PROVE  InsideItsTurn(k)
  <2>1. PICK i \in 1..k :
          /\ log[i].type = Asks /\ log[i].turn = log[k].turn
          /\ \A j \in (i + 1)..k : log[j].type # Asks
          /\ \A j \in i..(k - 1) : log[j].type \notin Ends
    BY <1>1, <1>4 DEF Journal, Bracketed, NoTurn
  <2>2. i \in Requests /\ i <= k
    BY <1>1, <2>1, Words
  <2> QED BY <2>1, <2>2 DEF InsideItsTurn, Terminals, Ends, Asks
<1> QED BY <1>2, <1>3, <1>4 DEF OneTurnOneEngine
-------------------------------------------------------------------------------
(* How a turn moves. *)

\* Turn t is r after the step.
Becomes(t, r) ==
  /\ turn' = [turn EXCEPT ![t] = r]
  /\ "pc" \in DOMAIN r /\ "head" \in DOMAIN r

LEMMA OneMoves ==
  ASSUME TurnRecords, NEW t \in Turns, NEW r, Becomes(t, r)
  PROVE  /\ TurnRecords' /\ turn'[t] = r
         /\ \A u \in Turns : u # t => turn'[u] = turn[u]
BY DEF TurnRecords, Becomes

\* Nothing is written.
LEMMA QuietMove ==
  ASSUME TurnInv, NEW t \in Turns, NEW r, Becomes(t, r), log' = log, prime' = prime,
         r.head \in 0..Len(log),
         r.pc \in Early => turn[t].pc \in Early,
         r.pc = "checked" /\ r.head = Len(log) => Unclaimed /\ AllEnded,
         r.pc \in Running => Holds(t),
         r.pc = "catch" => Holds(t) \/ Ended(t)
  PROVE  TurnInv'
<1>1. TurnRecords' /\ turn'[t] = r /\ \A u \in Turns : u # t => turn'[u] = turn[u]
  BY OneMoves DEF TurnInv
<1>2. /\ Journal' = Journal /\ Unclaimed' = Unclaimed /\ AllEnded' = AllEnded
      /\ Unstarted' = Unstarted
      /\ \A u : Holds(u)' = Holds(u) /\ Ended(u)' = Ended(u)
  BY DEF Journal, Unclaimed, AllEnded, Unstarted, Overlapless, Bracketed, HasNewest,
         Holds, Ended
<1>3. Preflights'
  BY <1>1, <1>2 DEF TurnInv, Preflights
<1>4. Holders'
  BY <1>1, <1>2 DEF TurnInv, Holders
<1>5. Claim'
  BY <1>2 DEF TurnInv, Claim
<1> QED BY <1>1, <1>2, <1>3, <1>4, <1>5 DEF TurnInv

\* The holder's rights over the others when records of its turn are written.
LEMMA RecordMove ==
  ASSUME TurnInv, CoreAssumption, NEW t \in Turns, NEW r, Becomes(t, r), prime' = prime,
         Holds(t), NEW events, Records(t, events), log' = log \o events,
         r.head = turn[t].head, r.pc \notin Early,
         r.pc \in Running => events[Len(events)].type \notin Ends
  PROVE  TurnInv'
<1>1. TurnRecords' /\ turn'[t] = r /\ \A u \in Turns : u # t => turn'[u] = turn[u]
  BY OneMoves DEF TurnInv
<1>2. /\ Journal' /\ Grown
      /\ \A i \in 1..Len(log') : i \in 1..Len(log) \/ log'[i].turn = t
      /\ \A u : Ended(u) => Ended(u)'
      /\ IF events[Len(events)].type \in Ends THEN Ended(t)' ELSE Holds(t)'
  BY InsideRecords DEF TurnInv
<1>3. Preflights'
  BY <1>1, <1>2 DEF TurnInv, Preflights, Grown, Early
<1>4. Holders'
  <2>1. \A u \in Turns : Holds(u) => u = t
    BY OneHolder DEF TurnInv, Journal
  <2> QED BY <1>1, <1>2, <2>1 DEF TurnInv, Holders
<1>5. Claim'
  BY <1>2 DEF TurnInv, Claim, Grown
<1> QED BY <1>1, <1>2, <1>3, <1>4, <1>5 DEF TurnInv

\* A request is written at the head of its preflight.
LEMMA AdmissionMove ==
  ASSUME TurnInv, NEW t \in Turns, NEW r, Becomes(t, r), prime' = prime,
         turn[t].pc = "checked", turn[t].head = Len(log),
         NEW e, e.type = Asks, e.turn = t, log' = log \o <<e>>,
         r.head = turn[t].head, r.pc \in {"admitted", "refused"}
  PROVE  TurnInv'
<1>1. TurnRecords' /\ turn'[t] = r /\ \A u \in Turns : u # t => turn'[u] = turn[u]
  BY OneMoves DEF TurnInv
<1>2. Unclaimed /\ AllEnded /\ \A i \in 1..Len(log) : log[i].turn # t
  BY DEF TurnInv, Preflights, Early
<1>3. /\ Journal' /\ Grown /\ Holds(t)'
      /\ \A i \in 1..Len(log') : i \in 1..Len(log) \/ log'[i].turn = t
      /\ \A u : Ended(u) => Ended(u)'
  BY <1>2, Admission DEF TurnInv
<1>4. Preflights'
  BY <1>1, <1>3 DEF TurnInv, Preflights, Grown, Early
<1>5. \A u : ~Holds(u)
  <2>1. SUFFICES ASSUME NEW u, Holds(u) PROVE FALSE
    OBVIOUS
  <2>2. PICK i \in 1..Len(log) :
          /\ log[i].type = Asks
          /\ \A j \in (i + 1)..Len(log) : log[j].type \notin Ends
    BY <2>1 DEF Holds
  <2>3. PICK k \in i..Len(log) : log[k].type \in Ends
    BY <1>2, <2>2 DEF AllEnded
  <2>4. log[i].type \notin Ends /\ Len(log) \in Nat
    BY <1>3, <2>2 DEF Asks, Ends, Grown
  <2>5. k \in (i + 1)..Len(log)
    BY <2>2, <2>3, <2>4
  <2> QED BY <2>2, <2>3, <2>5
<1>6. Holders'
  BY <1>1, <1>3, <1>5 DEF TurnInv, Holders
<1>7. Claim'
  BY <1>3 DEF TurnInv, Claim, Grown
<1> QED BY <1>1, <1>3, <1>4, <1>6, <1>7 DEF TurnInv

\* A record outside any turn is written.
LEMMA OutsideMove ==
  ASSUME TurnInv, CoreAssumption, turn' = turn, NEW e, log' = log \o <<e>>,
         e.turn = 0, e.type # Asks, e.type \notin Ends,
         e.type = Selects => Unstarted,
         prime' = prime \/ prime' = Idle
  PROVE  TurnInv'
<1>1. /\ Journal' /\ Grown
      /\ \A i \in 1..Len(log') : i \in 1..Len(log) \/ log'[i] = e
      /\ \A t : Holds(t) => Holds(t)'
      /\ \A t : Ended(t) => Ended(t)'
  BY OutsideRecord DEF TurnInv
<1>2. TurnRecords'
  BY DEF TurnInv, TurnRecords
<1>3. Preflights'
  <2>1. \A t \in Turns : t # 0
    BY DEF CoreAssumption
  <2> QED BY <1>1, <2>1 DEF TurnInv, Preflights, Grown
<1>4. Holders'
  BY <1>1 DEF TurnInv, Holders
<1>5. Claim'
  BY <1>1 DEF TurnInv, Claim, Grown, Idle
<1> QED BY <1>1, <1>2, <1>3, <1>4, <1>5 DEF TurnInv

\* append under the turn's signal, from a running turn.
LEMMA AppendMove ==
  ASSUME TurnInv, CoreAssumption, NEW t \in Turns, turn[t].pc \in Running,
         NEW events, Records(t, events), prime' = prime,
         NEW r, "pc" \in DOMAIN r, "head" \in DOMAIN r, r.head = turn[t].head,
         r.pc \in Running \cup {"settled"},
         r.pc \in Running => events[Len(events)].type \notin Ends,
         AppendThen(t, events, r)
  PROVE  TurnInv'
<1>1. Holds(t)
  BY DEF TurnInv, Holders
<1> DEFINE thrown == [turn[t] EXCEPT !.pc = "catch"]
<1>2. /\ "pc" \in DOMAIN thrown /\ "head" \in DOMAIN thrown
      /\ thrown.pc = "catch" /\ thrown.head = turn[t].head
  BY DEF TurnInv, TurnRecords
<1>3. \/ log' = log \o events /\ turn' = [turn EXCEPT ![t] = r]
      \/ log' = log \o events /\ turn' = [turn EXCEPT ![t] = thrown]
      \/ log' = log /\ turn' = [turn EXCEPT ![t] = thrown]
  BY DEF AppendThen, Commit, Keep, Goto, Throw, At
<1> HIDE DEF thrown
<1>4. CASE log' = log \o events /\ turn' = [turn EXCEPT ![t] = r]
  <2>1. Becomes(t, r) /\ r.pc \notin Early
    BY <1>4 DEF Becomes, Running, Early
  <2> QED BY <1>1, <1>4, <2>1, RecordMove
<1>5. CASE log' = log \o events /\ turn' = [turn EXCEPT ![t] = thrown]
  <2>1. Becomes(t, thrown) /\ thrown.pc \notin Early \cup Running
    BY <1>2, <1>5 DEF Becomes, Running, Early
  <2> QED BY <1>1, <1>2, <1>5, <2>1, RecordMove
<1>6. CASE log' = log /\ turn' = [turn EXCEPT ![t] = thrown]
  <2>1. Becomes(t, thrown) /\ thrown.pc \notin Early \cup Running
    BY <1>2, <1>6 DEF Becomes, Running, Early
  <2>2. thrown.head \in 0..Len(log)
    BY <1>2 DEF TurnInv, Preflights
  <2> QED BY <1>1, <1>2, <1>6, <2>1, <2>2, QuietMove DEF Early
<1> QED BY <1>3, <1>4, <1>5, <1>6
-------------------------------------------------------------------------------
(* One lemma per kind of step. *)

LEMMA AtFields ==
  ASSUME TurnRecords, NEW t \in Turns, NEW pcs
  PROVE  /\ "pc" \in DOMAIN At(t, pcs) /\ "head" \in DOMAIN At(t, pcs)
         /\ At(t, pcs).pc = pcs /\ At(t, pcs).head = turn[t].head
         /\ DOMAIN At(t, pcs) = DOMAIN turn[t]
BY DEF TurnRecords, At

\* A running turn goes on, or throws, without writing.
LEMMA RunningMove ==
  ASSUME TurnInv, NEW t \in Turns, turn[t].pc \in Running, log' = log, prime' = prime,
         NEW r, Goto(t, r), "pc" \in DOMAIN r, "head" \in DOMAIN r,
         r.head = turn[t].head, r.pc \in Running \cup {"catch"}
  PROVE  TurnInv'
<1>1. Becomes(t, r) /\ Holds(t) /\ r.head \in 0..Len(log)
  BY DEF Becomes, Goto, TurnInv, Holders, Preflights
<1>2. r.pc \notin Early
  BY DEF Running, Early
<1> QED BY <1>1, <1>2, QuietMove DEF Early

\* A step that writes one record that neither admits, ends nor claims.
LEMMA OneRecord ==
  ASSUME NEW t, NEW e, e.turn = t, e.type \notin Ends \cup {Asks, Selects}
  PROVE  /\ Records(t, <<e>>)
         /\ <<e>>[Len(<<e>>)].type \notin Ends
<1> DEFINE events == <<e>>
<1>1. events \in Seq({e}) /\ Len(events) = 1 /\ events[1] = e
  OBVIOUS
<1> HIDE DEF events
<1>2. IsSeq(events) /\ \A n \in 1..Len(events) : events[n] = e /\ ~(n < Len(events))
  BY <1>1 DEF IsSeq
<1>3. Records(t, events) /\ events[Len(events)].type \notin Ends
  BY <1>1, <1>2 DEF Records
<1> QED BY <1>3 DEF events

\* ... from a running turn.
LEMMA AppendOneMove ==
  ASSUME TurnInv, CoreAssumption, NEW t \in Turns, turn[t].pc \in Running, prime' = prime,
         NEW e, e.turn = t, e.type \notin Ends \cup {Asks, Selects},
         NEW r, "pc" \in DOMAIN r, "head" \in DOMAIN r, r.head = turn[t].head,
         r.pc \in Running, AppendThen(t, <<e>>, r)
  PROVE  TurnInv'
BY OneRecord, AppendMove

LEMMA SnapshotStep ==
  ASSUME TurnInv, NEW t \in Turns, Snapshot(t)
  PROVE  TurnInv'
<1> DEFINE r == [At(t, "snapshot") EXCEPT !.head = Len(log), !.model = EffectiveModel]
<1>1. /\ "pc" \in DOMAIN r /\ "head" \in DOMAIN r
      /\ r.pc = "snapshot" /\ r.head = Len(log)
  BY AtFields DEF TurnInv
<1>2. turn' = [turn EXCEPT ![t] = r] /\ log' = log /\ prime' = prime /\ turn[t].pc = "new"
  BY DEF Snapshot, Goto, Keep, pageVars
<1> HIDE DEF r
<1>3. Becomes(t, r) /\ r.head \in 0..Len(log)
  BY <1>1, <1>2, LogLength DEF Becomes, TurnInv, Journal
<1> QED BY <1>1, <1>2, <1>3, QuietMove DEF Early, Running

LEMMA CheckStep ==
  ASSUME TurnInv, NEW t \in Turns, Check(t)
  PROVE  TurnInv'
<1>1. PICK pcs \in {"refused", "checked"} :
        /\ turn' = [turn EXCEPT ![t] = At(t, pcs)]
        /\ pcs = "checked" => ~PrimeClaimed /\ Unfinished(log) = {}
  BY DEF Check, Goto
<1>2. log' = log /\ prime' = prime /\ turn[t].pc = "snapshot"
  BY DEF Check, Keep, pageVars
<1> DEFINE r == At(t, pcs)
<1>3. /\ "pc" \in DOMAIN r /\ "head" \in DOMAIN r /\ r.pc = pcs /\ r.head = turn[t].head
  BY AtFields DEF TurnInv
<1>4. pcs = "checked" => Unclaimed /\ AllEnded
  BY <1>1, Words, NothingUnfinished DEF TurnInv, Journal
<1>5. Becomes(t, r) /\ r.head \in 0..Len(log)
  BY <1>1, <1>3 DEF Becomes, TurnInv, Preflights
<1> HIDE DEF r
<1>6. /\ r.pc \in Early => turn[t].pc \in Early
      /\ r.pc \notin Running /\ r.pc # "catch"
  BY <1>1, <1>2, <1>3 DEF Early, Running
<1> QED BY <1>2, <1>3, <1>4, <1>5, <1>6, QuietMove

LEMMA AdmitStep ==
  ASSUME TurnInv, NEW t \in Turns, Admit(t)
  PROVE  TurnInv'
<1>1. PICK p \in Prompts, pcs \in {"admitted", "refused"} :
        /\ turn' = [turn EXCEPT ![t] = At(t, pcs)]
        /\ \/ turn[t].head = Len(log) /\ log' = log \o <<Requested(t, p.slash, p.env)>>
           \/ pcs = "refused" /\ log' = log
  BY DEF Admit, HeadIsCurrent, Commit, Goto, Keep
<1>2. turn[t].pc = "checked" /\ prime' = prime
  BY DEF Admit, pageVars
<1> DEFINE r == At(t, pcs)
<1>3. /\ "pc" \in DOMAIN r /\ "head" \in DOMAIN r /\ r.pc = pcs /\ r.head = turn[t].head
  BY AtFields DEF TurnInv
<1>4. Becomes(t, r) /\ r.head \in 0..Len(log)
  BY <1>1, <1>3 DEF Becomes, TurnInv, Preflights
<1> DEFINE e == Requested(t, p.slash, p.env)
<1>5. e.type = Asks /\ e.turn = t
  BY DEF Requested, Asks
<1>6. \/ turn[t].head = Len(log) /\ log' = log \o <<e>>
      \/ pcs = "refused" /\ log' = log
  BY <1>1
<1> HIDE DEF r, e
<1>7. CASE turn[t].head = Len(log) /\ log' = log \o <<e>>
  BY <1>1, <1>2, <1>3, <1>4, <1>5, <1>7, AdmissionMove
<1>8. CASE pcs = "refused" /\ log' = log
  BY <1>2, <1>3, <1>4, <1>8, QuietMove DEF Early, Running
<1> QED BY <1>6, <1>7, <1>8

\* Preprocessing.
LEMMA SelectContextStep ==
  ASSUME TurnInv, CoreAssumption, NEW t \in Turns, SelectContext(t)
  PROVE  TurnInv'
<1> DEFINE r == At(t, "selected")
           e == Event("turn.context.selected", t, NoOp)
<1>1. /\ "pc" \in DOMAIN r /\ "head" \in DOMAIN r /\ r.head = turn[t].head
      /\ r.pc = "selected" /\ r.pc \in Running
  BY AtFields DEF TurnInv, Running
<1>2. turn[t].pc \in Running /\ prime' = prime
  BY DEF SelectContext, pageVars, Running
<1>3. e.turn = t /\ e.type \notin Ends \cup {Asks, Selects}
  BY DEF Event, Ends, Asks, Selects
<1>4. (log' = log /\ Goto(t, r)) \/ AppendThen(t, <<e>>, r)
  BY DEF SelectContext, Keep
<1> HIDE DEF r, e
<1> QED BY <1>1, <1>2, <1>3, <1>4, RunningMove, AppendOneMove

LEMMA CompressStep ==
  ASSUME TurnInv, CoreAssumption, NEW t \in Turns, Compress(t)
  PROVE  TurnInv'
<1>1. turn[t].pc \in Running /\ prime' = prime
  BY DEF Compress, pageVars, Running
<1>2. CASE log' = log /\ Goto(t, At(t, "stepping"))
  <2> DEFINE r == At(t, "stepping")
  <2>1. /\ "pc" \in DOMAIN r /\ "head" \in DOMAIN r /\ r.head = turn[t].head
        /\ r.pc = "stepping" /\ r.pc \in Running
    BY AtFields DEF TurnInv, Running
  <2>2. Goto(t, r)
    BY <1>2
  <2> HIDE DEF r
  <2> QED BY <1>1, <1>2, <2>1, <2>2, RunningMove
<1>3. CASE \E cut : AppendThen(t, <<SummaryUpdated(t, cut)>>, At(t, "noting"))
  <2>1. PICK cut : AppendThen(t, <<SummaryUpdated(t, cut)>>, At(t, "noting"))
    BY <1>3
  <2> DEFINE r == At(t, "noting")
             e == SummaryUpdated(t, cut)
  <2>2. /\ "pc" \in DOMAIN r /\ "head" \in DOMAIN r /\ r.head = turn[t].head
        /\ r.pc = "noting" /\ r.pc \in Running
    BY AtFields DEF TurnInv, Running
  <2>3. e.turn = t /\ e.type \notin Ends \cup {Asks, Selects}
    BY DEF SummaryUpdated, Ends, Asks, Selects
  <2>4. AppendThen(t, <<e>>, r)
    BY <2>1
  <2> HIDE DEF r, e
  <2> QED BY <1>1, <2>2, <2>3, <2>4, AppendOneMove
<1> QED BY <1>2, <1>3 DEF Compress, Keep

LEMMA RestatePlanStep ==
  ASSUME TurnInv, CoreAssumption, NEW t \in Turns, RestatePlan(t)
  PROVE  TurnInv'
<1> DEFINE r == At(t, "stepping")
           e == Event("turn.plan.restated", t, NoOp)
<1>1. /\ "pc" \in DOMAIN r /\ "head" \in DOMAIN r /\ r.head = turn[t].head
      /\ r.pc = "stepping" /\ r.pc \in Running
  BY AtFields DEF TurnInv, Running
<1>2. turn[t].pc \in Running /\ prime' = prime
  BY DEF RestatePlan, pageVars, Running
<1>3. e.turn = t /\ e.type \notin Ends \cup {Asks, Selects}
  BY DEF Event, Ends, Asks, Selects
<1>4. (log' = log /\ Goto(t, r)) \/ AppendThen(t, <<e>>, r)
  BY DEF RestatePlan, Keep
<1> HIDE DEF r, e
<1> QED BY <1>1, <1>2, <1>3, <1>4, RunningMove, AppendOneMove

\* A step of the loop.
LEMMA ThrowMove ==
  ASSUME TurnInv, NEW t \in Turns, turn[t].pc \in Running, log' = log, prime' = prime,
         Throw(t)
  PROVE  TurnInv'
<1> DEFINE r == At(t, "catch")
<1>1. /\ "pc" \in DOMAIN r /\ "head" \in DOMAIN r /\ r.head = turn[t].head /\ r.pc = "catch"
  BY AtFields DEF TurnInv
<1>2. Goto(t, r)
  BY DEF Throw
<1> HIDE DEF r
<1> QED BY <1>1, <1>2, RunningMove

LEMMA ReadHistoryStep ==
  ASSUME TurnInv, NEW t \in Turns, ReadHistory(t)
  PROVE  TurnInv'
<1> DEFINE r == [At(t, "requesting") EXCEPT !.history = materializeMessages(log, TRUE)]
<1>1. /\ "pc" \in DOMAIN r /\ "head" \in DOMAIN r /\ r.head = turn[t].head
      /\ r.pc = "requesting" /\ r.pc \in Running
  BY AtFields DEF TurnInv, Running
<1>2. turn[t].pc \in Running /\ prime' = prime /\ log' = log
  BY DEF ReadHistory, pageVars, Keep, Running
<1>3. Throw(t) \/ Goto(t, r)
  BY DEF ReadHistory
<1> HIDE DEF r
<1> QED BY <1>1, <1>2, <1>3, ThrowMove, RunningMove

LEMMA StartInferenceStep ==
  ASSUME TurnInv, CoreAssumption, NEW t \in Turns, StartInference(t)
  PROVE  TurnInv'
<1> DEFINE r == At(t, "inferring")
           e == InferenceStarted(t)
<1>1. /\ "pc" \in DOMAIN r /\ "head" \in DOMAIN r /\ r.head = turn[t].head
      /\ r.pc = "inferring" /\ r.pc \in Running
  BY AtFields DEF TurnInv, Running
<1>2. turn[t].pc \in Running /\ prime' = prime
  BY DEF StartInference, pageVars, Running
<1>3. e.turn = t /\ e.type \notin Ends \cup {Asks, Selects}
  BY DEF InferenceStarted, Ends, Asks, Selects
<1>4. AppendThen(t, <<e>>, r)
  BY DEF StartInference
<1> HIDE DEF r, e
<1> QED BY <1>1, <1>2, <1>3, <1>4, AppendOneMove

\* Records that neither admit, end nor claim.
PlainRecords(t, s) ==
  IsSeq(s) /\ \A n \in 1..Len(s) : s[n].turn = t /\ s[n].type \notin Ends \cup {Asks, Selects}

LEMMA JoinRecords ==
  ASSUME NEW t, NEW s, NEW e, PlainRecords(t, s), Len(s) = 1, PlainRecords(t, e)
  PROVE  Records(t, s \o e) /\ (s \o e)[Len(s \o e)].type \notin Ends
<1> DEFINE events == s \o e
<1>1. /\ IsSeq(events) /\ Len(e) \in Nat /\ Len(events) = 1 + Len(e)
      /\ \A i \in 1..1 : events[i] = s[i]
      /\ \A i \in 2..(1 + Len(e)) : i - 1 \in 1..Len(e) /\ events[i] = e[i - 1]
  <2>1. IsSeq(s) /\ IsSeq(e)
    BY DEF PlainRecords
  <2>2. /\ IsSeq(events) /\ Len(s) \in Nat /\ Len(e) \in Nat
        /\ Len(events) = Len(s) + Len(e)
        /\ \A i \in 1..Len(s) : events[i] = s[i]
        /\ \A i \in (Len(s) + 1)..(Len(s) + Len(e)) :
             i - Len(s) \in 1..Len(e) /\ events[i] = e[i - Len(s)]
    BY <2>1, Appended, Zenon
  <2> HIDE DEF events
  <2>3. Len(s) + 1 = 2 /\ Len(s) + Len(e) = 1 + Len(e)
    BY <2>2
  <2> QED BY <2>2, <2>3
<1> HIDE DEF events
<1>2. \A n \in 1..Len(events) :
        events[n].turn = t /\ events[n].type \notin Ends \cup {Asks, Selects}
  <2>1. SUFFICES ASSUME NEW n \in 1..Len(events)
                 PROVE  events[n].turn = t /\ events[n].type \notin Ends \cup {Asks, Selects}
    OBVIOUS
  <2>2. n = 1 \/ n \in 2..(1 + Len(e))
    BY <1>1
  <2>3. CASE n = 1
    BY <1>1, <2>3 DEF PlainRecords
  <2>4. CASE n \in 2..(1 + Len(e))
    BY <1>1, <2>4 DEF PlainRecords
  <2> QED BY <2>2, <2>3, <2>4
<1>3. Len(events) \in 1..Len(events) /\ Len(events) > 0 /\ IsSeq(events)
  BY <1>1
<1>4. Records(t, events) /\ events[Len(events)].type \notin Ends
  BY <1>2, <1>3 DEF Records
<1> QED BY <1>4 DEF events

\* The records of an answer with calls.
LEMMA CallRecords ==
  ASSUME NEW t, NEW cs, NEW S, cs \in Seq(S)
  PROVE  PlainRecords(t, RequestedCalls(t, cs))
<1> DEFINE rest == RequestedCalls(t, cs)
<1>1. Len(cs) \in Nat /\ DOMAIN cs = 1..Len(cs)
  OBVIOUS
<1>2. rest = [i \in 1..Len(cs) |-> Event("tool.requested", t, cs[i])]
  BY <1>1 DEF RequestedCalls
<1>3. PICK E : E = {Event("tool.requested", t, cs[i]) : i \in 1..Len(cs)}
  OBVIOUS
<1>4. rest \in [1..Len(cs) -> E]
  BY <1>2, <1>3
<1>5. rest \in Seq(E)
  BY <1>1, <1>4
<1>6. Len(rest) = Len(cs)
  BY <1>1, <1>2, <1>5
<1>7. \A n \in 1..Len(rest) : rest[n] = Event("tool.requested", t, cs[n])
  BY <1>2, <1>6
<1> HIDE DEF rest
<1>8. ASSUME NEW n \in 1..Len(rest)
      PROVE  rest[n].turn = t /\ rest[n].type \notin Ends \cup {Asks, Selects}
  <2>1. rest[n] = Event("tool.requested", t, cs[n])
    BY <1>7
  <2>2. rest[n].turn = t /\ rest[n].type = "tool.requested"
    BY <2>1 DEF Event
  <2> QED BY <2>2 DEF Ends, Asks, Selects
<1>9. PlainRecords(t, rest)
  BY <1>5, <1>8 DEF PlainRecords, IsSeq
<1> QED BY <1>9 DEF rest

LEMMA AnswerRecord ==
  ASSUME NEW t, NEW op, NEW text, NEW cs
  PROVE  /\ PlainRecords(t, <<AssistantCompleted(t, op, text, cs)>>)
         /\ Len(<<AssistantCompleted(t, op, text, cs)>>) = 1
<1> DEFINE a == AssistantCompleted(t, op, text, cs)
           first == <<a>>
<1>1. a.turn = t /\ a.type \notin Ends \cup {Asks, Selects}
  BY DEF AssistantCompleted, Ends, Asks, Selects
<1> HIDE DEF a
<1>2. first \in Seq({a}) /\ Len(first) = 1 /\ first[1] = a
  OBVIOUS
<1> HIDE DEF first
<1>3. PlainRecords(t, first) /\ Len(first) = 1
  BY <1>1, <1>2 DEF PlainRecords, IsSeq
<1> QED BY <1>3 DEF first, a

LEMMA ProposesCallsStep ==
  ASSUME TurnInv, CoreAssumption, NEW t \in Turns, ProposesCalls(t)
  PROVE  TurnInv'
<1>1. turn[t].pc \in Running /\ prime' = prime
  BY DEF ProposesCalls, pageVars, Running
<1>2. PICK a \in Replies :
        \/ AppendThen(t,
             <<AssistantCompleted(t, InferenceOp(t), a.text, a.calls)>>
               \o RequestedCalls(t, a.calls),
             [At(t, "batch") EXCEPT !.calls = a.calls, !.cursor = 1])
        \/ log' = log /\ Throw(t)
  BY DEF ProposesCalls, Keep
<1> DEFINE r == [At(t, "batch") EXCEPT !.calls = a.calls, !.cursor = 1]
           events == <<AssistantCompleted(t, InferenceOp(t), a.text, a.calls)>>
                       \o RequestedCalls(t, a.calls)
<1>3. /\ "pc" \in DOMAIN r /\ "head" \in DOMAIN r /\ r.head = turn[t].head
      /\ r.pc = "batch" /\ r.pc \in Running
  BY AtFields DEF TurnInv, Running
<1>4. a.calls \in Seq(DOMAIN Effect)
  BY DEF CoreAssumption
<1>5. Records(t, events) /\ events[Len(events)].type \notin Ends
  BY <1>4, AnswerRecord, CallRecords, JoinRecords
<1>6. AppendThen(t, events, r) \/ (log' = log /\ Throw(t))
  BY <1>2
<1> HIDE DEF r, events
<1> QED BY <1>1, <1>3, <1>5, <1>6, AppendMove, ThrowMove

LEMMA CompletesStep ==
  ASSUME TurnInv, CoreAssumption, NEW t \in Turns, Completes(t)
  PROVE  TurnInv'
<1> DEFINE r == At(t, "settled")
           a == AssistantCompleted(t, InferenceOp(t), TRUE, <<>>)
           b == Event("turn.completed", t, NoOp)
           events == <<a, b>>
<1>1. /\ "pc" \in DOMAIN r /\ "head" \in DOMAIN r /\ r.head = turn[t].head
      /\ r.pc = "settled" /\ r.pc \notin Running
  BY AtFields DEF TurnInv, Running
<1>2. turn[t].pc \in Running /\ prime' = prime
  BY DEF Completes, pageVars, Running
<1>3. /\ a.turn = t /\ a.type \notin Ends \cup {Asks, Selects}
      /\ b.turn = t /\ b.type \notin {Asks, Selects}
  BY DEF AssistantCompleted, Event, Ends, Asks, Selects
<1>4. AppendThen(t, events, r)
  BY DEF Completes
<1> HIDE DEF r, a, b
<1>5. Records(t, events)
  <2>1. events \in Seq({a, b}) /\ Len(events) = 2 /\ events[1] = a /\ events[2] = b
    OBVIOUS
  <2> HIDE DEF events
  <2>2. \A n \in 1..Len(events) : n = 1 \/ (n = 2 /\ ~(n < Len(events)))
    BY <2>1
  <2> QED BY <1>3, <2>1, <2>2 DEF Records, IsSeq
<1> HIDE DEF events
<1> QED BY <1>1, <1>2, <1>4, <1>5, AppendMove

LEMMA FailsStep ==
  ASSUME TurnInv, NEW t \in Turns, Fails(t)
  PROVE  TurnInv'
<1>1. turn[t].pc \in Running /\ prime' = prime /\ log' = log /\ Throw(t)
  BY DEF Fails, pageVars, Keep, Running
<1> QED BY <1>1, ThrowMove

\* Tool calls.
LEMMA TakeBatchStep ==
  ASSUME TurnInv, NEW t \in Turns, TakeBatch(t)
  PROVE  TurnInv'
<1> DEFINE r == [At(t, "review") EXCEPT
                   !.end = readEffectBatch(turn[t].calls, turn[t].cursor),
                   !.at = turn[t].cursor, !.mode = policy,
                   !.admitted = <<>>, !.outcome = <<>>]
<1>1. /\ "pc" \in DOMAIN r /\ "head" \in DOMAIN r /\ r.head = turn[t].head
      /\ r.pc = "review" /\ r.pc \in Running
  BY AtFields DEF TurnInv, Running
<1>2. turn[t].pc \in Running /\ prime' = prime /\ log' = log
  BY DEF TakeBatch, pageVars, Keep, Running
<1>3. Throw(t) \/ Goto(t, r)
  BY DEF TakeBatch
<1> HIDE DEF r
<1> QED BY <1>1, <1>2, <1>3, ThrowMove, RunningMove

LEMMA EndStepStep ==
  ASSUME TurnInv, NEW t \in Turns, EndStep(t)
  PROVE  TurnInv'
<1> DEFINE r == [At(t, "stepping") EXCEPT !.step = @ + 1]
<1>1. /\ "pc" \in DOMAIN r /\ "head" \in DOMAIN r /\ r.head = turn[t].head
      /\ r.pc = "stepping" /\ r.pc \in Running
  BY AtFields DEF TurnInv, Running
<1>2. turn[t].pc \in Running /\ prime' = prime /\ log' = log
  BY DEF EndStep, pageVars, Keep, Running
<1>3. Throw(t) \/ Goto(t, r)
  BY DEF EndStep
<1> HIDE DEF r
<1> QED BY <1>1, <1>2, <1>3, ThrowMove, RunningMove

LEMMA EndBatchStep ==
  ASSUME TurnInv, NEW t \in Turns, EndBatch(t)
  PROVE  TurnInv'
<1> DEFINE r == [At(t, "batch") EXCEPT !.cursor = turn[t].end + 1]
<1>1. /\ "pc" \in DOMAIN r /\ "head" \in DOMAIN r /\ r.head = turn[t].head
      /\ r.pc = "batch" /\ r.pc \in Running
  BY AtFields DEF TurnInv, Running
<1>2. turn[t].pc \in Running /\ prime' = prime /\ log' = log
  BY DEF EndBatch, pageVars, Keep, Running
<1>3. Goto(t, r)
  BY DEF EndBatch
<1> HIDE DEF r
<1> QED BY <1>1, <1>2, <1>3, RunningMove

LEMMA ExecuteStep ==
  ASSUME TurnInv, NEW t \in Turns, NEW i, Execute(t, i)
  PROVE  TurnInv'
<1>1. turn[t].pc = "executing" /\ turn[t].pc \in Running /\ prime' = prime /\ log' = log
  BY DEF Execute, pageVars, Keep, Running
<1>2. PICK outcome : Goto(t, [turn[t] EXCEPT !.outcome[i] = outcome])
  BY DEF Execute
<1> DEFINE r == [turn[t] EXCEPT !.outcome[i] = outcome]
<1>3. "pc" \in DOMAIN r /\ "head" \in DOMAIN r /\ r.head = turn[t].head /\ r.pc = turn[t].pc
  BY DEF TurnInv, TurnRecords
<1>4. Goto(t, r)
  BY <1>2
<1> HIDE DEF r
<1> QED BY <1>1, <1>3, <1>4, RunningMove

\* A turn's locals that differ from turn t's in neither head nor the keys they have.
Follows(t, r, pcs) ==
  /\ "pc" \in DOMAIN r /\ "head" \in DOMAIN r
  /\ r.head = turn[t].head /\ r.pc \in pcs

LEMMA NotedFollows ==
  ASSUME NEW t, NEW r, NEW pcs, NEW call, Follows(t, r, pcs)
  PROVE  Follows(t, noteFailedOutcome(r, call), pcs)
BY DEF Follows, noteFailedOutcome

LEMMA ReviewedFollows ==
  ASSUME TurnRecords, NEW t \in Turns
  PROVE  Follows(t, Reviewed(t), {"executing", "review"})
<1>1. CASE turn[t].at = turn[t].end
  <2>1. Follows(t, [At(t, "executing") EXCEPT !.at = 1], {"executing", "review"})
    BY AtFields DEF Follows
  <2> QED BY <1>1, <2>1 DEF Reviewed
<1>2. CASE turn[t].at # turn[t].end
  <2>1. Follows(t, [At(t, "review") EXCEPT !.at = @ + 1, !.mode = policy],
                {"executing", "review"})
    BY AtFields DEF Follows
  <2> QED BY <1>2, <2>1 DEF Reviewed
<1> QED BY <1>1, <1>2

LEMMA ReviewStep ==
  ASSUME TurnInv, CoreAssumption, NEW t \in Turns, NEW d \in Decisions, Review(t, d)
  PROVE  TurnInv'
<1> DEFINE call == turn[t].calls[turn[t].at]
           pcs == {"executing", "review"}
<1>1. turn[t].pc \in Running /\ prime' = prime
  BY DEF Review, pageVars, Running
<1>2. d \in {"allow", "deny", "throws"}
  BY DEF CoreAssumption
<1>3. Follows(t, Reviewed(t), pcs)
  BY ReviewedFollows DEF TurnInv
<1>4. ASSUME NEW e, e.turn = t, e.type \in {"tool.approved", "tool.denied"},
             NEW r, Follows(t, r, pcs), AppendThen(t, <<e>>, r)
      PROVE  TurnInv'
  <2>1. e.type \notin Ends \cup {Asks, Selects}
    BY <1>4 DEF Ends, Asks, Selects
  <2>2. "pc" \in DOMAIN r /\ "head" \in DOMAIN r /\ r.head = turn[t].head /\ r.pc \in Running
    BY <1>4 DEF Follows, Running
  <2> QED BY <1>1, <1>4, <2>1, <2>2, AppendOneMove
<1>5. CASE d = "allow"
  <2> DEFINE r == [Reviewed(t) EXCEPT !.admitted = Append(@, call),
                                        !.outcome = Append(@, "pending")]
             e == Approval(t)
  <2>1. Follows(t, r, pcs)
    BY <1>3 DEF Follows
  <2>2. e.turn = t /\ e.type = "tool.approved"
    BY DEF Approval
  <2>3. AppendThen(t, <<e>>, r)
    BY <1>5 DEF Review
  <2> HIDE DEF r, e
  <2> QED BY <1>4, <2>1, <2>2, <2>3
<1>6. CASE d \in {"deny", "throws"}
  <2> DEFINE r == noteFailedOutcome(Reviewed(t), call)
             e == Event("tool.denied", t, call)
  <2>1. Follows(t, r, pcs)
    BY <1>3, NotedFollows
  <2>2. e.turn = t /\ e.type = "tool.denied"
    BY DEF Event
  <2>3. AppendThen(t, <<e>>, r)
    BY <1>6 DEF Review, ThrownReview
  <2> HIDE DEF r, e
  <2> QED BY <1>4, <2>1, <2>2, <2>3
<1> QED BY <1>2, <1>5, <1>6

LEMMA RecordStep ==
  ASSUME TurnInv, CoreAssumption, NEW t \in Turns, Record(t)
  PROVE  TurnInv'
<1> DEFINE slot == turn[t].at
           failed == turn[t].outcome[slot] = "failed"
           next == [turn[t] EXCEPT !.at = @ + 1]
           r == IF failed THEN noteFailedOutcome(next, turn[t].admitted[slot]) ELSE next
           e == Event(IF failed THEN "tool.failed" ELSE "tool.resulted", t,
                        turn[t].admitted[slot])
<1>1. turn[t].pc = "executing" /\ prime' = prime /\ AppendThen(t, <<e>>, r)
  BY DEF Record, pageVars
<1>2. Follows(t, next, {"executing"})
  BY <1>1 DEF TurnInv, TurnRecords, Follows
<1>3. Follows(t, r, {"executing"})
  <2>1. Follows(t, noteFailedOutcome(next, turn[t].admitted[slot]), {"executing"})
    BY <1>2, NotedFollows
  <2> QED BY <1>2, <2>1
<1>4. e.turn = t /\ e.type \notin Ends \cup {Asks, Selects}
  BY DEF Event, Ends, Asks, Selects
<1> HIDE DEF r, e
<1>5. /\ "pc" \in DOMAIN r /\ "head" \in DOMAIN r /\ r.head = turn[t].head /\ r.pc \in Running
      /\ turn[t].pc \in Running
  BY <1>1, <1>3 DEF Follows, Running
<1> QED BY <1>1, <1>4, <1>5, AppendOneMove

\* The end of a turn.
LEMMA CatchStep ==
  ASSUME TurnInv, CoreAssumption, NEW t \in Turns, Catch(t)
  PROVE  TurnInv'
<1> DEFINE r == At(t, "settled")
           e == Terminal(t)
<1>1. /\ "pc" \in DOMAIN r /\ "head" \in DOMAIN r /\ r.head = turn[t].head
      /\ r.pc = "settled" /\ r.pc \notin Early \cup Running
  BY AtFields DEF TurnInv, Running, Early
<1>2. turn[t].pc = "catch" /\ prime' = prime /\ turn' = [turn EXCEPT ![t] = r]
  BY DEF Catch, pageVars, Goto
<1>3. Becomes(t, r) /\ r.head \in 0..Len(log)
  BY <1>1, <1>2 DEF Becomes, TurnInv, Preflights
<1>4. e.turn = t /\ e.type \notin {Asks, Selects}
  BY DEF Terminal, Event, Asks, Selects
<1>5. log' = log \/ (~Terminated(log, t) /\ log' = log \o <<e>>)
  BY DEF Catch, AlreadyTerminal, Keep, Commit
<1> HIDE DEF r, e
<1>6. CASE log' = log
  BY <1>1, <1>2, <1>3, <1>6, QuietMove
<1>7. CASE ~Terminated(log, t) /\ log' = log \o <<e>>
  <2>1. Holds(t)
    BY <1>2, <1>7, Words DEF TurnInv, Holders, Journal
  <2> DEFINE events == <<e>>
  <2>2. events \in Seq({e}) /\ Len(events) = 1 /\ events[1] = e
    OBVIOUS
  <2>3. log' = log \o events
    BY <1>7
  <2> HIDE DEF events
  <2>4. \A n \in 1..Len(events) : events[n] = e /\ ~(n < Len(events))
    BY <2>2
  <2>5. Records(t, events)
    BY <1>4, <2>2, <2>4 DEF Records, IsSeq
  <2> QED BY <1>1, <1>2, <1>3, <2>1, <2>3, <2>5, RecordMove
<1> QED BY <1>5, <1>6, <1>7

LEMMA CrashStep ==
  ASSUME TurnInv, NEW t \in Turns, Crash(t)
  PROVE  TurnInv'
<1> DEFINE r == At(t, "crashed")
<1>1. /\ "pc" \in DOMAIN r /\ "head" \in DOMAIN r /\ r.head = turn[t].head
      /\ r.pc = "crashed" /\ r.pc \notin Early \cup Running
  BY AtFields DEF TurnInv, Running, Early
<1>2. log' = log /\ prime' = prime /\ turn' = [turn EXCEPT ![t] = r]
  BY DEF Crash, pageVars, Goto, Keep
<1>3. Becomes(t, r) /\ r.head \in 0..Len(log)
  BY <1>1, <1>2 DEF Becomes, TurnInv, Preflights
<1> HIDE DEF r
<1> QED BY <1>1, <1>2, <1>3, QuietMove

\* Beside the turns: nothing here touches them.
LEMMA StillMove ==
  ASSUME TurnInv, log' = log, turn' = turn,
         \/ prime' = prime
         \/ prime' = Idle
         \/ Unstarted /\ prime' = [claiming |-> TRUE, head |-> Len(log)]
  PROVE  TurnInv'
<1>1. /\ Journal' = Journal /\ Unclaimed' = Unclaimed /\ AllEnded' = AllEnded
      /\ Unstarted' = Unstarted
      /\ \A u : Holds(u)' = Holds(u) /\ Ended(u)' = Ended(u)
  BY DEF Journal, Unclaimed, AllEnded, Unstarted, Overlapless, Bracketed, HasNewest,
         Holds, Ended
<1>2. TurnRecords' /\ Preflights' /\ Holders'
  BY <1>1 DEF TurnInv, TurnRecords, Preflights, Holders
<1>3. Len(log) \in Nat
  BY LogLength DEF TurnInv, Journal
<1>4. Claim'
  BY <1>1, <1>3 DEF TurnInv, Claim, Idle
<1> QED BY <1>1, <1>2, <1>4 DEF TurnInv

LEMMA BesideStep ==
  ASSUME TurnInv, CoreAssumption, Environment
  PROVE  TurnInv'
<1>1. ASSUME NEW t \in Turns, Crash(t) PROVE TurnInv'
  BY <1>1, CrashStep
<1>2. ASSUME NEW t \in Turns, Abort(t) PROVE TurnInv'
  BY <1>2, StillMove DEF Abort, Keep
<1>3. ASSUME NEW m \in Models, ChangeModel(m) PROVE TurnInv'
  <2> DEFINE e == ModelChanged(m)
  <2>1. e.turn = 0 /\ e.type \notin Ends \cup {Asks, Selects}
    BY DEF ModelChanged, NoTurn, Ends, Asks, Selects
  <2>2. log' = log \o <<e>> /\ turn' = turn /\ prime' = prime
    BY <1>3 DEF ChangeModel, Commit, pageVars
  <2> HIDE DEF e
  <2> QED BY <2>1, <2>2, OutsideMove
<1>4. ASSUME NEW m \in Modes, JournalMode(m) PROVE TurnInv'
  <2> DEFINE e == [type |-> "session.approval-policy-changed", turn |-> NoTurn,
                   op |-> NoOp, mode |-> m]
  <2>1. e.turn = 0 /\ e.type \notin Ends \cup {Asks, Selects}
    BY DEF NoTurn, Ends, Asks, Selects
  <2>2. log' = log \o <<e>> /\ turn' = turn /\ prime' = prime
    BY <1>4 DEF JournalMode, Commit
  <2> HIDE DEF e
  <2> QED BY <2>1, <2>2, OutsideMove
<1>5. CASE ReplacePolicy
  BY <1>5, StillMove DEF ReplacePolicy, Keep
<1>6. CASE PrimeClassifies
  <2>1. Unstarted
    BY <1>6, Words DEF PrimeClassifies, TurnInv, Journal
  <2> QED BY <1>6, <2>1, StillMove DEF PrimeClassifies, Keep
<1>7. CASE PrimeClaims
  <2> DEFINE e == Event("prime.runtime-selected", NoTurn, NoOp)
  <2>1. e.turn = 0 /\ e.type \notin Ends \cup {Asks}
    BY DEF Event, NoTurn, Ends, Asks
  <2>2. /\ turn' = turn /\ prime' = Idle
        /\ log' = log \/ (prime.claiming /\ prime.head = Len(log) /\ log' = log \o <<e>>)
    BY <1>7 DEF PrimeClaims, ClaimAtHead, Commit, Keep
  <2> HIDE DEF e
  <2>3. CASE log' = log
    BY <2>2, <2>3, StillMove
  <2>4. CASE prime.claiming /\ prime.head = Len(log) /\ log' = log \o <<e>>
    <3>1. Unstarted
      BY <2>4 DEF TurnInv, Claim
    <3> QED BY <2>1, <2>2, <2>4, <3>1, OutsideMove
  <2> QED BY <2>2, <2>3, <2>4
<1> QED BY <1>1, <1>2, <1>3, <1>4, <1>5, <1>6, <1>7 DEF Environment

LEMMA TurnsInit ==
  ASSUME Init
  PROVE  TurnInv
<1>1. log = <<>> /\ Len(log) = 0 /\ IsSeq(log)
  <2>1. <<>> \in Seq({}) /\ Len(<<>>) = 0
    OBVIOUS
  <2> QED BY <2>1 DEF Init, IsSeq
<1>2. Journal
  BY <1>1 DEF Journal, Unclaimed, Unstarted, Overlapless, Bracketed, HasNewest
<1>3. /\ turn = [t \in Turns |-> NewTurn]
      /\ "pc" \in DOMAIN NewTurn /\ "head" \in DOMAIN NewTurn
      /\ NewTurn.pc = "new" /\ NewTurn.head = 0
  BY DEF Init, NewTurn
<1>4. TurnRecords
  BY <1>3 DEF TurnRecords
<1>5. Preflights /\ Holders
  BY <1>1, <1>3 DEF Preflights, Holders, Running
<1>6. Claim
  BY <1>1 DEF Init, Idle, Claim
<1> QED BY <1>2, <1>4, <1>5, <1>6 DEF TurnInv

LEMMA TurnsInvariant ==
  ASSUME CoreAssumption
  PROVE  Spec => []TurnInv
<1>1. Init => TurnInv
  BY TurnsInit
<1>2. TurnInv /\ [Next]_vars => TurnInv'
  <2>1. SUFFICES ASSUME TurnInv, [Next]_vars PROVE TurnInv'
    OBVIOUS
  <2>2. CASE UNCHANGED vars
    BY <2>1, <2>2, StillMove DEF vars, pageVars
  <2>3. CASE Environment
    BY <2>1, <2>3, BesideStep
  <2>4. ASSUME NEW t \in Turns, TurnStep(t) PROVE TurnInv'
    BY <2>1, <2>4, SnapshotStep, CheckStep, AdmitStep, SelectContextStep, CompressStep,
       RestatePlanStep, ReadHistoryStep, StartInferenceStep, ProposesCallsStep,
       CompletesStep, FailsStep, TakeBatchStep, EndStepStep, EndBatchStep, RecordStep,
       CatchStep, ReviewStep, ExecuteStep
    DEF TurnStep
  <2> QED BY <2>1, <2>2, <2>3, <2>4 DEF Next
<1> QED BY <1>1, <1>2, PTL DEF Spec

(***************************************************************************)
(* A conversation has one engine and one turn at a time under the core     *)
(* engine (runTurn, runPrimeTurn's claim), for any number of tabs, turns,  *)
(* prompts, replies, journal faults and crashes: appendAtHead refuses      *)
(* whoever was outrun, a request that was lost or abandoned keeps every    *)
(* later turn out, and a turn's records lie between its request and its    *)
(* one end.                                                                *)
(***************************************************************************)
THEOREM TurnsAreSerial ==
  ASSUME CoreAssumption
  PROVE  Spec => []OneTurnOneEngine
<1>1. TurnInv => OneTurnOneEngine
  BY JournalIsOrderly DEF TurnInv
<1> QED BY <1>1, TurnsInvariant, PTL
-------------------------------------------------------------------------------
(* The library. *)

CONSTANTS Pages, Sessions, None, Present, Starred, Operations, Routes, Attempts, MaxCalls,
          MaxStamps, MaxTurns
VARIABLES life, drawn, lineage, call, seen, calls, turns, voided

L == INSTANCE SessionLibrary

Reads == {"fork", "inspect", "repin"}

\* Where a call of each operation can stand before it answers.
Lane ==
  [o \in {"none", "star", "unstar", "move", "select", "delete", "deleteRow"} \cup Reads |->
     CASE o = "none" -> {}
       [] o \in {"star", "unstar"} -> {"get", "list", "project", "head", "commit"}
       [] o = "move" -> {"list", "project", "head", "commit"}
       [] o = "select" -> {"get", "list", "project", "confirm", "commit"}
       [] o = "delete" -> {"remove", "clean"}
       [] o = "deleteRow" -> {"get", "remove", "clean"}
       [] o = "fork" -> {"get", "events", "stable", "fresh", "create", "seed"}
       [] o = "inspect" -> {"get", "events", "after"}
       [] o = "repin" -> {"events", "route", "head", "commit"}]

Places ==
  {"idle", "ok", "unstable", "unknown", "conflict", "refused", "failed", "cleanup",
   "get", "list", "project", "head", "commit", "confirm", "remove", "clean",
   "events", "stable", "fresh", "create", "seed", "after", "route"}

LibraryCalls ==
  [op : DOMAIN Lane, s : Sessions \cup {None},
   arg : Sessions \cup {None} \cup Routes \cup {"audited", "unread"},
   pc : Places, tries : Nat, head : Nat, to : Sessions \cup {None}]

Begins(a, b) == IsSeq(a) /\ Len(a) <= Len(b) /\ \A i \in 1..Len(a) : a[i] = b[i]

(***************************************************************************)
(* The inductive invariant.  A log only grows and a deleted conversation   *)
(* does not come back.  So what a call read of its conversation is the     *)
(* beginning of the log for as long as the conversation lives, no shorter  *)
(* than the head it had before it read; and if the head is the same after  *)
(* the read, the events are exactly those of the head.                     *)
(***************************************************************************)
LibraryTyped ==
  /\ life \in [Sessions -> {"unborn", "live", "marked", "gone"}]
  /\ log = [s \in Sessions |-> log[s]] /\ \A s \in Sessions : IsSeq(log[s])
  /\ lineage = [s \in Sessions |-> lineage[s]]
  /\ call \in [Pages -> LibraryCalls]
  /\ seen = [p \in Pages |-> seen[p]]

\* A call stands in its lane, at a conversation that was there when it began.
Stands(p) ==
  /\ call[p].pc \in L!Answers \cup Lane[call[p].op]
  /\ call[p].op # "none" => call[p].s \in Sessions /\ life[call[p].s] # "unborn"

\* What it has read of it.
OwnRead(p) ==
  LET c == call[p]
      l == log[c.s]
      r == seen[p][c.s] IN
  /\ c.op \in {"fork", "inspect"} /\ c.pc = "events" => c.head <= Len(l)
  /\ c.op \in Reads /\ c.pc \in {"after", "stable", "route"} /\ life[c.s] = "live" =>
       Begins(r, l) /\ (c.op # "repin" => c.head <= Len(r))
  /\ c.op = "fork" /\ c.pc \in {"fresh", "create"} => Begins(r, l) /\ c.head = Len(r)
  /\ c.op = "inspect" /\ c.pc = "ok" => Len(r) = c.head

Sourced(s) ==
  lineage[s].source # None =>
    /\ lineage[s].source \in Sessions
    /\ lineage[s].head \in 0..Len(log[lineage[s].source])
    /\ lineage[s].boundary =
         L!LastBoundary(SubSeq(log[lineage[s].source], 1, lineage[s].head))

LibraryInv ==
  /\ LibraryTyped
  /\ \A p \in Pages : Stands(p) /\ OwnRead(p)
  /\ \A s \in Sessions : Sourced(s)

\* What every step does to the conversations.
Onward ==
  /\ log' = [s \in Sessions |-> log'[s]]
  /\ \A s \in Sessions : /\ IsSeq(log'[s]) /\ Len(log[s]) \in Nat /\ Len(log'[s]) \in Nat
                         /\ Begins(log[s], log'[s])
  /\ life' \in [Sessions -> {"unborn", "live", "marked", "gone"}]
  /\ \A s \in Sessions :
       life[s] # "unborn" => life'[s] # "unborn" /\ (life'[s] = "live" => life[s] = "live")
-------------------------------------------------------------------------------
\* A beginning of a log is one of what the log becomes.
LEMMA BeginsOn ==
  ASSUME NEW a, NEW b, NEW c, Begins(a, b), Begins(b, c), Len(a) \in Nat, Len(b) \in Nat,
         Len(c) \in Nat
  PROVE  Begins(a, c)
BY DEF Begins

LEMMA SeqLen ==
  ASSUME NEW a, IsSeq(a)
  PROVE  Len(a) \in Nat /\ DOMAIN a = 1..Len(a) /\ Begins(a, a)
<1>1. PICK S : a \in Seq(S)
  BY DEF IsSeq
<1>2. Len(a) \in Nat /\ DOMAIN a = 1..Len(a)
  BY <1>1
<1> QED BY <1>2 DEF Begins

\* The events up to a head stay what they are.
LEMMA SameHead ==
  ASSUME NEW a, NEW b, IsSeq(a), IsSeq(b), Begins(a, b), NEW h \in 0..Len(a)
  PROVE  SubSeq(a, 1, h) = SubSeq(b, 1, h)
<1>1. PICK S : a \in Seq(S)
  BY DEF IsSeq
<1>2. PICK T : b \in Seq(T)
  BY DEF IsSeq
<1>3. a \in Seq(S \cup T) /\ b \in Seq(S \cup T) /\ Len(a) \in Nat /\ Len(b) \in Nat
  BY <1>1, <1>2
<1>4. \A i \in 1..h : a[i] = b[i] /\ i \in 1..Len(a) /\ i \in 1..Len(b)
  BY <1>3 DEF Begins
<1>5. SubSeq(a, 1, h) = [i \in 1..h |-> a[i]] /\ SubSeq(b, 1, h) = [i \in 1..h |-> b[i]]
  BY <1>3, <1>4
<1> QED BY <1>4, <1>5

LEMMA WholeHead ==
  ASSUME NEW a, NEW b, IsSeq(b), Begins(a, b)
  PROVE  SubSeq(b, 1, Len(a)) = a
<1>1. PICK S : a \in Seq(S)
  BY DEF IsSeq, Begins
<1>2. Len(a) \in Nat /\ a = [i \in 1..Len(a) |-> a[i]]
  BY <1>1
<1>3. SubSeq(a, 1, Len(a)) = [i \in 1..Len(a) |-> a[i]]
  BY <1>1, <1>2
<1>4. SubSeq(a, 1, Len(a)) = SubSeq(b, 1, Len(a))
  BY <1>2, SameHead DEF Begins
<1> QED BY <1>2, <1>3, <1>4
-------------------------------------------------------------------------------
LEMMA LogLengths ==
  ASSUME LibraryTyped
  PROVE  \A s \in Sessions : Len(log[s]) \in Nat /\ Begins(log[s], log[s])
BY SeqLen DEF LibraryTyped

\* A step that touches no conversation.
LEMMA NothingWritten ==
  ASSUME LibraryTyped, log' = log, life' = life
  PROVE  Onward
BY LogLengths DEF LibraryTyped, Onward

\* A step that appends to one conversation.
LEMMA OneAppend ==
  ASSUME LibraryTyped, NEW s \in Sessions, NEW e, IsSeq(e), life' = life,
         log' = [log EXCEPT ![s] = @ \o e]
  PROVE  Onward
<1>1. log'[s] = log[s] \o e /\ \A u \in Sessions : u # s => log'[u] = log[u]
  BY DEF LibraryTyped
<1>2. /\ IsSeq(log[s] \o e) /\ Len(log[s]) \in Nat /\ Len(e) \in Nat
      /\ Len(log[s] \o e) = Len(log[s]) + Len(e)
      /\ \A i \in 1..Len(log[s]) : (log[s] \o e)[i] = log[s][i]
  BY Appended DEF LibraryTyped
<1>3. log' = [u \in Sessions |-> log'[u]]
  BY DEF LibraryTyped
<1>4. ASSUME NEW u \in Sessions
      PROVE  /\ IsSeq(log'[u]) /\ Len(log[u]) \in Nat /\ Len(log'[u]) \in Nat
             /\ Begins(log[u], log'[u])
  <2>1. CASE u = s
    BY <1>1, <1>2, <2>1 DEF LibraryTyped, Begins
  <2>2. CASE u # s
    BY <1>1, <2>2, LogLengths DEF LibraryTyped
  <2> QED BY <2>1, <2>2
<1> QED BY <1>3, <1>4 DEF Onward, LibraryTyped

LEMMA OneEvent ==
  ASSUME LibraryTyped, NEW s \in Sessions, NEW e, life' = life,
         log' = [log EXCEPT ![s] = Append(@, e)]
  PROVE  Onward
<1>1. PICK S : log[s] \in Seq(S)
  BY DEF LibraryTyped, IsSeq
<1>2. log[s] \in Seq(S \cup {e}) /\ <<e>> \in Seq({e})
  BY <1>1
<1>3. Append(log[s], e) = log[s] \o <<e>>
  BY <1>2
<1>4. log' = [log EXCEPT ![s] = @ \o <<e>>] /\ IsSeq(<<e>>)
  BY <1>2, <1>3 DEF IsSeq
<1> QED BY <1>4, OneAppend

\* The other pages' calls are where they were, and what they read is still true.
LEMMA OthersStay ==
  ASSUME LibraryInv, Onward, NEW q \in Pages, call'[q] = call[q], seen'[q] = seen[q]
  PROVE  Stands(q)' /\ OwnRead(q)'
<1> DEFINE c == call[q]
           s == c.s
           r == seen[q][s]
<1>1. Stands(q) /\ OwnRead(q) /\ call[q] \in LibraryCalls
  BY DEF LibraryInv, LibraryTyped
<1>2. Stands(q)'
  BY <1>1 DEF Stands, Onward
<1>3. CASE c.op = "none"
  BY <1>1, <1>2, <1>3 DEF OwnRead, Reads
<1>4. CASE c.op # "none"
  <2>1. /\ s \in Sessions /\ Begins(log[s], log'[s]) /\ Len(log[s]) \in Nat
        /\ Len(log'[s]) \in Nat /\ (life'[s] = "live" => life[s] = "live") /\ c.head \in Nat
    BY <1>1, <1>4 DEF Stands, Onward, LibraryCalls
  <2>2. Begins(r, log[s]) => Begins(r, log'[s])
    <3>1. Begins(r, log[s]) => Len(r) \in Nat
      BY SeqLen DEF Begins
    <3> QED BY <2>1, <3>1, BeginsOn
  <2>3. c.head <= Len(log[s]) => c.head <= Len(log'[s])
    BY <2>1 DEF Begins
  <2> QED BY <1>1, <1>2, <2>1, <2>2, <2>3 DEF OwnRead
<1> QED BY <1>2, <1>3, <1>4

\* Forks still describe their sources.
LEMMA SourcesStay ==
  ASSUME LibraryInv, Onward, NEW s \in Sessions, lineage'[s] = lineage[s]
  PROVE  Sourced(s)'
<1> DEFINE o == lineage[s].source
           h == lineage[s].head
<1>1. CASE o = None
  BY <1>1 DEF Sourced
<1>2. CASE o # None
  <2>1. Sourced(s) /\ o \in Sessions /\ h \in 0..Len(log[o])
    BY <1>2 DEF LibraryInv, Sourced
  <2>2. /\ IsSeq(log[o]) /\ IsSeq(log'[o]) /\ Begins(log[o], log'[o])
        /\ Len(log[o]) \in Nat /\ Len(log'[o]) \in Nat
    BY <2>1 DEF LibraryInv, LibraryTyped, Onward
  <2>3. SubSeq(log[o], 1, h) = SubSeq(log'[o], 1, h)
    BY <2>1, <2>2, SameHead
  <2>6. h \in 0..Len(log'[o])
    BY <2>1, <2>2 DEF Begins
  <2>4. lineage[s].boundary = L!LastBoundary(SubSeq(log[o], 1, h))
    BY <1>2, <2>1 DEF Sourced
  <2>5. lineage[s].boundary = L!LastBoundary(SubSeq(log'[o], 1, h))
    BY <2>3, <2>4, Zenon
  <2> QED BY <2>1, <2>5, <2>6 DEF Sourced
<1> QED BY <1>1, <1>2

\* What the pages but p have read stays.
ReadsStay(p) ==
  /\ seen' = [q \in Pages |-> seen'[q]]
  /\ \A q \in Pages : q # p => seen'[q] = seen[q]

LEMMA ReadsStayIf ==
  ASSUME LibraryTyped, NEW p \in Pages
  PROVE  /\ seen' = seen => ReadsStay(p)
         /\ \A r : seen' = [seen EXCEPT ![p] = r] => ReadsStay(p) /\ seen'[p] = r
BY DEF LibraryTyped, ReadsStay

\* A step of one page's call.
LEMMA PageSteps ==
  ASSUME LibraryInv, Onward, NEW p \in Pages, NEW c \in LibraryCalls,
         call' = [call EXCEPT ![p] = c], ReadsStay(p),
         Stands(p)', OwnRead(p)', lineage' = lineage
  PROVE  LibraryInv'
<1>1. LibraryTyped'
  BY DEF LibraryInv, LibraryTyped, Onward, ReadsStay
<1>2. \A q \in Pages : q # p => call'[q] = call[q] /\ seen'[q] = seen[q]
  BY DEF LibraryInv, LibraryTyped, ReadsStay
<1>3. \A q \in Pages : Stands(q)' /\ OwnRead(q)'
  BY <1>2, OthersStay
<1>4. \A s \in Sessions : Sourced(s)'
  BY SourcesStay
<1> QED BY <1>1, <1>3, <1>4 DEF LibraryInv
-------------------------------------------------------------------------------
LEMMA LaneIs ==
  /\ DOMAIN Lane = {"none", "star", "unstar", "move", "select", "delete", "deleteRow",
                    "fork", "inspect", "repin"}
  /\ Lane["none"] = {}
  /\ \A o \in {"star", "unstar"} : Lane[o] = {"get", "list", "project", "head", "commit"}
  /\ Lane["move"] = {"list", "project", "head", "commit"}
  /\ Lane["select"] = {"get", "list", "project", "confirm", "commit"}
  /\ Lane["delete"] = {"remove", "clean"} /\ Lane["deleteRow"] = {"get", "remove", "clean"}
  /\ Lane["fork"] = {"get", "events", "stable", "fresh", "create", "seed"}
  /\ Lane["inspect"] = {"get", "events", "after"}
  /\ Lane["repin"] = {"events", "route", "head", "commit"}
BY DEF Lane, Reads

LEMMA FirstStepIs ==
  ASSUME NEW o \in DOMAIN Lane \ {"none"}
  PROVE  /\ L!FirstStep(o) \in Lane[o] /\ L!FirstStep(o) \in {"list", "events", "remove", "get"}
         /\ o \in {"fork", "inspect"} => L!FirstStep(o) = "get"
<1>1. L!FirstStep(o) = CASE o = "move" -> "list" [] o = "repin" -> "events"
                         [] o = "delete" -> "remove" [] OTHER -> "get"
  BY DEF L!FirstStep
<1>2. CASE o = "move"
  BY <1>1, <1>2, LaneIs
<1>3. CASE o = "repin"
  BY <1>1, <1>3, LaneIs
<1>4. CASE o = "delete"
  BY <1>1, <1>4, LaneIs
<1>5. CASE o \notin {"move", "repin", "delete"}
  <2>1. L!FirstStep(o) = "get"
    BY <1>1, <1>5
  <2>2. o \in {"star", "unstar", "select", "deleteRow", "fork", "inspect"}
    BY <1>5, LaneIs
  <2>3. "get" \in Lane[o]
    BY <2>2, LaneIs
  <2> QED BY <2>1, <2>3
<1> QED BY <1>2, <1>3, <1>4, <1>5

LEMMA LibraryStarts ==
  ASSUME L!LibraryAssumption, L!Init
  PROVE  LibraryInv
<1>1. LibraryTyped
  <2>1. /\ life \in [Sessions -> {"unborn", "live", "marked", "gone"}]
        /\ call \in [Pages -> LibraryCalls]
        /\ seen = [p \in Pages |-> seen[p]] /\ lineage = [s \in Sessions |-> lineage[s]]
    <3>1. /\ life = [s \in Sessions |-> IF s \in Present THEN "live" ELSE "unborn"]
          /\ call = [p \in Pages |-> L!Idle] /\ seen = [p \in Pages |-> << >>]
          /\ lineage = [s \in Sessions |-> L!NoLineage]
      BY DEF L!Init
    <3>2. "none" \in DOMAIN Lane
      BY DEF Lane
    <3>3. L!Idle \in LibraryCalls
      BY <3>2 DEF L!Idle, LibraryCalls, Places
    <3> QED BY <3>1, <3>3
  <2>2. PICK at :
          log = [s \in Sessions |->
                   CASE s \in Starred -> <<L!Created, L!Favorite(TRUE, at[s])>>
                     [] s \in Present \ Starred -> <<L!Created>>
                     [] OTHER -> << >>]
    BY DEF L!Init
  <2>3. \A s \in Sessions : IsSeq(log[s])
    <3>1. \A x, y : IsSeq(<<x, y>>) /\ IsSeq(<<x>>) /\ IsSeq(<< >>)
      <4> SUFFICES ASSUME NEW x, NEW y PROVE IsSeq(<<x, y>>) /\ IsSeq(<<x>>) /\ IsSeq(<< >>)
        OBVIOUS
      <4>1. <<x, y>> \in Seq({x, y}) /\ <<x>> \in Seq({x, y}) /\ << >> \in Seq({x, y})
        OBVIOUS
      <4> QED BY <4>1 DEF IsSeq
    <3> TAKE s \in Sessions
    <3>2. \/ log[s] = <<L!Created, L!Favorite(TRUE, at[s])>>
          \/ log[s] = <<L!Created>> \/ log[s] = << >>
      BY <2>2
    <3> QED BY <3>1, <3>2
  <2>4. log = [s \in Sessions |-> log[s]]
    BY <2>2
  <2> QED BY <2>1, <2>3, <2>4 DEF LibraryTyped
<1>2. \A p \in Pages : Stands(p) /\ OwnRead(p)
  BY DEF L!Init, L!Idle, Stands, OwnRead, L!Answers, Reads
<1>3. \A s \in Sessions : Sourced(s)
  BY DEF L!Init, L!NoLineage, Sourced
<1> QED BY <1>1, <1>2, <1>3 DEF LibraryInv

\* What a page's call is, taken apart.
LEMMA CallIs ==
  ASSUME LibraryInv, NEW p \in Pages
  PROVE  /\ call[p] \in LibraryCalls /\ Stands(p) /\ OwnRead(p)
         /\ call[p].pc \notin L!Answers =>
              /\ call[p].op \in DOMAIN Lane \ {"none"} /\ call[p].pc \in Lane[call[p].op]
              /\ call[p].s \in Sessions /\ life[call[p].s] # "unborn"
              /\ IsSeq(log[call[p].s]) /\ Len(log[call[p].s]) \in Nat
<1>1. call[p] \in LibraryCalls /\ Stands(p) /\ OwnRead(p) /\ call[p].op \in DOMAIN Lane
  BY DEF LibraryInv, LibraryTyped, LibraryCalls
<1>2. Lane["none"] = {}
  BY DEF Lane
<1>3. ASSUME call[p].pc \notin L!Answers
      PROVE  /\ call[p].op # "none" /\ call[p].pc \in Lane[call[p].op]
             /\ call[p].s \in Sessions /\ life[call[p].s] # "unborn"
  BY <1>1, <1>2, <1>3 DEF Stands
<1>4. \A s \in Sessions : IsSeq(log[s]) /\ Len(log[s]) \in Nat
  BY LogLengths DEF LibraryInv, LibraryTyped
<1> QED BY <1>1, <1>3, <1>4

LEMMA BeginKeeps ==
  ASSUME LibraryInv, L!LibraryAssumption, NEW p \in Pages, L!Begin(p)
  PROVE  LibraryInv'
<1>1. PICK o \in Operations, s \in {t \in Sessions : life[t] # "unborn"} :
      \E arg \in CASE o = "move" -> Sessions \cup {None}
                   [] o = "repin" -> Routes
                   [] o \in {"select", "fork"} -> {"audited", "unread"}
                   [] OTHER -> {None} :
        call' = [call EXCEPT ![p] = [op |-> o, s |-> s, arg |-> arg, pc |-> L!FirstStep(o),
                                     tries |-> 1, head |-> Len(log[s]), to |-> None]]
  BY DEF L!Begin
<1>2. PICK arg \in Sessions \cup {None} \cup Routes \cup {"audited", "unread"} :
        call' = [call EXCEPT ![p] = [op |-> o, s |-> s, arg |-> arg, pc |-> L!FirstStep(o),
                                     tries |-> 1, head |-> Len(log[s]), to |-> None]]
  BY <1>1
<1> DEFINE c == [op |-> o, s |-> s, arg |-> arg, pc |-> L!FirstStep(o),
                 tries |-> 1, head |-> Len(log[s]), to |-> None]
<1>3. /\ o \in DOMAIN Lane \ {"none"} /\ L!FirstStep(o) \in Lane[o]
      /\ L!FirstStep(o) \in {"list", "events", "remove", "get"}
      /\ o \in {"fork", "inspect"} => L!FirstStep(o) = "get"
  <2>1. o \in DOMAIN Lane \ {"none"}
    BY LaneIs DEF L!LibraryAssumption
  <2> QED BY <2>1, FirstStepIs
<1>4. Len(log[s]) \in Nat
  BY LogLengths DEF LibraryInv
<1>5. c \in LibraryCalls
  BY <1>3, <1>4 DEF LibraryCalls, Places
<1>6. call'[p] = c /\ log' = log /\ life' = life /\ lineage' = lineage /\ seen' = seen
  BY <1>2 DEF L!Begin, L!journal, LibraryInv, LibraryTyped
<1>7. Onward /\ ReadsStay(p)
  BY <1>6, NothingWritten, ReadsStayIf DEF LibraryInv
<1>8. Stands(p)'
  BY <1>3, <1>6 DEF Stands
<1>9. OwnRead(p)'
  BY <1>3, <1>6 DEF OwnRead
<1> QED BY <1>2, <1>5, <1>6, <1>7, <1>8, <1>9, PageSteps
-------------------------------------------------------------------------------
\* Places at which the invariant says nothing of what was read.
Plain(c) ==
  /\ c.pc \notin {"events", "after", "stable", "route", "fresh", "create"}
  /\ c.op = "inspect" => c.pc # "ok"

\* A call goes to such a place.
LEMMA PlainStep ==
  ASSUME LibraryInv, Onward, lineage' = lineage, NEW p \in Pages, call[p].pc \notin L!Answers,
         NEW c \in LibraryCalls, c.op = call[p].op, c.s = call[p].s,
         c.pc \in L!Answers \cup Lane[c.op], Plain(c),
         call' = [call EXCEPT ![p] = c], ReadsStay(p)
  PROVE  LibraryInv'
<1>1. call'[p] = c
  BY DEF LibraryInv, LibraryTyped
<1>2. c.s \in Sessions /\ life[c.s] # "unborn"
  BY CallIs
<1>3. Stands(p)'
  BY <1>1, <1>2 DEF Stands, Onward
<1>4. OwnRead(p)'
  BY <1>1 DEF OwnRead, Plain
<1> QED BY <1>3, <1>4, PageSteps

\* The same where only the place changes and nothing is written.
LEMMA PlainGo ==
  ASSUME LibraryInv, log' = log, life' = life, lineage' = lineage, seen' = seen,
         NEW p \in Pages, call[p].pc \notin L!Answers, NEW x \in Places,
         call' = [call EXCEPT ![p].pc = x],
         x \in L!Answers \cup Lane[call[p].op],
         x \notin {"events", "after", "stable", "route", "fresh", "create"},
         call[p].op = "inspect" => x # "ok"
  PROVE  LibraryInv'
<1> DEFINE c == [call[p] EXCEPT !.pc = x]
<1>1. call[p] \in LibraryCalls
  BY CallIs
<1>2. c \in LibraryCalls /\ c.op = call[p].op /\ c.s = call[p].s /\ c.pc = x
  BY <1>1 DEF LibraryCalls
<1>3. call' = [call EXCEPT ![p] = c] /\ ReadsStay(p)
  BY ReadsStayIf DEF LibraryInv, LibraryTyped
<1>4. Onward
  BY NothingWritten DEF LibraryInv
<1>5. Plain(c) /\ c.pc \in L!Answers \cup Lane[c.op]
  BY <1>2 DEF Plain
<1> HIDE DEF c
<1> QED BY <1>2, <1>3, <1>4, <1>5, PlainStep

LEMMA AnswersAre ==
  /\ L!Answers = {"idle", "ok", "unstable", "unknown", "conflict", "refused", "failed", "cleanup"}
  /\ L!Answers \subseteq Places
BY DEF L!Answers, Places

\* The operations that can stand at a place.
LEMMA WhoStands ==
  ASSUME LibraryInv, NEW p \in Pages, call[p].pc \notin L!Answers
  PROVE  /\ call[p].pc = "get" => call[p].op \in {"star", "unstar", "select", "deleteRow", "fork", "inspect"}
         /\ call[p].pc \in {"list", "project"} => call[p].op \in {"star", "unstar", "move", "select"}
         /\ call[p].pc = "confirm" => call[p].op = "select"
         /\ call[p].pc = "head" => call[p].op \in {"star", "unstar", "move", "repin"}
         /\ call[p].pc = "commit" => call[p].op \in {"star", "unstar", "move", "select", "repin"}
         /\ call[p].pc \in {"remove", "clean"} => call[p].op \in {"delete", "deleteRow"}
         /\ call[p].pc = "events" => call[p].op \in {"fork", "inspect", "repin"}
         /\ call[p].pc = "after" => call[p].op = "inspect"
         /\ call[p].pc = "route" => call[p].op = "repin"
         /\ call[p].pc \in {"stable", "fresh", "create", "seed"} => call[p].op = "fork"
<1>1. call[p].op \in DOMAIN Lane \ {"none"} /\ call[p].pc \in Lane[call[p].op]
  BY CallIs
<1>2. \/ call[p].op \in {"star", "unstar"} \/ call[p].op = "move" \/ call[p].op = "select"
      \/ call[p].op = "delete" \/ call[p].op = "deleteRow" \/ call[p].op = "fork"
      \/ call[p].op = "inspect" \/ call[p].op = "repin"
  BY <1>1, LaneIs
<1> QED BY <1>1, <1>2, LaneIs

LEMMA ListSessionsKeeps ==
  ASSUME LibraryInv, NEW p \in Pages, L!ListSessions(p)
  PROVE  LibraryInv'
<1>1. /\ call[p].pc = "list" /\ log' = log /\ life' = life /\ lineage' = lineage
      /\ call' = [call EXCEPT ![p].pc = "project"]
      /\ \E r : seen' = [seen EXCEPT ![p] = r]
  BY DEF L!ListSessions, L!At, L!Go, L!journal
<1>2. PICK r : seen' = [seen EXCEPT ![p] = r]
  BY <1>1
<1> DEFINE c == [call[p] EXCEPT !.pc = "project"]
<1>3. call[p].pc \notin L!Answers /\ call[p] \in LibraryCalls
  BY <1>1, CallIs DEF L!Answers
<1>4. call[p].op \in {"star", "unstar", "move", "select"}
  BY <1>1, <1>3, WhoStands
<1>5. /\ c \in LibraryCalls /\ c.op = call[p].op /\ c.s = call[p].s /\ c.pc = "project"
      /\ call' = [call EXCEPT ![p] = c]
  BY <1>1, <1>3 DEF LibraryCalls, Places
<1>6. c.pc \in Lane[c.op] /\ Plain(c)
  BY <1>4, <1>5, LaneIs DEF Plain
<1>7. Onward /\ ReadsStay(p)
  BY <1>1, <1>2, NothingWritten, ReadsStayIf DEF LibraryInv
<1> HIDE DEF c
<1> QED BY <1>1, <1>3, <1>5, <1>6, <1>7, PlainStep

LEMMA ReadEventsKeeps ==
  ASSUME LibraryInv, NEW p \in Pages, L!ReadEvents(p)
  PROVE  LibraryInv'
<1>1. /\ call[p].pc = "project" /\ log' = log /\ life' = life /\ lineage' = lineage
      /\ call' = call
      /\ \E s \in {t \in DOMAIN seen[p] : seen[p][t] = L!Unread} :
           seen' = [seen EXCEPT ![p][s] = IF life[s] = "live" THEN log[s] ELSE << >>]
  BY DEF L!ReadEvents, L!At, L!journal
<1>2. PICK s : seen' = [seen EXCEPT ![p][s] = IF life[s] = "live" THEN log[s] ELSE << >>]
  BY <1>1
<1>3. ReadsStay(p)
  BY <1>2 DEF LibraryInv, LibraryTyped, ReadsStay
<1>4. call[p].pc \notin L!Answers
  BY <1>1 DEF L!Answers
<1>5. call[p] \in LibraryCalls /\ call[p].pc \in Lane[call[p].op]
  BY <1>4, CallIs
<1>6. Plain(call[p])
  BY <1>1 DEF Plain
<1>7. Onward /\ call' = [call EXCEPT ![p] = call[p]]
  BY <1>1, NothingWritten DEF LibraryInv, LibraryTyped
<1> QED BY <1>1, <1>3, <1>4, <1>5, <1>6, <1>7, PlainStep

\* What an action of p that starts at place x assumes.
LEMMA From ==
  ASSUME LibraryInv, NEW p \in Pages, NEW x \in Places \ L!Answers, L!At(p, x)
  PROVE  call[p].pc = x /\ call[p].pc \notin L!Answers
BY DEF L!At

LEMMA DecisionsKeep ==
  ASSUME LibraryInv, NEW p \in Pages,
         \/ L!DecideFavorite(p) \/ L!DecideMove(p) \/ L!DecideSelect(p) \/ L!ConfirmSelect(p)
  PROVE  LibraryInv'
<1>1. CASE L!DecideFavorite(p) \/ L!DecideMove(p) \/ L!DecideSelect(p)
  <2>1. /\ call[p].pc = "project" /\ log' = log /\ life' = life /\ lineage' = lineage /\ seen' = seen
        /\ call[p].op \in {"star", "unstar", "move", "select"}
    BY <1>1 DEF L!DecideFavorite, L!DecideMove, L!DecideSelect, L!Projected, L!At, L!Op, L!journal
  <2>2. PICK x \in {"ok", "refused", "head", "confirm", "commit"} :
          /\ call' = [call EXCEPT ![p].pc = x]
          /\ IF call[p].op = "select" THEN x \in {"confirm", "commit"}
             ELSE x \in {"ok", "refused", "head"}
    <3>1. CASE L!DecideFavorite(p)
      BY <3>1 DEF L!DecideFavorite, L!Go, L!Op
    <3>2. CASE L!DecideMove(p)
      BY <3>2 DEF L!DecideMove, L!Go, L!Op
    <3>3. CASE L!DecideSelect(p)
      BY <3>3 DEF L!DecideSelect, L!Go, L!Op
    <3> QED BY <1>1, <3>1, <3>2, <3>3
  <2>3. x \in L!Answers \cup Lane[call[p].op] /\ call[p].pc \notin L!Answers /\ x \in Places
    BY <2>1, <2>2, LaneIs, AnswersAre DEF Places
  <2> QED BY <2>1, <2>2, <2>3, PlainGo
<1>2. CASE L!ConfirmSelect(p)
  <2>1. /\ call[p].pc = "confirm" /\ log' = log /\ life' = life /\ lineage' = lineage /\ seen' = seen
        /\ \E x \in {"ok", "conflict"} : call' = [call EXCEPT ![p].pc = x]
    BY <1>2 DEF L!ConfirmSelect, L!At, L!journal, L!Ends
  <2>2. PICK x \in {"ok", "conflict"} : call' = [call EXCEPT ![p].pc = x]
    BY <2>1
  <2>3. x \in L!Answers /\ call[p].pc \notin L!Answers /\ x \in Places
    BY <2>1, AnswersAre
  <2>4. call[p].op = "select"
    BY <2>1, <2>3, WhoStands
  <2> QED BY <2>1, <2>2, <2>3, <2>4, PlainGo
<1> QED BY <1>1, <1>2

LEMMA FailsKeeps ==
  ASSUME LibraryInv, NEW p \in Pages, L!Fails(p)
  PROVE  LibraryInv'
<1>1. /\ call[p].pc \notin L!Answers /\ log' = log /\ life' = life /\ lineage' = lineage /\ seen' = seen
      /\ call' = [call EXCEPT ![p].pc = "failed"]
  BY DEF L!Fails, L!Ends, L!journal
<1> QED BY <1>1, AnswersAre, PlainGo

LEMMA ReadHeadKeeps ==
  ASSUME LibraryInv, NEW p \in Pages, L!ReadHead(p)
  PROVE  LibraryInv'
<1>1. /\ call[p].pc = "head" /\ log' = log /\ life' = life /\ lineage' = lineage /\ seen' = seen
      /\ call' = [call EXCEPT ![p] =
           IF life[call[p].s] = "live"
           THEN [call[p] EXCEPT !.head = Len(log[call[p].s]), !.pc = "commit"]
           ELSE [call[p] EXCEPT !.pc = "unknown"]]
  BY DEF L!ReadHead, L!At, L!Item, L!journal
<1>2. /\ call[p].pc \notin L!Answers /\ call[p] \in LibraryCalls /\ Len(log[call[p].s]) \in Nat
      /\ call[p].op \in {"star", "unstar", "move", "repin"}
  BY <1>1, CallIs, WhoStands, AnswersAre
<1>3. Onward /\ ReadsStay(p)
  BY <1>1, NothingWritten, ReadsStayIf DEF LibraryInv
<1>4. CASE life[call[p].s] = "live"
  <2> DEFINE c == [call[p] EXCEPT !.head = Len(log[call[p].s]), !.pc = "commit"]
  <2>1. c \in LibraryCalls /\ c.op = call[p].op /\ c.s = call[p].s /\ c.pc = "commit"
    BY <1>2 DEF LibraryCalls, Places
  <2>2. call' = [call EXCEPT ![p] = c]
    BY <1>1, <1>4
  <2>3. c.pc \in Lane[c.op] /\ Plain(c)
    BY <1>2, <2>1, LaneIs DEF Plain
  <2> HIDE DEF c
  <2> QED BY <1>1, <1>2, <1>3, <2>1, <2>2, <2>3, PlainStep
<1>5. CASE life[call[p].s] # "live"
  <2>1. call' = [call EXCEPT ![p].pc = "unknown"]
    BY <1>1, <1>5
  <2> QED BY <1>1, <1>2, <2>1, AnswersAre, PlainGo
<1> QED BY <1>4, <1>5

\* A refused append starts over or gives up.
LEMMA RefusedIs ==
  ASSUME NEW c \in LibraryCalls, c.op \in {"star", "unstar", "move", "select", "repin"}
  PROVE  /\ L!Refused(c) \in LibraryCalls /\ L!Refused(c).op = c.op /\ L!Refused(c).s = c.s
         /\ L!Refused(c).pc \in L!Answers \cup Lane[c.op] /\ Plain(L!Refused(c))
<1>1. CASE c.op \in {"star", "unstar", "move"} /\ c.tries < Attempts
  <2>1. L!Refused(c) = [c EXCEPT !.tries = @ + 1, !.pc = L!FirstStep(c.op)]
    BY <1>1 DEF L!Refused
  <2>2. L!FirstStep(c.op) \in Lane[c.op] /\ L!FirstStep(c.op) \in {"list", "get"}
    BY <1>1, LaneIs DEF L!FirstStep
  <2>3. /\ L!Refused(c) \in LibraryCalls /\ L!Refused(c).op = c.op /\ L!Refused(c).s = c.s
        /\ L!Refused(c).pc = L!FirstStep(c.op)
    <3> DEFINE n == c.tries + 1
               x == L!FirstStep(c.op)
    <3>1. n \in Nat /\ x \in Places /\ L!Refused(c) = [c EXCEPT !.tries = n, !.pc = x]
      BY <2>1, <2>2 DEF LibraryCalls, Places
    <3> HIDE DEF n, x
    <3>2. LET d == [c EXCEPT !.tries = n, !.pc = x] IN
          d \in LibraryCalls /\ d.op = c.op /\ d.s = c.s /\ d.pc = x
      BY <3>1 DEF LibraryCalls
    <3> QED BY <3>1, <3>2 DEF x
  <2> QED BY <1>1, <2>2, <2>3 DEF Plain
<1>2. CASE ~(c.op \in {"star", "unstar", "move"} /\ c.tries < Attempts)
  <2>1. L!Refused(c) = [c EXCEPT !.pc = "conflict"]
    BY <1>2 DEF L!Refused
  <2>2. /\ L!Refused(c) \in LibraryCalls /\ L!Refused(c).op = c.op /\ L!Refused(c).s = c.s
        /\ L!Refused(c).pc = "conflict"
    BY <2>1 DEF LibraryCalls, Places
  <2> QED BY <2>2, AnswersAre DEF Plain
<1> QED BY <1>1, <1>2

LEMMA CommitKeeps ==
  ASSUME LibraryInv, NEW p \in Pages, L!Commit(p)
  PROVE  LibraryInv'
<1> DEFINE s == call[p].s
           free == life[s] = "live" /\ Len(log[s]) = call[p].head
<1>1. /\ call[p].pc = "commit" /\ life' = life /\ lineage' = lineage
      /\ seen' = [seen EXCEPT ![p] = << >>]
  BY DEF L!Commit, L!At, L!Item
<1>2. /\ call[p].pc \notin L!Answers /\ call[p] \in LibraryCalls /\ s \in Sessions
      /\ call[p].op \in {"star", "unstar", "move", "select", "repin"}
  BY <1>1, CallIs, WhoStands, AnswersAre
<1>3. ReadsStay(p)
  BY <1>1, ReadsStayIf DEF LibraryInv
<1>4. CASE ~free
  <2>1. /\ log' = log
        /\ call' = [call EXCEPT ![p] =
             IF life[s] = "live" THEN L!Refused(call[p]) ELSE [call[p] EXCEPT !.pc = "unknown"]]
    BY <1>4 DEF L!Commit, L!Item
  <2>2. Onward
    BY <1>1, <2>1, NothingWritten DEF LibraryInv
  <2>3. CASE life[s] = "live"
    <3>1. call' = [call EXCEPT ![p] = L!Refused(call[p])]
      BY <2>1, <2>3
    <3>2. /\ L!Refused(call[p]) \in LibraryCalls /\ L!Refused(call[p]).op = call[p].op
          /\ L!Refused(call[p]).s = call[p].s /\ Plain(L!Refused(call[p]))
          /\ L!Refused(call[p]).pc \in L!Answers \cup Lane[L!Refused(call[p]).op]
      BY <1>2, RefusedIs
    <3> QED BY <1>1, <1>2, <1>3, <2>2, <3>1, <3>2, PlainStep
  <2>4. CASE life[s] # "live"
    <3> DEFINE c == [call[p] EXCEPT !.pc = "unknown"]
    <3>1. call' = [call EXCEPT ![p] = c]
      BY <2>1, <2>4
    <3>2. c \in LibraryCalls /\ c.op = call[p].op /\ c.s = call[p].s /\ c.pc = "unknown"
      BY <1>2 DEF LibraryCalls, Places
    <3>3. c.pc \in L!Answers \cup Lane[c.op] /\ Plain(c)
      BY <3>2, AnswersAre DEF Plain
    <3> HIDE DEF c
    <3> QED BY <1>1, <1>2, <1>3, <2>2, <3>1, <3>2, <3>3, PlainStep
  <2> QED BY <2>3, <2>4
<1>5. CASE free
  <2>1. PICK e : log' = [log EXCEPT ![s] = Append(@, e)]
    BY <1>5 DEF L!Commit, L!Item
  <2>2. PICK x \in {"ok", "failed"} : call' = [call EXCEPT ![p].pc = x]
    BY <1>5 DEF L!Commit, L!Item, L!Ends
  <2>3. Onward
    BY <1>1, <1>2, <2>1, OneEvent DEF LibraryInv
  <2> DEFINE c == [call[p] EXCEPT !.pc = x]
  <2>4. c \in LibraryCalls /\ c.op = call[p].op /\ c.s = call[p].s /\ c.pc = x
    BY <1>2 DEF LibraryCalls, Places
  <2>5. c.pc \in L!Answers \cup Lane[c.op] /\ Plain(c)
    BY <1>2, <2>4, AnswersAre DEF Plain
  <2>6. call' = [call EXCEPT ![p] = c]
    BY <2>2
  <2> HIDE DEF c
  <2> QED BY <1>1, <1>2, <1>3, <2>3, <2>4, <2>5, <2>6, PlainStep
<1> QED BY <1>4, <1>5

\* A deletion is final.
LEMMA OneDeleted ==
  ASSUME LibraryTyped, NEW s \in Sessions, NEW x \in {"marked", "gone"}, life[s] # "unborn",
         log' = log, life' = [life EXCEPT ![s] = x]
  PROVE  Onward
<1>1. life'[s] = x /\ \A u \in Sessions : u # s => life'[u] = life[u]
  BY DEF LibraryTyped
<1>2. life' \in [Sessions -> {"unborn", "live", "marked", "gone"}]
  BY DEF LibraryTyped
<1> QED BY <1>1, <1>2, LogLengths DEF Onward, LibraryTyped

LEMMA DeletionsKeep ==
  ASSUME LibraryInv, NEW p \in Pages, L!RemoveSession(p) \/ L!Clean(p)
  PROVE  LibraryInv'
<1> DEFINE s == call[p].s
<1>1. /\ call[p].pc \in {"remove", "clean"} /\ log' = log /\ lineage' = lineage /\ seen' = seen
      /\ life' = life \/ \E x \in {"marked", "gone"} : life' = [life EXCEPT ![s] = x]
  BY DEF L!RemoveSession, L!Clean, L!At, L!Item
<1>2. /\ call[p].pc \notin L!Answers /\ call[p] \in LibraryCalls
      /\ s \in Sessions /\ life[s] # "unborn" /\ call[p].op \in {"delete", "deleteRow"}
  BY <1>1, CallIs, WhoStands, AnswersAre
<1>3. Onward
  BY <1>1, <1>2, NothingWritten, OneDeleted DEF LibraryInv
<1>4. PICK x \in {"ok", "clean", "conflict", "cleanup"} : call' = [call EXCEPT ![p].pc = x]
  BY DEF L!RemoveSession, L!Clean, L!Ends, L!Go
<1> DEFINE c == [call[p] EXCEPT !.pc = x]
<1>5. c \in LibraryCalls /\ c.op = call[p].op /\ c.s = call[p].s /\ c.pc = x
  BY <1>2 DEF LibraryCalls, Places
<1>6. c.pc \in L!Answers \cup Lane[c.op] /\ Plain(c)
  BY <1>2, <1>5, AnswersAre, LaneIs DEF Plain
<1>7. call' = [call EXCEPT ![p] = c] /\ ReadsStay(p)
  BY <1>1, <1>4, ReadsStayIf DEF LibraryInv
<1> HIDE DEF c
<1> QED BY <1>1, <1>2, <1>3, <1>5, <1>6, <1>7, PlainStep

LEMMA TurnKeeps ==
  ASSUME LibraryInv, NEW s \in Sessions, L!Turn(s)
  PROVE  LibraryInv'
<1>1. PICK e : log' = [log EXCEPT ![s] = Append(@, e)]
  BY DEF L!Turn
<1>2. life' = life /\ lineage' = lineage /\ call' = call /\ seen' = seen
  BY DEF L!Turn
<1>3. Onward
  BY <1>1, <1>2, OneEvent DEF LibraryInv
<1>4. \A q \in Pages : Stands(q)' /\ OwnRead(q)'
  BY <1>2, <1>3, OthersStay
<1>5. \A u \in Sessions : Sourced(u)'
  BY <1>2, <1>3, SourcesStay
<1>6. LibraryTyped'
  BY <1>2, <1>3 DEF LibraryInv, LibraryTyped, Onward
<1> QED BY <1>4, <1>5, <1>6 DEF LibraryInv

LEMMA SeedForkKeeps ==
  ASSUME LibraryInv, NEW p \in Pages, L!SeedFork(p)
  PROVE  LibraryInv'
<1> DEFINE s == call[p].to
<1>1. call[p].pc = "seed" /\ life' = life /\ lineage' = lineage /\ seen' = seen
  BY DEF L!SeedFork, L!At
<1>2. call[p].pc \notin L!Answers /\ call[p] \in LibraryCalls /\ call[p].op = "fork"
  BY <1>1, CallIs, WhoStands, AnswersAre
<1>3. PICK x \in {"ok", "failed"} : call' = [call EXCEPT ![p].pc = x]
  BY DEF L!SeedFork, L!Ends
<1>4. Onward
  <2>1. CASE log' = log
    BY <1>1, <2>1, NothingWritten DEF LibraryInv
  <2>2. CASE log' = [log EXCEPT ![s] = @ \o <<L!Created, L!Seeded>>] /\ s \in Sessions
    <3>1. <<L!Created, L!Seeded>> \in Seq({L!Created, L!Seeded})
      OBVIOUS
    <3>2. IsSeq(<<L!Created, L!Seeded>>)
      BY <3>1 DEF IsSeq
    <3> QED BY <1>1, <2>2, <3>2, OneAppend DEF LibraryInv
  <2>3. CASE log' = [log EXCEPT ![s] = @ \o <<L!Created, L!Seeded>>] /\ s \notin Sessions
    <3>1. log' = log
      BY <2>3 DEF LibraryInv, LibraryTyped
    <3> QED BY <3>1, <2>1
  <2> QED BY <2>1, <2>2, <2>3 DEF L!SeedFork
<1> DEFINE c == [call[p] EXCEPT !.pc = x]
<1>5. c \in LibraryCalls /\ c.op = call[p].op /\ c.s = call[p].s /\ c.pc = x
  BY <1>2 DEF LibraryCalls, Places
<1>6. c.pc \in L!Answers \cup Lane[c.op] /\ Plain(c)
  BY <1>2, <1>5, AnswersAre DEF Plain
<1>7. call' = [call EXCEPT ![p] = c] /\ ReadsStay(p)
  BY <1>1, <1>3, ReadsStayIf DEF LibraryInv
<1> HIDE DEF c
<1> QED BY <1>1, <1>2, <1>4, <1>5, <1>6, <1>7, PlainStep

LEMMA ReadOwnReads ==
  ASSUME LibraryInv, NEW p \in Pages, L!ReadOwn(p)
  PROVE  seen'[p][call[p].s] = IF life[call[p].s] = "live" THEN log[call[p].s] ELSE << >>
BY DEF L!ReadOwn, L!Item, LibraryInv, LibraryTyped

\* getSession: the head it reads is no longer than the log.
LEMMA GetSessionKeeps ==
  ASSUME LibraryInv, NEW p \in Pages, L!GetSession(p)
  PROVE  LibraryInv'
<1> DEFINE s == call[p].s
           now == Len(log[s])
<1>1. /\ call[p].pc = "get" /\ log' = log /\ life' = life /\ lineage' = lineage /\ seen' = seen
  BY DEF L!GetSession, L!At, L!journal
<1>2. /\ call[p].pc \notin L!Answers /\ call[p] \in LibraryCalls /\ now \in Nat
      /\ s \in Sessions /\ life[s] # "unborn"
      /\ call[p].op \in {"star", "unstar", "select", "deleteRow", "fork", "inspect"}
  BY <1>1, CallIs, WhoStands, AnswersAre
<1>3. Onward /\ ReadsStay(p)
  BY <1>1, NothingWritten, ReadsStayIf DEF LibraryInv
<1>4. \/ \E x \in {"unknown", "conflict"} : call' = [call EXCEPT ![p].pc = x]
      \/ \E x \in {"list", "remove", "events"} :
           /\ call' = [call EXCEPT ![p] = [call[p] EXCEPT !.head = now, !.pc = x]]
           /\ call[p].op \in {"star", "unstar", "select"} => x = "list"
           /\ call[p].op = "deleteRow" => x = "remove"
           /\ call[p].op \in {"fork", "inspect"} => x = "events"
  BY <1>2 DEF L!GetSession
<1>5. ASSUME NEW x \in {"unknown", "conflict"}, call' = [call EXCEPT ![p].pc = x]
      PROVE  LibraryInv'
  BY <1>1, <1>2, <1>5, AnswersAre, PlainGo
<1>6. ASSUME NEW x \in {"list", "remove", "events"},
             call' = [call EXCEPT ![p] = [call[p] EXCEPT !.head = now, !.pc = x]],
             call[p].op \in {"star", "unstar", "select"} => x = "list",
             call[p].op = "deleteRow" => x = "remove",
             call[p].op \in {"fork", "inspect"} => x = "events"
      PROVE  LibraryInv'
  <2> DEFINE c == [call[p] EXCEPT !.head = now, !.pc = x]
  <2>1. c \in LibraryCalls /\ c.op = call[p].op /\ c.s = s /\ c.pc = x /\ c.head = now
    BY <1>2 DEF LibraryCalls, Places
  <2>2. x \in Lane[c.op]
    BY <1>2, <1>6, <2>1, LaneIs
  <2>3. call'[p] = c
    BY <1>6 DEF LibraryInv, LibraryTyped
  <2> HIDE DEF c
  <2>4. Stands(p)'
    BY <1>1, <1>2, <2>1, <2>2, <2>3 DEF Stands
  <2>5. OwnRead(p)'
    BY <1>1, <1>2, <1>6, <2>1, <2>3 DEF OwnRead
  <2> QED BY <1>1, <1>3, <1>6, <2>1, <2>4, <2>5, PageSteps DEF c
<1> QED BY <1>4, <1>5, <1>6

\* readEvents of the call's own conversation: the beginning of its log from now on.
LEMMA ReadOwnKeeps ==
  ASSUME LibraryInv, NEW p \in Pages, L!ReadOwn(p)
  PROVE  LibraryInv'
<1> DEFINE s == call[p].s
<1>1. call[p].pc = "events" /\ log' = log /\ life' = life /\ lineage' = lineage
  BY DEF L!ReadOwn, L!At, L!journal
<1>2. /\ call[p].pc \notin L!Answers /\ call[p] \in LibraryCalls /\ s \in Sessions
      /\ life[s] # "unborn" /\ call[p].op \in {"fork", "inspect", "repin"} /\ OwnRead(p)
      /\ IsSeq(log[s])
  BY <1>1, CallIs, WhoStands, AnswersAre
<1>3. Onward
  BY <1>1, NothingWritten DEF LibraryInv
<1>4. ReadsStay(p)
  BY DEF L!ReadOwn, LibraryInv, LibraryTyped, ReadsStay
<1>5. PICK x \in {"stable", "after", "route"} :
        /\ call' = [call EXCEPT ![p].pc = x]
        /\ call[p].op = "fork" => x = "stable"
        /\ call[p].op = "inspect" => x = "after"
        /\ call[p].op = "repin" => x = "route"
  BY <1>2 DEF L!ReadOwn, L!Go, L!Op
<1> DEFINE c == [call[p] EXCEPT !.pc = x]
<1>6. /\ c \in LibraryCalls /\ c.op = call[p].op /\ c.s = s /\ c.pc = x /\ c.head = call[p].head
      /\ call' = [call EXCEPT ![p] = c]
  BY <1>2, <1>5 DEF LibraryCalls, Places
<1>7. x \in Lane[c.op]
  BY <1>2, <1>5, <1>6, LaneIs
<1>8. call'[p] = c
  BY <1>6 DEF LibraryInv, LibraryTyped
<1> HIDE DEF c
<1>9. Stands(p)'
  BY <1>1, <1>2, <1>6, <1>7, <1>8 DEF Stands
<1>10. OwnRead(p)'
  <2>1. call[p].op # "repin" => call[p].head <= Len(log[s])
    BY <1>1, <1>2 DEF OwnRead
  <2>2. life[s] = "live" => seen'[p][s] = log[s] /\ Begins(seen'[p][s], log[s])
    BY <1>2, ReadOwnReads, SeqLen
  <2> QED BY <1>1, <1>6, <1>8, <2>1, <2>2 DEF OwnRead
<1> QED BY <1>1, <1>3, <1>4, <1>6, <1>9, <1>10, PageSteps

\* readSnapshot: a head that is still there means that nothing was written meanwhile.
LEMMA AfterKeeps ==
  ASSUME LibraryInv, NEW p \in Pages, L!After(p)
  PROVE  LibraryInv'
<1> DEFINE s == call[p].s
           now == Len(log[s])
           r == seen[p][s]
<1>1. /\ call[p].pc = "after" /\ log' = log /\ life' = life /\ lineage' = lineage /\ seen' = seen
      /\ call' = [call EXCEPT ![p] =
           IF life[s] # "live" THEN [call[p] EXCEPT !.pc = "unknown"]
           ELSE IF call[p].head = now THEN [call[p] EXCEPT !.pc = "ok"]
           ELSE IF call[p].tries < 2 THEN [call[p] EXCEPT !.pc = "get", !.tries = 2]
           ELSE [call[p] EXCEPT !.pc = "unstable", !.head = now]]
  BY DEF L!After, L!At, L!Item, L!journal
<1>2. /\ call[p].pc \notin L!Answers /\ call[p] \in LibraryCalls /\ now \in Nat
      /\ s \in Sessions /\ life[s] # "unborn" /\ call[p].op = "inspect" /\ OwnRead(p)
  BY <1>1, CallIs, WhoStands, AnswersAre
<1>3. Onward /\ ReadsStay(p)
  BY <1>1, NothingWritten, ReadsStayIf DEF LibraryInv
<1>4. CASE life[s] # "live"
  <2>1. call' = [call EXCEPT ![p].pc = "unknown"]
    BY <1>1, <1>4
  <2> QED BY <1>1, <1>2, <2>1, AnswersAre, PlainGo
<1>5. CASE life[s] = "live" /\ call[p].head = now
  <2> DEFINE c == [call[p] EXCEPT !.pc = "ok"]
  <2>1. /\ c \in LibraryCalls /\ c.op = "inspect" /\ c.s = s /\ c.pc = "ok"
        /\ c.head = call[p].head /\ call' = [call EXCEPT ![p] = c]
    BY <1>1, <1>2, <1>5 DEF LibraryCalls, Places
  <2>2. call'[p] = c
    BY <2>1 DEF LibraryInv, LibraryTyped
  <2> HIDE DEF c
  <2>3. Stands(p)'
    BY <1>1, <1>2, <2>1, <2>2, AnswersAre DEF Stands
  <2>4. Begins(r, log[s]) /\ call[p].head <= Len(r)
    BY <1>1, <1>2, <1>5 DEF OwnRead, Reads
  <2>5. Len(r) = call[p].head
    <3>1. Len(r) \in Nat
      BY <2>4, SeqLen DEF Begins
    <3> QED BY <1>2, <1>5, <2>4, <3>1 DEF Begins
  <2>6. OwnRead(p)'
    BY <1>1, <2>1, <2>2, <2>5 DEF OwnRead
  <2> QED BY <1>1, <1>3, <2>1, <2>3, <2>6, PageSteps
<1>6. CASE life[s] = "live" /\ call[p].head # now
  <2>1. PICK x \in {"get", "unstable"}, n \in Nat, h \in Nat :
          call' = [call EXCEPT ![p] = [call[p] EXCEPT !.pc = x, !.tries = n, !.head = h]]
    <3>1. call[p].tries \in Nat /\ call[p].head \in Nat
      BY <1>2 DEF LibraryCalls
    <3>2. CASE call[p].tries < 2
      <4>1. call' = [call EXCEPT ![p] = [call[p] EXCEPT !.pc = "get", !.tries = 2]]
        BY <1>1, <1>6, <3>2
      <4>2. [call[p] EXCEPT !.pc = "get", !.tries = 2]
              = [call[p] EXCEPT !.pc = "get", !.tries = 2, !.head = call[p].head]
        BY <1>2 DEF LibraryCalls
      <4> QED BY <3>1, <4>1, <4>2
    <3>3. CASE ~(call[p].tries < 2)
      <4>1. call' = [call EXCEPT ![p] = [call[p] EXCEPT !.pc = "unstable", !.head = now]]
        BY <1>1, <1>6, <3>3
      <4>2. [call[p] EXCEPT !.pc = "unstable", !.head = now]
              = [call[p] EXCEPT !.pc = "unstable", !.tries = call[p].tries, !.head = now]
        BY <1>2 DEF LibraryCalls
      <4> QED BY <1>2, <3>1, <4>1, <4>2
    <3> QED BY <3>2, <3>3
  <2> DEFINE c == [call[p] EXCEPT !.pc = x, !.tries = n, !.head = h]
  <2>2. c \in LibraryCalls /\ c.op = call[p].op /\ c.s = s /\ c.pc = x
    BY <1>2 DEF LibraryCalls, Places
  <2>3. c.pc \in L!Answers \cup Lane[c.op] /\ Plain(c)
    BY <1>2, <2>2, AnswersAre, LaneIs DEF Plain
  <2>4. call' = [call EXCEPT ![p] = c]
    BY <2>1
  <2> HIDE DEF c
  <2> QED BY <1>1, <1>2, <1>3, <2>2, <2>3, <2>4, PlainStep
<1> QED BY <1>4, <1>5, <1>6

\* forkSession: the same, before the boundary is chosen and before the fork is made.
LEMMA ForkChecksKeep ==
  ASSUME LibraryInv, NEW p \in Pages, L!Stable(p) \/ L!Fresh(p)
  PROVE  LibraryInv'
<1> DEFINE s == call[p].s
           r == seen[p][s]
<1>1. /\ call[p].pc \in {"stable", "fresh"} /\ log' = log /\ life' = life /\ lineage' = lineage
      /\ seen' = seen
  BY DEF L!Stable, L!Fresh, L!At, L!journal
<1>2. /\ call[p].pc \notin L!Answers /\ call[p] \in LibraryCalls /\ Len(log[s]) \in Nat
      /\ s \in Sessions /\ life[s] # "unborn" /\ call[p].op = "fork" /\ OwnRead(p)
  BY <1>1, CallIs, WhoStands, AnswersAre
<1>3. Onward /\ ReadsStay(p)
  BY <1>1, NothingWritten, ReadsStayIf DEF LibraryInv
<1>4. \/ call' = [call EXCEPT ![p].pc = "conflict"]
      \/ \E x \in {"fresh", "create"} :
           L!Unmoved(p) /\ call' = [call EXCEPT ![p].pc = x]
  BY DEF L!Stable, L!Fresh, L!Go, L!Ends
<1>5. CASE call' = [call EXCEPT ![p].pc = "conflict"]
  BY <1>1, <1>2, <1>5, AnswersAre, PlainGo
<1>6. ASSUME NEW x \in {"fresh", "create"}, L!Unmoved(p), call' = [call EXCEPT ![p].pc = x]
      PROVE  LibraryInv'
  <2> DEFINE c == [call[p] EXCEPT !.pc = x]
  <2>1. /\ c \in LibraryCalls /\ c.op = "fork" /\ c.s = s /\ c.pc = x /\ c.head = call[p].head
        /\ call' = [call EXCEPT ![p] = c]
    BY <1>2, <1>6 DEF LibraryCalls, Places
  <2>2. call'[p] = c
    BY <2>1 DEF LibraryInv, LibraryTyped
  <2> HIDE DEF c
  <2>3. Stands(p)'
    BY <1>1, <1>2, <2>1, <2>2, LaneIs DEF Stands
  <2>4. life[s] = "live" /\ Len(log[s]) = call[p].head
    BY <1>6 DEF L!Unmoved, L!Item
  <2>5. Begins(r, log[s]) /\ call[p].head = Len(r)
    <3>1. CASE call[p].pc = "stable"
      <4>1. Begins(r, log[s]) /\ call[p].head <= Len(r)
        BY <1>2, <2>4, <3>1 DEF OwnRead, Reads
      <4>2. Len(r) \in Nat
        BY <4>1, SeqLen DEF Begins
      <4> QED BY <1>2, <2>4, <4>1, <4>2 DEF Begins
    <3>2. CASE call[p].pc = "fresh"
      BY <1>2, <3>2 DEF OwnRead
    <3> QED BY <1>1, <3>1, <3>2
  <2>6. OwnRead(p)'
    BY <1>1, <2>1, <2>2, <2>5 DEF OwnRead
  <2> QED BY <1>1, <1>3, <2>1, <2>3, <2>6, PageSteps
<1> QED BY <1>4, <1>5, <1>6

\* createSession with a lineage: what the manifest says is read off one head.
LEMMA CreateForkKeeps ==
  ASSUME LibraryInv, NEW p \in Pages, L!CreateFork(p)
  PROVE  LibraryInv'
<1> DEFINE o == call[p].s
           r == seen[p][o]
<1>1. call[p].pc = "create" /\ log' = log /\ seen' = seen
  BY DEF L!CreateFork, L!At
<1>2. /\ call[p].pc \notin L!Answers /\ call[p] \in LibraryCalls /\ IsSeq(log[o])
      /\ o \in Sessions /\ life[o] # "unborn" /\ call[p].op = "fork" /\ OwnRead(p)
  BY <1>1, CallIs, WhoStands, AnswersAre
<1>3. PICK s \in Sessions :
        /\ life[s] = "unborn" /\ life' = [life EXCEPT ![s] = "live"]
        /\ lineage' = [lineage EXCEPT ![s] = [source |-> o, head |-> call[p].head,
                                              boundary |-> L!LastBoundary(r)]]
        /\ call' = [call EXCEPT ![p].pc = "seed", ![p].to = s]
  BY DEF L!CreateFork, L!Item, L!Read
<1> DEFINE c == [call[p] EXCEPT !.pc = "seed", !.to = s]
<1>4. /\ c \in LibraryCalls /\ c.op = "fork" /\ c.s = o /\ c.pc = "seed"
      /\ call' = [call EXCEPT ![p] = c]
  BY <1>2, <1>3 DEF LibraryCalls, Places, LibraryInv, LibraryTyped
<1>5. call'[p] = c /\ call' \in [Pages -> LibraryCalls]
      /\ \A q \in Pages : q # p => call'[q] = call[q]
  BY <1>4 DEF LibraryInv, LibraryTyped
<1> HIDE DEF c
<1>6. /\ life' \in [Sessions -> {"unborn", "live", "marked", "gone"}]
      /\ \A u \in Sessions : life[u] # "unborn" => life'[u] = life[u]
  BY <1>3 DEF LibraryInv, LibraryTyped
<1>7. Onward
  BY <1>1, <1>6, LogLengths DEF LibraryInv, LibraryTyped, Onward
<1>8. Stands(p)' /\ OwnRead(p)'
  BY <1>2, <1>4, <1>5, <1>6, LaneIs DEF Stands, OwnRead
<1>9. \A q \in Pages : Stands(q)' /\ OwnRead(q)'
  BY <1>1, <1>5, <1>7, <1>8, OthersStay
<1>10. ASSUME NEW u \in Sessions PROVE Sourced(u)'
  <2>1. CASE u # s
    <3>1. lineage'[u] = lineage[u]
      BY <1>3, <2>1 DEF LibraryInv, LibraryTyped
    <3> QED BY <1>7, <3>1, SourcesStay
  <2>2. CASE u = s
    <3>1. /\ lineage'[u].source = o /\ lineage'[u].head = call[p].head
          /\ lineage'[u].boundary = L!LastBoundary(r)
      BY <1>3, <2>2 DEF LibraryInv, LibraryTyped
    <3>2. Begins(r, log[o]) /\ call[p].head = Len(r)
      BY <1>1, <1>2 DEF OwnRead
    <3>3. r = SubSeq(log[o], 1, call[p].head)
      BY <1>2, <3>2, WholeHead
    <3>4. call[p].head \in 0..Len(log[o])
      <4>1. Len(r) \in Nat /\ Len(log[o]) \in Nat
        BY <1>2, <3>2, SeqLen DEF Begins
      <4> QED BY <3>2, <4>1 DEF Begins
    <3>5. lineage'[u].boundary = L!LastBoundary(SubSeq(log[o], 1, call[p].head))
      BY <3>1, <3>3, Zenon
    <3> QED BY <1>1, <1>2, <3>1, <3>4, <3>5 DEF Sourced
  <2> QED BY <2>1, <2>2
<1>11. LibraryTyped'
  BY <1>1, <1>3, <1>5, <1>6 DEF LibraryInv, LibraryTyped
<1> QED BY <1>9, <1>10, <1>11 DEF LibraryInv

LEMMA DecideRePinKeeps ==
  ASSUME LibraryInv, NEW p \in Pages, L!DecideRePin(p)
  PROVE  LibraryInv'
<1>1. /\ call[p].pc = "route" /\ log' = log /\ life' = life /\ lineage' = lineage /\ seen' = seen
  BY DEF L!DecideRePin, L!At, L!journal
<1>2. PICK x \in {"ok", "head"} : call' = [call EXCEPT ![p].pc = x]
  BY DEF L!DecideRePin, L!Go
<1>3. call[p].pc \notin L!Answers /\ call[p].op = "repin"
  BY <1>1, WhoStands, AnswersAre
<1>4. x \in Places /\ x \in L!Answers \cup Lane[call[p].op]
  BY <1>3, AnswersAre, LaneIs DEF Places
<1> QED BY <1>1, <1>2, <1>3, <1>4, PlainGo

LEMMA LibraryPreserved ==
  ASSUME LibraryInv, L!LibraryAssumption, [L!Next]_L!vars
  PROVE  LibraryInv'
<1>1. ASSUME NEW p \in Pages, L!Begin(p) \/ L!CallStep(p) \/ L!Fails(p)
      PROVE  LibraryInv'
  BY <1>1, BeginKeeps, FailsKeeps, GetSessionKeeps, ListSessionsKeeps, ReadEventsKeeps,
     DecisionsKeep, ReadHeadKeeps, CommitKeeps, DeletionsKeep, ReadOwnKeeps, AfterKeeps,
     ForkChecksKeep, CreateForkKeeps, SeedForkKeeps, DecideRePinKeeps
  DEF L!CallStep
<1>2. ASSUME NEW s \in Sessions, L!Turn(s)
      PROVE  LibraryInv'
  BY <1>2, TurnKeeps
<1>3. CASE UNCHANGED L!vars
  <2>1. UNCHANGED <<life, log, lineage, call, seen>>
    BY <1>3 DEF L!vars, L!journal
  <2> QED BY <2>1 DEF LibraryInv, LibraryTyped, Stands, OwnRead, Sourced
<1> QED BY <1>1, <1>2, <1>3 DEF L!Next

LEMMA LibraryInductive ==
  ASSUME L!LibraryAssumption
  PROVE  L!Spec => []LibraryInv
<1> QED BY LibraryStarts, LibraryPreserved, PTL DEF L!Spec

(***************************************************************************)
(* An inspection that calls its snapshot stable returns exactly the events *)
(* of the head it returns (readSnapshot), for any number of pages and      *)
(* conversations, whatever is written, forked or deleted while it reads.   *)
(***************************************************************************)
THEOREM StableSnapshotsAgree ==
  ASSUME L!LibraryAssumption
  PROVE  L!Spec => []L!SnapshotsAgree
<1>1. LibraryInv => L!SnapshotsAgree
  BY DEF LibraryInv, OwnRead, L!SnapshotsAgree, L!Op, L!At, L!Read, L!Item
<1> QED BY <1>1, LibraryInductive, PTL

(***************************************************************************)
(* The lineage of a fork names the last turn boundary of its source as the *)
(* source was at the head it names (forkSession): the events, the head and *)
(* the boundary come from three reads with other writers between them.     *)
(***************************************************************************)
THEOREM ForksAreTrueToOneHead ==
  ASSUME L!LibraryAssumption
  PROVE  L!Spec => []L!ForksDescribeTheirSource
<1>1. LibraryInv => L!ForksDescribeTheirSource
  <2> SUFFICES ASSUME LibraryInv, NEW s \in Sessions, lineage[s].source # None
               PROVE  LET l == log[lineage[s].source] IN
                      /\ lineage[s].head <= Len(l)
                      /\ lineage[s].boundary = L!LastBoundary(SubSeq(l, 1, lineage[s].head))
    BY DEF L!ForksDescribeTheirSource
  <2>1. Sourced(s)
    BY DEF LibraryInv
  <2> QED BY <2>1 DEF Sourced
<1> QED BY <1>1, LibraryInductive, PTL

(***************************************************************************)
(* A deletion discards nothing that its caller has not read: whoever marks *)
(* a conversation as deleted named the head it has then (deleteSession).   *)
(***************************************************************************)
THEOREM DeletionsWereRead ==
  ASSUME L!LibraryAssumption
  PROVE  L!Spec => [][L!DeletesWhatWasRead]_L!vars
<1>1. ASSUME LibraryInv, [L!Next]_L!vars
      PROVE  [L!DeletesWhatWasRead]_L!vars
  <2> SUFFICES ASSUME NEW s \in Sessions, life[s] = "live", life'[s] = "marked"
               PROVE  \E p \in Pages : /\ call[p].s = s /\ call[p].head = Len(log[s])
                                       /\ call'[p] # call[p]
    BY DEF L!DeletesWhatWasRead, L!Item
  <2>1. PICK p \in Pages : L!RemoveSession(p) \/ L!Clean(p) \/ L!CreateFork(p)
    <3>1. life' # life
      OBVIOUS
    <3> QED BY <1>1, <3>1
         DEF L!Next, L!Begin, L!CallStep, L!Fails, L!Turn, L!GetSession, L!ListSessions,
             L!ReadEvents, L!DecideFavorite, L!DecideMove, L!DecideSelect, L!ConfirmSelect,
             L!ReadHead, L!Commit, L!ReadOwn, L!After, L!Stable, L!Fresh, L!SeedFork,
             L!DecideRePin, L!vars, L!journal
  <2>2. L!RemoveSession(p) /\ life' # life
    <3>1. CASE L!Clean(p)
      BY <1>1, <3>1 DEF L!Clean, LibraryInv, LibraryTyped
    <3>2. CASE L!CreateFork(p)
      BY <1>1, <3>2 DEF L!CreateFork, LibraryInv, LibraryTyped
    <3> QED BY <2>1, <3>1, <3>2
  <2>3. /\ call[p].pc = "remove" /\ Len(log[call[p].s]) = call[p].head
        /\ life' = [life EXCEPT ![call[p].s] = "marked"]
        /\ call' = [call EXCEPT ![p].pc = "clean"]
    BY <2>2 DEF L!RemoveSession, L!At, L!Item, L!Go
  <2>4. call[p].s = s
    BY <1>1, <2>3 DEF LibraryInv, LibraryTyped
  <2>5. call[p] \in LibraryCalls
    BY <1>1 DEF LibraryInv, LibraryTyped
  <2>6. call'[p].pc = "clean"
    BY <1>1, <2>3, <2>5 DEF LibraryInv, LibraryTyped, LibraryCalls
  <2> QED BY <2>3, <2>4, <2>6
<1> QED BY <1>1, LibraryInductive, PTL DEF L!Spec
-------------------------------------------------------------------------------
(* The latest record and the newest choice. *)

LEMMA NumbersAreFounded ==
  \E R : IsWellFoundedOn(R, Nat) /\ \A i, j \in Nat : i < j => <<i, j>> \in R
<1>1. \A i, j \in Nat : i < j => <<i, j>> \in OpToRel(<, Nat)
  BY Zenon DEF OpToRel
<1> QED BY <1>1, NatLessThanWellFounded, Zenon

\* A non-empty set of numbers up to n has a greatest.
LEMMA Greatest ==
  ASSUME NEW n \in Nat, NEW S, S # {}, \A i \in S : i \in 0..n
  PROVE  \E i \in S : \A j \in S : j <= i
<1>1. PICK R : IsWellFoundedOn(R, Nat) /\ \A i, j \in Nat : i < j => <<i, j>> \in R
  BY NumbersAreFounded
<1>2. PICK T : T = {n - i : i \in S}
  OBVIOUS
<1>3. T \subseteq Nat /\ T # {}
  BY <1>2
<1>4. PICK x \in T : \A y \in T : ~(<<y, x>> \in R)
  <2>1. IsWellFoundedOn(R, Nat)
    BY <1>1
  <2> QED BY <1>3, <2>1, WFMin
<1>5. PICK i \in S : x = n - i
  BY <1>2
<1>6. ASSUME NEW j \in S
      PROVE  j <= i
  <2>1. n - j \in T /\ n - j \in Nat /\ n - i \in Nat
    BY <1>2
  <2>2. ~(n - j < n - i)
    BY <1>1, <1>4, <1>5, <2>1
  <2> QED BY <2>2
<1> QED BY <1>6

\* Two logs with the same events of a type, one the beginning of the other.
LEMMA SameLatest ==
  ASSUME NEW a, NEW b, IsSeq(b), Begins(a, b), NEW t, L!OfType(a, t) = L!OfType(b, t),
         L!OfType(a, t) # {}
  PROVE  L!Latest(a, t) = L!Latest(b, t)
<1> DEFINE k == CHOOSE i \in L!OfType(a, t) : \A j \in L!OfType(a, t) : j <= i
<1>1. L!Latest(a, t) = a[k] /\ L!Latest(b, t) = b[k]
  BY DEF L!Latest
<1>2. Len(a) \in Nat /\ \A i \in L!OfType(a, t) : i \in 0..Len(a) /\ i \in 1..Len(a)
  BY SeqLen DEF Begins, L!OfType
<1>3. \E i \in L!OfType(a, t) : \A j \in L!OfType(a, t) : j <= i
  BY <1>2, Greatest
<1>4. k \in L!OfType(a, t)
  BY <1>3
<1> HIDE DEF k
<1> QED BY <1>1, <1>2, <1>4 DEF Begins

\* An event that was just appended is the latest of its type.
LEMMA AppendedIsLatest ==
  ASSUME NEW l, IsSeq(l), NEW e
  PROVE  L!Latest(Append(l, e), e.type) = e
<1> DEFINE m == Append(l, e)
           n == Len(l) + 1
<1>1. PICK S : l \in Seq(S)
  BY DEF IsSeq
<1>2. l \in Seq(S \cup {e})
  BY <1>1
<1>3. Len(l) \in Nat /\ Len(m) = n /\ m[n] = e
  BY <1>2
<1>4. n \in L!OfType(m, e.type) /\ \A j \in L!OfType(m, e.type) : j \in 1..n
  BY <1>3 DEF L!OfType
<1> HIDE DEF m, n
<1>5. n \in Nat /\ \A i \in L!OfType(m, e.type) : (\A j \in L!OfType(m, e.type) : j <= i) => i = n
  <2>1. n \in Nat
    BY <1>3 DEF n
  <2> QED BY <1>4, <2>1
<1>6. \A j \in L!OfType(m, e.type) : j <= n
  BY <1>4, <1>5
<1>7. (CHOOSE i \in L!OfType(m, e.type) : \A j \in L!OfType(m, e.type) : j <= i) = n
  BY <1>4, <1>5, <1>6
<1>8. L!Latest(m, e.type) = m[n]
  BY <1>7 DEF L!Latest
<1> QED BY <1>3, <1>8 DEF m

\* Only a page's own step changes its call.
LEMMA OwnCall ==
  ASSUME LibraryInv, [L!Next]_L!vars, NEW p \in Pages, call'[p] # call[p]
  PROVE  L!Begin(p) \/ L!CallStep(p) \/ L!Fails(p)
<1>1. call \in [Pages -> LibraryCalls]
  BY DEF LibraryInv, LibraryTyped
<1>2. ASSUME NEW q \in Pages, L!Begin(q) \/ L!CallStep(q) \/ L!Fails(q)
      PROVE  q = p
  <2>1. q # p => call'[p] = call[p]
    <3>1. \/ call' = call
          \/ \E c : call' = [call EXCEPT ![q] = c]
      <4>1. CASE L!Begin(q)
        BY <4>1 DEF L!Begin
      <4>2. CASE L!Fails(q)
        <5>1. call' = [call EXCEPT ![q].pc = "failed"]
          BY <4>2 DEF L!Fails, L!Ends
        <5> QED BY <5>1
      <4>3. CASE L!GetSession(q) \/ L!ReadEvents(q) \/ L!ReadHead(q) \/ L!After(q)
        BY <4>3 DEF L!GetSession, L!ReadEvents, L!ReadHead, L!After
      <4>4. CASE L!ListSessions(q) \/ L!DecideFavorite(q) \/ L!DecideMove(q)
                 \/ L!DecideSelect(q) \/ L!ConfirmSelect(q) \/ L!ReadOwn(q)
                 \/ L!Stable(q) \/ L!Fresh(q) \/ L!DecideRePin(q)
        <5>1. \E x : call' = [call EXCEPT ![q].pc = x]
          BY <4>4 DEF L!ListSessions, L!DecideFavorite, L!DecideMove, L!DecideSelect,
                      L!ConfirmSelect, L!ReadOwn, L!Stable, L!Fresh, L!DecideRePin, L!Go, L!Ends
        <5> QED BY <5>1
      <4>5. CASE L!RemoveSession(q) \/ L!Clean(q) \/ L!SeedFork(q)
        <5>1. \E x : call' = [call EXCEPT ![q].pc = x]
          BY <4>5 DEF L!RemoveSession, L!Clean, L!SeedFork, L!Go, L!Ends
        <5> QED BY <5>1
      <4>6. CASE L!CreateFork(q)
        <5>1. \E x : call' = [call EXCEPT ![q].pc = "seed", ![q].to = x]
          BY <4>6 DEF L!CreateFork
        <5> QED BY <5>1
      <4>7. CASE L!Commit(q)
        <5>1. \/ \E c : call' = [call EXCEPT ![q] = c]
              \/ \E x : call' = [call EXCEPT ![q].pc = x]
          BY <4>7 DEF L!Commit, L!Ends
        <5> QED BY <5>1
      <4> QED BY <1>2, <4>1, <4>2, <4>3, <4>4, <4>5, <4>6, <4>7 DEF L!CallStep
    <3> QED BY <1>1, <3>1
  <2> QED BY <2>1
<1>3. ~(UNCHANGED call)
  OBVIOUS
<1> QED BY <1>2, <1>3 DEF L!Next, L!Turn, L!vars

\* Only a decision or a commit of its own ends a re-pin well.
LEMMA RePinEnds ==
  ASSUME LibraryInv, L!LibraryAssumption, [L!Next]_L!vars, NEW p \in Pages,
         call[p].op = "repin", call[p].pc # "ok", call'[p].pc = "ok"
  PROVE  L!DecideRePin(p) \/ L!Commit(p)
<1>1. call[p] \in LibraryCalls /\ Stands(p) /\ call \in [Pages -> LibraryCalls]
  BY CallIs DEF LibraryInv, LibraryTyped
<1>2. call[p].pc \in L!Answers \cup {"events", "route", "head", "commit"}
  BY <1>1, LaneIs DEF Stands
<1>3. L!Begin(p) \/ L!CallStep(p) \/ L!Fails(p)
  BY OwnCall
<1>4. ~L!Begin(p)
  <2> SUFFICES ASSUME L!Begin(p) PROVE FALSE
    OBVIOUS
  <2>1. PICK o \in Operations : \E c : c.pc = L!FirstStep(o) /\ call' = [call EXCEPT ![p] = c]
    BY DEF L!Begin
  <2>2. o \in DOMAIN Lane \ {"none"}
    BY LaneIs DEF L!LibraryAssumption
  <2> QED BY <1>1, <2>1, <2>2, FirstStepIs
<1>5. ~L!Fails(p)
  BY <1>1 DEF L!Fails, L!Ends, LibraryCalls
<1>6. ~L!ReadHead(p) /\ ~L!ReadOwn(p)
  BY <1>1 DEF L!ReadHead, L!ReadOwn, L!Go, L!Op, LibraryCalls
<1>7. L!ReadHead(p) \/ L!ReadOwn(p) \/ L!DecideRePin(p) \/ L!Commit(p)
  BY <1>2, <1>3, <1>4, <1>5, AnswersAre
  DEF L!CallStep, L!GetSession, L!ListSessions, L!ReadEvents, L!DecideFavorite, L!DecideMove,
      L!DecideSelect, L!ConfirmSelect, L!Projected, L!RemoveSession, L!Clean, L!After, L!Stable,
      L!Fresh, L!CreateFork, L!SeedFork, L!At
<1> QED BY <1>6, <1>7

(***************************************************************************)
(* When a re-pin that nobody raced is done, the latest re-pin record of    *)
(* the conversation names its route (journalSessionRePin): the append made *)
(* it so, or the call was right to write nothing.                          *)
(***************************************************************************)
THEOREM RePinsNameTheirRoute ==
  ASSUME L!LibraryAssumption
  PROVE  L!Spec => [][L!RePinNamesRoute]_L!vars
<1>1. ASSUME LibraryInv, [L!Next]_L!vars
      PROVE  [L!RePinNamesRoute]_L!vars
  <2> SUFFICES ASSUME NEW p \in Pages, call[p].op = "repin", call[p].pc # "ok",
                      call'[p].pc = "ok", life[call[p].s] = "live",
                      L!OfType(seen[p][call[p].s], "repinned") = L!OfType(log[call[p].s], "repinned")
               PROVE  L!Latest(log'[call[p].s], "repinned").route = call[p].arg
    BY DEF L!RePinNamesRoute, L!Op, L!At, L!Item, L!Read
  <2> DEFINE s == call[p].s
             r == seen[p][s]
  <2>1. L!DecideRePin(p) \/ L!Commit(p)
    BY <1>1, RePinEnds
  <2>2. call[p] \in LibraryCalls /\ OwnRead(p) /\ call \in [Pages -> LibraryCalls]
    BY <1>1, CallIs DEF LibraryInv, LibraryTyped
  <2>3. call[p].pc \notin L!Answers => s \in Sessions /\ IsSeq(log[s])
    BY <1>1, CallIs
  <2>4. CASE L!DecideRePin(p)
    <3>1. call[p].pc = "route" /\ log' = log /\ s \in Sessions /\ IsSeq(log[s])
      BY <2>3, <2>4, AnswersAre DEF L!DecideRePin, L!At, L!journal
    <3>2. Begins(r, log[s])
      BY <2>2, <3>1 DEF OwnRead, Reads
    <3>3. L!OfType(r, "repinned") # {} /\ L!Latest(r, "repinned").route = call[p].arg
      <4>1. \/ L!OfType(r, "repinned") # {} /\ L!Latest(r, "repinned").route = call[p].arg
            \/ call' = [call EXCEPT ![p].pc = "head"]
        BY <2>4 DEF L!DecideRePin, L!Go, L!Read, L!Item
      <4> QED BY <2>2, <4>1 DEF LibraryCalls
    <3>4. L!Latest(r, "repinned") = L!Latest(log[s], "repinned")
      BY <3>1, <3>2, <3>3, SameLatest
    <3> QED BY <3>1, <3>3, <3>4
  <2>5. CASE L!Commit(p)
    <3>1. call[p].pc = "commit" /\ s \in Sessions /\ IsSeq(log[s])
      BY <2>3, <2>5, AnswersAre DEF L!Commit, L!At
    <3>2. life[s] = "live" /\ Len(log[s]) = call[p].head
      <4>1. \/ life[s] = "live" /\ Len(log[s]) = call[p].head
            \/ call' = [call EXCEPT ![p] = L!Refused(call[p])]
        BY <2>5 DEF L!Commit, L!Item
      <4>2. L!Refused(call[p]).pc = "conflict"
        BY <2>2 DEF L!Refused, LibraryCalls
      <4> QED BY <2>2, <4>1, <4>2
    <3>3. log' = [log EXCEPT ![s] = Append(@, L!RePinned(call[p].arg))]
      <4>1. PICK at : log' = [log EXCEPT ![s] = Append(@, L!Draft(p, at))]
        BY <2>5, <3>2 DEF L!Commit, L!Item
      <4>2. L!Draft(p, at) = L!RePinned(call[p].arg)
        BY DEF L!Draft, L!Op
      <4> QED BY <4>1, <4>2
    <3>4. log'[s] = Append(log[s], L!RePinned(call[p].arg))
      BY <1>1, <3>1, <3>3 DEF LibraryInv, LibraryTyped
    <3>5. L!RePinned(call[p].arg).type = "repinned" /\ L!RePinned(call[p].arg).route = call[p].arg
      BY DEF L!RePinned
    <3>6. L!Latest(Append(log[s], L!RePinned(call[p].arg)), "repinned") = L!RePinned(call[p].arg)
      BY <3>1, <3>5, AppendedIsLatest
    <3> QED BY <3>4, <3>5, <3>6
  <2> QED BY <2>1, <2>4, <2>5
<1> QED BY <1>1, LibraryInductive, PTL DEF L!Spec
-------------------------------------------------------------------------------
(***************************************************************************)
(* The choices of the active conversation.  Their generations and stamps   *)
(* are bounded at any time, so a set of them has a newest; and a view,     *)
(* read one log at a time, holds the beginnings of logs, so what it takes  *)
(* for the newest has a generation to count from.                          *)
(***************************************************************************)
Counted(g, l) ==
  \A i \in 1..Len(l) : l[i].type = "selected" => l[i].gen \in 0..g /\ l[i].at \in 0..MaxStamps

View(p) ==
  \A s \in DOMAIN seen[p] : s \in Sessions /\ (seen[p][s] = L!Unread \/ Begins(seen[p][s], log[s]))

ChoiceInv ==
  /\ \A p \in Pages : View(p)
  /\ \E g \in Nat : \A s \in Sessions : Counted(g, log[s])

\* A set of bounded choices has a newest.
LEMMA Newest ==
  ASSUME NEW g \in Nat, NEW n \in Nat, NEW C, C # {}, \A c \in C : c.gen \in 0..g /\ c.at \in 0..n
  PROVE  \E c \in C : \A d \in C : ~L!Older(c, d)
<1>1. PICK G : G = {c.gen : c \in C}
  OBVIOUS
<1>2. G # {} /\ \A k \in G : k \in 0..g
  BY <1>1
<1>3. PICK k \in G : \A j \in G : j <= k
  BY <1>2, Greatest
<1>4. PICK A : A = {c.at : c \in {d \in C : d.gen = k}}
  OBVIOUS
<1>5. A # {} /\ \A a \in A : a \in 0..n
  BY <1>1, <1>3, <1>4
<1>6. PICK a \in A : \A b \in A : b <= a
  BY <1>5, Greatest
<1>7. PICK c \in C : c.gen = k /\ c.at = a
  BY <1>4
<1>8. ASSUME NEW d \in C
      PROVE  ~L!Older(c, d)
  <2>1. d.gen <= k /\ (d.gen = k => d.at <= a)
    BY <1>1, <1>3, <1>4, <1>6
  <2>2. d.gen \in Nat /\ d.at \in Nat /\ k \in Nat /\ a \in Nat
    BY <1>7
  <2> QED BY <1>7, <2>1, <2>2 DEF L!Older
<1> QED BY <1>8

\* The choices of a view whose logs are counted are bounded.
LEMMA ChoicesAre ==
  ASSUME NEW g \in Nat, NEW v, \A s \in DOMAIN v : Counted(g, v[s])
  PROVE  \A c \in L!Selections(v) : c.gen \in 0..g /\ c.at \in 0..MaxStamps
<1> SUFFICES ASSUME NEW c \in L!Selections(v)
             PROVE  c.gen \in 0..g /\ c.at \in 0..MaxStamps
  OBVIOUS
<1>1. PICK s \in DOMAIN v : \E i \in L!OfType(v[s], "selected") :
        c = [host |-> s, gen |-> v[s][i].gen, at |-> v[s][i].at]
  BY DEF L!Selections
<1>2. PICK i \in L!OfType(v[s], "selected") :
        c = [host |-> s, gen |-> v[s][i].gen, at |-> v[s][i].at]
  BY <1>1
<1>3. i \in 1..Len(v[s]) /\ v[s][i].type = "selected"
  BY DEF L!OfType
<1> QED BY <1>2, <1>3 DEF Counted

LEMMA PointerIs ==
  ASSUME NEW g \in Nat, MaxStamps \in Nat, NEW v, \A s \in DOMAIN v : Counted(g, v[s])
  PROVE  /\ L!Pointer(v).gen \in 0..g
         /\ \A d \in L!Selections(v) : d.gen <= L!Pointer(v).gen
<1> DEFINE C == L!Selections(v)
<1>1. \A c \in C : c.gen \in 0..g /\ c.at \in 0..MaxStamps
  BY ChoicesAre
<1> HIDE DEF C
<1>2. CASE C = {}
  <2>1. L!Pointer(v).gen = 0
    BY <1>2 DEF L!Pointer, C
  <2> QED BY <1>2, <2>1 DEF C
<1>3. CASE C # {}
  <2>1. \E c \in C : \A d \in C : ~L!Older(c, d)
    BY <1>1, <1>3, Newest
  <2>2. L!Pointer(v) = (CHOOSE c \in C : \A d \in C : ~L!Older(c, d))
    BY <1>3 DEF L!Pointer, C
  <2>3. L!Pointer(v) \in C /\ \A d \in C : ~L!Older(L!Pointer(v), d)
    BY <2>1, <2>2
  <2>4. ASSUME NEW d \in C
        PROVE  d.gen <= L!Pointer(v).gen
    <3>1. d.gen \in Nat /\ L!Pointer(v).gen \in Nat
      BY <1>1, <2>3
    <3> QED BY <2>3, <3>1 DEF L!Older
  <2> QED BY <1>1, <2>3, <2>4 DEF C
<1> QED BY <1>2, <1>3

\* What a page has read is counted when the logs are.
LEMMA ViewsAreCounted ==
  ASSUME LibraryInv, NEW p \in Pages, View(p), NEW g \in Nat, \A s \in Sessions : Counted(g, log[s])
  PROVE  \A s \in DOMAIN seen[p] : Counted(g, seen[p][s])
<1> TAKE s \in DOMAIN seen[p]
<1>1. CASE seen[p][s] = L!Unread
  <2>1. Len(L!Unread) = 1 /\ L!Unread[1].type = "unread"
    BY DEF L!Unread
  <2> QED BY <1>1, <2>1 DEF Counted
<1>2. CASE Begins(seen[p][s], log[s])
  <2>1. s \in Sessions /\ Len(log[s]) \in Nat /\ Len(seen[p][s]) \in Nat
    BY <1>2, LogLengths, SeqLen DEF View, LibraryInv, Begins
  <2> QED BY <1>2, <2>1 DEF Begins, Counted
<1> QED BY <1>1, <1>2 DEF View

\* What a step can write: to one log, and a choice only with the next generation
\* of what some page has read.
Writes(s, e) ==
  /\ IsSeq(e) /\ log' = [log EXCEPT ![s] = @ \o e]
  /\ \A i \in 1..Len(e) : e[i].type = "selected" =>
       \E p \in Pages : e[i].gen = L!Pointer(seen[p]).gen + 1 /\ e[i].at \in 0..MaxStamps

LEMMA OneWrite ==
  ASSUME LibraryInv, NEW s \in Sessions, NEW e, log' = [log EXCEPT ![s] = Append(@, e)],
         e.type = "selected" =>
           \E p \in Pages : e.gen = L!Pointer(seen[p]).gen + 1 /\ e.at \in 0..MaxStamps
  PROVE  Writes(s, <<e>>)
<1>1. PICK S : log[s] \in Seq(S)
  BY DEF LibraryInv, LibraryTyped, IsSeq
<1>2. log[s] \in Seq(S \cup {e}) /\ <<e>> \in Seq({e})
  BY <1>1
<1>3. Append(log[s], e) = log[s] \o <<e>>
  BY <1>2
<1>4. log' = [log EXCEPT ![s] = @ \o <<e>>] /\ IsSeq(<<e>>)
  BY <1>2, <1>3 DEF IsSeq
<1>5. \A i \in 1..Len(<<e>>) : <<e>>[i] = e
  OBVIOUS
<1>6. ASSUME NEW i \in 1..Len(<<e>>), <<e>>[i].type = "selected"
      PROVE  \E p \in Pages :
               <<e>>[i].gen = L!Pointer(seen[p]).gen + 1 /\ <<e>>[i].at \in 0..MaxStamps
  BY <1>5, <1>6, Zenon
<1> QED BY <1>4, <1>6, Zenon DEF Writes

LEMMA DraftIs ==
  ASSUME NEW p \in Pages, call[p].op \in {"star", "unstar", "move", "select", "repin"}, NEW at
  PROVE  /\ L!Draft(p, at).type = "selected" => call[p].op = "select"
         /\ call[p].op = "select" =>
              L!Draft(p, at) = [type |-> "selected", at |-> at, gen |-> L!Pointer(seen[p]).gen + 1]
<1>1. CASE call[p].op \in {"star", "unstar"}
  BY <1>1 DEF L!Draft, L!Op, L!Favorite
<1>2. CASE call[p].op = "move"
  BY <1>2 DEF L!Draft, L!Op
<1>3. CASE call[p].op = "select"
  BY <1>3 DEF L!Draft, L!Op
<1>4. CASE call[p].op = "repin"
  BY <1>4 DEF L!Draft, L!Op, L!RePinned
<1> QED BY <1>1, <1>2, <1>3, <1>4

LEMMA CommitWrites ==
  ASSUME LibraryInv, L!LibraryAssumption, NEW p \in Pages, L!Commit(p)
  PROVE  log' = log \/ \E s \in Sessions : \E e : Writes(s, e)
<1>1. call[p].pc = "commit" /\ call[p].pc \notin L!Answers
  BY AnswersAre DEF L!Commit, L!At
<1>2. /\ call[p].s \in Sessions
      /\ call[p].op \in {"star", "unstar", "move", "select", "repin"}
  BY <1>1, CallIs, WhoStands
<1> SUFFICES ASSUME log' # log
             PROVE  \E s \in Sessions : \E e : Writes(s, e)
  OBVIOUS
<1>3. PICK at \in IF L!Stamped(call[p].op) THEN L!Stamps \ drawn ELSE {0} :
        log' = [log EXCEPT ![call[p].s] = Append(@, L!Draft(p, at))]
  BY DEF L!Commit, L!Item, L!Op
<1>4. at \in 0..MaxStamps
  BY <1>3 DEF L!LibraryAssumption, L!Stamps
<1> DEFINE e == L!Draft(p, at)
<1>5. e.type = "selected" => e.gen = L!Pointer(seen[p]).gen + 1 /\ e.at \in 0..MaxStamps
  BY <1>2, <1>4, DraftIs
<1> HIDE DEF e
<1>6. Writes(call[p].s, <<e>>)
  BY <1>2, <1>3, <1>5, OneWrite DEF e
<1> QED BY <1>2, <1>6

LEMMA SeedWrites ==
  ASSUME LibraryInv, NEW p \in Pages, L!SeedFork(p)
  PROVE  log' = log \/ \E s \in Sessions : \E e : Writes(s, e)
<1> DEFINE e == <<L!Created, L!Seeded>>
<1>1. e \in Seq({L!Created, L!Seeded}) /\ Len(e) = 2 /\ e[1] = L!Created /\ e[2] = L!Seeded
  OBVIOUS
<1>2. \A i \in 1..Len(e) : e[i].type # "selected"
  BY <1>1 DEF L!Created, L!Seeded
<1>3. IsSeq(e)
  BY <1>1 DEF IsSeq
<1>4. log' = log \/ log' = [log EXCEPT ![call[p].to] = @ \o e]
  BY DEF L!SeedFork
<1> HIDE DEF e
<1>5. CASE log' # log
  <2>1. log' = [log EXCEPT ![call[p].to] = @ \o e]
    BY <1>4, <1>5
  <2>2. call[p].to \in Sessions
    BY <1>5, <2>1 DEF LibraryInv, LibraryTyped
  <2> QED BY <1>2, <1>3, <2>1, <2>2 DEF Writes
<1> QED BY <1>5

LEMMA StepWrites ==
  ASSUME LibraryInv, L!LibraryAssumption, [L!Next]_L!vars
  PROVE  log' = log \/ \E s \in Sessions : \E e : Writes(s, e)
<1>1. ASSUME NEW s \in Sessions, L!Turn(s)
      PROVE  \E e : Writes(s, e)
  <2>1. PICK e \in {L!Completed, L!Requested} : log' = [log EXCEPT ![s] = Append(@, e)]
    BY <1>1 DEF L!Turn
  <2>2. e.type # "selected"
    BY <2>1 DEF L!Completed, L!Requested
  <2>3. Writes(s, <<e>>)
    BY <2>1, <2>2, OneWrite
  <2> QED BY <2>3
<1>2. ASSUME NEW p \in Pages, L!Begin(p) \/ L!Fails(p) \/ L!CallStep(p), ~L!Commit(p), ~L!SeedFork(p)
      PROVE  log' = log
  BY <1>2 DEF L!Begin, L!Fails, L!CallStep, L!GetSession, L!ListSessions, L!ReadEvents,
     L!DecideFavorite, L!DecideMove, L!DecideSelect, L!ConfirmSelect, L!ReadHead, L!RemoveSession,
     L!Clean, L!ReadOwn, L!After, L!Stable, L!Fresh, L!CreateFork, L!DecideRePin, L!journal
<1>3. UNCHANGED L!vars => log' = log
  BY DEF L!vars, L!journal
<1> QED BY <1>1, <1>2, <1>3, CommitWrites, SeedWrites DEF L!Next

\* What a write leaves of each log.
LEMMA WrittenLogs ==
  ASSUME LibraryInv, NEW s \in Sessions, NEW e, Writes(s, e), NEW u \in Sessions
  PROVE  /\ IsSeq(log'[u]) /\ Len(log[u]) \in Nat /\ Begins(log[u], log'[u])
         /\ \A i \in 1..Len(log'[u]) :
              \/ i \in 1..Len(log[u]) /\ log'[u][i] = log[u][i]
              \/ \E j \in 1..Len(e) : log'[u][i] = e[j]
<1>1. CASE u # s
  <2>1. log'[u] = log[u]
    BY <1>1 DEF Writes, LibraryInv, LibraryTyped
  <2> QED BY <2>1, LogLengths DEF LibraryInv, LibraryTyped
<1>2. CASE u = s
  <2>1. log'[u] = log[u] \o e /\ IsSeq(log[u]) /\ IsSeq(e)
    BY <1>2 DEF Writes, LibraryInv, LibraryTyped
  <2>2. /\ IsSeq(log[u] \o e) /\ Len(log[u]) \in Nat /\ Len(e) \in Nat
        /\ Len(log[u] \o e) = Len(log[u]) + Len(e)
        /\ \A i \in 1..Len(log[u]) : (log[u] \o e)[i] = log[u][i]
        /\ \A i \in (Len(log[u]) + 1)..(Len(log[u]) + Len(e)) :
             i - Len(log[u]) \in 1..Len(e) /\ (log[u] \o e)[i] = e[i - Len(log[u])]
    BY <2>1, Appended
  <2>3. Begins(log[u], log'[u])
    BY <2>1, <2>2 DEF Begins
  <2>4. ASSUME NEW i \in 1..Len(log'[u])
        PROVE  \/ i \in 1..Len(log[u]) /\ log'[u][i] = log[u][i]
               \/ \E j \in 1..Len(e) : log'[u][i] = e[j]
    <3>1. i \in 1..Len(log[u]) \/ i \in (Len(log[u]) + 1)..(Len(log[u]) + Len(e))
      BY <2>1, <2>2
    <3> QED BY <2>1, <2>2, <3>1
  <2> QED BY <2>1, <2>2, <2>3, <2>4
<1> QED BY <1>1, <1>2

\* Every log goes on from what it was.
LEMMA LogsGrow ==
  ASSUME LibraryInv, L!LibraryAssumption, [L!Next]_L!vars, NEW u \in Sessions
  PROVE  IsSeq(log'[u]) /\ Len(log[u]) \in Nat /\ Len(log'[u]) \in Nat /\ Begins(log[u], log'[u])
<1>1. IsSeq(log'[u]) /\ Len(log[u]) \in Nat /\ Begins(log[u], log'[u])
  <2>1. CASE log' = log
    BY <2>1, LogLengths DEF LibraryInv, LibraryTyped
  <2>2. ASSUME NEW s \in Sessions, NEW e, Writes(s, e)
        PROVE  IsSeq(log'[u]) /\ Len(log[u]) \in Nat /\ Begins(log[u], log'[u])
    BY <2>2, WrittenLogs
  <2> QED BY <2>1, <2>2, StepWrites
<1> QED BY <1>1, SeqLen

\* What a page has read is a beginning of what there is.
LEMMA ViewsStay ==
  ASSUME LibraryInv, L!LibraryAssumption, [L!Next]_L!vars, NEW q \in Pages, View(q)
  PROVE  View(q)'
<1>1. CASE seen'[q] = seen[q]
  <2> SUFFICES ASSUME NEW s \in DOMAIN seen[q]
               PROVE  s \in Sessions /\ (seen[q][s] = L!Unread \/ Begins(seen[q][s], log'[s]))
    BY <1>1 DEF View
  <2>1. s \in Sessions /\ (seen[q][s] = L!Unread \/ Begins(seen[q][s], log[s]))
    BY DEF View
  <2>2. CASE Begins(seen[q][s], log[s])
    <3>1. Len(seen[q][s]) \in Nat
      BY <2>2, SeqLen DEF Begins
    <3> QED BY <2>1, <2>2, <3>1, LogsGrow, BeginsOn
  <2> QED BY <2>1, <2>2
<1>2. Begins(<< >>, << >>) /\ \A s \in Sessions : Begins(<< >>, log[s]) /\ Begins(log[s], log[s])
  <2>1. << >> \in Seq({}) /\ Len(<< >>) = 0
    OBVIOUS
  <2>2. IsSeq(<< >>)
    BY <2>1 DEF IsSeq
  <2>3. \A s \in Sessions : Len(log[s]) \in Nat /\ Begins(log[s], log[s])
    BY LogLengths DEF LibraryInv
  <2> QED BY <2>1, <2>2, <2>3 DEF Begins
<1>3. seen = [p \in Pages |-> seen[p]]
  BY DEF LibraryInv, LibraryTyped
<1>4. ASSUME L!ListSessions(q)
      PROVE  View(q)'
  <2>1. seen'[q] = [s \in {t \in Sessions : life[t] = "live"} |-> L!Unread]
    <3>1. L!Journal = [s \in {t \in Sessions : life[t] = "live"} |-> log[s]]
      BY DEF L!Journal
    <3>2. seen' = [seen EXCEPT ![q] = [s \in DOMAIN L!Journal |-> L!Unread]]
      BY <1>4 DEF L!ListSessions
    <3> QED BY <1>3, <3>1, <3>2
  <2> QED BY <2>1 DEF View
<1>5. ASSUME L!ReadEvents(q)
      PROVE  View(q)'
  <2>1. PICK s \in DOMAIN seen[q] :
          seen' = [seen EXCEPT ![q][s] = IF life[s] = "live" THEN log[s] ELSE << >>]
    BY <1>5 DEF L!ReadEvents
  <2>2. /\ seen'[q] = [seen[q] EXCEPT ![s] = IF life[s] = "live" THEN log[s] ELSE << >>]
        /\ log' = log
    BY <1>3, <1>5, <2>1 DEF L!ReadEvents, L!journal
  <2>3. /\ DOMAIN seen'[q] = DOMAIN seen[q]
        /\ seen'[q][s] = log[s] \/ seen'[q][s] = << >>
        /\ \A t \in DOMAIN seen[q] : t # s => seen'[q][t] = seen[q][t]
    BY <2>2
  <2> SUFFICES ASSUME NEW t \in DOMAIN seen[q]
               PROVE  t \in Sessions /\ (seen'[q][t] = L!Unread \/ Begins(seen'[q][t], log[t]))
    BY <2>2, <2>3 DEF View
  <2> QED BY <1>2, <2>3 DEF View
<1>6. ASSUME L!ReadOwn(q)
      PROVE  View(q)'
  <2> DEFINE o == call[q].s
  <2>1. call[q].pc = "events" /\ log' = log
    BY <1>6 DEF L!ReadOwn, L!At, L!journal
  <2>2. o \in Sessions
    BY <2>1, CallIs, AnswersAre
  <2>3. seen'[q] = [s \in {o} |-> IF life[s] = "live" THEN log[s] ELSE << >>]
    BY <1>3, <1>6 DEF L!ReadOwn, L!Item
  <2>4. DOMAIN seen'[q] = {o} /\ (seen'[q][o] = log[o] \/ seen'[q][o] = << >>)
    BY <2>3
  <2> QED BY <1>2, <2>1, <2>2, <2>4 DEF View
<1>7. ASSUME L!Commit(q)
      PROVE  View(q)'
  <2>1. seen'[q] = << >>
    BY <1>3, <1>7 DEF L!Commit
  <2>2. DOMAIN seen'[q] = {}
    BY <2>1
  <2> QED BY <2>2 DEF View
<1>8. \/ seen'[q] = seen[q]
      \/ L!ListSessions(q) \/ L!ReadEvents(q) \/ L!ReadOwn(q) \/ L!Commit(q)
  <2>1. ASSUME NEW p \in Pages, L!ListSessions(p) \/ L!ReadOwn(p) \/ L!Commit(p)
        PROVE  p # q => seen'[q] = seen[q]
    BY <1>3, <2>1 DEF L!ListSessions, L!ReadOwn, L!Commit
  <2>2. ASSUME NEW p \in Pages, L!ReadEvents(p)
        PROVE  p # q => seen'[q] = seen[q]
    BY <1>3, <2>2 DEF L!ReadEvents
  <2>3. ASSUME NEW p \in Pages, L!Begin(p) \/ L!Fails(p) \/ L!CallStep(p), ~L!ListSessions(p),
               ~L!ReadEvents(p), ~L!ReadOwn(p), ~L!Commit(p)
        PROVE  seen' = seen
    BY <2>3 DEF L!Begin, L!Fails, L!CallStep, L!GetSession, L!DecideFavorite, L!DecideMove,
       L!DecideSelect, L!ConfirmSelect, L!ReadHead, L!RemoveSession, L!Clean, L!After, L!Stable,
       L!Fresh, L!CreateFork, L!SeedFork, L!DecideRePin
  <2>4. ASSUME NEW s \in Sessions, L!Turn(s)
        PROVE  seen' = seen
    BY <2>4 DEF L!Turn
  <2>5. UNCHANGED L!vars => seen' = seen
    BY DEF L!vars
  <2> QED BY <2>1, <2>2, <2>3, <2>4, <2>5 DEF L!Next
<1> QED BY <1>1, <1>4, <1>5, <1>6, <1>7, <1>8

LEMMA ChoicesStayCounted ==
  ASSUME LibraryInv, ChoiceInv, L!LibraryAssumption, [L!Next]_L!vars
  PROVE  \E g \in Nat : \A s \in Sessions : Counted(g, log'[s])
<1>1. PICK g \in Nat : \A s \in Sessions : Counted(g, log[s])
  BY DEF ChoiceInv
<1>2. CASE log' = log
  BY <1>1, <1>2
<1>3. ASSUME NEW s \in Sessions, NEW e, Writes(s, e)
      PROVE  \A u \in Sessions : Counted(g + 1, log'[u])
  <2>1. \A p \in Pages : L!Pointer(seen[p]).gen \in 0..g
    <3> TAKE p \in Pages
    <3>1. \A t \in DOMAIN seen[p] : Counted(g, seen[p][t])
      BY <1>1, ViewsAreCounted DEF ChoiceInv
    <3> QED BY <3>1, PointerIs DEF L!LibraryAssumption
  <2>2. \A j \in 1..Len(e) : e[j].type = "selected" => e[j].gen \in 0..(g + 1) /\ e[j].at \in 0..MaxStamps
    <3> SUFFICES ASSUME NEW j \in 1..Len(e), e[j].type = "selected"
                 PROVE  e[j].gen \in 0..(g + 1) /\ e[j].at \in 0..MaxStamps
      OBVIOUS
    <3>1. PICK p \in Pages : e[j].gen = L!Pointer(seen[p]).gen + 1 /\ e[j].at \in 0..MaxStamps
      BY <1>3 DEF Writes
    <3>2. L!Pointer(seen[p]).gen \in 0..g
      BY <2>1
    <3> QED BY <3>1, <3>2
  <2> SUFFICES ASSUME NEW u \in Sessions, NEW i \in 1..Len(log'[u]), log'[u][i].type = "selected"
               PROVE  log'[u][i].gen \in 0..(g + 1) /\ log'[u][i].at \in 0..MaxStamps
    BY DEF Counted
  <2>3. \/ i \in 1..Len(log[u]) /\ log'[u][i] = log[u][i]
        \/ \E j \in 1..Len(e) : log'[u][i] = e[j]
    BY <1>3, WrittenLogs
  <2>4. CASE i \in 1..Len(log[u]) /\ log'[u][i] = log[u][i]
    <3>1. log[u][i].gen \in 0..g /\ log[u][i].at \in 0..MaxStamps
      BY <1>1, <2>4 DEF Counted
    <3> QED BY <2>4, <3>1
  <2> QED BY <2>2, <2>3, <2>4
<1>4. g + 1 \in Nat
  OBVIOUS
<1> QED BY <1>2, <1>3, <1>4, StepWrites

LEMMA ShortLogs ==
  ASSUME NEW l, NEW x, NEW y
  PROVE  /\ l = <<x, y>> => \A i \in 1..Len(l) : l[i] = x \/ l[i] = y
         /\ l = <<x>> => \A i \in 1..Len(l) : l[i] = x
<1>1. Len(<<x, y>>) = 2 /\ <<x, y>>[1] = x /\ <<x, y>>[2] = y
  OBVIOUS
<1>2. Len(<<x>>) = 1 /\ <<x>>[1] = x
  OBVIOUS
<1>3. \A i \in 1..2 : i = 1 \/ i = 2
  OBVIOUS
<1>4. \A i \in 1..1 : i = 1
  OBVIOUS
<1> QED BY <1>1, <1>2, <1>3, <1>4, Zenon

LEMMA ChoicesStart ==
  ASSUME L!LibraryAssumption, L!Init
  PROVE  ChoiceInv
<1>1. \A p \in Pages : View(p)
  <2> TAKE p \in Pages
  <2>1. seen[p] = << >>
    BY DEF L!Init
  <2>2. DOMAIN seen[p] = {}
    BY <2>1
  <2> QED BY <2>2 DEF View
<1>2. PICK at :
        log = [s \in Sessions |->
                 CASE s \in Starred -> <<L!Created, L!Favorite(TRUE, at[s])>>
                   [] s \in Present \ Starred -> <<L!Created>>
                   [] OTHER -> << >>]
  BY DEF L!Init
<1>3. ASSUME NEW s \in Sessions
      PROVE  Counted(0, log[s])
  <2>1. \/ log[s] = <<L!Created, L!Favorite(TRUE, at[s])>>
        \/ log[s] = <<L!Created>> \/ log[s] = << >>
    BY <1>2
  <2>2. L!Created.type # "selected" /\ L!Favorite(TRUE, at[s]).type # "selected"
    BY DEF L!Created, L!Favorite
  <2>3. CASE log[s] = <<L!Created, L!Favorite(TRUE, at[s])>>
    <3>1. \A i \in 1..Len(log[s]) : log[s][i] = L!Created \/ log[s][i] = L!Favorite(TRUE, at[s])
      BY <2>3, ShortLogs
    <3> QED BY <2>2, <3>1 DEF Counted
  <2>4. CASE log[s] = <<L!Created>>
    <3>1. \A i \in 1..Len(log[s]) : log[s][i] = L!Created
      BY <2>4, ShortLogs
    <3> QED BY <2>2, <3>1 DEF Counted
  <2>5. CASE log[s] = << >>
    BY <2>5 DEF Counted
  <2> QED BY <2>1, <2>3, <2>4, <2>5
<1> QED BY <1>1, <1>3 DEF ChoiceInv

LEMMA ChoicesInductive ==
  ASSUME L!LibraryAssumption
  PROVE  L!Spec => [](LibraryInv /\ ChoiceInv)
<1>1. ASSUME LibraryInv, ChoiceInv, [L!Next]_L!vars
      PROVE  ChoiceInv'
  <2>1. \A q \in Pages : View(q)'
    BY <1>1, ViewsStay DEF ChoiceInv
  <2> QED BY <1>1, <2>1, ChoicesStayCounted DEF ChoiceInv, Counted
<1> QED BY <1>1, ChoicesStart, LibraryInductive, PTL DEF L!Spec

\* A choice with a generation above all others is the newest.
LEMMA NextGenerationWins ==
  ASSUME NEW C, NEW c \in C, c.gen \in Nat, c.at \in Nat,
         \A d \in C : d = c \/ (d.gen \in Nat /\ d.gen < c.gen)
  PROVE  (CHOOSE d \in C : \A e \in C : ~L!Older(d, e)) = c
<1>1. \A e \in C : ~L!Older(c, e)
  <2> TAKE e \in C
  <2>1. CASE e = c
    BY <2>1 DEF L!Older
  <2>2. CASE e # c
    BY <2>2 DEF L!Older
  <2> QED BY <2>1, <2>2
<1>2. ASSUME NEW d \in C, \A e \in C : ~L!Older(d, e)
      PROVE  d = c
  <2>1. ~L!Older(d, c)
    BY <1>2
  <2> QED BY <2>1 DEF L!Older
<1> QED BY <1>1, <1>2

\* The choices of the journal after one more in a live conversation.
LEMMA OneMoreChoice ==
  ASSUME LibraryInv, NEW s \in Sessions, life[s] = "live", life' = life, NEW g, NEW at,
         log' = [log EXCEPT ![s] = Append(@, [type |-> "selected", at |-> at, gen |-> g])]
  PROVE  LET new == [host |-> s, gen |-> g, at |-> at] IN
         /\ new \in L!Selections(L!Journal')
         /\ \A d \in L!Selections(L!Journal') : d = new \/ d \in L!Selections(L!Journal)
<1> DEFINE e == [type |-> "selected", at |-> at, gen |-> g]
           new == [host |-> s, gen |-> g, at |-> at]
           Live == {t \in Sessions : life[t] = "live"}
<1>1. L!Journal = [t \in Live |-> log[t]] /\ L!Journal' = [t \in Live |-> log'[t]]
  BY DEF L!Journal
<1>2. PICK S : log[s] \in Seq(S)
  BY DEF LibraryInv, LibraryTyped, IsSeq
<1>3. log[s] \in Seq(S \cup {e}) /\ e \in S \cup {e}
  BY <1>2
<1>4. log'[s] = Append(log[s], e) /\ \A t \in Sessions : t # s => log'[t] = log[t]
  BY DEF LibraryInv, LibraryTyped
<1>5. e.type = "selected" /\ e.gen = g /\ e.at = at
  OBVIOUS
<1> HIDE DEF e
<1>6. /\ Len(log[s]) \in Nat /\ Len(log'[s]) = Len(log[s]) + 1 /\ log'[s][Len(log[s]) + 1] = e
      /\ \A i \in 1..Len(log[s]) : log'[s][i] = log[s][i]
  BY <1>3, <1>4
<1>7. new \in L!Selections(L!Journal')
  <2>1. Len(log[s]) + 1 \in L!OfType(log'[s], "selected")
    BY <1>5, <1>6 DEF L!OfType
  <2>2. s \in DOMAIN L!Journal' /\ L!Journal'[s] = log'[s]
    BY <1>1
  <2>3. new = [host |-> s, gen |-> log'[s][Len(log[s]) + 1].gen, at |-> log'[s][Len(log[s]) + 1].at]
    BY <1>5, <1>6
  <2> HIDE DEF new
  <2>4. \E i \in L!OfType(L!Journal'[s], "selected") :
          new = [host |-> s, gen |-> L!Journal'[s][i].gen, at |-> L!Journal'[s][i].at]
    BY <2>1, <2>2, <2>3, Zenon
  <2>5. new \in {[host |-> s, gen |-> L!Journal'[s][i].gen, at |-> L!Journal'[s][i].at] :
                   i \in L!OfType(L!Journal'[s], "selected")}
    BY <2>4, Zenon
  <2> QED BY <2>2, <2>5, Zenon DEF L!Selections
<1>8. ASSUME NEW d \in L!Selections(L!Journal')
      PROVE  d = new \/ d \in L!Selections(L!Journal)
  <2>1. PICK t \in DOMAIN L!Journal' : \E i \in L!OfType(L!Journal'[t], "selected") :
          d = [host |-> t, gen |-> L!Journal'[t][i].gen, at |-> L!Journal'[t][i].at]
    BY DEF L!Selections
  <2>2. t \in Sessions /\ t \in DOMAIN L!Journal /\ L!Journal'[t] = log'[t] /\ L!Journal[t] = log[t]
    BY <1>1
  <2>3. PICK i \in L!OfType(log'[t], "selected") :
          d = [host |-> t, gen |-> log'[t][i].gen, at |-> log'[t][i].at]
    BY <2>1, <2>2
  <2>4. CASE t = s /\ i = Len(log[s]) + 1
    <3>1. log'[t][i] = e
      BY <1>6, <2>4
    <3> QED BY <1>5, <2>3, <2>4, <3>1
  <2>5. CASE ~(t = s /\ i = Len(log[s]) + 1)
    <3>1. i \in L!OfType(log[t], "selected") /\ log'[t][i] = log[t][i]
      <4>1. CASE t = s
        <5>1. i \in 1..Len(log[s])
          BY <1>6, <2>5, <4>1 DEF L!OfType
        <5> QED BY <1>6, <4>1, <5>1 DEF L!OfType
      <4>2. CASE t # s
        BY <1>4, <2>2, <4>2
      <4> QED BY <4>1, <4>2
    <3>2. d = [host |-> t, gen |-> L!Journal[t][i].gen, at |-> L!Journal[t][i].at]
      BY <2>2, <2>3, <3>1
    <3>3. i \in L!OfType(L!Journal[t], "selected")
      BY <2>2, <3>1
    <3> QED BY <2>2, <3>2, <3>3 DEF L!Selections
  <2> QED BY <2>4, <2>5
<1> QED BY <1>7, <1>8

(***************************************************************************)
(* A choice of the active conversation that nobody raced is the one that   *)
(* readers find (selectProfileActiveConversation,                          *)
(* resolveProfileActiveConversation): however many choices were made, in   *)
(* which conversations, and whatever the clocks of their browsers said.    *)
(***************************************************************************)
THEOREM UnracedChoicesWin ==
  ASSUME L!LibraryAssumption
  PROVE  L!Spec => [][L!ChoiceWins]_L!vars
<1>1. ASSUME LibraryInv, ChoiceInv, [L!Next]_L!vars
      PROVE  [L!ChoiceWins]_L!vars
  <2> SUFFICES ASSUME NEW p \in Pages, call[p].pc = "commit", call[p].op = "select",
                      log'[call[p].s] # log[call[p].s], call'[p] # call[p],
                      L!Selections(seen[p]) = L!Selections(L!Journal)
               PROVE  L!Pointer(L!Journal').host = call[p].s
    BY DEF L!ChoiceWins, L!Op, L!At, L!Item
  <2> DEFINE s == call[p].s
             g == L!Pointer(seen[p]).gen
  <2>1. call[p].pc \notin L!Answers /\ s \in Sessions
    BY <1>1, CallIs, AnswersAre
  <2>2. L!Commit(p)
    <3>1. L!Begin(p) \/ L!CallStep(p) \/ L!Fails(p)
      BY <1>1, OwnCall
    <3>2. ~L!Begin(p) /\ ~L!Fails(p)
      BY <2>1 DEF L!Begin, L!Fails, L!journal
    <3> QED BY <3>1, <3>2
         DEF L!CallStep, L!GetSession, L!ListSessions, L!ReadEvents, L!DecideFavorite, L!DecideMove,
             L!DecideSelect, L!ConfirmSelect, L!Projected, L!ReadHead, L!RemoveSession, L!Clean,
             L!ReadOwn, L!After, L!Stable, L!Fresh, L!CreateFork, L!SeedFork, L!DecideRePin, L!At
  <2>3. PICK at \in L!Stamps : /\ life[s] = "live" /\ life' = life
                               /\ log' = [log EXCEPT ![s] = Append(@, L!Draft(p, at))]
    BY <2>2 DEF L!Commit, L!Item, L!Op, L!Stamped
  <2>4. L!Draft(p, at) = [type |-> "selected", at |-> at, gen |-> g + 1]
    BY DraftIs
  <2> DEFINE new == [host |-> s, gen |-> g + 1, at |-> at]
  <2>5. /\ new \in L!Selections(L!Journal')
        /\ \A d \in L!Selections(L!Journal') : d = new \/ d \in L!Selections(L!Journal)
    BY <1>1, <2>1, <2>3, <2>4, OneMoreChoice
  <2>6. PICK n \in Nat : \A t \in Sessions : Counted(n, log[t])
    BY <1>1 DEF ChoiceInv
  <2>7. \A t \in DOMAIN seen[p] : Counted(n, seen[p][t])
    BY <1>1, <2>6, ViewsAreCounted DEF ChoiceInv
  <2>8. /\ g \in 0..n /\ \A d \in L!Selections(seen[p]) : d.gen <= g /\ d.gen \in 0..n
    BY <2>7, PointerIs, ChoicesAre DEF L!LibraryAssumption
  <2>9. new.gen = g + 1 /\ new.at \in Nat /\ new.host = s /\ new.gen \in Nat
    BY <2>8 DEF L!Stamps, L!LibraryAssumption
  <2>10. \A d \in L!Selections(L!Journal') : d = new \/ (d.gen \in Nat /\ d.gen < new.gen)
    <3> HIDE DEF new
    <3> TAKE d \in L!Selections(L!Journal')
    <3>1. CASE d \in L!Selections(seen[p])
      BY <2>8, <2>9, <3>1
    <3> QED BY <2>5, <3>1
  <2> HIDE DEF new
  <2>11. L!Pointer(L!Journal') = new
    <3>1. (CHOOSE d \in L!Selections(L!Journal') :
             \A e \in L!Selections(L!Journal') : ~L!Older(d, e)) = new
      BY <2>5, <2>9, <2>10, NextGenerationWins
    <3>2. L!Selections(L!Journal') # {}
      BY <2>5
    <3> QED BY <3>1, <3>2 DEF L!Pointer
  <2> QED BY <2>9, <2>11
<1> QED BY <1>1, ChoicesInductive, PTL DEF L!Spec
===============================================================================
