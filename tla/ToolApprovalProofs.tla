--------------------------- MODULE ToolApprovalProofs --------------------------
(***************************************************************************)
(* Proofs about ToolApproval, for any conversations, operations, calls,    *)
(* modes and arguments: an effect needs authority, one review pays for one *)
(* effect with the reviewed arguments, the journal names a person exactly  *)
(* when one answered, and nothing of a stopped turn stays behind.          *)
(***************************************************************************)
EXTENDS ToolApproval, FiniteSetTheorems, TLAPS

BrokerOutcomes == {"allow", "deny", "expired", "withdrawn", "unavailable"}
Unreads == [op : Ops, outcome : BrokerOutcomes]
Executions == [args : Args, ticket : Args \cup {None}]
Humans == {"human", "human-fallback"}

\* What TypeOK leaves open, being bounded by the history it records.
HistoryTyped ==
  /\ outcomes \in Seq(Unreads)
  /\ journal \in [Ops -> [decision : {None, "allow", "deny"}, approval : Records]]
  /\ executing \in [Ops -> Seq(Executions)]
  /\ ran \in [Ops -> Seq(Args)]

(***************************************************************************)
(* The broker's unread outcomes: one for each review whose policy has yet  *)
(* to resume, telling a person's answer from everything else.  One per     *)
(* operation fits MAX_SETTLED_OUTCOMES, so none is evicted before its      *)
(* policy reads it.                                                        *)
(***************************************************************************)
OnePerReview(unread) ==
  \A i, j \in DOMAIN unread : unread[i].op = unread[j].op => i = j

Tells(r) == review[r.op] = "settled" /\ (Answered(r.outcome) <=> answered[r.op] # None)

OutcomesKept ==
  /\ OnePerReview(outcomes)
  /\ \A i \in DOMAIN outcomes : Tells(outcomes[i])
  /\ \A o \in Ops : review[o] = "settled" => \E i \in DOMAIN outcomes : outcomes[i].op = o

\* Where an operation's review is decides which of its state is still untouched.
Untouched(o) ==
  /\ o \in entries <=> review[o] = "asked"
  /\ o \in completed => review[o] = "returned"
  /\ review[o] \in {"new", "digest", "asked"} => answered[o] = None /\ decision[o] = None
  /\ review[o] \in {"new", "digest"} => delegate[o] = None
  /\ review[o] \in {"asked", "settled", "decided"} => delegate[o] \in Modes
  /\ review[o] # "closed" => journal[o] = NoEvent /\ executing[o] = << >> /\ ran[o] = << >>
  /\ review[o] \notin {"returned", "closed"} => tickets[o] = None

\* An allow rests on a person's allow, or on the mode the review ran under.
Backed(o) == decision[o] = "allow" => answered[o] = "allow" \/ Automatic(delegate[o], call[o])

\* A record tells who decided; no record means that no policy was consulted.
Truthful(o, record) ==
  IF delegate[o] = None THEN answered[o] = None /\ record = NoRecord
  ELSE /\ record.mode = delegate[o] /\ record.source # None
       /\ record.source \in Humans <=> answered[o] # None

Attributed(o) ==
  /\ review[o] = "decided" => Truthful(o, provenance[o])
  /\ review[o] = "returned" => Truthful(o, TakenProvenance(o))
  /\ review[o] = "closed" => Truthful(o, journal[o].approval)

\* A granted approval is a ticket, then an execution, then an effect: never two of them.
SpentOnce(o) ==
  /\ tickets[o] \in {None, shown[o]}
  /\ executing[o] # << >> =>
       /\ tickets[o] = None /\ ran[o] = << >>
       /\ \E a \in Args : executing[o] = <<[args |-> a, ticket |-> shown[o]]>>
  /\ ran[o] # << >> => tickets[o] = None /\ ran[o] = <<shown[o]>>
  /\ tickets[o] # None \/ executing[o] # << >> \/ ran[o] # << >> => decision[o] = "allow"

Stopped(o) == TurnAborted(o) => tickets[o] = None /\ o \notin entries

OpInv(o) == Untouched(o) /\ Backed(o) /\ Attributed(o) /\ SpentOnce(o) /\ Stopped(o)

ApprovalInv == TypeOK /\ HistoryTyped /\ OutcomesKept /\ \A o \in Ops : OpInv(o)
-------------------------------------------------------------------------------
(* The operators on unread outcomes *)

\* SetToSeq lists a finite set, each member once.
LEMMA Listing ==
  ASSUME NEW S, IsFiniteSet(S)
  PROVE  /\ Cardinality(S) \in Nat
         /\ SetToSeq(S) \in [1..Cardinality(S) -> S]
         /\ \A i, j \in 1..Cardinality(S) : SetToSeq(S)[i] = SetToSeq(S)[j] => i = j
         /\ \A x \in S : \E i \in 1..Cardinality(S) : SetToSeq(S)[i] = x
<1> DEFINE n == Cardinality(S)
<1>1. n \in Nat /\ ExistsBijection(1..n, S)
  BY FS_CardinalityType
<1>2. PICK f \in Bijection(1..n, S) : TRUE
  BY <1>1 DEF ExistsBijection
<1>3. \E g \in [1..n -> S] : IsInjective(g)
  BY <1>2 DEF Bijection, Injection
<1>4. SetToSeq(S) \in [1..n -> S] /\ IsInjective(SetToSeq(S))
  BY <1>3 DEF SetToSeq
<1>5. SetToSeq(S) \in Injection(1..n, S)
  BY <1>4 DEF Injection
<1>6. Cardinality(1..n) = n
  BY <1>1, FS_Interval
<1>7. SetToSeq(S) \in Surjection(1..n, S)
  BY <1>5, <1>6, FS_Injection
<1> QED BY <1>1, <1>4, <1>7, Zenon DEF IsInjective, Surjection

\* A sequence of records that name different operations is no longer than Ops.
LEMMA NoMoreThanOps ==
  ASSUME NEW s \in Seq(Unreads), OnePerReview(s)
  PROVE  Len(s) <= MaxOutcomes
<1> DEFINE f == [i \in 1..Len(s) |-> s[i].op]
<1>1. Len(s) \in Nat /\ DOMAIN s = 1..Len(s)
  OBVIOUS
<1>2. f \in [1..Len(s) -> Ops]
  <2>1. \A i \in 1..Len(s) : s[i] \in Unreads
    OBVIOUS
  <2> QED BY <2>1 DEF Unreads
<1>3. f \in Injection(1..Len(s), Ops)
  BY <1>1, <1>2 DEF Injection, IsInjective, OnePerReview
<1>4. Cardinality(1..Len(s)) <= Cardinality(Ops)
  BY <1>3, FS_Injection, ApprovalAssumption
<1>5. Cardinality(1..Len(s)) = Len(s)
  BY <1>1, FS_Interval
<1>6. Cardinality(Ops) \in Nat /\ MaxOutcomes \in Nat /\ MaxOutcomes >= Cardinality(Ops)
  BY ApprovalAssumption, FS_CardinalityType
<1> QED BY <1>1, <1>4, <1>5, <1>6

(***************************************************************************)
(* remember, for operations with no unread outcome: the new records are    *)
(* appended and nothing old makes room for them.                           *)
(***************************************************************************)
LEMMA RemembersAll ==
  ASSUME NEW s \in Seq(Unreads), OnePerReview(s),
         NEW ops \in SUBSET Ops, NEW outcome \in BrokerOutcomes,
         \A i \in DOMAIN s : s[i].op \notin ops
  PROVE  LET all == Remember(s, ops, outcome)
         IN  /\ all \in Seq(Unreads) /\ OnePerReview(all)
             /\ \A i \in DOMAIN s : i \in DOMAIN all /\ all[i] = s[i]
             /\ \A i \in DOMAIN all :
                  \/ i \in DOMAIN s /\ all[i] = s[i]
                  \/ all[i].op \in ops /\ all[i].outcome = outcome
             /\ \A o \in ops : \E i \in DOMAIN all : all[i].op = o
<1> DEFINE n == Cardinality(ops)
           order == SetToSeq(ops)
           new == [i \in 1..n |-> [op |-> order[i], outcome |-> outcome]]
           all == s \o new
<1>1. IsFiniteSet(ops)
  BY FS_Subset, ApprovalAssumption
<1>2. /\ n \in Nat /\ order \in [1..n -> ops]
      /\ \A i, j \in 1..n : order[i] = order[j] => i = j
      /\ \A x \in ops : \E i \in 1..n : order[i] = x
  BY <1>1, Listing
<1> HIDE DEF n, order
<1>3. new \in Seq(Unreads) /\ Len(new) = n
  <2>1. \A i \in 1..n : [op |-> order[i], outcome |-> outcome] \in Unreads
    BY <1>2 DEF Unreads
  <2> QED BY <1>2, <2>1
<1>4. \A i \in 1..n : new[i].op = order[i] /\ new[i].outcome = outcome
  OBVIOUS
<1> HIDE DEF new
<1>5. /\ all \in Seq(Unreads) /\ Len(all) = Len(s) + n
      /\ \A i \in 1..Len(s) : all[i] = s[i]
      /\ \A i \in Len(s) + 1 .. Len(s) + n : all[i] = new[i - Len(s)]
  BY <1>2, <1>3
<1>6. DOMAIN s = 1..Len(s) /\ DOMAIN all = 1..Len(s) + n /\ Len(s) \in Nat
  BY <1>5
<1> HIDE DEF all
<1>7. \A i \in 1..Len(s) + n : i \in 1..Len(s) \/ i - Len(s) \in 1..n
  BY <1>2, <1>6
<1>8. \A i \in DOMAIN all :
        \/ i \in DOMAIN s /\ all[i] = s[i]
        \/ all[i].op \in ops /\ all[i].outcome = outcome
  <2> SUFFICES ASSUME NEW i \in 1..Len(s) + n, i \notin 1..Len(s)
               PROVE  all[i].op \in ops /\ all[i].outcome = outcome
    BY <1>5, <1>6
  <2>1. i - Len(s) \in 1..n /\ i \in Len(s) + 1 .. Len(s) + n
    BY <1>2, <1>6
  <2>2. all[i] = new[i - Len(s)]
    BY <1>5, <2>1
  <2> QED BY <1>2, <1>4, <2>1, <2>2
<1>9. \A o \in ops : \E i \in DOMAIN all : all[i].op = o
  <2> SUFFICES ASSUME NEW o \in ops
               PROVE  \E i \in DOMAIN all : all[i].op = o
    OBVIOUS
  <2>1. PICK k \in 1..n : order[k] = o
    BY <1>2
  <2>2. Len(s) + k \in Len(s) + 1 .. Len(s) + n /\ (Len(s) + k) - Len(s) = k
    BY <1>2, <1>6
  <2>3. all[Len(s) + k] = new[k]
    BY <1>5, <2>2
  <2>4. Len(s) + k \in DOMAIN all
    BY <1>2, <1>6
  <2> QED BY <1>4, <2>1, <2>3, <2>4
<1>10. OnePerReview(all)
  <2> SUFFICES ASSUME NEW i \in DOMAIN all, NEW j \in DOMAIN all, all[i].op = all[j].op
               PROVE  i = j
    BY DEF OnePerReview
  <2>1. \A k \in DOMAIN all : k \notin DOMAIN s =>
          /\ all[k] = new[k - Len(s)] /\ k - Len(s) \in 1..n
    <3> SUFFICES ASSUME NEW k \in 1..Len(s) + n, k \notin 1..Len(s)
                 PROVE  all[k] = new[k - Len(s)] /\ k - Len(s) \in 1..n
      BY <1>6
    <3>1. k - Len(s) \in 1..n /\ k \in Len(s) + 1 .. Len(s) + n
      BY <1>2, <1>6
    <3> QED BY <1>5, <3>1
  <2>2. CASE i \in DOMAIN s /\ j \in DOMAIN s
    BY <2>2, <1>5, <1>6 DEF OnePerReview
  <2>3. CASE i \notin DOMAIN s /\ j \notin DOMAIN s
    <3>1. order[i - Len(s)] = order[j - Len(s)]
      BY <1>4, <2>1, <2>3
    <3>2. i - Len(s) = j - Len(s)
      BY <1>2, <2>1, <2>3, <3>1
    <3> QED BY <1>2, <1>6, <3>2
  <2>4. CASE (i \in DOMAIN s) # (j \in DOMAIN s)
    <3>1. \A k \in DOMAIN all : k \notin DOMAIN s => all[k].op \in ops
      BY <1>8
    <3>2. \A k \in DOMAIN s : all[k].op \notin ops
      BY <1>5, <1>6
    <3> QED BY <2>4, <3>1, <3>2
  <2> QED BY <2>2, <2>3, <2>4
<1>11. Len(all) <= MaxOutcomes
  BY <1>5, <1>10, NoMoreThanOps
<1>12. Remember(s, ops, outcome) = SubSeq(all, 1, Len(all))
  BY <1>11 DEF Remember, all, new, order, n
<1>13. SubSeq(all, 1, Len(all)) = all
  BY <1>5
<1>14. \A i \in DOMAIN s : i \in DOMAIN all /\ all[i] = s[i]
  BY <1>2, <1>5, <1>6
<1>15. all \in Seq(Unreads)
  BY <1>5
<1> QED BY <1>8, <1>9, <1>10, <1>12, <1>13, <1>14, <1>15

\* takeOutcome removes one record and keeps every other.
LEMMA TakesOne ==
  ASSUME NEW s \in Seq(Unreads), OnePerReview(s), NEW k \in DOMAIN s
  PROVE  LET rest == RemoveAt(s, k)
         IN  /\ rest \in Seq(Unreads) /\ OnePerReview(rest)
             /\ \A i \in DOMAIN rest : \E j \in DOMAIN s : j # k /\ rest[i] = s[j]
             /\ \A j \in DOMAIN s : j # k => \E i \in DOMAIN rest : rest[i] = s[j]
<1> DEFINE rest == RemoveAt(s, k)
           before == SubSeq(s, 1, k - 1)
           after == SubSeq(s, k + 1, Len(s))
           from(i) == IF i < k THEN i ELSE i + 1
<1>1. DOMAIN s = 1..Len(s) /\ Len(s) \in Nat /\ k \in 1..Len(s)
  OBVIOUS
<1>2. /\ before \in Seq(Unreads) /\ Len(before) = k - 1
      /\ \A i \in 1..k - 1 : before[i] = s[i]
  BY <1>1
<1>3. /\ after \in Seq(Unreads) /\ Len(after) = Len(s) - k
      /\ \A i \in 1..Len(s) - k : after[i] = s[k + i]
  BY <1>1
<1>4. rest = before \o after
  BY DEF RemoveAt
<1> HIDE DEF before, after, rest
<1>5. rest \in Seq(Unreads) /\ Len(rest) = Len(s) - 1 /\ DOMAIN rest = 1..Len(s) - 1
  <2>1. rest \in Seq(Unreads) /\ Len(rest) = Len(before) + Len(after)
    <3>1. before \in Seq(Unreads) /\ after \in Seq(Unreads)
      BY <1>2, <1>3
    <3> QED BY <3>1, <1>4
  <2>2. Len(before) + Len(after) = Len(s) - 1
    BY <1>1, <1>2, <1>3
  <2>3. DOMAIN rest = 1..Len(rest)
    BY <2>1
  <2> QED BY <2>1, <2>2, <2>3
<1>6. \A i \in 1..Len(s) - 1 : rest[i] = s[from(i)]
  <2> SUFFICES ASSUME NEW i \in 1..Len(s) - 1
               PROVE  rest[i] = s[from(i)]
    OBVIOUS
  <2>1. CASE i < k
    BY <1>1, <1>2, <1>3, <1>4, <2>1
  <2>2. CASE ~(i < k)
    <3>1. rest[i] = after[i - (k - 1)] /\ i - (k - 1) \in 1..Len(s) - k
      BY <1>1, <1>2, <1>3, <1>4, <2>2
    <3>2. k + (i - (k - 1)) = i + 1
      BY <1>1
    <3> QED BY <1>3, <2>2, <3>1, <3>2
  <2> QED BY <2>1, <2>2
<1>7. \A i \in 1..Len(s) - 1 : from(i) \in 1..Len(s) /\ from(i) # k
  BY <1>1
<1>8. \A i, j \in 1..Len(s) - 1 : from(i) = from(j) => i = j
  BY <1>1
<1>9. \A j \in 1..Len(s) : j # k => \E i \in 1..Len(s) - 1 : from(i) = j
  <2> SUFFICES ASSUME NEW j \in 1..Len(s), j # k
               PROVE  \E i \in 1..Len(s) - 1 : from(i) = j
    OBVIOUS
  <2>1. CASE j < k
    BY <1>1, <2>1
  <2>2. CASE j > k
    <3>1. j - 1 \in 1..Len(s) - 1 /\ from(j - 1) = j
      BY <1>1, <2>2
    <3> QED BY <3>1
  <2> QED BY <1>1, <2>1, <2>2
<1> HIDE DEF from
<1>10. OnePerReview(rest)
  BY <1>1, <1>5, <1>6, <1>7, <1>8 DEF OnePerReview
<1>11. \A i \in DOMAIN rest : \E j \in DOMAIN s : j # k /\ rest[i] = s[j]
  BY <1>1, <1>5, <1>6, <1>7
<1>12. \A j \in DOMAIN s : j # k => \E i \in DOMAIN rest : rest[i] = s[j]
  BY <1>1, <1>5, <1>6, <1>9
<1> QED BY <1>5, <1>10, <1>11, <1>12 DEF rest
-------------------------------------------------------------------------------
(* What a step leaves alone *)

Kept(o) ==
  /\ review'[o] = review[o] /\ shown'[o] = shown[o] /\ delegate'[o] = delegate[o]
  /\ decision'[o] = decision[o] /\ provenance'[o] = provenance[o] /\ call' = call
  /\ tickets'[o] = tickets[o] /\ journal'[o] = journal[o]
  /\ executing'[o] = executing[o] /\ ran'[o] = ran[o] /\ answered'[o] = answered[o]
  /\ o \in entries' <=> o \in entries
  /\ o \in completed' <=> o \in completed
  /\ TurnAborted(o)' = TurnAborted(o)

LEMMA KeptOps ==
  ASSUME NEW o \in Ops, OpInv(o), Kept(o)
  PROVE  OpInv(o)'
<1>1. Untouched(o)'
  BY DEF OpInv, Kept, Untouched
<1>2. Backed(o)'
  BY DEF OpInv, Kept, Backed, Automatic
<1>3. Attributed(o)'
  BY DEF OpInv, Kept, Attributed, Truthful, TakenProvenance
<1>4. SpentOnce(o)'
  BY DEF OpInv, Kept, SpentOnce
<1>5. Stopped(o)'
  BY DEF OpInv, Kept, Stopped
<1> QED BY <1>1, <1>2, <1>3, <1>4, <1>5 DEF OpInv

\* A step of one operation has to answer for that operation only.
LEMMA OneOp ==
  ASSUME ApprovalInv, NEW o \in Ops, \A p \in Ops \ {o} : Kept(p), OpInv(o)'
  PROVE  \A p \in Ops : OpInv(p)'
BY KeptOps DEF ApprovalInv

LEMMA KeptOutcomes ==
  ASSUME OutcomesKept, outcomes' = outcomes, answered' = answered,
         outcomes \in Seq(Unreads),
         \A o \in Ops : review'[o] = "settled" <=> review[o] = "settled"
  PROVE  OutcomesKept'
<1>1. \A i \in DOMAIN outcomes : outcomes[i].op \in Ops
  <2>1. \A i \in DOMAIN outcomes : outcomes[i] \in Unreads
    OBVIOUS
  <2> QED BY <2>1 DEF Unreads
<1>2. OnePerReview(outcomes)'
  BY DEF OutcomesKept, OnePerReview
<1>3. \A i \in DOMAIN outcomes' : Tells(outcomes[i])'
  BY <1>1 DEF OutcomesKept, Tells, Answered
<1>4. \A o \in Ops : review'[o] = "settled" => \E i \in DOMAIN outcomes' : outcomes'[i].op = o
  BY DEF OutcomesKept
<1> QED BY <1>2, <1>3, <1>4 DEF OutcomesKept

\* Requests that settle add their outcomes to the unread ones.
LEMMA NewOutcomes ==
  ASSUME TypeOK, HistoryTyped, OutcomesKept, NEW ops \in SUBSET Ops, NEW outcome \in BrokerOutcomes,
         \A o \in ops : review[o] # "settled",
         outcomes' = Remember(outcomes, ops, outcome),
         \A o \in ops : review'[o] = "settled" /\ (Answered(outcome) <=> answered'[o] # None),
         \A o \in Ops \ ops : review'[o] = review[o] /\ answered'[o] = answered[o]
  PROVE  OutcomesKept' /\ outcomes' \in Seq(Unreads) /\ Len(outcomes') <= MaxOutcomes
<1>1. outcomes \in Seq(Unreads) /\ OnePerReview(outcomes)
  BY DEF HistoryTyped, OutcomesKept
<1>2. \A i \in DOMAIN outcomes :
        outcomes[i].op \in Ops /\ outcomes[i].op \notin ops /\ Tells(outcomes[i])
  <2>1. \A i \in DOMAIN outcomes : outcomes[i] \in Unreads
    BY <1>1
  <2> QED BY <2>1 DEF Unreads, OutcomesKept, Tells
<1>3. /\ outcomes' \in Seq(Unreads) /\ OnePerReview(outcomes')
      /\ \A i \in DOMAIN outcomes : i \in DOMAIN outcomes' /\ outcomes'[i] = outcomes[i]
      /\ \A i \in DOMAIN outcomes' :
           \/ i \in DOMAIN outcomes /\ outcomes'[i] = outcomes[i]
           \/ outcomes'[i].op \in ops /\ outcomes'[i].outcome = outcome
      /\ \A o \in ops : \E i \in DOMAIN outcomes' : outcomes'[i].op = o
  BY <1>1, <1>2, RemembersAll
<1>4. \A i \in DOMAIN outcomes' : Tells(outcomes[i])'
  BY <1>2, <1>3 DEF Tells, Answered
<1>5. \A o \in Ops : review'[o] = "settled" => \E i \in DOMAIN outcomes' : outcomes'[i].op = o
  BY <1>3 DEF OutcomesKept
<1>6. Len(outcomes') <= MaxOutcomes
  BY <1>3, NoMoreThanOps
<1>7. OnePerReview(outcomes)'
  BY <1>3 DEF OnePerReview
<1> QED BY <1>3, <1>4, <1>5, <1>6, <1>7 DEF OutcomesKept

\* The broker holds no more requests after some of them left.
LEMMA FewerEntries ==
  ASSUME NEW S \in SUBSET Ops, Cardinality(S) <= MaxPending, NEW T \in SUBSET S
  PROVE  Cardinality(T) <= MaxPending
<1>1. IsFiniteSet(S) /\ IsFiniteSet(T) /\ Cardinality(T) <= Cardinality(S)
  BY FS_Subset, ApprovalAssumption
<1>2. Cardinality(S) \in Nat /\ Cardinality(T) \in Nat /\ MaxPending \in Nat
  BY <1>1, FS_CardinalityType, ApprovalAssumption
<1> QED BY <1>1, <1>2

(***************************************************************************)
(* settle, for whoever settles: the person, the timer, the page or an      *)
(* abort.  An abort also revokes tickets and marks the turn.               *)
(***************************************************************************)
LEMMA SettleKeeps ==
  ASSUME ApprovalInv, NEW ops \in SUBSET entries, NEW outcome \in BrokerOutcomes,
         Settle(ops, outcome),
         UNCHANGED <<mode, focused, call, shown, delegate, provenance, completed, journal,
                     executing, ran>>,
         aborted' \in [Sessions -> BOOLEAN],
         answered' = [o \in Ops |-> IF o \in ops /\ Answered(outcome) THEN outcome ELSE answered[o]],
         tickets' \in [Ops -> Args \cup {None}],
         \A o \in Ops : tickets'[o] \in {tickets[o], None},
         \A o \in Ops : Stopped(o)'
  PROVE  ApprovalInv'
<1>1. ops \in SUBSET Ops /\ \A o \in ops : review[o] = "asked" /\ answered[o] = None
  BY DEF ApprovalInv, OpInv, Untouched, TypeOK
<1>2. /\ \A o \in ops : review'[o] = "settled" /\ decision'[o] = Gate(outcome)
      /\ \A o \in Ops \ ops : review'[o] = review[o] /\ decision'[o] = decision[o]
      /\ entries' = entries \ ops /\ postponed' = postponed \ ops
      /\ outcomes' = Remember(outcomes, ops, outcome)
  BY <1>1 DEF Settle
<1>3. /\ \A o \in ops : answered'[o] = IF Answered(outcome) THEN outcome ELSE None
      /\ \A o \in Ops \ ops : answered'[o] = answered[o]
  BY <1>1
<1>4. \A o \in ops : Answered(outcome) <=> answered'[o] # None
  BY <1>3 DEF Answered, None
<1>5. OutcomesKept' /\ outcomes' \in Seq(Unreads) /\ Len(outcomes') <= MaxOutcomes
  BY <1>1, <1>2, <1>3, <1>4, NewOutcomes DEF ApprovalInv
<1>6. TypeOK'
  <2>1. Cardinality(entries') <= MaxPending
    BY <1>2, FewerEntries DEF ApprovalInv, TypeOK
  <2>2. decision' \in [Ops -> {None, "allow", "deny"}]
    BY DEF Settle, ApprovalInv, TypeOK, Gate
  <2>3. review' \in
          [Ops -> {"new", "digest", "asked", "settled", "decided", "returned", "closed"}]
    BY DEF Settle, ApprovalInv, TypeOK
  <2>4. answered' \in [Ops -> {None, "allow", "deny"}]
    BY DEF ApprovalInv, TypeOK, Answered
  <2>5. entries' \subseteq Ops /\ postponed' \subseteq entries'
    BY <1>2 DEF ApprovalInv, TypeOK
  <2> QED BY <1>5, <2>1, <2>2, <2>3, <2>4, <2>5 DEF ApprovalInv, TypeOK
<1>7. HistoryTyped'
  BY <1>5 DEF ApprovalInv, HistoryTyped
<1>8. ASSUME NEW o \in ops
      PROVE  OpInv(o)'
  <2>1. o \in Ops /\ OpInv(o) /\ review'[o] = "settled"
    BY <1>1, <1>2 DEF ApprovalInv
  <2>2. tickets[o] = None /\ tickets'[o] = None /\ executing[o] = << >> /\ ran[o] = << >>
        /\ delegate[o] \in Modes /\ journal[o] = NoEvent /\ o \notin completed
    BY <1>1, <2>1 DEF OpInv, Untouched
  <2>3. Untouched(o)'
    BY <1>2, <2>1, <2>2 DEF Untouched
  <2>4. Backed(o)'
    BY <1>2, <1>3, <2>1 DEF Backed, Gate, Answered
  <2>5. Attributed(o)'
    BY <2>1 DEF Attributed
  <2>6. SpentOnce(o)'
    BY <2>2 DEF SpentOnce
  <2> QED BY <2>1, <2>3, <2>4, <2>5, <2>6 DEF OpInv
<1>9. ASSUME NEW o \in Ops \ ops
      PROVE  OpInv(o)'
  <2>1. OpInv(o) /\ Stopped(o)' /\ tickets'[o] \in {tickets[o], None}
        /\ review'[o] = review[o] /\ decision'[o] = decision[o] /\ answered'[o] = answered[o]
        /\ (o \in entries' <=> o \in entries)
    BY <1>2, <1>3 DEF ApprovalInv
  <2>2. Untouched(o)'
    BY <2>1 DEF OpInv, Untouched
  <2>3. Backed(o)'
    BY <2>1 DEF OpInv, Backed, Automatic
  <2>4. Attributed(o)'
    BY <2>1 DEF OpInv, Attributed, Truthful, TakenProvenance
  <2>5. SpentOnce(o)'
    BY <2>1 DEF OpInv, SpentOnce
  <2> QED BY <2>1, <2>2, <2>3, <2>4, <2>5 DEF OpInv
<1> QED BY <1>5, <1>6, <1>7, <1>8, <1>9 DEF ApprovalInv
-------------------------------------------------------------------------------
(* The person, the clock and the page *)

LEMMA StoppedKept ==
  ASSUME ApprovalInv, NEW ops \in SUBSET entries, entries' = entries \ ops,
         aborted' = aborted, tickets' = tickets
  PROVE  \A o \in Ops : Stopped(o)'
BY DEF ApprovalInv, OpInv, Stopped, TurnAborted

LEMMA DecideKeeps ==
  ASSUME ApprovalInv, NEW o \in Ops, NEW outcome \in {"allow", "deny"}, Decide(o, outcome)
  PROVE  ApprovalInv'
<1>1. {o} \in SUBSET entries /\ Settle({o}, outcome) /\ outcome \in BrokerOutcomes
  BY DEF Decide, BrokerOutcomes
<1>2. answered' = [p \in Ops |-> IF p \in {o} /\ Answered(outcome) THEN outcome ELSE answered[p]]
  BY DEF Decide, Answered, ApprovalInv, TypeOK
<1>3. entries' = entries \ {o}
  BY <1>1 DEF Settle
<1>4. \A p \in Ops : Stopped(p)'
  BY <1>1, <1>3, StoppedKept DEF Decide, pageVars, execVars
<1>5. /\ aborted' \in [Sessions -> BOOLEAN] /\ tickets' \in [Ops -> Args \cup {None}]
      /\ \A p \in Ops : tickets'[p] \in {tickets[p], None}
      /\ UNCHANGED <<mode, focused, call, shown, delegate, provenance, completed, journal,
                     executing, ran>>
  BY DEF Decide, pageVars, execVars, ApprovalInv, TypeOK
<1> QED BY <1>1, <1>2, <1>4, <1>5, SettleKeeps

LEMMA DenyAllKeeps ==
  ASSUME ApprovalInv, DenyAll
  PROVE  ApprovalInv'
<1>1. entries \in SUBSET entries /\ Settle(entries, "deny") /\ "deny" \in BrokerOutcomes
  BY DEF DenyAll, BrokerOutcomes
<1>2. answered' = [p \in Ops |-> IF p \in entries /\ Answered("deny") THEN "deny" ELSE answered[p]]
  BY DEF DenyAll, Answered, ApprovalInv, TypeOK
<1>3. entries' = entries \ entries
  BY <1>1 DEF Settle
<1>4. \A p \in Ops : Stopped(p)'
  BY <1>1, <1>3, StoppedKept DEF DenyAll, pageVars, execVars
<1>5. /\ aborted' \in [Sessions -> BOOLEAN] /\ tickets' \in [Ops -> Args \cup {None}]
      /\ \A p \in Ops : tickets'[p] \in {tickets[p], None}
      /\ UNCHANGED <<mode, focused, call, shown, delegate, provenance, completed, journal,
                     executing, ran>>
  BY DEF DenyAll, pageVars, execVars, ApprovalInv, TypeOK
<1> QED BY <1>1, <1>2, <1>4, <1>5, SettleKeeps

\* The timer and the page settle without anybody answering.
LEMMA UnansweredKeeps ==
  ASSUME ApprovalInv, NEW ops \in SUBSET entries, NEW outcome \in {"expired", "withdrawn"},
         Settle(ops, outcome),
         UNCHANGED <<pageVars, call, shown, delegate, provenance, completed, execVars, answered>>
  PROVE  ApprovalInv'
<1>1. outcome \in BrokerOutcomes /\ ~Answered(outcome)
  BY DEF BrokerOutcomes, Answered
<1>2. answered' = [p \in Ops |-> IF p \in ops /\ Answered(outcome) THEN outcome ELSE answered[p]]
  BY <1>1 DEF ApprovalInv, TypeOK
<1>3. entries' = entries \ ops
  BY DEF Settle
<1>4. \A p \in Ops : Stopped(p)'
  BY <1>3, StoppedKept DEF pageVars, execVars
<1>5. /\ aborted' \in [Sessions -> BOOLEAN] /\ tickets' \in [Ops -> Args \cup {None}]
      /\ \A p \in Ops : tickets'[p] \in {tickets[p], None}
      /\ UNCHANGED <<mode, focused, call, shown, delegate, provenance, completed, journal,
                     executing, ran>>
  BY DEF pageVars, execVars, ApprovalInv, TypeOK
<1> QED BY <1>1, <1>2, <1>4, <1>5, SettleKeeps

LEMMA PageWithdrawsKeeps ==
  ASSUME ApprovalInv, PageWithdraws
  PROVE  ApprovalInv'
<1>1. PICK ops \in {entries} \cup {Asked(s) : s \in Sessions} : Settle(ops, PageOutcome)
  BY DEF PageWithdraws
<1>2. ops \in SUBSET entries
  BY <1>1 DEF Asked
<1> QED BY <1>1, <1>2, UnansweredKeeps DEF PageWithdraws, PageOutcome

LEMMA ExpireKeeps ==
  ASSUME ApprovalInv, NEW o \in Ops, Expire(o)
  PROVE  ApprovalInv'
<1>1. {o} \in SUBSET entries /\ Settle({o}, "expired")
  BY DEF Expire, ExpireOutcome
<1> QED BY <1>1, UnansweredKeeps DEF Expire

LEMMA AbortKeeps ==
  ASSUME ApprovalInv, NEW s \in Sessions, Abort(s)
  PROVE  ApprovalInv'
<1>1. /\ Asked(s) \in SUBSET entries /\ Settle(Asked(s), "withdrawn")
      /\ "withdrawn" \in BrokerOutcomes /\ ~Answered("withdrawn")
  BY DEF Abort, Asked, BrokerOutcomes, Answered
<1>2. answered' =
        [p \in Ops |-> IF p \in Asked(s) /\ Answered("withdrawn") THEN "withdrawn" ELSE answered[p]]
  BY <1>1 DEF Abort, ApprovalInv, TypeOK
<1>3. entries' = entries \ Asked(s)
  BY <1>1 DEF Settle
<1>4. \A p \in Ops : SessionOf[p] \in Sessions
  BY ApprovalAssumption
<1>5. \A p \in Ops : Stopped(p)'
  BY <1>3, <1>4 DEF Abort, Asked, ApprovalInv, OpInv, TypeOK, Stopped, TurnAborted
<1>6. /\ aborted' \in [Sessions -> BOOLEAN] /\ tickets' \in [Ops -> Args \cup {None}]
      /\ \A p \in Ops : tickets'[p] \in {tickets[p], None}
      /\ UNCHANGED <<mode, focused, call, shown, delegate, provenance, completed, journal,
                     executing, ran>>
  BY DEF Abort, ApprovalInv, TypeOK
<1> QED BY <1>1, <1>2, <1>5, <1>6, SettleKeeps

\* Steps of the page that no review notices.
LEMMA QuietKeeps ==
  ASSUME ApprovalInv, UNCHANGED <<aborted, call, reviewVars, entries, outcomes, execVars, answered>>,
         mode' \in [Sessions -> Modes], focused' \in Sessions \cup {NoSession},
         postponed' \subseteq entries
  PROVE  ApprovalInv'
<1>1. TypeOK'
  BY DEF ApprovalInv, TypeOK, reviewVars, execVars
<1>2. HistoryTyped'
  BY DEF ApprovalInv, HistoryTyped, execVars
<1>3. OutcomesKept'
  BY KeptOutcomes DEF ApprovalInv, HistoryTyped, reviewVars
<1>4. \A o \in Ops : Kept(o)
  BY DEF Kept, reviewVars, execVars, TurnAborted
<1> QED BY <1>1, <1>2, <1>3, <1>4, KeptOps DEF ApprovalInv

LEMMA PageKeeps ==
  ASSUME ApprovalInv,
         \/ \E s \in Sessions, m \in ModesInUse : Replace(s, m)
         \/ \E s \in Sessions \cup {NoSession} : FocusSession(s)
         \/ \E o \in Ops : Defer(o) \/ Resume(o)
  PROVE  ApprovalInv'
<1>1. CASE \E s \in Sessions, m \in ModesInUse : Replace(s, m)
  <2>1. mode' \in [Sessions -> Modes]
    BY <1>1, ApprovalAssumption DEF Replace, ApprovalInv, TypeOK
  <2> QED BY <1>1, <2>1, QuietKeeps DEF Replace, ApprovalInv, TypeOK, brokerVars
<1>2. CASE \E s \in Sessions \cup {NoSession} : FocusSession(s)
  BY <1>2, QuietKeeps DEF FocusSession, ApprovalInv, TypeOK, brokerVars
<1>3. CASE \E o \in Ops : Defer(o) \/ Resume(o)
  <2>1. postponed' \subseteq entries
    BY <1>3 DEF Defer, Resume, ApprovalInv, TypeOK
  <2>2. UNCHANGED <<pageVars, call, reviewVars, entries, outcomes, execVars, answered>>
    BY <1>3 DEF Defer, Resume
  <2> QED BY <2>1, <2>2, QuietKeeps DEF ApprovalInv, TypeOK, pageVars
<1> QED BY <1>1, <1>2, <1>3
-------------------------------------------------------------------------------
(* A review, step by step *)

LEMMA ReviewKeeps ==
  ASSUME ApprovalInv, NEW o \in Ops, NEW a \in Args, Review(o, a)
  PROVE  ApprovalInv'
<1>1. TypeOK'
  BY DEF Review, ApprovalInv, TypeOK, pageVars, brokerVars, execVars
<1>2. HistoryTyped'
  BY DEF Review, ApprovalInv, HistoryTyped, brokerVars, execVars
<1>3. review[o] = "new" /\ review'[o] = "digest" /\ shown'[o] = a
  BY DEF Review, ApprovalInv, TypeOK
<1>4. \A p \in Ops \ {o} : Kept(p)
  BY DEF Review, Kept, ApprovalInv, TypeOK, pageVars, brokerVars, execVars, TurnAborted
<1>5. OutcomesKept'
  BY <1>3, <1>4, KeptOutcomes DEF Kept, Review, ApprovalInv, HistoryTyped, brokerVars
<1>6. OpInv(o)'
  <2>1. UNCHANGED <<aborted, call, delegate, decision, provenance, completed, entries, tickets,
                    journal, executing, ran, answered>>
    BY DEF Review, pageVars, brokerVars, execVars
  <2>2. Untouched(o)' /\ Stopped(o)'
    BY <1>3, <2>1 DEF ApprovalInv, OpInv, Untouched, Stopped, TurnAborted
  <2>3. Backed(o)'
    BY <1>3, <2>1 DEF ApprovalInv, OpInv, Untouched, Backed, Automatic, None
  <2>4. Attributed(o)'
    BY <1>3 DEF Attributed
  <2>5. SpentOnce(o)'
    BY <1>3, <2>1 DEF ApprovalInv, OpInv, Untouched, SpentOnce
  <2> QED BY <2>2, <2>3, <2>4, <2>5 DEF OpInv
<1> QED BY <1>1, <1>2, <1>4, <1>5, <1>6, OneOp DEF ApprovalInv

LEMMA ReviewRefusedKeeps ==
  ASSUME ApprovalInv, NEW o \in Ops, ReviewRefused(o)
  PROVE  ApprovalInv'
<1>1. TypeOK'
  BY DEF ReviewRefused, ApprovalInv, TypeOK, pageVars, brokerVars, execVars
<1>2. HistoryTyped'
  BY DEF ReviewRefused, ApprovalInv, HistoryTyped, brokerVars, execVars
<1>3. review[o] = "new" /\ review'[o] = "returned" /\ decision'[o] = "deny"
  BY DEF ReviewRefused, ApprovalInv, TypeOK
<1>4. \A p \in Ops \ {o} : Kept(p)
  BY DEF ReviewRefused, Kept, ApprovalInv, TypeOK, pageVars, brokerVars, execVars, TurnAborted
<1>5. OutcomesKept'
  BY <1>3, <1>4, KeptOutcomes DEF Kept, ReviewRefused, ApprovalInv, HistoryTyped, brokerVars
<1>6. OpInv(o)'
  <2>1. UNCHANGED <<aborted, call, shown, delegate, provenance, completed, entries, tickets,
                    journal, executing, ran, answered>>
    BY DEF ReviewRefused, pageVars, brokerVars, execVars
  <2>2. OpInv(o) /\ delegate[o] = None /\ answered[o] = None /\ o \notin completed
    BY <1>3 DEF ApprovalInv, OpInv, Untouched
  <2>3. Untouched(o)' /\ Stopped(o)'
    BY <1>3, <2>1, <2>2 DEF OpInv, Untouched, Stopped, TurnAborted
  <2>4. Backed(o)'
    BY <1>3 DEF Backed
  <2>5. Attributed(o)'
    BY <1>3, <2>1, <2>2 DEF Attributed, Truthful, TakenProvenance
  <2>6. SpentOnce(o)'
    BY <1>3, <2>1, <2>2 DEF OpInv, Untouched, SpentOnce
  <2> QED BY <2>3, <2>4, <2>5, <2>6 DEF OpInv
<1> QED BY <1>1, <1>2, <1>4, <1>5, <1>6, OneOp DEF ApprovalInv

LEMMA PolicyAllowsKeeps ==
  ASSUME ApprovalInv, NEW o \in Ops, PolicyAllows(o)
  PROVE  ApprovalInv'
<1> DEFINE m == mode[SessionOf[o]]
<1>1. /\ review[o] = "digest" /\ Automatic(m, call[o])
      /\ delegate' = [delegate EXCEPT ![o] = m]
      /\ provenance' = [provenance EXCEPT ![o] = [mode |-> m, source |-> AutomaticSource(call[o])]]
      /\ decision' = [decision EXCEPT ![o] = "allow"]
      /\ review' = [review EXCEPT ![o] = "decided"]
  BY DEF PolicyAllows
<1>2. UNCHANGED <<mode, aborted, focused, call, shown, completed, entries, postponed, outcomes,
                  tickets, journal, executing, ran, answered>>
  BY DEF PolicyAllows, pageVars, brokerVars, execVars
<1>3. m \in Modes
  BY ApprovalAssumption DEF ApprovalInv, TypeOK
<1>4. AutomaticSource(call[o]) \in {"automatic-read", "bounded-browser-sandbox"}
  BY DEF AutomaticSource
<1> HIDE DEF m
<1>5. [mode |-> m, source |-> AutomaticSource(call[o])] \in Records
  BY <1>3, <1>4 DEF Records, Sources
<1>6. TypeOK'
  BY <1>1, <1>2, <1>3, <1>5 DEF ApprovalInv, TypeOK
<1>7. HistoryTyped'
  BY <1>2 DEF ApprovalInv, HistoryTyped
<1>8. /\ review'[o] = "decided" /\ delegate'[o] = m /\ decision'[o] = "allow"
      /\ provenance'[o] = [mode |-> m, source |-> AutomaticSource(call[o])]
  BY <1>1 DEF ApprovalInv, TypeOK
<1>9. \A p \in Ops \ {o} : Kept(p)
  BY <1>1, <1>2 DEF Kept, ApprovalInv, TypeOK, TurnAborted
<1>10. OutcomesKept'
  BY <1>1, <1>2, <1>8, <1>9, KeptOutcomes DEF Kept, ApprovalInv, HistoryTyped
<1>11. OpInv(o)'
  <2>1. OpInv(o) /\ answered[o] = None
    BY <1>1 DEF ApprovalInv, OpInv, Untouched
  <2>2. Untouched(o)' /\ Stopped(o)'
    BY <1>1, <1>2, <1>3, <1>8, <2>1 DEF OpInv, Untouched, Stopped, TurnAborted
  <2>3. Backed(o)'
    BY <1>1, <1>2, <1>8 DEF Backed, Automatic
  <2>4. Attributed(o)'
    <3>1. m # None
      BY <1>3 DEF Modes, None
    <3>2. Truthful(o, provenance[o])'
      BY <1>2, <1>4, <1>8, <2>1, <3>1 DEF Truthful, Humans, None
    <3> QED BY <1>8, <3>2 DEF Attributed
  <2>5. SpentOnce(o)'
    BY <1>1, <1>2, <2>1 DEF OpInv, Untouched, SpentOnce
  <2> QED BY <2>2, <2>3, <2>4, <2>5 DEF OpInv
<1> QED BY <1>6, <1>7, <1>9, <1>10, <1>11, OneOp DEF ApprovalInv
\* broker.request refuses on the spot.
LEMMA RefusalKeeps ==
  ASSUME ApprovalInv, NEW o \in Ops, PolicyAsks(o), Refused(o)
  PROVE  ApprovalInv'
<1> DEFINE m == mode[SessionOf[o]]
           outcome == IF TurnAborted(o) THEN "withdrawn" ELSE "unavailable"
<1>1. /\ review[o] = "digest" /\ delegate' = [delegate EXCEPT ![o] = m]
      /\ outcomes' = Remember(outcomes, {o}, outcome)
      /\ decision' = [decision EXCEPT ![o] = "deny"]
      /\ review' = [review EXCEPT ![o] = "settled"]
      /\ UNCHANGED <<entries, postponed>>
  BY DEF PolicyAsks
<1>2. UNCHANGED <<mode, aborted, focused, call, shown, provenance, completed,
                  tickets, journal, executing, ran, answered>>
  BY DEF PolicyAsks, pageVars, execVars
<1>3. m \in Modes
  BY ApprovalAssumption DEF ApprovalInv, TypeOK
<1>4. outcome \in BrokerOutcomes /\ ~Answered(outcome)
  BY DEF BrokerOutcomes, Answered
<1> HIDE DEF m, outcome
<1>5. review'[o] = "settled" /\ delegate'[o] = m /\ decision'[o] = "deny"
  BY <1>1 DEF ApprovalInv, TypeOK
<1>6. OpInv(o) /\ answered[o] = None
  BY <1>1 DEF ApprovalInv, OpInv, Untouched
<1>7. \A p \in Ops \ {o} : Kept(p)
  BY <1>1, <1>2 DEF Kept, ApprovalInv, TypeOK, TurnAborted
<1>8. OutcomesKept' /\ outcomes' \in Seq(Unreads) /\ Len(outcomes') <= MaxOutcomes
  <2>1. {o} \in SUBSET Ops /\ \A p \in {o} : review[p] # "settled"
    BY <1>1
  <2>2. \A p \in {o} : review'[p] = "settled" /\ (Answered(outcome) <=> answered'[p] # None)
    BY <1>2, <1>4, <1>5, <1>6
  <2>3. \A p \in Ops \ {o} : review'[p] = review[p] /\ answered'[p] = answered[p]
    BY <1>7 DEF Kept
  <2> QED BY <1>1, <1>4, <2>1, <2>2, <2>3, NewOutcomes DEF ApprovalInv
<1>9. TypeOK'
  BY <1>1, <1>2, <1>3, <1>8 DEF ApprovalInv, TypeOK
<1>10. HistoryTyped'
  BY <1>2, <1>8 DEF ApprovalInv, HistoryTyped
<1>11. OpInv(o)'
  <2>1. Untouched(o)' /\ Stopped(o)'
    BY <1>1, <1>2, <1>3, <1>5, <1>6 DEF OpInv, Untouched, Stopped, TurnAborted
  <2>2. Backed(o)' /\ Attributed(o)'
    BY <1>5 DEF Backed, Attributed
  <2>3. SpentOnce(o)'
    BY <1>1, <1>2, <1>6 DEF OpInv, Untouched, SpentOnce
  <2> QED BY <2>1, <2>2, <2>3 DEF OpInv
<1> QED BY <1>7, <1>8, <1>9, <1>10, <1>11, OneOp DEF ApprovalInv

\* broker.request admits the request, within maxPending.
LEMMA RequestKeeps ==
  ASSUME ApprovalInv, NEW o \in Ops, PolicyAsks(o), ~Refused(o)
  PROVE  ApprovalInv'
<1> DEFINE m == mode[SessionOf[o]]
<1>1. /\ review[o] = "digest" /\ delegate' = [delegate EXCEPT ![o] = m]
      /\ entries' = entries \cup {o} /\ postponed' \subseteq postponed \cup {o}
      /\ review' = [review EXCEPT ![o] = "asked"]
      /\ UNCHANGED <<outcomes, decision>>
  BY DEF PolicyAsks
<1>2. UNCHANGED <<mode, aborted, focused, call, shown, provenance, completed,
                  tickets, journal, executing, ran, answered>>
  BY DEF PolicyAsks, pageVars, execVars
<1>3. m \in Modes
  BY ApprovalAssumption DEF ApprovalInv, TypeOK
<1>4. ~TurnAborted(o) /\ Cardinality(entries) < MaxPending /\ o \notin entries
  BY DEF Refused, Room
<1> HIDE DEF m
<1>5. review'[o] = "asked" /\ delegate'[o] = m
  BY <1>1 DEF ApprovalInv, TypeOK
<1>6. OpInv(o) /\ answered[o] = None /\ decision[o] = None
  BY <1>1 DEF ApprovalInv, OpInv, Untouched
<1>7. \A p \in Ops \ {o} : Kept(p)
  BY <1>1, <1>2 DEF Kept, ApprovalInv, TypeOK, TurnAborted
<1>8. OutcomesKept'
  BY <1>1, <1>2, <1>5, <1>7, KeptOutcomes DEF Kept, ApprovalInv, HistoryTyped
<1>9. TypeOK'
  <2>1. IsFiniteSet(entries)
    BY FS_Subset, ApprovalAssumption DEF ApprovalInv, TypeOK
  <2>2. Cardinality(entries') = Cardinality(entries) + 1
    BY <1>1, <1>4, <2>1, FS_AddElement
  <2>3. Cardinality(entries) \in Nat /\ MaxPending \in Nat
    BY <2>1, FS_CardinalityType, ApprovalAssumption
  <2>4. Cardinality(entries') <= MaxPending
    BY <1>4, <2>2, <2>3
  <2> QED BY <1>1, <1>2, <1>3, <2>4 DEF ApprovalInv, TypeOK
<1>10. HistoryTyped'
  BY <1>1, <1>2 DEF ApprovalInv, HistoryTyped
<1>11. OpInv(o)'
  <2>1. Untouched(o)'
    BY <1>1, <1>2, <1>3, <1>5, <1>6 DEF OpInv, Untouched
  <2>2. Stopped(o)'
    BY <1>2, <1>4 DEF Stopped, TurnAborted
  <2>3. Backed(o)' /\ Attributed(o)'
    BY <1>1, <1>5, <1>6 DEF Backed, Attributed, None
  <2>4. SpentOnce(o)'
    BY <1>1, <1>2, <1>6 DEF OpInv, Untouched, SpentOnce
  <2> QED BY <2>1, <2>2, <2>3, <2>4 DEF OpInv
<1> QED BY <1>7, <1>8, <1>9, <1>10, <1>11, OneOp DEF ApprovalInv

\* The source recorded after an answer: a person's exactly when one answered.
LEMMA SourceTells ==
  ASSUME NEW m, NEW k, NEW outcome
  PROVE  /\ AskedSource(m, k, outcome) \in {"unattended", "human", "human-fallback"}
         /\ AskedSource(m, k, outcome) \in Humans <=> Answered(outcome)
<1>1. CASE ~Answered(outcome)
  <2>1. AskedSource(m, k, outcome) = "unattended"
    BY <1>1 DEF AskedSource
  <2> QED BY <1>1, <2>1 DEF Humans
<1>2. CASE Answered(outcome)
  <2>1. AskedSource(m, k, outcome) \in {"human", "human-fallback"}
    BY <1>2 DEF AskedSource
  <2> QED BY <1>2, <2>1 DEF Humans
<1> QED BY <1>1, <1>2

LEMMA PolicyResumesKeeps ==
  ASSUME ApprovalInv, NEW o \in Ops, PolicyResumes(o)
  PROVE  ApprovalInv'
<1> DEFINE k == CHOOSE i \in Unread(o) : TRUE
           record == [mode |-> delegate[o],
                      source |-> AskedSource(delegate[o], call[o], OutcomeOf(o))]
<1>1. /\ review[o] = "settled" /\ review' = [review EXCEPT ![o] = "decided"]
      /\ provenance' = [provenance EXCEPT ![o] = record]
      /\ outcomes' = Taken(o)
  BY DEF PolicyResumes
<1>2. UNCHANGED <<mode, aborted, focused, call, shown, delegate, decision, completed, entries,
                  postponed, tickets, journal, executing, ran, answered>>
  BY DEF PolicyResumes, pageVars, execVars
<1>3. outcomes \in Seq(Unreads) /\ OutcomesKept /\ OnePerReview(outcomes)
  BY DEF ApprovalInv, HistoryTyped, OutcomesKept
<1>4. Unread(o) # {}
  BY <1>1, <1>3 DEF OutcomesKept, Unread
<1>5. k \in DOMAIN outcomes /\ outcomes[k].op = o
  <2>1. k \in Unread(o)
    BY <1>4
  <2> QED BY <2>1 DEF Unread
<1>6. OutcomeOf(o) = outcomes[k].outcome /\ outcomes' = RemoveAt(outcomes, k)
  BY <1>1, <1>4 DEF OutcomeOf, Taken
<1>7. Answered(OutcomeOf(o)) <=> answered[o] # None
  BY <1>3, <1>5, <1>6 DEF OutcomesKept, Tells
<1>8. /\ record.mode = delegate[o] /\ record \in Records /\ delegate[o] \in Modes
      /\ record.source # None
      /\ record.source \in Humans <=> answered[o] # None
  <2>1. delegate[o] \in Modes
    BY <1>1 DEF ApprovalInv, OpInv, Untouched
  <2>2. /\ AskedSource(delegate[o], call[o], OutcomeOf(o)) \in {"unattended", "human", "human-fallback"}
        /\ AskedSource(delegate[o], call[o], OutcomeOf(o)) \in Humans <=> Answered(OutcomeOf(o))
    BY SourceTells
  <2> QED BY <1>7, <2>1, <2>2 DEF Records, Sources, None
<1> HIDE DEF k, record
<1>9. /\ outcomes' \in Seq(Unreads) /\ OnePerReview(outcomes')
      /\ \A i \in DOMAIN outcomes' : \E j \in DOMAIN outcomes : j # k /\ outcomes'[i] = outcomes[j]
      /\ \A j \in DOMAIN outcomes : j # k => \E i \in DOMAIN outcomes' : outcomes'[i] = outcomes[j]
  BY <1>3, <1>5, <1>6, TakesOne
<1>10. Len(outcomes') <= MaxOutcomes
  BY <1>9, NoMoreThanOps
<1>11. TypeOK'
  BY <1>1, <1>2, <1>8, <1>10 DEF ApprovalInv, TypeOK
<1>12. HistoryTyped'
  BY <1>2, <1>9 DEF ApprovalInv, HistoryTyped
<1>13. review'[o] = "decided" /\ provenance'[o] = record
       /\ \A p \in Ops \ {o} : review'[p] = review[p]
  BY <1>1 DEF ApprovalInv, TypeOK
<1>14. \A p \in Ops \ {o} : Kept(p)
  BY <1>1, <1>2 DEF Kept, ApprovalInv, TypeOK, TurnAborted
<1>15. OutcomesKept'
  <2>1. \A j \in DOMAIN outcomes : outcomes[j] \in Unreads
    BY <1>3
  <2>2. \A j \in DOMAIN outcomes : j # k => outcomes[j].op \in Ops \ {o} /\ Tells(outcomes[j])
    BY <1>3, <1>5, <2>1 DEF OnePerReview, OutcomesKept, Unreads
  <2>3. \A i \in DOMAIN outcomes' : Tells(outcomes[i])'
    BY <1>2, <1>9, <1>13, <2>2 DEF Tells, Answered
  <2>4. ASSUME NEW p \in Ops, review'[p] = "settled"
        PROVE  \E i \in DOMAIN outcomes' : outcomes'[i].op = p
    <3>1. p # o /\ review[p] = "settled"
      BY <1>13, <2>4
    <3>2. PICK j \in DOMAIN outcomes : outcomes[j].op = p
      BY <1>3, <3>1 DEF OutcomesKept
    <3> QED BY <1>5, <1>9, <3>1, <3>2
  <2>5. OnePerReview(outcomes)'
    BY <1>9 DEF OnePerReview
  <2> QED BY <2>3, <2>4, <2>5 DEF OutcomesKept
<1>16. OpInv(o)'
  <2>1. OpInv(o)
    BY DEF ApprovalInv
  <2>2. Untouched(o)' /\ Stopped(o)'
    BY <1>1, <1>2, <1>8, <1>13, <2>1 DEF OpInv, Untouched, Stopped, TurnAborted
  <2>3. Backed(o)'
    BY <1>2, <2>1 DEF OpInv, Backed, Automatic
  <2>4. Attributed(o)'
    <3>1. delegate[o] # None
      BY <1>8 DEF Modes, None
    <3>2. Truthful(o, provenance[o])'
      BY <1>2, <1>8, <1>13, <3>1 DEF Truthful
    <3> QED BY <1>13, <3>2 DEF Attributed
  <2>5. SpentOnce(o)'
    BY <1>2, <2>1 DEF OpInv, SpentOnce
  <2> QED BY <2>2, <2>3, <2>4, <2>5 DEF OpInv
<1> QED BY <1>11, <1>12, <1>14, <1>15, <1>16, OneOp DEF ApprovalInv
LEMMA ReviewReturnsKeeps ==
  ASSUME ApprovalInv, NEW o \in Ops, ReviewReturns(o)
  PROVE  ApprovalInv'
<1>1. /\ review[o] = "decided" /\ review' = [review EXCEPT ![o] = "returned"]
      /\ completed' = completed \cup {o}
      /\ \/ /\ decision[o] = "allow" /\ ~TurnAborted(o) /\ decision' = decision
            /\ tickets' = [tickets EXCEPT ![o] = shown[o]]
         \/ decision' = [decision EXCEPT ![o] = "deny"] /\ tickets' = tickets
  BY DEF ReviewReturns, Allows
<1>2. UNCHANGED <<mode, aborted, focused, call, shown, delegate, provenance, entries, postponed,
                  outcomes, journal, executing, ran, answered>>
  BY DEF ReviewReturns, pageVars, brokerVars
<1>3. TypeOK'
  BY <1>1, <1>2 DEF ApprovalInv, TypeOK
<1>4. HistoryTyped'
  BY <1>2 DEF ApprovalInv, HistoryTyped
<1>5. review'[o] = "returned" /\ o \in completed'
  BY <1>1 DEF ApprovalInv, TypeOK
<1>6. \A p \in Ops \ {o} : Kept(p)
  BY <1>1, <1>2 DEF Kept, ApprovalInv, TypeOK, TurnAborted
<1>7. OutcomesKept'
  BY <1>1, <1>2, <1>5, <1>6, KeptOutcomes DEF Kept, ApprovalInv, HistoryTyped
<1>8. OpInv(o)'
  <2>1. OpInv(o) /\ tickets[o] = None /\ executing[o] = << >> /\ ran[o] = << >>
    BY <1>1 DEF ApprovalInv, OpInv, Untouched
  <2>2. \/ decision'[o] = "allow" /\ decision[o] = "allow" /\ ~TurnAborted(o) /\ tickets'[o] = shown[o]
        \/ decision'[o] = "deny" /\ tickets'[o] = None
    BY <1>1, <2>1 DEF ApprovalInv, TypeOK
  <2>3. Untouched(o)'
    BY <1>1, <1>2, <1>5, <2>1 DEF OpInv, Untouched
  <2>4. Stopped(o)'
    BY <1>1, <1>2, <2>1, <2>2 DEF OpInv, Untouched, Stopped, TurnAborted
  <2>5. Backed(o)'
    BY <1>2, <2>1, <2>2 DEF OpInv, Backed, Automatic
  <2>6. Attributed(o)'
    BY <1>1, <1>2, <1>5, <2>1 DEF OpInv, Attributed, Truthful, TakenProvenance
  <2>7. SpentOnce(o)'
    BY <1>2, <2>1, <2>2 DEF SpentOnce
  <2> QED BY <2>3, <2>4, <2>5, <2>6, <2>7 DEF OpInv
<1> QED BY <1>3, <1>4, <1>6, <1>7, <1>8, OneOp DEF ApprovalInv
-------------------------------------------------------------------------------
(* The agent's use of the decision *)

LEMMA JournalDecisionKeeps ==
  ASSUME ApprovalInv, NEW o \in Ops, JournalDecision(o)
  PROVE  ApprovalInv'
<1> DEFINE event == [decision |-> decision[o], approval |-> TakenProvenance(o)]
<1>1. /\ review[o] = "returned" /\ review' = [review EXCEPT ![o] = "closed"]
      /\ journal' = [journal EXCEPT ![o] = event]
      /\ completed' = completed \ {o}
      /\ provenance' = [provenance EXCEPT ![o] = NoRecord]
  BY DEF JournalDecision
<1>2. UNCHANGED <<mode, aborted, focused, call, shown, delegate, decision, entries, postponed,
                  outcomes, tickets, executing, ran, answered>>
  BY DEF JournalDecision, pageVars, brokerVars
<1>3. NoRecord \in Records
  BY DEF NoRecord, Records, Sources
<1>4. TakenProvenance(o) \in Records
  BY <1>3 DEF TakenProvenance, ApprovalInv, TypeOK
<1>5. event \in [decision : {None, "allow", "deny"}, approval : Records]
      /\ event.approval = TakenProvenance(o)
  BY <1>4 DEF ApprovalInv, TypeOK
<1> HIDE DEF event
<1>6. TypeOK'
  BY <1>1, <1>2, <1>3 DEF ApprovalInv, TypeOK
<1>7. HistoryTyped'
  BY <1>1, <1>2, <1>5 DEF ApprovalInv, HistoryTyped
<1>8. review'[o] = "closed" /\ o \notin completed' /\ journal'[o] = event
  BY <1>1 DEF ApprovalInv, TypeOK, HistoryTyped
<1>9. \A p \in Ops \ {o} : Kept(p)
  BY <1>1, <1>2 DEF Kept, ApprovalInv, TypeOK, HistoryTyped, TurnAborted
<1>10. OutcomesKept'
  BY <1>1, <1>2, <1>8, <1>9, KeptOutcomes DEF Kept, ApprovalInv, HistoryTyped
<1>11. OpInv(o)'
  <2>1. OpInv(o)
    BY DEF ApprovalInv
  <2>2. Untouched(o)' /\ Stopped(o)'
    BY <1>1, <1>2, <1>8, <2>1 DEF OpInv, Untouched, Stopped, TurnAborted
  <2>3. Backed(o)'
    BY <1>2, <2>1 DEF OpInv, Backed, Automatic
  <2>4. Attributed(o)'
    <3>1. Truthful(o, TakenProvenance(o))
      BY <1>1, <2>1 DEF OpInv, Attributed
    <3>2. Truthful(o, journal[o].approval)'
      BY <1>2, <1>5, <1>8, <3>1 DEF Truthful
    <3> QED BY <1>8, <3>2 DEF Attributed
  <2>5. SpentOnce(o)'
    BY <1>2, <2>1 DEF OpInv, SpentOnce
  <2> QED BY <2>2, <2>3, <2>4, <2>5 DEF OpInv
<1> QED BY <1>6, <1>7, <1>9, <1>10, <1>11, OneOp DEF ApprovalInv

\* What consuming a ticket and running an effect leave alone.
LEMMA ExecutionKeeps ==
  ASSUME ApprovalInv, NEW o \in Ops, review[o] = "closed",
         UNCHANGED <<pageVars, call, reviewVars, brokerVars, journal, answered>>,
         tickets' \in [Ops -> Args \cup {None}],
         executing' \in [Ops -> Seq(Executions)],
         ran' \in [Ops -> Seq(Args)],
         \A p \in Ops \ {o} :
           tickets'[p] = tickets[p] /\ executing'[p] = executing[p] /\ ran'[p] = ran[p],
         tickets'[o] \in {tickets[o], None}, SpentOnce(o)'
  PROVE  ApprovalInv'
<1>1. UNCHANGED <<mode, aborted, focused, call, review, shown, delegate, decision, provenance,
                  completed, entries, postponed, outcomes, journal, answered>>
  BY DEF pageVars, reviewVars, brokerVars
<1>2. TypeOK'
  BY <1>1 DEF ApprovalInv, TypeOK
<1>3. HistoryTyped'
  BY <1>1 DEF ApprovalInv, HistoryTyped
<1>4. OutcomesKept'
  BY <1>1, KeptOutcomes DEF ApprovalInv, HistoryTyped
<1>5. \A p \in Ops \ {o} : Kept(p)
  BY <1>1 DEF Kept, TurnAborted
<1>6. OpInv(o)
  BY DEF ApprovalInv
<1>7. Untouched(o)' /\ Stopped(o)'
  BY <1>1, <1>6 DEF OpInv, Untouched, Stopped, TurnAborted
<1>8. Backed(o)' /\ Attributed(o)'
  BY <1>1, <1>6 DEF OpInv, Backed, Automatic, Attributed, Truthful, TakenProvenance
<1>9. OpInv(o)'
  BY <1>7, <1>8 DEF OpInv
<1> QED BY <1>2, <1>3, <1>4, <1>5, <1>9, OneOp DEF ApprovalInv

LEMMA ExecuteApprovedKeeps ==
  ASSUME ApprovalInv, NEW o \in Ops, NEW a \in Args, ExecuteApproved(o, a)
  PROVE  ApprovalInv'
<1> DEFINE x == [args |-> a, ticket |-> tickets[o]]
<1>1. /\ review[o] = "closed" /\ decision[o] = "allow" /\ tickets[o] # None
      /\ executing' = [executing EXCEPT ![o] = Append(executing[o], x)]
      /\ tickets' = [tickets EXCEPT ![o] = None]
      /\ UNCHANGED <<pageVars, call, reviewVars, brokerVars, journal, ran, answered>>
  BY DEF ExecuteApproved
<1>2. OpInv(o)
  BY DEF ApprovalInv
<1>3. tickets[o] = shown[o] /\ executing[o] = << >> /\ ran[o] = << >>
  BY <1>1, <1>2 DEF OpInv, SpentOnce
<1>4. x \in Executions /\ x = [args |-> a, ticket |-> shown[o]]
  BY <1>3 DEF ApprovalInv, TypeOK, Executions
<1> HIDE DEF x
<1>5. Append(executing[o], x) = <<x>>
  BY <1>3
<1>6. /\ executing' \in [Ops -> Seq(Executions)]
      /\ executing'[o] = <<x>>
      /\ \A p \in Ops \ {o} : executing'[p] = executing[p]
  <2>1. <<x>> \in Seq(Executions)
    BY <1>4
  <2>2. executing' = [executing EXCEPT ![o] = <<x>>]
    BY <1>1, <1>5
  <2> QED BY <2>1, <2>2 DEF ApprovalInv, HistoryTyped
<1>7. /\ tickets' \in [Ops -> Args \cup {None}] /\ tickets'[o] = None
      /\ \A p \in Ops \ {o} : tickets'[p] = tickets[p]
  BY <1>1 DEF ApprovalInv, TypeOK
<1>8. /\ ran' \in [Ops -> Seq(Args)] /\ ran'[o] = << >> /\ shown' = shown /\ decision' = decision
      /\ \A p \in Ops : ran'[p] = ran[p]
  BY <1>1, <1>3 DEF ApprovalInv, HistoryTyped, reviewVars
<1>9. SpentOnce(o)'
  BY <1>1, <1>4, <1>6, <1>7, <1>8 DEF SpentOnce
<1> QED BY <1>1, <1>6, <1>7, <1>8, <1>9, ExecutionKeeps

LEMMA EffectKeeps ==
  ASSUME ApprovalInv, NEW o \in Ops, Effect(o)
  PROVE  ApprovalInv'
<1>1. OpInv(o) /\ executing[o] # << >>
  BY DEF ApprovalInv, Effect
<1>2. /\ tickets[o] = None /\ ran[o] = << >> /\ decision[o] = "allow"
      /\ \E a \in Args : executing[o] = <<[args |-> a, ticket |-> shown[o]]>>
  BY <1>1 DEF OpInv, SpentOnce
<1>3. PICK a \in Args : executing[o] = <<[args |-> a, ticket |-> shown[o]]>>
  BY <1>2
<1>4. /\ Head(executing[o]).args = a /\ Head(executing[o]).ticket = shown[o]
      /\ Tail(executing[o]) = << >>
  BY <1>3
<1>5. review[o] = "closed"
  BY <1>1 DEF OpInv, Untouched
<1>6. /\ executing' = [executing EXCEPT ![o] = << >>]
      /\ ran' = IF Admitted(o) THEN [ran EXCEPT ![o] = Append(ran[o], a)] ELSE ran
      /\ UNCHANGED <<pageVars, call, reviewVars, brokerVars, tickets, journal, answered>>
  BY <1>4 DEF Effect
<1>7. Admitted(o) => a = shown[o]
  BY <1>4 DEF Admitted
<1>8. Append(ran[o], a) = <<a>>
  BY <1>2
<1>9. /\ executing' \in [Ops -> Seq(Executions)]
      /\ executing'[o] = << >>
      /\ \A p \in Ops \ {o} : executing'[p] = executing[p]
  <2>1. << >> \in Seq(Executions)
    OBVIOUS
  <2> QED BY <1>6, <2>1 DEF ApprovalInv, HistoryTyped
<1>10. /\ ran' \in [Ops -> Seq(Args)] /\ \A p \in Ops \ {o} : ran'[p] = ran[p]
       /\ ran'[o] = << >> \/ ran'[o] = <<shown[o]>>
  BY <1>2, <1>6, <1>7, <1>8 DEF ApprovalInv, HistoryTyped
<1>11. tickets' \in [Ops -> Args \cup {None}] /\ tickets' = tickets
       /\ shown' = shown /\ decision' = decision
  BY <1>6 DEF ApprovalInv, TypeOK, reviewVars
<1>12. SpentOnce(o)'
  BY <1>2, <1>9, <1>10, <1>11 DEF SpentOnce
<1> QED BY <1>5, <1>6, <1>9, <1>10, <1>11, <1>12, ExecutionKeeps
-------------------------------------------------------------------------------
(* The theorems *)

LEMMA InitInv ==
  ASSUME Init
  PROVE  ApprovalInv
<1>1. Cardinality(entries) <= MaxPending
  <2>1. Cardinality({}) = 0 /\ MaxPending \in Nat
    BY FS_EmptySet, ApprovalAssumption
  <2> QED BY <2>1 DEF Init
<1>2. Len(outcomes) <= MaxOutcomes /\ outcomes \in Seq(Unreads) /\ DOMAIN outcomes = {}
  BY ApprovalAssumption DEF Init
<1>3. NoRecord \in Records
  BY DEF NoRecord, Records, Sources
<1>4. TypeOK
  BY <1>1, <1>2, <1>3, ApprovalAssumption DEF Init, TypeOK
<1>5. HistoryTyped
  <2>1. NoEvent \in [decision : {None, "allow", "deny"}, approval : Records]
    BY <1>3 DEF NoEvent
  <2> QED BY <1>2, <2>1 DEF Init, HistoryTyped
<1>6. OutcomesKept
  BY <1>2 DEF Init, OutcomesKept, OnePerReview
<1>7. ASSUME NEW o \in Ops
      PROVE  OpInv(o)
  <2>1. /\ review[o] = "new" /\ decision[o] = None /\ delegate[o] = None /\ answered[o] = None
        /\ tickets[o] = None /\ executing[o] = << >> /\ ran[o] = << >> /\ journal[o] = NoEvent
        /\ entries = {} /\ completed = {} /\ aborted[SessionOf[o]] = FALSE
    BY ApprovalAssumption DEF Init
  <2>2. Untouched(o) /\ Attributed(o) /\ SpentOnce(o) /\ Stopped(o)
    BY <2>1 DEF Untouched, Attributed, SpentOnce, Stopped, TurnAborted
  <2>3. Backed(o)
    BY <2>1 DEF Backed, None
  <2> QED BY <2>2, <2>3 DEF OpInv
<1> QED BY <1>4, <1>5, <1>6, <1>7 DEF ApprovalInv

LEMMA NextInv ==
  ASSUME ApprovalInv, [Next]_vars
  PROVE  ApprovalInv'
<1>1. CASE UNCHANGED vars
  BY <1>1, QuietKeeps
     DEF vars, pageVars, reviewVars, brokerVars, execVars, ApprovalInv, TypeOK
<1>2. ASSUME NEW o \in Ops, Continue(o)
      PROVE  ApprovalInv'
  BY <1>2, PolicyAllowsKeeps, RefusalKeeps, RequestKeeps, PolicyResumesKeeps, ReviewReturnsKeeps,
     EffectKeeps DEF Continue
<1>3. ASSUME NEW o \in Ops, ReviewRefused(o) \/ JournalDecision(o) \/ Expire(o) \/ Defer(o) \/ Resume(o)
      PROVE  ApprovalInv'
  BY <1>3, ReviewRefusedKeeps, JournalDecisionKeeps, ExpireKeeps, PageKeeps
<1>4. ASSUME NEW o \in Ops, NEW a \in Args, Review(o, a) \/ ExecuteApproved(o, a)
      PROVE  ApprovalInv'
  BY <1>4, ReviewKeeps, ExecuteApprovedKeeps
<1>5. ASSUME NEW o \in Ops, NEW outcome \in {"allow", "deny"}, Decide(o, outcome)
      PROVE  ApprovalInv'
  BY <1>5, DecideKeeps
<1>6. CASE DenyAll \/ PageWithdraws
  BY <1>6, DenyAllKeeps, PageWithdrawsKeeps
<1>7. ASSUME NEW s \in Sessions, Abort(s)
      PROVE  ApprovalInv'
  BY <1>7, AbortKeeps
<1>8. CASE \/ \E s \in Sessions, m \in ModesInUse : Replace(s, m)
           \/ \E s \in Sessions \cup {NoSession} : FocusSession(s)
  BY <1>8, PageKeeps
<1> QED BY <1>1, <1>2, <1>3, <1>4, <1>5, <1>6, <1>7, <1>8 DEF Next

LEMMA Inductive == Spec => []ApprovalInv
<1>1. Init => ApprovalInv
  BY InitInv
<1>2. ApprovalInv /\ [Next]_vars => ApprovalInv'
  BY NextInv
<1> QED BY <1>1, <1>2, PTL DEF Spec

(***************************************************************************)
(* The types, with the two limits of the broker: never more than           *)
(* maxPending live requests nor more unread outcomes than it keeps.        *)
(***************************************************************************)
THEOREM ApprovalTyped == Spec => []TypeOK
<1>1. ApprovalInv => TypeOK
  BY DEF ApprovalInv
<1> QED BY <1>1, Inductive, PTL

(***************************************************************************)
(* No eviction: when a policy resumes, the outcome of its own request is   *)
(* still unread, and tells a person's answer from every other end.         *)
(***************************************************************************)
OutcomesReachTheirPolicy ==
  \A o \in Ops : review[o] = "settled" =>
    Unread(o) # {} /\ (Answered(OutcomeOf(o)) <=> answered[o] # None)

\* ApprovalBroker.remember never drops the outcome that a waiting policy will take.
THEOREM OutcomesAreRead == Spec => []OutcomesReachTheirPolicy
<1>1. ASSUME ApprovalInv, NEW o \in Ops, review[o] = "settled"
      PROVE  Unread(o) # {} /\ (Answered(OutcomeOf(o)) <=> answered[o] # None)
  <2>1. Unread(o) # {}
    BY <1>1 DEF ApprovalInv, OutcomesKept, Unread
  <2> DEFINE k == CHOOSE i \in Unread(o) : TRUE
  <2>2. k \in Unread(o)
    BY <2>1
  <2>3. k \in DOMAIN outcomes /\ outcomes[k].op = o
    BY <2>2 DEF Unread
  <2>4. OutcomeOf(o) = outcomes[k].outcome
    BY <2>1 DEF OutcomeOf
  <2> HIDE DEF k
  <2> QED BY <1>1, <2>1, <2>3, <2>4 DEF ApprovalInv, OutcomesKept, Tells
<1>2. ApprovalInv => OutcomesReachTheirPolicy
  BY <1>1 DEF OutcomesReachTheirPolicy
<1> QED BY <1>2, Inductive, PTL

(***************************************************************************)
(* Nothing runs on nobody's authority, whatever interleaving of answers,   *)
(* timers, mode switches and aborts led to the effect.                     *)
(***************************************************************************)
THEOREM NoUnauthorizedEffect == Spec => []EffectsAuthorized
<1>1. ASSUME ApprovalInv, NEW o \in Ops, ran[o] # << >>
      PROVE  answered[o] = "allow" \/ Automatic(delegate[o], call[o])
  BY <1>1 DEF ApprovalInv, OpInv, SpentOnce, Backed
<1>2. ApprovalInv => EffectsAuthorized
  BY <1>1 DEF EffectsAuthorized, Automatic
<1> QED BY <1>2, Inductive, PTL

(***************************************************************************)
(* One review pays for one effect with the arguments that were reviewed,   *)
(* however often executeApproved is called and with whatever arguments.    *)
(***************************************************************************)
THEOREM OneEffectPerReview == Spec => []RunsOnceAsReviewed
<1>1. ASSUME ApprovalInv, NEW o \in Ops
      PROVE  Len(ran[o]) <= 1 /\ (ran[o] # << >> => ran[o] = <<shown[o]>>)
  <2>1. ran[o] = << >> \/ ran[o] = <<shown[o]>>
    BY <1>1 DEF ApprovalInv, OpInv, SpentOnce
  <2>2. Len(<< >>) <= 1 /\ Len(<<shown[o]>>) <= 1
    OBVIOUS
  <2>3. CASE ran[o] = << >>
    BY <2>2, <2>3
  <2>4. CASE ran[o] = <<shown[o]>>
    BY <2>2, <2>4
  <2> QED BY <2>1, <2>3, <2>4
<1>2. ApprovalInv => RunsOnceAsReviewed
  BY <1>1 DEF RunsOnceAsReviewed
<1> QED BY <1>2, Inductive, PTL

(***************************************************************************)
(* The journaled decision names a person exactly when a person answered    *)
(* this request, and never for an expiry, a withdrawal or a full broker.   *)
(***************************************************************************)
THEOREM RecordsAreHonest == Spec => []RecordsNameWhoAnswered
<1>1. ASSUME ApprovalInv, NEW o \in Ops, journal[o] # NoEvent
      PROVE  journal[o].approval.source \in Humans <=> answered[o] # None
  <2>1. Truthful(o, journal[o].approval)
    BY <1>1 DEF ApprovalInv, OpInv, Untouched, Attributed
  <2> QED BY <2>1 DEF Truthful, NoRecord, Humans, None
<1>2. ApprovalInv => RecordsNameWhoAnswered
  BY <1>1 DEF RecordsNameWhoAnswered, Humans
<1> QED BY <1>2, Inductive, PTL

(***************************************************************************)
(* Every decision a policy took is journaled with the provenance of that   *)
(* policy, however the conversation's mode was switched meanwhile.         *)
(***************************************************************************)
THEOREM ProvenanceIsKept == Spec => []DecisionsCarryProvenance
<1>1. ASSUME ApprovalInv, NEW o \in Ops, journal[o] # NoEvent, delegate[o] # None
      PROVE  journal[o].approval.mode = delegate[o] /\ journal[o].approval.source # None
  <2>1. Truthful(o, journal[o].approval)
    BY <1>1 DEF ApprovalInv, OpInv, Untouched, Attributed
  <2> QED BY <1>1, <2>1 DEF Truthful
<1>2. ApprovalInv => DecisionsCarryProvenance
  BY <1>1 DEF DecisionsCarryProvenance
<1> QED BY <1>2, Inductive, PTL

(***************************************************************************)
(* Nothing of a stopped turn stays behind: no live request, no ticket.     *)
(***************************************************************************)
THEOREM StoppedTurnsLeaveNothing == Spec => []NothingSurvivesAbort
<1>1. ApprovalInv => NothingSurvivesAbort
  BY DEF ApprovalInv, OpInv, Stopped, NothingSurvivesAbort
<1> QED BY <1>1, Inductive, PTL

(***************************************************************************)
(* No effect starts once the turn was stopped, wherever the abort falls.   *)
(***************************************************************************)
THEOREM NoEffectAfterAbort == Spec => NothingStartsAfterAbort
<1>1. ASSUME ApprovalInv, [Next]_vars, NEW o \in Ops, TurnAborted(o)
      PROVE  ran'[o] = ran[o]
  <2>1. CASE ran' = ran
    BY <2>1
  <2>2. CASE \E p \in Ops : Effect(p)
    <3>1. PICK p \in Ops : Effect(p)
      BY <2>2
    <3>2. Admitted(p) => p # o
      BY <1>1 DEF Admitted
    <3> QED BY <1>1, <3>1, <3>2 DEF Effect, ApprovalInv, HistoryTyped
  <2> QED
    <3>1. Next => ran' = ran \/ \E p \in Ops : Effect(p)
      BY DEF Next, Continue, PolicyAllows, PolicyAsks, PolicyResumes, ReviewReturns, ReviewRefused,
             JournalDecision, Expire, Defer, Resume, Review, ExecuteApproved, Decide, DenyAll,
             PageWithdraws, Abort, Replace, FocusSession, execVars
    <3> QED BY <1>1, <2>1, <2>2, <3>1 DEF vars, execVars
<1>2. ApprovalInv /\ [Next]_vars => [\A o \in Ops : TurnAborted(o) => ran'[o] = ran[o]]_vars
  BY <1>1
<1> QED BY <1>2, Inductive, PTL DEF Spec, NothingStartsAfterAbort
===============================================================================
