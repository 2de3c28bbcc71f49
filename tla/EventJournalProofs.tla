-------------------------- MODULE EventJournalProofs --------------------------
(***************************************************************************)
(* Proofs about EventJournal's append queue, for any number of calls,      *)
(* moves of other clients and failing backend calls.                       *)
(*                                                                         *)
(* The argument.  A link settles only after the link before it, so the     *)
(* settled links are always the first few (QueueInv); a call works in the  *)
(* backend only once everything before it has settled, and a settled call  *)
(* is over.  Hence two calls are never at work together, what is in the    *)
(* log was put there by calls that are over and that came after settled    *)
(* ones (LogInv), and the head an append read is still the head when it    *)
(* commits unless another client moved it (FitInv).                        *)
(***************************************************************************)
EXTENDS EventJournal, TLAPS

Live == {"unborn", "queued"} \cup Working

\* Everything before call w has settled.
Clear(w) == \A v \in Call : v < w => v \in settled

\* The shape of the queue.
QueueInv ==
  /\ \A w \in Call : w > calls => pc[w] = "unborn"
  /\ \A w \in Made : pred[w] \in {NoCall, w - 1}
  /\ \A w \in Made : pred[w] = NoCall => Clear(w)
  /\ tail = NoCall => Made \subseteq settled
  /\ \A w \in settled : pc[w] \in Done /\ Clear(w)
  /\ \A w \in Call : pc[w] \in Working => Clear(w)

\* Whose events are in the log.
LogInv ==
  \A i \in 1..Len(log) : log[i] # Remote =>
    log[i] \in Call /\ pc[log[i]] \in {"ok", "failed"} /\ Clear(log[i])

\* What an append read is still there, or it was outrun by another client.
FitInv ==
  \A w \in Call :
    /\ kind[w] = "append" /\ pc[w] = "committing" => outrun[w] \/ Fits(w)
    /\ pc[w] = "deleting" => kind[w] = "delete"

Inv ==
  /\ TypeOK /\ QueueInv /\ LogInv /\ FitInv
  /\ CommittedInCallOrder /\ ConflictsComeFromOutside

-------------------------------------------------------------------------------
\* A call whose turn it is has only settled calls before it.
LEMMA TurnIsClear ==
  ASSUME TypeOK, QueueInv, NEW w \in Made, HasTurn(w)
  PROVE  Clear(w)
<1>1. CASE pred[w] = NoCall
  BY <1>1 DEF QueueInv
<1>2. CASE pred[w] # NoCall
  <2>1. pred[w] = w - 1 /\ w - 1 \in settled
    BY <1>2 DEF QueueInv, HasTurn
  <2>2. Clear(w - 1)
    BY <2>1 DEF QueueInv
  <2>3. \A v \in Call : v < w => v = w - 1 \/ v < w - 1
    BY QueueAssumption DEF Call, Made, TypeOK
  <2> QED BY <2>1, <2>2, <2>3 DEF Clear
<1> QED BY <1>1, <1>2

\* A prefix of the log is a sequence of the same events.
LEMMA PrefixTyped ==
  ASSUME NEW S, NEW s \in Seq(S), NEW n \in 0..Len(s)
  PROVE  SubSeq(s, 1, n) \in Seq(S)
OBVIOUS

\* So are the empty log and the log with one more event.
LEMMA LogTyped ==
  ASSUME NEW S
  PROVE  << >> \in Seq(S) /\ \A s \in Seq(S), e \in S : Append(s, e) \in Seq(S)
OBVIOUS

\* Entering the queue keeps the types.
LEMMA EnterTyped ==
  ASSUME TypeOK, NEW k \in {"append", "appendAtHead", "delete"},
         NEW head \in Seq(0..MaxCalls), NEW start \in Live, Enter(k, head, start)
  PROVE  TypeOK'
BY QueueAssumption DEF TypeOK, Enter, backend, Call, Made, NoCall, Live, Working, Done

\* Every step of the specification keeps the types.
LEMMA TypeStep ==
  ASSUME TypeOK, QueueInv, [Next]_vars
  PROVE  TypeOK'
<1> USE QueueAssumption DEF Call, Made, NoCall, Remote, Working, Done
<1>1. CASE AppendCall
  BY <1>1, EnterTyped, LogTyped DEF AppendCall, Live
<1>2. CASE AppendAtHead
  <2>1. PICK n \in 0..Len(log) : Enter("appendAtHead", SubSeq(log, 1, n), "committing")
    BY <1>2 DEF AppendAtHead, Audited
  <2>2. SubSeq(log, 1, n) \in Seq(0..MaxCalls)
    BY PrefixTyped DEF TypeOK
  <2> QED BY <2>1, <2>2, EnterTyped DEF Live
<1>3. CASE DeleteSession
  <2>1. PICK n \in 0..Len(log) : Enter("delete", SubSeq(log, 1, n), "queued")
    BY <1>3 DEF DeleteSession, Audited
  <2>2. SubSeq(log, 1, n) \in Seq(0..MaxCalls)
    BY PrefixTyped DEF TypeOK
  <2> QED BY <2>1, <2>2, EnterTyped DEF Live
<1>4. CASE RemoteMove
  <2>1. log' \in Seq(0..MaxCalls)
    <3>1. 0 \in 0..MaxCalls /\ log \in Seq(0..MaxCalls)
      BY DEF TypeOK
    <3>2. log' \in {log, << >>, Append(log, 0)}
      BY <1>4 DEF RemoteMove
    <3> QED BY <3>1, <3>2, LogTyped
  <2>4. live' \in BOOLEAN
    BY <1>4 DEF TypeOK, RemoteMove
  <2>2. outrun' \in [Call -> BOOLEAN]
    BY <1>4, Zenon DEF RemoteMove
  <2>3. moves' \in 0..MaxRemote
    BY <1>4 DEF TypeOK, RemoteMove
  <2> QED BY <1>4, <2>1, <2>2, <2>3, <2>4 DEF TypeOK, RemoteMove, request
<1>5. ASSUME NEW w \in Call, Begin(w) \/ LeaveQueue(w) \/ ReadHead(w) \/ BackendAborts(w)
      PROVE  TypeOK'
  BY <1>5 DEF TypeOK, Begin, LeaveQueue, ReadHead, BackendAborts, backend, request
<1>6. ASSUME NEW w \in Call, Commit(w)
      PROVE  TypeOK'
  <2>1. log' \in Seq(0..MaxCalls)
    <3>1. w \in 0..MaxCalls /\ log \in Seq(0..MaxCalls)
      BY DEF TypeOK
    <3>2. log' \in {log, << >>, Append(log, w)}
      BY <1>6 DEF Commit, Apply, backend
    <3> QED BY <3>1, <3>2, LogTyped
  <2>4. live' \in BOOLEAN
    BY <1>6 DEF TypeOK, Commit, Apply, backend
  <2> QED BY <1>6, <2>1, <2>4 DEF TypeOK, Commit, request
<1>7. ASSUME NEW w \in Call, BackendThrows(w)
      PROVE  TypeOK'
  <2>1. log' \in Seq(0..MaxCalls)
    <3>1. w \in 0..MaxCalls /\ log \in Seq(0..MaxCalls)
      BY DEF TypeOK
    <3>2. log' \in {log, << >>, Append(log, w)}
      BY <1>7 DEF BackendThrows, Apply, backend
    <3> QED BY <3>1, <3>2, LogTyped
  <2>4. live' \in BOOLEAN
    BY <1>7 DEF TypeOK, BackendThrows, Apply, backend
  <2> QED BY <1>7, <2>1, <2>4 DEF TypeOK, BackendThrows, request
<1>8. ASSUME NEW w \in Call, SettleLink(w) \/ ClearTail(w) \/ Abort(w)
      PROVE  TypeOK'
  BY <1>8 DEF TypeOK, SettleLink, ClearTail, Abort, backend, request
<1>9. CASE UNCHANGED vars
  BY <1>9 DEF TypeOK, vars, backend, request
<1> QED BY <1>1, <1>2, <1>3, <1>4, <1>5, <1>6, <1>7, <1>8, <1>9 DEF Next, Progress
-------------------------------------------------------------------------------
\* Entering behind the tail keeps the shape of the queue.
LEMMA EnterQueue ==
  ASSUME TypeOK, QueueInv, NEW k, NEW head, NEW start \in Live, Enter(k, head, start)
  PROVE  QueueInv'
<1> DEFINE w == calls + 1
<1> USE QueueAssumption DEF Call, Made, NoCall
<1>1. /\ w \in Call /\ calls' = w /\ tail' = w /\ settled' = settled
      /\ pc[w] = "unborn" /\ w \notin settled /\ calls \in Nat
      /\ pred' = [pred EXCEPT ![w] = tail]
      /\ pc' = [pc EXCEPT ![w] = IF tail = NoCall THEN start ELSE "queued"]
  BY DEF Enter, TypeOK, QueueInv, Done
<1>2. \A v \in Call : Clear(v)' = Clear(v)
  BY <1>1 DEF Clear
<1>3. tail = NoCall => Clear(w)
  BY <1>1 DEF QueueInv, Clear
<1>4. \A v \in Call : v > calls' => pc'[v] = "unborn"
  BY <1>1 DEF QueueInv, TypeOK
<1>5. \A v \in Made' : pred'[v] \in {NoCall, v - 1} /\ (pred'[v] = NoCall => Clear(v))
  BY <1>1, <1>3 DEF QueueInv, TypeOK
<1>6. \A v \in settled : pc'[v] \in Done /\ Clear(v)
  BY <1>1 DEF QueueInv, TypeOK
<1>7. \A v \in Call : pc'[v] \in Working => Clear(v)
  BY <1>1, <1>3 DEF QueueInv, TypeOK, Working
<1>8. tail' # NoCall
  BY <1>1
<1>9. Made' \subseteq Call /\ settled' \subseteq Call
  BY <1>1 DEF TypeOK
<1> QED BY <1>1, <1>2, <1>4, <1>5, <1>6, <1>7, <1>8, <1>9 DEF QueueInv

\* A step that moves one call that is not over, into the backend only on its
\* turn, and leaves the queue alone, keeps the shape of the queue.
LEMMA MoveQueue ==
  ASSUME TypeOK, QueueInv, NEW w \in Call, NEW l, pc' = [pc EXCEPT ![w] = l],
         pc[w] \in Live, pc[w] # "unborn", l \in Working => Clear(w),
         UNCHANGED <<request, settled, tail>>
  PROVE  QueueInv'
<1> USE QueueAssumption DEF Call, Made, NoCall
<1>1. w \notin settled
  BY DEF QueueInv, Live, Working, Done
<1>2. \A v \in Call : Clear(v)' = Clear(v)
  BY DEF Clear
<1>3. \A v \in Call : v > calls => pc'[v] = "unborn"
  BY DEF QueueInv, TypeOK
<1>4. \A v \in settled : pc'[v] \in Done
  BY <1>1 DEF QueueInv, TypeOK
<1>5. \A v \in Call : pc'[v] \in Working => Clear(v)
  BY DEF QueueInv, TypeOK
<1>6. Made \subseteq Call /\ settled \subseteq Call
  BY DEF TypeOK
<1> QED BY <1>2, <1>3, <1>4, <1>5, <1>6 DEF QueueInv, request

\* Every step keeps the shape of the queue.
LEMMA QueueStep ==
  ASSUME TypeOK, QueueInv, [Next]_vars
  PROVE  QueueInv'
<1> USE DEF NoCall
<1>1. CASE AppendCall \/ AppendAtHead \/ DeleteSession
  BY <1>1, EnterQueue DEF AppendCall, AppendAtHead, DeleteSession, Live, Working
<1>2. CASE RemoteMove
  BY <1>2 DEF QueueInv, RemoteMove, request, Clear, Made
<1>3. ASSUME NEW w \in Call, Begin(w)
      PROVE  QueueInv'
  <2>1. Clear(w)
    <3>1. w \in Made
      <4>1. ~(w > calls)
        BY <1>3 DEF Begin, QueueInv
      <4> QED BY <4>1, QueueAssumption DEF Made, Call, TypeOK
    <3> QED BY <1>3, <3>1, TurnIsClear DEF Begin
  <2> QED BY <1>3, <2>1, MoveQueue DEF Begin, Live, request
<1>4. ASSUME NEW w \in Call,
             LeaveQueue(w) \/ ReadHead(w) \/ Commit(w) \/ BackendThrows(w) \/ BackendAborts(w)
      PROVE  QueueInv'
  <2>1. pc[w] \in {"queued"} \cup Working /\ (pc[w] \in Working => Clear(w))
    BY <1>4 DEF QueueInv, LeaveQueue, ReadHead, Commit, BackendThrows, BackendAborts, Working
  <2>2. \E l : pc' = [pc EXCEPT ![w] = l] /\ (l \in Working => pc[w] \in Working)
    BY <1>4 DEF LeaveQueue, ReadHead, Commit, BackendThrows, BackendAborts, Working
  <2>3. UNCHANGED <<request, settled, tail>>
    BY <1>4 DEF LeaveQueue, ReadHead, Commit, BackendThrows, BackendAborts
  <2> QED BY <2>1, <2>2, <2>3, MoveQueue DEF Live, Working
<1>5. ASSUME NEW w \in Call, SettleLink(w)
      PROVE  QueueInv'
  <2>1. w \in Made /\ Clear(w) /\ pc[w] \in Done
    BY <1>5, TurnIsClear DEF SettleLink, LinkSettles
  <2>2. \A v \in Call : Clear(v) => Clear(v)'
    BY <1>5 DEF SettleLink, Clear
  <2>3. Made \subseteq Call /\ settled \subseteq Call
    BY QueueAssumption DEF TypeOK, Made, Call
  <2> QED BY <1>5, <2>1, <2>2, <2>3 DEF QueueInv, SettleLink, request, Made
<1>6. ASSUME NEW w \in Call, ClearTail(w)
      PROVE  QueueInv'
  <2>1. Made \subseteq settled
    <3>1. w = calls /\ Clear(w) /\ w \in settled
      BY <1>6, QueueAssumption DEF ClearTail, TypeOK, QueueInv, Call
    <3> QED BY <3>1, QueueAssumption DEF Clear, Made, Call
  <2> QED BY <1>6, <2>1 DEF QueueInv, ClearTail, request, Made, Clear
<1>7. ASSUME NEW w \in Call, Abort(w)
      PROVE  QueueInv'
  BY <1>7 DEF QueueInv, Abort, request, Made, Clear
<1>8. CASE UNCHANGED vars
  BY <1>8 DEF QueueInv, vars, request, Made, Clear
<1> QED BY <1>1, <1>2, <1>3, <1>4, <1>5, <1>6, <1>7, <1>8 DEF Next, Progress
-------------------------------------------------------------------------------
\* Two calls of the page are never in the backend together.
LEMMA OneWriter ==
  ASSUME TypeOK, QueueInv
  PROVE  OneWriterAtATime
<1> SUFFICES ASSUME NEW v \in Call, NEW w \in Call, pc[v] \in Working, pc[w] \in Working, v # w
             PROVE  FALSE
  BY DEF OneWriterAtATime
<1>1. \A x \in Call : x \in settled => pc[x] \notin Working
  BY DEF QueueInv, Done, Working
<1>2. v < w \/ w < v
  BY QueueAssumption DEF Call
<1> QED BY <1>1, <1>2 DEF QueueInv, Clear

\* Which calls may already be in the log when w commits: only earlier ones.
LEMMA EarlierOnly ==
  ASSUME TypeOK, QueueInv, LogInv, NEW w \in Call, pc[w] \in Working,
         NEW i \in 1..Len(log), log[i] # Remote
  PROVE  log[i] < w
<1>1. log[i] \in Call /\ pc[log[i]] \in {"ok", "failed"} /\ Clear(log[i])
  BY DEF LogInv
<1>2. log[i] # w /\ w \notin settled
  BY <1>1 DEF Working, Done, QueueInv
<1>3. ~(w < log[i])
  BY <1>1, <1>2 DEF Clear
<1> QED BY <1>1, <1>2, <1>3, QueueAssumption DEF Call

\* The backend's write: an append of w puts it behind earlier calls only.
LEMMA ApplyLog ==
  ASSUME TypeOK, QueueInv, LogInv, CommittedInCallOrder,
         NEW w \in Call, pc[w] \in Working, Apply(w), NEW l \in {"ok", "failed"},
         pc' = [pc EXCEPT ![w] = l], UNCHANGED settled
  PROVE  LogInv' /\ CommittedInCallOrder'
<1> USE QueueAssumption DEF Call, Remote
<1>1. CASE kind[w] = "delete"
  BY <1>1 DEF Apply, LogInv, CommittedInCallOrder
<1>2. CASE kind[w] # "delete"
  <2>1. log' = Append(log, w) /\ log \in Seq(0..MaxCalls)
    BY <1>2 DEF Apply, TypeOK
  <2>2. Len(log') = Len(log) + 1 /\ log'[Len(log) + 1] = w /\ Len(log) \in Nat
    BY <2>1
  <2>3. \A i \in 1..Len(log) : log'[i] = log[i]
    BY <2>1
  <2>5. Clear(w)
    BY DEF QueueInv
  <2>6. \A i \in 1..Len(log') : i \in 1..Len(log) \/ i = Len(log) + 1
    BY <2>2
  <2>7. pc'[w] = l /\ \A v \in Call : v # w => pc'[v] = pc[v]
    BY DEF TypeOK
  <2>8. LogInv'
    <3> SUFFICES ASSUME NEW i \in 1..Len(log'), log'[i] # Remote
                 PROVE  /\ log'[i] \in Call /\ pc'[log'[i]] \in {"ok", "failed"}
                        /\ \A v \in Call : v < log'[i] => v \in settled
      BY DEF LogInv, Clear
    <3>1. CASE i \in 1..Len(log)
      BY <3>1, <2>3, <2>7 DEF LogInv, Clear
    <3>2. CASE i = Len(log) + 1
      BY <3>2, <2>2, <2>5, <2>7 DEF Clear
    <3> QED BY <3>1, <3>2, <2>6
  <2>9. CommittedInCallOrder'
    <3> SUFFICES ASSUME NEW i \in 1..Len(log'), NEW j \in 1..Len(log'), i < j,
                        log'[i] # Remote, log'[j] # Remote
                 PROVE  log'[i] < log'[j]
      BY DEF CommittedInCallOrder
    <3>1. i \in 1..Len(log)
      BY <2>2
    <3>2. CASE j \in 1..Len(log)
      BY <3>1, <3>2, <2>3 DEF CommittedInCallOrder
    <3>3. CASE j = Len(log) + 1
      BY <3>1, <3>3, <2>2, <2>3, EarlierOnly
    <3> QED BY <3>2, <3>3, <2>6
  <2> QED BY <2>8, <2>9
<1> QED BY <1>1, <1>2

\* A step that leaves the log and every finished call alone.
LEMMA QuietLog ==
  ASSUME TypeOK, LogInv, CommittedInCallOrder, UNCHANGED log, settled \subseteq settled',
         \A v \in Call : pc[v] \in Done => pc'[v] = pc[v]
  PROVE  LogInv' /\ CommittedInCallOrder'
<1>1. \A v \in Call : Clear(v) => Clear(v)'
  BY DEF Clear
<1> QED BY <1>1 DEF LogInv, CommittedInCallOrder, Done

\* Every step keeps the log in call order, written by calls that are over.
LEMMA LogStep ==
  ASSUME TypeOK, QueueInv, LogInv, CommittedInCallOrder, [Next]_vars
  PROVE  LogInv' /\ CommittedInCallOrder'
<1> USE QueueAssumption
<1>1. CASE AppendCall \/ AppendAtHead \/ DeleteSession
  <2>1. PICK k, head, start : Enter(k, head, start)
    BY <1>1 DEF AppendCall, AppendAtHead, DeleteSession
  <2>2. \A v \in Call : pc[v] \in Done => pc'[v] = pc[v]
    <3>1. calls + 1 \in Call /\ pc[calls + 1] = "unborn"
      BY <2>1 DEF Enter, QueueInv, TypeOK, Call
    <3> QED BY <2>1, <3>1 DEF Enter, TypeOK, Done
  <2> QED BY <2>1, <2>2, QuietLog DEF Enter, backend
<1>2. CASE RemoteMove
  <2>1. CASE log' = << >>
    BY <2>1 DEF LogInv, CommittedInCallOrder
  <2>2. CASE log' = Append(log, Remote)
    <3>1. /\ Len(log') = Len(log) + 1 /\ Len(log) \in Nat
          /\ log'[Len(log) + 1] = Remote /\ \A i \in 1..Len(log) : log'[i] = log[i]
      BY <2>2 DEF TypeOK, Remote
    <3>2. \A i \in 1..Len(log') : log'[i] # Remote => i \in 1..Len(log) /\ log'[i] = log[i]
      BY <3>1
    <3>3. CommittedInCallOrder'
      BY <3>2 DEF CommittedInCallOrder
    <3>4. LogInv'
      BY <1>2, <3>2 DEF LogInv, RemoteMove, Clear
    <3> QED BY <3>3, <3>4
  <2> QED BY <1>2, <2>1, <2>2 DEF RemoteMove
<1>3. ASSUME NEW w \in Call, Begin(w) \/ LeaveQueue(w) \/ ReadHead(w) \/ BackendAborts(w)
      PROVE  LogInv' /\ CommittedInCallOrder'
  <2>1. pc[w] \notin Done /\ UNCHANGED <<log, settled>> /\ \E l : pc' = [pc EXCEPT ![w] = l]
    BY <1>3 DEF Begin, LeaveQueue, ReadHead, BackendAborts, backend, Done, Working
  <2> QED BY <2>1, QuietLog DEF TypeOK
<1>4. ASSUME NEW w \in Call, Commit(w) \/ BackendThrows(w)
      PROVE  LogInv' /\ CommittedInCallOrder'
  <2>1. pc[w] \in Working /\ UNCHANGED settled
    BY <1>4 DEF Commit, BackendThrows, Working
  <2>2. CASE UNCHANGED log
    <3>1. \E l : pc' = [pc EXCEPT ![w] = l]
      BY <1>4 DEF Commit, BackendThrows
    <3> QED BY <2>1, <2>2, <3>1, QuietLog DEF TypeOK, Working, Done
  <2>3. CASE Apply(w) /\ \E l \in {"ok", "failed"} : pc' = [pc EXCEPT ![w] = l]
    BY <2>1, <2>3, ApplyLog
  <2> QED BY <1>4, <2>2, <2>3 DEF Commit, BackendThrows, backend
<1>5. ASSUME NEW w \in Call, SettleLink(w) \/ ClearTail(w) \/ Abort(w)
      PROVE  LogInv' /\ CommittedInCallOrder'
  BY <1>5, QuietLog DEF SettleLink, ClearTail, Abort, backend
<1>6. CASE UNCHANGED vars
  BY <1>6, QuietLog DEF vars, backend
<1> QED BY <1>1, <1>2, <1>3, <1>4, <1>5, <1>6 DEF Next, Progress

\* Every step keeps what an append read, or marks it as outrun.
LEMMA FitStep ==
  ASSUME TypeOK, QueueInv, FitInv, ConflictsComeFromOutside, [Next]_vars
  PROVE  FitInv' /\ ConflictsComeFromOutside'
<1> USE QueueAssumption
<1>1. CASE AppendCall \/ AppendAtHead \/ DeleteSession
  <2>1. PICK k, head, start : Enter(k, head, start) /\ start \notin {"refused", "deleting"}
                              /\ (k = "append" => start # "committing")
    BY <1>1 DEF AppendCall, AppendAtHead, DeleteSession
  <2>2. calls + 1 \in Call /\ pc[calls + 1] = "unborn"
    BY <2>1 DEF Enter, QueueInv, TypeOK, Call
  <2>3. \A v \in Call : v # calls + 1 =>
          kind'[v] = kind[v] /\ pc'[v] = pc[v] /\ expected'[v] = expected[v]
    BY <2>1, <2>2 DEF Enter, TypeOK
  <2>4. /\ kind'[calls + 1] = k /\ pc'[calls + 1] \in {start, "queued"}
        /\ UNCHANGED <<live, log, outrun>>
    BY <2>1, <2>2 DEF Enter, TypeOK, backend
  <2> QED BY <2>1, <2>2, <2>3, <2>4 DEF FitInv, ConflictsComeFromOutside, Fits
<1>2. CASE RemoteMove
  BY <1>2 DEF FitInv, ConflictsComeFromOutside, RemoteMove, request
<1>3. ASSUME NEW w \in Call, Begin(w) \/ LeaveQueue(w) \/ BackendAborts(w)
      PROVE  FitInv' /\ ConflictsComeFromOutside'
  <2>1. /\ \A v \in Call : v # w => pc'[v] = pc[v]
        /\ pc'[w] # "refused" /\ (kind[w] = "append" => pc'[w] # "committing")
        /\ pc'[w] = "deleting" => kind[w] = "delete"
    BY <1>3 DEF Begin, LeaveQueue, BackendAborts, TypeOK
  <2>2. UNCHANGED <<live, log, kind, expected, outrun>>
    BY <1>3 DEF Begin, LeaveQueue, BackendAborts, backend, request
  <2> QED BY <2>1, <2>2 DEF FitInv, ConflictsComeFromOutside, Fits
<1>4. ASSUME NEW w \in Call, ReadHead(w)
      PROVE  FitInv' /\ ConflictsComeFromOutside'
  <2>1. \A v \in Call : v # w => pc'[v] = pc[v] /\ expected'[v] = expected[v]
    BY <1>4 DEF ReadHead, TypeOK
  <2>2. pc'[w] = "failed" \/ (pc'[w] = "committing" /\ live /\ expected'[w] = log)
    BY <1>4 DEF ReadHead, TypeOK
  <2>3. UNCHANGED <<live, log, kind, outrun>>
    BY <1>4 DEF ReadHead, backend, request
  <2> QED BY <2>1, <2>2, <2>3 DEF FitInv, ConflictsComeFromOutside, Fits
<1>5. ASSUME NEW w \in Call, Commit(w) \/ BackendThrows(w)
      PROVE  FitInv' /\ ConflictsComeFromOutside'
  <2>1. /\ \A v \in Call : v # w => pc'[v] = pc[v] /\ pc[v] # "committing"
        /\ pc'[w] \in Done
    BY <1>5, OneWriter DEF Commit, BackendThrows, TypeOK, OneWriterAtATime, Working, Done
  <2>2. UNCHANGED <<kind, expected, outrun>>
    BY <1>5 DEF Commit, BackendThrows, request
  <2>3. FitInv'
    BY <2>1, <2>2 DEF FitInv, Done, Working
  <2>4. kind[w] = "append" /\ pc'[w] = "refused" => outrun[w]
    BY <1>5 DEF Commit, BackendThrows, TypeOK, FitInv
  <2> QED BY <2>1, <2>2, <2>3, <2>4 DEF ConflictsComeFromOutside
<1>6. ASSUME NEW w \in Call, SettleLink(w) \/ ClearTail(w) \/ Abort(w)
      PROVE  FitInv' /\ ConflictsComeFromOutside'
  BY <1>6 DEF SettleLink, ClearTail, Abort, backend, request, FitInv, ConflictsComeFromOutside, Fits
<1>7. CASE UNCHANGED vars
  BY <1>7 DEF vars, backend, request, FitInv, ConflictsComeFromOutside, Fits
<1> QED BY <1>1, <1>2, <1>3, <1>4, <1>5, <1>6, <1>7 DEF Next, Progress
-------------------------------------------------------------------------------
\* The inductive invariant holds in every behaviour.
LEMMA QueueInvariant == Spec => []Inv
<1>1. Init => Inv
  <2> SUFFICES ASSUME Init PROVE Inv
    OBVIOUS
  <2> USE QueueAssumption DEF Init, Call, Made, NoCall
  <2>1. TypeOK
    BY LogTyped DEF TypeOK
  <2>2. QueueInv
    BY DEF QueueInv, Working
  <2>3. LogInv /\ CommittedInCallOrder
    BY DEF LogInv, CommittedInCallOrder
  <2>4. FitInv /\ ConflictsComeFromOutside
    BY DEF FitInv, ConflictsComeFromOutside
  <2> QED BY <2>1, <2>2, <2>3, <2>4 DEF Inv
<1>2. Inv /\ [Next]_vars => Inv'
  BY TypeStep, QueueStep, LogStep, FitStep DEF Inv
<1> QED BY <1>1, <1>2, PTL DEF Spec

\* The types hold, and the queue's tail is always the page's latest call, or
\* empty (appendQueue.get, set and the conditional delete of trackAppend).
THEOREM QueueTyped == Spec => []TypeOK
<1>1. Inv => TypeOK
  BY DEF Inv
<1> QED BY <1>1, QueueInvariant, PTL

\* Whatever number of calls a page makes, no two of its append, appendAtHead
\* and deleteSession calls are in the backend at the same time.
THEOREM SingleWriter == Spec => []OneWriterAtATime
<1>1. Inv => OneWriterAtATime
  BY OneWriter DEF Inv
<1> QED BY <1>1, QueueInvariant, PTL

\* An append is refused only because of another client's write.
THEOREM NoSelfConflict == Spec => []ConflictsComeFromOutside
<1>1. Inv => ConflictsComeFromOutside
  BY DEF Inv
<1> QED BY <1>1, QueueInvariant, PTL

\* The page's events are in the log in the order of its calls.
THEOREM CallOrder == Spec => []CommittedInCallOrder
<1>1. Inv => CommittedInCallOrder
  BY DEF Inv
<1> QED BY <1>1, QueueInvariant, PTL

\* A call that ended by its own signal has nothing in the log.
THEOREM AbortsLeaveNothing == Spec => []AbortedCommitsNothing
<1>1. Inv => AbortedCommitsNothing
  <2> SUFFICES ASSUME Inv, NEW w \in Call, pc[w] = "aborted", NEW i \in 1..Len(log), log[i] = w
               PROVE  FALSE
    BY DEF AbortedCommitsNothing
  <2>1. log[i] # Remote
    BY QueueAssumption DEF Call, Remote
  <2> QED BY <2>1 DEF Inv, LogInv
<1> QED BY <1>1, QueueInvariant, PTL
===============================================================================
