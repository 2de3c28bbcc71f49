---------------------------- MODULE KernelHostProofs ---------------------------
(***************************************************************************)
(* Proofs about KernelHost, for any jobs, budgets and bounds: nothing a    *)
(* job does outlives its result, and a result is given once.  The          *)
(* induction has three layers.  Base says who holds an unsettled job, the  *)
(* effects, the timers and an accepted cancellation, and what every frame  *)
(* and continuation relies on; it is inductive by itself.  Guest says that *)
(* the only live worker is the host's and runs the host's job; it needs    *)
(* Base and that restart() is Orderly.  Single, without listeners that     *)
(* call back, and ~Detached, without restart(), are two reasons for that.  *)
(***************************************************************************)
EXTENDS KernelHost, TLAPS

Nexts == {"none", "dispatch"} \cup (Interface \ {"start"})
FrameKinds == {"start", "startBody", "dispatch", "dispatched", "defer", "finish", "next", "hard",
               "finalizeHard", "kill", "killed", "killEnd"}
Frames == [f : FrameKinds, open : BOOLEAN, then : Nexts, job : JobOrNone, ref : Nat,
           to : Settled \cup {"none"}]
Starts == {"none", "dispatch"}
Resumptions == {"start", "dispatch"} \cup Interface
Conts == [k : Resumptions \cup {"publish", "killed", "booted"}, ref : Nat, then : Starts]
Waiters == {c \in Conts : c.k \in Resumptions}
Callers == {c \in Waiters : c.k = "dispatch"}
Tasks == [job : Jobs, seq : Nat]
KillRecords == [phase : {"sync", "drain", "publish", "ended", "over"}, job : JobOrNone,
                tasks : SUBSET Tasks, waiters : Seq(Waiters)]
BootRecords == [phase : {"preflight", "handshake", "ready", "done", "dead"}, waiters : Seq(Callers)]
Protocols == [job : JobOrNone, seq : Nat, cancel : BOOLEAN, deferred : Settled \cup {"none"},
              hard : BOOLEAN]

HostTyped ==
  /\ job \in JobOrNone /\ active \in Protocols /\ active.job = job
  /\ queue \in Seq(Jobs) /\ jobTimer \in JobOrNone /\ cancelTimer \in JobOrNone
  /\ outcome \in [Jobs -> Settled \cup {"idle", "pending", "refused"}]
  /\ effects \subseteq Tasks /\ stopped \subseteq Jobs
KillsTyped == kills \in Seq(KillRecords) /\ killPromise \in 0..Len(kills)
BootsTyped ==
  /\ state \in {"booting", "ready", "busy", "draining", "failed", "stopped"}
  /\ bootEpoch \in Nat /\ worker \in 0..bootEpoch
  /\ boots \in Seq(BootRecords) /\ Len(boots) <= bootEpoch
  /\ bootPromise \in {0, bootEpoch} /\ bootPromise <= Len(boots)
  /\ cell \in Seq(JobOrNone) /\ Len(cell) <= bootEpoch /\ live \subseteq DOMAIN cell

OpenKinds == {"dispatched", "defer", "next", "hard", "killed", "killEnd"}
JobKinds == {"dispatched", "defer", "hard", "finalizeHard"}
KillKinds == {"killed", "killEnd"}
StartKinds == {"start", "startBody"}
HardKinds == {"hard", "finalizeHard"}

\* What a frame on the stack relies on.
FrameHolds(fr) ==
  /\ fr.f \in JobKinds => /\ fr.job \in Jobs /\ fr.job \notin Elements(queue)
                          /\ outcome[fr.job] \notin {"idle", "refused"}
  /\ fr.f \in KillKinds => fr.ref \in DOMAIN kills
  /\ fr.f = "killed" => /\ kills[fr.ref].phase = "sync" /\ kills[fr.ref].tasks \subseteq effects
                        /\ kills[fr.ref].job # None => outcome[kills[fr.ref].job] = "pending"
  /\ fr.f = "killEnd" => /\ kills[fr.ref].phase \in {"sync", "publish"}
                         /\ kills[fr.ref].tasks \cap effects = {}
                         /\ kills[fr.ref].job # None => outcome[kills[fr.ref].job] = "crashed"
  /\ fr.f \in StartKinds => fr.then \in Starts
  /\ fr.f = "defer" => fr.to \in Settled
  /\ fr.f = "finish" => /\ fr.to \in Settled /\ EffectsOf(job) = {}
                        /\ active.cancel => fr.to = "cancelled"
  /\ fr.f = "finalizeHard" => EffectsOf(fr.job) = {}
  /\ fr.f \in HardKinds /\ fr.job = job => active.cancel /\ jobTimer = None /\ cancelTimer = None
  /\ fr.f = "dispatched" /\ fr.job = job => ~active.hard

\* Two kills on the stack are two attempts; a job whose dispatch is not over is not being ended.
Apart(a, b) ==
  /\ ~(a.f \in KillKinds /\ b.f \in KillKinds /\ a.ref = b.ref)
  /\ ~(a.f \in HardKinds /\ b.f = "dispatched" /\ a.job = b.job)
  /\ ~(b.f \in HardKinds /\ a.f = "dispatched" /\ a.job = b.job)

StackInv ==
  /\ stack \in Seq(Frames)
  /\ \A fr \in Elements(stack) : FrameHolds(fr) /\ (fr.open => fr.f \in OpenKinds)
  /\ \A i \in DOMAIN stack : i > 1 => stack[i].open
  /\ \A i, j \in DOMAIN stack : i # j => Apart(stack[i], stack[j])

\* What a continuation relies on.
ContHolds(c) ==
  /\ c.k = "publish" => /\ c.ref \in DOMAIN kills /\ kills[c.ref].phase = "publish"
                        /\ kills[c.ref].job # None /\ outcome[kills[c.ref].job] = "pending"
  /\ c.k = "killed" => c.ref \in DOMAIN kills /\ kills[c.ref].phase = "ended"
  /\ c.k = "booted" => c.ref \in DOMAIN boots
Distinct(c, d) == ~(c.k \in {"publish", "killed"} /\ d.k = c.k /\ c.ref = d.ref)

MicroInv ==
  /\ micro \in Seq(Conts)
  /\ \A c \in Elements(micro) : ContHolds(c)
  /\ \A i, j \in DOMAIN micro : i # j => Distinct(micro[i], micro[j])

\* A job whose result is owed is in one place: the queue, the host or one kill.
Owned ==
  /\ job # None => outcome[job] = "pending"
  /\ \A i \in DOMAIN queue : outcome[queue[i]] = "pending" /\ queue[i] # job
  /\ \A i, j \in DOMAIN queue : i # j => queue[i] # queue[j]

KillHolds(k) ==
  /\ kills[k].job # None => /\ kills[k].job # job /\ kills[k].job \notin Elements(queue)
                            /\ outcome[kills[k].job] \notin {"idle", "refused"}
  /\ \A t \in kills[k].tasks : t.job = kills[k].job
  /\ kills[k].tasks \cap effects # {} => kills[k].phase \in {"sync", "drain"}
  /\ kills[k].phase = "drain" => /\ kills[k].tasks \cap effects # {}
                                 /\ outcome[kills[k].job] = "pending"
  /\ kills[k].phase = "ended" /\ kills[k].job # None => outcome[kills[k].job] = "crashed"
KillsInv ==
  /\ \A k \in DOMAIN kills : KillHolds(k)
  /\ \A k, l \in DOMAIN kills : k # l /\ kills[k].job # None => kills[k].job # kills[l].job

EffectsHeld ==
  \A e \in effects : /\ outcome[e.job] = "pending"
                     /\ e.job = job \/ \E k \in DOMAIN kills : e \in kills[k].tasks
StopHeld(j) ==
  /\ outcome[j] \in {"pending", "cancelled", "crashed"}
  /\ outcome[j] = "pending" =>
       (j = job /\ active.cancel) \/ \E k \in DOMAIN kills : kills[k].job = j
StopsHeld == \A j \in stopped : StopHeld(j)
Timed ==
  /\ jobTimer \in {None, job} /\ cancelTimer \in {None, job}
  /\ cancelTimer # None => active.cancel
  /\ active.hard => active.cancel /\ jobTimer = None /\ cancelTimer = None

HostInv == HostTyped /\ Owned /\ EffectsHeld /\ StopsHeld /\ Timed
Base == BootsTyped /\ HostInv /\ KillsTyped /\ KillsInv /\ StackInv /\ MicroInv

-------------------------------------------------------------------------------
(* Frames. *)

LEMMA PlainFrames ==
  ASSUME NEW n \in Nexts
  PROVE  /\ Frame("dispatch") \in Frames /\ Frame("dispatch").f = "dispatch" /\ ~Frame("dispatch").open
         /\ [Frame("startBody") EXCEPT !.then = n] \in Frames
         /\ [Frame("startBody") EXCEPT !.then = n].f = "startBody"
         /\ [Frame("startBody") EXCEPT !.then = n].then = n
         /\ ~[Frame("startBody") EXCEPT !.then = n].open
<1> QED BY DEF Frames, FrameKinds, Frame, JobOrNone, Nexts

LEMMA StartKillFrames ==
  ASSUME NEW n \in Nexts
  PROVE  /\ StartThen(n) \in Frames /\ StartThen(n).f = "start" /\ ~StartThen(n).open
         /\ StartThen(n).then = n
         /\ KillThen(n) \in Frames /\ KillThen(n).f = "kill" /\ ~KillThen(n).open
         /\ KillThen(n).then = n
<1> QED BY DEF Frames, FrameKinds, Frame, JobOrNone, Nexts, StartThen, KillThen

LEMMA NextFrames ==
  ASSUME NEW b \in BOOLEAN, NEW f \in {"next", "dispatch"}
  PROVE  /\ Open(Frame(f), b) \in Frames /\ Open(Frame(f), b).f = f
         /\ Open(Frame(f), b).open = b /\ Open(Frame(f), b).then = "none"
<1> QED BY DEF Frames, FrameKinds, Frame, JobOrNone, Nexts, Open



LEMMA HardFrames ==
  ASSUME NEW b \in BOOLEAN, NEW j \in JobOrNone
  PROVE  LET fr == [Open(Frame("hard"), b) EXCEPT !.job = j]
         IN fr \in Frames /\ fr.f = "hard" /\ fr.open = b /\ fr.job = j
<1> QED BY DEF Frames, FrameKinds, Frame, JobOrNone, Nexts, Open

LEMMA EndFrames ==
  ASSUME NEW j \in JobOrNone, NEW w \in Nat, NEW o \in Settled \cup {"none"}
  PROVE  /\ HardFrame(j) \in Frames /\ HardFrame(j).f = "finalizeHard" /\ ~HardFrame(j).open
         /\ HardFrame(j).job = j
         /\ FinishFrame(w, o) \in Frames /\ FinishFrame(w, o).f = "finish" /\ ~FinishFrame(w, o).open
         /\ FinishFrame(w, o).ref = w /\ FinishFrame(w, o).to = o
<1> QED BY DEF Frames, FrameKinds, Frame, JobOrNone, Nexts, HardFrame, FinishFrame


\* What a caller leaves behind when it awaits.
LEMMA Awaited ==
  ASSUME NEW n \in Nexts
  PROVE  /\ Await(n) \in Seq(Waiters)
         /\ \A i \in DOMAIN Await(n) : Await(n)[i].k = n /\ n # "start"
         /\ n \in Starts => Await(n) \in Seq(Callers)
<1>1. CASE n = "none"
  BY <1>1 DEF Await
<1>2. CASE n # "none"
  <2>1. Cont(n, 0) \in Waiters /\ Cont(n, 0).k = n /\ n # "start"
    BY <1>2 DEF Cont, Waiters, Conts, Resumptions, Nexts, Starts
  <2> QED BY <1>2, <2>1 DEF Await, Starts, Callers
<1> QED BY <1>1, <1>2

-------------------------------------------------------------------------------
(* The stack after a step: frames are those of before, shifted by one place or not. *)

\* The top frame returned.
LEMMA Popped ==
  ASSUME stack \in Seq(Frames), stack # <<>>, Return(<<>>)
  PROVE  /\ stack' \in Seq(Frames) /\ Len(stack') = Len(stack) - 1
         /\ \A i \in DOMAIN stack' : i + 1 \in DOMAIN stack /\ stack'[i] = stack[i + 1]
<1>1. stack' = Tail(stack)
  BY DEF Return
<1> QED BY <1>1

\* The top frame went on as another.
LEMMA Replaced ==
  ASSUME stack \in Seq(Frames), stack # <<>>, NEW fr \in Frames, Return(<<fr>>)
  PROVE  /\ stack' \in Seq(Frames) /\ Len(stack') = Len(stack) /\ stack'[1] = fr
         /\ \A i \in DOMAIN stack' : i \in DOMAIN stack /\ (i > 1 => stack'[i] = stack[i])
<1> QED BY DEF Return

\* A frame was pushed.
LEMMA Pushed ==
  ASSUME stack \in Seq(Frames), NEW fr \in Frames, stack' = <<fr>> \o stack
  PROVE  /\ stack' \in Seq(Frames) /\ Len(stack') = Len(stack) + 1 /\ stack'[1] = fr
         /\ \A i \in DOMAIN stack' : i > 1 => i - 1 \in DOMAIN stack /\ stack'[i] = stack[i - 1]
<1> QED OBVIOUS

-------------------------------------------------------------------------------
(* Sequences. *)

LEMMA Appended ==
  ASSUME NEW S, NEW s \in Seq(S), NEW x \in S
  PROVE  /\ Append(s, x) \in Seq(S) /\ Len(Append(s, x)) = Len(s) + 1
         /\ Append(s, x)[Len(s) + 1] = x
         /\ \A i \in 1..Len(s) : Append(s, x)[i] = s[i]
         /\ Elements(Append(s, x)) = Elements(s) \cup {x}
<1>1. /\ Append(s, x) \in Seq(S) /\ Len(Append(s, x)) = Len(s) + 1
      /\ Append(s, x)[Len(s) + 1] = x
      /\ \A i \in 1..Len(s) : Append(s, x)[i] = s[i]
  OBVIOUS
<1>2. PICK t \in Seq(S) : t = Append(s, x)
  BY <1>1
<1>3. /\ Len(t) = Len(s) + 1 /\ t[Len(s) + 1] = x /\ \A i \in 1..Len(s) : t[i] = s[i]
  BY <1>1, <1>2
<1>4. Elements(t) = Elements(s) \cup {x}
  BY <1>3 DEF Elements, ToSet
<1> QED BY <1>1, <1>2, <1>4

LEMMA Joined ==
  ASSUME NEW S, NEW a \in Seq(S), NEW b \in Seq(S)
  PROVE  /\ a \o b \in Seq(S) /\ Len(a \o b) = Len(a) + Len(b)
         /\ \A i \in 1..(Len(a) + Len(b)) : (a \o b)[i] = IF i <= Len(a) THEN a[i] ELSE b[i - Len(a)]
<1> QED OBVIOUS

\* An element was taken out of a sequence.
LEMMA Cut ==
  ASSUME NEW S, NEW s \in Seq(S), NEW n \in 1..Len(s)
  PROVE  /\ RemoveAt(s, n) \in Seq(S) /\ Len(RemoveAt(s, n)) = Len(s) - 1
         /\ \A i \in 1..(Len(s) - 1) :
              RemoveAt(s, n)[i] = IF i < n THEN s[i] ELSE s[i + 1]
<1> DEFINE a == SubSeq(s, 1, n - 1)
           b == SubSeq(s, n + 1, Len(s))
<1>1. /\ a \in Seq(S) /\ Len(a) = n - 1 /\ \A i \in 1..(n - 1) : a[i] = s[i]
  OBVIOUS
<1>2. /\ b \in Seq(S) /\ Len(b) = Len(s) - n /\ \A i \in 1..(Len(s) - n) : b[i] = s[n + i]
  OBVIOUS
<1>3. RemoveAt(s, n) = a \o b
  BY DEF RemoveAt
<1>4. n \in Nat /\ Len(s) \in Nat /\ n <= Len(s) /\ n >= 1
  OBVIOUS
<1> HIDE DEF a, b
<1>5. /\ a \o b \in Seq(S) /\ Len(a \o b) = Len(s) - 1
      /\ \A i \in 1..(Len(s) - 1) : (a \o b)[i] = IF i <= Len(a) THEN a[i] ELSE b[i - Len(a)]
  <2>1. Len(a) + Len(b) = Len(s) - 1
    BY <1>1, <1>2, <1>4
  <2>2. /\ a \o b \in Seq(S) /\ Len(a \o b) = Len(a) + Len(b)
        /\ \A i \in 1..(Len(a) + Len(b)) : (a \o b)[i] = IF i <= Len(a) THEN a[i] ELSE b[i - Len(a)]
    BY <1>1, <1>2, Joined
  <2> QED BY <2>1, <2>2
<1>6. ASSUME NEW i \in 1..(Len(s) - 1)
      PROVE  (a \o b)[i] = IF i < n THEN s[i] ELSE s[i + 1]
  <2>1. CASE i < n
    BY <2>1, <1>1, <1>4, <1>5
  <2>2. CASE i >= n
    <3>1. i - (n - 1) \in 1..(Len(s) - n) /\ n + (i - (n - 1)) = i + 1
      BY <2>2, <1>4
    <3>2. (a \o b)[i] = b[i - (n - 1)]
      BY <2>2, <1>1, <1>4, <1>5
    <3>3. b[i - (n - 1)] = s[n + (i - (n - 1))]
      BY <3>1, <1>2
    <3>4. (a \o b)[i] = s[i + 1]
      BY <3>1, <3>2, <3>3
    <3> QED BY <2>2, <3>4, <1>4, <1>6
  <2>3. i < n \/ i >= n
    BY <1>4, <1>6
  <2> QED BY <2>1, <2>2, <2>3, Zenon
<1> QED BY <1>3, <1>5, <1>6

\* An element of a sequence was replaced.
LEMMA Updated ==
  ASSUME NEW S, NEW s \in Seq(S), NEW n \in DOMAIN s, NEW x \in S, NEW t, t = [s EXCEPT ![n] = x]
  PROVE  /\ t \in Seq(S) /\ Len(t) = Len(s) /\ DOMAIN t = DOMAIN s
         /\ t[n] = x /\ \A i \in DOMAIN s : i # n => t[i] = s[i]
<1>1. /\ DOMAIN t = DOMAIN s /\ t[n] = x /\ \A i \in DOMAIN s : i # n => t[i] = s[i]
  OBVIOUS
<1>2. Len(s) \in Nat /\ DOMAIN s = 1..Len(s)
  OBVIOUS
<1>3. t \in [1..Len(s) -> S]
  OBVIOUS
<1>4. t \in Seq(S) /\ Len(t) = Len(s)
  BY <1>2, <1>3
<1> QED BY <1>1, <1>4

-------------------------------------------------------------------------------
(* How the stack may change, given that the frames which stay keep what they rely on. *)

AllKeep == \A fr \in Frames : fr.f \in OpenKinds /\ FrameHolds(fr) => FrameHolds(fr)'
FramesKeep(top) ==
  \A fr \in Frames : fr.f \in OpenKinds /\ FrameHolds(fr) /\ Apart(fr, top) => FrameHolds(fr)'

LEMMA ApartSymmetric ==
  ASSUME NEW a, NEW b, Apart(a, b)
  PROVE  Apart(b, a)
<1> QED BY DEF Apart

\* Only the top frame is not open.
LEMMA Below ==
  ASSUME StackInv, NEW i \in DOMAIN stack, i > 1
  PROVE  /\ stack[i] \in Frames /\ stack[i].open /\ stack[i].f \in OpenKinds /\ FrameHolds(stack[i])
         /\ Apart(stack[i], Head(stack))
<1>1. 1 \in DOMAIN stack /\ Head(stack) = stack[1] /\ stack[i] \in Elements(stack) /\ i # 1
  BY DEF StackInv, Elements, ToSet
<1> QED BY <1>1 DEF StackInv

\* The top frame returns, and the others still hold.
LEMMA StackPopped ==
  ASSUME StackInv, stack # <<>>, Return(<<>>), FramesKeep(Head(stack))
  PROVE  StackInv'
<1>1. /\ stack' \in Seq(Frames) /\ Len(stack') = Len(stack) - 1
      /\ \A i \in DOMAIN stack' : i + 1 \in DOMAIN stack /\ stack'[i] = stack[i + 1]
  BY Popped DEF StackInv
<1>2. \A i \in DOMAIN stack' : i \in Nat /\ i >= 1
  BY <1>1
<1>3. ASSUME NEW fr \in Elements(stack')
      PROVE  FrameHolds(fr)' /\ fr.open /\ fr.f \in OpenKinds
  <2>1. PICK i \in DOMAIN stack' : fr = stack'[i]
    BY <1>3 DEF Elements, ToSet
  <2>2. i + 1 \in DOMAIN stack /\ fr = stack[i + 1] /\ i + 1 > 1
    BY <1>1, <1>2, <2>1
  <2>3. /\ fr \in Frames /\ fr.open /\ fr.f \in OpenKinds /\ FrameHolds(fr) /\ Apart(fr, Head(stack))
    BY <2>2, Below
  <2> QED BY <2>3 DEF FramesKeep
<1>4. ASSUME NEW i \in DOMAIN stack', NEW j \in DOMAIN stack', i # j
      PROVE  Apart(stack'[i], stack'[j])
  <2>1. i + 1 \in DOMAIN stack /\ j + 1 \in DOMAIN stack /\ i + 1 # j + 1
    BY <1>1, <1>2, <1>4
  <2>2. Apart(stack[i + 1], stack[j + 1])
    BY <2>1 DEF StackInv
  <2> QED BY <2>2, <1>1
<1>5. \A i \in DOMAIN stack' : stack'[i].open
  BY <1>3 DEF Elements, ToSet
<1> QED BY <1>1, <1>3, <1>4, <1>5 DEF StackInv, Elements

\* The top frame goes on as another that holds and is apart from the rest.
LEMMA StackReplaced ==
  ASSUME StackInv, stack # <<>>, NEW fr \in Frames, Return(<<fr>>), FramesKeep(Head(stack)),
         FrameHolds(fr)', fr.open => fr.f \in OpenKinds,
         \A g \in Frames : g.f \in OpenKinds /\ FrameHolds(g) /\ Apart(g, Head(stack)) => Apart(g, fr)
  PROVE  StackInv'
<1>1. /\ stack' \in Seq(Frames) /\ Len(stack') = Len(stack) /\ stack'[1] = fr
      /\ \A i \in DOMAIN stack' : i \in DOMAIN stack /\ (i > 1 => stack'[i] = stack[i])
  BY Replaced DEF StackInv
<1>2. \A i \in DOMAIN stack' : i \in Nat /\ i >= 1
  BY <1>1
<1>3. ASSUME NEW i \in DOMAIN stack', i > 1
      PROVE  /\ stack'[i] \in Frames /\ stack'[i] = stack[i]
             /\ stack'[i].open /\ stack'[i].f \in OpenKinds /\ FrameHolds(stack[i])
             /\ Apart(stack[i], Head(stack)) /\ Apart(stack[i], fr)
  <2>1. i \in DOMAIN stack /\ stack'[i] = stack[i]
    BY <1>1, <1>3
  <2>2. /\ stack[i] \in Frames /\ stack[i].open /\ stack[i].f \in OpenKinds /\ FrameHolds(stack[i])
        /\ Apart(stack[i], Head(stack))
    BY <2>1, <1>3, Below
  <2> QED BY <2>1, <2>2
<1>4. ASSUME NEW g \in Elements(stack')
      PROVE  FrameHolds(g)' /\ (g.open => g.f \in OpenKinds)
  <2>1. PICK i \in DOMAIN stack' : g = stack'[i]
    BY <1>4 DEF Elements, ToSet
  <2>2. CASE i = 1
    BY <2>1, <2>2, <1>1
  <2>3. CASE i > 1
    <3>1. g \in Frames /\ g.f \in OpenKinds /\ FrameHolds(g) /\ Apart(g, Head(stack))
      BY <2>1, <2>3, <1>3
    <3> QED BY <3>1 DEF FramesKeep
  <2> QED BY <2>1, <2>2, <2>3, <1>2
<1>5. ASSUME NEW i \in DOMAIN stack', NEW j \in DOMAIN stack', i # j
      PROVE  Apart(stack'[i], stack'[j])
  <2>1. CASE i > 1 /\ j > 1
    BY <2>1, <1>1, <1>5 DEF StackInv
  <2>2. CASE i = 1 /\ j > 1
    BY <2>2, <1>1, <1>3, ApartSymmetric
  <2>3. CASE j = 1 /\ i > 1
    BY <2>3, <1>1, <1>3
  <2> QED BY <1>2, <1>5, <2>1, <2>2, <2>3
<1> QED BY <1>1, <1>3, <1>4, <1>5 DEF StackInv, Elements

Plain == {"start", "startBody", "dispatch", "kill", "next"}

Plainly(fr) == fr.f \in Plain /\ (fr.f \in StartKinds => fr.then \in Starts)

\* A frame without a job or a kill relies on nothing.
LEMMA PlainHolds ==
  ASSUME NEW fr \in Frames, Plainly(fr)
  PROVE  FrameHolds(fr)' /\ \A g : Apart(fr, g) /\ Apart(g, fr)
<1> QED BY DEF Plainly, Plain, FrameHolds, Apart, JobKinds, KillKinds, HardKinds

\* A call into the host comes when every frame is open.
LEMMA CallableOpen ==
  ASSUME StackInv, Callable, NEW i \in DOMAIN stack
  PROVE  stack[i] \in Frames /\ stack[i].open /\ stack[i].f \in OpenKinds /\ FrameHolds(stack[i])
<1>1. stack \in Seq(Frames) /\ stack # <<>> /\ i \in Nat /\ i >= 1 /\ Head(stack) = stack[1]
  BY DEF StackInv
<1>2. stack[i].open
  BY <1>1 DEF StackInv, Callable
<1>3. stack[i] \in Elements(stack)
  BY DEF Elements, ToSet
<1> QED BY <1>1, <1>2, <1>3 DEF StackInv

\* A call pushes a plain frame.
LEMMA StackPushed ==
  ASSUME StackInv, Callable, NEW fr \in Frames, Plainly(fr), ~fr.open, stack' = <<fr>> \o stack,
         AllKeep
  PROVE  StackInv'
<1>1. /\ stack' \in Seq(Frames) /\ Len(stack') = Len(stack) + 1 /\ stack'[1] = fr
      /\ \A i \in DOMAIN stack' : i > 1 => i - 1 \in DOMAIN stack /\ stack'[i] = stack[i - 1]
  BY Pushed DEF StackInv
<1>2. \A i \in DOMAIN stack' : i \in Nat /\ i >= 1
  BY <1>1
<1>3. ASSUME NEW g \in Elements(stack')
      PROVE  FrameHolds(g)' /\ (g.open => g.f \in OpenKinds)
  <2>1. PICK i \in DOMAIN stack' : g = stack'[i]
    BY <1>3 DEF Elements, ToSet
  <2>2. CASE i = 1
    BY <2>1, <2>2, <1>1, PlainHolds
  <2>3. CASE i > 1
    <3>1. i - 1 \in DOMAIN stack /\ g = stack[i - 1]
      BY <2>1, <2>3, <1>1
    <3>2. g \in Frames /\ g.f \in OpenKinds /\ FrameHolds(g)
      BY <3>1, CallableOpen
    <3> QED BY <3>2 DEF AllKeep
  <2> QED BY <2>1, <2>2, <2>3, <1>2
<1>4. ASSUME NEW i \in DOMAIN stack', i > 1
      PROVE  stack'[i].open
  BY <1>1, <1>4, CallableOpen
<1>5. ASSUME NEW i \in DOMAIN stack', NEW j \in DOMAIN stack', i # j
      PROVE  Apart(stack'[i], stack'[j])
  <2>1. CASE i > 1 /\ j > 1
    <3>1. i - 1 \in DOMAIN stack /\ j - 1 \in DOMAIN stack /\ i - 1 # j - 1
      BY <1>1, <1>2, <1>5, <2>1
    <3>2. Apart(stack[i - 1], stack[j - 1])
      BY <3>1 DEF StackInv
    <3> QED BY <3>2, <1>1, <2>1
  <2>2. CASE i = 1
    BY <2>2, <1>1, PlainHolds
  <2>3. CASE j = 1
    BY <2>3, <1>1, PlainHolds
  <2> QED BY <1>2, <1>5, <2>1, <2>2, <2>3
<1> QED BY <1>1, <1>3, <1>4, <1>5 DEF StackInv, Elements

\* The stack is left alone.
LEMMA StackSame ==
  ASSUME StackInv, Callable, UNCHANGED stack, AllKeep
  PROVE  StackInv'
<1>1. ASSUME NEW g \in Elements(stack')
      PROVE  FrameHolds(g)' /\ (g.open => g.f \in OpenKinds)
  <2>1. PICK i \in DOMAIN stack : g = stack[i]
    BY <1>1 DEF Elements, ToSet
  <2>2. g \in Frames /\ g.f \in OpenKinds /\ FrameHolds(g)
    BY <2>1, CallableOpen
  <2> QED BY <2>2 DEF AllKeep
<1> QED BY <1>1 DEF StackInv, Elements

\* A frame is pushed on an empty stack.
LEMMA StackFresh ==
  ASSUME NEW fr \in Frames, stack' = <<fr>>, FrameHolds(fr)', fr.open => fr.f \in OpenKinds
  PROVE  StackInv'
<1>1. /\ stack' \in Seq(Frames) /\ Len(stack') = 1 /\ stack'[1] = fr
  OBVIOUS
<1>2. \A i \in DOMAIN stack' : i = 1
  BY <1>1
<1>3. ASSUME NEW g \in Elements(stack')
      PROVE  FrameHolds(g)' /\ (g.open => g.f \in OpenKinds)
  <2>1. g = fr
    BY <1>1, <1>2, <1>3 DEF Elements, ToSet
  <2> QED BY <2>1
<1> QED BY <1>1, <1>2, <1>3 DEF StackInv, Elements

\* The stack stays empty.
LEMMA StackEmpty ==
  ASSUME stack' = <<>>
  PROVE  StackInv'
<1>1. stack' \in Seq(Frames) /\ DOMAIN stack' = {} /\ Elements(stack') = {}
  BY DEF Elements, ToSet
<1> QED BY <1>1 DEF StackInv, Elements

-------------------------------------------------------------------------------
(* How the continuations may change. *)

AllContsKeep == \A c \in Conts : ContHolds(c) => ContHolds(c)'
ContsKeep(head) == \A c \in Conts : ContHolds(c) /\ Distinct(head, c) => ContHolds(c)'

\* The continuation of a caller relies on nothing.
LEMMA WaiterHolds ==
  ASSUME KernelAssumption, NEW c \in Waiters
  PROVE  ContHolds(c)' /\ c \in Conts /\ \A d : Distinct(c, d) /\ Distinct(d, c)
<1>1. c.k \notin {"publish", "killed", "booted"} /\ c \in Conts
  BY DEF Waiters, Resumptions, KernelAssumption
<1> QED BY <1>1 DEF ContHolds, Distinct

\* The continuations are left alone.
LEMMA MicroSame ==
  ASSUME MicroInv, UNCHANGED micro, AllContsKeep
  PROVE  MicroInv'
<1>1. ASSUME NEW c \in Elements(micro)
      PROVE  ContHolds(c)'
  <2>1. c \in Conts
    BY <1>1 DEF MicroInv, Elements, ToSet
  <2> QED BY <1>1, <2>1 DEF MicroInv, AllContsKeep
<1> QED BY <1>1 DEF MicroInv, Elements

\* The continuations of callers are queued.
LEMMA MicroJoined ==
  ASSUME KernelAssumption, MicroInv, NEW ws \in Seq(Waiters), micro' = micro \o ws, AllContsKeep
  PROVE  MicroInv'
<1>1. ws \in Seq(Conts) /\ micro \in Seq(Conts)
  BY DEF MicroInv, Waiters
<1>2. /\ micro' \in Seq(Conts) /\ Len(micro') = Len(micro) + Len(ws)
      /\ \A i \in 1..(Len(micro) + Len(ws)) :
           micro'[i] = IF i <= Len(micro) THEN micro[i] ELSE ws[i - Len(micro)]
  BY <1>1, Joined
<1>3. ASSUME NEW i \in DOMAIN micro'
      PROVE  \/ i \in DOMAIN micro /\ micro'[i] = micro[i]
             \/ i \notin DOMAIN micro /\ micro'[i] \in Waiters
  <2>1. CASE i <= Len(micro)
    BY <1>1, <1>2, <1>3, <2>1
  <2>2. CASE i > Len(micro)
    <3>1. i - Len(micro) \in DOMAIN ws /\ micro'[i] = ws[i - Len(micro)] /\ i \notin DOMAIN micro
      BY <1>1, <1>2, <1>3, <2>2
    <3> QED BY <3>1
  <2> QED BY <1>1, <1>2, <1>3, <2>1, <2>2
<1>4. ASSUME NEW c \in Elements(micro')
      PROVE  ContHolds(c)'
  <2>1. PICK i \in DOMAIN micro' : c = micro'[i]
    BY <1>4 DEF Elements, ToSet
  <2>2. CASE i \in DOMAIN micro /\ c = micro[i]
    <3>1. c \in Conts /\ c \in Elements(micro)
      BY <2>2, <1>1 DEF Elements, ToSet
    <3> QED BY <3>1 DEF MicroInv, AllContsKeep
  <2>3. CASE c \in Waiters
    BY <2>3, WaiterHolds
  <2> QED BY <1>3, <2>1, <2>2, <2>3
<1>5. ASSUME NEW i \in DOMAIN micro', NEW j \in DOMAIN micro', i # j
      PROVE  Distinct(micro'[i], micro'[j])
  <2>1. CASE micro'[i] \in Waiters \/ micro'[j] \in Waiters
    BY <2>1, WaiterHolds
  <2>2. CASE i \in DOMAIN micro /\ j \in DOMAIN micro /\ micro'[i] = micro[i] /\ micro'[j] = micro[j]
    BY <2>2, <1>5 DEF MicroInv
  <2> QED BY <1>3, <2>1, <2>2
<1> QED BY <1>2, <1>4, <1>5 DEF MicroInv, Elements

\* A continuation that holds and is unlike the others is queued.
LEMMA MicroAppended ==
  ASSUME MicroInv, NEW c \in Conts, micro' = Append(micro, c), AllContsKeep, ContHolds(c)',
         \A d \in Conts : ContHolds(d) => Distinct(c, d) /\ Distinct(d, c)
  PROVE  MicroInv'
<1>1. /\ micro \in Seq(Conts) /\ micro' \in Seq(Conts) /\ Len(micro') = Len(micro) + 1
      /\ micro'[Len(micro) + 1] = c /\ \A i \in 1..Len(micro) : micro'[i] = micro[i]
  BY Appended DEF MicroInv
<1>2. ASSUME NEW i \in DOMAIN micro'
      PROVE  \/ i \in DOMAIN micro /\ micro'[i] = micro[i] /\ micro[i] \in Conts /\ ContHolds(micro[i])
             \/ i = Len(micro) + 1 /\ micro'[i] = c
  <2>1. CASE i <= Len(micro)
    <3>1. i \in DOMAIN micro /\ micro[i] \in Elements(micro) /\ micro[i] \in Conts /\ micro'[i] = micro[i]
      BY <1>1, <1>2, <2>1 DEF Elements, ToSet
    <3> QED BY <3>1 DEF MicroInv
  <2>2. CASE i > Len(micro)
    BY <1>1, <1>2, <2>2
  <2> QED BY <1>1, <1>2, <2>1, <2>2
<1>3. ASSUME NEW d \in Elements(micro')
      PROVE  ContHolds(d)'
  <2>1. PICK i \in DOMAIN micro' : d = micro'[i]
    BY <1>3 DEF Elements, ToSet
  <2>2. d = c \/ (d \in Conts /\ ContHolds(d))
    BY <2>1, <1>2
  <2> QED BY <2>2 DEF AllContsKeep
<1>4. ASSUME NEW i \in DOMAIN micro', NEW j \in DOMAIN micro', i # j
      PROVE  Distinct(micro'[i], micro'[j])
  <2>1. CASE i \in DOMAIN micro /\ j \in DOMAIN micro /\ micro'[i] = micro[i] /\ micro'[j] = micro[j]
    BY <2>1, <1>4 DEF MicroInv
  <2>2. CASE micro'[i] = c /\ micro'[j] = micro[j] /\ micro[j] \in Conts /\ ContHolds(micro[j])
    BY <2>2
  <2>3. CASE micro'[j] = c /\ micro'[i] = micro[i] /\ micro[i] \in Conts /\ ContHolds(micro[i])
    BY <2>3
  <2> QED BY <1>2, <1>4, <2>1, <2>2, <2>3
<1> QED BY <1>1, <1>3, <1>4 DEF MicroInv, Elements

\* The first continuation is taken, and those of its waiters are queued.
LEMMA MicroTaken ==
  ASSUME KernelAssumption, MicroInv, micro # <<>>, NEW ws \in Seq(Waiters), micro' = Tail(micro) \o ws,
         ContsKeep(Head(micro))
  PROVE  MicroInv'
<1>1. /\ ws \in Seq(Conts) /\ micro \in Seq(Conts) /\ Tail(micro) \in Seq(Conts)
      /\ Len(Tail(micro)) = Len(micro) - 1 /\ Head(micro) = micro[1]
      /\ \A i \in 1..(Len(micro) - 1) : Tail(micro)[i] = micro[i + 1]
  BY DEF MicroInv, Waiters
<1>2. PICK t \in Seq(Conts) : t = Tail(micro)
  BY <1>1
<1>3. /\ micro' \in Seq(Conts) /\ Len(micro') = Len(t) + Len(ws)
      /\ \A i \in 1..(Len(t) + Len(ws)) :
           micro'[i] = IF i <= Len(t) THEN t[i] ELSE ws[i - Len(t)]
  BY <1>1, <1>2, Joined
<1>4. ASSUME NEW i \in DOMAIN micro'
      PROVE  \/ i + 1 \in DOMAIN micro /\ i + 1 # 1 /\ micro'[i] = micro[i + 1]
             \/ micro'[i] \in Waiters
  <2>1. CASE i <= Len(t)
    BY <1>1, <1>2, <1>3, <1>4, <2>1
  <2>2. CASE i > Len(t)
    <3>1. i - Len(t) \in DOMAIN ws /\ micro'[i] = ws[i - Len(t)]
      BY <1>1, <1>3, <1>4, <2>2
    <3> QED BY <3>1
  <2> QED BY <1>2, <1>3, <1>4, <2>1, <2>2
<1>5. ASSUME NEW c \in Elements(micro')
      PROVE  ContHolds(c)'
  <2>1. PICK i \in DOMAIN micro' : c = micro'[i]
    BY <1>5 DEF Elements, ToSet
  <2>2. CASE i + 1 \in DOMAIN micro /\ i + 1 # 1 /\ c = micro[i + 1]
    <3>1. c \in Conts /\ c \in Elements(micro) /\ Head(micro) = micro[1] /\ 1 \in DOMAIN micro
      BY <2>2, <1>1 DEF Elements, ToSet
    <3>2. Distinct(Head(micro), c) /\ ContHolds(c)
      BY <3>1, <2>2 DEF MicroInv
    <3> QED BY <3>1, <3>2 DEF ContsKeep
  <2>3. CASE c \in Waiters
    BY <2>3, WaiterHolds
  <2> QED BY <1>4, <2>1, <2>2, <2>3
<1>6. ASSUME NEW i \in DOMAIN micro', NEW j \in DOMAIN micro', i # j
      PROVE  Distinct(micro'[i], micro'[j])
  <2>1. CASE micro'[i] \in Waiters \/ micro'[j] \in Waiters
    BY <2>1, WaiterHolds
  <2>2. CASE /\ i + 1 \in DOMAIN micro /\ j + 1 \in DOMAIN micro
             /\ micro'[i] = micro[i + 1] /\ micro'[j] = micro[j + 1]
    <3>1. i + 1 # j + 1
      BY <1>3, <1>6
    <3> QED BY <2>2, <3>1 DEF MicroInv
  <2> QED BY <1>4, <2>1, <2>2
<1> QED BY <1>3, <1>5, <1>6 DEF MicroInv, Elements

\* Which of the continuations the host queues are those of callers.
LEMMA NewConts ==
  ASSUME NEW k \in {"publish", "killed", "booted"}, NEW n \in Nat
  PROVE  Cont(k, n) \in Conts /\ Cont(k, n).k = k /\ Cont(k, n).ref = n
<1> QED BY DEF Cont, Conts, Starts

-------------------------------------------------------------------------------
(* What nearly every step does to the facts that frames, continuations and kills rely on. *)

SameKill(k) ==
  /\ kills'[k].phase = kills[k].phase /\ kills'[k].job = kills[k].job
  /\ kills'[k].tasks = kills[k].tasks
  /\ kills[k].job # None => outcome'[kills[k].job] = outcome[kills[k].job]
  /\ kills[k].tasks \cap effects' = kills[k].tasks \cap effects
KillsOnward(K) == DOMAIN kills \subseteq DOMAIN kills' /\ \A k \in DOMAIN kills \ K : SameKill(k)

\* The host keeps its job and disarms timers, or turns to a queued job or to none.
SameJob ==
  /\ job' = job /\ (active.cancel => active'.cancel) /\ active'.hard = active.hard
  /\ jobTimer' \in {None, jobTimer} /\ cancelTimer' \in {None, cancelTimer}
Uncancelled == job' = job /\ ~active.cancel /\ active'.hard = active.hard
QueueOnward ==
  /\ \A j \in Jobs : outcome[j] \notin {"idle", "refused"} => outcome'[j] \notin {"idle", "refused"}
  /\ \A j \in Elements(queue') : j \in Elements(queue) \/ outcome[j] = "idle"
HostOnward == QueueOnward /\ (SameJob \/ Uncancelled \/ job' = None \/ job' \in Elements(queue))

LEMMA KillTyped ==
  ASSUME KillsTyped, NEW k \in DOMAIN kills
  PROVE  /\ kills[k] \in KillRecords /\ kills[k].job \in JobOrNone /\ kills[k].tasks \subseteq Tasks
         /\ kills[k].waiters \in Seq(Waiters)
<1>1. kills[k] \in KillRecords
  BY DEF KillsTyped
<1> QED BY <1>1 DEF KillRecords

\* A frame keeps what it relies on when jobs and kills only move on.
LEMMA OnwardFrames ==
  ASSUME KernelAssumption, HostOnward, NEW K, KillsOnward(K), NEW top,
         \A k \in K : top.f \in KillKinds /\ top.ref = k
  PROVE  FramesKeep(top)
<1> SUFFICES ASSUME NEW fr \in Frames, fr.f \in OpenKinds, FrameHolds(fr), Apart(fr, top)
             PROVE  FrameHolds(fr)'
  BY DEF FramesKeep
<1>1. fr.f \in JobKinds => /\ fr.job \in Jobs /\ fr.job \notin Elements(queue')
                           /\ outcome'[fr.job] \notin {"idle", "refused"}
  BY DEF FrameHolds, HostOnward, QueueOnward
<1>2. fr.f \in KillKinds => fr.ref \in DOMAIN kills' /\ fr.ref \in DOMAIN kills /\ SameKill(fr.ref)
  BY DEF FrameHolds, KillsOnward, Apart
<1>3. fr.f = "killed" => /\ kills'[fr.ref].phase = "sync" /\ kills'[fr.ref].tasks \subseteq effects'
                         /\ kills'[fr.ref].job # None => outcome'[kills'[fr.ref].job] = "pending"
  BY <1>2 DEF FrameHolds, KillKinds, SameKill
<1>4. fr.f = "killEnd" => /\ kills'[fr.ref].phase \in {"sync", "publish"}
                          /\ kills'[fr.ref].tasks \cap effects' = {}
                          /\ kills'[fr.ref].job # None => outcome'[kills'[fr.ref].job] = "crashed"
  BY <1>2 DEF FrameHolds, KillKinds, SameKill
<1>5. /\ fr.f \in HardKinds /\ fr.job = job' => active'.cancel /\ jobTimer' = None /\ cancelTimer' = None
      /\ fr.f = "dispatched" /\ fr.job = job' => ~active'.hard
  BY DEF FrameHolds, HostOnward, SameJob, Uncancelled, HardKinds, JobKinds, KernelAssumption
<1>6. fr.f = "defer" => fr.to \in Settled
  BY DEF FrameHolds
<1>7. fr.f # "finish" /\ fr.f # "finalizeHard"
  BY DEF OpenKinds
<1> QED BY <1>1, <1>2, <1>3, <1>4, <1>5, <1>6, <1>7 DEF FrameHolds, Elements

LEMMA OnwardAll ==
  ASSUME KernelAssumption, HostOnward, KillsOnward({})
  PROVE  AllKeep
<1>1. FramesKeep(Frame("start"))
  BY OnwardFrames
<1>2. \A fr : Apart(fr, Frame("start"))
  BY DEF Apart, Frame, KillKinds, HardKinds
<1> QED BY <1>1, <1>2 DEF FramesKeep, AllKeep

LEMMA AllKeepTop ==
  ASSUME AllKeep, NEW top
  PROVE  FramesKeep(top)
<1> QED BY DEF AllKeep, FramesKeep

\* A continuation keeps what it relies on when jobs and kills only move on.
LEMMA OnwardConts ==
  ASSUME NEW K, KillsOnward(K), DOMAIN boots \subseteq DOMAIN boots', NEW c \in Conts, ContHolds(c),
         c.k \in {"publish", "killed"} => c.ref \notin K
  PROVE  ContHolds(c)'
<1>1. c.k \in {"publish", "killed"} => c.ref \in DOMAIN kills' /\ c.ref \in DOMAIN kills /\ SameKill(c.ref)
  BY DEF ContHolds, KillsOnward
<1> QED BY <1>1 DEF ContHolds, SameKill

LEMMA OnwardAllConts ==
  ASSUME KillsOnward({}), DOMAIN boots \subseteq DOMAIN boots'
  PROVE  AllContsKeep
<1> QED BY OnwardConts DEF AllContsKeep

\* A kill keeps what it relies on when jobs only move on.
LEMMA OnwardKills ==
  ASSUME KernelAssumption, HostTyped, KillsTyped, KillsInv, HostOnward, NEW K, KillsOnward(K)
  PROVE  \A k \in DOMAIN kills \ K : KillHolds(k)'
<1> SUFFICES ASSUME NEW k \in DOMAIN kills, k \notin K
             PROVE  KillHolds(k)'
  OBVIOUS
<1>1. SameKill(k) /\ KillHolds(k) /\ kills[k].job \in JobOrNone
  BY KillTyped DEF KillsOnward, KillsInv
<1>2. kills'[k].job # None => /\ kills'[k].job # job' /\ kills'[k].job \notin Elements(queue')
                              /\ outcome'[kills'[k].job] \notin {"idle", "refused"}
  BY <1>1 DEF HostOnward, QueueOnward, SameJob, Uncancelled, SameKill, KillHolds
<1>3. /\ \A t \in kills'[k].tasks : t.job = kills'[k].job
      /\ kills'[k].tasks \cap effects' # {} => kills'[k].phase \in {"sync", "drain"}
      /\ kills'[k].phase = "drain" => kills'[k].tasks \cap effects' # {}
  BY <1>1 DEF SameKill, KillHolds
<1>4. kills'[k].phase = "drain" => outcome'[kills'[k].job] = "pending"
  <2>1. SUFFICES ASSUME kills[k].phase = "drain"
                 PROVE  outcome'[kills[k].job] = "pending"
    BY <1>1 DEF SameKill
  <2>2. PICK t \in kills[k].tasks : TRUE
    BY <1>1, <2>1 DEF KillHolds
  <2>3. kills[k].job # None
    BY <1>1, <2>2, KillTyped DEF KillHolds, Tasks, KernelAssumption
  <2> QED BY <1>1, <2>1, <2>3 DEF SameKill, KillHolds
<1>5. kills'[k].phase = "ended" /\ kills'[k].job # None => outcome'[kills'[k].job] = "crashed"
  BY <1>1 DEF SameKill, KillHolds
<1> QED BY <1>2, <1>3, <1>4, <1>5 DEF KillHolds, Elements

LEMMA OnwardKillsInv ==
  ASSUME KernelAssumption, HostTyped, KillsTyped, KillsInv, HostOnward, KillsOnward({}),
         DOMAIN kills' = DOMAIN kills
  PROVE  KillsInv'
<1>1. \A k \in DOMAIN kills' : KillHolds(k)'
  BY OnwardKills
<1>2. \A k, l \in DOMAIN kills' : k # l /\ kills'[k].job # None => kills'[k].job # kills'[l].job
  BY DEF KillsInv, KillsOnward, SameKill
<1> QED BY <1>1, <1>2 DEF KillsInv

(* A step that changes none of the jobs' state. *)
JobVars == <<job, active, queue, jobTimer, cancelTimer, outcome, effects, stopped>>
KillsStill ==
  /\ DOMAIN kills' = DOMAIN kills
  /\ \A k \in DOMAIN kills : /\ kills'[k].phase = kills[k].phase /\ kills'[k].job = kills[k].job
                             /\ kills'[k].tasks = kills[k].tasks

\* A step that changes none of the jobs' state keeps Base if its stack and continuations do.
LEMMA Still ==
  ASSUME KernelAssumption, HostInv, KillsTyped, KillsInv, UNCHANGED JobVars, KillsStill,
         DOMAIN boots \subseteq DOMAIN boots'
  PROVE  HostInv' /\ KillsInv' /\ AllKeep /\ AllContsKeep
<1>1. HostOnward
  BY DEF JobVars, HostOnward, QueueOnward, SameJob
<1>2. KillsOnward({})
  BY DEF JobVars, KillsStill, KillsOnward, SameKill
<1>3. HostTyped' /\ Owned' /\ Timed'
  BY DEF JobVars, HostInv, HostTyped, Owned, Timed
<1>4. EffectsHeld'
  BY DEF JobVars, KillsStill, HostInv, EffectsHeld
<1>5. StopsHeld'
  BY DEF JobVars, KillsStill, HostInv, StopsHeld, StopHeld
<1>6. KillsInv'
  BY <1>1, <1>2, OnwardKillsInv DEF HostInv, KillsStill
<1> QED BY <1>1, <1>2, <1>3, <1>4, <1>5, <1>6, OnwardAll, OnwardAllConts DEF HostInv

\* A waiter is added to a kill.
LEMMA KillWaiters ==
  ASSUME KillsTyped, NEW k \in DOMAIN kills, NEW ws \in Seq(Waiters),
         kills' = [kills EXCEPT ![k].waiters = ws]
  PROVE  kills' \in Seq(KillRecords) /\ Len(kills') = Len(kills) /\ KillsStill
<1> DEFINE r == [kills[k] EXCEPT !.waiters = ws]
<1>1. kills[k] \in KillRecords
  BY KillTyped
<1>2. /\ r \in KillRecords /\ r.phase = kills[k].phase /\ r.job = kills[k].job
      /\ r.tasks = kills[k].tasks
  BY <1>1 DEF KillRecords
<1>3. kills \in Seq(KillRecords) /\ kills' = [kills EXCEPT ![k] = r]
  BY DEF KillsTyped
<1> HIDE DEF r
<1>4. /\ kills' \in Seq(KillRecords) /\ Len(kills') = Len(kills) /\ DOMAIN kills' = DOMAIN kills
      /\ kills'[k] = r /\ \A i \in DOMAIN kills : i # k => kills'[i] = kills[i]
  BY <1>2, <1>3, Updated
<1> QED BY <1>2, <1>4 DEF KillsStill

\* Waiters are added to a boot.
LEMMA BootWaiters ==
  ASSUME BootsTyped, NEW e \in DOMAIN boots, NEW ws \in Seq(Callers),
         boots' = [boots EXCEPT ![e].waiters = ws]
  PROVE  boots' \in Seq(BootRecords) /\ Len(boots') = Len(boots)
<1> DEFINE r == [boots[e] EXCEPT !.waiters = ws]
<1>1. boots \in Seq(BootRecords) /\ boots[e] \in BootRecords
  BY DEF BootsTyped
<1>2. r \in BootRecords
  BY <1>1 DEF BootRecords
<1>3. boots' = [boots EXCEPT ![e] = r]
  OBVIOUS
<1> HIDE DEF r
<1>4. /\ boots' \in Seq(BootRecords) /\ Len(boots') = Len(boots) /\ DOMAIN boots' = DOMAIN boots
      /\ boots'[e] = r /\ \A i \in DOMAIN boots : i # e => boots'[i] = boots[i]
  BY <1>1, <1>2, <1>3, Updated
<1> QED BY <1>4

\* A kill moves on.
LEMMA KillPhase ==
  ASSUME KillsTyped, NEW k \in DOMAIN kills, NEW p \in {"drain", "publish", "ended"},
         NEW ws \in Seq(Waiters),
         \/ kills' = [kills EXCEPT ![k].phase = p, ![k].waiters = ws]
         \/ kills' = [kills EXCEPT ![k].phase = p]
  PROVE  /\ kills' \in Seq(KillRecords) /\ Len(kills') = Len(kills) /\ DOMAIN kills' = DOMAIN kills
         /\ kills'[k].phase = p /\ kills'[k].job = kills[k].job /\ kills'[k].tasks = kills[k].tasks
         /\ \A l \in DOMAIN kills : l # k => kills'[l] = kills[l]
<1>1. kills[k] \in KillRecords
  BY KillTyped
<1>2. PICK r \in KillRecords : /\ r.phase = p /\ r.job = kills[k].job /\ r.tasks = kills[k].tasks
                               /\ kills' = [kills EXCEPT ![k] = r]
  <2>1. CASE kills' = [kills EXCEPT ![k].phase = p, ![k].waiters = ws]
    <3> DEFINE r == [[kills[k] EXCEPT !.phase = p] EXCEPT !.waiters = ws]
    <3>1. /\ r \in KillRecords /\ r.phase = p /\ r.job = kills[k].job /\ r.tasks = kills[k].tasks
      BY <1>1 DEF KillRecords
    <3>2. kills' = [kills EXCEPT ![k] = r]
      BY <2>1 DEF KillsTyped
    <3> QED BY <3>1, <3>2
  <2>2. CASE kills' = [kills EXCEPT ![k].phase = p]
    <3> DEFINE r == [kills[k] EXCEPT !.phase = p]
    <3>1. /\ r \in KillRecords /\ r.phase = p /\ r.job = kills[k].job /\ r.tasks = kills[k].tasks
      BY <1>1 DEF KillRecords
    <3>2. kills' = [kills EXCEPT ![k] = r]
      BY <2>2 DEF KillsTyped
    <3> QED BY <3>1, <3>2
  <2> QED BY <2>1, <2>2
<1>3. kills \in Seq(KillRecords)
  BY DEF KillsTyped
<1>4. /\ kills' \in Seq(KillRecords) /\ Len(kills') = Len(kills) /\ DOMAIN kills' = DOMAIN kills
      /\ kills'[k] = r /\ \A l \in DOMAIN kills : l # k => kills'[l] = kills[l]
  BY <1>2, <1>3, Updated
<1> QED BY <1>2, <1>4

-------------------------------------------------------------------------------
(* The steps that change none of the jobs' state. *)

\* The top frame holds.
LEMMA TopFrame ==
  ASSUME StackInv, stack # <<>>
  PROVE  Head(stack) \in Frames /\ Head(stack).then \in Nexts /\ FrameHolds(Head(stack))
<1>1. Head(stack) \in Frames /\ Head(stack) \in Elements(stack)
  BY DEF StackInv, Elements, ToSet
<1> QED BY <1>1 DEF StackInv, Frames

\* The first continuation holds.
LEMMA HeadCont ==
  ASSUME MicroInv, micro # <<>>
  PROVE  Head(micro) \in Conts /\ Head(micro).then \in Starts /\ ContHolds(Head(micro))
<1>1. Head(micro) \in Conts /\ Head(micro) \in Elements(micro)
  BY DEF MicroInv, Elements, ToSet
<1> QED BY <1>1 DEF MicroInv, Conts

\* start(), terminate() and restart() are called.
LEMMA CallKeeps ==
  ASSUME KernelAssumption, Base, StartCall \/ Terminate \/ Restart
  PROVE  Base'
<1>1. PICK fr \in Frames : Plainly(fr) /\ ~fr.open /\ stack' = <<fr>> \o stack
  <2>1. CASE StartCall
    BY <2>1, StartKillFrames DEF StartCall, Call, Nexts, Plainly, Plain, StartKinds, Starts
  <2>2. CASE Terminate
    BY <2>2, StartKillFrames DEF Terminate, Call, Nexts, KernelAssumption, Plainly, Plain, StartKinds
  <2>3. CASE Restart
    BY <2>3, StartKillFrames DEF Restart, Call, Nexts, Plainly, Plain, StartKinds
  <2> QED BY <2>1, <2>2, <2>3
<1>2. /\ Callable
      /\ UNCHANGED <<host, lifecycle, micro, outcome, effects, live, cell, stopped, faults>>
  BY DEF StartCall, Terminate, Restart, Call
<1>3. HostInv' /\ KillsInv' /\ AllKeep /\ AllContsKeep
  BY <1>2, Still DEF Base, JobVars, KillsStill, host, lifecycle
<1>4. StackInv'
  BY <1>1, <1>2, <1>3, StackPushed DEF Base
<1>5. MicroInv' /\ BootsTyped' /\ KillsTyped'
  BY <1>2, <1>3, MicroSame DEF Base, BootsTyped, KillsTyped, host, lifecycle
<1> QED BY <1>3, <1>4, <1>5 DEF Base

\* start() awaits a kill in progress.
LEMMA StartKeeps ==
  ASSUME KernelAssumption, Base, Start
  PROVE  Base'
<1> DEFINE c == [Cont("start", 0) EXCEPT !.then = Head(stack).then]
<1>1. /\ stack # <<>> /\ Head(stack).f = "start" /\ killPromise # 0 /\ Return(<<>>)
      /\ kills' = [kills EXCEPT ![killPromise].waiters = Append(@, c)]
      /\ UNCHANGED <<host, killPromise, boots, bootEpoch, bootPromise, micro, outcome, world>>
  BY DEF Start, Top
<1>2. c \in Waiters
  <2>1. Head(stack).then \in Starts
    BY <1>1, TopFrame DEF Base, FrameHolds, StartKinds
  <2> QED BY <2>1 DEF Cont, Waiters, Conts, Resumptions
<1>3. killPromise \in DOMAIN kills /\ kills[killPromise].waiters \in Seq(Waiters)
  BY <1>1, KillTyped DEF Base, KillsTyped
<1> HIDE DEF c
<1>5. KillsTyped' /\ KillsStill
  <2>1. PICK w \in Seq(Waiters) : w = Append(kills[killPromise].waiters, c)
    BY <1>2, <1>3, Appended
  <2>2. kills' = [kills EXCEPT ![killPromise].waiters = w]
    BY <1>1, <2>1
  <2> QED BY <1>1, <1>3, <2>2, KillWaiters DEF Base, KillsTyped
<1>6. HostInv' /\ KillsInv' /\ AllKeep /\ AllContsKeep
  BY <1>1, <1>5, Still DEF Base, JobVars, host, world
<1>7. StackInv'
  BY <1>1, <1>6, StackPopped, AllKeepTop DEF Base
<1>8. MicroInv' /\ BootsTyped'
  BY <1>1, <1>6, MicroSame DEF Base, BootsTyped, host, world
<1> QED BY <1>5, <1>6, <1>7, <1>8 DEF Base

\* killWorker() joins a kill in progress.
LEMMA JoinKillKeeps ==
  ASSUME KernelAssumption, Base, JoinKill
  PROVE  Base'
<1> DEFINE ws == Await(Head(stack).then)
<1>1. /\ stack # <<>> /\ killPromise # 0 /\ Return(<<>>)
      /\ kills' = [kills EXCEPT ![killPromise].waiters = @ \o ws]
      /\ UNCHANGED <<host, killPromise, boots, bootEpoch, bootPromise, micro, outcome, world>>
  BY DEF JoinKill, Top
<1>2. ws \in Seq(Waiters)
  BY <1>1, TopFrame, Awaited DEF Base
<1>3. killPromise \in DOMAIN kills /\ kills[killPromise].waiters \in Seq(Waiters)
  BY <1>1, KillTyped DEF Base, KillsTyped
<1> HIDE DEF ws
<1>5. KillsTyped' /\ KillsStill
  <2>1. PICK w \in Seq(Waiters) : w = kills[killPromise].waiters \o ws
    BY <1>2, <1>3, Joined
  <2>2. kills' = [kills EXCEPT ![killPromise].waiters = w]
    BY <1>1, <2>1
  <2> QED BY <1>1, <1>3, <2>2, KillWaiters DEF Base, KillsTyped
<1>6. HostInv' /\ KillsInv' /\ AllKeep /\ AllContsKeep
  BY <1>1, <1>5, Still DEF Base, JobVars, host, world
<1>7. StackInv'
  BY <1>1, <1>6, StackPopped, AllKeepTop DEF Base
<1>8. MicroInv' /\ BootsTyped'
  BY <1>1, <1>6, MicroSame DEF Base, BootsTyped, host, world
<1> QED BY <1>5, <1>6, <1>7, <1>8 DEF Base

\* start() finds a worker, joins a boot or begins one.
LEMMA StartBodyKeeps ==
  ASSUME KernelAssumption, Base, StartBody
  PROVE  Base'
<1> DEFINE next == Await(Head(stack).then)
<1>1. /\ stack # <<>> /\ Return(<<>>) /\ Head(stack).f \in StartKinds
      /\ UNCHANGED <<worker, job, active, queue, jobTimer, cancelTimer, kills, killPromise, outcome,
                     world>>
  BY DEF StartBody, Top, StartKinds
<1>2. next \in Seq(Callers) /\ next \in Seq(Waiters)
  <2>1. Head(stack).then \in Starts /\ Head(stack).then \in Nexts
    BY <1>1, TopFrame DEF Base, FrameHolds
  <2> QED BY <2>1, Awaited
<1>3. /\ BootsTyped' /\ DOMAIN boots \subseteq DOMAIN boots'
      /\ UNCHANGED micro \/ micro' = micro \o next
  <2>1. CASE UNCHANGED <<state, boots, bootEpoch, bootPromise>> /\ micro' = micro \o next
    BY <1>1, <2>1 DEF Base, BootsTyped, world
  <2>2. CASE /\ bootPromise # 0 /\ UNCHANGED <<state, bootEpoch, bootPromise>>
             /\ boots' = [boots EXCEPT ![bootPromise].waiters = @ \o next] /\ UNCHANGED micro
    <3> HIDE DEF next
    <3>1. bootPromise \in DOMAIN boots
      BY <2>2 DEF Base, BootsTyped
    <3>2. boots[bootPromise] \in BootRecords
      BY <3>1 DEF Base, BootsTyped
    <3>3. boots[bootPromise].waiters \in Seq(Callers)
      BY <3>2 DEF BootRecords
    <3>7. PICK w \in Seq(Callers) : w = boots[bootPromise].waiters \o next
      BY <1>2, <3>3, Joined
    <3>4. boots' = [boots EXCEPT ![bootPromise].waiters = w]
      BY <2>2, <3>7
    <3>5. boots' \in Seq(BootRecords) /\ Len(boots') = Len(boots)
      BY <3>1, <3>4, BootWaiters DEF Base
    <3>6. DOMAIN boots' = DOMAIN boots
      BY <3>4
    <3> QED BY <1>1, <2>2, <3>5, <3>6 DEF Base, BootsTyped, world
  <2>3. CASE /\ bootEpoch' = bootEpoch + 1 /\ bootPromise' = bootEpoch + 1 /\ state' = "booting"
             /\ boots' = [e \in 1..(bootEpoch + 1) |->
                            IF e \in DOMAIN boots THEN boots[e]
                            ELSE [phase |-> IF e = bootEpoch + 1 THEN "preflight" ELSE "dead",
                                  waiters |-> IF e = bootEpoch + 1 THEN next ELSE <<>>]]
             /\ UNCHANGED micro
    <3> HIDE DEF next
    <3>1. ASSUME NEW e \in 1..(bootEpoch + 1)
          PROVE  boots'[e] \in BootRecords
      <4>1. CASE e \in DOMAIN boots
        BY <2>3, <3>1, <4>1 DEF Base, BootsTyped
      <4>2. CASE e \notin DOMAIN boots
        <5>1. [phase |-> IF e = bootEpoch + 1 THEN "preflight" ELSE "dead",
               waiters |-> IF e = bootEpoch + 1 THEN next ELSE <<>>] \in BootRecords
          BY <1>2 DEF BootRecords
        <5> QED BY <2>3, <3>1, <4>2, <5>1
      <4> QED BY <4>1, <4>2
    <3>2. bootEpoch + 1 \in Nat /\ DOMAIN boots' = 1..(bootEpoch + 1)
      BY <2>3 DEF Base, BootsTyped
    <3>3. boots' \in [1..(bootEpoch + 1) -> BootRecords]
      BY <2>3, <3>1
    <3>4. boots' \in Seq(BootRecords) /\ Len(boots') = bootEpoch + 1
      BY <3>2, <3>3
    <3>5. DOMAIN boots \subseteq DOMAIN boots'
      BY <3>2 DEF Base, BootsTyped
    <3> QED BY <1>1, <2>3, <3>4, <3>5 DEF Base, BootsTyped, world
  <2> QED BY <2>1, <2>2, <2>3 DEF StartBody
<1>4. HostInv' /\ KillsInv' /\ AllKeep /\ AllContsKeep
  BY <1>1, <1>3, Still DEF Base, JobVars, KillsStill, world
<1>5. StackInv'
  BY <1>1, <1>4, StackPopped, AllKeepTop DEF Base
<1>6. MicroInv'
  BY <1>2, <1>3, <1>4, MicroSame, MicroJoined DEF Base
<1> QED BY <1>1, <1>3, <1>4, <1>5, <1>6 DEF Base, KillsTyped

\* The worker is constructed, or the boot was overtaken.
LEMMA PreflightDoneKeeps ==
  ASSUME KernelAssumption, Base, NEW e \in DOMAIN boots, PreflightDone(e)
  PROVE  Base'
<1>1. /\ Idling
      /\ UNCHANGED <<state, job, active, queue, jobTimer, cancelTimer, kills, killPromise, bootEpoch,
                     bootPromise, stack, micro, outcome, effects, stopped, calls, faults>>
  BY DEF PreflightDone
<1>2. boots' \in Seq(BootRecords) /\ Len(boots') = Len(boots) /\ DOMAIN boots' = DOMAIN boots
  <2>1. boots \in Seq(BootRecords) /\ boots[e] \in BootRecords
    BY DEF Base, BootsTyped
  <2>4. [boots[e] EXCEPT !.phase = "handshake"] \in BootRecords
    BY <2>1 DEF BootRecords
  <2>2. [phase |-> "dead", waiters |-> <<>>] \in BootRecords
    BY DEF BootRecords
  <2>3. \E r \in BootRecords : boots' = [boots EXCEPT ![e] = r]
    BY <2>2, <2>4 DEF PreflightDone
  <2> QED BY <2>1, <2>3, Updated
<1>3. /\ worker' \in 0..bootEpoch
      /\ cell' \in Seq(JobOrNone) /\ Len(cell') <= bootEpoch /\ live' \subseteq DOMAIN cell'
  <2>1. CASE AssertCurrentBoot(e)
    <3>1. /\ worker' = e /\ live' = live \union {e} /\ e = bootEpoch
          /\ cell' = [w \in 1..bootEpoch |-> IF w \in DOMAIN cell THEN cell[w] ELSE None]
      BY <2>1 DEF PreflightDone, AssertCurrentBoot
    <3>2. cell' \in [1..bootEpoch -> JobOrNone] /\ bootEpoch \in Nat /\ DOMAIN cell' = 1..bootEpoch
      BY <3>1 DEF Base, BootsTyped, JobOrNone
    <3>3. cell' \in Seq(JobOrNone) /\ Len(cell') = bootEpoch
      BY <3>2
    <3>4. e \in 1..bootEpoch /\ DOMAIN cell \subseteq 1..bootEpoch
      BY <3>1 DEF Base, BootsTyped
    <3> QED BY <3>1, <3>2, <3>3, <3>4 DEF Base, BootsTyped
  <2>2. CASE ~AssertCurrentBoot(e)
    BY <2>2 DEF PreflightDone, Base, BootsTyped
  <2> QED BY <2>1, <2>2
<1>4. HostInv' /\ KillsInv' /\ AllKeep /\ AllContsKeep
  BY <1>1, <1>2, Still DEF Base, JobVars, KillsStill
<1>5. StackInv'
  BY <1>1, StackEmpty DEF Idling
<1>6. MicroInv' /\ KillsTyped'
  BY <1>1, <1>4, MicroSame DEF Base, KillsTyped
<1>7. BootsTyped'
  BY <1>1, <1>2, <1>3 DEF Base, BootsTyped
<1> QED BY <1>4, <1>5, <1>6, <1>7 DEF Base

LEMMA ReadyKeeps ==
  ASSUME KernelAssumption, Base, NEW e \in DOMAIN boots, Ready(e)
  PROVE  Base'
<1>1. /\ Idling /\ state' = "ready" /\ micro' = Append(micro, Cont("booted", e))
      /\ boots' = [boots EXCEPT ![e].phase = "ready"]
      /\ UNCHANGED <<worker, job, active, queue, jobTimer, cancelTimer, kills, killPromise, bootEpoch,
                     bootPromise, stack, outcome, world>>
  BY DEF Ready
<1>2. boots' \in Seq(BootRecords) /\ Len(boots') = Len(boots) /\ DOMAIN boots' = DOMAIN boots
  <2>1. boots \in Seq(BootRecords) /\ boots[e] \in BootRecords
    BY DEF Base, BootsTyped
  <2>2. [boots[e] EXCEPT !.phase = "ready"] \in BootRecords
    BY <2>1 DEF BootRecords
  <2>3. \E r \in BootRecords : boots' = [boots EXCEPT ![e] = r]
    BY <1>1, <2>2
  <2> QED BY <2>1, <2>3, Updated
<1>3. HostInv' /\ KillsInv' /\ AllKeep /\ AllContsKeep
  BY <1>1, <1>2, Still DEF Base, JobVars, KillsStill, world
<1>4. Cont("booted", e) \in Conts /\ Cont("booted", e).k = "booted" /\ Cont("booted", e).ref = e
  BY DEF Cont, Conts, Starts, Base, BootsTyped
<1>5. MicroInv'
  <2>1. PICK c \in Conts : c = Cont("booted", e)
    BY <1>4
  <2>2. ContHolds(c)' /\ \A d : Distinct(c, d) /\ Distinct(d, c)
    BY <1>2, <1>4, <2>1 DEF ContHolds, Distinct
  <2> QED BY <1>1, <1>3, <2>1, <2>2, MicroAppended DEF Base
<1>6. StackInv'
  BY <1>1, StackEmpty DEF Idling
<1> QED BY <1>1, <1>2, <1>3, <1>5, <1>6 DEF Base, BootsTyped, KillsTyped, world

LEMMA WorkerFaultKeeps ==
  ASSUME KernelAssumption, Base, WorkerFault
  PROVE  Base'
<1>1. /\ stack' = <<KillThen("none")>>
      /\ UNCHANGED <<host, lifecycle, micro, outcome, effects, live, cell, stopped, calls>>
  BY DEF WorkerFault
<1>2. HostInv' /\ KillsInv' /\ AllKeep /\ AllContsKeep
  BY <1>1, Still DEF Base, JobVars, KillsStill, host, lifecycle
<1>3. KillThen("none") \in Frames /\ KillThen("none").f = "kill" /\ ~KillThen("none").open
  BY StartKillFrames DEF Nexts
<1>4. StackInv'
  BY <1>1, <1>3, PlainHolds, StackFresh DEF Plainly, Plain, StartKinds
<1>5. MicroInv' /\ BootsTyped' /\ KillsTyped'
  BY <1>1, <1>2, MicroSame DEF Base, BootsTyped, KillsTyped, host, lifecycle
<1> QED BY <1>2, <1>4, <1>5 DEF Base

LEMMA StartNextKeeps ==
  ASSUME KernelAssumption, Base, StartNext
  PROVE  Base'
<1>1. /\ stack # <<>>
      /\ Return(<<>>) \/ Return(<<StartThen("dispatch")>>)
      /\ UNCHANGED <<host, lifecycle, micro, outcome, world>>
  BY DEF StartNext, Top
<1>2. HostInv' /\ KillsInv' /\ AllKeep /\ AllContsKeep
  BY <1>1, Still DEF Base, JobVars, KillsStill, host, lifecycle, world
<1>3. /\ StartThen("dispatch") \in Frames /\ StartThen("dispatch").f = "start"
      /\ ~StartThen("dispatch").open /\ StartThen("dispatch").then = "dispatch"
  BY StartKillFrames DEF Nexts
<1>4. StackInv'
  <2>1. CASE Return(<<>>)
    BY <1>1, <1>2, <2>1, StackPopped, AllKeepTop DEF Base
  <2>2. CASE Return(<<StartThen("dispatch")>>)
    <3>1. PICK fr \in Frames : fr = StartThen("dispatch")
      BY <1>3
    <3>2. FrameHolds(fr)' /\ \A g : Apart(g, fr)
      BY <1>3, <3>1, PlainHolds DEF Plainly, Plain, Starts
    <3> QED BY <1>1, <1>2, <1>3, <2>2, <3>1, <3>2, StackReplaced, AllKeepTop DEF Base
  <2> QED BY <1>1, <2>1, <2>2
<1>5. MicroInv' /\ BootsTyped' /\ KillsTyped'
  BY <1>1, <1>2, MicroSame DEF Base, BootsTyped, KillsTyped, host, lifecycle, world
<1> QED BY <1>2, <1>4, <1>5 DEF Base

LEMMA ResumeKeeps ==
  ASSUME KernelAssumption, Base, ResumeStart \/ ResumeDispatch \/ ResumeTerminate \/ ResumeRestart
  PROVE  Base'
<1>1. /\ stack = <<>> /\ micro # <<>> /\ micro' = Tail(micro)
      /\ UNCHANGED <<worker, job, active, queue, jobTimer, cancelTimer, kills, killPromise, boots,
                     bootEpoch, outcome, world>>
      /\ state' \in {state, "stopped"} /\ bootPromise' \in {0, bootPromise}
  BY DEF ResumeStart, ResumeDispatch, ResumeTerminate, ResumeRestart, Continue, host, lifecycle
<1>2. HostInv' /\ KillsInv' /\ AllKeep /\ AllContsKeep
  BY <1>1, Still DEF Base, JobVars, KillsStill, world
<1>3. StackInv'
  <2>1. CASE ResumeTerminate
    BY <1>1, <2>1, StackEmpty DEF ResumeTerminate
  <2>2. CASE ~ResumeTerminate
    <3>1. /\ Head(micro).then \in Nexts /\ Head(micro).then \in Starts
          /\ "none" \in Nexts /\ "none" \in Starts
      BY <1>1, HeadCont DEF Base, Nexts, Starts
    <3>2. PICK fr \in Frames : Plainly(fr) /\ ~fr.open /\ stack' = <<fr>>
      BY <2>2, <3>1, PlainFrames, StartKillFrames
         DEF ResumeStart, ResumeDispatch, ResumeRestart, Plainly, Plain, StartKinds
    <3> QED BY <3>2, PlainHolds, StackFresh
  <2> QED BY <2>1, <2>2
<1>4. MicroInv'
  <2>1. micro' = Tail(micro) \o <<>> /\ <<>> \in Seq(Waiters)
    BY <1>1 DEF Base, MicroInv
  <2>2. ContsKeep(Head(micro))
    BY <1>2 DEF AllContsKeep, ContsKeep
  <2> QED BY <1>1, <2>1, <2>2, MicroTaken DEF Base
<1>5. BootsTyped' /\ KillsTyped'
  BY <1>1 DEF Base, BootsTyped, KillsTyped, world
<1> QED BY <1>2, <1>3, <1>4, <1>5 DEF Base

LEMMA BootSettlesKeeps ==
  ASSUME KernelAssumption, Base, BootSettles
  PROVE  Base'
<1> DEFINE e == Head(micro).ref
           current == bootEpoch = e /\ bootPromise = e
           ws == IF current THEN boots[e].waiters ELSE <<>>
<1>1. /\ stack = <<>> /\ micro # <<>> /\ Head(micro).k = "booted" /\ micro' = Tail(micro) \o ws
      /\ boots' = [boots EXCEPT ![e] = [phase |-> IF current THEN "done" ELSE "dead", waiters |-> <<>>]]
      /\ UNCHANGED <<host, kills, killPromise, bootEpoch, bootPromise, stack, outcome, world>>
  BY DEF BootSettles, Continue
<1>2. e \in DOMAIN boots
  BY <1>1, HeadCont DEF Base, ContHolds
<1>3. boots \in Seq(BootRecords) /\ boots[e] \in BootRecords /\ ws \in Seq(Waiters)
  <2>1. boots \in Seq(BootRecords) /\ boots[e] \in BootRecords
    BY <1>2 DEF Base, BootsTyped
  <2>2. boots[e].waiters \in Seq(Callers)
    BY <2>1 DEF BootRecords
  <2>3. boots[e].waiters \in Seq(Waiters)
    BY <2>2 DEF Callers
  <2> QED BY <2>1, <2>3
<1>4. boots' \in Seq(BootRecords) /\ Len(boots') = Len(boots) /\ DOMAIN boots' = DOMAIN boots
  <2>1. [phase |-> IF current THEN "done" ELSE "dead", waiters |-> <<>>] \in BootRecords
    BY DEF BootRecords
  <2>2. \E r \in BootRecords : boots' = [boots EXCEPT ![e] = r]
    BY <1>1, <2>1
  <2> QED BY <1>2, <1>3, <2>2, Updated
<1>5. HostInv' /\ KillsInv' /\ AllKeep /\ AllContsKeep
  BY <1>1, <1>4, Still DEF Base, JobVars, KillsStill, host, world
<1>6. MicroInv'
  <2>1. ContsKeep(Head(micro))
    BY <1>5 DEF AllContsKeep, ContsKeep
  <2> QED BY <1>1, <1>3, <2>1, MicroTaken DEF Base
<1>7. StackInv'
  BY <1>1, StackEmpty
<1> QED BY <1>1, <1>4, <1>5, <1>6, <1>7 DEF Base, BootsTyped, KillsTyped, host, world

-------------------------------------------------------------------------------
(* The queue and the interface. *)

\* A queued job is pending and nothing else holds it.
LEMMA Queued ==
  ASSUME KernelAssumption, HostInv, KillsTyped, KillsInv, NEW j \in Elements(queue)
  PROVE  /\ j \in Jobs /\ outcome[j] = "pending" /\ j # job /\ j \notin stopped
         /\ \A k \in DOMAIN kills : kills[k].job # j
         /\ \A e \in effects : e.job # j
<1>1. j \in Jobs /\ outcome[j] = "pending" /\ j # job
  BY DEF HostInv, HostTyped, Owned, Elements, ToSet
<1>2. \A k \in DOMAIN kills : kills[k].job # j
  BY <1>1 DEF KillsInv, KillHolds, KernelAssumption
<1>3. \A e \in effects : e.job # j
  BY <1>1, <1>2 DEF HostInv, EffectsHeld, KillsInv, KillHolds
<1>4. j \notin stopped
  BY <1>1, <1>2 DEF HostInv, StopsHeld, StopHeld
<1> QED BY <1>1, <1>2, <1>3, <1>4

\* The whole queue is settled at once: no other job is touched.
LEMMA FlushKeeps ==
  ASSUME KernelAssumption, Base, NEW o \in Settled, Settle(Elements(queue), o), queue' = <<>>,
         UNCHANGED <<job, active, kills, effects, stopped>>,
         jobTimer' \in {None, jobTimer}, cancelTimer' \in {None, cancelTimer},
         DOMAIN boots \subseteq DOMAIN boots'
  PROVE  HostInv' /\ KillsInv' /\ AllKeep /\ AllContsKeep
<1>1. /\ outcome' \in [Jobs -> Settled \cup {"idle", "pending", "refused"}]
      /\ \A j \in Jobs : outcome'[j] = IF j \in Elements(queue) THEN o ELSE outcome[j]
  BY DEF Settle, Base, HostInv, HostTyped
<1>2. Elements(queue') = {} /\ queue' \in Seq(Jobs)
  BY DEF Elements, ToSet
<1>3. \A k \in DOMAIN kills : kills[k].job # None => outcome'[kills[k].job] = outcome[kills[k].job]
  <2> SUFFICES ASSUME NEW k \in DOMAIN kills, kills[k].job # None
               PROVE  outcome'[kills[k].job] = outcome[kills[k].job]
    OBVIOUS
  <2>1. kills[k].job \in Jobs /\ kills[k].job \notin Elements(queue)
    BY KillTyped DEF Base, JobOrNone, KillsInv, KillHolds
  <2> QED BY <1>1, <2>1
<1>4. KillsOnward({})
  BY <1>3 DEF KillsOnward, SameKill
<1>5. HostOnward
  BY <1>1, <1>2 DEF HostOnward, QueueOnward, SameJob, Settled
<1>6. HostTyped'
  BY <1>1, <1>2 DEF Base, HostInv, HostTyped, JobOrNone
<1>7. Owned'
  <2>1. job # None => job \in Jobs /\ job \notin Elements(queue)
    BY Queued DEF Base, HostInv, HostTyped, JobOrNone
  <2> QED BY <1>1, <2>1 DEF Base, HostInv, Owned
<1>8. EffectsHeld'
  <2>1. \A e \in effects : e.job \in Jobs /\ e.job \notin Elements(queue)
    BY Queued DEF Base, HostInv, HostTyped, Tasks
  <2> QED BY <1>1, <2>1 DEF Base, HostInv, EffectsHeld
<1>9. StopsHeld'
  <2>1. \A j \in stopped : j \in Jobs /\ j \notin Elements(queue)
    BY Queued DEF Base, HostInv, HostTyped
  <2> QED BY <1>1, <2>1 DEF Base, HostInv, StopsHeld, StopHeld
<1>10. Timed'
  BY DEF Base, HostInv, Timed
<1>11. KillsInv'
  BY <1>4, <1>5, OnwardKillsInv DEF Base, HostInv
<1> QED BY <1>4, <1>5, <1>6, <1>7, <1>8, <1>9, <1>10, <1>11, OnwardAll, OnwardAllConts DEF HostInv

LEMMA BootFailsKeeps ==
  ASSUME KernelAssumption, Base, NEW e \in DOMAIN boots, BootFails(e)
  PROVE  Base'
<1>1. /\ Idling /\ bootPromise' = 0 /\ live' = live \ {worker} /\ worker' = 0 /\ state' = "failed"
      /\ boots' = [boots EXCEPT ![e] = [phase |-> "dead", waiters |-> <<>>]]
      /\ Settle(Elements(queue), "rejected") /\ queue' = <<>>
      /\ UNCHANGED <<job, active, jobTimer, cancelTimer, kills, killPromise, bootEpoch, stack, micro,
                     effects, cell, stopped, calls>>
  BY DEF BootFails
<1>2. boots' \in Seq(BootRecords) /\ Len(boots') = Len(boots) /\ DOMAIN boots' = DOMAIN boots
  <2>1. boots \in Seq(BootRecords) /\ [phase |-> "dead", waiters |-> <<>>] \in BootRecords
    BY DEF Base, BootsTyped, BootRecords
  <2> QED BY <1>1, <2>1, Updated
<1>3. HostInv' /\ KillsInv' /\ AllKeep /\ AllContsKeep
  BY <1>1, <1>2, FlushKeeps DEF Settled
<1>4. StackInv'
  BY <1>1, StackEmpty DEF Idling
<1>5. MicroInv' /\ KillsTyped'
  BY <1>1, <1>3, MicroSame DEF Base, KillsTyped
<1>6. BootsTyped'
  BY <1>1, <1>2 DEF Base, BootsTyped
<1> QED BY <1>3, <1>4, <1>5, <1>6 DEF Base

\* The host of an executing worker has a job.
LEMMA ExecutingJob ==
  ASSUME KernelAssumption, Base, Executing
  PROVE  /\ job \in Jobs /\ outcome[job] = "pending" /\ stack = <<>> /\ worker \in Nat
         /\ \A o \in Settled : Authoritative(o) \in Settled
         /\ \A o : active.cancel => Authoritative(o) = "cancelled"
<1>1. job # None /\ stack = <<>> /\ worker \in Nat
  BY DEF Executing, Idling, Base, BootsTyped
<1>2. job \in Jobs /\ outcome[job] = "pending"
  BY <1>1 DEF Base, HostInv, HostTyped, Owned, JobOrNone
<1> QED BY <1>1, <1>2 DEF Authoritative, Settled

LEMMA FinishedKeeps ==
  ASSUME KernelAssumption, Base, NEW o \in {"completed", "failed", "cancelled"}, Finished(o)
  PROVE  Base'
<1>1. /\ Executing
      /\ UNCHANGED <<state, worker, job, active, jobTimer, cancelTimer, lifecycle, micro, world>>
  BY DEF Finished
<1>2. /\ job \in Jobs /\ outcome[job] = "pending" /\ stack = <<>> /\ worker \in Nat
      /\ Authoritative(o) \in Settled /\ (active.cancel => Authoritative(o) = "cancelled")
  BY <1>1, ExecutingJob DEF Settled
<1>3. CASE /\ EffectsOf(job) = {} /\ stack' = <<FinishFrame(worker, Authoritative(o))>>
           /\ UNCHANGED <<queue, outcome>>
  <2>1. HostInv' /\ KillsInv' /\ AllKeep /\ AllContsKeep
    BY <1>1, <1>3, Still DEF Base, JobVars, KillsStill, lifecycle, world
  <2>2. PICK fr \in Frames : /\ fr = FinishFrame(worker, Authoritative(o)) /\ fr.f = "finish" /\ ~fr.open
                             /\ fr.to = Authoritative(o)
    <3>1. job \in JobOrNone /\ Authoritative(o) \in Settled \cup {"none"}
      BY <1>2 DEF JobOrNone
    <3> QED BY <1>2, <3>1, EndFrames
  <2>3. FrameHolds(fr)'
    BY <1>1, <1>2, <1>3, <2>2 DEF FrameHolds, JobKinds, KillKinds, StartKinds, HardKinds, EffectsOf, world
  <2>4. StackInv'
    BY <1>3, <2>2, <2>3, StackFresh
  <2>5. MicroInv' /\ BootsTyped' /\ KillsTyped'
    BY <1>1, <2>1, MicroSame DEF Base, BootsTyped, KillsTyped, lifecycle, world
  <2> QED BY <2>1, <2>4, <2>5 DEF Base
<1>4. ASSUME Settle(Elements(queue), "cancelled"), queue' = <<>>,
             stack' = <<[Open(Frame("defer"), queue # <<>>)
                           EXCEPT !.job = job, !.ref = worker, !.to = Authoritative(o)]>>
      PROVE  Base'
  <2>1. HostInv' /\ KillsInv' /\ AllKeep /\ AllContsKeep
    BY <1>1, <1>4, FlushKeeps DEF Settled, lifecycle, world
  <2>2. PICK fr \in Frames : stack' = <<fr>> /\ fr.f = "defer" /\ fr.job = job /\ fr.to = Authoritative(o)
    <3>1. PICK b \in BOOLEAN : b = (queue # <<>>)
      OBVIOUS
    <3>2. PICK a \in Settled : a = Authoritative(o)
      BY <1>2
    <3>3. job \in JobOrNone
      BY <1>2 DEF JobOrNone
    <3>4. PICK fr : fr = [Open(Frame("defer"), b) EXCEPT !.job = job, !.ref = worker, !.to = a]
      OBVIOUS
    <3>5. fr \in Frames /\ fr.f = "defer" /\ fr.job = job /\ fr.to = a
      BY <1>2, <3>3, <3>4 DEF Frames, FrameKinds, Frame, Open, JobOrNone, Nexts
    <3>6. stack' = <<fr>>
      BY <1>4, <3>1, <3>2, <3>4
    <3> QED BY <3>2, <3>5, <3>6
  <2>3. job' = job /\ Elements(queue') = {} /\ outcome'[job] = "pending"
    BY <1>1, <1>2, <1>4, <2>1 DEF HostInv, Owned, Elements, ToSet, KernelAssumption
  <2>4. FrameHolds(fr)'
    BY <1>1, <1>2, <2>2, <2>3 DEF FrameHolds, JobKinds, KillKinds, StartKinds, HardKinds, Elements
  <2>5. StackInv'
    BY <2>2, <2>4, StackFresh DEF OpenKinds
  <2>6. MicroInv' /\ BootsTyped' /\ KillsTyped'
    BY <1>1, <2>1, MicroSame DEF Base, BootsTyped, KillsTyped, lifecycle, world
  <2> QED BY <2>1, <2>5, <2>6 DEF Base
<1> QED BY <1>3, <1>4 DEF Finished

LEMMA BeginHardCancellationKeeps ==
  ASSUME KernelAssumption, Base, BeginHardCancellation
  PROVE  Base'
<1>1. /\ Idling /\ cancelTimer # None /\ cancelTimer' = None
      /\ UNCHANGED <<state, worker, job, active, lifecycle, micro, world>>
  BY DEF BeginHardCancellation
<1>2. cancelTimer = job /\ active.cancel /\ job \in Jobs /\ outcome[job] = "pending"
  BY <1>1 DEF Base, HostInv, HostTyped, Timed, Owned, JobOrNone
<1>3. /\ jobTimer' = None /\ Settle(Elements(queue), "cancelled") /\ queue' = <<>>
      /\ stack' = <<[Open(Frame("hard"), queue # <<>>) EXCEPT !.job = job]>>
  BY <1>2 DEF BeginHardCancellation, Base, HostInv, HostTyped
<1>4. HostInv' /\ KillsInv' /\ AllKeep /\ AllContsKeep
  BY <1>1, <1>3, FlushKeeps DEF Settled, lifecycle, world
<1>5. PICK fr \in Frames : stack' = <<fr>> /\ fr.f = "hard" /\ fr.job = job
  <2>1. job \in JobOrNone /\ (queue # <<>>) \in BOOLEAN
    BY <1>2 DEF JobOrNone
  <2> QED BY <1>3, <2>1, HardFrames
<1>6. job' = job /\ Elements(queue') = {} /\ outcome'[job] = "pending"
  BY <1>1, <1>2, <1>3, <1>4 DEF HostInv, Owned, Elements, ToSet, KernelAssumption
<1>7. FrameHolds(fr)'
  BY <1>1, <1>2, <1>3, <1>5, <1>6 DEF FrameHolds, JobKinds, KillKinds, StartKinds, HardKinds, Elements
<1>8. StackInv'
  BY <1>5, <1>7, StackFresh DEF OpenKinds
<1>9. MicroInv' /\ BootsTyped' /\ KillsTyped'
  BY <1>1, <1>4, MicroSame DEF Base, BootsTyped, KillsTyped, lifecycle, world
<1> QED BY <1>4, <1>8, <1>9 DEF Base

LEMMA WallClockKeeps ==
  ASSUME KernelAssumption, Base, WallClock
  PROVE  Base'
<1>1. /\ stack' = <<KillThen("none")>> /\ jobTimer' = None
      /\ UNCHANGED <<state, worker, job, active, queue, cancelTimer, lifecycle, micro, outcome, world>>
  BY DEF WallClock
<1>2. HostOnward /\ KillsOnward({})
  BY <1>1 DEF HostOnward, QueueOnward, SameJob, KillsOnward, SameKill, lifecycle, world
<1>3. HostInv'
  BY <1>1 DEF Base, HostInv, HostTyped, Owned, EffectsHeld, StopsHeld, StopHeld, Timed, JobOrNone,
              lifecycle, world
<1>4. KillsInv' /\ AllContsKeep
  BY <1>1, <1>2, OnwardKillsInv, OnwardAllConts DEF Base, HostInv, lifecycle
<1>5. KillThen("none") \in Frames /\ KillThen("none").f = "kill" /\ ~KillThen("none").open
  BY StartKillFrames DEF Nexts
<1>6. StackInv'
  BY <1>1, <1>5, PlainHolds, StackFresh DEF Plainly, Plain, StartKinds
<1>7. MicroInv' /\ BootsTyped' /\ KillsTyped'
  BY <1>1, <1>4, MicroSame DEF Base, BootsTyped, KillsTyped, lifecycle, world
<1> QED BY <1>3, <1>4, <1>6, <1>7 DEF Base

LEMMA CancelActiveKeeps ==
  ASSUME KernelAssumption, Base, NEW j \in Jobs, CancelActive(j)
  PROVE  Base'
<1>1. /\ Callable /\ job = j /\ ~active.cancel /\ active' = [active EXCEPT !.cancel = TRUE]
      /\ jobTimer' = None /\ cancelTimer' = j /\ stopped' = stopped \union {j}
      /\ UNCHANGED <<state, worker, job, queue, lifecycle, stack, micro, outcome,
                     effects, live, cell, calls, faults>>
  BY DEF CancelActive
<1>2. active' \in Protocols /\ active'.job = job /\ active'.hard = active.hard /\ active'.cancel
  BY <1>1 DEF Base, HostInv, HostTyped, Protocols
<1>3. HostOnward /\ KillsOnward({})
  BY <1>1, <1>2 DEF HostOnward, QueueOnward, Uncancelled, KillsOnward, SameKill, lifecycle
<1>4. HostTyped' /\ Owned' /\ EffectsHeld'
  BY <1>1, <1>2 DEF Base, HostInv, HostTyped, Owned, EffectsHeld, JobOrNone, lifecycle
<1>5. StopsHeld'
  <2>1. outcome[j] = "pending"
    BY <1>1 DEF Base, HostInv, Owned, KernelAssumption
  <2> QED BY <1>1, <1>2, <2>1 DEF Base, HostInv, StopsHeld, StopHeld, lifecycle
<1>6. Timed'
  BY <1>1, <1>2 DEF Base, HostInv, Timed
<1>7. KillsInv' /\ AllContsKeep /\ AllKeep
  BY <1>1, <1>3, OnwardKillsInv, OnwardAllConts, OnwardAll DEF Base, HostInv, lifecycle
<1>8. StackInv' /\ MicroInv'
  BY <1>1, <1>7, StackSame, MicroSame DEF Base
<1>9. BootsTyped' /\ KillsTyped'
  BY <1>1 DEF Base, BootsTyped, KillsTyped, lifecycle
<1> QED BY <1>4, <1>5, <1>6, <1>7, <1>8, <1>9 DEF Base, HostInv

LEMMA CancelQueuedKeeps ==
  ASSUME KernelAssumption, Base, NEW j \in Jobs, CancelQueued(j)
  PROVE  Base'
<1>1. PICK n \in DOMAIN queue : queue[n] = j /\ queue' = RemoveAt(queue, n)
  BY DEF CancelQueued
<1>2. /\ Callable /\ stopped' = stopped \union {j}
      /\ UNCHANGED <<state, worker, job, active, jobTimer, cancelTimer, lifecycle, stack, micro,
                     effects, live, cell, calls, faults>>
  BY DEF CancelQueued
<1>3. /\ outcome' \in [Jobs -> Settled \cup {"idle", "pending", "refused"}]
      /\ outcome'[j] = "cancelled" /\ \A x \in Jobs : x # j => outcome'[x] = outcome[x]
  BY DEF CancelQueued, Settle, Base, HostInv, HostTyped, Settled
<1>4. /\ queue' \in Seq(Jobs)
      /\ \A i \in DOMAIN queue' : \E m \in DOMAIN queue : /\ m = (IF i < n THEN i ELSE i + 1)
                                                          /\ queue'[i] = queue[m]
  <2>1. queue \in Seq(Jobs) /\ n \in 1..Len(queue)
    BY DEF Base, HostInv, HostTyped
  <2>2. /\ queue' \in Seq(Jobs) /\ Len(queue') = Len(queue) - 1
        /\ \A i \in 1..(Len(queue) - 1) : queue'[i] = IF i < n THEN queue[i] ELSE queue[i + 1]
    BY <1>1, <2>1, Cut
  <2> QED BY <2>1, <2>2
<1>5. /\ j \in Elements(queue) /\ outcome[j] = "pending" /\ j # job
      /\ (\A k \in DOMAIN kills : kills[k].job # j) /\ \A e \in effects : e.job # j
  <2>1. j \in Elements(queue)
    BY <1>1 DEF Elements, ToSet
  <2> QED BY <2>1, Queued DEF Base
<1>6. j \notin Elements(queue') /\ Elements(queue') \subseteq Elements(queue)
  BY <1>1, <1>4 DEF Base, HostInv, HostTyped, Owned, Elements, ToSet
<1>7. KillsOnward({})
  <2>1. ASSUME NEW k \in DOMAIN kills, kills[k].job # None
        PROVE  outcome'[kills[k].job] = outcome[kills[k].job]
    <3>1. kills[k].job \in Jobs
      BY <2>1, KillTyped DEF Base, JobOrNone
    <3> QED BY <1>3, <1>5, <2>1, <3>1
  <2> QED BY <1>2, <2>1 DEF KillsOnward, SameKill, lifecycle
<1>8. HostOnward
  BY <1>2, <1>3, <1>6 DEF HostOnward, QueueOnward, SameJob, Settled
<1>9. HostTyped' /\ Timed'
  BY <1>2, <1>3, <1>4 DEF Base, HostInv, HostTyped, Timed
<1>10. Owned'
  <2>1. \A i \in DOMAIN queue' : outcome'[queue'[i]] = "pending" /\ queue'[i] # job'
    BY <1>2, <1>3, <1>4, <1>6 DEF Base, HostInv, HostTyped, Owned, Elements, ToSet
  <2>2. \A a, b \in DOMAIN queue' : a # b => queue'[a] # queue'[b]
    <3> SUFFICES ASSUME NEW a \in DOMAIN queue', NEW b \in DOMAIN queue', a # b
                 PROVE  queue'[a] # queue'[b]
      OBVIOUS
    <3>1. a \in Nat /\ b \in Nat /\ n \in Nat
      BY <1>4 DEF Base, HostInv, HostTyped
    <3> QED BY <3>1, <1>4 DEF Base, HostInv, Owned
  <2>3. job' # None => outcome'[job'] = "pending"
    BY <1>2, <1>3, <1>5 DEF Base, HostInv, HostTyped, Owned, JobOrNone
  <2> QED BY <2>1, <2>2, <2>3 DEF Owned
<1>11. EffectsHeld'
  BY <1>2, <1>3, <1>5 DEF Base, HostInv, HostTyped, EffectsHeld, Tasks, lifecycle
<1>12. StopsHeld'
  BY <1>2, <1>3 DEF Base, HostInv, HostTyped, StopsHeld, StopHeld, lifecycle
<1>13. KillsInv' /\ AllContsKeep /\ AllKeep
  BY <1>2, <1>7, <1>8, OnwardKillsInv, OnwardAllConts, OnwardAll DEF Base, HostInv, lifecycle
<1>14. StackInv' /\ MicroInv'
  BY <1>2, <1>13, StackSame, MicroSame DEF Base
<1>15. BootsTyped' /\ KillsTyped'
  BY <1>2 DEF Base, BootsTyped, KillsTyped, lifecycle
<1> QED BY <1>9, <1>10, <1>11, <1>12, <1>13, <1>14, <1>15 DEF Base, HostInv

LEMMA ExecKeeps ==
  ASSUME KernelAssumption, Base, NEW j \in Jobs, Exec(j)
  PROVE  Base'
<1>1. /\ Callable /\ outcome[j] = "idle"
      /\ UNCHANGED <<state, worker, job, active, jobTimer, cancelTimer, lifecycle, micro, world>>
  BY DEF Exec
<1>2. \/ outcome' = [outcome EXCEPT ![j] = "refused"] /\ UNCHANGED <<queue, stack>>
      \/ /\ outcome' = [outcome EXCEPT ![j] = "pending"] /\ queue' = Append(queue, j)
         /\ \E fr \in Frames : Plainly(fr) /\ ~fr.open /\ stack' = <<fr>> \o stack
  <2>1. "dispatch" \in Nexts /\ "dispatch" \in Starts
    BY DEF Nexts, Starts
  <2>2. PICK a \in Frames : a = StartThen("dispatch") /\ Plainly(a) /\ ~a.open
    BY <2>1, StartKillFrames DEF Plainly, Plain
  <2>3. PICK b \in Frames : b = Frame("dispatch") /\ Plainly(b) /\ ~b.open
    BY <2>1, PlainFrames DEF Plainly, Plain, StartKinds
  <2> QED BY <2>2, <2>3 DEF Exec
<1>3. /\ outcome' \in [Jobs -> Settled \cup {"idle", "pending", "refused"}]
      /\ outcome'[j] \in {"refused", "pending"} /\ \A x \in Jobs : x # j => outcome'[x] = outcome[x]
  BY <1>2 DEF Base, HostInv, HostTyped
<1>4. /\ j # job /\ j \notin Elements(queue) /\ (\A k \in DOMAIN kills : kills[k].job # j)
      /\ \A e \in effects : e.job # j
  <2>1. j # job /\ j \notin Elements(queue) /\ \A e \in effects : e.job # j
    BY <1>1, Queued DEF Base, HostInv, Owned, EffectsHeld, KernelAssumption
  <2>2. \A k \in DOMAIN kills : kills[k].job # j
    BY <1>1 DEF Base, KillsInv, KillHolds, KernelAssumption
  <2> QED BY <2>1, <2>2
<1>5. /\ queue' \in Seq(Jobs) /\ Elements(queue') \subseteq Elements(queue) \cup {j}
      /\ Owned'
  <2>1. CASE outcome' = [outcome EXCEPT ![j] = "refused"] /\ UNCHANGED queue
    BY <1>1, <1>3, <1>4, <2>1 DEF Base, HostInv, HostTyped, Owned, JobOrNone, Elements, ToSet
  <2>2. CASE outcome' = [outcome EXCEPT ![j] = "pending"] /\ queue' = Append(queue, j)
    <3>1. /\ queue \in Seq(Jobs) /\ queue' \in Seq(Jobs) /\ Len(queue') = Len(queue) + 1
          /\ queue'[Len(queue) + 1] = j /\ \A i \in 1..Len(queue) : queue'[i] = queue[i]
          /\ Elements(queue') = Elements(queue) \cup {j}
      BY <2>2, Appended DEF Base, HostInv, HostTyped
    <3>2. ASSUME NEW i \in DOMAIN queue'
          PROVE  \/ i \in DOMAIN queue /\ queue'[i] = queue[i] /\ queue[i] \in Jobs /\ queue[i] # j
                 \/ i = Len(queue) + 1 /\ queue'[i] = j
      BY <3>1, <1>4 DEF Elements, ToSet
    <3>3. \A i \in DOMAIN queue' : outcome'[queue'[i]] = "pending" /\ queue'[i] # job'
      BY <1>1, <1>3, <1>4, <2>2, <3>2 DEF Base, HostInv, HostTyped, Owned
    <3>4. \A a, b \in DOMAIN queue' : a # b => queue'[a] # queue'[b]
      BY <3>2 DEF Base, HostInv, Owned
    <3>5. job' # None => outcome'[job'] = "pending"
      BY <1>1, <1>3, <1>4 DEF Base, HostInv, HostTyped, Owned, JobOrNone
    <3> QED BY <3>1, <3>3, <3>4, <3>5 DEF Owned
  <2> QED BY <1>2, <2>1, <2>2
<1>6. KillsOnward({})
  <2>1. ASSUME NEW k \in DOMAIN kills, kills[k].job # None
        PROVE  outcome'[kills[k].job] = outcome[kills[k].job]
    <3>1. kills[k].job \in Jobs
      BY <2>1, KillTyped DEF Base, JobOrNone
    <3> QED BY <1>3, <1>4, <2>1, <3>1
  <2> QED BY <1>1, <2>1 DEF KillsOnward, SameKill, lifecycle, world
<1>7. HostOnward
  BY <1>1, <1>3, <1>5 DEF HostOnward, QueueOnward, SameJob
<1>8. HostTyped' /\ Timed'
  BY <1>1, <1>3, <1>5 DEF Base, HostInv, HostTyped, Timed, world
<1>9. EffectsHeld'
  BY <1>1, <1>3, <1>4 DEF Base, HostInv, HostTyped, EffectsHeld, Tasks, lifecycle, world
<1>10. StopsHeld'
  <2>1. j \notin stopped
    BY <1>1 DEF Base, HostInv, StopsHeld, StopHeld
  <2> QED BY <1>1, <1>3, <2>1 DEF Base, HostInv, HostTyped, StopsHeld, StopHeld, lifecycle, world
<1>11. KillsInv' /\ AllContsKeep /\ AllKeep
  BY <1>1, <1>6, <1>7, OnwardKillsInv, OnwardAllConts, OnwardAll DEF Base, HostInv, lifecycle
<1>12. StackInv' /\ MicroInv'
  BY <1>1, <1>2, <1>11, StackSame, StackPushed, MicroSame DEF Base
<1>13. BootsTyped' /\ KillsTyped'
  BY <1>1 DEF Base, BootsTyped, KillsTyped, lifecycle, world
<1> QED BY <1>5, <1>8, <1>9, <1>10, <1>11, <1>12, <1>13 DEF Base, HostInv

-------------------------------------------------------------------------------
(* The active job. *)

\* The first queued job becomes the active one.
LEMMA DispatchKeeps ==
  ASSUME KernelAssumption, Base, Dispatch
  PROVE  Base'
<1>1. /\ stack # <<>>
      /\ UNCHANGED <<worker, jobTimer, cancelTimer, lifecycle, micro, outcome, world>>
  BY DEF Dispatch, Top
<1>2. CASE Return(<<>>) /\ UNCHANGED <<state, job, active, queue>>
  <2>1. HostInv' /\ KillsInv' /\ AllKeep /\ AllContsKeep
    BY <1>1, <1>2, Still DEF Base, JobVars, KillsStill, lifecycle, world
  <2>2. StackInv' /\ MicroInv'
    BY <1>1, <1>2, <2>1, StackPopped, MicroSame, AllKeepTop DEF Base
  <2>3. BootsTyped' /\ KillsTyped'
    BY <1>1, <1>2 DEF Base, BootsTyped, KillsTyped, lifecycle, world
  <2> QED BY <2>1, <2>2, <2>3 DEF Base
<1>3. CASE ~(state # "ready" \/ job # None \/ queue = <<>>)
  <2>1. /\ job = None /\ queue # <<>> /\ job' = Head(queue) /\ active' = [Idle EXCEPT !.job = Head(queue)]
        /\ queue' = Tail(queue) /\ state' = "busy"
        /\ Return(<<[Open(Frame("dispatched"), TRUE) EXCEPT !.job = Head(queue), !.ref = worker]>>)
    BY <1>3 DEF Dispatch
  <2>2. /\ queue \in Seq(Jobs) /\ queue' \in Seq(Jobs) /\ Head(queue) = queue[1] /\ 1 \in DOMAIN queue
        /\ \A i \in DOMAIN queue' : i + 1 \in DOMAIN queue /\ i + 1 # 1 /\ queue'[i] = queue[i + 1]
    BY <2>1 DEF Base, HostInv, HostTyped
  <2>3. PICK j \in Jobs : j = Head(queue)
    BY <2>2
  <2>4. /\ j \in Elements(queue) /\ outcome[j] = "pending" /\ j # job /\ j \notin stopped
        /\ (\A k \in DOMAIN kills : kills[k].job # j) /\ \A e \in effects : e.job # j
    <3>1. j \in Elements(queue)
      BY <2>2, <2>3 DEF Elements, ToSet
    <3> QED BY <3>1, Queued DEF Base
  <2>5. j \notin Elements(queue') /\ Elements(queue') \subseteq Elements(queue)
    BY <2>2, <2>3 DEF Base, HostInv, Owned, Elements, ToSet
  <2>6. active' \in Protocols /\ active'.job = j /\ ~active'.hard /\ ~active'.cancel
    BY <2>1, <2>3 DEF Idle, Protocols, JobOrNone
  <2>7. HostOnward /\ KillsOnward({})
    BY <1>1, <2>1, <2>3, <2>4, <2>5
       DEF HostOnward, QueueOnward, KillsOnward, SameKill, lifecycle, world
  <2>8. HostTyped'
    BY <1>1, <2>1, <2>2, <2>3, <2>6 DEF Base, HostInv, HostTyped, JobOrNone, world
  <2>9. Owned'
    <3>1. \A i \in DOMAIN queue' : outcome'[queue'[i]] = "pending" /\ queue'[i] # job'
      BY <1>1, <2>1, <2>2, <2>3 DEF Base, HostInv, Owned
    <3>2. \A a, b \in DOMAIN queue' : a # b => queue'[a] # queue'[b]
      <4> SUFFICES ASSUME NEW a \in DOMAIN queue', NEW b \in DOMAIN queue', a # b
                   PROVE  queue'[a] # queue'[b]
        OBVIOUS
      <4>1. a + 1 # b + 1
        BY <2>2
      <4> QED BY <4>1, <2>2 DEF Base, HostInv, Owned
    <3> QED BY <1>1, <2>1, <2>3, <2>4, <3>1, <3>2 DEF Owned
  <2>10. Timed'
    BY <1>1, <2>1, <2>6 DEF Base, HostInv, Timed
  <2>11. EffectsHeld' /\ StopsHeld'
    <3>1. (\A e \in effects : e.job # job) /\ job \notin stopped
      BY <2>1 DEF Base, HostInv, HostTyped, Tasks, KernelAssumption
    <3>2. EffectsHeld'
      BY <1>1, <3>1 DEF Base, HostInv, EffectsHeld, lifecycle, world
    <3>3. StopsHeld'
      BY <1>1, <3>1 DEF Base, HostInv, StopsHeld, StopHeld, lifecycle, world
    <3> QED BY <3>2, <3>3
  <2>12. KillsInv' /\ AllContsKeep /\ AllKeep
    BY <1>1, <2>7, OnwardKillsInv, OnwardAllConts, OnwardAll DEF Base, HostInv, lifecycle
  <2>13. StackInv'
    <3>1. PICK fr : fr = [Open(Frame("dispatched"), TRUE) EXCEPT !.job = Head(queue), !.ref = worker]
      OBVIOUS
    <3>5. worker \in Nat /\ Head(queue) \in JobOrNone
      BY <2>3 DEF Base, BootsTyped, JobOrNone
    <3>2. fr \in Frames /\ fr.f = "dispatched" /\ fr.job = j
      BY <2>3, <3>1, <3>5 DEF Frames, FrameKinds, Frame, Open, Nexts
    <3>3. FrameHolds(fr)'
      BY <1>1, <2>1, <2>3, <2>4, <2>5, <2>6, <3>2
         DEF FrameHolds, JobKinds, KillKinds, StartKinds, HardKinds, Elements
    <3>4. \A g \in Frames : FrameHolds(g) => Apart(g, fr)
      BY <2>4, <3>2 DEF FrameHolds, Apart, JobKinds, KillKinds, HardKinds
    <3> QED BY <1>1, <2>1, <2>12, <3>1, <3>2, <3>3, <3>4, StackReplaced, AllKeepTop
            DEF Base, OpenKinds
  <2>14. MicroInv' /\ BootsTyped' /\ KillsTyped'
    BY <1>1, <2>1, <2>12, MicroSame DEF Base, BootsTyped, KillsTyped, lifecycle, world
  <2> QED BY <2>8, <2>9, <2>10, <2>11, <2>12, <2>13, <2>14 DEF Base, HostInv
<1> QED BY <1>2, <1>3 DEF Dispatch

LEMMA PostExecKeeps ==
  ASSUME KernelAssumption, Base, PostExec
  PROVE  Base'
<1> DEFINE fr == Head(stack)
<1>1. /\ stack # <<>> /\ fr.f = "dispatched" /\ Return(<<>>)
      /\ UNCHANGED <<state, worker, job, active, queue, cancelTimer, lifecycle, micro, outcome,
                     effects, live, stopped, calls, faults>>
      /\ \/ StillCurrent(fr) /\ jobTimer' = fr.job /\ cell' = [cell EXCEPT ![fr.ref] = fr.job]
         \/ UNCHANGED <<jobTimer, cell>>
  BY DEF PostExec, Top
<1>2. fr \in Frames /\ FrameHolds(fr) /\ fr.job \in Jobs
  BY <1>1, TopFrame DEF Base, FrameHolds, JobKinds
<1> HIDE DEF fr
<1>3. jobTimer' = jobTimer \/ (jobTimer' = job /\ fr.job = job /\ ~active.hard)
  BY <1>1, <1>2 DEF StillCurrent, FrameHolds
<1>4. KillsOnward({})
  BY <1>1 DEF KillsOnward, SameKill, lifecycle
<1>5. HostInv'
  <2>1. HostTyped' /\ Owned' /\ EffectsHeld' /\ StopsHeld'
    BY <1>1, <1>3 DEF Base, HostInv, HostTyped, Owned, EffectsHeld, StopsHeld, StopHeld, lifecycle
  <2>2. Timed'
    BY <1>1, <1>3 DEF Base, HostInv, Timed
  <2> QED BY <2>1, <2>2 DEF HostInv
<1>6. KillsInv'
  BY <1>1 DEF Base, KillsInv, KillHolds, lifecycle, Elements
<1>7. FramesKeep(fr)
  <2> SUFFICES ASSUME NEW g \in Frames, g.f \in OpenKinds, FrameHolds(g), Apart(g, fr)
               PROVE  FrameHolds(g)'
    BY DEF FramesKeep
  <2>1. g.f \in HardKinds /\ g.job = job => jobTimer' = jobTimer
    BY <1>1, <1>3 DEF Apart
  <2> QED BY <1>1, <2>1 DEF FrameHolds, lifecycle, Elements, EffectsOf
<1>8. StackInv' /\ MicroInv'
  BY <1>1, <1>4, <1>7, StackPopped, MicroSame, OnwardAllConts DEF Base, lifecycle, fr
<1>9. BootsTyped' /\ KillsTyped'
  <2>1. cell' \in Seq(JobOrNone) /\ Len(cell') = Len(cell) /\ DOMAIN cell' = DOMAIN cell
    <3>1. CASE cell' = [cell EXCEPT ![fr.ref] = fr.job]
      <4>1. cell \in Seq(JobOrNone) /\ fr.job \in JobOrNone
        BY <1>2 DEF Base, BootsTyped, JobOrNone
      <4>2. CASE fr.ref \in DOMAIN cell
        BY <3>1, <4>1, <4>2, Updated
      <4>3. CASE fr.ref \notin DOMAIN cell
        <5>1. cell' = cell
          BY <3>1, <4>1, <4>3
        <5> QED BY <4>1, <5>1
      <4> QED BY <4>2, <4>3
    <3>2. CASE UNCHANGED cell
      BY <3>2 DEF Base, BootsTyped
    <3> QED BY <1>1, <3>1, <3>2
  <2> QED BY <1>1, <2>1 DEF Base, BootsTyped, KillsTyped, lifecycle
<1> QED BY <1>5, <1>6, <1>8, <1>9 DEF Base

LEMMA BridgeRequestKeeps ==
  ASSUME KernelAssumption, Base, BridgeRequest
  PROVE  Base'
<1>1. /\ Executing
      /\ UNCHANGED <<state, worker, job, queue, jobTimer, cancelTimer, lifecycle, micro, outcome,
                     live, cell, stopped, calls, faults>>
  BY DEF BridgeRequest
<1>2. job \in Jobs /\ outcome[job] = "pending" /\ stack = <<>>
  BY <1>1, ExecutingJob
<1>3. BootsTyped' /\ KillsTyped'
  BY <1>1 DEF Base, BootsTyped, KillsTyped, lifecycle
<1>4. CASE stack' = <<KillThen("none")>> /\ UNCHANGED <<active, effects>>
  <2>1. HostInv' /\ KillsInv' /\ AllContsKeep
    BY <1>1, <1>4, Still DEF Base, JobVars, KillsStill, lifecycle
  <2>2. KillThen("none") \in Frames /\ KillThen("none").f = "kill" /\ ~KillThen("none").open
    BY StartKillFrames DEF Nexts
  <2>3. StackInv' /\ MicroInv'
    BY <1>1, <1>4, <2>1, <2>2, PlainHolds, StackFresh, MicroSame DEF Base, Plainly, Plain, StartKinds
  <2> QED BY <1>3, <2>1, <2>3 DEF Base
<1>5. ASSUME active' = [active EXCEPT !.seq = @ + 1],
             effects' = effects \union {[job |-> job, seq |-> active.seq]}, UNCHANGED stack
      PROVE  Base'
  <2>1. PICK t \in Tasks : t.job = job /\ effects' = effects \union {t}
    BY <1>2, <1>5 DEF Tasks, Base, HostInv, HostTyped, Protocols
  <2>2. /\ active' \in Protocols /\ active'.job = active.job /\ active'.cancel = active.cancel
        /\ active'.hard = active.hard
    BY <1>5 DEF Base, HostInv, HostTyped, Protocols
  <2>3. KillsOnward({})
    <3>1. \A k \in DOMAIN kills : t \notin kills[k].tasks
      BY <1>2, <2>1 DEF Base, KillsInv, KillHolds, KernelAssumption
    <3> QED BY <1>1, <2>1, <3>1 DEF KillsOnward, SameKill, lifecycle
  <2>4. HostOnward
    BY <1>1, <2>2 DEF HostOnward, QueueOnward, SameJob
  <2>5. HostTyped' /\ Owned' /\ EffectsHeld'
    BY <1>1, <1>2, <2>1, <2>2 DEF Base, HostInv, HostTyped, Owned, EffectsHeld, lifecycle
  <2>6. StopsHeld' /\ Timed'
    BY <1>1, <2>2 DEF Base, HostInv, StopsHeld, StopHeld, Timed, lifecycle
  <2>7. KillsInv' /\ AllContsKeep
    BY <1>1, <2>3, <2>4, OnwardKillsInv, OnwardAllConts DEF Base, HostInv, lifecycle
  <2>8. StackInv' /\ MicroInv'
    BY <1>1, <1>2, <1>5, <2>7, StackEmpty, MicroSame DEF Base
  <2> QED BY <1>3, <2>5, <2>6, <2>7, <2>8 DEF Base, HostInv
<1> QED BY <1>4, <1>5 DEF BridgeRequest

LEMMA DeferKeeps ==
  ASSUME KernelAssumption, Base, Defer
  PROVE  Base'
<1>1. /\ stack # <<>> /\ Head(stack).f = "defer" /\ Return(<<>>) /\ live' = live \ {Head(stack).ref}
      /\ active' = active \/ active' = [active EXCEPT !.deferred = Head(stack).to]
      /\ UNCHANGED <<state, worker, job, queue, jobTimer, cancelTimer, lifecycle, micro, outcome,
                     effects, cell, stopped, calls, faults>>
  BY DEF Defer, Top
<1>2. Head(stack).to \in Settled
  BY <1>1, TopFrame DEF Base, FrameHolds
<1>3. /\ active' \in Protocols /\ active'.job = active.job /\ active'.cancel = active.cancel
      /\ active'.hard = active.hard
  BY <1>1, <1>2 DEF Base, HostInv, HostTyped, Protocols
<1>4. HostOnward /\ KillsOnward({})
  BY <1>1, <1>3 DEF HostOnward, QueueOnward, SameJob, KillsOnward, SameKill, lifecycle
<1>5. HostTyped' /\ Owned' /\ EffectsHeld'
  BY <1>1, <1>3 DEF Base, HostInv, HostTyped, Owned, EffectsHeld, lifecycle
<1>6. StopsHeld' /\ Timed'
  BY <1>1, <1>3 DEF Base, HostInv, StopsHeld, StopHeld, Timed, lifecycle
<1>7. KillsInv' /\ AllContsKeep /\ AllKeep
  BY <1>1, <1>4, OnwardKillsInv, OnwardAllConts, OnwardAll DEF Base, HostInv, lifecycle
<1>8. StackInv' /\ MicroInv'
  BY <1>1, <1>7, StackPopped, MicroSame, AllKeepTop DEF Base
<1>9. BootsTyped' /\ KillsTyped'
  BY <1>1 DEF Base, BootsTyped, KillsTyped, lifecycle
<1> QED BY <1>5, <1>6, <1>7, <1>8, <1>9 DEF Base, HostInv

\* One job is settled: the active one, and the host lets go of it.
LEMMA ReleaseKeeps ==
  ASSUME KernelAssumption, Base, NEW o \in Settled, Settle({job}, o), job' = None, active' = Idle,
         EffectsOf(job) = {}, active.cancel => o = "cancelled",
         jobTimer' = None, cancelTimer' = None, UNCHANGED <<queue, kills, effects, stopped>>,
         DOMAIN boots \subseteq DOMAIN boots'
  PROVE  HostInv' /\ KillsInv' /\ AllKeep /\ AllContsKeep
<1>1. /\ outcome' \in [Jobs -> Settled \cup {"idle", "pending", "refused"}]
      /\ \A j \in Jobs : outcome'[j] = IF j = job THEN o ELSE outcome[j]
  BY DEF Settle, Base, HostInv, HostTyped
<1>2. Idle \in Protocols /\ Idle.job = None /\ ~Idle.hard /\ ~Idle.cancel
  BY DEF Idle, Protocols, JobOrNone
<1>3. \A k \in DOMAIN kills : kills[k].job # None => outcome'[kills[k].job] = outcome[kills[k].job]
  <2> SUFFICES ASSUME NEW k \in DOMAIN kills, kills[k].job # None
               PROVE  outcome'[kills[k].job] = outcome[kills[k].job]
    OBVIOUS
  <2>1. kills[k].job \in Jobs /\ kills[k].job # job
    BY KillTyped DEF Base, JobOrNone, KillsInv, KillHolds
  <2> QED BY <1>1, <2>1
<1>4. KillsOnward({})
  BY <1>3 DEF KillsOnward, SameKill
<1>5. HostOnward
  BY <1>1 DEF HostOnward, QueueOnward, Settled
<1>6. HostTyped' /\ Timed'
  BY <1>1, <1>2 DEF Base, HostInv, HostTyped, JobOrNone, Timed
<1>7. Owned'
  BY <1>1 DEF Base, HostInv, HostTyped, Owned, KernelAssumption
<1>8. EffectsHeld'
  <2>1. \A e \in effects : e.job \in Jobs /\ e.job # job
    BY DEF Base, HostInv, HostTyped, Tasks, EffectsOf
  <2> QED BY <1>1, <2>1 DEF Base, HostInv, EffectsHeld
<1>9. StopsHeld'
  <2> SUFFICES ASSUME NEW j \in stopped
               PROVE  StopHeld(j)'
    BY DEF StopsHeld
  <2>1. j \in Jobs /\ StopHeld(j)
    BY DEF Base, HostInv, HostTyped, StopsHeld
  <2>2. CASE j # job
    BY <1>1, <2>1, <2>2 DEF StopHeld
  <2>3. CASE j = job
    <3>1. outcome[j] = "pending"
      BY <2>1, <2>3 DEF Base, HostInv, Owned, KernelAssumption
    <3>2. \A k \in DOMAIN kills : kills[k].job # j
      BY <2>1, <2>3 DEF Base, KillsInv, KillHolds, KernelAssumption
    <3>3. o = "cancelled"
      BY <2>1, <3>1, <3>2 DEF StopHeld
    <3> QED BY <1>1, <2>1, <2>3, <3>3 DEF StopHeld
  <2> QED BY <2>2, <2>3
<1>10. KillsInv'
  BY <1>4, <1>5, OnwardKillsInv DEF Base, HostInv
<1> QED BY <1>4, <1>5, <1>6, <1>7, <1>8, <1>9, <1>10, OnwardAll, OnwardAllConts DEF HostInv

\* finish() goes on to start the next job.
LEMMA NextReplaces ==
  ASSUME KernelAssumption, Base, stack # <<>>, Return(<<Open(Frame("next"), TRUE)>>), AllKeep
  PROVE  StackInv'
<1>1. PICK fr \in Frames : fr = Open(Frame("next"), TRUE) /\ fr.f = "next"
  BY NextFrames
<1>2. FrameHolds(fr)' /\ \A g : Apart(g, fr)
  BY <1>1, PlainHolds DEF Plainly, Plain, StartKinds
<1> QED BY <1>1, <1>2, StackReplaced, AllKeepTop DEF Base, OpenKinds

LEMMA FinishKeeps ==
  ASSUME KernelAssumption, Base, Finish
  PROVE  Base'
<1>1. /\ stack # <<>> /\ Head(stack).f = "finish"
      /\ UNCHANGED <<kills, killPromise, boots, micro, effects, cell, stopped, calls, faults>>
  BY DEF Finish, Top
<1>2. CASE Return(<<>>) /\ UNCHANGED <<host, bootEpoch, bootPromise, outcome, live>>
  <2>1. HostInv' /\ KillsInv' /\ AllKeep /\ AllContsKeep
    BY <1>1, <1>2, Still DEF Base, JobVars, KillsStill, host
  <2>2. StackInv' /\ MicroInv'
    BY <1>1, <1>2, <2>1, StackPopped, MicroSame, AllKeepTop DEF Base
  <2>3. BootsTyped' /\ KillsTyped'
    BY <1>1, <1>2 DEF Base, BootsTyped, KillsTyped, host
  <2> QED BY <2>1, <2>2, <2>3 DEF Base
<1>3. CASE Head(stack).ref = worker
  <2>1. /\ job' = None /\ active' = Idle /\ worker' = 0 /\ jobTimer' = None /\ cancelTimer' = None
        /\ bootEpoch' = bootEpoch + 1 /\ bootPromise' = 0 /\ live' = live \ {Head(stack).ref}
        /\ state' = "ready" /\ Settle({job}, Head(stack).to) /\ UNCHANGED queue
        /\ Return(<<Open(Frame("next"), TRUE)>>)
    BY <1>3 DEF Finish, ClearTimers, Release, InvalidateBoot
  <2>2. /\ Head(stack).to \in Settled /\ EffectsOf(job) = {}
        /\ active.cancel => Head(stack).to = "cancelled"
    BY <1>1, TopFrame DEF Base, FrameHolds
  <2>3. HostInv' /\ KillsInv' /\ AllKeep /\ AllContsKeep
    BY <1>1, <2>1, <2>2, ReleaseKeeps
  <2>4. StackInv' /\ MicroInv'
    BY <1>1, <2>1, <2>3, NextReplaces, MicroSame DEF Base
  <2>5. BootsTyped' /\ KillsTyped'
    BY <1>1, <2>1 DEF Base, BootsTyped, KillsTyped
  <2> QED BY <2>3, <2>4, <2>5 DEF Base
<1> QED BY <1>2, <1>3 DEF Finish

LEMMA FinalizeHardCancellationKeeps ==
  ASSUME KernelAssumption, Base, FinalizeHardCancellation
  PROVE  Base'
<1>1. /\ stack # <<>> /\ Head(stack).f = "finalizeHard"
      /\ UNCHANGED <<queue, jobTimer, cancelTimer, kills, killPromise, boots, micro, world>>
  BY DEF FinalizeHardCancellation, Top
<1>2. CASE Return(<<>>) /\ UNCHANGED <<state, worker, job, active, bootEpoch, bootPromise, outcome>>
  <2>1. HostInv' /\ KillsInv' /\ AllKeep /\ AllContsKeep
    BY <1>1, <1>2, Still DEF Base, JobVars, KillsStill, world
  <2>2. StackInv' /\ MicroInv'
    BY <1>1, <1>2, <2>1, StackPopped, MicroSame, AllKeepTop DEF Base
  <2>3. BootsTyped' /\ KillsTyped'
    BY <1>1, <1>2 DEF Base, BootsTyped, KillsTyped, world
  <2> QED BY <2>1, <2>2, <2>3 DEF Base
<1>3. CASE active.job = Head(stack).job /\ job = Head(stack).job
  <2>1. /\ job' = None /\ active' = Idle /\ worker' = 0
        /\ bootEpoch' = bootEpoch + 1 /\ bootPromise' = 0
        /\ state' = "ready" /\ Settle({job}, "cancelled")
        /\ Return(<<Open(Frame("next"), TRUE)>>)
    BY <1>3 DEF FinalizeHardCancellation, Release, InvalidateBoot
  <2>2. EffectsOf(job) = {} /\ jobTimer = None /\ cancelTimer = None
    BY <1>1, <1>3, TopFrame DEF Base, FrameHolds, HardKinds
  <2>3. HostInv' /\ KillsInv' /\ AllKeep /\ AllContsKeep
    BY <1>1, <2>1, <2>2, ReleaseKeeps DEF Settled, world
  <2>4. StackInv' /\ MicroInv'
    BY <1>1, <2>1, <2>3, NextReplaces, MicroSame DEF Base
  <2>5. BootsTyped' /\ KillsTyped'
    BY <1>1, <2>1 DEF Base, BootsTyped, KillsTyped, world
  <2> QED BY <2>3, <2>4, <2>5 DEF Base
<1> QED BY <1>2, <1>3 DEF FinalizeHardCancellation

LEMMA HardTerminateKeeps ==
  ASSUME KernelAssumption, Base, HardTerminate
  PROVE  Base'
<1>1. PICK top : top = Head(stack)
  OBVIOUS
<1>2. /\ stack # <<>> /\ top.f = "hard" /\ live' = live \ {worker}
      /\ active' = IF active.job = top.job THEN [active EXCEPT !.hard = TRUE] ELSE active
      /\ Return(IF EffectsOf(top.job) = {} THEN <<HardFrame(top.job)>> ELSE <<>>)
      /\ UNCHANGED <<state, worker, job, queue, jobTimer, cancelTimer, lifecycle, micro, outcome,
                     effects, cell, stopped, calls, faults>>
  BY <1>1 DEF HardTerminate, Top
<1>3. /\ top \in Frames /\ FrameHolds(top) /\ top.job \in Jobs
      /\ top.job = job => active.cancel /\ jobTimer = None /\ cancelTimer = None
  BY <1>1, <1>2, TopFrame DEF Base, FrameHolds, JobKinds, HardKinds
<1>4. /\ active' \in Protocols /\ active'.job = job /\ active'.cancel = active.cancel
      /\ active'.hard => active.hard \/ top.job = job
  BY <1>2 DEF Base, HostInv, HostTyped, Protocols
<1>5. KillsOnward({})
  BY <1>2 DEF KillsOnward, SameKill, lifecycle
<1>6. HostInv'
  <2>1. HostTyped' /\ Owned' /\ EffectsHeld' /\ StopsHeld'
    BY <1>2, <1>4 DEF Base, HostInv, HostTyped, Owned, EffectsHeld, StopsHeld, StopHeld, lifecycle
  <2>2. Timed'
    BY <1>2, <1>3, <1>4 DEF Base, HostInv, Timed
  <2> QED BY <2>1, <2>2 DEF HostInv
<1>7. KillsInv'
  BY <1>2 DEF Base, KillsInv, KillHolds, lifecycle, Elements
<1>8. FramesKeep(top)
  <2> SUFFICES ASSUME NEW g \in Frames, g.f \in OpenKinds, FrameHolds(g), Apart(g, top)
               PROVE  FrameHolds(g)'
    BY DEF FramesKeep
  <2>1. g.f = "dispatched" /\ g.job = job => ~active'.hard
    BY <1>2, <1>4 DEF Apart, FrameHolds, HardKinds
  <2>2. g.f # "finish" /\ g.f # "finalizeHard"
    BY DEF OpenKinds
  <2> QED BY <1>2, <1>4, <2>1, <2>2 DEF FrameHolds, lifecycle, Elements, EffectsOf
<1>9. StackInv'
  <2>1. CASE Return(<<>>)
    BY <1>1, <1>2, <1>8, <2>1, StackPopped DEF Base
  <2>2. CASE EffectsOf(top.job) = {} /\ Return(<<HardFrame(top.job)>>)
    <3>1. PICK fr \in Frames : fr = HardFrame(top.job) /\ fr.f = "finalizeHard" /\ fr.job = top.job /\ ~fr.open
      <4>1. top.job \in JobOrNone /\ 0 \in Nat /\ "none" \in Settled \cup {"none"}
        BY <1>3 DEF JobOrNone
      <4> QED BY <4>1, EndFrames
    <3>2. FrameHolds(fr)'
      BY <1>2, <1>3, <1>4, <2>2, <3>1
         DEF FrameHolds, JobKinds, KillKinds, StartKinds, HardKinds, Elements, EffectsOf
    <3>3. \A g \in Frames : Apart(g, top) => Apart(g, fr)
      BY <1>2, <3>1 DEF Apart, HardKinds, KillKinds
    <3> QED BY <1>1, <1>2, <1>8, <2>2, <3>1, <3>2, <3>3, StackReplaced DEF Base
  <2> QED BY <1>2, <2>1, <2>2
<1>10. MicroInv'
  BY <1>2, <1>5, MicroSame, OnwardAllConts DEF Base, lifecycle
<1>11. BootsTyped' /\ KillsTyped'
  BY <1>2 DEF Base, BootsTyped, KillsTyped, lifecycle
<1> QED BY <1>6, <1>7, <1>9, <1>10, <1>11 DEF Base

-------------------------------------------------------------------------------
(* Kills. *)

\* The effects a kill has captured are no other's.
LEMMA KillEffects ==
  ASSUME KernelAssumption, Base, NEW k \in DOMAIN kills, NEW e \in effects, e.job = kills[k].job
  PROVE  e \in kills[k].tasks /\ kills[k].job # None
<1>1. e.job \in Jobs
  BY DEF Base, HostInv, HostTyped, Tasks
<1>2. e.job # job
  BY <1>1 DEF Base, KillsInv, KillHolds, KernelAssumption
<1>3. PICK l \in DOMAIN kills : e \in kills[l].tasks
  BY <1>2 DEF Base, HostInv, EffectsHeld
<1>4. e.job = kills[l].job
  BY <1>3 DEF Base, KillsInv, KillHolds
<1> QED BY <1>1, <1>3, <1>4 DEF Base, KillsInv, KernelAssumption

\* The crash of a job whose captured effects are over is published.
LEMMA CrashKeeps ==
  ASSUME KernelAssumption, Base, NEW k \in DOMAIN kills, kills[k].phase # "drain",
         kills[k].tasks \cap effects = {}, Settle({kills[k].job}, "crashed"),
         kills[k].job # None => outcome[kills[k].job] = "pending",
         UNCHANGED <<job, active, queue, jobTimer, cancelTimer, kills, effects, stopped>>
  PROVE  /\ HostInv' /\ KillsInv' /\ HostOnward /\ KillsOnward({k})
         /\ kills[k].job # None => outcome'[kills[k].job] = "crashed"
<1>1. /\ outcome' \in [Jobs -> Settled \cup {"idle", "pending", "refused"}]
      /\ \A j \in Jobs : outcome'[j] = IF j = kills[k].job THEN "crashed" ELSE outcome[j]
  BY DEF Settle, Base, HostInv, HostTyped, Settled
<1>2. kills[k].job \in JobOrNone
  BY KillTyped DEF Base
<1>3. kills[k].job # None => kills[k].job # job /\ kills[k].job \notin Elements(queue)
  BY DEF Base, KillsInv, KillHolds
<1>4. HostOnward
  BY <1>1 DEF HostOnward, QueueOnward, SameJob
<1>5. KillsOnward({k})
  <2>1. ASSUME NEW l \in DOMAIN kills, l # k, kills[l].job # None
        PROVE  outcome'[kills[l].job] = outcome[kills[l].job]
    <3>1. kills[l].job \in Jobs /\ kills[l].job # kills[k].job
      BY <2>1, KillTyped DEF Base, JobOrNone, KillsInv
    <3> QED BY <1>1, <3>1
  <2> QED BY <2>1 DEF KillsOnward, SameKill
<1>6. HostTyped' /\ Timed'
  BY <1>1 DEF Base, HostInv, HostTyped, Timed
<1>7. Owned'
  <2>1. \A i \in DOMAIN queue : queue[i] \in Jobs /\ (kills[k].job # None => queue[i] # kills[k].job)
    BY <1>3 DEF Base, HostInv, HostTyped, Elements, ToSet
  <2>2. \A i \in DOMAIN queue : outcome'[queue[i]] = "pending"
    BY <1>1, <2>1 DEF Base, HostInv, Owned, KernelAssumption
  <2>3. job # None => outcome'[job] = "pending"
    BY <1>1, <1>3 DEF Base, HostInv, HostTyped, Owned, JobOrNone
  <2> QED BY <2>2, <2>3 DEF Base, HostInv, Owned
<1>8. EffectsHeld'
  <2>1. \A e \in effects : e.job \in Jobs /\ e.job # kills[k].job
    BY KillEffects DEF Base, HostInv, HostTyped, Tasks
  <2> QED BY <1>1, <2>1 DEF Base, HostInv, EffectsHeld
<1>9. StopsHeld'
  BY <1>1 DEF Base, HostInv, HostTyped, StopsHeld, StopHeld
<1>10. KillsInv'
  <2>1. KillHolds(k)'
    <3>1. KillHolds(k)
      BY DEF Base, KillsInv
    <3>2. kills[k].job # None => kills[k].job \in Jobs /\ outcome'[kills[k].job] = "crashed"
      BY <1>1, <1>2 DEF JobOrNone
    <3> QED BY <3>1, <3>2 DEF KillHolds, Elements
  <2>2. \A l \in DOMAIN kills \ {k} : KillHolds(l)'
    BY <1>4, <1>5, OnwardKills DEF Base, HostInv
  <2> QED BY <2>1, <2>2 DEF Base, KillsInv
<1>11. kills[k].job # None => outcome'[kills[k].job] = "crashed"
  BY <1>1, <1>2 DEF JobOrNone
<1> QED BY <1>4, <1>5, <1>6, <1>7, <1>8, <1>9, <1>10, <1>11 DEF HostInv


LEMMA KillSettlesKeeps ==
  ASSUME KernelAssumption, Base, KillSettles
  PROVE  Base'
<1>1. PICK k : k = Head(micro).ref
  OBVIOUS
<1>2. /\ stack = <<>> /\ micro # <<>> /\ Head(micro).k = "killed"
      /\ killPromise' = IF killPromise = k THEN 0 ELSE killPromise
      /\ micro' = Tail(micro) \o kills[k].waiters
      /\ kills' = [kills EXCEPT ![k] = [phase |-> "over", job |-> None, tasks |-> {}, waiters |-> <<>>]]
      /\ UNCHANGED <<host, boots, bootEpoch, bootPromise, stack, outcome, world>>
  BY <1>1 DEF KillSettles, Continue
<1>3. k \in DOMAIN kills /\ kills[k].phase = "ended"
  BY <1>1, <1>2, HeadCont DEF Base, ContHolds
<1>4. /\ kills' \in Seq(KillRecords) /\ Len(kills') = Len(kills) /\ DOMAIN kills' = DOMAIN kills
      /\ kills'[k] = [phase |-> "over", job |-> None, tasks |-> {}, waiters |-> <<>>]
      /\ \A l \in DOMAIN kills : l # k => kills'[l] = kills[l]
  <2>1. [phase |-> "over", job |-> None, tasks |-> {}, waiters |-> <<>>] \in KillRecords
    BY DEF KillRecords, JobOrNone
  <2>2. kills \in Seq(KillRecords)
    BY DEF Base, KillsTyped
  <2> QED BY <1>2, <1>3, <2>1, <2>2, Updated
<1>5. KillsOnward({k}) /\ HostOnward
  BY <1>2, <1>4 DEF KillsOnward, SameKill, HostOnward, QueueOnward, SameJob, host, world
<1>6. kills[k].tasks \cap effects = {} /\ (kills[k].job # None => outcome[kills[k].job] = "crashed")
  BY <1>3 DEF Base, KillsInv, KillHolds
<1>7. HostTyped' /\ Owned' /\ Timed'
  BY <1>2 DEF Base, HostInv, HostTyped, Owned, Timed, host, world
<1>8. EffectsHeld'
  BY <1>2, <1>4, <1>6 DEF Base, HostInv, EffectsHeld, host, world
<1>9. StopsHeld'
  <2>1. \A j \in stopped : kills[k].job = j /\ outcome[j] = "pending" => FALSE
    BY <1>6 DEF Base, HostInv, HostTyped, KernelAssumption
  <2> QED BY <1>2, <1>4, <2>1 DEF Base, HostInv, StopsHeld, StopHeld, host, world
<1>10. KillsInv'
  <2>1. KillHolds(k)'
    BY <1>4 DEF KillHolds
  <2>2. \A l \in DOMAIN kills \ {k} : KillHolds(l)'
    BY <1>5, OnwardKills DEF Base, HostInv
  <2>3. \A a, b \in DOMAIN kills' : a # b /\ kills'[a].job # None => kills'[a].job # kills'[b].job
    BY <1>4 DEF Base, KillsInv
  <2> QED BY <1>4, <2>1, <2>2, <2>3 DEF KillsInv
<1>11. MicroInv'
  <2>1. kills[k].waiters \in Seq(Waiters)
    BY <1>3, KillTyped DEF Base
  <2>2. ContsKeep(Head(micro))
    <3> SUFFICES ASSUME NEW c \in Conts, ContHolds(c), Distinct(Head(micro), c)
                 PROVE  ContHolds(c)'
      BY DEF ContsKeep
    <3>1. c.k \in {"publish", "killed"} => c.ref \notin {k}
      BY <1>1, <1>2, <1>3 DEF ContHolds, Distinct
    <3> QED BY <1>2, <1>5, <3>1, OnwardConts
  <2> QED BY <1>2, <2>1, <2>2, MicroTaken DEF Base
<1>12. StackInv'
  BY <1>2, StackEmpty
<1>13. BootsTyped' /\ KillsTyped'
  BY <1>2, <1>3, <1>4 DEF Base, BootsTyped, KillsTyped, host, world
<1> QED BY <1>7, <1>8, <1>9, <1>10, <1>11, <1>12, <1>13 DEF Base, HostInv

LEMMA PublishCrashKeeps ==
  ASSUME KernelAssumption, Base, PublishCrash
  PROVE  Base'
<1>1. PICK k : k = Head(micro).ref
  OBVIOUS
<1>2. /\ stack = <<>> /\ micro # <<>> /\ Head(micro).k = "publish" /\ micro' = Tail(micro)
      /\ Settle({kills[k].job}, "crashed")
      /\ stack' = <<[Open(Frame("killEnd"), kills[k].job # None) EXCEPT !.ref = k]>>
      /\ UNCHANGED <<host, lifecycle, world>>
  BY <1>1 DEF PublishCrash, Continue
<1>3. /\ k \in DOMAIN kills /\ k \in Nat /\ kills[k].phase = "publish"
      /\ outcome[kills[k].job] = "pending" /\ kills[k].tasks \cap effects = {}
  BY <1>1, <1>2, HeadCont DEF Base, ContHolds, KillsInv, KillHolds, KillsTyped
<1>4. /\ HostInv' /\ KillsInv' /\ HostOnward /\ KillsOnward({k})
      /\ kills[k].job # None => outcome'[kills[k].job] = "crashed"
  BY <1>2, <1>3, CrashKeeps DEF host, lifecycle, world
<1>5. MicroInv'
  <2>1. ContsKeep(Head(micro))
    <3> SUFFICES ASSUME NEW c \in Conts, ContHolds(c), Distinct(Head(micro), c)
                 PROVE  ContHolds(c)'
      BY DEF ContsKeep
    <3>1. c.k \in {"publish", "killed"} => c.ref \notin {k}
      BY <1>1, <1>2, <1>3 DEF ContHolds, Distinct
    <3> QED BY <1>2, <1>4, <3>1, OnwardConts DEF lifecycle
  <2>2. micro' = Tail(micro) \o <<>> /\ <<>> \in Seq(Waiters)
    BY <1>2 DEF Base, MicroInv
  <2> QED BY <1>2, <2>1, <2>2, MicroTaken DEF Base
<1>6. StackInv'
  <2>1. PICK fr : fr = [Open(Frame("killEnd"), kills[k].job # None) EXCEPT !.ref = k]
    OBVIOUS
  <2>2. fr \in Frames /\ fr.f = "killEnd" /\ fr.ref = k
    BY <1>3, <2>1 DEF Frames, FrameKinds, Frame, Open, JobOrNone, Nexts
  <2>3. FrameHolds(fr)'
    BY <1>2, <1>3, <1>4, <2>2 DEF FrameHolds, JobKinds, KillKinds, StartKinds, HardKinds, lifecycle, world
  <2> QED BY <1>2, <2>1, <2>2, <2>3, StackFresh DEF OpenKinds
<1> QED BY <1>2, <1>4, <1>5, <1>6 DEF Base, BootsTyped, KillsTyped, host, lifecycle, world

LEMMA AwaitTasksKeeps ==
  ASSUME KernelAssumption, Base, AwaitTasks
  PROVE  Base'
<1>1. PICK top, k : top = Head(stack) /\ k = top.ref
  OBVIOUS
<1>2. /\ stack # <<>> /\ top.f = "killed"
      /\ UNCHANGED <<host, boots, bootEpoch, bootPromise, micro, world>>
  BY <1>1 DEF AwaitTasks, Top
<1>3. /\ top \in Frames /\ top.then \in Nexts /\ FrameHolds(top)
      /\ k \in DOMAIN kills /\ k \in 1..Len(kills) /\ k \in Nat /\ kills[k].phase = "sync"
      /\ kills[k].tasks \subseteq effects
      /\ kills[k].job # None => outcome[kills[k].job] = "pending"
  <2>1. top \in Frames /\ top.then \in Nexts /\ FrameHolds(top)
    BY <1>1, <1>2, TopFrame DEF Base
  <2>2. top.f \in KillKinds
    BY <1>2 DEF KillKinds
  <2> QED BY <1>1, <1>2, <2>1, <2>2 DEF FrameHolds, Base, KillsTyped
<1>4. BootsTyped'
  BY <1>2 DEF Base, BootsTyped, host, world
<1>5. \A c \in Conts : ContHolds(c) /\ c.k \in {"publish", "killed"} => c.ref \notin {k}
  BY <1>3 DEF ContHolds
<1>6. ASSUME kills[k].tasks # {}, killPromise' = k, Return(<<>>), UNCHANGED outcome,
             kills' = [kills EXCEPT ![k].phase = "drain", ![k].waiters = Await(top.then)]
      PROVE  Base'
  <2>1. Await(top.then) \in Seq(Waiters)
    BY <1>3, Awaited
  <2>2. /\ kills' \in Seq(KillRecords) /\ Len(kills') = Len(kills) /\ DOMAIN kills' = DOMAIN kills
        /\ kills'[k].phase = "drain" /\ kills'[k].job = kills[k].job /\ kills'[k].tasks = kills[k].tasks
        /\ \A l \in DOMAIN kills : l # k => kills'[l] = kills[l]
    BY <1>3, <1>6, <2>1, KillPhase DEF Base
  <2>3. HostOnward /\ KillsOnward({k})
    BY <1>2, <1>6, <2>2 DEF HostOnward, QueueOnward, SameJob, KillsOnward, SameKill, host, world
  <2>4. HostTyped' /\ Owned' /\ Timed'
    BY <1>2, <1>6 DEF Base, HostInv, HostTyped, Owned, Timed, host, world
  <2>5. EffectsHeld' /\ StopsHeld'
    BY <1>2, <1>6, <2>2 DEF Base, HostInv, EffectsHeld, StopsHeld, StopHeld, host, world
  <2>6. KillsInv'
    <3>1. kills[k].job # None
      BY <1>3, <1>6, KillTyped DEF Base, KillsInv, KillHolds, Tasks, KernelAssumption
    <3>2. KillHolds(k)'
      BY <1>2, <1>3, <1>6, <2>2, <3>1 DEF Base, KillsInv, KillHolds, host, world, Elements
    <3>3. \A l \in DOMAIN kills \ {k} : KillHolds(l)'
      BY <2>3, OnwardKills DEF Base, HostInv
    <3>4. \A a, b \in DOMAIN kills' : a # b /\ kills'[a].job # None => kills'[a].job # kills'[b].job
      BY <2>2 DEF Base, KillsInv
    <3> QED BY <2>2, <3>2, <3>3, <3>4 DEF KillsInv
  <2>7. FramesKeep(top)
    BY <1>1, <1>2, <2>3, OnwardFrames DEF KillKinds
  <2>8. StackInv'
    BY <1>1, <1>2, <1>6, <2>7, StackPopped DEF Base
  <2>9. MicroInv'
    <3>1. AllContsKeep
      BY <1>2, <1>5, <2>3, OnwardConts DEF AllContsKeep
    <3> QED BY <1>2, <3>1, MicroSame DEF Base
  <2>10. KillsTyped'
    BY <1>3, <1>6, <2>2 DEF Base, KillsTyped
  <2> QED BY <1>4, <2>4, <2>5, <2>6, <2>8, <2>9, <2>10 DEF Base, HostInv
<1>7. ASSUME kills[k].tasks = {}, Settle({kills[k].job}, "crashed"), UNCHANGED <<kills, killPromise>>,
             Return(<<[Open(Frame("killEnd"), kills[k].job # None)
                            EXCEPT !.then = top.then, !.ref = k]>>)
      PROVE  Base'
  <2>1. /\ HostInv' /\ KillsInv' /\ HostOnward /\ KillsOnward({k})
        /\ kills[k].job # None => outcome'[kills[k].job] = "crashed"
    BY <1>2, <1>3, <1>7, CrashKeeps DEF host, world
  <2>2. FramesKeep(top)
    BY <1>1, <1>2, <2>1, OnwardFrames DEF KillKinds
  <2>3. PICK fr : fr = [Open(Frame("killEnd"), kills[k].job # None) EXCEPT !.then = top.then, !.ref = k]
    OBVIOUS
  <2>4. fr \in Frames /\ fr.f = "killEnd" /\ fr.ref = k
    BY <1>3, <2>3 DEF Frames, FrameKinds, Frame, Open, JobOrNone
  <2>5. FrameHolds(fr)'
    BY <1>2, <1>3, <1>7, <2>1, <2>4 DEF FrameHolds, JobKinds, KillKinds, StartKinds, HardKinds, world
  <2>6. \A g \in Frames : Apart(g, top) => Apart(g, fr)
    BY <1>1, <1>2, <2>4 DEF Apart, KillKinds, HardKinds
  <2>7. StackInv'
    BY <1>1, <1>2, <1>7, <2>2, <2>3, <2>4, <2>5, <2>6, StackReplaced DEF Base, OpenKinds
  <2>8. MicroInv'
    <3>1. AllContsKeep
      BY <1>2, <1>5, <2>1, OnwardConts DEF AllContsKeep
    <3> QED BY <1>2, <3>1, MicroSame DEF Base
  <2> QED BY <1>4, <1>7, <2>1, <2>7, <2>8 DEF Base, KillsTyped
<1> QED BY <1>1, <1>6, <1>7 DEF AwaitTasks

LEMMA KillEndsKeeps ==
  ASSUME KernelAssumption, Base, KillEnds
  PROVE  Base'
<1>1. PICK top, k : top = Head(stack) /\ k = top.ref
  OBVIOUS
<1>2. /\ stack # <<>> /\ top.f = "killEnd" /\ Return(<<>>) /\ state' = "failed"
      /\ micro' = Append(micro, Cont("killed", k)) /\ killPromise' \in {k, killPromise}
      /\ \/ kills' = [kills EXCEPT ![k].phase = "ended", ![k].waiters = Await(top.then)]
         \/ kills' = [kills EXCEPT ![k].phase = "ended"]
      /\ UNCHANGED <<worker, job, active, queue, jobTimer, cancelTimer, boots, bootEpoch, bootPromise,
                     outcome, world>>
  BY <1>1 DEF KillEnds, Top
<1>3. /\ top \in Frames /\ top.then \in Nexts /\ FrameHolds(top)
      /\ k \in DOMAIN kills /\ k \in 1..Len(kills) /\ k \in Nat /\ kills[k].phase \in {"sync", "publish"}
      /\ kills[k].tasks \cap effects = {}
      /\ kills[k].job # None => outcome[kills[k].job] = "crashed"
  <2>1. top \in Frames /\ top.then \in Nexts /\ FrameHolds(top)
    BY <1>1, <1>2, TopFrame DEF Base
  <2>2. top.f \in KillKinds
    BY <1>2 DEF KillKinds
  <2> QED BY <1>1, <1>2, <2>1, <2>2 DEF FrameHolds, Base, KillsTyped
<1>4. /\ kills' \in Seq(KillRecords) /\ Len(kills') = Len(kills) /\ DOMAIN kills' = DOMAIN kills
      /\ kills'[k].phase = "ended" /\ kills'[k].job = kills[k].job /\ kills'[k].tasks = kills[k].tasks
      /\ \A l \in DOMAIN kills : l # k => kills'[l] = kills[l]
  <2>1. Await(top.then) \in Seq(Waiters)
    BY <1>3, Awaited
  <2> QED BY <1>2, <1>3, <2>1, KillPhase DEF Base
<1>5. HostOnward /\ KillsOnward({k})
  BY <1>2, <1>4 DEF HostOnward, QueueOnward, SameJob, KillsOnward, SameKill, world
<1>6. HostTyped' /\ Owned' /\ Timed'
  BY <1>2 DEF Base, HostInv, HostTyped, Owned, Timed, world
<1>7. EffectsHeld' /\ StopsHeld'
  BY <1>2, <1>4 DEF Base, HostInv, EffectsHeld, StopsHeld, StopHeld, world
<1>8. KillsInv'
  <2>1. KillHolds(k)'
    BY <1>2, <1>3, <1>4 DEF Base, KillsInv, KillHolds, world, Elements
  <2>2. \A l \in DOMAIN kills \ {k} : KillHolds(l)'
    BY <1>5, OnwardKills DEF Base, HostInv
  <2>3. \A a, b \in DOMAIN kills' : a # b /\ kills'[a].job # None => kills'[a].job # kills'[b].job
    BY <1>4 DEF Base, KillsInv
  <2> QED BY <1>4, <2>1, <2>2, <2>3 DEF KillsInv
<1>9. StackInv'
  <2>1. FramesKeep(top)
    BY <1>1, <1>2, <1>5, OnwardFrames DEF KillKinds
  <2> QED BY <1>1, <1>2, <2>1, StackPopped DEF Base
<1>10. MicroInv'
  <2>1. \A c \in Conts : ContHolds(c) /\ c.k \in {"publish", "killed"} => c.ref # k
    BY <1>3 DEF ContHolds
  <2>2. AllContsKeep
    BY <1>2, <1>5, <2>1, OnwardConts DEF AllContsKeep
  <2>3. PICK c \in Conts : c = Cont("killed", k) /\ c.k = "killed" /\ c.ref = k
    BY <1>3, NewConts
  <2>4. ContHolds(c)' /\ \A d \in Conts : ContHolds(d) => Distinct(c, d) /\ Distinct(d, c)
    BY <1>4, <1>3, <2>1, <2>3 DEF ContHolds, Distinct
  <2> QED BY <1>2, <2>2, <2>3, <2>4, MicroAppended DEF Base
<1>11. BootsTyped' /\ KillsTyped'
  BY <1>2, <1>3, <1>4 DEF Base, BootsTyped, KillsTyped, world
<1> QED BY <1>6, <1>7, <1>8, <1>9, <1>10, <1>11 DEF Base, HostInv

LEMMA PerformKillKeeps ==
  ASSUME KernelAssumption, Base, PerformKill
  PROVE  Base'
<1>1. PICK top, n : top = Head(stack) /\ n = Len(kills) + 1
  OBVIOUS
<1>2. PICK r : r = [phase |-> "sync", job |-> job, tasks |-> EffectsOf(job), waiters |-> <<>>]
  OBVIOUS
<1>3. /\ stack # <<>> /\ kills' = Append(kills, r)
      /\ jobTimer' = None /\ cancelTimer' = None /\ job' = None /\ active' = Idle /\ worker' = 0
      /\ bootEpoch' = bootEpoch + 1 /\ bootPromise' = 0 /\ state' = "draining" /\ queue' = <<>>
      /\ live' = live \ {worker} /\ Settle(Elements(queue), "cancelled")
      /\ Return(<<[Open(Frame("killed"), queue # <<>>) EXCEPT !.then = top.then, !.ref = n]>>)
      /\ UNCHANGED <<killPromise, boots, micro, effects, cell, stopped, calls, faults>>
  BY <1>1, <1>2 DEF PerformKill, Top, CapturedTasks, ClearTimers, Release, InvalidateBoot
<1>4. /\ r \in KillRecords /\ r.phase = "sync" /\ r.job = job /\ r.tasks = EffectsOf(job)
      /\ r.tasks \subseteq effects /\ \A t \in r.tasks : t.job = job
  <2>1. EffectsOf(job) \subseteq effects /\ EffectsOf(job) \in SUBSET Tasks
        /\ \A t \in EffectsOf(job) : t.job = job
    BY DEF EffectsOf, Base, HostInv, HostTyped
  <2>2. job \in JobOrNone
    BY DEF Base, HostInv, HostTyped
  <2> QED BY <1>2, <2>1, <2>2 DEF KillRecords
<1>5. /\ kills' \in Seq(KillRecords) /\ Len(kills') = n /\ n \in DOMAIN kills' /\ n \in Nat
      /\ kills'[n] = r /\ n \notin DOMAIN kills
      /\ \A k \in DOMAIN kills : k \in DOMAIN kills' /\ kills'[k] = kills[k]
      /\ \A k \in DOMAIN kills' : k \in DOMAIN kills \/ k = n
  <2>1. kills \in Seq(KillRecords)
    BY DEF Base, KillsTyped
  <2>2. /\ kills' \in Seq(KillRecords) /\ Len(kills') = Len(kills) + 1 /\ kills'[Len(kills) + 1] = r
        /\ \A i \in 1..Len(kills) : kills'[i] = kills[i]
    BY <1>3, <1>4, <2>1, Appended
  <2> QED BY <1>1, <2>1, <2>2
<1>6. /\ outcome' \in [Jobs -> Settled \cup {"idle", "pending", "refused"}]
      /\ \A j \in Jobs : outcome'[j] = IF j \in Elements(queue) THEN "cancelled" ELSE outcome[j]
  BY <1>3 DEF Settle, Base, HostInv, HostTyped, Settled
<1>7. Elements(queue') = {} /\ queue' \in Seq(Jobs)
  BY <1>3 DEF Elements, ToSet
<1>8. job # None => job \in Jobs /\ outcome[job] = "pending" /\ outcome'[job] = "pending"
  BY <1>6, Queued DEF Base, HostInv, HostTyped, Owned, JobOrNone
<1>9. HostOnward
  BY <1>3, <1>6, <1>7 DEF HostOnward, QueueOnward
<1>10. KillsOnward({})
  <2>1. ASSUME NEW k \in DOMAIN kills, kills[k].job # None
        PROVE  outcome'[kills[k].job] = outcome[kills[k].job]
    <3>1. kills[k].job \in Jobs /\ kills[k].job \notin Elements(queue)
      BY <2>1, KillTyped DEF Base, JobOrNone, KillsInv, KillHolds
    <3> QED BY <1>6, <3>1
  <2> QED BY <1>3, <1>5, <2>1 DEF KillsOnward, SameKill
<1>11. Idle \in Protocols /\ Idle.job = None /\ ~Idle.hard /\ ~Idle.cancel
  BY DEF Idle, Protocols, JobOrNone
<1>12. HostTyped' /\ Owned' /\ Timed'
  BY <1>3, <1>6, <1>7, <1>11 DEF Base, HostInv, HostTyped, Owned, Timed, JobOrNone
<1>13. EffectsHeld'
  <2> SUFFICES ASSUME NEW e \in effects
               PROVE  outcome'[e.job] = "pending" /\ \E k \in DOMAIN kills' : e \in kills'[k].tasks
    BY <1>3 DEF EffectsHeld
  <2>1. e.job \in Jobs /\ e.job \notin Elements(queue)
    BY Queued DEF Base, HostInv, HostTyped, Tasks
  <2>2. outcome'[e.job] = "pending"
    BY <1>6, <2>1 DEF Base, HostInv, EffectsHeld
  <2>3. CASE e.job = job
    BY <1>4, <1>5, <2>2, <2>3 DEF EffectsOf
  <2>4. CASE e.job # job
    BY <1>5, <2>2, <2>4 DEF Base, HostInv, EffectsHeld
  <2> QED BY <2>3, <2>4
<1>14. StopsHeld'
  <2> SUFFICES ASSUME NEW j \in stopped
               PROVE  StopHeld(j)'
    BY <1>3 DEF StopsHeld
  <2>1. j \in Jobs /\ StopHeld(j) /\ outcome'[j] = outcome[j]
    BY <1>6, Queued DEF Base, HostInv, HostTyped, StopsHeld
  <2> QED BY <1>4, <1>5, <2>1 DEF StopHeld
<1>15. KillsInv'
  <2>1. KillHolds(n)'
    BY <1>3, <1>4, <1>5, <1>7, <1>8 DEF KillHolds, Elements
  <2>2. \A k \in DOMAIN kills : KillHolds(k)'
    BY <1>9, <1>10, OnwardKills DEF Base, HostInv
  <2>3. \A k \in DOMAIN kills : kills[k].job # None => kills[k].job # job
    BY DEF Base, KillsInv, KillHolds
  <2>4. \A a, b \in DOMAIN kills' : a # b /\ kills'[a].job # None => kills'[a].job # kills'[b].job
    BY <1>4, <1>5, <2>3 DEF Base, KillsInv
  <2> QED BY <1>5, <2>1, <2>2, <2>4 DEF KillsInv
<1>16. AllKeep /\ AllContsKeep
  BY <1>3, <1>9, <1>10, OnwardAll, OnwardAllConts
<1>17. StackInv'
  <2>1. PICK fr : fr = [Open(Frame("killed"), queue # <<>>) EXCEPT !.then = top.then, !.ref = n]
    OBVIOUS
  <2>2. top.then \in Nexts
    BY <1>1, <1>3, TopFrame DEF Base
  <2>3. fr \in Frames /\ fr.f = "killed" /\ fr.ref = n
    BY <1>5, <2>1, <2>2 DEF Frames, FrameKinds, Frame, Open, JobOrNone
  <2>4. FrameHolds(fr)'
    BY <1>3, <1>4, <1>5, <1>8, <2>3 DEF FrameHolds, JobKinds, KillKinds, StartKinds, HardKinds
  <2>5. \A g \in Frames : FrameHolds(g) => Apart(g, fr)
    BY <1>5, <2>3 DEF FrameHolds, Apart, KillKinds, HardKinds
  <2> QED BY <1>3, <1>16, <2>1, <2>3, <2>4, <2>5, StackReplaced, AllKeepTop DEF Base, OpenKinds
<1>18. MicroInv' /\ BootsTyped' /\ KillsTyped'
  BY <1>1, <1>3, <1>5, <1>16, MicroSame DEF Base, BootsTyped, KillsTyped
<1> QED BY <1>12, <1>13, <1>14, <1>15, <1>17, <1>18 DEF Base, HostInv

\* A bridge call ends: at most one kill awaited it, or the active job did.
LEMMA BridgeSettlesKeeps ==
  ASSUME KernelAssumption, Base, NEW e \in effects, BridgeSettles(e)
  PROVE  Base'
<1>1. /\ stack = <<>> /\ effects' = effects \ {e}
      /\ UNCHANGED <<state, worker, job, queue, jobTimer, cancelTimer, killPromise, boots, bootEpoch,
                     bootPromise, outcome, live, cell, stopped, calls, faults>>
  BY DEF BridgeSettles
<1>2. \A k \in Drained(e) :
        /\ k \in DOMAIN kills /\ kills[k].phase = "drain" /\ e \in kills[k].tasks
        /\ kills[k].tasks \cap effects' = {} /\ kills[k].job # None /\ outcome[kills[k].job] = "pending"
        /\ \A l \in DOMAIN kills : e \in kills[l].tasks => l = k
  <2> SUFFICES ASSUME NEW k \in Drained(e)
               PROVE  /\ k \in DOMAIN kills /\ kills[k].phase = "drain" /\ e \in kills[k].tasks
                      /\ kills[k].tasks \cap effects' = {}
                      /\ kills[k].job # None /\ outcome[kills[k].job] = "pending"
                      /\ \A l \in DOMAIN kills : e \in kills[l].tasks => l = k
    OBVIOUS
  <2>1. /\ k \in DOMAIN kills /\ kills[k].phase = "drain" /\ kills[k].tasks \cap effects = {e}
    BY DEF Drained
  <2>2. e \in kills[k].tasks /\ kills[k].tasks \cap effects' = {}
    BY <1>1, <2>1
  <2>3. e.job = kills[k].job /\ e.job \in Jobs /\ outcome[kills[k].job] = "pending"
    BY <2>1, <2>2 DEF Base, HostInv, HostTyped, Tasks, KillsInv, KillHolds
  <2>4. \A l \in DOMAIN kills : e \in kills[l].tasks => kills[l].job = e.job
    BY DEF Base, KillsInv, KillHolds
  <2> QED BY <2>1, <2>2, <2>3, <2>4 DEF Base, KillsInv, KernelAssumption
<1>3. PICK D \in SUBSET DOMAIN kills :
        /\ D = {k \in DOMAIN kills : kills[k].phase = "drain" /\ kills[k].tasks \cap effects' = {}}
        /\ \A k \in D : /\ kills[k].phase = "drain" /\ kills[k].tasks \cap effects' = {}
                        /\ kills[k].job # None /\ outcome[kills[k].job] = "pending"
        /\ kills' \in Seq(KillRecords) /\ Len(kills') = Len(kills) /\ DOMAIN kills' = DOMAIN kills
        /\ \A k \in DOMAIN kills : /\ kills'[k].job = kills[k].job /\ kills'[k].tasks = kills[k].tasks
                                   /\ kills'[k].phase = IF k \in D THEN "publish" ELSE kills[k].phase
        /\ \/ D = {} /\ UNCHANGED micro
           \/ \E k \in D : micro' = Append(micro, Cont("publish", k))
  <2>1. \A k \in DOMAIN kills : kills[k].phase = "drain" /\ kills[k].tasks \cap effects' = {} => k \in Drained(e)
    BY <1>1 DEF Base, KillsInv, KillHolds, Drained
  <2>2. Drained(e) = {k \in DOMAIN kills : kills[k].phase = "drain" /\ kills[k].tasks \cap effects' = {}}
    BY <1>2, <2>1
  <2>3. CASE Drained(e) = {}
    <3>1. UNCHANGED <<kills, micro>>
      BY <2>3 DEF BridgeSettles
    <3> QED BY <1>2, <2>2, <2>3, <3>1 DEF Base, KillsTyped
  <2>4. CASE Drained(e) # {}
    <3>1. PICK k : k = CHOOSE x \in Drained(e) : TRUE
      OBVIOUS
    <3>2. k \in Drained(e)
      BY <2>4, <3>1
    <3>3. kills' = [kills EXCEPT ![k].phase = "publish"] /\ micro' = Append(micro, Cont("publish", k))
      BY <2>4, <3>1 DEF BridgeSettles
    <3>4. k \in DOMAIN kills /\ Drained(e) = {k}
      BY <1>2, <3>2
    <3>5. <<>> \in Seq(Waiters)
      OBVIOUS
    <3>6. /\ kills' \in Seq(KillRecords) /\ Len(kills') = Len(kills) /\ DOMAIN kills' = DOMAIN kills
          /\ kills'[k].phase = "publish" /\ kills'[k].job = kills[k].job /\ kills'[k].tasks = kills[k].tasks
          /\ \A l \in DOMAIN kills : l # k => kills'[l] = kills[l]
      BY <3>3, <3>4, <3>5, KillPhase DEF Base
    <3> QED BY <1>2, <2>2, <3>3, <3>4, <3>6
  <2> QED BY <2>3, <2>4
<1>4. KillsInv'
  <2>1. ASSUME NEW k \in DOMAIN kills
        PROVE  KillHolds(k)'
    <3>1. /\ KillHolds(k) /\ kills'[k].job = kills[k].job /\ kills'[k].tasks = kills[k].tasks
          /\ kills'[k].phase = IF k \in D THEN "publish" ELSE kills[k].phase
      BY <1>3 DEF Base, KillsInv
    <3>2. kills[k].tasks \cap effects' # {} => k \notin D /\ kills[k].tasks \cap effects # {}
      BY <1>1, <1>3
    <3>3. kills'[k].phase = "drain" => kills[k].phase = "drain" /\ kills[k].tasks \cap effects' # {}
      BY <1>3, <3>1
    <3>4. kills'[k].phase = "ended" => kills[k].phase = "ended"
      BY <3>1
    <3>5. kills'[k].tasks \cap effects' # {} => kills'[k].phase \in {"sync", "drain"}
      BY <3>1, <3>2 DEF KillHolds
    <3>6. /\ kills'[k].job # None => /\ kills'[k].job # job' /\ kills'[k].job \notin Elements(queue')
                                     /\ outcome'[kills'[k].job] \notin {"idle", "refused"}
          /\ \A t \in kills'[k].tasks : t.job = kills'[k].job
          /\ kills'[k].phase = "drain" => /\ kills'[k].tasks \cap effects' # {}
                                          /\ outcome'[kills'[k].job] = "pending"
          /\ kills'[k].phase = "ended" /\ kills'[k].job # None => outcome'[kills'[k].job] = "crashed"
      BY <1>1, <3>1, <3>3, <3>4 DEF KillHolds
    <3> QED BY <3>5, <3>6 DEF KillHolds, Elements
  <2>2. \A a, b \in DOMAIN kills' : a # b /\ kills'[a].job # None => kills'[a].job # kills'[b].job
    BY <1>3 DEF Base, KillsInv
  <2> QED BY <1>3, <2>1, <2>2 DEF KillsInv
<1>5. MicroInv'
  <2>1. \A c \in Conts : ContHolds(c) /\ c.k \in {"publish", "killed"} => c.ref \notin D
    BY <1>3 DEF ContHolds
  <2>2. AllContsKeep
    <3> SUFFICES ASSUME NEW c \in Conts, ContHolds(c)
                 PROVE  ContHolds(c)'
      BY DEF AllContsKeep
    <3>1. c.k \in {"publish", "killed"} => c.ref \notin D
      BY <2>1
    <3> QED BY <1>1, <1>3, <3>1 DEF ContHolds
  <2>3. CASE UNCHANGED micro
    BY <2>2, <2>3, MicroSame DEF Base
  <2>4. ASSUME NEW k \in D, micro' = Append(micro, Cont("publish", k))
        PROVE  MicroInv'
    <3>1. k \in Nat
      BY <1>3, <2>4 DEF Base, KillsTyped
    <3>2. PICK c \in Conts : c = Cont("publish", k) /\ c.k = "publish" /\ c.ref = k
      BY <3>1, NewConts
    <3>3. ContHolds(c)'
      BY <1>1, <1>3, <2>4, <3>2 DEF ContHolds
    <3>4. \A d \in Conts : ContHolds(d) => Distinct(c, d) /\ Distinct(d, c)
      BY <2>1, <2>4, <3>2 DEF Distinct
    <3> QED BY <2>2, <2>4, <3>2, <3>3, <3>4, MicroAppended DEF Base
  <2> QED BY <1>3, <2>3, <2>4
<1>6. /\ active' \in Protocols /\ active'.job = active.job /\ active'.cancel = active.cancel
      /\ active'.hard = active.hard
  <2>1. active' = active \/ active' = [active EXCEPT !.deferred = "none"]
    BY DEF BridgeSettles
  <2> QED BY <2>1 DEF Base, HostInv, HostTyped, Protocols
<1>7. HostTyped' /\ Owned' /\ Timed'
  BY <1>1, <1>6 DEF Base, HostInv, HostTyped, Owned, Timed
<1>8. EffectsHeld' /\ StopsHeld'
  BY <1>1, <1>3, <1>6 DEF Base, HostInv, EffectsHeld, StopsHeld, StopHeld
<1>9. StackInv'
  <2>1. \/ stack' = <<>>
        \/ /\ active.job = e.job /\ job = e.job /\ EffectsOf(job) = {e}
           /\ \/ active.hard /\ stack' = <<HardFrame(job)>>
              \/ /\ active.deferred # "none"
                 /\ stack' = <<FinishFrame(worker, Authoritative(active.deferred))>>
    BY <1>1 DEF BridgeSettles
  <2>2. CASE stack' = <<>>
    BY <2>2, StackEmpty
  <2>3. CASE job = e.job /\ EffectsOf(job) = {e} /\ active.hard /\ stack' = <<HardFrame(job)>>
    <3>1. job \in Jobs /\ job \in JobOrNone /\ outcome[job] = "pending" /\ job \notin Elements(queue)
      BY <2>3, Queued DEF Base, HostInv, HostTyped, Tasks, EffectsHeld
    <3>2. PICK fr \in Frames : fr = HardFrame(job) /\ fr.f = "finalizeHard" /\ fr.job = job /\ ~fr.open
      <4>1. 0 \in Nat /\ "none" \in Settled \cup {"none"}
        OBVIOUS
      <4> QED BY <3>1, <4>1, EndFrames
    <3>3. \A x \in effects' : x.job # job
      BY <1>1, <2>3 DEF EffectsOf
    <3>4. active'.cancel /\ jobTimer' = None /\ cancelTimer' = None
      BY <1>1, <1>6, <2>3 DEF Base, HostInv, Timed
    <3>5. FrameHolds(fr)'
      BY <1>1, <3>1, <3>2, <3>3, <3>4
         DEF FrameHolds, JobKinds, KillKinds, StartKinds, HardKinds, Elements, EffectsOf
    <3> QED BY <2>3, <3>2, <3>5, StackFresh
  <2>4. CASE /\ job = e.job /\ EffectsOf(job) = {e} /\ active.deferred # "none"
             /\ stack' = <<FinishFrame(worker, Authoritative(active.deferred))>>
    <3>1. PICK o \in Settled : o = Authoritative(active.deferred) /\ (active.cancel => o = "cancelled")
      BY <2>4 DEF Authoritative, Settled, Base, HostInv, HostTyped, Protocols
    <3>2. PICK fr \in Frames : fr = FinishFrame(worker, o) /\ fr.f = "finish" /\ fr.to = o /\ ~fr.open
      <4>1. None \in JobOrNone /\ worker \in Nat /\ o \in Settled \cup {"none"}
        BY DEF JobOrNone, Base, BootsTyped
      <4> QED BY <4>1, EndFrames
    <3>3. \A x \in effects' : x.job # job
      BY <1>1, <2>4 DEF EffectsOf
    <3>4. FrameHolds(fr)'
      BY <1>1, <1>6, <3>1, <3>2, <3>3 DEF FrameHolds, JobKinds, KillKinds, StartKinds, HardKinds, EffectsOf
    <3> QED BY <2>4, <3>1, <3>2, <3>4, StackFresh
  <2> QED BY <2>1, <2>2, <2>3, <2>4
<1>10. BootsTyped' /\ KillsTyped'
  BY <1>1, <1>3 DEF Base, BootsTyped, KillsTyped
<1> QED BY <1>4, <1>5, <1>7, <1>8, <1>9, <1>10 DEF Base, HostInv

-------------------------------------------------------------------------------
\* The host starts with nothing to account for.
LEMMA BaseInitially ==
  ASSUME KernelAssumption, Init
  PROVE  Base
<1>1. HostInv
  <2>1. HostTyped
    BY DEF Init, HostTyped, Idle, Protocols, JobOrNone, Settled
  <2> QED BY <2>1 DEF Init, HostInv, Owned, EffectsHeld, StopsHeld, Timed, Idle
<1>2. KillsTyped /\ KillsInv
  BY DEF Init, KillsTyped, KillsInv
<1>3. BootsTyped
  BY DEF Init, BootsTyped
<1>4. StackInv /\ MicroInv
  BY DEF Init, StackInv, MicroInv, Elements, ToSet
<1> QED BY <1>1, <1>2, <1>3, <1>4 DEF Base

\* Every step keeps Base.
LEMMA BasePreserved ==
  ASSUME KernelAssumption, Base, [Next]_vars
  PROVE  Base'
<1>1. CASE UNCHANGED vars
  <2>1. UNCHANGED <<state, worker, job, active, queue, jobTimer, cancelTimer, kills, killPromise, boots,
                    bootEpoch, bootPromise, stack, micro, outcome, effects, live, cell, stopped>>
    BY <1>1 DEF vars, host, lifecycle, world
  <2>2. HostInv' /\ KillsInv'
    BY <2>1, Still DEF Base, JobVars, KillsStill
  <2>3. BootsTyped' /\ KillsTyped'
    BY <2>1 DEF Base, BootsTyped, KillsTyped
  <2>4. StackInv'
    BY <2>1 DEF Base, StackInv, FrameHolds, Elements, EffectsOf
  <2>5. MicroInv'
    BY <2>1 DEF Base, MicroInv, ContHolds, Elements
  <2> QED BY <2>2, <2>3, <2>4, <2>5 DEF Base
<1>2. ASSUME NEW j \in Jobs, Exec(j) \/ CancelQueued(j) \/ CancelActive(j)
      PROVE  Base'
  BY <1>2, ExecKeeps, CancelQueuedKeeps, CancelActiveKeeps
<1>3. ASSUME NEW e \in DOMAIN boots, PreflightDone(e) \/ Ready(e) \/ BootFails(e)
      PROVE  Base'
  BY <1>3, PreflightDoneKeeps, ReadyKeeps, BootFailsKeeps
<1>4. CASE StartCall \/ Terminate \/ Restart
  BY <1>4, CallKeeps
<1>5. CASE BridgeRequest
  BY <1>5, BridgeRequestKeeps
<1>6. CASE \E e \in effects : BridgeSettles(e)
  BY <1>6, BridgeSettlesKeeps
<1>7. CASE \E o \in {"completed", "failed", "cancelled"} : Finished(o)
  BY <1>7, FinishedKeeps
<1>8. CASE WorkerFault \/ BeginHardCancellation \/ WallClock
  BY <1>8, WorkerFaultKeeps, BeginHardCancellationKeeps, WallClockKeeps
<1>9. CASE Run
  <2>1. CASE Start \/ StartBody \/ Dispatch \/ PostExec \/ Defer \/ Finish \/ StartNext
    BY <2>1, StartKeeps, StartBodyKeeps, DispatchKeeps, PostExecKeeps, DeferKeeps, FinishKeeps,
       StartNextKeeps
  <2>2. CASE HardTerminate \/ FinalizeHardCancellation \/ JoinKill \/ PerformKill \/ AwaitTasks \/ KillEnds
    BY <2>2, HardTerminateKeeps, FinalizeHardCancellationKeeps, JoinKillKeeps, PerformKillKeeps,
       AwaitTasksKeeps, KillEndsKeeps
  <2>3. CASE ResumeStart \/ ResumeDispatch \/ ResumeTerminate \/ ResumeRestart
    BY <2>3, ResumeKeeps
  <2>4. CASE PublishCrash \/ KillSettles \/ BootSettles
    BY <2>4, PublishCrashKeeps, KillSettlesKeeps, BootSettlesKeeps
  <2> QED BY <1>9, <2>1, <2>2, <2>3, <2>4 DEF Run
<1> QED BY <1>1, <1>2, <1>3, <1>4, <1>5, <1>6, <1>7, <1>8, <1>9 DEF Next

-------------------------------------------------------------------------------
(* The worker.  Boots are numbered by their epochs, and the host's worker is the one of the      *)
(* epoch in force.                                                                                *)

Booting(e) == e \in DOMAIN boots /\ boots[e].phase \in {"preflight", "handshake"}
Fresh == bootEpoch \in DOMAIN boots /\ boots[bootEpoch].phase = "preflight"
HardTop == stack # <<>> /\ Head(stack).f = "finalizeHard"

BootInv ==
  /\ state \in {"ready", "busy"} => ~Booting(bootEpoch)
  /\ Fresh => bootEpoch \notin DOMAIN cell
  /\ worker # 0 => worker = bootEpoch /\ bootPromise = bootEpoch /\ ~Fresh
  /\ \A w \in live : w = worker
CellInv ==
  /\ \A w \in DOMAIN cell : cell[w] # None => ~Booting(w)
  /\ \A w \in live : cell[w] \in {None, job}
  /\ \A fr \in Elements(stack) : fr.f = "dispatched" => fr.ref <= bootEpoch /\ ~Booting(fr.ref)
GuestInv ==
  /\ EffectsOf(job) # {} => bootPromise = bootEpoch /\ bootEpoch # 0 /\ ~Booting(bootEpoch)
  /\ active.hard => live = {} /\ (EffectsOf(job) # {} \/ (HardTop /\ Head(stack).job = job))
  /\ HardTop /\ Head(stack).job = job => active.hard
Guest == BootInv /\ CellInv /\ GuestInv

Calm == job = None /\ worker = 0 /\ state # "ready"
Detached == Fresh /\ bootPromise = 0
\* What keeps a worker from being started under a boot that restart() has let go of.
Orderly == (Detached => ~Idling) /\ (Continue("restart") => Calm)

\* The worker's half of containment.
LEMMA Contained ==
  ASSUME Base, Guest
  PROVE  GuestCodeIsContained
<1> QED BY DEF Base, HostInv, Owned, Guest, BootInv, CellInv, GuestCodeIsContained

\* The top frame returned: what is below is not the end of a hard cancellation.
LEMMA GuestPop ==
  ASSUME StackInv, stack # <<>>, Return(<<>>)
  PROVE  Elements(stack') \subseteq Elements(stack) /\ ~HardTop'
<1>1. /\ stack' \in Seq(Frames)
      /\ \A i \in DOMAIN stack' : i + 1 \in DOMAIN stack /\ stack'[i] = stack[i + 1] /\ i \in Nat /\ i >= 1
  BY Popped DEF StackInv
<1>2. Elements(stack') \subseteq Elements(stack)
  BY <1>1 DEF Elements, ToSet
<1>3. ASSUME stack' # <<>>
      PROVE  Head(stack').f # "finalizeHard"
  <2>1. 1 \in DOMAIN stack' /\ Head(stack') = stack'[1]
    BY <1>1, <1>3
  <2>2. 2 \in DOMAIN stack /\ Head(stack') = stack[2] /\ 2 > 1
    BY <1>1, <2>1
  <2>3. Head(stack').f \in OpenKinds
    BY <2>2, Below
  <2> QED BY <2>3 DEF OpenKinds
<1> QED BY <1>2, <1>3 DEF HardTop

\* The elements of a stack that got a frame.
LEMMA Topped ==
  ASSUME NEW fr, NEW s \in Seq(Frames), stack' = <<fr>> \o s
  PROVE  /\ stack' # <<>> /\ Head(stack') = fr
         /\ \A x \in Elements(stack') : x = fr \/ x \in Elements(s)
<1>1. /\ s \in Seq(Frames \cup {fr}) /\ <<fr>> \in Seq(Frames \cup {fr})
  OBVIOUS
<1>2. /\ stack' \in Seq(Frames \cup {fr}) /\ Len(stack') = 1 + Len(s)
      /\ \A i \in 1..(1 + Len(s)) : stack'[i] = IF i <= 1 THEN fr ELSE s[i - 1]
  BY <1>1
<1>3. \A i \in DOMAIN stack' : i = 1 \/ (i - 1 \in DOMAIN s /\ stack'[i] = s[i - 1])
  BY <1>2
<1> QED BY <1>2, <1>3 DEF Elements, ToSet

\* The elements of a stack that got a frame, or whose top frame went on.
LEMMA GuestPut ==
  ASSUME StackInv, NEW fr,
         \/ stack' = <<fr>> \o stack
         \/ stack # <<>> /\ Return(<<fr>>)
         \/ stack' = <<fr>>
  PROVE  Elements(stack') \subseteq Elements(stack) \cup {fr} /\ stack' # <<>> /\ Head(stack') = fr
<1>1. stack \in Seq(Frames)
  BY DEF StackInv
<1>2. CASE stack' = <<fr>> \o stack
  BY <1>1, <1>2, Topped
<1>3. CASE stack # <<>> /\ Return(<<fr>>)
  <2>1. Tail(stack) \in Seq(Frames) /\ stack' = <<fr>> \o Tail(stack)
    BY <1>1, <1>3 DEF Return
  <2>2. \A i \in DOMAIN Tail(stack) : i + 1 \in DOMAIN stack /\ Tail(stack)[i] = stack[i + 1]
    BY <1>1, <1>3
  <2>3. Elements(Tail(stack)) \subseteq Elements(stack)
    BY <2>2 DEF Elements, ToSet
  <2> QED BY <2>1, <2>3, Topped
<1>4. CASE stack' = <<fr>>
  <2>1. Len(stack') = 1 /\ stack'[1] = fr /\ DOMAIN stack' = {1}
    BY <1>4
  <2> QED BY <1>4, <2>1 DEF Elements, ToSet
<1> QED BY <1>2, <1>3, <1>4

\* No call comes while a hard cancellation is being finalized.
LEMMA CallableSoft ==
  ASSUME StackInv, Callable
  PROVE  ~HardTop
<1>1. SUFFICES ASSUME stack # <<>>
               PROVE  Head(stack).f # "finalizeHard"
  BY DEF HardTop
<1>2. 1 \in DOMAIN stack /\ Head(stack) = stack[1]
  BY <1>1 DEF StackInv
<1>3. Head(stack).f \in OpenKinds
  BY <1>2, CallableOpen
<1> QED BY <1>3 DEF OpenKinds

\* A step that starts no boot or worker and keeps the active job.
BootsStill ==
  /\ UNCHANGED <<worker, cell, bootEpoch, bootPromise, job, effects>> /\ active'.hard = active.hard
  /\ live' \subseteq live
  /\ state' \in {state, "failed", "stopped", "draining", "booting"}
  /\ DOMAIN boots' = DOMAIN boots
  /\ \A e \in DOMAIN boots : boots'[e].phase \in {boots[e].phase, "done", "dead"}
SoftStack ==
  /\ ~HardTop /\ ~HardTop'
  /\ \A fr \in Elements(stack') : fr.f = "dispatched" => fr \in Elements(stack)

\* A step that starts no boot or worker and keeps the active job keeps Guest.
LEMMA GuestStill ==
  ASSUME Guest, BootsStill, SoftStack
  PROVE  Guest'
<1>1. (Fresh' => Fresh) /\ \A e : Booting(e)' => Booting(e)
  BY DEF BootsStill, Fresh, Booting
<1>2. BootInv'
  BY <1>1 DEF Guest, BootInv, BootsStill
<1>3. CellInv'
  BY <1>1 DEF Guest, CellInv, BootsStill, SoftStack, Elements
<1>4. GuestInv'
  BY <1>1 DEF Guest, GuestInv, BootsStill, SoftStack, EffectsOf
<1> QED BY <1>2, <1>3, <1>4 DEF Guest

\* The kinds of the frames that are pushed.
LEMMA FrameKind ==
  /\ \A n : StartThen(n).f = "start" /\ KillThen(n).f = "kill"
  /\ Frame("dispatch").f = "dispatch"
  /\ \A w, o, j : FinishFrame(w, o).f = "finish" /\ HardFrame(j).f = "finalizeHard" /\ HardFrame(j).job = j
<1>1. \A n : StartThen(n).f = "start" /\ KillThen(n).f = "kill"
  BY DEF StartThen, KillThen, Frame
<1>2. /\ \A w, o, j : FinishFrame(w, o).f = "finish" /\ HardFrame(j).f = "finalizeHard" /\ HardFrame(j).job = j
      /\ Frame("dispatch").f = "dispatch"
  BY DEF FinishFrame, HardFrame, Frame
<1> QED BY <1>1, <1>2

LEMMA SoftPut ==
  ASSUME StackInv, NEW fr, fr.f \notin {"dispatched", "finalizeHard"}, ~HardTop,
         \/ stack' = <<fr>> \o stack
         \/ stack # <<>> /\ Return(<<fr>>)
         \/ stack' = <<fr>>
  PROVE  SoftStack
<1>1. Elements(stack') \subseteq Elements(stack) \cup {fr} /\ stack' # <<>> /\ Head(stack') = fr
  BY GuestPut
<1> QED BY <1>1 DEF SoftStack, HardTop

LEMMA SoftPop ==
  ASSUME StackInv, stack # <<>>, Head(stack).f # "finalizeHard", Return(<<>>)
  PROVE  SoftStack
<1> QED BY GuestPop DEF SoftStack, HardTop

LEMMA SoftSame ==
  ASSUME ~HardTop, UNCHANGED stack
  PROVE  SoftStack
<1> QED BY DEF SoftStack, HardTop, Elements

\* A call of the interface, and what the host does with a cancellation.
LEMMA CallsGuest ==
  ASSUME KernelAssumption, Base, Guest,
         \/ StartCall \/ Terminate \/ Restart
         \/ \E j \in Jobs : Exec(j) \/ CancelQueued(j) \/ CancelActive(j)
  PROVE  Guest'
<1>1. Callable
  BY DEF StartCall, Terminate, Restart, Call, Exec, CancelQueued, CancelActive
<1>2. ~HardTop
  BY <1>1, CallableSoft DEF Base
<1>3. CASE StartCall \/ Terminate \/ Restart
  <2>1. UNCHANGED <<host, lifecycle, effects, live, cell>>
    BY <1>3 DEF StartCall, Terminate, Restart, Call
  <2>2. PICK fr : stack' = <<fr>> \o stack /\ fr.f \in {"start", "kill"}
    BY <1>3, FrameKind DEF StartCall, Terminate, Restart, Call
  <2>3. SoftStack
    BY <1>2, <2>2, SoftPut DEF Base
  <2>4. BootsStill
    BY <2>1 DEF BootsStill, host, lifecycle
  <2> QED BY <2>3, <2>4, GuestStill
<1>4. ASSUME NEW j \in Jobs, Exec(j)
      PROVE  Guest'
  <2>1. UNCHANGED <<state, worker, job, active, lifecycle, world>>
    BY <1>4 DEF Exec
  <2>2. UNCHANGED stack \/ \E fr : stack' = <<fr>> \o stack /\ fr.f \in {"start", "dispatch"}
    <3>1. PICK a, b : a = StartThen("dispatch") /\ b = Frame("dispatch")
      OBVIOUS
    <3>2. UNCHANGED stack \/ stack' = <<a>> \o stack \/ stack' = <<b>> \o stack
      BY <1>4, <3>1 DEF Exec
    <3> QED BY <3>1, <3>2, FrameKind
  <2>3. SoftStack
    BY <1>2, <2>2, SoftPut, SoftSame DEF Base
  <2>4. BootsStill
    BY <2>1 DEF BootsStill, lifecycle, world
  <2> QED BY <2>3, <2>4, GuestStill
<1>5. ASSUME NEW j \in Jobs, CancelQueued(j) \/ CancelActive(j)
      PROVE  Guest'
  <2>1. /\ UNCHANGED <<state, worker, job, lifecycle, stack, effects, live, cell>>
        /\ active' = active \/ active' = [active EXCEPT !.cancel = TRUE]
    BY <1>5 DEF CancelQueued, CancelActive
  <2>2. active'.hard = active.hard
    BY <2>1 DEF Base, HostInv, HostTyped, Protocols
  <2>3. SoftStack
    BY <1>2, <2>1, SoftSame
  <2>4. BootsStill
    BY <2>1, <2>2 DEF BootsStill, lifecycle
  <2> QED BY <2>3, <2>4, GuestStill
<1> QED BY <1>3, <1>4, <1>5

\* What comes to an empty stack and leaves the worker to the frame it pushes.
LEMMA EventsGuest ==
  ASSUME KernelAssumption, Base, Guest,
         \/ WallClock \/ WorkerFault \/ BeginHardCancellation
         \/ \E o \in {"completed", "failed", "cancelled"} : Finished(o)
         \/ ResumeStart \/ ResumeDispatch \/ ResumeTerminate \/ PublishCrash \/ KillSettles
  PROVE  Guest'
<1>1. stack = <<>> /\ ~HardTop
  BY DEF WallClock, WorkerFault, BeginHardCancellation, Finished, Executing, Idling, ResumeStart,
         ResumeDispatch, ResumeTerminate, PublishCrash, KillSettles, Continue, HardTop
<1>2. CASE WallClock \/ WorkerFault
  <2>1. BootsStill
    BY <1>2 DEF WallClock, WorkerFault, BootsStill, host, lifecycle, world
  <2>2. PICK fr : stack' = <<fr>> /\ fr.f = "kill"
    BY <1>2 DEF WallClock, WorkerFault, KillThen, Frame
  <2> QED BY <1>1, <2>1, <2>2, SoftPut, GuestStill DEF Base
<1>3. CASE BeginHardCancellation
  <2>1. BootsStill
    BY <1>3 DEF BeginHardCancellation, BootsStill, host, lifecycle, world
  <2>2. UNCHANGED stack \/ \E fr : stack' = <<fr>> /\ fr.f = "hard"
    <3>1. PICK fr : fr = [Open(Frame("hard"), queue # <<>>) EXCEPT !.job = job]
      OBVIOUS
    <3>2. UNCHANGED stack \/ stack' = <<fr>>
      BY <1>3, <3>1 DEF BeginHardCancellation
    <3>3. fr.f = "hard"
      BY <3>1 DEF Open, Frame
    <3> QED BY <3>2, <3>3
  <2> QED BY <1>1, <2>1, <2>2, SoftPut, SoftSame, GuestStill DEF Base
<1>4. ASSUME NEW o \in {"completed", "failed", "cancelled"}, Finished(o)
      PROVE  Guest'
  <2>1. BootsStill
    BY <1>4 DEF Finished, BootsStill, host, lifecycle, world
  <2>2. PICK fr : stack' = <<fr>> /\ fr.f \in {"finish", "defer"}
    <3>1. PICK a, b : /\ a = FinishFrame(worker, Authoritative(o))
                      /\ b = [Open(Frame("defer"), queue # <<>>)
                                EXCEPT !.job = job, !.ref = worker, !.to = Authoritative(o)]
      OBVIOUS
    <3>2. stack' = <<a>> \/ stack' = <<b>>
      BY <1>4, <3>1 DEF Finished
    <3>3. a.f = "finish" /\ b.f = "defer"
      BY <3>1, FrameKind DEF Open, Frame
    <3> QED BY <3>2, <3>3
  <2> QED BY <1>1, <2>1, <2>2, SoftPut, GuestStill DEF Base
<1>5. CASE ResumeStart \/ ResumeDispatch
  <2>1. BootsStill
    BY <1>5 DEF ResumeStart, ResumeDispatch, BootsStill, host, lifecycle, world
  <2>2. PICK fr : stack' = <<fr>> /\ fr.f \in {"startBody", "dispatch"}
    BY <1>5 DEF ResumeStart, ResumeDispatch, Frame
  <2> QED BY <1>1, <2>1, <2>2, SoftPut, GuestStill DEF Base
<1>6. CASE PublishCrash
  <2>1. BootsStill
    BY <1>6 DEF PublishCrash, BootsStill, host, lifecycle, world
  <2>2. PICK fr : stack' = <<fr>> /\ fr.f = "killEnd"
    <3>1. PICK fr, k : k = Head(micro).ref /\ fr = [Open(Frame("killEnd"), kills[k].job # None) EXCEPT !.ref = k]
      OBVIOUS
    <3>2. stack' = <<fr>>
      BY <1>6, <3>1 DEF PublishCrash
    <3>3. fr.f = "killEnd"
      BY <3>1 DEF Open, Frame
    <3> QED BY <3>2, <3>3
  <2> QED BY <1>1, <2>1, <2>2, SoftPut, GuestStill DEF Base
<1>7. CASE ResumeTerminate \/ KillSettles
  <2>1. BootsStill /\ UNCHANGED stack
    BY <1>7 DEF ResumeTerminate, KillSettles, BootsStill, host, lifecycle, world
  <2> QED BY <1>1, <2>1, SoftSame, GuestStill
<1> QED BY <1>2, <1>3, <1>4, <1>5, <1>6, <1>7

\* The frames of kills and of start() that join an attempt, and the tail of finish().
LEMMA FramesGuest ==
  ASSUME KernelAssumption, Base, Guest,
         Start \/ JoinKill \/ StartNext \/ AwaitTasks \/ KillEnds
  PROVE  Guest'
<1>1. /\ stack # <<>> /\ Head(stack).f # "finalizeHard" /\ ~HardTop
  BY DEF Start, JoinKill, StartNext, AwaitTasks, KillEnds, Top, HardTop
<1>2. BootsStill
  BY DEF Start, JoinKill, StartNext, AwaitTasks, KillEnds, BootsStill, host, lifecycle, world
<1>3. Return(<<>>) \/ \E fr : Return(<<fr>>) /\ fr.f \in {"start", "killEnd"}
  <2>1. CASE Start \/ JoinKill \/ KillEnds
    BY <2>1 DEF Start, JoinKill, KillEnds
  <2>2. CASE StartNext
    BY <2>2 DEF StartNext, StartThen, Frame
  <2>3. CASE AwaitTasks
    <3>1. PICK fr, top : /\ top = Head(stack)
                         /\ fr = [Open(Frame("killEnd"), kills[top.ref].job # None)
                                    EXCEPT !.then = top.then, !.ref = top.ref]
      OBVIOUS
    <3>2. Return(<<>>) \/ Return(<<fr>>)
      BY <2>3, <3>1 DEF AwaitTasks
    <3>3. fr.f = "killEnd"
      BY <3>1 DEF Open, Frame
    <3> QED BY <3>2, <3>3
  <2> QED BY <2>1, <2>2, <2>3
<1> QED BY <1>1, <1>2, <1>3, SoftPop, SoftPut, GuestStill DEF Base

\* What the worker of a host without one leaves: nothing.
LEMMA NoWorker ==
  ASSUME Base, Guest
  PROVE  /\ live \subseteq {worker} /\ (worker = 0 => live = {})
         /\ (worker # 0 => worker = bootEpoch /\ bootEpoch # 0 /\ bootPromise = bootEpoch)
         /\ live \ {worker} = {}
<1>1. live \subseteq {worker}
  BY DEF Guest, BootInv
<1>2. 0 \notin live
  BY DEF Base, BootsTyped
<1>3. worker # 0 => worker = bootEpoch /\ bootEpoch # 0 /\ bootPromise = bootEpoch
  BY DEF Guest, BootInv
<1> QED BY <1>1, <1>2, <1>3

\* Without an active job no effect is one of the active job's.
LEMMA NoJobNoEffects ==
  ASSUME KernelAssumption, Base
  PROVE  \A e \in effects : e.job # None
<1> QED BY DEF Base, HostInv, HostTyped, Tasks, KernelAssumption

\* The host lets go of its job and worker (finish, finalizeHardCancellation, performKillWorker).
LEMMA ReleaseGuest ==
  ASSUME KernelAssumption, Base, Guest, Release, InvalidateBoot, live' = {},
         UNCHANGED <<boots, cell, effects>>, ~HardTop',
         \A fr \in Elements(stack') : fr.f = "dispatched" => fr \in Elements(stack)
  PROVE  Guest'
<1>1. bootEpoch' = bootEpoch + 1 /\ bootPromise' = 0 /\ job' = None /\ worker' = 0 /\ active' = Idle
  BY DEF Release, InvalidateBoot
<1>2. ~Booting(bootEpoch)' /\ ~Fresh' /\ bootEpoch \in Nat
  BY <1>1 DEF Booting, Fresh, Base, BootsTyped
<1>3. BootInv'
  BY <1>1, <1>2 DEF BootInv, Booting
<1>4. CellInv'
  <2>1. \A w \in DOMAIN cell' : cell'[w] # None => ~Booting(w)'
    BY DEF Guest, CellInv, Booting
  <2>2. ASSUME NEW fr \in Elements(stack'), fr.f = "dispatched"
        PROVE  fr.ref <= bootEpoch' /\ ~Booting(fr.ref)'
    <3>1. fr \in Elements(stack) /\ fr.ref <= bootEpoch /\ ~Booting(fr.ref)
      BY <2>2 DEF Guest, CellInv
    <3>2. fr \in Frames
      BY <3>1 DEF Base, StackInv, Elements, ToSet
    <3>3. fr.ref \in Nat
      BY <3>2 DEF Frames
    <3> QED BY <1>1, <1>2, <3>1, <3>3 DEF Booting
  <2> QED BY <2>1, <2>2 DEF CellInv, Elements
<1>5. GuestInv'
  <2>1. EffectsOf(job)' = {}
    BY <1>1, NoJobNoEffects DEF EffectsOf
  <2>2. ~active'.hard
    BY <1>1 DEF Idle
  <2> QED BY <2>1, <2>2 DEF GuestInv
<1> QED BY <1>3, <1>4, <1>5 DEF Guest

LEMMA NextFrameSoft ==
  ASSUME StackInv, stack # <<>>, Return(<<Open(Frame("next"), TRUE)>>)
  PROVE  /\ ~HardTop' /\ \A g \in Elements(stack') : g.f = "dispatched" => g \in Elements(stack)
<1>1. PICK fr : fr = Open(Frame("next"), TRUE)
  OBVIOUS
<1>2. fr.f = "next"
  BY <1>1 DEF Open, Frame
<1>3. Elements(stack') \subseteq Elements(stack) \cup {fr} /\ stack' # <<>> /\ Head(stack') = fr
  BY <1>1, GuestPut
<1> QED BY <1>2, <1>3 DEF HardTop

LEMMA FinishGuest ==
  ASSUME KernelAssumption, Base, Guest, Finish
  PROVE  Guest'
<1>1. /\ stack # <<>> /\ Head(stack).f = "finish"
      /\ UNCHANGED <<kills, killPromise, boots, micro, effects, cell, stopped>>
  BY DEF Finish, Top
<1>2. CASE Return(<<>>) /\ UNCHANGED <<host, bootEpoch, bootPromise, outcome, live>>
  <2>1. BootsStill
    BY <1>1, <1>2 DEF BootsStill, host
  <2> QED BY <1>1, <1>2, <2>1, SoftPop, GuestStill DEF Base
<1>3. CASE /\ Release /\ InvalidateBoot /\ live' = live \ {Head(stack).ref} /\ Head(stack).ref = worker
           /\ Return(<<Open(Frame("next"), TRUE)>>)
  <2>1. live' = {}
    BY <1>3, NoWorker
  <2> QED BY <1>1, <1>3, <2>1, NextFrameSoft, ReleaseGuest DEF Base
<1> QED BY <1>2, <1>3 DEF Finish

LEMMA FinalizeHardGuest ==
  ASSUME KernelAssumption, Base, Guest, FinalizeHardCancellation
  PROVE  Guest'
<1>1. /\ stack # <<>> /\ Head(stack).f = "finalizeHard" /\ HardTop
      /\ UNCHANGED <<kills, killPromise, boots, micro, world>>
  BY DEF FinalizeHardCancellation, Top, HardTop
<1>2. CASE /\ active.job # Head(stack).job \/ job # Head(stack).job
           /\ Return(<<>>) /\ UNCHANGED <<state, worker, job, active, bootEpoch, bootPromise>>
  <2>1. job # Head(stack).job
    BY <1>2 DEF Base, HostInv, HostTyped
  <2>2. ~HardTop' /\ Elements(stack') \subseteq Elements(stack)
    BY <1>1, <1>2, GuestPop DEF Base
  <2>3. Fresh' = Fresh /\ \A e : Booting(e)' = Booting(e)
    BY <1>1, <1>2 DEF Fresh, Booting
  <2>4. BootInv' /\ CellInv'
    BY <1>1, <1>2, <2>2, <2>3 DEF Guest, BootInv, CellInv, world, Elements
  <2>5. GuestInv'
    BY <1>1, <1>2, <2>1, <2>2, <2>3 DEF Guest, GuestInv, world, EffectsOf
  <2> QED BY <2>4, <2>5 DEF Guest
<1>3. CASE /\ job = Head(stack).job /\ Release /\ InvalidateBoot
           /\ Return(<<Open(Frame("next"), TRUE)>>)
  <2>1. live' = {}
    BY <1>1, <1>3 DEF Guest, GuestInv, world
  <2> QED BY <1>1, <1>3, <2>1, NextFrameSoft, ReleaseGuest DEF Base, world
<1> QED BY <1>2, <1>3 DEF FinalizeHardCancellation

LEMMA PerformKillGuest ==
  ASSUME KernelAssumption, Base, Guest, PerformKill
  PROVE  Guest'
<1>1. /\ stack # <<>> /\ Release /\ InvalidateBoot /\ live' = live \ {worker}
      /\ UNCHANGED <<boots, effects, cell>>
  BY DEF PerformKill, Top
<1>2. PICK fr : fr = [Open(Frame("killed"), queue # <<>>)
                        EXCEPT !.then = Head(stack).then, !.ref = Len(kills) + 1]
  OBVIOUS
<1>3. Return(<<fr>>)
  BY <1>2 DEF PerformKill
<1>4. fr.f = "killed"
  BY <1>2 DEF Open, Frame
<1>5. Elements(stack') \subseteq Elements(stack) \cup {fr} /\ stack' # <<>> /\ Head(stack') = fr
  BY <1>1, <1>3, GuestPut DEF Base
<1>6. live' = {}
  BY <1>1, NoWorker
<1> QED BY <1>1, <1>4, <1>5, <1>6, ReleaseGuest DEF HardTop

\* A job is dispatched to the worker of a boot that is over.
LEMMA DispatchGuest ==
  ASSUME KernelAssumption, Base, Guest, Dispatch
  PROVE  Guest'
<1>1. /\ stack # <<>> /\ Head(stack).f = "dispatch" /\ ~HardTop
      /\ UNCHANGED <<worker, lifecycle, world>>
  BY DEF Dispatch, Top, HardTop
<1>2. CASE Return(<<>>) /\ UNCHANGED <<state, job, active, queue>>
  <2>1. BootsStill
    BY <1>1, <1>2 DEF BootsStill, lifecycle, world
  <2> QED BY <1>1, <1>2, <2>1, SoftPop, GuestStill DEF Base
<1>3. ASSUME state = "ready", job = None, queue # <<>>, job' = Head(queue),
             active' = [Idle EXCEPT !.job = Head(queue)], state' = "busy",
             Return(<<[Open(Frame("dispatched"), TRUE) EXCEPT !.job = Head(queue), !.ref = worker]>>)
      PROVE  Guest'
  <2>1. PICK fr : fr = [Open(Frame("dispatched"), TRUE) EXCEPT !.job = Head(queue), !.ref = worker]
    OBVIOUS
  <2>2. fr.f = "dispatched" /\ fr.ref = worker
    BY <2>1 DEF Open, Frame
  <2>3. Elements(stack') \subseteq Elements(stack) \cup {fr} /\ stack' # <<>> /\ Head(stack') = fr
    BY <1>1, <1>3, <2>1, GuestPut DEF Base
  <2>4. ~HardTop'
    BY <2>2, <2>3 DEF HardTop
  <2>5. Fresh' = Fresh /\ \A e : Booting(e)' = Booting(e)
    BY <1>1 DEF Fresh, Booting, lifecycle
  <2>6. BootInv'
    BY <1>1, <1>3, <2>5 DEF Guest, BootInv, lifecycle, world
  <2>7. CellInv'
    <3>1. worker <= bootEpoch /\ ~Booting(worker)
      <4>1. 0 \notin DOMAIN boots /\ worker <= bootEpoch
        BY DEF Base, BootsTyped
      <4> QED BY <1>3, <4>1 DEF Guest, BootInv, Booting
    <3>2. \A w \in live : cell[w] = None
      BY <1>3 DEF Guest, CellInv
    <3> QED BY <1>1, <2>2, <2>3, <2>5, <3>1, <3>2 DEF Guest, CellInv, lifecycle, world, Elements
  <2>8. GuestInv'
    <3>1. Head(queue) \in Elements(queue)
      BY <1>3 DEF Base, HostInv, HostTyped, Elements, ToSet
    <3>2. ASSUME NEW e \in effects, e.job = Head(queue)
          PROVE  FALSE
      <4>1. e.job # job /\ \A k \in DOMAIN kills : kills[k].job # e.job
        BY <3>1, <3>2, Queued DEF Base
      <4>2. PICK k \in DOMAIN kills : e \in kills[k].tasks
        BY <4>1 DEF Base, HostInv, EffectsHeld
      <4> QED BY <4>1, <4>2 DEF Base, KillsInv, KillHolds
    <3>3. EffectsOf(job)' = {}
      BY <1>1, <1>3, <3>2 DEF EffectsOf, world
    <3>4. ~active'.hard
      BY <1>3 DEF Idle
    <3> QED BY <2>4, <3>3, <3>4 DEF GuestInv
  <2> QED BY <2>6, <2>7, <2>8 DEF Guest
<1> QED BY <1>2, <1>3 DEF Dispatch

\* The worker is given its job only if both are still the host's.
LEMMA PostExecGuest ==
  ASSUME KernelAssumption, Base, Guest, PostExec
  PROVE  Guest'
<1>1. /\ stack # <<>> /\ Head(stack).f = "dispatched" /\ ~HardTop /\ Return(<<>>)
      /\ UNCHANGED <<state, worker, job, active, lifecycle, effects, live>>
  BY DEF PostExec, Top, HardTop
<1>2. ~HardTop' /\ Elements(stack') \subseteq Elements(stack)
  BY <1>1, GuestPop DEF Base
<1>3. CASE UNCHANGED cell
  <2>1. BootsStill
    BY <1>1, <1>3 DEF BootsStill, lifecycle
  <2> QED BY <1>1, <2>1, SoftPop, GuestStill DEF Base
<1>4. ASSUME StillCurrent(Head(stack)), cell' = [cell EXCEPT ![Head(stack).ref] = Head(stack).job]
      PROVE  Guest'
  <2>1. PICK fr : fr = Head(stack)
    OBVIOUS
  <2>2. worker = fr.ref /\ job = fr.job /\ cell' = [cell EXCEPT ![fr.ref] = fr.job]
    BY <1>4, <2>1 DEF StillCurrent
  <2>3. fr \in Elements(stack)
    BY <1>1, <2>1 DEF Base, StackInv, Elements, ToSet
  <2>4. ~Booting(worker)
    BY <1>1, <2>1, <2>2, <2>3 DEF Guest, CellInv
  <2>5. /\ DOMAIN cell' = DOMAIN cell
        /\ \A w \in DOMAIN cell : cell'[w] = IF w = worker THEN job ELSE cell[w]
    BY <2>2
  <2>6. Fresh' = Fresh /\ \A e : Booting(e)' = Booting(e)
    BY <1>1 DEF Fresh, Booting, lifecycle
  <2>7. BootInv'
    BY <1>1, <2>5, <2>6 DEF Guest, BootInv, lifecycle
  <2>8. CellInv'
    <3>1. \A w \in DOMAIN cell' : cell'[w] # None => ~Booting(w)'
      BY <2>4, <2>5, <2>6 DEF Guest, CellInv
    <3>2. \A w \in live' : cell'[w] \in {None, job'}
      BY <1>1, <2>5 DEF Guest, CellInv, Base, BootsTyped
    <3>3. \A g \in Elements(stack') : g.f = "dispatched" => g.ref <= bootEpoch' /\ ~Booting(g.ref)'
      BY <1>1, <1>2, <2>6 DEF Guest, CellInv, lifecycle
    <3> QED BY <3>1, <3>2, <3>3 DEF CellInv, Elements
  <2>9. GuestInv'
    BY <1>1, <1>2, <2>6 DEF Guest, GuestInv, lifecycle, EffectsOf
  <2> QED BY <2>7, <2>8, <2>9 DEF Guest
<1> QED BY <1>3, <1>4 DEF PostExec

LEMMA BridgeRequestGuest ==
  ASSUME KernelAssumption, Base, Guest, BridgeRequest
  PROVE  Guest'
<1>1. /\ Executing /\ stack = <<>> /\ ~HardTop
      /\ UNCHANGED <<state, worker, job, lifecycle, live, cell>>
  BY DEF BridgeRequest, Executing, Idling, HardTop
<1>2. CASE stack' = <<KillThen("none")>> /\ UNCHANGED <<active, effects>>
  <2>1. BootsStill
    BY <1>1, <1>2 DEF BootsStill, lifecycle
  <2>2. PICK fr : fr = KillThen("none") /\ fr.f = "kill"
    BY FrameKind
  <2> QED BY <1>1, <1>2, <2>1, <2>2, SoftPut, GuestStill DEF Base
<1>3. CASE active' = [active EXCEPT !.seq = @ + 1] /\ UNCHANGED stack
  <2>1. ~active.hard
    BY <1>1 DEF Executing, Guest, GuestInv
  <2>2. active'.hard = active.hard
    BY <1>3 DEF Base, HostInv, HostTyped, Protocols
  <2>3. worker # 0 /\ ~Booting(worker)
    BY <1>1 DEF Executing, Guest, CellInv, Base, BootsTyped
  <2>4. worker = bootEpoch /\ bootPromise = bootEpoch
    BY <2>3, NoWorker
  <2>5. ~HardTop' /\ Fresh' = Fresh /\ \A e : Booting(e)' = Booting(e)
    BY <1>1, <1>3 DEF Fresh, Booting, lifecycle, HardTop
  <2>6. BootInv' /\ CellInv'
    BY <1>1, <1>3, <2>5 DEF Guest, BootInv, CellInv, lifecycle, Elements
  <2>7. GuestInv'
    BY <1>1, <2>1, <2>2, <2>3, <2>4, <2>5 DEF GuestInv, lifecycle
  <2> QED BY <2>6, <2>7 DEF Guest
<1> QED BY <1>2, <1>3 DEF BridgeRequest

LEMMA BridgeSettlesGuest ==
  ASSUME KernelAssumption, Base, Guest, NEW e \in effects, BridgeSettles(e)
  PROVE  Guest'
<1>1. /\ stack = <<>> /\ effects' = effects \ {e} /\ ~HardTop
      /\ UNCHANGED <<state, worker, job, boots, bootEpoch, bootPromise, live, cell>>
  BY DEF BridgeSettles, HardTop
<1>2. active'.hard = active.hard
  <2>1. active' = active \/ active' = [active EXCEPT !.deferred = "none"]
    BY DEF BridgeSettles
  <2> QED BY <2>1 DEF Base, HostInv, HostTyped, Protocols
<1>3. Fresh' = Fresh /\ \A b : Booting(b)' = Booting(b)
  BY <1>1 DEF Fresh, Booting
<1>4. /\ \A fr \in Elements(stack') : fr.f # "dispatched"
      /\ HardTop' => active.hard /\ Head(stack').job = job
      /\ active.hard => HardTop' \/ EffectsOf(job)' # {}
  <2>1. CASE stack' = <<HardFrame(job)>> /\ active.hard
    <3>1. PICK fr : fr = HardFrame(job) /\ fr.f = "finalizeHard" /\ fr.job = job
      BY FrameKind
    <3>2. Elements(stack') \subseteq Elements(stack) \cup {fr} /\ stack' # <<>> /\ Head(stack') = fr
      BY <2>1, <3>1, GuestPut DEF Base
    <3> QED BY <1>1, <2>1, <3>1, <3>2 DEF HardTop, Elements, ToSet
  <2>2. CASE stack' = <<FinishFrame(worker, Authoritative(active.deferred))>> /\ ~active.hard
    <3>1. PICK fr : fr = FinishFrame(worker, Authoritative(active.deferred)) /\ fr.f = "finish"
      BY FrameKind
    <3>2. Elements(stack') \subseteq Elements(stack) \cup {fr} /\ stack' # <<>> /\ Head(stack') = fr
      BY <2>2, <3>1, GuestPut DEF Base
    <3> QED BY <1>1, <2>2, <3>1, <3>2 DEF HardTop, Elements, ToSet
  <2>3. CASE /\ UNCHANGED stack
             /\ ~active.hard \/ ~(active.job = e.job /\ job = e.job /\ EffectsOf(job) = {e})
    <3>1. ~HardTop' /\ Elements(stack') = {}
      BY <1>1, <2>3 DEF HardTop, Elements, ToSet
    <3>2. ASSUME active.hard
          PROVE  EffectsOf(job)' # {}
      <4>1. EffectsOf(job) # {} /\ active.job = job
        BY <1>1, <3>2 DEF Guest, GuestInv, Base, HostInv, HostTyped
      <4>2. PICK x \in EffectsOf(job) : x # e
        BY <2>3, <3>2, <4>1 DEF EffectsOf
      <4> QED BY <1>1, <4>2 DEF EffectsOf
    <3> QED BY <3>1, <3>2
  <2> QED BY <2>1, <2>2, <2>3 DEF BridgeSettles
<1>5. BootInv' /\ CellInv'
  BY <1>1, <1>3, <1>4 DEF Guest, BootInv, CellInv, Elements
<1>6. GuestInv'
  <2>1. EffectsOf(job)' \subseteq EffectsOf(job)
    BY <1>1 DEF EffectsOf
  <2> QED BY <1>1, <1>2, <1>3, <1>4, <2>1 DEF Guest, GuestInv
<1> QED BY <1>5, <1>6 DEF Guest

LEMMA DeferGuest ==
  ASSUME KernelAssumption, Base, Guest, Defer
  PROVE  Guest'
<1>1. /\ stack # <<>> /\ Head(stack).f = "defer" /\ Return(<<>>) /\ live' \subseteq live
      /\ UNCHANGED <<state, worker, job, lifecycle, effects, cell>>
      /\ active' = active \/ active' = [active EXCEPT !.deferred = Head(stack).to]
  BY DEF Defer, Top
<1>2. active'.hard = active.hard
  BY <1>1 DEF Base, HostInv, HostTyped, Protocols
<1>3. BootsStill
  BY <1>1, <1>2 DEF BootsStill, lifecycle
<1> QED BY <1>1, <1>3, SoftPop, GuestStill DEF Base

LEMMA HardTerminateGuest ==
  ASSUME KernelAssumption, Base, Guest, HardTerminate
  PROVE  Guest'
<1>1. PICK j : j = Head(stack).job
  OBVIOUS
<1>2. /\ stack # <<>> /\ Head(stack).f = "hard" /\ ~HardTop /\ live' = live \ {worker}
      /\ active' = (IF active.job = j THEN [active EXCEPT !.hard = TRUE] ELSE active)
      /\ Return(IF EffectsOf(j) = {} THEN <<HardFrame(j)>> ELSE <<>>)
      /\ UNCHANGED <<state, worker, job, lifecycle, effects, cell>>
  BY <1>1 DEF HardTerminate, Top, HardTop
<1>3. live' = {} /\ live = live \cap {worker}
  BY <1>2, NoWorker
<1>4. active.job = job /\ active'.hard = (active.hard \/ job = j)
  BY <1>2 DEF Base, HostInv, HostTyped, Protocols
<1>5. Fresh' = Fresh /\ \A e : Booting(e)' = Booting(e)
  BY <1>2 DEF Fresh, Booting, lifecycle
<1>6. /\ \A g \in Elements(stack') : g.f = "dispatched" => g \in Elements(stack)
      /\ (HardTop' <=> EffectsOf(j) = {}) /\ (HardTop' => Head(stack').job = j)
  <2>1. CASE EffectsOf(j) = {}
    <3>1. PICK fr : fr = HardFrame(j) /\ fr.f = "finalizeHard" /\ fr.job = j
      BY FrameKind
    <3>2. Elements(stack') \subseteq Elements(stack) \cup {fr} /\ stack' # <<>> /\ Head(stack') = fr
      BY <1>2, <2>1, <3>1, GuestPut DEF Base
    <3> QED BY <2>1, <3>1, <3>2 DEF HardTop
  <2>2. CASE EffectsOf(j) # {}
    <3>1. Return(<<>>)
      BY <1>2, <2>2
    <3>2. ~HardTop' /\ Elements(stack') \subseteq Elements(stack)
      BY <1>2, <3>1, GuestPop DEF Base
    <3> QED BY <2>2, <3>2
  <2> QED BY <2>1, <2>2
<1>7. BootInv' /\ CellInv'
  BY <1>2, <1>3, <1>5, <1>6 DEF Guest, BootInv, CellInv, lifecycle, Elements
<1>8. GuestInv'
  <2>1. EffectsOf(job)' = EffectsOf(job)
    BY <1>2 DEF EffectsOf
  <2>2. EffectsOf(job)' # {} => bootPromise' = bootEpoch' /\ bootEpoch' # 0 /\ ~Booting(bootEpoch)'
    BY <1>2, <1>5, <2>1 DEF Guest, GuestInv, lifecycle
  <2>3. active'.hard => EffectsOf(job)' # {} \/ (HardTop' /\ Head(stack').job = job')
    <3>1. CASE job = j
      BY <1>2, <1>6, <2>1, <3>1
    <3>2. CASE job # j
      BY <1>2, <1>4, <2>1, <3>2 DEF Guest, GuestInv
    <3> QED BY <3>1, <3>2
  <2>4. HardTop' /\ Head(stack').job = job' => active'.hard
    BY <1>2, <1>4, <1>6
  <2> QED BY <1>3, <2>2, <2>3, <2>4 DEF GuestInv
<1> QED BY <1>7, <1>8 DEF Guest

\* A boot begins only when the host has no worker that is ready.
LEMMA StartBodyGuest ==
  ASSUME KernelAssumption, Base, Guest, StartBody
  PROVE  Guest'
<1> DEFINE next == Await(Head(stack).then)
<1>1. /\ stack # <<>> /\ Head(stack).f # "finalizeHard" /\ ~HardTop /\ Return(<<>>)
      /\ UNCHANGED <<worker, job, active, effects, live, cell>>
  BY DEF StartBody, Top, world, HardTop
<1>2. ~HardTop' /\ Elements(stack') \subseteq Elements(stack)
  BY <1>1, GuestPop DEF Base
<1>3. CASE UNCHANGED <<state, boots, bootEpoch, bootPromise>>
  <2>1. BootsStill
    BY <1>1, <1>3 DEF BootsStill
  <2> QED BY <1>1, <2>1, SoftPop, GuestStill DEF Base
<1>4. CASE /\ bootPromise # 0 /\ UNCHANGED <<state, bootEpoch, bootPromise>>
           /\ boots' = [boots EXCEPT ![bootPromise].waiters = @ \o next]
  <2> HIDE DEF next
  <2>1. \A e \in DOMAIN boots : boots[e] \in BootRecords
    BY DEF Base, BootsTyped
  <2>2. \A e \in DOMAIN boots : boots'[e].phase = boots[e].phase
    BY <1>4, <2>1 DEF BootRecords
  <2>3. BootsStill
    BY <1>1, <1>4, <2>2 DEF BootsStill
  <2> QED BY <1>1, <2>3, SoftPop, GuestStill DEF Base
<1>5. ASSUME ~Booted, bootPromise = 0, bootEpoch' = bootEpoch + 1, bootPromise' = bootEpoch + 1,
             state' = "booting",
             boots' = [e \in 1..(bootEpoch + 1) |->
                         IF e \in DOMAIN boots THEN boots[e]
                         ELSE [phase |-> IF e = bootEpoch + 1 THEN "preflight" ELSE "dead",
                               waiters |-> IF e = bootEpoch + 1 THEN next ELSE <<>>]]
      PROVE  Guest'
  <2> HIDE DEF next
  <2>1. worker = 0 /\ live = {} /\ bootEpoch \in Nat
    BY <1>5, NoWorker DEF Base, BootsTyped
  <2>2. \A e : e # bootEpoch + 1 /\ Booting(e)' => Booting(e)
    BY <1>5 DEF Booting
  <2>3. BootInv'
    <3>1. bootEpoch + 1 \notin DOMAIN cell
      BY <2>1 DEF Base, BootsTyped
    <3> QED BY <1>1, <1>5, <2>1, <3>1 DEF BootInv
  <2>4. CellInv'
    <3>1. \A w \in DOMAIN cell' : cell'[w] # None => ~Booting(w)'
      BY <1>1, <2>1, <2>2 DEF Guest, CellInv, Base, BootsTyped
    <3>2. ASSUME NEW fr \in Elements(stack'), fr.f = "dispatched"
          PROVE  fr.ref <= bootEpoch' /\ ~Booting(fr.ref)'
      <4>1. fr \in Elements(stack) /\ fr.ref <= bootEpoch /\ ~Booting(fr.ref)
        BY <1>2, <3>2 DEF Guest, CellInv
      <4>2. fr \in Frames
        BY <4>1 DEF Base, StackInv, Elements, ToSet
      <4>3. fr.ref \in Nat
        BY <4>2 DEF Frames
      <4> QED BY <1>5, <2>1, <2>2, <4>1, <4>3
    <3> QED BY <1>1, <2>1, <3>1, <3>2 DEF CellInv, Elements
  <2>5. GuestInv'
    <3>1. EffectsOf(job) = {}
      BY <1>5 DEF Guest, GuestInv
    <3>2. ~active.hard
      BY <1>1, <3>1 DEF Guest, GuestInv
    <3> QED BY <1>1, <1>2, <3>1, <3>2 DEF GuestInv, EffectsOf
  <2> QED BY <2>3, <2>4, <2>5 DEF Guest
<1> QED BY <1>3, <1>4, <1>5 DEF StartBody

\* A worker is constructed only for the epoch in force.
LEMMA PreflightGuest ==
  ASSUME KernelAssumption, Base, Guest, Orderly, NEW e \in DOMAIN boots, PreflightDone(e)
  PROVE  Guest'
<1>1. /\ Idling /\ stack = <<>> /\ ~HardTop /\ boots[e].phase = "preflight"
      /\ UNCHANGED <<state, job, active, bootEpoch, bootPromise, stack, effects>>
  BY DEF PreflightDone, Idling, HardTop
<1>2. CASE /\ bootEpoch # e /\ UNCHANGED <<worker, live, cell>>
           /\ boots' = [boots EXCEPT ![e] = [phase |-> "dead", waiters |-> <<>>]]
  <2>1. BootsStill
    BY <1>1, <1>2 DEF BootsStill
  <2> QED BY <1>1, <2>1, SoftSame, GuestStill
<1>3. ASSUME bootEpoch = e, worker' = e, live' = live \union {e},
             cell' = [w \in 1..bootEpoch |-> IF w \in DOMAIN cell THEN cell[w] ELSE None],
             boots' = [boots EXCEPT ![e].phase = "handshake"]
      PROVE  Guest'
  <2>1. Fresh /\ Booting(e) /\ e # 0
    BY <1>1, <1>3 DEF Fresh, Booting, Base, BootsTyped
  <2>2. bootPromise = bootEpoch
    BY <1>1, <2>1 DEF Orderly, Detached, Base, BootsTyped
  <2>3. worker = 0 /\ live = {} /\ e \notin DOMAIN cell
    BY <1>3, <2>1, NoWorker DEF Guest, BootInv
  <2>4. boots'[e].phase = "handshake" /\ DOMAIN boots' = DOMAIN boots
    <3>1. boots[e] \in BootRecords
      BY DEF Base, BootsTyped
    <3> QED BY <1>3, <3>1 DEF BootRecords
  <2>5. ~Fresh' /\ \A b : Booting(b)' = Booting(b)
    <3>1. \A b \in DOMAIN boots : b # e => boots'[b] = boots[b]
      BY <1>3
    <3> QED BY <1>1, <1>3, <2>1, <2>4, <3>1 DEF Fresh, Booting
  <2>6. /\ DOMAIN cell \subseteq DOMAIN cell' /\ e \in DOMAIN cell' /\ cell'[e] = None
        /\ \A w \in DOMAIN cell' : cell'[w] # None => w \in DOMAIN cell /\ cell[w] = cell'[w]
    BY <1>3, <2>3 DEF Base, BootsTyped
  <2>7. BootInv'
    BY <1>1, <1>3, <2>2, <2>3, <2>5 DEF Guest, BootInv
  <2>8. CellInv'
    BY <1>1, <1>3, <2>3, <2>5, <2>6 DEF Guest, CellInv, Elements
  <2>9. GuestInv'
    <3>1. EffectsOf(job) = {} /\ EffectsOf(job)' = EffectsOf(job)
      BY <1>1, <1>3, <2>1 DEF Guest, GuestInv, EffectsOf
    <3>2. ~active.hard
      BY <1>1, <3>1 DEF Guest, GuestInv
    <3>3. ~HardTop'
      BY <1>1 DEF HardTop
    <3> QED BY <1>1, <3>1, <3>2, <3>3 DEF GuestInv
  <2> QED BY <2>7, <2>8, <2>9 DEF Guest
<1> QED BY <1>2, <1>3 DEF PreflightDone, AssertCurrentBoot

LEMMA ReadyGuest ==
  ASSUME KernelAssumption, Base, Guest, NEW e \in DOMAIN boots, Ready(e)
  PROVE  Guest'
<1>1. /\ Idling /\ stack = <<>> /\ ~HardTop /\ bootEpoch = e /\ state' = "ready"
      /\ boots' = [boots EXCEPT ![e].phase = "ready"]
      /\ UNCHANGED <<worker, job, active, bootEpoch, bootPromise, stack, effects, live, cell>>
  BY DEF Ready, Idling, HardTop, AssertCurrentBoot, world
<1>2. boots'[e].phase = "ready" /\ DOMAIN boots' = DOMAIN boots
  <2>1. boots[e] \in BootRecords
    BY DEF Base, BootsTyped
  <2> QED BY <1>1, <2>1 DEF BootRecords
<1>3. \A b \in DOMAIN boots : b # e => boots'[b] = boots[b]
  BY <1>1
<1>4. ~Fresh' /\ ~Booting(bootEpoch)' /\ ~HardTop' /\ \A b : Booting(b)' => Booting(b)
  BY <1>1, <1>2, <1>3 DEF Fresh, Booting, HardTop
<1>5. BootInv' /\ CellInv'
  BY <1>1, <1>4 DEF Guest, BootInv, CellInv, Elements
<1>6. GuestInv'
  BY <1>1, <1>4 DEF Guest, GuestInv, EffectsOf
<1> QED BY <1>5, <1>6 DEF Guest

LEMMA BootFailsGuest ==
  ASSUME KernelAssumption, Base, Guest, NEW e \in DOMAIN boots, BootFails(e)
  PROVE  Guest'
<1>1. /\ Idling /\ stack = <<>> /\ ~HardTop /\ bootEpoch = e /\ bootPromise' = 0
      /\ boots[e].phase \in {"preflight", "handshake"}
      /\ boots' = [boots EXCEPT ![e] = [phase |-> "dead", waiters |-> <<>>]]
      /\ live' = live \ {worker} /\ worker' = 0 /\ state' = "failed"
      /\ UNCHANGED <<job, active, bootEpoch, stack, effects, cell>>
  BY DEF BootFails, Idling, HardTop
<1>2. live' = {} /\ Booting(bootEpoch)
  BY <1>1, NoWorker DEF Booting
<1>3. ~Fresh' /\ ~HardTop' /\ \A b : Booting(b)' => Booting(b)
  BY <1>1 DEF Fresh, Booting, HardTop
<1>4. BootInv' /\ CellInv'
  BY <1>1, <1>2, <1>3 DEF Guest, BootInv, CellInv, Elements
<1>5. GuestInv'
  BY <1>1, <1>2, <1>3 DEF Guest, GuestInv, EffectsOf
<1> QED BY <1>4, <1>5 DEF Guest

\* restart() lets go of the boot that others await.
LEMMA ResumeRestartGuest ==
  ASSUME KernelAssumption, Base, Guest, Orderly, ResumeRestart
  PROVE  Guest'
<1>1. /\ stack = <<>> /\ ~HardTop /\ stack' = <<StartThen("none")>> /\ bootPromise' = 0
      /\ UNCHANGED <<host, boots, bootEpoch, effects, live, cell>> /\ Calm
  BY DEF ResumeRestart, Continue, HardTop, world, Orderly
<1>2. PICK fr : fr = StartThen("none") /\ fr.f = "start"
  BY FrameKind
<1>3. SoftStack
  BY <1>1, <1>2, SoftPut DEF Base
<1>4. Fresh' = Fresh /\ \A b : Booting(b)' = Booting(b)
  BY <1>1 DEF Fresh, Booting
<1>5. BootInv' /\ CellInv'
  BY <1>1, <1>3, <1>4 DEF Guest, BootInv, CellInv, Elements, Calm, host, SoftStack
<1>6. GuestInv'
  <2>1. EffectsOf(job)' = {} /\ EffectsOf(job) = {}
    BY <1>1, NoJobNoEffects DEF EffectsOf, Calm, host
  <2> QED BY <1>1, <1>3, <2>1 DEF Guest, GuestInv, SoftStack, host
<1> QED BY <1>5, <1>6 DEF Guest

LEMMA BootSettlesGuest ==
  ASSUME KernelAssumption, Base, Guest, BootSettles
  PROVE  Guest'
<1>1. PICK e : e = Head(micro).ref
  OBVIOUS
<1>2. /\ stack = <<>> /\ ~HardTop /\ micro # <<>> /\ Head(micro).k = "booted"
      /\ UNCHANGED <<host, kills, killPromise, bootEpoch, bootPromise, stack, outcome, world>>
  BY DEF BootSettles, Continue, HardTop
<1>3. PICK p \in {"done", "dead"} : boots' = [boots EXCEPT ![e] = [phase |-> p, waiters |-> <<>>]]
  BY <1>1 DEF BootSettles
<1>4. BootsStill
  BY <1>2, <1>3 DEF BootsStill, host, world
<1> QED BY <1>2, <1>4, SoftSame, GuestStill

\* Every step keeps Guest as long as restart() is orderly.
LEMMA GuestPreserved ==
  ASSUME KernelAssumption, Base, Guest, Orderly, [Next]_vars
  PROVE  Guest'
<1>1. CASE UNCHANGED vars
  BY <1>1 DEF vars, host, lifecycle, world, Guest, BootInv, CellInv, GuestInv, Fresh, Booting, HardTop,
              Elements, EffectsOf
<1>2. CASE Next
  <2>1. CASE \/ \E j \in Jobs : Exec(j) \/ CancelQueued(j) \/ CancelActive(j)
             \/ StartCall \/ Terminate \/ Restart
    BY <2>1, CallsGuest
  <2>2. CASE \E e \in DOMAIN boots : PreflightDone(e) \/ Ready(e) \/ BootFails(e)
    BY <2>2, PreflightGuest, ReadyGuest, BootFailsGuest
  <2>3. CASE BridgeRequest \/ \E e \in effects : BridgeSettles(e)
    BY <2>3, BridgeRequestGuest, BridgeSettlesGuest
  <2>4. CASE \/ \E o \in {"completed", "failed", "cancelled"} : Finished(o)
             \/ WorkerFault \/ BeginHardCancellation \/ WallClock
             \/ ResumeStart \/ ResumeDispatch \/ ResumeTerminate \/ PublishCrash \/ KillSettles
    BY <2>4, EventsGuest
  <2>5. CASE Start \/ StartNext \/ JoinKill \/ AwaitTasks \/ KillEnds
    BY <2>5, FramesGuest
  <2>6. CASE \/ StartBody \/ Dispatch \/ PostExec \/ Defer \/ Finish \/ HardTerminate
             \/ FinalizeHardCancellation \/ PerformKill \/ ResumeRestart \/ BootSettles
    BY <2>6, StartBodyGuest, DispatchGuest, PostExecGuest, DeferGuest, FinishGuest, HardTerminateGuest,
       FinalizeHardGuest, PerformKillGuest, ResumeRestartGuest, BootSettlesGuest
  <2> QED BY <1>2, <2>1, <2>2, <2>3, <2>4, <2>5, <2>6 DEF Next, Run
<1> QED BY <1>1, <1>2

-------------------------------------------------------------------------------
(* Restart without listeners.  When nothing calls back into the host there is one frame on the    *)
(* stack and one kill at a time.                                                                  *)

Micro(k) == \E c \in Elements(micro) : c.k = k
Resuming == Micro("start") \/ Micro("restart") \/ Top("startBody")
KillTop == stack # <<>> /\ Head(stack).f \in KillKinds
Unbooted == Len(boots) < bootEpoch
StartPending ==
  \/ Top("start") \/ Top("startBody") \/ Micro("start")
  \/ killPromise # 0 /\ \E c \in Elements(kills[killPromise].waiters) : c.k = "start"

OneKill ==
  /\ \A c \in Elements(micro) : c.k \in {"publish", "killed"} => c.ref = killPromise
  /\ \A k \in DOMAIN kills : kills[k].phase = "drain" => k = killPromise
  /\ KillTop => LET k == Head(stack).ref IN
                  /\ kills[k].phase = "sync" => killPromise = 0
                  /\ kills[k].phase = "publish" => killPromise = k
Quiescent ==
  /\ killPromise # 0 \/ KillTop \/ Resuming => Calm
  /\ Top("killed") /\ kills[Head(stack).ref].tasks # {} => Unbooted /\ ~Resuming
  /\ killPromise # 0 /\ ~Micro("killed") => Unbooted /\ ~Resuming
Single ==
  /\ Len(stack) <= 1 /\ (Top("finish") => job # None)
  /\ OneKill /\ Quiescent /\ (Detached => StartPending)

\* One frame and one kill at a time make restart() orderly.
LEMMA SingleOrderly ==
  ASSUME KernelAssumption, Base, Single
  PROVE  Orderly
<1>1. ASSUME Continue("restart")
      PROVE  Calm
  <2>1. Head(micro) \in Elements(micro)
    BY <1>1 DEF Continue, Base, MicroInv, Elements, ToSet
  <2> QED BY <1>1, <2>1 DEF Continue, Micro, Resuming, Single, Quiescent
<1>2. ASSUME Detached, Idling
      PROVE  FALSE
  <2>1. stack = <<>> /\ \A k : ~Micro(k)
    BY <1>2 DEF Idling, Micro, Elements, ToSet
  <2>2. killPromise # 0
    BY <1>2, <2>1 DEF Single, StartPending, Top
  <2>3. Unbooted
    BY <2>1, <2>2 DEF Single, Quiescent
  <2> QED BY <1>2, <2>3 DEF Detached, Fresh, Unbooted, Base, BootsTyped
<1> QED BY <1>1, <1>2 DEF Orderly

\* The host starts with an empty stack.
LEMMA SingleInitially ==
  ASSUME Init
  PROVE  Single
<1>1. stack = <<>> /\ Len(stack) = 0 /\ Elements(micro) = {} /\ Elements(stack) = {} /\ DOMAIN kills = {}
  BY DEF Init, Elements, ToSet
<1> QED BY <1>1 DEF Init, Single, OneKill, Quiescent, Micro, Resuming, KillTop, Top, Detached, Fresh

\* The continuations after the first has been taken.
LEMMA TakenConts ==
  ASSUME MicroInv, micro # <<>>, NEW ws \in Seq(Conts), micro' = Tail(micro) \o ws
  PROVE  /\ \A c \in Elements(micro') :
              (c \in Elements(micro) /\ Distinct(Head(micro), c)) \/ c \in Elements(ws)
         /\ \A c \in Elements(micro) : c = Head(micro) \/ c \in Elements(micro')
         /\ \A c \in Elements(ws) : c \in Elements(micro')
<1>1. /\ micro \in Seq(Conts) /\ Tail(micro) \in Seq(Conts) /\ Len(Tail(micro)) = Len(micro) - 1
      /\ \A i \in 1..(Len(micro) - 1) : Tail(micro)[i] = micro[i + 1]
      /\ Len(micro) \in Nat /\ Len(micro) >= 1 /\ Head(micro) = micro[1]
  BY DEF MicroInv
<1>2. PICK n \in Nat : n = Len(micro) - 1
  <2>1. \A m \in Nat : m >= 1 => m - 1 \in Nat
    OBVIOUS
  <2> QED BY <1>1, <2>1
<1>3. /\ micro' \in Seq(Conts) /\ Len(micro') = n + Len(ws)
      /\ \A i \in 1..(n + Len(ws)) : micro'[i] = IF i <= n THEN Tail(micro)[i] ELSE ws[i - n]
  BY <1>1, <1>2, Joined
<1>4. Len(ws) \in Nat /\ DOMAIN ws = 1..Len(ws) /\ DOMAIN micro = 1..(n + 1) /\ DOMAIN micro' = 1..(n + Len(ws))
  BY <1>1, <1>2, <1>3
<1>5. \A i \in DOMAIN micro' : \/ i + 1 \in DOMAIN micro /\ micro'[i] = micro[i + 1] /\ i + 1 # 1
                               \/ i - n \in DOMAIN ws /\ micro'[i] = ws[i - n]
  BY <1>1, <1>2, <1>3, <1>4
<1>6. \A i \in DOMAIN micro' : \/ micro'[i] \in Elements(micro) /\ Distinct(Head(micro), micro'[i])
                               \/ micro'[i] \in Elements(ws)
  <2> SUFFICES ASSUME NEW i \in DOMAIN micro'
               PROVE  \/ micro'[i] \in Elements(micro) /\ Distinct(Head(micro), micro'[i])
                      \/ micro'[i] \in Elements(ws)
    OBVIOUS
  <2>1. CASE i + 1 \in DOMAIN micro /\ micro'[i] = micro[i + 1] /\ i + 1 # 1
    <3>1. 1 \in DOMAIN micro
      BY <1>4
    <3> QED BY <1>1, <2>1, <3>1 DEF MicroInv, Elements, ToSet
  <2>2. CASE i - n \in DOMAIN ws /\ micro'[i] = ws[i - n]
    BY <2>2 DEF Elements, ToSet
  <2> QED BY <1>5, <2>1, <2>2
<1>7. \A i \in DOMAIN micro : i = 1 \/ (i - 1 \in DOMAIN micro' /\ micro'[i - 1] = micro[i])
  BY <1>1, <1>2, <1>3, <1>4
<1>8. \A i \in DOMAIN ws : n + i \in DOMAIN micro' /\ micro'[n + i] = ws[i]
  <2> SUFFICES ASSUME NEW i \in DOMAIN ws
               PROVE  n + i \in DOMAIN micro' /\ micro'[n + i] = ws[i]
    OBVIOUS
  <2>1. n + i \in 1..(n + Len(ws)) /\ ~(n + i <= n) /\ (n + i) - n = i
    BY <1>4
  <2> QED BY <1>3, <1>4, <2>1
<1>9. \A c \in Elements(micro') :
        (c \in Elements(micro) /\ Distinct(Head(micro), c)) \/ c \in Elements(ws)
  BY <1>6 DEF Elements, ToSet
<1>10. \A c \in Elements(micro) : c = Head(micro) \/ c \in Elements(micro')
  <2> SUFFICES ASSUME NEW i \in DOMAIN micro
               PROVE  micro[i] = Head(micro) \/ micro[i] \in Elements(micro')
    BY DEF Elements, ToSet
  <2>1. CASE i = 1
    BY <1>1, <2>1
  <2>2. CASE i # 1
    BY <1>7, <2>2 DEF Elements, ToSet
  <2> QED BY <2>1, <2>2
<1>11. \A c \in Elements(ws) : c \in Elements(micro')
  BY <1>8 DEF Elements, ToSet
<1> QED BY <1>9, <1>10, <1>11

LEMMA AddedCont ==
  ASSUME MicroInv, NEW x \in Conts, micro' = Append(micro, x)
  PROVE  Elements(micro') = Elements(micro) \cup {x}
<1> QED BY Appended DEF MicroInv

LEMMA JoinedConts ==
  ASSUME MicroInv, NEW ws \in Seq(Conts), micro' = micro \o ws
  PROVE  Elements(micro') = Elements(micro) \cup Elements(ws)
<1>1. /\ micro \in Seq(Conts) /\ micro' \in Seq(Conts) /\ Len(micro') = Len(micro) + Len(ws)
      /\ \A i \in 1..(Len(micro) + Len(ws)) : micro'[i] = IF i <= Len(micro) THEN micro[i] ELSE ws[i - Len(micro)]
  BY Joined DEF MicroInv
<1>2. /\ \A i \in DOMAIN micro' : \/ i \in DOMAIN micro /\ micro'[i] = micro[i]
                                  \/ i - Len(micro) \in DOMAIN ws /\ micro'[i] = ws[i - Len(micro)]
      /\ \A i \in DOMAIN micro : i \in DOMAIN micro' /\ micro'[i] = micro[i]
  BY <1>1
<1>3. \A i \in DOMAIN ws : Len(micro) + i \in DOMAIN micro' /\ micro'[Len(micro) + i] = ws[i]
  <2> SUFFICES ASSUME NEW i \in DOMAIN ws
               PROVE  Len(micro) + i \in DOMAIN micro' /\ micro'[Len(micro) + i] = ws[i]
    OBVIOUS
  <2>1. /\ Len(micro) + i \in 1..(Len(micro) + Len(ws)) /\ ~(Len(micro) + i <= Len(micro))
        /\ (Len(micro) + i) - Len(micro) = i /\ DOMAIN micro' = 1..(Len(micro) + Len(ws))
    BY <1>1
  <2> QED BY <1>1, <2>1
<1>4. Elements(micro') \subseteq Elements(micro) \cup Elements(ws)
  BY <1>2 DEF Elements, ToSet
<1>5. Elements(micro) \subseteq Elements(micro')
  BY <1>2 DEF Elements, ToSet
<1>6. Elements(ws) \subseteq Elements(micro')
  BY <1>3 DEF Elements, ToSet
<1> QED BY <1>4, <1>5, <1>6

\* A step that begins and ends no kill.
KillsAlone ==
  /\ UNCHANGED killPromise /\ DOMAIN kills' = DOMAIN kills
  /\ \A k \in DOMAIN kills : kills'[k].phase = "drain" => kills[k].phase = "drain"
MicroAlone ==
  /\ \A c \in Elements(micro') : \/ c \in Elements(micro) \/ c.k \in {"dispatch", "booted"}
                                 \/ c.k = "publish" /\ c.ref = killPromise
  /\ \A c \in Elements(micro) : c.k \in {"start", "killed"} => c \in Elements(micro')
StackAlone ==
  /\ Len(stack') <= 1 /\ (Top("finish")' => job' # None)
  /\ ~KillTop' /\ ~Top("startBody")'

\* A step that begins and ends no kill keeps Single if the host stays calm under one.
LEMMA SingleStill ==
  ASSUME Single, KillsAlone, MicroAlone, StackAlone,
         killPromise # 0 \/ Resuming => Calm',
         killPromise # 0 /\ ~Micro("killed") /\ Unbooted => Unbooted',
         Detached' => StartPending'
  PROVE  Single'
<1>1. (Micro("killed") <=> Micro("killed")') /\ (Micro("start") => Micro("start")') /\ (Resuming' => Resuming)
  BY DEF MicroAlone, StackAlone, Micro, Resuming
<1>2. ~Top("killed")'
  BY DEF StackAlone, KillTop, KillKinds, Top
<1>3. OneKill'
  BY DEF Single, OneKill, KillsAlone, MicroAlone, StackAlone
<1>4. Quiescent'
  BY <1>1, <1>2 DEF Single, Quiescent, KillsAlone, StackAlone
<1> QED BY <1>3, <1>4 DEF Single, StackAlone

\* Without listeners a call comes to an empty stack.
LEMMA AloneCalls ==
  ASSUME ~Reentrant, Callable
  PROVE  stack = <<>> /\ ~KillTop /\ \A f : ~Top(f)
<1> QED BY DEF Callable, KillTop, Top

\* The only frame returned.
LEMMA AlonePop ==
  ASSUME StackInv, Len(stack) <= 1, \/ stack # <<>> /\ Return(<<>>)
                                    \/ stack' = <<>>
  PROVE  stack' = <<>> /\ StackAlone /\ ~KillTop' /\ \A f : ~Top(f)'
<1>1. stack' = <<>>
  <2>1. CASE stack # <<>> /\ Return(<<>>)
    <3>1. stack' \in Seq(Frames) /\ Len(stack') = Len(stack) - 1 /\ Len(stack) \in Nat
      BY <2>1, Popped DEF StackInv
    <3> QED BY <3>1
  <2> QED BY <2>1
<1>2. Len(stack') = 0
  BY <1>1
<1> QED BY <1>1, <1>2 DEF StackAlone, KillTop, Top

\* The stack has one frame.
LEMMA AlonePut ==
  ASSUME StackInv, Len(stack) <= 1, NEW fr, \/ stack = <<>> /\ stack' = <<fr>> \o stack
                                            \/ stack # <<>> /\ Return(<<fr>>)
                                            \/ stack' = <<fr>>
  PROVE  /\ stack' # <<>> /\ Len(stack') <= 1 /\ Head(stack') = fr /\ \A f : Top(f)' <=> fr.f = f
         /\ fr.f \notin {"finish", "startBody", "killed", "killEnd"} => StackAlone
<1>1. stack' = <<fr>>
  <2>1. CASE stack = <<>> /\ stack' = <<fr>> \o stack
    BY <2>1
  <2>2. CASE stack # <<>> /\ Return(<<fr>>)
    <3>1. stack \in Seq(Frames) /\ Tail(stack) \in Seq(Frames) /\ Len(Tail(stack)) = Len(stack) - 1
      BY <2>2 DEF StackInv
    <3>2. Len(Tail(stack)) = 0
      BY <2>2, <3>1
    <3>3. Tail(stack) = <<>>
      BY <3>1, <3>2
    <3>4. <<fr>> \o <<>> = <<fr>>
      OBVIOUS
    <3>5. stack' = <<fr>> \o Tail(stack)
      BY <2>2 DEF Return
    <3> QED BY <3>3, <3>4, <3>5
  <2> QED BY <2>1, <2>2
<1>2. Len(stack') = 1 /\ stack' # <<>> /\ Head(stack') = fr
  BY <1>1
<1> QED BY <1>2 DEF StackAlone, KillTop, KillKinds, Top

LEMMA MicroKept ==
  ASSUME UNCHANGED micro
  PROVE  MicroAlone
<1> QED BY DEF MicroAlone, Elements

\* A step that touches neither the kills nor what the pending start() waits for.
LEMMA SingleQuiet ==
  ASSUME Single, StackAlone, MicroAlone, UNCHANGED <<kills, killPromise>>,
         killPromise # 0 \/ Resuming => Calm',
         killPromise # 0 /\ ~Micro("killed") /\ Unbooted => Unbooted',
         Detached' => Detached /\ ~Top("start") /\ ~Top("startBody")
  PROVE  Single'
<1>1. KillsAlone
  BY DEF KillsAlone
<1>2. ASSUME Detached'
      PROVE  StartPending'
  <2>1. StartPending /\ ~Top("start") /\ ~Top("startBody")
    BY <1>2 DEF Single
  <2>2. Micro("start") => Micro("start")'
    BY DEF MicroAlone, Micro
  <2> QED BY <2>1, <2>2 DEF StartPending, Elements
<1> QED BY <1>1, <1>2, SingleStill

\* A step that leaves the boots alone too, and does not give the host a job.
LEMMA SingleHost ==
  ASSUME Single, StackAlone, MicroAlone, UNCHANGED lifecycle, Calm => Calm',
         ~Top("start"), ~Top("startBody")
  PROVE  Single'
<1>1. UNCHANGED <<kills, killPromise>> /\ (Unbooted => Unbooted') /\ (Detached' => Detached)
  BY DEF lifecycle, Unbooted, Detached, Fresh
<1>2. killPromise # 0 \/ Resuming => Calm'
  BY DEF Single, Quiescent
<1> QED BY <1>1, <1>2, SingleQuiet

LEMMA CallsSingle ==
  ASSUME KernelAssumption, Base, Single, ~Reentrant,
         \/ StartCall \/ Terminate \/ Restart
         \/ \E j \in Jobs : Exec(j) \/ CancelQueued(j) \/ CancelActive(j)
  PROVE  Single'
<1>1. Callable
  BY DEF StartCall, Terminate, Restart, Call, Exec, CancelQueued, CancelActive
<1>2. stack = <<>> /\ ~Top("start") /\ ~Top("startBody") /\ Len(stack) <= 1
  BY <1>1, AloneCalls DEF Single
<1>3. UNCHANGED <<state, worker, job, lifecycle, micro>>
  BY DEF StartCall, Terminate, Restart, Call, Exec, CancelQueued, CancelActive, host
<1>4. StackAlone
  <2>1. CASE StartCall \/ Terminate \/ Restart
    <3>1. PICK fr : stack' = <<fr>> \o stack /\ fr.f \in {"start", "kill"}
      BY <2>1, FrameKind DEF StartCall, Terminate, Restart, Call
    <3> QED BY <1>2, <3>1, AlonePut DEF Base
  <2>2. ASSUME NEW j \in Jobs, Exec(j)
        PROVE  StackAlone
    <3>1. PICK a, b : a = StartThen("dispatch") /\ b = Frame("dispatch")
      OBVIOUS
    <3>2. UNCHANGED stack \/ stack' = <<a>> \o stack \/ stack' = <<b>> \o stack
      BY <2>2, <3>1 DEF Exec
    <3>3. a.f = "start" /\ b.f = "dispatch"
      BY <3>1, FrameKind
    <3> QED BY <1>2, <3>2, <3>3, AlonePut, AlonePop DEF Base
  <2>3. ASSUME NEW j \in Jobs, CancelQueued(j) \/ CancelActive(j)
        PROVE  StackAlone
    BY <1>2, <2>3, AlonePop DEF CancelQueued, CancelActive, Base
  <2> QED BY <2>1, <2>2, <2>3
<1>5. Calm' = Calm
  BY <1>3 DEF Calm
<1> QED BY <1>2, <1>3, <1>4, <1>5, MicroKept, SingleHost

LEMMA EventsSingle ==
  ASSUME KernelAssumption, Base, Single,
         \/ WallClock \/ WorkerFault \/ BeginHardCancellation \/ BridgeRequest
         \/ \E o \in {"completed", "failed", "cancelled"} : Finished(o)
  PROVE  Single'
<1>1. stack = <<>> /\ UNCHANGED <<state, worker, job, lifecycle, micro>>
  BY DEF WallClock, WorkerFault, BeginHardCancellation, BridgeRequest, Finished, Executing, Idling, host
<1>2. ~Top("start") /\ ~Top("startBody") /\ Len(stack) <= 1
  BY <1>1 DEF Top, Single
<1>3. StackAlone
  <2>1. CASE WallClock \/ WorkerFault \/ BridgeRequest
    <3>1. PICK fr : fr = KillThen("none") /\ fr.f = "kill"
      BY FrameKind
    <3>2. stack' = <<>> \/ stack' = <<fr>>
      BY <1>1, <2>1, <3>1 DEF WallClock, WorkerFault, BridgeRequest
    <3> QED BY <1>2, <3>1, <3>2, AlonePut, AlonePop DEF Base
  <2>2. CASE BeginHardCancellation
    <3>1. PICK fr : fr = [Open(Frame("hard"), queue # <<>>) EXCEPT !.job = job]
      OBVIOUS
    <3>2. stack' = <<>> \/ stack' = <<fr>>
      BY <1>1, <2>2, <3>1 DEF BeginHardCancellation
    <3>3. fr.f = "hard"
      BY <3>1 DEF Open, Frame
    <3> QED BY <1>2, <3>2, <3>3, AlonePut, AlonePop DEF Base
  <2>3. ASSUME NEW o \in {"completed", "failed", "cancelled"}, Finished(o)
        PROVE  StackAlone
    <3>1. PICK a, b : /\ a = FinishFrame(worker, Authoritative(o))
                      /\ b = [Open(Frame("defer"), queue # <<>>)
                                EXCEPT !.job = job, !.ref = worker, !.to = Authoritative(o)]
      OBVIOUS
    <3>2. stack' = <<a>> \/ stack' = <<b>>
      BY <2>3, <3>1 DEF Finished
    <3>3. a.f = "finish" /\ b.f = "defer"
      BY <3>1, FrameKind DEF Open, Frame
    <3>4. job' # None
      BY <1>1, <2>3 DEF Finished, Executing
    <3>5. /\ Len(stack') <= 1 /\ stack' # <<>> /\ Head(stack') = (IF stack' = <<a>> THEN a ELSE b)
      BY <1>2, <3>2, AlonePut DEF Base
    <3> QED BY <3>3, <3>4, <3>5 DEF StackAlone, KillTop, KillKinds, Top
  <2> QED BY <2>1, <2>2, <2>3
<1>4. Calm' = Calm
  BY <1>1 DEF Calm
<1> QED BY <1>1, <1>2, <1>3, <1>4, MicroKept, SingleHost

LEMMA FramesSingle ==
  ASSUME KernelAssumption, Base, Single, PostExec \/ Defer \/ HardTerminate \/ StartNext \/ Dispatch
  PROVE  Single'
<1>1. /\ stack # <<>> /\ ~Top("start") /\ ~Top("startBody") /\ Len(stack) <= 1
      /\ UNCHANGED <<worker, lifecycle, micro>>
  BY DEF PostExec, Defer, HardTerminate, StartNext, Dispatch, Top, Single, host
<1>2. Calm => Calm'
  <2>1. CASE Dispatch
    BY <2>1 DEF Dispatch, Calm
  <2>2. CASE PostExec \/ Defer \/ HardTerminate \/ StartNext
    BY <2>2 DEF PostExec, Defer, HardTerminate, StartNext, Calm, host
  <2> QED BY <2>1, <2>2
<1>3. StackAlone
  <2>1. CASE PostExec \/ Defer
    BY <1>1, <2>1, AlonePop DEF PostExec, Defer, Base
  <2>2. CASE StartNext
    <3>1. PICK fr : fr = StartThen("dispatch") /\ fr.f = "start"
      BY FrameKind
    <3>2. Return(<<>>) \/ Return(<<fr>>)
      BY <2>2, <3>1 DEF StartNext
    <3> QED BY <1>1, <3>1, <3>2, AlonePut, AlonePop DEF Base
  <2>3. CASE HardTerminate
    <3>1. PICK fr : fr = HardFrame(Head(stack).job) /\ fr.f = "finalizeHard"
      BY FrameKind
    <3>2. Return(<<>>) \/ Return(<<fr>>)
      BY <2>3, <3>1 DEF HardTerminate
    <3> QED BY <1>1, <3>1, <3>2, AlonePut, AlonePop DEF Base
  <2>4. CASE Dispatch
    <3>1. PICK fr : fr = [Open(Frame("dispatched"), TRUE) EXCEPT !.job = Head(queue), !.ref = worker]
      OBVIOUS
    <3>2. Return(<<>>) \/ Return(<<fr>>)
      BY <2>4, <3>1 DEF Dispatch
    <3>3. fr.f = "dispatched"
      BY <3>1 DEF Open, Frame
    <3> QED BY <1>1, <3>2, <3>3, AlonePut, AlonePop DEF Base
  <2> QED BY <2>1, <2>2, <2>3, <2>4
<1> QED BY <1>1, <1>2, <1>3, MicroKept, SingleHost

LEMMA ReleaseSingle ==
  ASSUME KernelAssumption, Base, Single, Finish \/ FinalizeHardCancellation
  PROVE  Single'
<1>1. /\ stack # <<>> /\ ~Top("start") /\ ~Top("startBody") /\ Len(stack) <= 1
      /\ UNCHANGED <<kills, killPromise, boots, micro>>
  BY DEF Finish, FinalizeHardCancellation, Top, Single
<1>2. CASE Return(<<>>) /\ UNCHANGED <<state, worker, job, bootEpoch, bootPromise>>
  <2>1. StackAlone
    BY <1>1, <1>2, AlonePop DEF Base
  <2>2. Calm' = Calm /\ UNCHANGED lifecycle
    BY <1>1, <1>2 DEF Calm, lifecycle
  <2> QED BY <1>1, <2>1, <2>2, MicroKept, SingleHost
<1>3. CASE job # None /\ InvalidateBoot /\ Return(<<Open(Frame("next"), TRUE)>>)
  <2>1. PICK fr : fr = Open(Frame("next"), TRUE)
    OBVIOUS
  <2>2. fr.f = "next"
    BY <2>1 DEF Open, Frame
  <2>3. StackAlone
    BY <1>1, <1>3, <2>1, <2>2, AlonePut DEF Base
  <2>4. killPromise = 0 /\ ~Resuming
    BY <1>3 DEF Single, Quiescent, Calm
  <2>5. ~Detached'
    BY <1>1, <1>3 DEF InvalidateBoot, Detached, Fresh, Base, BootsTyped
  <2> QED BY <1>1, <2>3, <2>4, <2>5, MicroKept, SingleQuiet
<1>4. CASE Finish
  <2>1. job # None
    BY <1>4 DEF Finish, Single
  <2> QED BY <1>2, <1>3, <1>4, <2>1 DEF Finish, host
<1>5. CASE FinalizeHardCancellation
  <2>1. Head(stack).job # None
    BY <1>1, <1>5, TopFrame DEF FinalizeHardCancellation, Top, Base, FrameHolds, JobKinds, KernelAssumption
  <2> QED BY <1>2, <1>3, <1>5, <2>1 DEF FinalizeHardCancellation
<1> QED BY <1>4, <1>5

\* start() and killWorker() join the kill in progress.
LEMMA JoinSingle ==
  ASSUME KernelAssumption, Base, Single, Start \/ JoinKill
  PROVE  Single'
<1>1. /\ stack # <<>> /\ killPromise # 0 /\ Return(<<>>) /\ Len(stack) <= 1
      /\ UNCHANGED <<host, killPromise, boots, bootEpoch, bootPromise, micro>>
      /\ Top("start") \/ Top("kill")
  BY DEF Start, JoinKill, Top, Single
<1>2. PICK p : p = killPromise
  OBVIOUS
<1>3. p \in DOMAIN kills /\ kills[p] \in KillRecords /\ kills[p].waiters \in Seq(Waiters)
  BY <1>1, <1>2, KillTyped DEF Base, KillsTyped
<1>4. PICK ws \in Seq(Waiters) : /\ kills' = [kills EXCEPT ![p].waiters = kills[p].waiters \o ws]
                                 /\ Top("start") => \E i \in DOMAIN ws : ws[i].k = "start"
  <2>1. CASE Start
    <3>1. PICK c : c = [Cont("start", 0) EXCEPT !.then = Head(stack).then]
      OBVIOUS
    <3>2. Head(stack).then \in Starts
      BY <1>1, <2>1, TopFrame DEF Start, Top, Base, FrameHolds, StartKinds
    <3>3. c \in Waiters /\ c.k = "start"
      BY <3>1, <3>2 DEF Cont, Waiters, Conts, Resumptions
    <3>4. <<c>> \in Seq(Waiters) /\ 1 \in DOMAIN <<c>> /\ <<c>>[1] = c
      BY <3>3
    <3>5. Append(kills[p].waiters, c) = kills[p].waiters \o <<c>>
      BY <1>3, <3>3
    <3>6. kills' = [kills EXCEPT ![p].waiters = Append(kills[p].waiters, c)]
      BY <1>2, <2>1, <3>1 DEF Start
    <3> QED BY <3>3, <3>4, <3>5, <3>6
  <2>2. CASE JoinKill
    <3>1. Await(Head(stack).then) \in Seq(Waiters)
      BY <1>1, TopFrame, Awaited DEF Base
    <3>2. kills' = [kills EXCEPT ![p].waiters = kills[p].waiters \o Await(Head(stack).then)]
      BY <1>2, <2>2 DEF JoinKill
    <3>3. ~Top("start")
      BY <2>2 DEF JoinKill, Top
    <3> QED BY <3>1, <3>2, <3>3
  <2> QED BY <2>1, <2>2
<1>5. PICK w \in Seq(Waiters) :
        /\ w = kills[p].waiters \o ws
        /\ \A i \in DOMAIN kills[p].waiters : i \in DOMAIN w /\ w[i] = kills[p].waiters[i]
        /\ \A i \in DOMAIN ws : \E j \in DOMAIN w : w[j] = ws[i]
  <2>1. PICK a \in Seq(Waiters), n \in Nat : a = kills[p].waiters /\ n = Len(a) /\ DOMAIN a = 1..n
    BY <1>3
  <2>2. PICK w : w = a \o ws
    OBVIOUS
  <2>6. /\ w \in Seq(Waiters) /\ Len(w) = n + Len(ws)
        /\ \A i \in 1..(n + Len(ws)) : w[i] = IF i <= n THEN a[i] ELSE ws[i - n]
    BY <2>1, <2>2, Joined
  <2>7. DOMAIN w = 1..(n + Len(ws))
    BY <2>6
  <2>3. Len(ws) \in Nat /\ DOMAIN ws = 1..Len(ws)
    OBVIOUS
  <2>4. \A i \in DOMAIN a : i \in DOMAIN w /\ w[i] = a[i]
    BY <2>1, <2>3, <2>6, <2>7
  <2>5. ASSUME NEW i \in DOMAIN ws
        PROVE  n + i \in DOMAIN w /\ w[n + i] = ws[i]
    <3>1. n + i \in 1..(n + Len(ws)) /\ ~(n + i <= n) /\ (n + i) - n = i
      BY <2>1, <2>3
    <3> QED BY <2>6, <2>7, <3>1
  <2> QED BY <2>1, <2>2, <2>4, <2>5, <2>6
<1>6. kills' = [kills EXCEPT ![p].waiters = w]
  BY <1>4, <1>5
<1>7. kills'[p].waiters = w /\ KillsStill /\ Len(kills') = Len(kills)
  <2>1. kills'[p].waiters = w
    BY <1>3, <1>6 DEF KillRecords
  <2> QED BY <1>3, <1>6, <2>1, KillWaiters DEF Base
<1>8. KillsAlone
  BY <1>1, <1>7 DEF KillsAlone, KillsStill
<1>9. StackAlone
  BY <1>1, AlonePop DEF Base
<1>10. Calm' = Calm /\ Unbooted' = Unbooted /\ Detached' = Detached
  BY <1>1 DEF Calm, Unbooted, Detached, Fresh, host
<1>11. killPromise # 0 \/ Resuming => Calm'
  BY <1>10 DEF Single, Quiescent
<1>12. ASSUME Detached'
       PROVE  StartPending'
  <2>1. StartPending
    BY <1>10, <1>12 DEF Single
  <2>2. Micro("start") => Micro("start")'
    BY <1>1 DEF Micro, Elements
  <2>3. CASE Micro("start")
    BY <2>2, <2>3 DEF StartPending
  <2>4. CASE Top("start") \/ \E c \in Elements(kills[p].waiters) : c.k = "start"
    <3>1. \E c \in Elements(w) : c.k = "start"
      BY <1>4, <1>5, <2>4 DEF Elements, ToSet
    <3> QED BY <1>1, <1>2, <1>7, <3>1 DEF StartPending, Elements
  <2>5. ~Top("startBody")
    BY <1>1 DEF Top
  <2> QED BY <1>2, <2>1, <2>3, <2>4, <2>5 DEF StartPending
<1> QED BY <1>1, <1>8, <1>9, <1>10, <1>11, <1>12, MicroKept, SingleStill

\* Who awaits a boot goes on to dispatch.
LEMMA CallersSoft ==
  ASSUME NEW ws \in Seq(Callers)
  PROVE  ws \in Seq(Conts) /\ \A c \in Elements(ws) : c.k = "dispatch"
<1>1. ws \in Seq(Conts)
  BY DEF Callers, Waiters
<1>2. \A i \in DOMAIN ws : ws[i] \in Callers
  OBVIOUS
<1> QED BY <1>1, <1>2 DEF Callers, Elements, ToSet

LEMMA StartBodySingle ==
  ASSUME KernelAssumption, Base, Guest, Single, StartBody
  PROVE  Single'
<1> DEFINE next == Await(Head(stack).then)
<1>1. /\ stack # <<>> /\ Return(<<>>) /\ Head(stack).f \in StartKinds /\ Len(stack) <= 1
      /\ Top("startBody") \/ killPromise = 0
      /\ UNCHANGED <<worker, job, kills, killPromise>>
  BY DEF StartBody, Top, StartKinds, Single
<1>2. next \in Seq(Callers)
  <2>1. Head(stack).then \in Starts /\ Head(stack).then \in Nexts
    BY <1>1, TopFrame DEF Base, FrameHolds
  <2> QED BY <2>1, Awaited
<1>3. StackAlone
  BY <1>1, AlonePop DEF Base
<1>4. MicroAlone
  <2>1. micro' = micro \/ micro' = micro \o next
    BY DEF StartBody
  <2> HIDE DEF next
  <2>2. CASE micro' = micro \o next
    BY <1>2, <2>2, CallersSoft, JoinedConts DEF Base, MicroAlone
  <2> QED BY <2>1, <2>2, MicroKept
<1>5. ~Detached' /\ (state' = state \/ state' = "booting")
  <2>1. CASE Booted /\ UNCHANGED <<state, boots, bootEpoch, bootPromise>>
    <3>1. ~Fresh
      BY <2>1 DEF Booted, Guest, BootInv
    <3> QED BY <2>1, <3>1 DEF Detached, Fresh
  <2>2. CASE bootPromise # 0 /\ UNCHANGED <<state, bootPromise>>
    BY <2>2 DEF Detached
  <2>3. CASE bootPromise' = bootEpoch + 1 /\ state' = "booting"
    BY <2>3 DEF Detached, Base, BootsTyped
  <2> QED BY <2>1, <2>2, <2>3 DEF StartBody
<1>6. killPromise # 0 \/ Resuming => Calm'
  BY <1>1, <1>5 DEF Single, Quiescent, Calm
<1>7. ~(killPromise # 0 /\ ~Micro("killed"))
  BY <1>1 DEF Single, Quiescent, Resuming
<1> QED BY <1>1, <1>3, <1>4, <1>5, <1>6, <1>7, SingleQuiet

LEMMA BootStepsSingle ==
  ASSUME KernelAssumption, Base, Guest, Single, NEW e \in DOMAIN boots,
         PreflightDone(e) \/ Ready(e) \/ BootFails(e)
  PROVE  Single'
<1>1. /\ stack = <<>> /\ micro = <<>> /\ UNCHANGED <<kills, killPromise, bootEpoch, stack, job>>
      /\ Len(stack) <= 1
  BY DEF PreflightDone, Ready, BootFails, Idling, Single
<1>2. ~Top("start") /\ ~Top("startBody") /\ ~Resuming /\ ~Micro("killed")
  BY <1>1 DEF Resuming, Micro, Top, Elements, ToSet
<1>3. StackAlone
  BY <1>1, AlonePop DEF Base
<1>4. MicroAlone
  <2>1. CASE Ready(e)
    <3>1. e \in Nat
      BY DEF Base, BootsTyped
    <3>2. PICK c \in Conts : c = Cont("booted", e) /\ c.k = "booted"
      BY <3>1, NewConts
    <3>3. micro' = Append(micro, c)
      BY <2>1, <3>2 DEF Ready
    <3> QED BY <3>2, <3>3, AddedCont DEF Base, MicroAlone
  <2> QED BY <2>1, MicroKept DEF PreflightDone, BootFails
<1>5. Len(boots') = Len(boots) /\ DOMAIN boots' = DOMAIN boots /\ bootPromise' \in {0, bootPromise}
  <2>1. CASE PreflightDone(e)
    BY <2>1 DEF PreflightDone, Base, BootsTyped
  <2>2. CASE Ready(e)
    BY <2>2 DEF Ready, Base, BootsTyped
  <2>3. CASE BootFails(e)
    BY <2>3 DEF BootFails, Base, BootsTyped
  <2> QED BY <2>1, <2>2, <2>3
<1>6. killPromise # 0 => Unbooted /\ Calm
  BY <1>2 DEF Single, Quiescent
<1>7. killPromise # 0 => bootEpoch # e
  BY <1>6 DEF Unbooted, Base, BootsTyped
<1>8. killPromise # 0 => Calm'
  <2>1. CASE PreflightDone(e)
    BY <1>6, <1>7, <2>1 DEF PreflightDone, AssertCurrentBoot, Calm
  <2>2. CASE Ready(e) \/ BootFails(e)
    BY <1>6, <1>7, <2>2 DEF Ready, BootFails, AssertCurrentBoot, Calm
  <2> QED BY <2>1, <2>2
<1>9. Detached' => Detached
  <2>1. SUFFICES ASSUME Fresh', bootPromise' = 0
                 PROVE  Fresh /\ bootPromise = 0
    BY DEF Detached
  <2>2. CASE PreflightDone(e)
    <3>1. CASE bootEpoch = e
      <4>1. boots' = [boots EXCEPT ![e].phase = "handshake"] /\ boots[e] \in BootRecords
        BY <2>2, <3>1 DEF PreflightDone, AssertCurrentBoot, Base, BootsTyped
      <4>2. boots'[e].phase = "handshake"
        BY <4>1 DEF BootRecords
      <4> QED BY <1>1, <2>1, <3>1, <4>2 DEF Fresh
    <3>2. CASE bootEpoch # e
      <4>1. boots' = [boots EXCEPT ![e] = [phase |-> "dead", waiters |-> <<>>]] /\ UNCHANGED bootPromise
        BY <2>2, <3>2 DEF PreflightDone, AssertCurrentBoot
      <4> QED BY <1>1, <2>1, <3>2, <4>1 DEF Fresh
    <3> QED BY <3>1, <3>2
  <2>3. CASE Ready(e)
    <3>1. bootEpoch = e /\ boots' = [boots EXCEPT ![e].phase = "ready"] /\ boots[e] \in BootRecords
      BY <2>3 DEF Ready, AssertCurrentBoot, Base, BootsTyped
    <3>2. boots'[e].phase = "ready"
      BY <3>1 DEF BootRecords
    <3> QED BY <1>1, <2>1, <3>1, <3>2 DEF Fresh
  <2>4. CASE BootFails(e)
    <3>1. bootEpoch = e /\ boots' = [boots EXCEPT ![e] = [phase |-> "dead", waiters |-> <<>>]]
      BY <2>4 DEF BootFails
    <3> QED BY <1>1, <2>1, <3>1 DEF Fresh
  <2> QED BY <2>2, <2>3, <2>4
<1>10. Unbooted' = Unbooted
  BY <1>1, <1>5 DEF Unbooted
<1> QED BY <1>1, <1>2, <1>3, <1>4, <1>8, <1>9, <1>10, SingleQuiet

LEMMA BootSettlesSingle ==
  ASSUME KernelAssumption, Base, Single, BootSettles
  PROVE  Single'
<1>1. PICK e, ws : /\ e = Head(micro).ref
                   /\ ws = IF bootEpoch = e /\ bootPromise = e THEN boots[e].waiters ELSE <<>>
  OBVIOUS
<1>2. /\ stack = <<>> /\ micro # <<>> /\ Head(micro).k = "booted" /\ micro' = Tail(micro) \o ws
      /\ UNCHANGED <<host, kills, killPromise, bootEpoch, bootPromise, stack>> /\ Len(stack) <= 1
      /\ \E p \in {"done", "dead"} : boots' = [boots EXCEPT ![e] = [phase |-> p, waiters |-> <<>>]]
  BY <1>1 DEF BootSettles, Continue, Single
<1>3. e \in DOMAIN boots
  BY <1>1, <1>2, HeadCont DEF Base, ContHolds
<1>4. ws \in Seq(Callers)
  <2>1. boots[e] \in BootRecords
    BY <1>3 DEF Base, BootsTyped
  <2>2. boots[e].waiters \in Seq(Callers)
    BY <2>1 DEF BootRecords
  <2> QED BY <1>1, <2>2
<1>5. ws \in Seq(Conts) /\ \A c \in Elements(ws) : c.k = "dispatch"
  BY <1>4, CallersSoft
<1>6. /\ \A c \in Elements(micro') : c \in Elements(micro) \/ c \in Elements(ws)
      /\ \A c \in Elements(micro) : c = Head(micro) \/ c \in Elements(micro')
  BY <1>2, <1>5, TakenConts DEF Base
<1>7. MicroAlone
  BY <1>2, <1>5, <1>6 DEF MicroAlone
<1>8. ~Top("start") /\ ~Top("startBody") /\ StackAlone
  BY <1>2, AlonePop DEF Top, Base
<1>9. Calm' = Calm /\ Unbooted' = Unbooted /\ (Detached' => Detached)
  <2>1. Len(boots') = Len(boots) /\ DOMAIN boots' = DOMAIN boots
    BY <1>2 DEF Base, BootsTyped
  <2>2. Fresh' => Fresh
    BY <1>2 DEF Fresh
  <2> QED BY <1>2, <2>1, <2>2 DEF Calm, Unbooted, Detached, host
<1>10. killPromise # 0 \/ Resuming => Calm'
  BY <1>9 DEF Single, Quiescent
<1> QED BY <1>2, <1>7, <1>8, <1>9, <1>10, SingleQuiet

LEMMA ResumeSingle ==
  ASSUME KernelAssumption, Base, Single, ResumeDispatch \/ ResumeTerminate
  PROVE  Single'
<1>1. /\ stack = <<>> /\ micro # <<>> /\ Head(micro).k \in {"dispatch", "terminate"} /\ Len(stack) <= 1
      /\ micro' = Tail(micro) /\ UNCHANGED <<worker, job, lifecycle>> /\ state' \in {state, "stopped"}
  BY DEF ResumeDispatch, ResumeTerminate, Continue, Single, host
<1>2. micro' = Tail(micro) \o <<>> /\ <<>> \in Seq(Conts) /\ Elements(<<>>) = {}
  BY <1>1 DEF Base, MicroInv, Elements, ToSet
<1>3. /\ \A c \in Elements(micro') : c \in Elements(micro)
      /\ \A c \in Elements(micro) : c = Head(micro) \/ c \in Elements(micro')
  BY <1>1, <1>2, TakenConts DEF Base
<1>4. MicroAlone
  BY <1>1, <1>3 DEF MicroAlone
<1>5. StackAlone
  <2>1. PICK fr : fr = Frame("dispatch") /\ fr.f = "dispatch"
    BY FrameKind
  <2>2. stack' = <<fr>> \/ stack' = <<>>
    BY <1>1, <2>1 DEF ResumeDispatch, ResumeTerminate
  <2> QED BY <1>1, <2>1, <2>2, AlonePut, AlonePop DEF Base
<1>6. ~Top("start") /\ ~Top("startBody") /\ (Calm => Calm')
  BY <1>1 DEF Top, Calm
<1> QED BY <1>1, <1>4, <1>5, <1>6, SingleHost

LEMMA ResumeRestartSingle ==
  ASSUME KernelAssumption, Base, Single, ResumeRestart
  PROVE  Single'
<1>1. /\ stack = <<>> /\ micro # <<>> /\ Head(micro).k = "restart" /\ Len(stack) <= 1
      /\ micro' = Tail(micro) /\ UNCHANGED <<host, kills, killPromise, boots, bootEpoch>>
  BY DEF ResumeRestart, Continue, Single
<1>2. micro' = Tail(micro) \o <<>> /\ <<>> \in Seq(Conts) /\ Elements(<<>>) = {}
  BY <1>1 DEF Base, MicroInv, Elements, ToSet
<1>3. /\ \A c \in Elements(micro') : c \in Elements(micro)
      /\ \A c \in Elements(micro) : c = Head(micro) \/ c \in Elements(micro')
  BY <1>1, <1>2, TakenConts DEF Base
<1>4. MicroAlone
  BY <1>1, <1>3 DEF MicroAlone
<1>5. PICK fr : fr = StartThen("none") /\ fr.f = "start"
  BY FrameKind
<1>6. StackAlone /\ Top("start")'
  BY <1>1, <1>5, AlonePut DEF Base, ResumeRestart
<1>7. KillsAlone /\ Calm' = Calm /\ Unbooted' = Unbooted /\ StartPending'
  BY <1>1, <1>6 DEF KillsAlone, Calm, Unbooted, StartPending, host
<1>8. killPromise # 0 \/ Resuming => Calm'
  BY <1>7 DEF Single, Quiescent
<1> QED BY <1>4, <1>6, <1>7, <1>8, SingleStill

LEMMA BridgeSettlesSingle ==
  ASSUME KernelAssumption, Base, Single, NEW e \in effects, BridgeSettles(e)
  PROVE  Single'
<1>1. /\ stack = <<>> /\ Len(stack) <= 1
      /\ UNCHANGED <<state, worker, job, killPromise, boots, bootEpoch, bootPromise>>
  BY DEF BridgeSettles, Single
<1>2. ~Top("start") /\ ~Top("startBody")
  BY <1>1 DEF Top
<1>3. /\ KillsAlone /\ MicroAlone
      /\ \A k \in DOMAIN kills : kills'[k].waiters = kills[k].waiters
  <2>1. CASE UNCHANGED <<kills, micro>>
    BY <1>1, <2>1, MicroKept DEF KillsAlone
  <2>2. ASSUME Drained(e) # {}
        PROVE  /\ KillsAlone /\ MicroAlone
               /\ \A k \in DOMAIN kills : kills'[k].waiters = kills[k].waiters
    <3>1. PICK k : k = CHOOSE x \in Drained(e) : TRUE
      OBVIOUS
    <3>2. k \in DOMAIN kills /\ kills[k].phase = "drain" /\ k \in Nat
      BY <2>2, <3>1 DEF Drained, Base, KillsTyped
    <3>3. kills' = [kills EXCEPT ![k].phase = "publish"] /\ micro' = Append(micro, Cont("publish", k))
      BY <2>2, <3>1 DEF BridgeSettles
    <3>4. k = killPromise
      BY <3>2 DEF Single, OneKill
    <3>5. kills[k] \in KillRecords
      BY <3>2, KillTyped DEF Base
    <3>6. /\ DOMAIN kills' = DOMAIN kills /\ kills'[k].phase = "publish" /\ kills'[k].waiters = kills[k].waiters
          /\ \A l \in DOMAIN kills : l # k => kills'[l] = kills[l]
      BY <3>2, <3>3, <3>5 DEF KillRecords
    <3>7. PICK c \in Conts : c = Cont("publish", k) /\ c.k = "publish" /\ c.ref = k
      BY <3>2, NewConts
    <3>8. Elements(micro') = Elements(micro) \cup {c}
      BY <3>3, <3>7, AddedCont DEF Base
    <3> QED BY <1>1, <3>4, <3>6, <3>7, <3>8 DEF KillsAlone, MicroAlone
  <2> QED BY <2>1, <2>2 DEF BridgeSettles
<1>4. StackAlone
  <2>1. PICK a, b : a = HardFrame(job) /\ b = FinishFrame(worker, Authoritative(active.deferred))
    OBVIOUS
  <2>2. a.f = "finalizeHard" /\ b.f = "finish"
    BY <2>1, FrameKind
  <2>3. stack' = <<>> \/ stack' = <<a>> \/ (stack' = <<b>> /\ job = e.job)
    BY <1>1, <2>1 DEF BridgeSettles
  <2>4. CASE stack' = <<>> \/ stack' = <<a>>
    BY <1>1, <2>2, <2>4, AlonePop, AlonePut DEF Base
  <2>5. CASE stack' = <<b>> /\ job = e.job
    <3>1. job' # None
      BY <1>1, <2>5, NoJobNoEffects
    <3>2. Len(stack') <= 1 /\ stack' # <<>> /\ Head(stack') = b
      BY <1>1, <2>5, AlonePut DEF Base
    <3> QED BY <2>2, <3>1, <3>2 DEF StackAlone, KillTop, KillKinds, Top
  <2> QED BY <2>3, <2>4, <2>5
<1>5. Calm' = Calm /\ Unbooted' = Unbooted /\ Detached' = Detached
  BY <1>1 DEF Calm, Unbooted, Detached, Fresh
<1>6. killPromise # 0 \/ Resuming => Calm'
  BY <1>5 DEF Single, Quiescent
<1>7. ASSUME Detached'
      PROVE  StartPending'
  <2>1. StartPending
    BY <1>5, <1>7 DEF Single
  <2>2. Micro("start") => Micro("start")'
    BY <1>3 DEF MicroAlone, Micro
  <2>3. killPromise # 0 => kills'[killPromise].waiters = kills[killPromise].waiters
    BY <1>3 DEF Base, KillsTyped
  <2> QED BY <1>1, <1>2, <2>1, <2>2, <2>3 DEF StartPending, Elements
<1> QED BY <1>3, <1>4, <1>5, <1>6, <1>7, SingleStill

\* No kill that awaits or has awaited its tasks is left when killPromise is unset.
LEMMA NoOtherKill ==
  ASSUME Base, Single, killPromise = 0
  PROVE  /\ \A c \in Elements(micro) : c.k \notin {"publish", "killed"}
         /\ \A k \in DOMAIN kills : kills[k].phase # "drain"
<1>1. 0 \notin DOMAIN kills
  BY DEF Base, KillsTyped
<1> QED BY <1>1 DEF Single, OneKill, Base, MicroInv, ContHolds

\* A kill begins only when none is in progress.
LEMMA PerformKillSingle ==
  ASSUME KernelAssumption, Base, Single, PerformKill
  PROVE  Single'
<1>1. /\ stack # <<>> /\ Head(stack).f = "kill" /\ Len(stack) <= 1 /\ killPromise = 0
      /\ job' = None /\ worker' = 0 /\ state' = "draining" /\ bootEpoch' = bootEpoch + 1
      /\ kills' = Append(kills, [phase |-> "sync", job |-> job, tasks |-> CapturedTasks, waiters |-> <<>>])
      /\ UNCHANGED <<killPromise, boots, micro>>
  BY DEF PerformKill, Top, Single, Release, InvalidateBoot
<1>2. PICK fr : fr = [Open(Frame("killed"), queue # <<>>)
                        EXCEPT !.then = Head(stack).then, !.ref = Len(kills) + 1]
  OBVIOUS
<1>3. Return(<<fr>>) /\ fr.f = "killed" /\ fr.ref = Len(kills) + 1
  BY <1>2 DEF PerformKill, Open, Frame
<1>4. Len(stack') <= 1 /\ Head(stack') = fr /\ \A f : Top(f)' <=> fr.f = f
  BY <1>1, <1>3, AlonePut DEF Base
<1>5. PICK r : r = [phase |-> "sync", job |-> job, tasks |-> CapturedTasks, waiters |-> <<>>]
  OBVIOUS
<1>6. /\ kills'[Len(kills) + 1] = r
      /\ \A k \in DOMAIN kills' : k = Len(kills) + 1 \/ (kills'[k] = kills[k] /\ k \in DOMAIN kills)
  <2>1. CapturedTasks \in SUBSET Tasks /\ job \in JobOrNone
    BY DEF CapturedTasks, EffectsOf, Base, HostInv, HostTyped
  <2>2. r \in KillRecords
    BY <1>5, <2>1 DEF KillRecords
  <2>3. kills \in Seq(KillRecords) /\ kills' = Append(kills, r)
    BY <1>1, <1>5 DEF Base, KillsTyped
  <2>4. /\ kills' \in Seq(KillRecords) /\ Len(kills') = Len(kills) + 1 /\ kills'[Len(kills) + 1] = r
        /\ \A i \in 1..Len(kills) : kills'[i] = kills[i]
    BY <2>2, <2>3, Appended
  <2> QED BY <2>3, <2>4
<1>7. r.phase = "sync" /\ r.tasks = CapturedTasks
  BY <1>5
<1>8. /\ \A c \in Elements(micro) : c.k \notin {"publish", "killed"}
      /\ \A k \in DOMAIN kills : kills[k].phase # "drain"
  BY <1>1, NoOtherKill
<1>9. OneKill'
  BY <1>1, <1>3, <1>4, <1>6, <1>7, <1>8 DEF OneKill, KillTop, KillKinds, Elements
<1>10. Unbooted' /\ Calm' /\ ~Detached'
  BY <1>1 DEF Unbooted, Calm, Detached, Fresh, Base, BootsTyped
<1>11. r.tasks # {} => ~Resuming'
  <2>1. SUFFICES ASSUME CapturedTasks # {}
                 PROVE  ~Resuming'
    BY <1>7
  <2>2. job # None
    BY <2>1, NoJobNoEffects DEF CapturedTasks, EffectsOf
  <2>3. ~Resuming
    BY <2>2 DEF Single, Quiescent, Calm
  <2> QED BY <1>1, <1>3, <1>4, <2>3 DEF Resuming, Micro, Elements
<1>12. Quiescent'
  BY <1>1, <1>3, <1>4, <1>6, <1>10, <1>11 DEF Quiescent
<1> QED BY <1>3, <1>4, <1>9, <1>10, <1>12 DEF Single

LEMMA AwaitTasksSingle ==
  ASSUME KernelAssumption, Base, Single, AwaitTasks
  PROVE  Single'
<1>1. PICK top, k : top = Head(stack) /\ k = top.ref
  OBVIOUS
<1>2. /\ stack # <<>> /\ top.f = "killed" /\ Top("killed") /\ KillTop /\ Len(stack) <= 1
      /\ UNCHANGED <<host, boots, bootEpoch, bootPromise, micro>>
  BY <1>1 DEF AwaitTasks, Top, KillTop, KillKinds, Single
<1>3. k \in DOMAIN kills /\ kills[k].phase = "sync" /\ kills[k] \in KillRecords /\ k # 0
  BY <1>1, <1>2, TopFrame, KillTyped DEF Base, FrameHolds, KillKinds, KillsTyped
<1>4. killPromise = 0
  BY <1>1, <1>2, <1>3 DEF Single, OneKill
<1>5. /\ \A c \in Elements(micro) : c.k \notin {"publish", "killed"}
      /\ \A l \in DOMAIN kills : kills[l].phase # "drain"
  BY <1>4, NoOtherKill
<1>6. Calm /\ Calm' /\ Unbooted' = Unbooted /\ Detached' = Detached
  BY <1>2 DEF Calm, Unbooted, Detached, Fresh, host, Single, Quiescent
<1>7. (\A m : Micro(m)' <=> Micro(m)) /\ (Detached => Micro("start"))
  BY <1>2, <1>4 DEF Micro, Elements, Single, StartPending, Top
<1>8. ASSUME kills[k].tasks # {}, killPromise' = k, Return(<<>>),
             kills' = [kills EXCEPT ![k].phase = "drain", ![k].waiters = Await(top.then)]
      PROVE  Single'
  <2>1. stack' = <<>> /\ Len(stack') <= 1 /\ ~KillTop' /\ \A f : ~Top(f)'
    BY <1>2, <1>8, AlonePop DEF Base, StackAlone
  <2>2. DOMAIN kills' = DOMAIN kills /\ \A l \in DOMAIN kills : l # k => kills'[l] = kills[l]
    BY <1>8
  <2>3. OneKill'
    BY <1>2, <1>5, <1>8, <2>1, <2>2 DEF OneKill, Elements
  <2>4. Unbooted /\ ~Resuming
    BY <1>1, <1>2, <1>8 DEF Single, Quiescent
  <2>5. Quiescent'
    BY <1>6, <1>7, <2>1, <2>4 DEF Quiescent, Resuming
  <2>6. Detached' => StartPending'
    BY <1>6, <1>7 DEF StartPending
  <2> QED BY <2>1, <2>3, <2>5, <2>6 DEF Single
<1>9. ASSUME UNCHANGED <<kills, killPromise>>,
             Return(<<[Open(Frame("killEnd"), kills[k].job # None) EXCEPT !.then = top.then, !.ref = k]>>)
      PROVE  Single'
  <2>1. PICK fr : fr = [Open(Frame("killEnd"), kills[k].job # None) EXCEPT !.then = top.then, !.ref = k]
    OBVIOUS
  <2>2. fr.f = "killEnd" /\ fr.ref = k
    BY <2>1 DEF Open, Frame
  <2>3. Len(stack') <= 1 /\ Head(stack') = fr /\ \A f : Top(f)' <=> fr.f = f
    BY <1>2, <1>9, <2>1, AlonePut DEF Base
  <2>4. OneKill'
    BY <1>2, <1>3, <1>4, <1>5, <1>9, <2>2, <2>3 DEF OneKill, Elements
  <2>5. Quiescent'
    BY <1>4, <1>6, <1>9, <2>2, <2>3 DEF Quiescent
  <2>6. Detached' => StartPending'
    BY <1>6, <1>7 DEF StartPending
  <2> QED BY <2>2, <2>3, <2>4, <2>5, <2>6 DEF Single
<1> QED BY <1>1, <1>8, <1>9 DEF AwaitTasks

LEMMA KillEndsSingle ==
  ASSUME KernelAssumption, Base, Single, KillEnds
  PROVE  Single'
<1>1. PICK top, k : top = Head(stack) /\ k = top.ref
  OBVIOUS
<1>2. /\ stack # <<>> /\ top.f = "killEnd" /\ Top("killEnd") /\ KillTop /\ Len(stack) <= 1
      /\ Return(<<>>) /\ state' = "failed" /\ micro' = Append(micro, Cont("killed", k))
      /\ UNCHANGED <<worker, job, boots, bootEpoch, bootPromise>>
  BY <1>1 DEF KillEnds, Top, KillTop, KillKinds, Single
<1>3. k \in DOMAIN kills /\ kills[k].phase \in {"sync", "publish"} /\ kills[k] \in KillRecords /\ k \in Nat /\ k # 0
  BY <1>1, <1>2, TopFrame, KillTyped DEF Base, FrameHolds, KillKinds, KillsTyped
<1>4. PICK c \in Conts : c = Cont("killed", k) /\ c.k = "killed" /\ c.ref = k
  BY <1>3, NewConts
<1>5. Elements(micro') = Elements(micro) \cup {c}
  BY <1>2, <1>4, AddedCont DEF Base
<1>6. stack' = <<>> /\ Len(stack') <= 1 /\ ~KillTop' /\ \A f : ~Top(f)'
  BY <1>2, AlonePop DEF Base, StackAlone
<1>7. Calm' /\ Detached' = Detached /\ Micro("killed")'
  BY <1>2, <1>4, <1>5 DEF Calm, Detached, Fresh, Micro, Single, Quiescent
<1>8. Quiescent'
  BY <1>6, <1>7 DEF Quiescent
<1>9. killPromise' = k /\ killPromise \in {0, k} /\ (killPromise = k => kills[k].phase = "publish")
  <2>1. CASE kills[k].phase = "sync"
    <3>1. killPromise = 0
      BY <1>1, <1>2, <2>1 DEF Single, OneKill
    <3>2. killPromise' = k
      BY <1>1, <2>1 DEF KillEnds
    <3> QED BY <1>3, <3>1, <3>2
  <2>2. CASE kills[k].phase = "publish"
    <3>1. killPromise = k
      BY <1>1, <1>2, <2>2 DEF Single, OneKill
    <3> QED BY <1>1, <2>2, <3>1 DEF KillEnds
  <2> QED BY <1>3, <2>1, <2>2
<1>10. /\ DOMAIN kills' = DOMAIN kills /\ kills'[k].phase = "ended"
       /\ \A l \in DOMAIN kills : l # k => kills'[l] = kills[l]
       /\ killPromise = k => kills'[k].waiters = kills[k].waiters
  <2>1. CASE kills[k].phase = "sync"
    <3>1. kills' = [kills EXCEPT ![k].phase = "ended", ![k].waiters = Await(top.then)] /\ killPromise # k
      BY <1>1, <1>9, <2>1 DEF KillEnds
    <3> QED BY <1>3, <3>1 DEF KillRecords
  <2>2. CASE kills[k].phase = "publish"
    <3>1. kills' = [kills EXCEPT ![k].phase = "ended"]
      BY <1>1, <2>2 DEF KillEnds
    <3> QED BY <1>3, <3>1 DEF KillRecords
  <2> QED BY <1>3, <2>1, <2>2
<1>11. OneKill'
  <2>1. \A x \in Elements(micro) : x.k \in {"publish", "killed"} => x.ref = k
    <3>1. CASE killPromise = 0
      BY <3>1, NoOtherKill
    <3>2. CASE killPromise = k
      BY <3>2 DEF Single, OneKill
    <3> QED BY <1>9, <3>1, <3>2
  <2>2. \A l \in DOMAIN kills : kills[l].phase = "drain" => l = k
    <3>1. CASE killPromise = 0
      BY <3>1, NoOtherKill
    <3>2. CASE killPromise = k
      BY <3>2 DEF Single, OneKill
    <3> QED BY <1>9, <3>1, <3>2
  <2> QED BY <1>4, <1>5, <1>6, <1>9, <1>10, <2>1, <2>2 DEF OneKill
<1>12. ASSUME Detached'
       PROVE  StartPending'
  <2>1. StartPending /\ ~Top("start") /\ ~Top("startBody")
    BY <1>2, <1>7, <1>12 DEF Single, Top
  <2>2. Micro("start") => Micro("start")'
    BY <1>5 DEF Micro
  <2>3. killPromise # 0 => killPromise = k
    BY <1>9
  <2> QED BY <1>3, <1>9, <1>10, <2>1, <2>2, <2>3 DEF StartPending, Elements
<1> QED BY <1>6, <1>8, <1>11, <1>12 DEF Single

LEMMA PublishCrashSingle ==
  ASSUME KernelAssumption, Base, Single, PublishCrash
  PROVE  Single'
<1>1. PICK k : k = Head(micro).ref
  OBVIOUS
<1>2. /\ stack = <<>> /\ Len(stack) <= 1 /\ micro # <<>> /\ Head(micro).k = "publish" /\ micro' = Tail(micro)
      /\ stack' = <<[Open(Frame("killEnd"), kills[k].job # None) EXCEPT !.ref = k]>>
      /\ UNCHANGED <<host, lifecycle>>
  BY <1>1 DEF PublishCrash, Continue, Single
<1>3. Head(micro) \in Elements(micro) /\ k \in DOMAIN kills /\ kills[k].phase = "publish" /\ k # 0
  <2>1. Head(micro) \in Elements(micro)
    BY <1>2 DEF Base, MicroInv, Elements, ToSet
  <2> QED BY <1>1, <1>2, <2>1, HeadCont DEF Base, ContHolds, KillsTyped
<1>4. killPromise = k /\ Calm
  BY <1>1, <1>2, <1>3 DEF Single, OneKill, Quiescent
<1>5. PICK fr : fr = [Open(Frame("killEnd"), kills[k].job # None) EXCEPT !.ref = k]
  OBVIOUS
<1>6. fr.f = "killEnd" /\ fr.ref = k
  BY <1>5 DEF Open, Frame
<1>7. Len(stack') <= 1 /\ Head(stack') = fr /\ \A f : Top(f)' <=> fr.f = f
  BY <1>2, <1>5, AlonePut DEF Base
<1>8. micro' = Tail(micro) \o <<>> /\ <<>> \in Seq(Conts) /\ Elements(<<>>) = {}
  BY <1>2 DEF Base, MicroInv, Elements, ToSet
<1>9. /\ \A c \in Elements(micro') : c \in Elements(micro)
      /\ \A c \in Elements(micro) : c = Head(micro) \/ c \in Elements(micro')
  BY <1>2, <1>8, TakenConts DEF Base
<1>10. /\ Calm' = Calm /\ Unbooted' = Unbooted /\ Detached' = Detached /\ (Micro("start") => Micro("start")')
       /\ (Micro("killed") => Micro("killed")') /\ (Resuming' => Resuming)
  BY <1>2, <1>6, <1>7, <1>9 DEF Calm, Unbooted, Detached, Fresh, Micro, Resuming, host, lifecycle
<1>11. OneKill'
  BY <1>2, <1>3, <1>4, <1>6, <1>7, <1>9 DEF Single, OneKill, lifecycle
<1>12. Quiescent'
  BY <1>2, <1>4, <1>6, <1>7, <1>10 DEF Single, Quiescent, lifecycle
<1>13. Detached' => StartPending'
  BY <1>2, <1>10 DEF Single, StartPending, Top, Elements, lifecycle
<1> QED BY <1>6, <1>7, <1>11, <1>12, <1>13 DEF Single

\* The kill in progress is over, and those who awaited it go on.
LEMMA KillSettlesSingle ==
  ASSUME KernelAssumption, Base, Single, KillSettles
  PROVE  Single'
<1>1. PICK k : k = Head(micro).ref
  OBVIOUS
<1>2. /\ stack = <<>> /\ Len(stack) <= 1 /\ micro # <<>> /\ Head(micro).k = "killed"
      /\ micro' = Tail(micro) \o kills[k].waiters
      /\ killPromise' = IF killPromise = k THEN 0 ELSE killPromise
      /\ kills' = [kills EXCEPT ![k] = [phase |-> "over", job |-> None, tasks |-> {}, waiters |-> <<>>]]
      /\ UNCHANGED <<host, boots, bootEpoch, bootPromise, stack>>
  BY <1>1 DEF KillSettles, Continue, Single
<1>3. Head(micro) \in Elements(micro) /\ k \in DOMAIN kills /\ kills[k].phase = "ended" /\ k # 0
  <2>1. Head(micro) \in Elements(micro)
    BY <1>2 DEF Base, MicroInv, Elements, ToSet
  <2> QED BY <1>1, <1>2, <2>1, HeadCont DEF Base, ContHolds, KillsTyped
<1>4. killPromise = k /\ killPromise' = 0 /\ Calm
  BY <1>1, <1>2, <1>3 DEF Single, OneKill, Quiescent
<1>5. kills[k].waiters \in Seq(Waiters)
  BY <1>3, KillTyped DEF Base
<1>6. /\ kills[k].waiters \in Seq(Conts)
      /\ \A c \in Elements(kills[k].waiters) : c.k \notin {"publish", "killed"}
  <2>1. \A c \in Waiters : c \in Conts /\ c.k \notin {"publish", "killed"}
    BY DEF Waiters, Resumptions, KernelAssumption
  <2>2. \A i \in DOMAIN kills[k].waiters : kills[k].waiters[i] \in Waiters
    BY <1>5
  <2>3. kills[k].waiters \in Seq(Conts)
    BY <1>5, <2>1
  <2> QED BY <2>1, <2>2, <2>3 DEF Elements, ToSet
<1>7. /\ \A c \in Elements(micro') : \/ c \in Elements(micro) /\ Distinct(Head(micro), c)
                                     \/ c \in Elements(kills[k].waiters)
      /\ \A c \in Elements(micro) : c = Head(micro) \/ c \in Elements(micro')
      /\ \A c \in Elements(kills[k].waiters) : c \in Elements(micro')
  BY <1>2, <1>6, TakenConts DEF Base
<1>8. \A c \in Elements(micro') : c.k \notin {"publish", "killed"}
  <2> SUFFICES ASSUME NEW c \in Elements(micro'), c.k \in {"publish", "killed"}
               PROVE  FALSE
    OBVIOUS
  <2>1. c \in Elements(micro) /\ Distinct(Head(micro), c)
    BY <1>6, <1>7
  <2>2. c.ref = k /\ ContHolds(c)
    BY <1>4, <2>1 DEF Single, OneKill, Base, MicroInv
  <2> QED BY <1>1, <1>2, <1>3, <2>1, <2>2 DEF Distinct, ContHolds
<1>9. /\ DOMAIN kills' = DOMAIN kills /\ \A l \in DOMAIN kills' : kills'[l].phase # "drain"
  <2>1. kills'[k].phase = "over" /\ DOMAIN kills' = DOMAIN kills
    BY <1>2, <1>3
  <2>2. \A l \in DOMAIN kills : l # k => kills'[l] = kills[l] /\ kills[l].phase # "drain"
    BY <1>2, <1>4 DEF Single, OneKill
  <2> QED BY <2>1, <2>2
<1>10. Calm' = Calm /\ Detached' = Detached /\ ~KillTop' /\ \A f : ~Top(f)'
  BY <1>2 DEF Calm, Detached, Fresh, KillTop, Top, host
<1>11. OneKill'
  BY <1>8, <1>9, <1>10 DEF OneKill
<1>12. Quiescent'
  BY <1>4, <1>10 DEF Quiescent
<1>13. ASSUME Detached'
       PROVE  StartPending'
  <2>1. StartPending /\ ~Top("start") /\ ~Top("startBody")
    BY <1>2, <1>10, <1>13 DEF Single, Top
  <2>2. Micro("start")'
    BY <1>2, <1>4, <1>7, <2>1 DEF StartPending, Micro
  <2> QED BY <2>2 DEF StartPending
<1> QED BY <1>2, <1>10, <1>11, <1>12, <1>13 DEF Single

\* start() goes on after the kill it awaited.
LEMMA ResumeStartSingle ==
  ASSUME KernelAssumption, Base, Single, ResumeStart
  PROVE  Single'
<1>1. /\ stack = <<>> /\ Len(stack) <= 1 /\ micro # <<>> /\ Head(micro).k = "start" /\ micro' = Tail(micro)
      /\ stack' = <<[Frame("startBody") EXCEPT !.then = Head(micro).then]>>
      /\ UNCHANGED <<host, lifecycle>>
  BY DEF ResumeStart, Continue, Single
<1>2. PICK fr : fr = [Frame("startBody") EXCEPT !.then = Head(micro).then]
  OBVIOUS
<1>3. fr.f = "startBody"
  BY <1>2 DEF Frame
<1>4. Len(stack') <= 1 /\ Head(stack') = fr /\ \A f : Top(f)' <=> fr.f = f
  BY <1>1, <1>2, AlonePut DEF Base
<1>5. micro' = Tail(micro) \o <<>> /\ <<>> \in Seq(Conts) /\ Elements(<<>>) = {}
  BY <1>1 DEF Base, MicroInv, Elements, ToSet
<1>6. /\ \A c \in Elements(micro') : c \in Elements(micro)
      /\ \A c \in Elements(micro) : c = Head(micro) \/ c \in Elements(micro')
  BY <1>1, <1>5, TakenConts DEF Base
<1>7. Resuming /\ Calm /\ Calm'
  <2>1. Head(micro) \in Elements(micro)
    BY <1>1 DEF Base, MicroInv, Elements, ToSet
  <2>2. Resuming
    BY <1>1, <2>1 DEF Resuming, Micro
  <2> QED BY <1>1, <2>2 DEF Single, Quiescent, Calm, host
<1>8. ~KillTop'
  BY <1>3, <1>4 DEF KillTop, KillKinds
<1>9. OneKill'
  BY <1>1, <1>6, <1>8 DEF Single, OneKill, lifecycle
<1>10. Quiescent'
  <2>1. killPromise # 0 => Micro("killed")
    BY <1>7 DEF Single, Quiescent
  <2>2. killPromise' # 0 => Micro("killed")'
    BY <1>1, <1>6, <2>1 DEF Micro, lifecycle
  <2> QED BY <1>3, <1>4, <1>7, <2>2 DEF Quiescent
<1> QED BY <1>3, <1>4, <1>9, <1>10 DEF Single, StartPending

\* Every step keeps Single when no listener calls back.
LEMMA SinglePreserved ==
  ASSUME KernelAssumption, ~Reentrant, Base, Guest, Single, [Next]_vars
  PROVE  Single'
<1>1. CASE UNCHANGED vars
  BY <1>1 DEF vars, host, lifecycle, world, Single, OneKill, Quiescent, KillTop, Resuming, Micro, Calm,
              Unbooted, Detached, Fresh, StartPending, Top, Elements
<1>2. CASE Next
  <2>1. CASE \/ \E j \in Jobs : Exec(j) \/ CancelQueued(j) \/ CancelActive(j)
             \/ StartCall \/ Terminate \/ Restart
    BY <2>1, CallsSingle
  <2>2. CASE \E e \in DOMAIN boots : PreflightDone(e) \/ Ready(e) \/ BootFails(e)
    BY <2>2, BootStepsSingle
  <2>3. CASE \E e \in effects : BridgeSettles(e)
    BY <2>3, BridgeSettlesSingle
  <2>4. CASE \/ \E o \in {"completed", "failed", "cancelled"} : Finished(o)
             \/ WorkerFault \/ BeginHardCancellation \/ WallClock \/ BridgeRequest
    BY <2>4, EventsSingle
  <2>5. CASE PostExec \/ Defer \/ HardTerminate \/ StartNext \/ Dispatch
    BY <2>5, FramesSingle
  <2>6. CASE Finish \/ FinalizeHardCancellation
    BY <2>6, ReleaseSingle
  <2>7. CASE Start \/ JoinKill \/ StartBody \/ PerformKill \/ AwaitTasks \/ KillEnds
    BY <2>7, JoinSingle, StartBodySingle, PerformKillSingle, AwaitTasksSingle, KillEndsSingle
  <2>8. CASE \/ ResumeStart \/ ResumeDispatch \/ ResumeTerminate \/ ResumeRestart
             \/ PublishCrash \/ KillSettles \/ BootSettles
    BY <2>8, ResumeStartSingle, ResumeSingle, ResumeRestartSingle, PublishCrashSingle, KillSettlesSingle,
       BootSettlesSingle
  <2> QED BY <1>2, <2>1, <2>2, <2>3, <2>4, <2>5, <2>6, <2>7, <2>8 DEF Next, Run
<1> QED BY <1>1, <1>2

-------------------------------------------------------------------------------
(* Listeners without restart: bootPromise lets go of no boot that is under way.                   *)

\* Nothing resumes restart() when nobody calls it.
LEMMA NeverRestarts ==
  ASSUME "restart" \notin Interface, Base
  PROVE  ~Continue("restart")
<1>1. SUFFICES ASSUME micro # <<>>
               PROVE  Head(micro).k # "restart"
  BY DEF Continue
<1>2. Head(micro) \in Conts
  BY <1>1 DEF Base, MicroInv
<1> QED BY <1>2 DEF Conts, Resumptions

\* A boot in force that is not let go of makes the order of calls harmless.
LEMMA AttachedOrderly ==
  ASSUME "restart" \notin Interface, Base, ~Detached
  PROVE  Orderly
<1> QED BY NeverRestarts DEF Orderly

\* A step that leaves the boots as they are, or only moves one on.
LEMMA AttachedStill ==
  ASSUME ~Detached, UNCHANGED <<bootEpoch, bootPromise>>, DOMAIN boots' = DOMAIN boots,
         \A e \in DOMAIN boots : boots'[e].phase = "preflight" => boots[e].phase = "preflight"
  PROVE  ~Detached'
<1> QED BY DEF Detached, Fresh

\* No boot has the epoch that invalidates one.
LEMMA AttachedInvalidated ==
  ASSUME Base, InvalidateBoot, UNCHANGED boots
  PROVE  ~Detached'
<1>1. bootEpoch + 1 \notin DOMAIN boots
  BY DEF Base, BootsTyped
<1> QED BY <1>1 DEF InvalidateBoot, Detached, Fresh

\* Every step but the one of restart() keeps the boot in force attached.
LEMMA AttachedPreserved ==
  ASSUME "restart" \notin Interface, Base, ~Detached, [Next]_vars
  PROVE  ~Detached'
<1> USE DEF host, lifecycle, world
<1>0. boots \in Seq(BootRecords) /\ bootEpoch \in Nat /\ bootPromise \in Nat
  BY DEF Base, BootsTyped
<1>1. ASSUME UNCHANGED <<boots, bootEpoch, bootPromise>>
      PROVE  ~Detached'
  BY <1>1, AttachedStill
<1>2. ASSUME NEW j \in Jobs, Exec(j) \/ CancelQueued(j) \/ CancelActive(j)
      PROVE  ~Detached'
  <2>1. UNCHANGED <<boots, bootEpoch, bootPromise>>
    BY <1>2 DEF Exec, CancelQueued, CancelActive
  <2> QED BY <1>1, <2>1
<1>3. ASSUME StartCall \/ Terminate \/ Restart
      PROVE  ~Detached'
  <2>1. UNCHANGED <<boots, bootEpoch, bootPromise>>
    BY <1>3 DEF StartCall, Terminate, Restart, Call
  <2> QED BY <1>1, <2>1
<1>4. ASSUME NEW e \in DOMAIN boots, PreflightDone(e) \/ Ready(e)
      PROVE  ~Detached'
  <2>1. PICK r : /\ boots' = [boots EXCEPT ![e] = r] /\ r.phase # "preflight"
                 /\ UNCHANGED <<bootEpoch, bootPromise>>
    <3>1. boots[e] \in BootRecords
      BY <1>0
    <3>2. ASSUME boots' = [boots EXCEPT ![e].phase = "handshake"]
          PROVE  /\ boots' = [boots EXCEPT ![e] = [boots[e] EXCEPT !.phase = "handshake"]]
                 /\ [boots[e] EXCEPT !.phase = "handshake"].phase # "preflight"
      BY <3>1, <3>2 DEF BootRecords
    <3>3. ASSUME boots' = [boots EXCEPT ![e].phase = "ready"]
          PROVE  /\ boots' = [boots EXCEPT ![e] = [boots[e] EXCEPT !.phase = "ready"]]
                 /\ [boots[e] EXCEPT !.phase = "ready"].phase # "preflight"
      BY <3>1, <3>3 DEF BootRecords
    <3>4. [phase |-> "dead", waiters |-> <<>>].phase # "preflight"
      OBVIOUS
    <3>5. UNCHANGED <<bootEpoch, bootPromise>>
      BY <1>4 DEF PreflightDone, Ready
    <3>6. CASE boots' = [boots EXCEPT ![e].phase = "handshake"]
      BY <3>2, <3>5, <3>6
    <3>7. CASE boots' = [boots EXCEPT ![e].phase = "ready"]
      BY <3>3, <3>5, <3>7
    <3>8. CASE boots' = [boots EXCEPT ![e] = [phase |-> "dead", waiters |-> <<>>]]
      BY <3>4, <3>5, <3>8
    <3> QED BY <1>4, <3>6, <3>7, <3>8 DEF PreflightDone, Ready
  <2>2. /\ DOMAIN boots' = DOMAIN boots
        /\ \A d \in DOMAIN boots : boots'[d].phase = "preflight" => boots[d].phase = "preflight"
    BY <1>0, <2>1
  <2> QED BY <2>1, <2>2, AttachedStill
<1>5. ASSUME NEW e \in DOMAIN boots, BootFails(e)
      PROVE  ~Detached'
  <2>1. bootEpoch' = e /\ boots'[e].phase = "dead"
    BY <1>0, <1>5 DEF BootFails
  <2> QED BY <2>1 DEF Detached, Fresh
<1>6. ASSUME BridgeRequest \/ (\E e \in effects : BridgeSettles(e)) \/ WorkerFault
             \/ (\E o \in {"completed", "failed", "cancelled"} : Finished(o))
             \/ BeginHardCancellation \/ WallClock
      PROVE  ~Detached'
  <2>1. UNCHANGED <<boots, bootEpoch, bootPromise>>
    BY <1>6 DEF BridgeRequest, BridgeSettles, WorkerFault, Finished, BeginHardCancellation, WallClock
  <2> QED BY <1>1, <2>1
<1>7. ASSUME \/ Start \/ Dispatch \/ PostExec \/ Defer \/ StartNext \/ HardTerminate \/ JoinKill
             \/ AwaitTasks \/ KillEnds \/ ResumeStart \/ ResumeDispatch \/ ResumeTerminate
             \/ PublishCrash \/ KillSettles
      PROVE  ~Detached'
  <2>1. UNCHANGED <<boots, bootEpoch, bootPromise>>
    BY <1>7 DEF Start, Dispatch, PostExec, Defer, StartNext, HardTerminate, JoinKill, AwaitTasks,
                KillEnds, ResumeStart, ResumeDispatch, ResumeTerminate, PublishCrash, KillSettles
  <2> QED BY <1>1, <2>1
<1>8. ASSUME Finish \/ FinalizeHardCancellation \/ PerformKill
      PROVE  ~Detached'
  <2>1. UNCHANGED boots /\ (InvalidateBoot \/ UNCHANGED <<bootEpoch, bootPromise>>)
    BY <1>8 DEF Finish, FinalizeHardCancellation, PerformKill
  <2> QED BY <1>1, <2>1, AttachedInvalidated
<1>9. ASSUME StartBody
      PROVE  ~Detached'
  <2>1. CASE bootPromise' = bootEpoch + 1
    BY <1>0, <2>1 DEF Detached
  <2>2. CASE UNCHANGED <<boots, bootEpoch, bootPromise>>
    BY <1>1, <2>2
  <2>3. CASE UNCHANGED bootPromise /\ bootPromise # 0
    BY <2>3 DEF Detached
  <2> QED BY <1>9, <2>1, <2>2, <2>3 DEF StartBody
<1>10. ASSUME BootSettles
       PROVE  ~Detached'
  <2>1. PICK e, r : /\ boots' = [boots EXCEPT ![e] = r] /\ r.phase # "preflight"
                    /\ UNCHANGED <<bootEpoch, bootPromise>>
    <3>1. PICK p, e : /\ boots' = [boots EXCEPT ![e] = [phase |-> p, waiters |-> <<>>]]
                      /\ p \in {"done", "dead"} /\ UNCHANGED <<bootEpoch, bootPromise>>
      BY <1>10 DEF BootSettles
    <3>2. [phase |-> p, waiters |-> <<>>].phase # "preflight"
      BY <3>1
    <3> QED BY <3>1, <3>2
  <2>2. /\ DOMAIN boots' = DOMAIN boots
        /\ \A d \in DOMAIN boots : boots'[d].phase = "preflight" => boots[d].phase = "preflight"
    BY <1>0, <2>1
  <2> QED BY <2>1, <2>2, AttachedStill
<1>11. CASE UNCHANGED vars
  BY <1>1, <1>11 DEF vars
<1>12. ~ResumeRestart
  BY NeverRestarts DEF ResumeRestart
<1> QED BY <1>2, <1>3, <1>4, <1>5, <1>6, <1>7, <1>8, <1>9, <1>10, <1>11, <1>12 DEF Next, Run

\* The host starts without a worker.
LEMMA GuestInitially ==
  ASSUME Init
  PROVE  Guest
<1>1. stack = <<>> /\ Elements(stack) = {} /\ DOMAIN boots = {} /\ DOMAIN cell = {} /\ EffectsOf(job) = {}
  BY DEF Init, Elements, ToSet, EffectsOf
<1>2. BootInv
  BY <1>1 DEF Init, BootInv, Booting, Fresh
<1>3. CellInv
  BY <1>1 DEF Init, CellInv
<1>4. GuestInv
  BY <1>1 DEF Init, GuestInv, HardTop, Idle
<1> QED BY <1>2, <1>3, <1>4 DEF Guest

\* The host starts without a boot.
LEMMA AttachedInitially ==
  ASSUME Init
  PROVE  ~Detached
<1> QED BY DEF Init, Detached, Fresh

-------------------------------------------------------------------------------
(* The theorems.                                                                                  *)

\* The host's state is well typed: the worker and the boot that start() joins are at most the
\* epoch in force, the kill it joins is one of the attempts, activeProtocol is that of the job, and
\* every live worker has its cell (kernel-host.ts, the fields of the class).
THEOREM TypesHold ==
  ASSUME KernelAssumption
  PROVE  Spec => []TypeOK
<1>1. Init => Base
  BY BaseInitially
<1>2. Base /\ [Next]_vars => Base'
  BY BasePreserved
<1>3. Base => TypeOK
  BY DEF Base, HostInv, HostTyped, BootsTyped, KillsTyped, Protocols, TypeOK
<1> QED BY <1>1, <1>2, <1>3, PTL DEF Spec

\* For any jobs, budgets, listeners and faults: a tool effect that a job started through the bridge
\* is over before the job's promise settles (onWorkerMessage, performKillWorker).
THEOREM EffectsComeFirst ==
  ASSUME KernelAssumption
  PROVE  Spec => []EffectsPrecedeResults
<1>1. Init => Base
  BY BaseInitially
<1>2. Base /\ [Next]_vars => Base'
  BY BasePreserved
<1>3. Base => EffectsPrecedeResults
  BY DEF Base, HostInv, EffectsHeld, EffectsPrecedeResults
<1> QED BY <1>1, <1>2, <1>3, PTL DEF Spec

\* For any jobs, budgets, listeners and faults: once cancel() has answered true the job ends
\* cancelled or crashed, never with a value it returned (cancel, onWorkerMessage).
THEOREM CancellationsHold ==
  ASSUME KernelAssumption
  PROVE  Spec => []CancellationIsFinal
<1>1. Init => Base
  BY BaseInitially
<1>2. Base /\ [Next]_vars => Base'
  BY BasePreserved
<1>3. Base => CancellationIsFinal
  BY DEF Base, HostInv, StopsHeld, StopHeld, CancellationIsFinal
<1> QED BY <1>1, <1>2, <1>3, PTL DEF Spec

\* For any jobs, budgets, listeners and faults: an armed wall clock or cancellation grace is that
\* of the job being run (dispatch, cancel, finish, performKillWorker).
THEOREM TimersHold ==
  ASSUME KernelAssumption
  PROVE  Spec => []TimersBelongToTheJob
<1>1. Init => Base
  BY BaseInitially
<1>2. Base /\ [Next]_vars => Base'
  BY BasePreserved
<1>3. Base => TimersBelongToTheJob
  BY DEF Base, HostInv, Timed, TimersBelongToTheJob
<1> QED BY <1>1, <1>2, <1>3, PTL DEF Spec

\* The two halves of containment.
LEMMA AllContained ==
  ASSUME Base, Guest
  PROVE  JobsAreContained
<1> QED BY Contained DEF Base, HostInv, EffectsHeld, StopsHeld, StopHeld, Timed, EffectsPrecedeResults,
             CancellationIsFinal, TimersBelongToTheJob, JobsAreContained

\* Containment when no listener calls back into the host.
LEMMA ContainedAlone ==
  ASSUME KernelAssumption, ~Reentrant
  PROVE  Spec => []JobsAreContained
<1> DEFINE Inv == Base /\ Guest /\ Single
<1>1. Init => Inv
  BY BaseInitially, GuestInitially, SingleInitially
<1>2. Inv /\ [Next]_vars => Inv'
  BY BasePreserved, GuestPreserved, SinglePreserved, SingleOrderly
<1>3. Inv => JobsAreContained
  BY AllContained
<1> QED BY <1>1, <1>2, <1>3, PTL DEF Spec

\* Containment when nobody calls restart().
LEMMA ContainedAttached ==
  ASSUME KernelAssumption, "restart" \notin Interface
  PROVE  Spec => []JobsAreContained
<1> DEFINE Inv == Base /\ Guest /\ ~Detached
<1>1. Init => Inv
  BY BaseInitially, GuestInitially, AttachedInitially
<1>2. Inv /\ [Next]_vars => Inv'
  BY BasePreserved, GuestPreserved, AttachedPreserved, AttachedOrderly
<1>3. Inv => JobsAreContained
  BY AllContained
<1> QED BY <1>1, <1>2, <1>3, PTL DEF Spec

\* Nothing a job does outlives its result: its effects, its cancellation, its worker and its
\* timers.  The part about the worker needs one of the two hypotheses: with a listener that calls
\* back and restart() together, restart() may let go of a boot another caller began, and a second
\* worker is then started beside the first (finish, performKillWorker, restart).
THEOREM JobsStayContained ==
  ASSUME KernelAssumption, ~Reentrant \/ "restart" \notin Interface
  PROVE  Spec => []JobsAreContained
<1> QED BY ContainedAlone, ContainedAttached

\* To settle a pending job replaces no result.
LEMMA PendingSettle ==
  ASSUME NEW S, NEW o, Settle(S, o), \A j \in Jobs : j \in S => outcome[j] = "pending"
  PROVE  SettlesOnce
<1> QED BY DEF Settle, SettlesOnce, Settled

\* Every queued job is pending.
LEMMA QueueSettle ==
  ASSUME Base, NEW o, Settle(Elements(queue), o)
  PROVE  SettlesOnce
<1>1. \A j \in Elements(queue) : outcome[j] = "pending"
  BY DEF Base, HostInv, Owned, Elements, ToSet
<1> QED BY <1>1, PendingSettle

\* What each step settles was pending.
LEMMA StepSettlesOnce ==
  ASSUME KernelAssumption, Base, Next
  PROVE  SettlesOnce
<1> USE DEF host, lifecycle, world
<1>1. ASSUME UNCHANGED outcome
      PROVE  SettlesOnce
  BY <1>1 DEF SettlesOnce
<1>2. ASSUME NEW j \in Jobs, Exec(j)
      PROVE  SettlesOnce
  <2>1. outcome[j] = "idle" /\ \A i \in Jobs : i # j => outcome'[i] = outcome[i]
    BY <1>2 DEF Exec, Base, HostInv, HostTyped
  <2> QED BY <2>1 DEF SettlesOnce, Settled
<1>3. ASSUME NEW j \in Jobs, CancelQueued(j)
      PROVE  SettlesOnce
  <2>1. PICK i \in DOMAIN queue : queue[i] = j
    BY <1>3 DEF CancelQueued
  <2>2. outcome[j] = "pending" /\ Settle({j}, "cancelled")
    BY <1>3, <2>1 DEF CancelQueued, Base, HostInv, Owned
  <2> QED BY <2>2, PendingSettle
<1>4. ASSUME NEW j \in Jobs, CancelActive(j)
      PROVE  SettlesOnce
  <2>1. UNCHANGED outcome
    BY <1>4 DEF CancelActive
  <2> QED BY <1>1, <2>1
<1>5. ASSUME StartCall \/ Terminate \/ Restart
      PROVE  SettlesOnce
  <2>1. UNCHANGED outcome
    BY <1>5 DEF StartCall, Terminate, Restart, Call
  <2> QED BY <1>1, <2>1
<1>6. ASSUME NEW e \in DOMAIN boots, PreflightDone(e) \/ Ready(e) \/ BootFails(e)
      PROVE  SettlesOnce
  <2>1. UNCHANGED outcome \/ Settle(Elements(queue), "rejected")
    BY <1>6 DEF PreflightDone, Ready, BootFails
  <2> QED BY <1>1, <2>1, QueueSettle
<1>7. ASSUME \/ BridgeRequest \/ (\E e \in effects : BridgeSettles(e)) \/ WorkerFault \/ WallClock
             \/ (\E o \in {"completed", "failed", "cancelled"} : Finished(o)) \/ BeginHardCancellation
      PROVE  SettlesOnce
  <2>1. UNCHANGED outcome \/ Settle(Elements(queue), "cancelled")
    BY <1>7 DEF BridgeRequest, BridgeSettles, WorkerFault, WallClock, Finished, BeginHardCancellation
  <2> QED BY <1>1, <2>1, QueueSettle
<1>8. ASSUME \/ Start \/ StartBody \/ Dispatch \/ PostExec \/ Defer \/ StartNext \/ HardTerminate \/ JoinKill
             \/ KillEnds \/ ResumeStart \/ ResumeDispatch \/ ResumeTerminate \/ ResumeRestart
             \/ KillSettles \/ BootSettles
      PROVE  SettlesOnce
  <2>1. UNCHANGED outcome
    BY <1>8 DEF Start, StartBody, Dispatch, PostExec, Defer, StartNext, HardTerminate, JoinKill,
                KillEnds, ResumeStart, ResumeDispatch, ResumeTerminate, ResumeRestart, KillSettles, BootSettles
  <2> QED BY <1>1, <2>1
<1>9. ASSUME PerformKill
      PROVE  SettlesOnce
  <2>1. Settle(Elements(queue), "cancelled")
    BY <1>9 DEF PerformKill
  <2> QED BY <2>1, QueueSettle
<1>10. ASSUME Finish \/ FinalizeHardCancellation
       PROVE  SettlesOnce
  <2>1. UNCHANGED outcome \/ (\E o : Settle({job}, o))
    <3>1. CASE Finish
      BY <3>1 DEF Finish
    <3>2. CASE FinalizeHardCancellation
      BY <3>2 DEF FinalizeHardCancellation
    <3> QED BY <1>10, <3>1, <3>2
  <2>2. \A j \in Jobs : j \in {job} => outcome[j] = "pending"
    BY DEF Base, HostInv, Owned, KernelAssumption
  <2> QED BY <1>1, <2>1, <2>2, PendingSettle
<1>11. ASSUME AwaitTasks
       PROVE  SettlesOnce
  <2>1. PICK fr : fr = Head(stack)
    OBVIOUS
  <2>2. fr \in Elements(stack) /\ fr.f = "killed"
    BY <1>11, <2>1 DEF AwaitTasks, Top, Base, StackInv, Elements, ToSet
  <2>3. kills[fr.ref].job # None => outcome[kills[fr.ref].job] = "pending"
    BY <2>2 DEF Base, StackInv, FrameHolds
  <2>4. UNCHANGED outcome \/ Settle({kills[fr.ref].job}, "crashed")
    BY <1>11, <2>1 DEF AwaitTasks
  <2> QED BY <1>1, <2>3, <2>4, PendingSettle DEF KernelAssumption
<1>12. ASSUME PublishCrash
       PROVE  SettlesOnce
  <2>1. PICK c : c = Head(micro)
    OBVIOUS
  <2>2. c \in Elements(micro) /\ c.k = "publish"
    BY <1>12, <2>1 DEF PublishCrash, Continue, Base, MicroInv, Elements, ToSet
  <2>3. outcome[kills[c.ref].job] = "pending"
    BY <2>2 DEF Base, MicroInv, ContHolds
  <2>4. Settle({kills[c.ref].job}, "crashed")
    BY <1>12, <2>1 DEF PublishCrash
  <2> QED BY <2>3, <2>4, PendingSettle
<1> QED BY <1>2, <1>3, <1>4, <1>5, <1>6, <1>7, <1>8, <1>9, <1>10, <1>11, <1>12 DEF Next, Run

\* A promise of exec settles once and keeps its result, whichever of the worker's frame, the
\* timers, cancel(), terminate() and restart() come together (finish, performKillWorker, cancel).
THEOREM JobsSettleOnce ==
  ASSUME KernelAssumption
  PROVE  Spec => [][SettlesOnce]_vars
<1>1. Init => Base
  BY BaseInitially
<1>2. Base /\ [Next]_vars => Base'
  BY BasePreserved
<1>3. Base /\ [Next]_vars => [SettlesOnce]_vars
  BY StepSettlesOnce
<1> QED BY <1>1, <1>2, <1>3, PTL DEF Spec
===============================================================================
